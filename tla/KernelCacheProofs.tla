------------------------- MODULE KernelCacheProofs --------------------------
(***************************************************************************)
(* The decision cache of KernelCache is sound for any flows, configurations *)
(* and number of activations, crashes and reboots, where the engine can     *)
(* vouch for it: see SoundScenarios.                                        *)
(***************************************************************************)
EXTENDS KernelCache, TLAPS

\* Nothing fails; or anything may fail on an inspection appliance within one boot
\* of the kernel. (The M1/M2 path puts a configuration back under the epoch of
\* the one that failed, and a snapshot that is put back after a reboot carries an
\* epoch of the boot before.)
SoundScenarios ==
  \A sc \in Scenarios : ~sc.faults \/ (sc.path = "bundle" /\ ~sc.reboots)

Ruleset == [config : Config, epoch : Nat]
Recovery == [previous : Ruleset, desired : Config]
PC == {"down", "startup", "idle", "install", "save", "undo", "publish", "unpublished",
       "compensate", "ready"}
Then == {"publish", "idle", "ready"}
Job == [pc : PC, target : Ruleset \cup {None}, back : Ruleset \cup {None}, then : Then]
FlowState == [state : {"none", "new", "established"}, mark : Nat]

TypeInv ==
  /\ scenario \in Scenarios
  /\ boot \in Nat /\ file \in [boot : Nat, highest : Nat]
  /\ highest \in Nat \cup {None}
  /\ rules \in Ruleset \cup {None}
  /\ flows \in [Flow -> FlowState]
  /\ running \in Config /\ applied \in Ruleset
  /\ journal \in Recovery \cup {None} /\ recovery \in Recovery \cup {None}
  /\ job \in Job

\* Without faults nothing is ever put back.
FaultInv ==
  /\ job.pc \in {"undo", "unpublished"} => scenario.faults
  /\ job.pc \in {"install", "save", "undo", "publish"} =>
       job.target \in Ruleset /\ job.back \in Ruleset

\* The rulesets that are installed or can still be installed: what an apply is
\* about to install and, if it may fail, every snapshot that can be put back.
Installable ==
  ({rules, job.target}
     \cup (IF scenario.faults
             THEN {applied, job.back}
                    \cup (IF journal = None THEN {} ELSE {journal.previous})
                    \cup (IF recovery = None THEN {} ELSE {recovery.previous})
             ELSE {})) \ {None}

\* The highest epoch of this boot that the file knows of.
Recorded == IF file.boot = boot THEN file.highest ELSE 0

\* Nothing in use is above n.
Below(n) ==
  /\ \A r \in Installable : r.epoch <= n
  /\ \A f \in Flow : flows[f].mark <= n

\* An epoch the allocator hands out next has not been used in this boot.
EpochInv ==
  /\ Below(Recorded)
  /\ highest # None => Below(highest) /\ highest <= Recorded

\* An epoch stands for one configuration, among the rulesets that are or can be
\* installed, and for one that allows the flows that carry it.
OwnerInv ==
  /\ \A r, q \in Installable : r.epoch = q.epoch /\ r.epoch > 0 => r.config = q.config
  /\ \A r \in Installable, f \in Flow :
       flows[f].mark = r.epoch /\ r.epoch > 0 => f \in Allowed[r.config]

CacheInv == TypeInv /\ FaultInv /\ EpochInv /\ OwnerInv

-----------------------------------------------------------------------------
\* A step that makes no ruleset installable and sets no mark keeps the epochs
\* apart, as long as the file does not forget.
LEMMA NothingNew ==
  ASSUME TypeInv, EpochInv, OwnerInv, Installable' \subseteq Installable,
         \A f \in Flow : flows'[f].mark \in {flows[f].mark, 0},
         \A r \in Installable' : r.epoch \in Nat,
         Below(Recorded)', highest' # None => Below(highest)' /\ highest' <= Recorded'
  PROVE  EpochInv' /\ OwnerInv'
<1>1. EpochInv'
  BY DEF EpochInv
<1>2. ASSUME NEW r \in Installable', NEW f \in Flow, flows'[f].mark = r.epoch, r.epoch > 0
      PROVE  f \in Allowed[r.config]
  <2>1. flows'[f].mark = flows[f].mark
    BY <1>2
  <2> QED BY <1>2, <2>1 DEF OwnerInv
<1>3. ASSUME NEW r \in Installable', NEW q \in Installable', r.epoch = q.epoch, r.epoch > 0
      PROVE  r.config = q.config
  BY <1>3 DEF OwnerInv
<1> QED BY <1>1, <1>2, <1>3 DEF OwnerInv

\* Such a step that leaves epochs and flows alone.
LEMMA Quiet ==
  ASSUME TypeInv, EpochInv, OwnerInv, Installable' \subseteq Installable,
         UNCHANGED <<flows, boot, file>>, highest' \in {highest, None}
  PROVE  EpochInv' /\ OwnerInv'
<1>1. Recorded' = Recorded
  BY DEF Recorded
<1>2. Below(Recorded)'
  BY <1>1 DEF Below, EpochInv
<1>3. highest' # None => Below(highest)' /\ highest' <= Recorded'
  BY <1>1 DEF Below, EpochInv
<1>4. /\ \A r, q \in Installable' : r.epoch = q.epoch /\ r.epoch > 0 => r.config = q.config
      /\ \A r \in Installable', f \in Flow :
           flows'[f].mark = r.epoch /\ r.epoch > 0 => f \in Allowed[r.config]
  BY DEF OwnerInv
<1> QED BY <1>2, <1>3, <1>4 DEF EpochInv, OwnerInv

LEMMA InstallableType == TypeInv => Installable \subseteq Ruleset
BY DEF TypeInv, Installable, Job, Recovery

LEMMA JobType ==
  /\ Idle \in Job /\ Idle.pc = "idle" /\ Idle.target = None /\ Idle.back = None
  /\ Down \in Job /\ Down.pc = "down" /\ Down.target = None /\ Down.back = None
  /\ \A pc \in PC : /\ [Idle EXCEPT !.pc = pc] \in Job /\ [Idle EXCEPT !.pc = pc].pc = pc
                    /\ [Idle EXCEPT !.pc = pc].target = None
                    /\ [Idle EXCEPT !.pc = pc].back = None
                    /\ [Down EXCEPT !.pc = pc] \in Job /\ [Down EXCEPT !.pc = pc].pc = pc
                    /\ [Down EXCEPT !.pc = pc].target = None
                    /\ [Down EXCEPT !.pc = pc].back = None
BY DEF Idle, Down, Job, PC, Then

\* An apply that failed leaves nothing behind in its job.
LEMMA FailedType ==
  ASSUME NEW then \in Then
  PROVE  /\ Failed(then) \in Job /\ Failed(then).target = None /\ Failed(then).back = None
         /\ Failed(then).pc \in {"compensate", "idle", "down"}
<1>1. Failed(then) \in {[Idle EXCEPT !.pc = "compensate"], Idle, Down}
  BY DEF Failed, Then
<1>2. "compensate" \in PC
  BY DEF PC
<1> QED BY <1>1, <1>2, JobType

\* An epoch that is handed out is above everything the boot has used.
LEMMA AllocateStep ==
  ASSUME TypeInv, highest # None => highest <= Recorded, NEW epoch, epoch \in Nat,
         Allocate(epoch), boot' = boot
  PROVE  /\ file' \in [boot : Nat, highest : Nat] /\ highest' \in Nat \cup {None}
         /\ epoch <= Recorded'
         /\ highest' # None => epoch <= highest' /\ highest' <= Recorded'
         /\ \A e \in Nat :
              e <= Recorded /\ (highest # None => e <= highest)
                => /\ e <= Recorded' /\ (highest' # None => e <= highest')
                   /\ epoch > 0 => e < epoch
<1>1. CASE highest = None \/ highest = MaxEpoch
  <2>1. epoch = 0 /\ file' = file /\ highest' = highest
    BY <1>1 DEF Allocate
  <2>2. Recorded' = Recorded /\ Recorded \in Nat
    BY <2>1 DEF Recorded, TypeInv
  <2> QED BY <2>1, <2>2 DEF TypeInv
<1>2. CASE ~(highest = None \/ highest = MaxEpoch)
  <2>1. highest \in Nat /\ Recorded \in Nat
    BY <1>2 DEF TypeInv, Recorded
  <2>2. CASE /\ epoch = highest + 1 /\ highest' = epoch
             /\ file' = [boot |-> boot, highest |-> epoch]
    <3>1. Recorded' = epoch
      BY <2>2 DEF Recorded
    <3>2. file' \in [boot : Nat, highest : Nat]
      BY <2>2 DEF TypeInv
    <3> QED BY <1>2, <2>1, <2>2, <3>1, <3>2
  <2>3. CASE /\ epoch = 0 /\ highest' = highest
             /\ file' \in {file, [boot |-> boot, highest |-> highest + 1]}
    <3>1. Recorded' \in {Recorded, highest + 1}
      BY <2>3 DEF Recorded
    <3>2. file' \in [boot : Nat, highest : Nat]
      BY <2>1, <2>3 DEF TypeInv
    <3> QED BY <1>2, <2>1, <2>3, <3>1, <3>2
  <2> QED BY <1>2, <2>2, <2>3 DEF Allocate
<1> QED BY <1>1, <1>2

\* One ruleset may become installable, if it is one already or has the epoch that
\* was handed out with it.
LEMMA NewRuleset ==
  ASSUME TypeInv, EpochInv, OwnerInv, NEW epoch \in Nat, Allocate(epoch),
         UNCHANGED <<boot, flows>>, NEW t, t \in Ruleset,
         t \in Installable \/ t.epoch = epoch,
         Installable' \subseteq Installable \cup {t}
  PROVE  EpochInv' /\ OwnerInv'
<1>1. /\ \A r \in Installable : r.epoch \in Nat /\ r.epoch <= Recorded
      /\ \A f \in Flow : flows[f].mark \in Nat /\ flows[f].mark <= Recorded
      /\ highest # None => /\ highest <= Recorded
                           /\ \A r \in Installable : r.epoch <= highest
                           /\ \A f \in Flow : flows[f].mark <= highest
  BY InstallableType DEF EpochInv, Below, TypeInv, Ruleset, FlowState
<1>2. /\ epoch <= Recorded'
      /\ highest' # None => epoch <= highest' /\ highest' <= Recorded'
      /\ \A e \in Nat :
           e <= Recorded /\ (highest # None => e <= highest)
             => /\ e <= Recorded' /\ (highest' # None => e <= highest')
                /\ epoch > 0 => e < epoch
  BY <1>1, AllocateStep
<1>3. ASSUME NEW r \in Installable
      PROVE  /\ r.epoch <= Recorded' /\ (highest' # None => r.epoch <= highest')
             /\ epoch > 0 => r.epoch < epoch
  BY <1>1, <1>2
<1>4. ASSUME NEW f \in Flow
      PROVE  /\ flows[f].mark <= Recorded' /\ (highest' # None => flows[f].mark <= highest')
             /\ epoch > 0 => flows[f].mark < epoch
  BY <1>1, <1>2
<1>5. EpochInv'
  BY <1>2, <1>3, <1>4 DEF EpochInv, Below
<1>6. t.epoch \in Nat
  BY DEF Ruleset
<1>7. ASSUME NEW r \in Installable', NEW q \in Installable', r.epoch = q.epoch, r.epoch > 0
      PROVE  r.config = q.config
  <2>1. CASE t \in Installable
    BY <1>7, <2>1 DEF OwnerInv
  <2>2. CASE t.epoch = epoch
    <3>1. r.epoch \in Nat /\ q.epoch \in Nat
      BY <1>1, <1>6
    <3>2. r = q \/ (r \in Installable /\ q \in Installable)
      BY <1>1, <1>3, <1>7, <2>2, <3>1
    <3> QED BY <1>7, <3>2 DEF OwnerInv
  <2> QED BY <2>1, <2>2
<1>8. ASSUME NEW r \in Installable', NEW f \in Flow, flows[f].mark = r.epoch, r.epoch > 0
      PROVE  f \in Allowed[r.config]
  <2>1. r \in Installable
    BY <1>1, <1>4, <1>6, <1>8
  <2> QED BY <1>8, <2>1 DEF OwnerInv
<1> QED BY <1>5, <1>7, <1>8 DEF OwnerInv

\* compileOptions and the journal: the target is new or journalled, and what is
\* kept to be put back is a snapshot that could be installed before.
LEMMA BeginStep ==
  ASSUME SoundScenarios, CacheInv, NEW config \in Config,
         NEW snapshot, snapshot \in Installable \cup {None}, NEW then \in Then,
         Begin(config, snapshot, then),
         UNCHANGED <<scenario, kernel, running, applied, recovery>>
  PROVE  CacheInv'
<1>1. PICK epoch \in 0 .. MaxEpoch :
        /\ Allocate(epoch)
        /\ IF Acceptable(config)
           THEN /\ job' = [pc |-> "install", back |-> Back(epoch), then |-> then,
                           target |-> IF snapshot # None THEN snapshot
                                      ELSE [config |-> config, epoch |-> epoch]]
                /\ journal' = IF recovery # None THEN journal
                              ELSE [previous |-> Back(epoch), desired |-> config]
           ELSE job' = Failed(then) /\ UNCHANGED journal
  BY DEF Begin
<1>2. /\ TypeInv /\ EpochInv /\ OwnerInv /\ epoch \in Nat
      /\ UNCHANGED <<scenario, boot, rules, flows, running, applied, recovery>>
  BY DEF CacheInv, kernel
<1>3. file' \in [boot : Nat, highest : Nat] /\ highest' \in Nat \cup {None}
  BY <1>1, <1>2, AllocateStep DEF EpochInv
<1>4. scenario.faults => scenario.path = "bundle"
  BY <1>2 DEF SoundScenarios, TypeInv
<1>5. CASE ~Acceptable(config)
  <2>1. /\ job' \in Job /\ job'.target = None /\ job'.back = None
        /\ job'.pc \in {"compensate", "idle", "down"} /\ journal' = journal
    BY <1>1, <1>5, FailedType
  <2>2. TypeInv' /\ FaultInv'
    BY <1>2, <1>3, <2>1 DEF TypeInv, FaultInv
  <2>3. Installable' \subseteq Installable
    BY <1>2, <2>1 DEF Installable
  <2>4. EpochInv' /\ OwnerInv'
    <3> DEFINE t == [config |-> config, epoch |-> epoch]
    <3>1. t \in Ruleset /\ t.epoch = epoch
      BY <1>2 DEF Ruleset
    <3> HIDE DEF t
    <3> QED BY <1>1, <1>2, <2>3, <3>1, NewRuleset
  <2> QED BY <2>2, <2>4 DEF CacheInv
<1>6. CASE Acceptable(config)
  <2> DEFINE t == IF snapshot # None THEN snapshot ELSE [config |-> config, epoch |-> epoch]
             b == Back(epoch)
  <2>1. t \in Ruleset /\ (t \in Installable \/ t.epoch = epoch)
    BY <1>2, InstallableType DEF Ruleset
  <2>2. b \in Ruleset /\ (scenario.faults => b \in Installable \cup {None})
    <3> DEFINE previous == IF recovery = None THEN applied ELSE recovery.previous
    <3>1. previous \in Ruleset
      BY <1>2 DEF TypeInv, Recovery
    <3>2. scenario.faults => previous \in Installable \cup {None}
      BY DEF Installable
    <3>3. b = IF scenario.path = "bundle" THEN previous
              ELSE [config |-> previous.config, epoch |-> epoch]
      BY DEF Back
    <3> HIDE DEF previous, b
    <3> QED BY <1>2, <1>4, <3>1, <3>2, <3>3 DEF Ruleset
  <2>3. /\ job' = [pc |-> "install", back |-> b, then |-> then, target |-> t]
        /\ journal' = IF recovery # None THEN journal
                      ELSE [previous |-> b, desired |-> config]
    BY <1>1, <1>6
  <2> HIDE DEF t, b
  <2>4. job' \in Job /\ job'.pc = "install" /\ job'.target = t /\ job'.back = b
    BY <2>1, <2>2, <2>3 DEF Job, PC
  <2>5. /\ journal' \in Recovery \cup {None}
        /\ journal' # None => journal' = journal \/ journal'.previous = b
    BY <1>2, <2>2, <2>3 DEF TypeInv, Recovery
  <2>6. TypeInv'
    BY <1>2, <1>3, <2>4, <2>5 DEF TypeInv
  <2>7. Installable' \subseteq Installable \cup {t}
    BY <1>2, <2>2, <2>4, <2>5 DEF Installable
  <2>8. EpochInv' /\ OwnerInv'
    BY <1>1, <1>2, <2>1, <2>7, NewRuleset
  <2>9. FaultInv'
    BY <2>1, <2>2, <2>4 DEF FaultInv
  <2> QED BY <2>6, <2>8, <2>9 DEF CacheInv
<1> QED BY <1>5, <1>6

\* A packet stamps its connection with the epoch of a ruleset that allows it.
LEMMA PacketStep ==
  ASSUME PolicyAssumption, CacheInv, NEW f \in Flow, Packet(f)
  PROVE  CacheInv'
<1>1. /\ TypeInv /\ FaultInv /\ EpochInv /\ OwnerInv /\ rules \in Ruleset /\ rules # None
      /\ UNCHANGED <<scenario, boot, rules, file, highest, running, applied, journal,
                     recovery, job>>
  BY DEF CacheInv, Packet, epochs, TypeInv
<1>2. PICK s \in {"none", "new", "established"},
           m \in {flows[f].mark} \cup {e \in {rules.epoch} : f \in Marked[rules.config]} :
        flows' = [flows EXCEPT ![f] = [state |-> s, mark |-> m]]
  <2> DEFINE s == IF flows[f].state = "none" THEN "new" ELSE "established"
             m == IF ~CacheHit(f) /\ rules.epoch > 0 /\ f \in Marked[rules.config]
                    THEN rules.epoch ELSE flows[f].mark
  <2>1. flows' = [flows EXCEPT ![f] = [state |-> s, mark |-> m]]
    BY <1>1 DEF Packet, TypeInv
  <2>2. m \in {flows[f].mark} \cup {e \in {rules.epoch} : f \in Marked[rules.config]}
    OBVIOUS
  <2> HIDE DEF m
  <2> QED BY <2>1, <2>2
<1>3. m \in Nat /\ (m = flows[f].mark \/ (m = rules.epoch /\ f \in Allowed[rules.config]))
  BY <1>1, <1>2 DEF PolicyAssumption, TypeInv, FlowState, Ruleset
<1>4. /\ flows' \in [Flow -> FlowState]
      /\ \A g \in Flow : flows'[g].mark = IF g = f THEN m ELSE flows[g].mark
  <2>1. [state |-> s, mark |-> m] \in FlowState
    BY <1>2, <1>3 DEF FlowState
  <2>2. flows \in [Flow -> FlowState]
    BY <1>1 DEF TypeInv
  <2> QED BY <1>2, <2>1, <2>2
<1>5. TypeInv' /\ FaultInv'
  BY <1>1, <1>4 DEF TypeInv, FaultInv
<1>6. Installable' = Installable /\ rules \in Installable /\ Recorded' = Recorded
  BY <1>1 DEF Installable, Recorded
<1>7. ASSUME NEW n \in Nat, Below(n)
      PROVE  Below(n)'
  BY <1>1, <1>3, <1>4, <1>6, <1>7 DEF Below
<1>8. EpochInv'
  <2>1. Recorded \in Nat
    BY <1>1 DEF Recorded, TypeInv
  <2>2. Below(Recorded)'
    BY <1>1, <1>6, <1>7, <2>1 DEF EpochInv, Below
  <2>3. highest' # None => Below(highest)' /\ highest' <= Recorded'
    BY <1>1, <1>6, <1>7 DEF EpochInv, TypeInv, Below
  <2> QED BY <2>2, <2>3 DEF EpochInv
<1>9. OwnerInv'
  <2>1. ASSUME NEW r \in Installable, NEW g \in Flow, flows'[g].mark = r.epoch, r.epoch > 0
        PROVE  g \in Allowed[r.config]
    <3>1. CASE flows'[g].mark = flows[g].mark
      BY <1>1, <2>1, <3>1 DEF OwnerInv
    <3>2. CASE flows'[g].mark # flows[g].mark
      <4>1. g = f /\ r.epoch = rules.epoch /\ f \in Allowed[rules.config]
        BY <1>3, <1>4, <2>1, <3>2
      <4>2. r.config = rules.config
        BY <1>1, <1>6, <2>1, <4>1 DEF OwnerInv
      <4> QED BY <4>1, <4>2
    <3> QED BY <3>1, <3>2
  <2> QED BY <1>1, <1>6, <2>1 DEF OwnerInv
<1> QED BY <1>5, <1>8, <1>9 DEF CacheInv

LEMMA FlowEndsStep ==
  ASSUME CacheInv, NEW f \in Flow, FlowEnds(f)
  PROVE  CacheInv'
<1>1. /\ TypeInv /\ FaultInv /\ EpochInv /\ OwnerInv
      /\ UNCHANGED <<scenario, boot, rules, file, highest, running, applied, journal,
                     recovery, job>>
  BY DEF CacheInv, FlowEnds, epochs
<1>2. /\ flows' \in [Flow -> FlowState]
      /\ \A g \in Flow : flows'[g].mark \in {flows[g].mark, 0}
  <2>1. Fresh \in FlowState /\ Fresh.mark = 0
    BY DEF Fresh, FlowState
  <2>2. flows \in [Flow -> FlowState] /\ flows' = [flows EXCEPT ![f] = Fresh]
    BY <1>1 DEF FlowEnds, TypeInv
  <2> QED BY <2>1, <2>2
<1>3. TypeInv' /\ FaultInv'
  BY <1>1, <1>2 DEF TypeInv, FaultInv
<1>4. Installable' = Installable /\ Recorded' = Recorded /\ Recorded \in Nat
  BY <1>1 DEF Installable, Recorded, TypeInv
<1>5. ASSUME NEW n \in Nat, Below(n)
      PROVE  Below(n)'
  <2>1. \A g \in Flow : flows[g].mark \in Nat
    BY <1>1 DEF TypeInv, FlowState
  <2> QED BY <1>1, <1>2, <1>4, <1>5, <2>1 DEF Below
<1>6. Below(Recorded)'
  BY <1>1, <1>4, <1>5 DEF EpochInv, Below
<1>7. highest' # None => Below(highest)' /\ highest' <= Recorded'
  BY <1>1, <1>4, <1>5 DEF EpochInv, TypeInv, Below
<1>8. \A r \in Installable' : r.epoch \in Nat
  BY <1>1, <1>4, InstallableType DEF Ruleset
<1>9. EpochInv' /\ OwnerInv'
  BY <1>1, <1>2, <1>4, <1>6, <1>7, <1>8, NothingNew
<1> QED BY <1>3, <1>9 DEF CacheInv

\* The steps of an apply install, save and put back what was installable already.
LEMMA InstallStep == CacheInv /\ Install => CacheInv'
<1> SUFFICES ASSUME CacheInv, Install
             PROVE  CacheInv'
  OBVIOUS
<1>1. /\ TypeInv /\ FaultInv /\ EpochInv /\ OwnerInv /\ job.pc = "install"
      /\ UNCHANGED <<scenario, boot, flows, file, highest, running, applied, journal, recovery>>
  BY DEF CacheInv, Install, epochs
<1>2. PICK pc \in {"save", "undo"} :
        /\ job' = [job EXCEPT !.pc = pc] /\ (pc = "undo" => scenario.faults)
        /\ rules' \in {rules, job.target}
  BY DEF Install
<1>3. /\ job' \in Job /\ job'.pc = pc /\ job'.target = job.target /\ job'.back = job.back
      /\ job.target \in Ruleset /\ job.back \in Ruleset
  BY <1>1, <1>2 DEF TypeInv, FaultInv, Job, PC
<1>4. TypeInv' /\ FaultInv'
  BY <1>1, <1>2, <1>3 DEF TypeInv, FaultInv
<1>5. Installable' \subseteq Installable
  BY <1>1, <1>2, <1>3 DEF Installable
<1> QED BY <1>1, <1>4, <1>5, Quiet DEF CacheInv

LEMMA SaveAppliedStep == CacheInv /\ SaveApplied => CacheInv'
<1> SUFFICES ASSUME CacheInv, SaveApplied
             PROVE  CacheInv'
  OBVIOUS
<1>1. /\ TypeInv /\ FaultInv /\ EpochInv /\ OwnerInv /\ job.pc = "save"
      /\ UNCHANGED <<scenario, boot, rules, flows, file, highest, running>>
  BY DEF CacheInv, SaveApplied, epochs, kernel
<1>2. PICK pc \in Then \cup {"undo"} :
        /\ job' = [job EXCEPT !.pc = pc] /\ (pc = "undo" => scenario.faults)
        /\ applied' \in {applied, job.target} /\ journal' \in {None, journal}
        /\ recovery' \in {None, recovery}
  <2>1. job.then \in Then /\ job.then # "undo"
    BY <1>1 DEF TypeInv, Job, Then
  <2>2. CASE /\ applied' = job.target /\ recovery' = None
             /\ job' = [job EXCEPT !.pc = job.then]
             /\ journal' = IF scenario.path = "m2" THEN None ELSE journal
    <3>1. journal' \in {None, journal}
      BY <2>2
    <3> QED BY <2>1, <2>2, <3>1
  <2>3. CASE /\ scenario.faults
             /\ applied' \in {applied, job.target}
             /\ job' = [job EXCEPT !.pc = "undo"] /\ UNCHANGED <<journal, recovery>>
    BY <2>3
  <2> QED BY <2>2, <2>3 DEF SaveApplied
<1>3. /\ job' \in Job /\ job'.pc = pc /\ job'.target = job.target /\ job'.back = job.back
      /\ job.target \in Ruleset /\ job.back \in Ruleset
  BY <1>1, <1>2 DEF TypeInv, FaultInv, Job, PC, Then
<1>4. TypeInv' /\ FaultInv'
  BY <1>1, <1>2, <1>3 DEF TypeInv, FaultInv, Then
<1>5. Installable' \subseteq Installable
  BY <1>1, <1>2, <1>3 DEF Installable
<1> QED BY <1>1, <1>4, <1>5, Quiet DEF CacheInv

LEMMA UndoStep == CacheInv /\ Undo => CacheInv'
<1> SUFFICES ASSUME CacheInv, Undo
             PROVE  CacheInv'
  OBVIOUS
<1>1. /\ TypeInv /\ FaultInv /\ EpochInv /\ OwnerInv /\ job.pc = "undo"
      /\ UNCHANGED <<scenario, boot, flows, file, highest, running>>
  BY DEF CacheInv, Undo, epochs
<1>2. /\ scenario.faults /\ job.target \in Ruleset /\ job.back \in Ruleset /\ job.then \in Then
  BY <1>1 DEF TypeInv, FaultInv, Job
<1>3. /\ job' = Failed(job.then) /\ rules' \in {rules, job.back}
      /\ applied' \in {applied, job.back} /\ journal' \in {None, journal}
      /\ recovery' \in {None, [previous |-> job.back, desired |-> job.target.config]}
  BY DEF Undo, Undone
<1>4. /\ job' \in Job /\ job'.target = None /\ job'.back = None
      /\ job'.pc \in {"compensate", "idle", "down"}
  BY <1>2, <1>3, FailedType
<1>5. /\ recovery' \in Recovery \cup {None}
      /\ recovery' # None => recovery'.previous = job.back
  BY <1>2, <1>3 DEF Recovery, Ruleset
<1>6. TypeInv' /\ FaultInv'
  BY <1>1, <1>2, <1>3, <1>4, <1>5 DEF TypeInv, FaultInv
<1>7. Installable' \subseteq Installable
  BY <1>1, <1>2, <1>3, <1>4, <1>5 DEF Installable
<1> QED BY <1>1, <1>6, <1>7, Quiet DEF CacheInv

LEMMA PublishStep == CacheInv /\ Publish => CacheInv'
<1> SUFFICES ASSUME CacheInv, Publish
             PROVE  CacheInv'
  OBVIOUS
<1>1. /\ TypeInv /\ FaultInv /\ EpochInv /\ OwnerInv /\ job.pc = "publish"
      /\ UNCHANGED <<scenario, boot, rules, flows, file, highest, applied, recovery>>
  BY DEF CacheInv, Publish, epochs, kernel
<1>2. journal' \in {None, journal}
  BY DEF Publish
<1>3. /\ job' \in Job /\ job'.pc \in {"idle", "unpublished"}
      /\ job'.pc = "unpublished" => scenario.faults
      /\ job'.target \in {None, job.target} /\ job'.back \in {None, job.back}
  <2>1. CASE job' = Idle
    BY <2>1, JobType
  <2>2. CASE scenario.faults /\ job' = [job EXCEPT !.pc = "unpublished"]
    BY <1>1, <2>2 DEF TypeInv, Job, PC
  <2> QED BY <2>1, <2>2 DEF Publish
<1>4. running' \in Config
  BY <1>1 DEF Publish, TypeInv, FaultInv, Ruleset
<1>5. TypeInv' /\ FaultInv'
  BY <1>1, <1>2, <1>3, <1>4 DEF TypeInv, FaultInv
<1>6. Installable' \subseteq Installable
  BY <1>1, <1>2, <1>3 DEF Installable
<1> QED BY <1>1, <1>5, <1>6, Quiet DEF CacheInv

LEMMA ReadyStep == CacheInv /\ Ready => CacheInv'
<1> SUFFICES ASSUME CacheInv, Ready
             PROVE  CacheInv'
  OBVIOUS
<1>1. /\ TypeInv /\ FaultInv /\ EpochInv /\ OwnerInv
      /\ UNCHANGED <<scenario, boot, rules, flows, file, highest, running, applied, recovery>>
      /\ journal' \in {None, journal} /\ job' = Idle
  BY DEF CacheInv, Ready, epochs, kernel
<1>2. TypeInv' /\ FaultInv'
  BY <1>1, JobType DEF TypeInv, FaultInv
<1>3. Installable' \subseteq Installable
  BY <1>1, JobType DEF Installable
<1> QED BY <1>1, <1>2, <1>3, Quiet DEF CacheInv

LEMMA CrashStep == CacheInv /\ Crash => CacheInv'
<1> SUFFICES ASSUME CacheInv, Crash
             PROVE  CacheInv'
  OBVIOUS
<1>1. /\ TypeInv /\ FaultInv /\ EpochInv /\ OwnerInv
      /\ UNCHANGED <<scenario, boot, rules, flows, file, running, applied, journal>>
      /\ highest' = None /\ recovery' = None /\ job' = Down
  BY DEF CacheInv, Crash, kernel
<1>2. TypeInv' /\ FaultInv'
  BY <1>1, JobType DEF TypeInv, FaultInv
<1>3. Installable' \subseteq Installable
  BY <1>1, JobType DEF Installable
<1> QED BY <1>1, <1>2, <1>3, Quiet DEF CacheInv

\* With the kernel's tables and marks every use of an epoch is gone.
LEMMA RebootStep ==
  ASSUME SoundScenarios, CacheInv, Reboot
  PROVE  CacheInv'
<1>1. /\ TypeInv /\ FaultInv /\ EpochInv /\ OwnerInv
      /\ UNCHANGED <<scenario, file, running, applied, journal>>
      /\ highest' = None /\ recovery' = None /\ job' = Down /\ rules' = None
      /\ boot' = boot + 1 /\ flows' = [f \in Flow |-> Fresh] /\ scenario.reboots
  BY DEF CacheInv, Reboot
<1>2. /\ flows' \in [Flow -> FlowState]
      /\ \A f \in Flow : flows'[f].mark = 0
  BY <1>1 DEF Fresh, FlowState
<1>3. TypeInv' /\ FaultInv'
  BY <1>1, <1>2, JobType DEF TypeInv, FaultInv
<1>4. ~scenario.faults
  BY <1>1 DEF SoundScenarios, TypeInv
<1>5. Installable' = {}
  BY <1>1, <1>4, JobType DEF Installable
<1>6. Recorded' \in Nat
  BY <1>3 DEF Recorded, TypeInv
<1>7. Below(Recorded)'
  BY <1>2, <1>5, <1>6 DEF Below
<1>8. EpochInv' /\ OwnerInv'
  BY <1>1, <1>5, <1>7 DEF EpochInv, OwnerInv
<1> QED BY <1>3, <1>8 DEF CacheInv

LEMMA StartStep == CacheInv /\ Start => CacheInv'
<1> SUFFICES ASSUME CacheInv, Start
             PROVE  CacheInv'
  OBVIOUS
<1>1. /\ TypeInv /\ FaultInv /\ EpochInv /\ OwnerInv
      /\ UNCHANGED <<scenario, boot, rules, flows, file, running, applied, journal>>
      /\ recovery' = journal /\ job' = [Down EXCEPT !.pc = "startup"]
      /\ highest' \in {Recorded, None}
  BY DEF CacheInv, Start, kernel, Loaded, Recorded
<1>2. /\ job' \in Job /\ job'.pc = "startup" /\ job'.target = None /\ job'.back = None
  BY <1>1, JobType DEF PC
<1>3. Recorded' = Recorded /\ Recorded \in Nat
  BY <1>1 DEF Recorded, TypeInv
<1>4. TypeInv' /\ FaultInv'
  BY <1>1, <1>2, <1>3 DEF TypeInv, FaultInv
<1>5. Installable' \subseteq Installable
  BY <1>1, <1>2 DEF Installable
<1>6. Below(Recorded)'
  BY <1>1, <1>3, <1>5 DEF Below, EpochInv
<1>7. highest' # None => Below(highest)' /\ highest' <= Recorded'
  BY <1>1, <1>3, <1>6 DEF Below
<1>8. \A r \in Installable' : r.epoch \in Nat
  BY <1>1, <1>5, InstallableType DEF Ruleset
<1>9. EpochInv' /\ OwnerInv'
  BY <1>1, <1>5, <1>6, <1>7, <1>8, NothingNew
<1> QED BY <1>4, <1>9 DEF CacheInv

\* What begins an apply: of any configuration, or of the journalled snapshot.
LEMMA ActivationSteps ==
  ASSUME SoundScenarios, CacheInv,
         \/ \E c \in Config : Activate(c)
         \/ Compensate \/ CompensatePrepared \/ Reconcile
  PROVE  CacheInv'
<1>1. running \in Config /\ {"publish", "idle", "ready"} \subseteq Then
  BY DEF CacheInv, TypeInv, Then
<1>2. ASSUME NEW c \in Config, Activate(c)
      PROVE  CacheInv'
  BY <1>1, <1>2, BeginStep DEF Activate
<1>3. CASE Compensate
  BY <1>1, <1>3, BeginStep DEF Compensate
<1>4. CASE CompensatePrepared
  <2>1. journal.previous \in Installable \cup {None}
    BY <1>4 DEF CompensatePrepared, Prepared, CacheInv, FaultInv, Installable
  <2> QED BY <1>1, <1>4, <2>1, BeginStep DEF CompensatePrepared
<1>5. CASE Reconcile
  BY <1>1, <1>5, BeginStep DEF Reconcile
<1> QED BY <1>2, <1>3, <1>4, <1>5

LEMMA CacheStep ==
  ASSUME PolicyAssumption, SoundScenarios, CacheInv, [Next]_vars
  PROVE  CacheInv'
<1>1. CASE Next
  BY <1>1, PacketStep, FlowEndsStep, ActivationSteps, InstallStep, SaveAppliedStep, UndoStep,
     PublishStep, ReadyStep, CrashStep, RebootStep, StartStep DEF Next
<1>2. CASE UNCHANGED vars
  <2>1. TypeInv' /\ FaultInv'
    BY <1>2 DEF vars, CacheInv, TypeInv, FaultInv
  <2>2. Installable' = Installable
    BY <1>2 DEF vars, Installable
  <2> QED BY <1>2, <2>1, <2>2, Quiet DEF CacheInv, vars
<1> QED BY <1>1, <1>2

LEMMA CacheStarts == Init => CacheInv
<1> SUFFICES ASSUME Init
             PROVE  CacheInv
  OBVIOUS
<1>1. /\ rules \in Ruleset /\ rules.epoch = 1 /\ applied = rules
      /\ job = Idle /\ journal = None /\ recovery = None
  BY DEF Init, Ruleset
<1>2. flows \in [Flow -> FlowState] /\ \A f \in Flow : flows[f].mark = 0
  BY DEF Init, Fresh, FlowState
<1>3. TypeInv /\ FaultInv
  BY <1>1, <1>2, JobType DEF Init, TypeInv, FaultInv
<1>4. Installable \subseteq {rules}
  BY <1>1, JobType DEF Installable
<1>5. Recorded = 1 /\ highest = 1
  BY DEF Init, Recorded
<1>6. EpochInv
  BY <1>1, <1>2, <1>4, <1>5 DEF EpochInv, Below
<1>7. OwnerInv
  BY <1>1, <1>2, <1>4 DEF OwnerInv
<1> QED BY <1>3, <1>6, <1>7 DEF CacheInv

\* The decision cache (CompileM2Ruleset, EpochAllocator, applySnapshot): whatever
\* the number of flows, configurations, activations, crashes and reboots, a packet
\* the cache accepts is one the installed configuration allows, on appliances where
\* nothing fails and on inspection appliances that fail anywhere between two
\* reboots.
THEOREM CacheSound == ASSUME SoundScenarios PROVE Spec => []CachedIsAllowed
<1>1. CacheInv => CachedIsAllowed
  BY DEF CacheInv, OwnerInv, CachedIsAllowed, CacheHit, Installable
<1>2. CacheInv /\ [Next]_vars => CacheInv'
  BY CacheStep, PolicyAssumption
<1> QED BY <1>1, <1>2, CacheStarts, PTL DEF Spec
=============================================================================
