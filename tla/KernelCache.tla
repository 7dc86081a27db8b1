---- MODULE KernelCache ----
\* The kernel's decision cache: an ALLOW stamps the connection's mark with the
\* epoch of the ruleset, and a ruleset accepts established packets that carry
\* its own epoch without evaluating policy (compiler_m2.go, mark.go). So an
\* epoch may never meet two configurations: runtime-epoch.json (epoch.go), what
\* an activation installs and what a failed one puts back (controller.go:
\* applySnapshot for inspection appliances, apply for M1/M2 ones), crashes of
\* the engine and reboots. Conntrack marks outlive the engine.
EXTENDS Naturals, FiniteSets

CONSTANTS
  Flow, Config,
  Allowed,      \* Allowed[c]: the flows Program.Evaluate allows under c
  Marked,       \* those whose policy names one zone pair, so the mark is set
  None,
  MaxEpoch,     \* MaxKernelEpoch
  MaxBoots,
  MaxAttempts,  \* of activations
  Scenarios     \* records [path, faults, reboots]

\* A mark is set by a rule that accepts.
ASSUME PolicyAssumption == \A c \in Config : Marked[c] \subseteq Allowed[c]

VARIABLES
  scenario,
  boot, file,         \* the kernel's boot id; runtime-epoch.json
  highest,            \* the allocator's; None without allocator
  rules,              \* the installed ruleset: [config, epoch], epoch 0: no cache
  flows,              \* [state, mark] per flow
  running, applied,   \* running.json; dataplane-applied.json
  journal,            \* the activation journal: [previous, desired]
  recovery,           \* the same of a recovery that is pending, in memory
  job, attempts

vars == <<scenario, boot, file, highest, rules, flows, running, applied,
          journal, recovery, job, attempts>>
kernel == <<boot, rules, flows>>
epochs == <<file, highest>>

Fresh == [state |-> "none", mark |-> 0]
Down == [pc |-> "down", target |-> None, back |-> None, then |-> "idle"]
Idle == [Down EXCEPT !.pc = "idle"]

Init ==
  /\ scenario \in Scenarios
  /\ boot = 1 /\ file = [boot |-> 1, highest |-> 1] /\ highest = 1
  /\ running \in Config
  /\ rules = [config |-> running, epoch |-> 1] /\ applied = rules
  /\ flows = [f \in Flow |-> Fresh]
  /\ journal = None /\ recovery = None
  /\ job = Idle /\ attempts = 0

----
\* The kernel.

CacheHit(f) ==
  /\ rules # None /\ rules.epoch > 0
  /\ flows[f].state = "established" /\ flows[f].mark = rules.epoch

\* A packet of f, in either direction: cache rules, then policy; a policy with
\* one zone pair stamps the connection it accepts.
Packet(f) ==
  /\ rules # None
  /\ CacheHit(f) \/ f \in Allowed[rules.config]
  /\ flows' = [flows EXCEPT ![f] =
       [state |-> IF @.state = "none" THEN "new" ELSE "established",
        mark |-> IF /\ ~CacheHit(f) /\ rules.epoch > 0
                    /\ f \in Marked[rules.config]
                 THEN rules.epoch ELSE @.mark]]
  /\ UNCHANGED <<scenario, boot, rules, epochs, running, applied, journal, recovery, job, attempts>>

FlowEnds(f) ==
  /\ flows[f].state # "none"
  /\ flows' = [flows EXCEPT ![f] = Fresh]
  /\ UNCHANGED <<scenario, boot, rules, epochs, running, applied, journal, recovery, job, attempts>>

----
\* The engine.

\* Allocate: counted up and saved before use. A failed save takes the count
\* back, although the file may have been replaced already.
Allocate(epoch) ==
  IF highest = None \/ highest = MaxEpoch
  THEN epoch = 0 /\ UNCHANGED <<file, highest>>
  ELSE \/ /\ epoch = highest + 1 /\ highest' = epoch
          /\ file' = [boot |-> boot, highest |-> epoch]
       \/ /\ scenario.faults /\ epoch = 0 /\ UNCHANGED highest
          /\ file' \in {file, [boot |-> boot, highest |-> highest + 1]}

\* What an apply puts back when it fails: the previous snapshot, with its own
\* epoch; the M1/M2 path compiles the previous configuration with the options
\* of the new one.
Back(epoch) ==
  LET previous == IF recovery = None THEN applied ELSE recovery.previous
  IN  IF scenario.path = "bundle" THEN previous
      ELSE [config |-> previous.config, epoch |-> epoch]

\* validateRecoveryTarget: a pending recovery is left for one of its two ends.
Acceptable(config) ==
  recovery # None => config \in {recovery.desired, recovery.previous.config}

\* Where an activation goes when its apply has failed: CommitConfig restores the
\* running configuration; a failed startup ends the process.
Failed(then) ==
  CASE then = "publish" -> [Idle EXCEPT !.pc = "compensate"]
    [] then = "idle" -> Idle
    [] then = "ready" -> Down

\* compileOptions, and the journal of an apply of target.
Begin(config, snapshot, then) ==
  \E epoch \in 0 .. MaxEpoch :
    /\ Allocate(epoch)
    /\ IF Acceptable(config)
       THEN /\ job' = [pc |-> "install", back |-> Back(epoch), then |-> then,
                       target |-> IF snapshot # None THEN snapshot
                                  ELSE [config |-> config, epoch |-> epoch]]
            /\ journal' = IF recovery # None THEN journal
                          ELSE [previous |-> Back(epoch), desired |-> config]
       ELSE job' = Failed(then) /\ UNCHANGED journal

\* CommitConfig or RollbackConfig of some configuration.
Activate(c) ==
  /\ job.pc = "idle" /\ attempts < MaxAttempts
  /\ attempts' = attempts + 1
  /\ Begin(c, None, "publish")
  /\ UNCHANGED <<scenario, kernel, running, applied, recovery>>

\* The nft transaction: all or nothing.
Install ==
  /\ job.pc = "install"
  /\ \/ rules' = job.target /\ job' = [job EXCEPT !.pc = "save"]
     \/ /\ scenario.faults
        /\ job' = [job EXCEPT !.pc = "undo"] /\ UNCHANGED rules
  /\ UNCHANGED <<scenario, boot, flows, epochs, running, applied, journal, recovery, attempts>>

\* The applied snapshot is saved (a save that fails may have replaced the file),
\* and with it the M1/M2 path is done with its journal.
SaveApplied ==
  /\ job.pc = "save"
  /\ \/ /\ applied' = job.target /\ recovery' = None
        /\ job' = [job EXCEPT !.pc = job.then]
        /\ journal' = IF scenario.path = "m2" THEN None ELSE journal
     \/ /\ scenario.faults
        /\ applied' \in {applied, job.target}
        /\ job' = [job EXCEPT !.pc = "undo"] /\ UNCHANGED <<journal, recovery>>
  /\ UNCHANGED <<scenario, kernel, epochs, running, attempts>>

\* A mutated form: the snapshot put back takes the attempted epoch.
UndoneBorrowing == [job.back EXCEPT !.epoch = job.target.epoch]

\* The ruleset an undo installs.
Undone == job.back

\* restoreM3AfterFailure, restoreAfterFailure: the previous ruleset and its
\* snapshot, or a recovery that stays pending with any part of them.
Undo ==
  /\ job.pc = "undo"
  /\ \/ rules' = Undone /\ applied' = Undone /\ journal' = None /\ recovery' = None
     \/ /\ \/ rules' \in {rules, Undone} /\ UNCHANGED applied
           \/ rules' = Undone /\ applied' = Undone
        /\ recovery' = [previous |-> job.back, desired |-> job.target.config]
        /\ UNCHANGED journal
  /\ job' = Failed(job.then)
  /\ UNCHANGED <<scenario, boot, flows, epochs, running, attempts>>

\* restoreAppliedGeneration: the running configuration again, exactly as
\* journalled if the activation had been prepared,
Prepared ==
  /\ job.pc = "unpublished" /\ scenario.path = "bundle"
  /\ journal # None /\ journal.previous.config = running

CompensatePrepared ==
  /\ Prepared
  /\ Begin(running, journal.previous, "idle")
  /\ UNCHANGED <<scenario, kernel, running, applied, recovery, attempts>>

\* and else under an epoch of its own.
Compensate ==
  /\ job.pc \in {"compensate", "unpublished"} /\ ~Prepared
  /\ Begin(running, None, "idle")
  /\ UNCHANGED <<scenario, kernel, running, applied, recovery, attempts>>

\* persist writes running.json; then the journal is finalized.
Publish ==
  /\ job.pc = "publish"
  /\ \/ /\ running' = job.target.config /\ job' = Idle
        /\ journal' \in {None} \cup (IF scenario.faults THEN {journal} ELSE {})
     \/ /\ scenario.faults
        /\ job' = [job EXCEPT !.pc = "unpublished"] /\ UNCHANGED <<running, journal>>
  /\ UNCHANGED <<scenario, kernel, epochs, applied, recovery, attempts>>

\* Startup finalizes too.
Ready ==
  /\ job.pc = "ready"
  /\ job' = Idle
  /\ journal' \in {None} \cup (IF scenario.faults THEN {journal} ELSE {})
  /\ UNCHANGED <<scenario, kernel, epochs, running, applied, recovery, attempts>>

Crash ==
  /\ job.pc # "down"
  /\ job' = Down /\ highest' = None /\ recovery' = None
  /\ UNCHANGED <<scenario, kernel, file, running, applied, journal, attempts>>

\* The kernel's tables and marks are gone, and its boot id is another.
Reboot ==
  /\ scenario.reboots /\ boot < MaxBoots
  /\ boot' = boot + 1 /\ rules' = None
  /\ flows' = [f \in Flow |-> Fresh]
  /\ job' = Down /\ highest' = None /\ recovery' = None
  /\ UNCHANGED <<scenario, file, running, applied, journal, attempts>>

\* NewEpochAllocator: a file of another boot starts again; an unreadable one
\* leaves the engine without allocator.
Loaded ==
  {IF file.boot = boot THEN file.highest ELSE 0}
    \cup (IF scenario.faults THEN {None} ELSE {})

\* NewController takes a journal it finds for a recovery; then the startup
\* reconciliation applies the running configuration.
Start ==
  /\ job = Down /\ attempts < MaxAttempts
  /\ attempts' = attempts + 1
  /\ highest' \in Loaded
  /\ recovery' = journal
  /\ job' = [Down EXCEPT !.pc = "startup"]
  /\ UNCHANGED <<scenario, kernel, file, running, applied, journal>>

Reconcile ==
  /\ job.pc = "startup"
  /\ Begin(running, None, "ready")
  /\ UNCHANGED <<scenario, kernel, running, applied, recovery, attempts>>

Next ==
  \/ \E f \in Flow : Packet(f) \/ FlowEnds(f)
  \/ \E c \in Config : Activate(c)
  \/ Install \/ SaveApplied \/ Undo \/ Publish
  \/ Compensate \/ CompensatePrepared
  \/ Crash \/ Reboot \/ Start \/ Reconcile \/ Ready

Spec == Init /\ [][Next]_vars

----
\* A packet the cache accepts is one the installed configuration allows: no
\* mark of an earlier ruleset, of an attempted activation or of a life of the
\* engine before a crash is honoured by another configuration (CompileM2Ruleset,
\* EpochAllocator, restoreM3AfterFailure).
CachedIsAllowed == \A f \in Flow : CacheHit(f) => f \in Allowed[rules.config]

====
