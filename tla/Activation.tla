----------------------------- MODULE Activation -----------------------------
(***************************************************************************)
(* Commit, rollback and restart of ngfw-engine: the coordinator            *)
(* (internal/engine/runtime_service.go) over the configuration manager     *)
(* (internal/config/manager.go) and the dataplane controller               *)
(* (internal/dataplane/controller.go), with its activation journal.        *)
(*                                                                         *)
(* A step is one durable write, one kernel transaction or one plan of      *)
(* network commands.  Each may fail, and the process may crash between any *)
(* two, or inside a network plan.  RuntimeServiceAdapter.applyMu           *)
(* serialises requests, so there is one thread of control, job.            *)
(*                                                                         *)
(* A compiled snapshot is its configuration and generation: the cache      *)
(* epoch, the inspection plan and the hashes follow from them.  All        *)
(* configurations use inspection, so the snapshot path                     *)
(* (ApplyRuntimePrepared, applySnapshot) is the one taken, and none uses   *)
(* the request gate.                                                       *)
(***************************************************************************)
EXTENDS Naturals

CONSTANTS
  Config,       \* valid configurations, told apart by their checksums
  Empty,        \* the zero Config and its fail-closed ruleset
  None,
  Id,           \* operation identifiers chosen by clients
  MaxVersion,   \* the last generation: incrementVersion fails there
  MaxFaults,    \* bound: failures of I/O and of kernel operations
  MaxCrashes,   \* bound: crashes of the process
  LateErrors    \* whether a write may fail after its rename (directory sync)

VARIABLES
  running,   \* running.json
  applied,   \* dataplane-applied.json; NoSnapshot when it is absent
  journal,   \* dataplane-applied.json.activation, or None
  net,       \* how much of each configuration's addresses, routes and VLANs
  nft,       \* the snapshot whose ruleset is installed
  mgr,       \* Manager.running, version and previous
  ctl,       \* the Controller's current, recovery and prepared fields
  rt,        \* Runtime.program and generation
  insp,      \* the configuration of the inspection lifecycle
  job,       \* the request being served
  sent,      \* what clients asked for under each identifier
  receipts,  \* RuntimeServiceAdapter.receipts
  published, \* how often each identifier's target was published
  faults, crashes

disk   == <<running, applied, journal>>
kernel == <<net, nft>>
memory == <<mgr, ctl, rt, insp, receipts>>
client == <<sent, published>>
bounds == <<faults, crashes>>
vars   == <<running, applied, journal, net, nft, mgr, ctl, rt, insp, job, sent,
            receipts, published, faults, crashes>>

(***************************************************************************)
(* Types.                                                                  *)
(***************************************************************************)
Version == 0..MaxVersion

Snapshot == [cfg : Config \cup {Empty}, gen : Version]

NoSnapshot == [cfg |-> Empty, gen |-> 0]

Published == [cfg : Config, ver : Version, prev : Config \cup {None}]

Journal == [prev : Snapshot, desired : Snapshot]

\* cur: current and currentSnapshot.  rec: recoverySnapshot while
\* recoveryPending; its configuration is Empty when the previous one is unknown.
Controller ==
  [cur : Snapshot, rec : Snapshot \cup {None}, prepared : BOOLEAN]

PC == {"down", "idle", "begin", "net", "netPrev", "nft", "save", "undoNft", "undoNet",
       "undoSource", "undoSave", "undoJournal", "persist", "activate", "after",
       "finalize"}

\* stage: which call of the coordinator is being served; comp: it compensates a
\* published activation.
Job ==
  [pc : PC, stage : {"none", "startup", "forward", "undo", "failed"},
   comp : BOOLEAN, id : Id \cup {None},
   target : Snapshot,    \* what the manager is moving to
   want : Snapshot,      \* what the controller is applying
   source : Config \cup {Empty}, back : Snapshot, errs : BOOLEAN]

\* A commit of cfg over version expected; a rollback has no configuration.
Request == [cfg : Config \cup {None}, expected : Version]

Idle ==
  [pc |-> "idle", stage |-> "none", comp |-> FALSE, id |-> None,
   target |-> NoSnapshot, want |-> NoSnapshot, source |-> Empty,
   back |-> NoSnapshot, errs |-> FALSE]

Down == [Idle EXCEPT !.pc = "down"]

\* Every variable has its type.
TypeOK ==
  /\ running \in Published
  /\ applied \in Snapshot
  /\ journal \in Journal \cup {None}
  /\ net \in [Config -> {"none", "part", "full"}]
  /\ nft \in Snapshot
  /\ mgr \in Published
  /\ ctl \in Controller
  /\ rt \in [cfg : Config, gen : Version]
  /\ insp \in Config \cup {None}
  /\ job \in Job
  /\ sent \in [Id -> Request \cup {None}]
  /\ receipts \subseteq Id
  /\ published \in [Id -> Nat]
  /\ faults \in 0..MaxFaults
  /\ crashes \in 0..MaxCrashes

Init ==
  /\ running \in {[cfg |-> c, ver |-> 0, prev |-> None] : c \in Config}
  /\ applied = NoSnapshot
  /\ journal = None
  /\ net = [c \in Config |-> "none"]
  /\ nft = NoSnapshot
  /\ mgr = running
  /\ ctl = [cur |-> NoSnapshot, rec |-> None, prepared |-> FALSE]
  /\ rt = [cfg |-> running.cfg, gen |-> 0]
  /\ insp = None
  /\ job = Down
  /\ sent = [i \in Id |-> None]
  /\ receipts = {}
  /\ published = [i \in Id |-> 0]
  /\ faults = 0
  /\ crashes = 0

Fault == faults < MaxFaults /\ faults' = faults + 1

Goto(j) == job' = j

Known(snapshot) == snapshot.cfg # Empty

-----------------------------------------------------------------------------
(***************************************************************************)
(* The controller: ApplyRuntimePrepared(want), from any stage.             *)
(***************************************************************************)
Apply(j, stage, want) ==
  [j EXCEPT !.pc = "begin", !.stage = stage, !.want = want, !.errs = FALSE]

\* The generation the manager restores when it gives up on its target.
Old == [cfg |-> mgr.cfg, gen |-> mgr.ver]

\* What the caller does with the result.
Return(ok) ==
  CASE job.stage = "startup" -> IF ok THEN [job EXCEPT !.pc = "after"] ELSE Down
    [] job.stage = "forward" -> IF ok THEN [job EXCEPT !.pc = "persist"]
                                ELSE Apply(job, "undo", Old)
    [] job.stage = "undo" ->
         IF job.comp THEN Idle
         ELSE [job EXCEPT !.pc = "finalize", !.stage = "failed"]

\* Variant: the recovery accepts only the previous configuration.
AcceptablePrevious(cfg) == ctl.rec # None => cfg = ctl.rec.cfg

\* validateRecoveryTarget: only the two configurations of a pending activation.
Acceptable(cfg) ==
  ctl.rec # None => cfg \in {ctl.cur.cfg} \cup ({ctl.rec.cfg} \ {Empty})

Back == IF ctl.rec = None THEN ctl.cur ELSE ctl.rec

Planned == [job EXCEPT !.pc = "net", !.source = ctl.cur.cfg, !.back = Back]

ApplyRefused ==
  /\ job.pc = "begin" /\ ~Acceptable(job.want.cfg)
  /\ Goto(Return(FALSE))
  /\ UNCHANGED <<disk, kernel, memory, client, bounds>>

\* Forwarding cannot be ensured, or the journal cannot be written.
ApplyBeginFails ==
  /\ job.pc = "begin" /\ Acceptable(job.want.cfg)
  /\ Fault
  /\ \/ UNCHANGED journal
     \/ /\ LateErrors /\ ctl.rec = None
        /\ journal' = [prev |-> Back, desired |-> job.want]
  /\ Goto(Return(FALSE))
  /\ UNCHANGED <<running, applied, kernel, memory, client, crashes>>

\* A pending recovery keeps its journal.
ApplyBegin ==
  /\ job.pc = "begin" /\ Acceptable(job.want.cfg)
  /\ journal' = IF ctl.rec = None THEN [prev |-> Back, desired |-> job.want]
                ELSE journal
  /\ Goto(Planned)
  /\ UNCHANGED <<running, applied, kernel, memory, client, bounds>>

(***************************************************************************)
(* NetworkReconciler: a plan removes the objects of src and adds those of  *)
(* dst.  A plan that fails may have done nothing, or been compensated; may *)
(* have stopped half way; or may have been completed and not verified.     *)
(***************************************************************************)
Reconciled(src, dst) ==
  [c \in Config |-> CASE c = dst -> "full"
                      [] c = src /\ c # dst -> "none"
                      [] OTHER -> net[c]]

Interrupted(src, dst) ==
  [c \in Config |-> CASE c = dst /\ net[c] = "none" -> "part"
                      [] c = src /\ c # dst /\ net[c] = "full" -> "part"
                      [] OTHER -> net[c]]

PlanFails(src, dst) ==
  /\ Fault
  /\ net' \in {net, Interrupted(src, dst), Reconciled(src, dst)}

\* The plan the controller is at, if any.
AtPlan == job.pc \in {"net", "netPrev", "undoNet", "undoSource"}

PlanSource ==
  CASE job.pc \in {"net", "undoSource"} -> job.source
    [] job.pc = "netPrev" -> ctl.rec.cfg
    [] job.pc = "undoNet" -> job.want.cfg

PlanTarget == IF job.pc \in {"net", "netPrev"} THEN job.want.cfg ELSE job.back.cfg

\* reconcileActivationNetwork: a recovery also removes the previous objects.
ReconcileNetwork ==
  /\ job.pc \in {"net", "netPrev"}
  /\ net' = Reconciled(PlanSource, PlanTarget)
  /\ Goto([job EXCEPT !.pc = IF job.pc = "net" /\ ctl.rec # None
                             THEN "netPrev" ELSE "nft"])
  /\ UNCHANGED <<disk, nft, memory, client, bounds>>

NetworkFails ==
  /\ job.pc \in {"net", "netPrev"}
  /\ PlanFails(PlanSource, PlanTarget)
  /\ Goto([job EXCEPT !.pc = "undoNft"])
  /\ UNCHANGED <<disk, nft, memory, client, crashes>>

ApplyBundle ==
  /\ job.pc = "nft"
  /\ nft' = job.want
  /\ Goto([job EXCEPT !.pc = "save"])
  /\ UNCHANGED <<disk, net, memory, client, bounds>>

\* Rejected by nft, or accepted and then not verified.
BundleFails ==
  /\ job.pc = "nft"
  /\ Fault
  /\ nft' \in {nft, job.want}
  /\ Goto([job EXCEPT !.pc = "undoNft"])
  /\ UNCHANGED <<disk, net, memory, client, crashes>>

SaveApplied ==
  /\ job.pc = "save"
  /\ applied' = job.want
  /\ ctl' = [cur |-> job.want, rec |-> None, prepared |-> TRUE]
  /\ Goto(Return(TRUE))
  /\ UNCHANGED <<running, journal, kernel, mgr, rt, insp, receipts, client, bounds>>

SaveFails ==
  /\ job.pc = "save"
  /\ Fault
  /\ applied' \in {applied} \cup (IF LateErrors THEN {job.want} ELSE {})
  /\ Goto([job EXCEPT !.pc = "undoNft"])
  /\ UNCHANGED <<running, journal, kernel, memory, client, crashes>>

(***************************************************************************)
(* restoreM3AfterFailure: every kernel step is tried, the files are        *)
(* touched only if all of them succeeded.                                  *)
(***************************************************************************)
Undone(pc) == [job EXCEPT !.pc = pc]

UndoBundle ==
  /\ job.pc = "undoNft"
  /\ \/ nft' = job.back /\ Goto(Undone("undoNet")) /\ UNCHANGED faults
     \/ /\ Fault
        /\ nft' \in {nft, job.back}
        /\ Goto([Undone("undoNet") EXCEPT !.errs = TRUE])
  /\ UNCHANGED <<disk, net, memory, client, crashes>>

UndoNetwork ==
  /\ job.pc \in {"undoNet", "undoSource"}
  /\ LET next == Undone(IF job.pc = "undoNet" THEN "undoSource" ELSE "undoSave")
     IN \/ /\ net' = Reconciled(PlanSource, PlanTarget)
           /\ Goto(next)
           /\ UNCHANGED faults
        \/ /\ PlanFails(PlanSource, PlanTarget)
           /\ Goto([next EXCEPT !.errs = TRUE])
  /\ UNCHANGED <<disk, nft, memory, client, crashes>>

\* The attempted snapshot becomes the source of the next reconciliation.
Pending == [cur |-> job.want, rec |-> job.back, prepared |-> FALSE]

RestoreFailed ==
  /\ job.pc = "undoSave" /\ job.errs
  /\ ctl' = Pending
  /\ Goto(Return(FALSE))
  /\ UNCHANGED <<disk, kernel, mgr, rt, insp, receipts, client, bounds>>

\* An unknown previous state is recorded by removing the file.
RestoreApplied ==
  /\ job.pc = "undoSave" /\ ~job.errs
  /\ \/ /\ applied' = job.back
        /\ Goto(Undone("undoJournal"))
        /\ UNCHANGED <<ctl, faults>>
     \/ /\ Fault
        /\ applied' \in {applied} \cup (IF LateErrors /\ Known(job.back) THEN {job.back} ELSE {})
        /\ ctl' = Pending
        /\ Goto(Return(FALSE))
  /\ UNCHANGED <<running, journal, kernel, mgr, rt, insp, receipts, client, crashes>>

RemoveJournal ==
  /\ job.pc = "undoJournal"
  /\ \/ /\ journal' = None
        /\ ctl' = [cur |-> job.back, rec |-> None, prepared |-> FALSE]
        /\ UNCHANGED faults
     \/ Fault /\ ctl' = Pending /\ UNCHANGED journal
  /\ Goto(Return(FALSE))
  /\ UNCHANGED <<running, applied, kernel, mgr, rt, insp, receipts, client, crashes>>

-----------------------------------------------------------------------------
(***************************************************************************)
(* The manager and the coordinator.                                        *)
(***************************************************************************)
\* CommitWithGeneration and rollbackGenerationLocked, up to the dataplane.
Advance(j, cfg) ==
  LET target == [cfg |-> cfg, gen |-> mgr.ver + 1]
  IN Apply([j EXCEPT !.target = target], "forward", target)

\* A commit with another version is refused, and what is prepared is finalized.
Conflict(i) == [Idle EXCEPT !.pc = "finalize", !.stage = "failed", !.id = i]

\* Variant: the expected version is not compared.
ServeAnyVersion(i, r) ==
  CASE i \in receipts \/ mgr.ver = MaxVersion -> Idle
    [] i \notin receipts /\ mgr.ver < MaxVersion ->
         IF r.cfg # None THEN Advance([Idle EXCEPT !.id = i], r.cfg)
         ELSE IF mgr.prev = None THEN Idle
         ELSE Advance([Idle EXCEPT !.id = i], mgr.prev)

Serve(i, r) ==
  CASE i \in receipts \/ mgr.ver = MaxVersion -> Idle
    [] i \notin receipts /\ mgr.ver < MaxVersion /\ r.cfg = None ->
         IF mgr.prev = None THEN Idle ELSE Advance([Idle EXCEPT !.id = i], mgr.prev)
    [] i \notin receipts /\ mgr.ver < MaxVersion /\ r.cfg # None ->
         IF r.expected # mgr.ver THEN Conflict(i)
         ELSE Advance([Idle EXCEPT !.id = i], r.cfg)

\* A client sends a request, or sends again one whose answer it does not have.
CommitConfig(i) ==
  /\ job.pc = "idle"
  /\ \E r \in Request :
       /\ r.cfg # None /\ r.expected <= mgr.ver
       /\ sent[i] \in {None, r}
       /\ sent' = [sent EXCEPT ![i] = r]
       /\ Goto(Serve(i, r))
  /\ UNCHANGED <<disk, kernel, memory, published, bounds>>

RollbackConfig(i) ==
  /\ job.pc = "idle"
  /\ LET r == [cfg |-> None, expected |-> 0]
     IN /\ sent[i] \in {None, r}
        /\ sent' = [sent EXCEPT ![i] = r]
        /\ Goto(Serve(i, r))
  /\ UNCHANGED <<disk, kernel, memory, published, bounds>>

\* recoverPublishedFailure: a rollback under a newer generation.
Compensate ==
  IF mgr.ver = MaxVersion THEN Idle ELSE Advance([job EXCEPT !.comp = TRUE], mgr.prev)

\* What a failure does once Running has advanced, or at startup.
Recover ==
  IF job.stage \in {"startup", "failed"} \/ job.comp THEN Idle ELSE Compensate

New == [cfg |-> job.target.cfg, ver |-> job.target.gen, prev |-> mgr.cfg]

Persist ==
  /\ job.pc = "persist"
  /\ running' = New
  /\ mgr' = New
  /\ published' = IF job.comp THEN published
                  ELSE [published EXCEPT ![job.id] = @ + 1]
  /\ Goto([job EXCEPT !.pc = "activate"])
  /\ UNCHANGED <<applied, journal, kernel, ctl, rt, insp, receipts, sent, bounds>>

\* Variant: the dataplane is left on the configuration that was not persisted.
PersistFailsNoUndo ==
  /\ job.pc = "persist"
  /\ Fault
  /\ Goto([job EXCEPT !.pc = "finalize", !.stage = "failed"])
  /\ UNCHANGED <<disk, kernel, memory, client, crashes>>

\* persist fails before its rename, or after it.
PersistFails ==
  /\ job.pc = "persist"
  /\ Fault
  /\ running' \in {running} \cup (IF LateErrors THEN {New} ELSE {})
  /\ Goto(Apply(job, "undo", Old))
  /\ UNCHANGED <<applied, journal, kernel, memory, client, crashes>>


\* activateWhileInspectionPaused refuses a generation that does not advance.
Activate ==
  /\ job.pc = "activate" /\ job.target.gen > rt.gen
  /\ rt' = job.target
  /\ Goto([job EXCEPT !.pc = "after"])
  /\ UNCHANGED <<disk, kernel, mgr, ctl, insp, receipts, client, bounds>>

AfterActivate ==
  /\ job.pc = "after"
  /\ insp' = mgr.cfg
  /\ Goto([job EXCEPT !.pc = "finalize"])
  /\ UNCHANGED <<disk, kernel, mgr, ctl, rt, receipts, client, bounds>>

AfterActivateFails ==
  /\ job.pc = "after"
  /\ Fault
  /\ insp' = None
  /\ Goto(Recover)
  /\ UNCHANGED <<disk, kernel, mgr, ctl, rt, receipts, client, crashes>>

\* The controller's and the durable snapshot are the running generation.
Matches == ctl.cur = Old /\ applied = ctl.cur

Finalize ==
  /\ job.pc = "finalize"
  /\ ctl.prepared => Matches
  /\ journal' = IF ctl.prepared THEN None ELSE journal
  /\ ctl' = [ctl EXCEPT !.prepared = FALSE]
  /\ receipts' = IF job.stage = "forward" /\ ~job.comp THEN receipts \cup {job.id}
                 ELSE receipts
  /\ Goto(Idle)
  /\ UNCHANGED <<running, applied, kernel, mgr, rt, insp, client, bounds>>

FinalizeRefused ==
  /\ job.pc = "finalize" /\ ctl.prepared /\ ~Matches
  /\ Goto(Recover)
  /\ UNCHANGED <<disk, kernel, memory, client, bounds>>

FinalizeFails ==
  /\ job.pc = "finalize" /\ ctl.prepared /\ Matches
  /\ Fault
  /\ Goto(Recover)
  /\ UNCHANGED <<disk, kernel, memory, client, crashes>>

(***************************************************************************)
(* The process.                                                            *)
(***************************************************************************)
\* Memory is lost; a network plan may be left half way.
Crash ==
  /\ job.pc # "down" /\ crashes < MaxCrashes
  /\ crashes' = crashes + 1
  /\ net' \in {net} \cup (IF AtPlan THEN {Interrupted(PlanSource, PlanTarget)} ELSE {})
  /\ insp' = None /\ receipts' = {}
  /\ Goto(Down)
  /\ UNCHANGED <<disk, nft, mgr, ctl, rt, client, faults>>

\* Variant: startup takes the durable snapshot as its source.
LoadedApplied ==
  [cur |-> applied, rec |-> IF journal = None THEN None ELSE journal.prev,
   prepared |-> FALSE]

\* NewController takes an unfinished activation's target as its source.
Loaded ==
  IF journal = None THEN [cur |-> applied, rec |-> None, prepared |-> FALSE]
  ELSE [cur |-> journal.desired, rec |-> journal.prev, prepared |-> FALSE]

Boot ==
  /\ job.pc = "down"
  /\ mgr' = running
  /\ ctl' = Loaded
  /\ rt' = [cfg |-> running.cfg, gen |-> running.ver]
  /\ Goto(Apply(Idle, "startup", rt'))
  /\ UNCHANGED <<disk, kernel, insp, receipts, client, bounds>>

ApplyStep ==
  \/ ApplyRefused \/ ApplyBegin \/ ApplyBeginFails
  \/ ReconcileNetwork \/ NetworkFails \/ ApplyBundle \/ BundleFails
  \/ SaveApplied \/ SaveFails
  \/ UndoBundle \/ UndoNetwork \/ RestoreFailed \/ RestoreApplied \/ RemoveJournal

CoordinatorStep ==
  \/ Persist \/ PersistFails \/ Activate \/ AfterActivate \/ AfterActivateFails
  \/ Finalize \/ FinalizeRefused \/ FinalizeFails

Next ==
  \/ Boot \/ ApplyStep \/ CoordinatorStep \/ Crash
  \/ \E i \in Id : CommitConfig(i) \/ RollbackConfig(i)

Spec == Init /\ [][Next]_vars

\* systemd restarts the engine, and a started operation runs to its end.
LiveSpec == Spec /\ WF_vars(Boot \/ ApplyStep \/ CoordinatorStep)

-----------------------------------------------------------------------------
(***************************************************************************)
(* Properties.                                                             *)
(***************************************************************************)
Names(j) == {j.prev.cfg, j.desired.cfg}

\* At every instant at which the engine could crash, running.json is one of the
\* two configurations a retained journal describes, so that NewController and
\* validateRecoveryTarget accept it at the next startup.
StartupAccepted == journal # None => running.cfg \in Names(journal)

\* Whenever no activation journal is on disk, the kernel holds exactly what
\* dataplane-applied.json records: its ruleset, all of its network objects and
\* those of no other configuration.  FinalizeActivation and restoreM3AfterFailure
\* remove the journal only then.
NoJournalNoLeftovers ==
  journal = None =>
    /\ nft = applied
    /\ \A c \in Config : net[c] = IF c = applied.cfg THEN "full" ELSE "none"


\* A commit retried under its operation identifier and expected version, after
\* a lost answer, a failure or a restart that forgot the receipts, is published
\* at most once.
CommittedOnce ==
  \A i \in Id : sent[i] # None /\ sent[i].cfg # None => published[i] <= 1

\* activateWhileInspectionPaused never refuses a generation the manager has
\* already persisted.
RuntimeAccepts == job.pc = "activate" => job.target.gen > rt.gen

\* A stopped engine comes back and serves requests, however startup was
\* interrupted.
EngineComesBack == (job.pc = "down") ~> (job.pc = "idle")

=============================================================================
