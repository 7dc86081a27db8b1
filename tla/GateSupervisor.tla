---- MODULE GateSupervisor ----
\* The proxy's RuntimeSupervisor (internal/proxy/runtime.go, runtime_factory.go)
\* and the engine's side of it: the descriptor it hands out, the heartbeat it
\* keeps and the preparation of a generation that uses the request gate
\* (internal/engine/gate_runtime.go, gate_activation.go). The proxy sends one
\* heartbeat at a time and reconciles with the descriptor in the reply.
EXTENDS Naturals

CONSTANTS
  None,
  MaxGen,      \* bound: the last generation
  MaxEvents    \* bound: restarts, losses, failures and changed files

VARIABLES
  enabled,     \* which generations use the request gate
  engine,      \* the engine: process, generations, preparation, readiness
  beat,        \* GateService.heartbeat, with whether its TTL has not passed
  proxy,       \* the supervisor
  disk,        \* version of the artifact files (ruleset, worker config, CA)
  events       \* disturbances so far

vars == <<enabled, engine, beat, proxy, disk, events>>

NoDescriptor == [inst |-> 0, gen |-> 0, prep |-> 0, enabled |-> FALSE, ready |-> FALSE,
                 expected |-> None]
NoBeat == [owner |-> 0, inst |-> 0, gen |-> 0, prep |-> 0, serving |-> FALSE, arts |-> None,
           failure |-> FALSE]
NewProxy(id) == [id |-> id, pc |-> "idle", descriptor |-> NoDescriptor, active |-> None,
                 failure |-> FALSE, sent |-> NoBeat, reply |-> None]

Disturbed == events < MaxEvents /\ events' = events + 1

\* The engine starts with a generation to activate, as cmd/ngfw-engine does.
Init ==
  /\ enabled \in [1 .. MaxGen -> BOOLEAN]
  /\ engine = [inst |-> 1, pc |-> "begin", gen |-> 1, running |-> 1, target |-> 1,
               prep |-> None, preps |-> 0, ready |-> 0, arts |-> None]
  /\ beat = [of |-> NoBeat, fresh |-> FALSE]
  /\ proxy = NewProxy(1)
  /\ disk = 1
  /\ events = 0

----
\* The engine's activations.

\* An administrator commits the next generation.
Commit ==
  /\ engine.pc = "idle" /\ engine.gen < MaxGen
  /\ engine' = [engine EXCEPT !.pc = "begin", !.target = engine.gen + 1]
  /\ UNCHANGED <<enabled, beat, proxy, disk, events>>

\* PrepareActivation forgets the verified interception. PrepareGateRuntime
\* publishes what the target needs, or ends an older preparation.
Prepare ==
  /\ engine.pc = "begin"
  /\ engine' = IF enabled[engine.target]
               THEN [engine EXCEPT !.pc = "preparing", !.ready = 0, !.preps = @ + 1,
                                   !.prep = [id |-> engine.preps + 1, gen |-> engine.target]]
               ELSE [engine EXCEPT !.pc = "publish", !.ready = 0, !.prep = None, !.arts = None]
  /\ UNCHANGED <<enabled, beat, proxy, disk, events>>

Matching ==
  beat.fresh /\ beat.of.prep = engine.prep.id /\ beat.of.inst = engine.inst

\* The loop of PrepareGateRuntime: a heartbeat of this preparation that serves
\* ends it well. prepareM4 holds a restart to the artifacts of its generation.
Prepared ==
  /\ engine.pc = "preparing" /\ Matching /\ beat.of.serving /\ ~beat.of.failure
  /\ engine.target = engine.gen /\ engine.arts # None => engine.arts = beat.of.arts
  /\ engine' = [engine EXCEPT !.pc = "publish", !.arts = beat.of.arts]
  /\ UNCHANGED <<enabled, beat, proxy, disk, events>>

\* The activation is given up and the running generation stays, or the starting
\* process ends.
GiveUp ==
  engine' = [engine EXCEPT !.pc = IF engine.target = engine.gen THEN "stopped" ELSE "idle",
                           !.prep = None]

PreparationRefused ==
  /\ engine.pc = "preparing" /\ Matching
  /\ \/ beat.of.failure
     \/ beat.of.serving /\ engine.target = engine.gen /\ engine.arts \notin {None, beat.of.arts}
  /\ GiveUp
  /\ UNCHANGED <<enabled, beat, proxy, disk, events>>

PreparationTimesOut ==
  /\ engine.pc = "preparing"
  /\ Disturbed
  /\ GiveUp
  /\ UNCHANGED <<enabled, beat, proxy, disk>>

\* The manager's Running advances, then the runtime's generation.
PublishRunning ==
  /\ engine.pc = "publish" /\ engine.running # engine.target
  /\ engine' = [engine EXCEPT !.running = engine.target]
  /\ UNCHANGED <<enabled, beat, proxy, disk, events>>

PublishRuntime ==
  /\ engine.pc = "publish" /\ engine.running = engine.target
  /\ engine' = [engine EXCEPT !.pc = "finalize", !.gen = engine.target]
  /\ UNCHANGED <<enabled, beat, proxy, disk, events>>

Confirmed == engine.prep # None => Matching /\ beat.of.serving /\ ~beat.of.failure

\* ConfirmGatePreparation, FinalizeActivation with its verification of the kernel
\* path, CompleteGatePreparation.
Finalize ==
  /\ engine.pc = "finalize" /\ Confirmed
  /\ engine' = [engine EXCEPT !.pc = "idle", !.prep = None,
                              !.ready = IF enabled[engine.gen] THEN engine.gen ELSE 0]
  /\ UNCHANGED <<enabled, beat, proxy, disk, events>>

\* What cannot be confirmed is compensated by a newer generation, and the
\* preparation stays until that has its own.
NotConfirmed ==
  /\ engine.pc = "finalize" /\ ~Confirmed
  /\ engine' = IF engine.gen < MaxGen
               THEN [engine EXCEPT !.pc = "begin", !.target = engine.gen + 1]
               ELSE [engine EXCEPT !.pc = "stopped", !.prep = None]
  /\ UNCHANGED <<enabled, beat, proxy, disk, events>>

\* The monitor verifies the kernel path of the published snapshot.
Verified ==
  /\ engine.pc = "idle" /\ enabled[engine.gen] /\ engine.arts # None /\ engine.ready = 0
  /\ engine' = [engine EXCEPT !.ready = engine.gen]
  /\ UNCHANGED <<enabled, beat, proxy, disk, events>>

VerificationFails ==
  /\ engine.pc = "idle" /\ engine.ready # 0
  /\ Disturbed
  /\ engine' = [engine EXCEPT !.ready = 0]
  /\ UNCHANGED <<enabled, beat, proxy, disk>>

EngineRestarts ==
  /\ engine.pc \in {"idle", "stopped"}
  /\ Disturbed
  /\ engine' = [engine EXCEPT !.inst = @ + 1, !.pc = "begin", !.target = engine.gen,
                              !.prep = None, !.ready = 0]
  /\ beat' = [of |-> NoBeat, fresh |-> FALSE]
  /\ UNCHANGED <<enabled, proxy, disk>>

\* The TTL of the heartbeat passes: its proxy is gone, or is late.
BeatAges ==
  /\ beat.fresh /\ proxy.id # beat.of.owner
  /\ beat' = [beat EXCEPT !.fresh = FALSE]
  /\ UNCHANGED <<enabled, engine, proxy, disk, events>>

BeatIsLate ==
  /\ beat.fresh /\ proxy.id = beat.of.owner
  /\ Disturbed
  /\ beat' = [beat EXCEPT !.fresh = FALSE]
  /\ UNCHANGED <<enabled, engine, proxy, disk>>

----
\* SyncProxy.

\* RuntimeDescriptor: what is being prepared, or the running generation.
Descriptor ==
  IF engine.prep # None
  THEN [inst |-> engine.inst, gen |-> engine.prep.gen, prep |-> engine.prep.id, enabled |-> TRUE,
        ready |-> FALSE, expected |-> None]
  ELSE [inst |-> engine.inst, gen |-> engine.gen, prep |-> 0, enabled |-> enabled[engine.gen],
        ready |-> enabled[engine.gen] /\ engine.ready = engine.gen,
        expected |-> IF enabled[engine.gen] /\ engine.ready = engine.gen THEN engine.arts ELSE None]

\* The heartbeat contradicts the descriptor.
Malformed(b, d) ==
  \/ d.ready /\ b.serving /\ d.expected # None /\ b.arts # d.expected
  \/ (~d.enabled \/ (~d.ready /\ d.prep = 0)) /\ b.serving


\* Another proxy was heard for this descriptor within the TTL.
Taken(b) ==
  /\ beat.of.gen = b.gen /\ beat.of.inst = b.inst /\ beat.of.prep = b.prep
  /\ beat.of.owner # b.owner /\ beat.fresh

\* A beat of another descriptor only learns the current one.
SyncProxy ==
  /\ proxy.pc = "sent"
  /\ LET b == proxy.sent
         d == Descriptor
         mine == b.inst = d.inst /\ b.gen = d.gen /\ b.prep = d.prep
         bad == \/ engine.prep = None /\ engine.gen # engine.running
                \/ mine /\ (Malformed(b, d) \/ Taken(b))
     IN  /\ proxy' = [proxy EXCEPT !.pc = "replied", !.reply = IF bad THEN None ELSE d]
         /\ beat' = IF mine /\ ~bad THEN [of |-> b, fresh |-> TRUE] ELSE beat
  /\ UNCHANGED <<enabled, engine, disk, events>>

\* The call or its reply is lost.
CallLost ==
  /\ proxy.pc \in {"sent", "replied"}
  /\ Disturbed
  /\ proxy' = [proxy EXCEPT !.pc = "replied", !.reply = None]
  /\ UNCHANGED <<enabled, engine, beat, disk>>

----
\* Reconcile.

\* Snapshot of the active runtime, or what is wrong without one.
SendBeat ==
  /\ proxy.pc = "idle"
  /\ LET d == proxy.descriptor
         current == proxy.active
     IN  proxy' = [proxy EXCEPT !.pc = "sent", !.reply = None,
                     !.sent = [owner |-> proxy.id, inst |-> d.inst, gen |-> d.gen, prep |-> d.prep,
                               serving |-> current # None,
                               arts |-> IF current = None THEN None ELSE current.arts,
                               failure |-> IF current = None THEN proxy.failure
                                          ELSE ~current.healthy]]
  /\ UNCHANGED <<enabled, engine, beat, disk, events>>

\* A descriptor the engine cannot have issued after the one the proxy has.
Stale(d, next) ==
  d.prep = 0 /\ next.prep = 0 /\ next.inst = d.inst /\ next.gen < d.gen

\* A mutated form: the artifacts of the prepared runtime are not compared.
PromotedUnchecked(d, next, arts) ==
  /\ d.prep # 0 /\ next.prep = 0 /\ next.ready
  /\ next.inst = d.inst /\ next.gen = d.gen

\* The prepared runtime is kept when its generation goes into service.
Promoted(d, next, arts) ==
  /\ d.prep # 0 /\ next.prep = 0 /\ next.ready
  /\ next.inst = d.inst /\ next.gen = d.gen
  /\ next.expected # None => arts = next.expected

Wanted(d) == d.enabled /\ (d.ready \/ d.prep # 0)

\* A runtime for the descriptor from the files of the moment, if they are the
\* ones it expects and everything starts.
Start(next, ok) ==
  IF ~ok \/ next.expected \notin {None, disk} THEN None
  ELSE [for |-> next.gen, arts |-> disk, healthy |-> TRUE]

\* The call failed, or its answer is impossible: everything is closed.
Refused == [proxy EXCEPT !.pc = "idle", !.active = None, !.failure = TRUE]

\* The runtime that remains once the descriptor is taken over.
Kept(next) ==
  IF next = proxy.descriptor \/ Promoted(proxy.descriptor, next, proxy.sent.arts)
  THEN proxy.active ELSE None

\* A failed one is retired, and a missing one started.
Reconciled(next, ok) ==
  LET kept == Kept(next)
      broken == kept # None /\ proxy.sent.failure
      active == IF Wanted(next) /\ (kept = None \/ broken) THEN Start(next, ok) ELSE kept
  IN  [proxy EXCEPT !.pc = "idle", !.descriptor = next, !.active = active,
         !.failure = \/ next.enabled /\ (~Wanted(next) \/ active = None)
                     \/ ~next.enabled /\ next = proxy.descriptor /\ proxy.failure]

Apply ==
  /\ proxy.pc = "replied"
  /\ proxy' = IF proxy.reply = None \/ Stale(proxy.descriptor, proxy.reply) THEN Refused
              ELSE Reconciled(proxy.reply, TRUE)
  /\ UNCHANGED <<enabled, engine, beat, disk, events>>

\* A listener, the certificate authority or the worker pool does not start.
StartFails ==
  /\ proxy.pc = "replied" /\ proxy.reply # None /\ ~Stale(proxy.descriptor, proxy.reply)
  /\ Disturbed
  /\ proxy' = Reconciled(proxy.reply, FALSE)
  /\ UNCHANGED <<enabled, engine, beat, disk>>

\* A worker process is poisoned or a listener stops.
RuntimeBreaks ==
  /\ proxy.active # None /\ proxy.active.healthy
  /\ Disturbed
  /\ proxy' = [proxy EXCEPT !.active.healthy = FALSE]
  /\ UNCHANGED <<enabled, engine, beat, disk>>

ProxyRestarts ==
  /\ Disturbed
  /\ proxy' = NewProxy(proxy.id + 1)
  /\ UNCHANGED <<enabled, engine, beat, disk>>

FilesChange ==
  /\ Disturbed
  /\ disk' = disk + 1
  /\ UNCHANGED <<enabled, engine, beat, proxy>>

----
Activation ==
  \/ Prepare \/ Prepared \/ PreparationRefused \/ PublishRunning \/ PublishRuntime
  \/ Finalize \/ NotConfirmed

Reconcile == SendBeat \/ SyncProxy \/ Apply

Next ==
  \/ Commit \/ Activation \/ PreparationTimesOut \/ Verified \/ VerificationFails \/ EngineRestarts
  \/ BeatAges \/ BeatIsLate \/ Reconcile \/ CallLost \/ StartFails \/ RuntimeBreaks \/ ProxyRestarts \/ FilesChange

Spec == Init /\ [][Next]_vars

\* The supervisor's loop, the activation in progress and the monitor run, and the
\* heartbeat of a proxy that is gone ages.
Fairness ==
  WF_vars(Reconcile) /\ WF_vars(Activation) /\ WF_vars(Verified) /\ WF_vars(BeatAges)

----
\* Properties.

\* A runtime in service is made of the artifacts that the engine verified and
\* recorded for the generation: the prepared one is kept only if its files are
\* still those the preparation reported, though files change, either process may
\* restart and replies are lost between the preparation and the promotion.
ServesExpected ==
  LET d == proxy.descriptor
  IN  proxy.active # None /\ d.ready => proxy.active.arts = d.expected /\ proxy.active.for = d.gen


====
