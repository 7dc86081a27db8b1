----------------------------- MODULE Inspection -----------------------------
(***************************************************************************)
(* The application guards of ngfw-engine: how an observation of a sensor   *)
(* becomes a kernel guard that drops one session, and how the guard is     *)
(* renewed, taken back and fenced against activations                      *)
(* (internal/engine/inspection_runtime.go and inspection_reducer.go over   *)
(* internal/session/inspection.go).                                        *)
(*                                                                         *)
(* One goroutine, the loop, reduces observations and session changes into  *)
(* the session's inspection record and asks for kernel work through a      *)
(* bounded queue of intents.  Workers execute the intents.  The activation *)
(* gate is a sync.RWMutex: the loop and the workers read-lock it, an       *)
(* activation write-locks it, and a waiting writer holds off new readers.  *)
(* A reduction is read, computed and compared-and-swapped on the record's  *)
(* revision, so it is one step; so is a completion.                        *)
(*                                                                         *)
(* The guard manager is the one GuardTable specifies: `blocked' are the    *)
(* keys the kernel drops and `owned' those the manager remembers.          *)
(***************************************************************************)
EXTENDS Naturals, Sequences, FiniteSets

CONSTANTS
  Session,       \* conntrack incarnations; each is created and closed once
  Worker,        \* intentWorker goroutines
  Scenarios,     \* [key, policy, workers, slots, guards, env, budget], see below
  MaxRenewals,   \* bound: renewals of guards that are in place
  MaxFailures,   \* bound: activations that fail
  None

App == {"SSH", "HTTP"}

VARIABLES
  key,           \* the nft key (zone, id, tuple) of each session
  policy,        \* policy[g]: [mode, allowed] that generation g selects
  workers,       \* the workers that Start launched
  slots,         \* capacity of intentQueue
  guards,        \* InspectionGuardManager.max
  env,           \* which of these happen: "fault" (of nft or an activation),
                 \* "close", "weak" (evidence that identifies nothing for sure)
  budget,        \* bound: observations in this behaviour
  gen,           \* Runtime.generation
  gate,          \* [readers, writer]: the activation gate
  store,         \* the active sessions: [polgen, insp], None when absent
  gone,          \* closed sessions
  live,          \* sessions whose conntrack entry the kernel still has
  signals,       \* sessionQueue; duplicates change nothing
  intents,       \* intentQueue
  loop,          \* None, or the intent the loop could not enqueue
  worker,        \* [pc, intent, closed, result] of each worker
  blocked, owned,
  seen, renewals, failures,
  acked          \* history: sessions whose guard the kernel has acknowledged
                 \* since it was last requested

config == <<key, policy, workers, slots, guards, env, budget>>
vars == <<config, gen, gate, store, gone, live, signals, intents, loop, worker,
          blocked, owned, seen, renewals, failures, acked>>

(***************************************************************************)
(* Applications.  A rank of 4 or more is HIGH or VERIFIED evidence.        *)
(***************************************************************************)
Unknown == [name |-> "UNKNOWN", rank |-> 1, conflicted |-> FALSE]
Evidence(name, rank) == [name |-> name, rank |-> rank, conflicted |-> FALSE]
Strong(app) == ~app.conflicted /\ app.rank >= 4

\* MergeApplication; `order' compares the observation times.
MergeApplication(previous, next, order) ==
  CASE previous.name = "UNKNOWN" -> next
    [] next.name = "UNKNOWN" -> previous
    [] previous.name = next.name /\ next.rank > previous.rank -> next
    [] previous.name = next.name -> previous
    [] next.rank < previous.rank -> previous
    [] order > 0 -> [next EXCEPT !.conflicted = FALSE]
    [] order = 0 /\ next.rank = previous.rank -> [previous EXCEPT !.conflicted = TRUE]
    [] next.rank > previous.rank -> next
    [] OTHER -> previous

\* EvaluateAppRestriction; `late' when the detection deadline has passed.
EvaluateAppRestriction(allowed, app, late) ==
  CASE allowed = {} -> "NOT_APPLICABLE"
    [] allowed # {} /\ app.conflicted -> "UNKNOWN_ALLOWED"
    [] allowed # {} /\ ~app.conflicted /\ ~Strong(app) ->
         IF late THEN "UNKNOWN_ALLOWED" ELSE "PENDING"
    [] allowed # {} /\ Strong(app) ->
         IF app.name \in allowed THEN "MATCHED" ELSE "MISMATCH"

(***************************************************************************)
(* Inspection records and intents                                          *)
(***************************************************************************)
NotRequested == [mech |-> "none", action |-> None, status |-> "NOT_REQUESTED", op |-> 0]
Reported     == [mech |-> "suricata", action |-> "drop", status |-> "REPORTED", op |-> 0]
Guard(action, status, op) == [mech |-> "guard", action |-> action, status |-> status, op |-> op]

DefaultSessionInspection ==
  [gen |-> 0, mode |-> "OFF", app |-> Unknown, state |-> "NOT_APPLICABLE",
   enf |-> NotRequested, rev |-> 0]

(***************************************************************************)
(* Types                                                                   *)
(***************************************************************************)
Mode == {"OFF", "IDS", "IPS"}

Selection == [mode : Mode, allowed : SUBSET App]

Application == [name : App \cup {"UNKNOWN"}, rank : Nat, conflicted : BOOLEAN]

AppPolicyState == {"NOT_APPLICABLE", "UNKNOWN_ALLOWED", "PENDING", "MATCHED", "MISMATCH"}

Result == {"APPLIED", "FAILED", "UNAVAILABLE"}

Enforcement ==
  [mech : {"none", "suricata", "guard"}, action : {None, "drop", "allow"},
   status : {"NOT_REQUESTED", "REPORTED", "PENDING"} \cup Result, op : Nat]

InspectionRecord ==
  [gen : Nat, mode : Mode, app : Application, state : AppPolicyState,
   enf : Enforcement, rev : Nat]

SessionRecord == [polgen : Nat, insp : InspectionRecord \cup {None}]

IntentRecord ==
  [kind : {"INSTALL", "RENEW", "REMOVE"}, sid : Session, op : Nat, gen : Nat, rev : Nat]

WorkerRecord ==
  [pc : {"idle", "check", "execute", "recheck", "cleanup", "complete"},
   intent : IntentRecord \cup {None}, closed : BOOLEAN, result : Result \cup {None}]

WellFormed(r) ==
  /\ r.pc # "idle" => r.intent \in IntentRecord
  /\ r.pc \in {"recheck", "cleanup", "complete"} => r.result \in Result

ASSUME NoneAssumption ==
  /\ None \notin InspectionRecord
  /\ None \notin SessionRecord
  /\ None \notin IntentRecord

ASSUME WorkerAssumption == "loop" \notin Worker

ASSUME ScenarioAssumption ==
  \A c \in Scenarios : /\ c.policy \in Seq(Selection) /\ c.policy # <<>>
                       /\ c.slots \in Nat

\* Every variable that decides what is enforced has its type; a worker has
\* the intent and the result its place calls for, and an activation has a
\* generation to go to.
TypeOK ==
  /\ policy \in Seq(Selection) /\ slots \in Nat
  /\ gen \in 1 .. Len(policy)
  /\ gate \in [readers : SUBSET (Worker \cup {"loop"}), writer : {"none", "waiting", "holding"}]
  /\ gate.writer # "none" => gen < Len(policy)
  /\ store \in [Session -> SessionRecord \cup {None}]
  /\ gone \subseteq Session
  /\ intents \in Seq(IntentRecord)
  /\ loop \in IntentRecord \cup {None}
  /\ worker \in [Worker -> WorkerRecord]
  /\ \A w \in Worker : WellFormed(worker[w])
  /\ acked \subseteq Session

Inspected(s) == store[s] # None /\ store[s].insp # None
Insp(s) == store[s].insp
Revision(s) == IF Inspected(s) THEN Insp(s).rev ELSE 0

\* A guard that drops is in place or on its way, as far as the record says.
Pending(e) == e.mech = "guard" /\ e.action = "drop" /\ e.status = "PENDING"
Applied(e) == e.mech = "guard" /\ e.action = "drop" /\ e.status = "APPLIED"

Intent(kind, s, op, rev) == [kind |-> kind, sid |-> s, op |-> op, gen |-> gen, rev |-> rev]

\* Without the generation: what a policy asked for may be executed under its
\* successor.
MatchesAnyGeneration(i, g) ==
  /\ Inspected(i.sid)
  /\ IF i.kind = "INSTALL"
     THEN Pending(Insp(i.sid).enf) /\ Insp(i.sid).enf.op = i.op
     ELSE Insp(i.sid).rev = i.rev

\* InspectionIntent.MatchesSession: the incarnation, the generation, and either
\* the pending operation (an install) or the exact revision (the others).
MatchesSession(i, g) ==
  /\ Inspected(i.sid)
  /\ i.gen = g /\ Insp(i.sid).gen = g
  /\ Insp(i.sid).rev >= i.rev
  /\ IF i.kind = "INSTALL"
     THEN /\ Insp(i.sid).mode = "IPS" /\ Insp(i.sid).state = "MISMATCH"
          /\ Strong(Insp(i.sid).app)
          /\ Pending(Insp(i.sid).enf) /\ Insp(i.sid).enf.op = i.op
     ELSE Insp(i.sid).rev = i.rev

\* updateInspectionLocked.
Updated(s, insp) ==
  [store EXCEPT ![s].insp = [insp EXCEPT !.rev = Revision(s) + 1]]

\* UpdateInspection refuses a record whose session has moved to a newer
\* generation; the revision is the one that was read.
MayUpdate(s, g) == store[s].polgen <= g /\ (Inspected(s) => Insp(s).gen <= g)

\* A result that is merged without comparing the operation or the generation.
CompleteUnfenced(i, result) ==
  IF Inspected(i.sid) THEN Updated(i.sid, [Insp(i.sid) EXCEPT !.enf = result]) ELSE store

\* CompleteInspectionIntent, as completeIntent calls it: the enforcement result
\* is merged into the latest record.
CompleteInspectionIntent(i, result) ==
  IF store[i.sid] # None /\ i.gen = gen /\ MatchesSession(i, gen)
  THEN Updated(i.sid, [Insp(i.sid) EXCEPT !.enf = result])
  ELSE store

(***************************************************************************)
(* ReduceInspection: the record after one observation.  An alert replaces  *)
(* the enforcement unless a guard is pending or in place; a pending guard  *)
(* that the evidence no longer supports is given up; a mismatch asks for a *)
(* guard.                                                                  *)
(***************************************************************************)
WithApplication(base, selection, o) ==
  LET app == IF o.app.name = "UNKNOWN" THEN base.app
             ELSE MergeApplication(base.app, o.app, o.order)
  IN  [base EXCEPT !.app = app, !.state = EvaluateAppRestriction(selection.allowed, app, o.late)]

WithThreat(next, o) ==
  IF o.alert # None /\ ~(next.enf.mech = "guard" /\ next.enf.status \in {"PENDING", "APPLIED"})
  THEN [next EXCEPT !.enf = o.alert]
  ELSE next

WithSuperseded(next) ==
  IF /\ next.enf.mech = "guard" /\ next.enf.status = "PENDING"
     /\ ~(next.state = "MISMATCH" /\ next.mode = "IPS" /\ Strong(next.app))
  THEN [next EXCEPT !.enf.status = "UNAVAILABLE"]
  ELSE next

Wanted(next) ==
  /\ next.state = "MISMATCH" /\ next.mode = "IPS" /\ Strong(next.app)
  /\ ~Pending(next.enf) /\ ~Applied(next.enf)

ReduceInspection(s, selection, o) ==
  LET base == [(IF Inspected(s) THEN Insp(s) ELSE DefaultSessionInspection)
               EXCEPT !.gen = gen, !.mode = selection.mode]
      next == WithSuperseded(WithThreat(WithApplication(base, selection, o), o))
  IN  CASE selection.mode = "OFF" -> [base EXCEPT !.state = "NOT_APPLICABLE"]
        [] selection.mode # "OFF" /\ Wanted(next) ->
             [next EXCEPT !.enf = Guard("drop", "PENDING", base.rev + 1)]
        [] OTHER -> next

\* The intent that a reduction produces, if any.
Requested(s, next) ==
  IF Pending(next.enf) /\ next.enf.op = Revision(s) + 1
  THEN <<Intent("INSTALL", s, next.enf.op, next.enf.op)>>
  ELSE <<>>

(***************************************************************************)
(* Initial state                                                           *)
(***************************************************************************)
IdleWorker == [pc |-> "idle", intent |-> None, closed |-> FALSE, result |-> None]

Init ==
  /\ \E c \in Scenarios :
       /\ key = c.key /\ policy = c.policy /\ workers = c.workers
       /\ slots = c.slots /\ guards = c.guards /\ env = c.env /\ budget = c.budget
  /\ gen = 1
  /\ gate = [readers |-> {}, writer |-> "none"]
  /\ store = [s \in Session |-> None]
  /\ gone = {} /\ live = {} /\ signals = {} /\ intents = <<>>
  /\ loop = None
  /\ worker = [w \in Worker |-> IdleWorker]
  /\ blocked = {} /\ owned = {} /\ acked = {}
  /\ seen = 0 /\ renewals = 0 /\ failures = 0

MayRead == gate.writer = "none"

(***************************************************************************)
(* The session table: conntrack creates, ends and closes sessions          *)
(***************************************************************************)
SessionCreated(s) ==
  /\ store[s] = None /\ s \notin gone
  /\ \A t \in Session : key[t] = key[s] => store[t] = None /\ t \notin live
  /\ live' = live \cup {s}
  /\ store' = [store EXCEPT ![s] = [polgen |-> gen, insp |-> None]]
  /\ signals' = signals \cup {s}
  /\ UNCHANGED <<config, failures, gen, gate, gone, intents, loop, worker, blocked, owned,
                 seen, renewals, acked>>

FlowEnds(s) ==
  /\ "close" \in env /\ s \in live
  /\ live' = live \ {s}
  /\ UNCHANGED <<config, failures, gen, gate, store, gone, signals, intents, loop, worker,
                 blocked, owned, seen, renewals, acked>>

Enqueued(i) == IF Len(intents) < slots THEN Append(intents, i) ELSE intents

\* Close, then OnSessionClosed.
SessionClosed(s) ==
  /\ store[s] # None /\ s \notin live
  /\ store' = [store EXCEPT ![s] = None]
  /\ gone' = gone \cup {s}
  /\ intents' = IF Inspected(s) /\ Insp(s).enf.mech = "guard" /\ Insp(s).enf.status = "APPLIED"
                THEN Enqueued(Intent("REMOVE", s, 0, Insp(s).rev))
                ELSE intents
  /\ UNCHANGED <<config, failures, gen, gate, live, signals, loop, worker, blocked, owned,
                 seen, renewals, acked>>

(***************************************************************************)
(* The loop                                                                *)
(***************************************************************************)
Observations ==
  [app : {Evidence(a, 4) : a \in App} \cup
         (IF "weak" \in env THEN {Unknown} \cup {Evidence(a, 3) : a \in App} ELSE {}),
   order : IF "weak" \in env THEN {0, 1} ELSE {1},
   alert : IF "weak" \in env THEN {None, NotRequested, Reported} ELSE {None},
   late : IF "weak" \in env THEN BOOLEAN ELSE {FALSE}]

\* The detection deadline is set when a record is first restricted.
HasDeadline(s) == Inspected(s) /\ policy[Insp(s).gen].allowed # {}

\* handleObservation of a correlated observation.  When the intent queue is
\* full, the read lock is still held and completeIntent asks for it again.
HandleObservation(s, o) ==
  /\ loop = None /\ MayRead /\ seen < budget
  /\ store[s] # None /\ MayUpdate(s, gen) /\ (o.late => HasDeadline(s))
  /\ seen' = seen + 1
  /\ \E next \in {ReduceInspection(s, policy[gen], o)} :
       \E request \in {Requested(s, next)} :
         /\ store' = Updated(s, next)
         /\ IF request # <<>> /\ Len(intents) >= slots
            THEN /\ loop' = request[1]
                 /\ gate' = [gate EXCEPT !.readers = @ \cup {"loop"}]
                 /\ intents' = intents
            ELSE /\ intents' = intents \o request
                 /\ UNCHANGED <<loop, gate>>
         /\ acked' = IF request # <<>> THEN acked \ {s} ELSE acked
  /\ UNCHANGED <<config, failures, gen, gone, live, signals, worker, blocked, owned, renewals>>

\* completeIntent under handleObservation: the second read lock.
CompleteUnqueued ==
  /\ loop # None /\ MayRead
  /\ store' = CompleteInspectionIntent(loop, Guard("drop", "UNAVAILABLE", loop.op))
  /\ loop' = None
  /\ gate' = [gate EXCEPT !.readers = @ \ {"loop"}]
  /\ UNCHANGED <<config, failures, gen, gone, live, signals, intents, worker, blocked, owned,
                 seen, renewals, acked>>

\* handleSessionChanged: a fresh record for the current generation that keeps
\* only the application.  A guard that was in place is taken back unless the
\* application is still refused; a refused application without one gets one.
Reselected(s, selection) ==
  LET app == IF Inspected(s) THEN Insp(s).app ELSE Unknown
  IN  [DefaultSessionInspection EXCEPT
         !.gen = gen, !.mode = selection.mode, !.app = app,
         !.state = IF selection.mode = "OFF" THEN "NOT_APPLICABLE"
                   ELSE EvaluateAppRestriction(selection.allowed, app, FALSE)]

Refused(next) == next.state = "MISMATCH" /\ next.mode = "IPS" /\ Strong(next.app)
RemoveGuard(s, next) == Inspected(s) /\ Applied(Insp(s).enf) /\ ~Refused(next)
InstallGuard(s, next) ==
  Refused(next)
    /\ ~(Inspected(s) /\ Insp(s).enf.mech = "guard" /\ Insp(s).enf.status = "APPLIED")

HandleSessionChanged(s) ==
  /\ loop = None /\ MayRead /\ s \in signals
  /\ signals' = signals \ {s}
  /\ IF store[s] = None \/ (Inspected(s) /\ Insp(s).gen = gen /\ Insp(s).mode = policy[gen].mode)
     THEN UNCHANGED <<store, intents, acked>>
     ELSE \E next \in {Reselected(s, policy[gen])} :
            \E op \in {Revision(s) + 1} :
              /\ store' = Updated(s, IF InstallGuard(s, next)
                                     THEN [next EXCEPT !.enf = Guard("drop", "PENDING", op)]
                                     ELSE next)
              /\ intents' = CASE RemoveGuard(s, next) -> Enqueued(Intent("REMOVE", s, 0, op))
                              [] InstallGuard(s, next) -> Enqueued(Intent("INSTALL", s, op, op))
                              [] OTHER -> intents
              /\ acked' = IF InstallGuard(s, next) THEN acked \ {s} ELSE acked
  /\ UNCHANGED <<config, failures, gen, gate, gone, live, loop, worker, blocked, owned, seen,
                 renewals>>

\* sweepAppDeadlines, which does not take the gate.
SweepAppDeadline(s) ==
  /\ loop = None
  /\ Inspected(s) /\ Insp(s).state = "PENDING" /\ MayUpdate(s, Insp(s).gen)
  /\ store' = Updated(s, [Insp(s) EXCEPT !.state = "UNKNOWN_ALLOWED"])
  /\ UNCHANGED <<config, failures, gen, gate, gone, live, signals, intents, loop, worker,
                 blocked, owned, seen, renewals, acked>>

\* renewAppGuards, which does not take the gate either.
Renewable(s) ==
  /\ Inspected(s) /\ Insp(s).gen = gen /\ Insp(s).mode = "IPS"
  /\ Insp(s).state = "MISMATCH" /\ Strong(Insp(s).app)
  /\ Insp(s).enf.mech = "guard" /\ Insp(s).enf.status = "APPLIED"

Idle == intents = <<>> /\ \A w \in Worker : worker[w].pc = "idle"

RequestRenewal(s) ==
  /\ loop = None /\ Idle /\ Renewable(s)
  /\ key[s] \in blocked => renewals < MaxRenewals
  /\ renewals' = IF key[s] \in blocked THEN renewals + 1 ELSE renewals
  /\ intents' = Enqueued(Intent("RENEW", s, 0, Insp(s).rev))
  /\ UNCHANGED <<config, failures, gen, gate, store, gone, live, signals, loop, worker,
                 blocked, owned, seen, acked>>


RenewAppGuards(s) == RequestRenewal(s)

(***************************************************************************)
(* The workers: executeIntent                                              *)
(***************************************************************************)
Release(w) == gate' = [gate EXCEPT !.readers = @ \ {w}]

TakeIntent(w) ==
  /\ w \in workers /\ worker[w].pc = "idle" /\ intents # <<>>
  /\ worker' = [worker EXCEPT ![w] = [IdleWorker EXCEPT !.pc = "check", !.intent = Head(intents)]]
  /\ intents' = Tail(intents)
  /\ UNCHANGED <<config, failures, gen, gate, store, gone, live, signals, loop, blocked, owned,
                 seen, renewals, acked>>

HasActiveKernelKey(k) == \E t \in Session : store[t] # None /\ key[t] = k

\* The close of a session that is no longer there cleans up unless a newer
\* incarnation has the key; every other intent has to match its session.
ClosedCleanup(i) == i.kind = "REMOVE" /\ store[i.sid] = None

Executable(i) ==
  /\ IF ClosedCleanup(i) THEN ~HasActiveKernelKey(key[i.sid]) ELSE MatchesSession(i, gen)
  /\ i.kind # "REMOVE" => Insp(i.sid).mode = "IPS" /\ Insp(i.sid).state = "MISMATCH"

\* verifyKernelIdentity: the conntrack entry is still the session's.
Verified(i) == i.kind = "REMOVE" \/ i.sid \in live

CheckIntent(w) ==
  LET i == worker[w].intent IN
  /\ worker[w].pc = "check" /\ MayRead
  /\ worker' = [worker EXCEPT ![w] =
       CASE ~Executable(i) -> IdleWorker
         [] Executable(i) /\ Verified(i) -> [@ EXCEPT !.pc = "execute", !.closed = ClosedCleanup(i)]
         [] OTHER -> [@ EXCEPT !.pc = "complete", !.result = "UNAVAILABLE"]]
  /\ gate' = IF Executable(i) /\ Verified(i) THEN [gate EXCEPT !.readers = @ \cup {w}] ELSE gate
  /\ UNCHANGED <<config, failures, gen, store, gone, live, signals, intents, loop, blocked,
                 owned, seen, renewals, acked>>

\* ExecuteInspectionIntent.  An installation is refused at capacity; whatever
\* the manager does not own is not removed; nft may fail.
\* RenewAppGuard installs a guard that the manager does not own.
Installs(i) == i.kind \in {"INSTALL", "RENEW"}

Full(k) == k \notin owned /\ Cardinality(owned) >= guards

ExecuteIntent(w) ==
  LET i == worker[w].intent
      k == key[i.sid]
  IN
  /\ worker[w].pc = "execute"
  /\ \E ok \in {TRUE} \cup (IF "fault" \in env THEN {FALSE} ELSE {}) :
       /\ ok /\ Installs(i) => ~Full(k)
       /\ worker' = [worker EXCEPT ![w].pc = "recheck",
                                   ![w].result = IF ok THEN "APPLIED" ELSE "FAILED"]
       /\ blocked' = CASE ok /\ Installs(i) -> blocked \cup {k}
                       [] ok /\ i.kind = "REMOVE" -> blocked \ (owned \cap {k})
                       [] OTHER -> blocked
       /\ owned' = CASE ok /\ Installs(i) -> owned \cup {k}
                     [] ok /\ i.kind = "REMOVE" -> owned \ {k}
                     [] OTHER -> owned
       /\ acked' = IF ok /\ i.kind # "REMOVE" THEN acked \cup {i.sid} ELSE acked
  /\ UNCHANGED <<config, failures, gen, gate, store, gone, live, signals, intents, loop, seen, renewals>>

RefuseIntent(w) ==
  /\ worker[w].pc = "execute" /\ worker[w].intent.kind # "REMOVE"
  /\ Full(key[worker[w].intent.sid])
  /\ worker' = [worker EXCEPT ![w].pc = "recheck", ![w].result = "FAILED"]
  /\ UNCHANGED <<config, failures, gen, gate, store, gone, live, signals, intents, loop,
                 blocked, owned, seen, renewals, acked>>

\* The session is read again.  A guard for a session that moved on is removed
\* before the gate is given back.
StillValid(w) == worker[w].closed \/ MatchesSession(worker[w].intent, gen)

RecheckIntent(w) ==
  /\ worker[w].pc = "recheck"
  /\ IF /\ ~StillValid(w)
        /\ worker[w].result = "APPLIED" /\ worker[w].intent.kind # "REMOVE"
     THEN worker' = [worker EXCEPT ![w].pc = "cleanup"] /\ UNCHANGED gate
     ELSE /\ worker' = [worker EXCEPT ![w] =
                          IF StillValid(w) /\ ~@.closed THEN [@ EXCEPT !.pc = "complete"]
                                                        ELSE IdleWorker]
          /\ Release(w)
  /\ UNCHANGED <<config, failures, gen, store, gone, live, signals, intents, loop, blocked,
                 owned, seen, renewals, acked>>

CleanupStale(w) ==
  /\ worker[w].pc = "cleanup"
  /\ \E ok \in {TRUE} \cup (IF "fault" \in env THEN {FALSE} ELSE {}) :
       IF ok THEN /\ blocked' = blocked \ (owned \cap {key[worker[w].intent.sid]})
                  /\ owned' = owned \ {key[worker[w].intent.sid]}
             ELSE UNCHANGED <<blocked, owned>>
  /\ worker' = [worker EXCEPT ![w] = IdleWorker]
  /\ Release(w)
  /\ UNCHANGED <<config, failures, gen, store, gone, live, signals, intents, loop, seen,
                 renewals, acked>>

\* completeIntent, which takes the gate anew.
CompleteIntent(w) ==
  LET i == worker[w].intent IN
  /\ worker[w].pc = "complete" /\ MayRead
  /\ store' = CompleteInspectionIntent(i,
                Guard(IF i.kind = "REMOVE" THEN "allow" ELSE "drop", worker[w].result, i.op))
  /\ worker' = [worker EXCEPT ![w] = IdleWorker]
  /\ UNCHANGED <<config, failures, gen, gate, gone, live, signals, intents, loop, blocked,
                 owned, seen, renewals, acked>>

(***************************************************************************)
(* Activations and the kernel                                              *)
(***************************************************************************)
BeginActivation ==
  /\ gen < Len(policy) /\ gate.writer = "none"
  /\ gate' = [gate EXCEPT !.writer = "waiting"]
  /\ UNCHANGED <<config, failures, gen, store, gone, live, signals, intents, loop, worker,
                 blocked, owned, seen, renewals, acked>>

GateAcquired ==
  /\ gate.writer = "waiting" /\ gate.readers = {}
  /\ gate' = [gate EXCEPT !.writer = "holding"]
  /\ UNCHANGED <<config, failures, gen, store, gone, live, signals, intents, loop, worker,
                 blocked, owned, seen, renewals, acked>>

\* activateWhileInspectionPaused, EndActivation and the session signals; an
\* activation that fails only gives the gate back.
EndActivation ==
  /\ gate.writer = "holding"
  /\ gate' = [gate EXCEPT !.writer = "none"]
  /\ \/ /\ gen' = gen + 1
        /\ store' = [s \in Session |->
                       IF store[s] = None THEN None ELSE [store[s] EXCEPT !.polgen = gen']]
        /\ signals' = signals \cup {s \in Session : store[s] # None}
        /\ failures' = failures
     \/ /\ "fault" \in env /\ failures < MaxFailures
        /\ failures' = failures + 1
        /\ UNCHANGED <<gen, store, signals>>
  /\ UNCHANGED <<config, gone, live, intents, loop, worker, blocked, owned, seen,
                 renewals, acked>>

\* A guard that nothing renews times out.  The timeout is three renewal periods,
\* so a guard that is renewed does not.
GuardExpires(k) ==
  /\ k \in blocked
  /\ \A s \in Session : key[s] = k => ~Renewable(s)
  /\ blocked' = blocked \ {k}
  /\ UNCHANGED <<config, failures, gen, gate, store, gone, live, signals, intents, loop, worker,
                 owned, seen, renewals, acked>>

Loop ==
  \/ \E s \in Session, o \in Observations : HandleObservation(s, o)
  \/ CompleteUnqueued
  \/ \E s \in Session : HandleSessionChanged(s) \/ SweepAppDeadline(s) \/ RenewAppGuards(s)

Work(w) ==
  \/ TakeIntent(w) \/ CheckIntent(w) \/ ExecuteIntent(w) \/ RefuseIntent(w)
  \/ RecheckIntent(w) \/ CleanupStale(w) \/ CompleteIntent(w)

Next ==
  \/ Loop
  \/ \E w \in Worker : Work(w)
  \/ \E s \in Session : SessionCreated(s) \/ FlowEnds(s) \/ SessionClosed(s)
  \/ BeginActivation \/ GateAcquired \/ EndActivation
  \/ \E s \in Session : GuardExpires(key[s])

Spec == Init /\ [][Next]_vars

\* The loop's select and its tickers, the workers, a mutex that is granted in
\* turn, and the kernel's timeouts.  New sessions, observations and activations
\* may stop.
LiveSpec ==
  /\ Spec
  /\ WF_vars(CompleteUnqueued)
  /\ \A s \in Session : /\ WF_vars(HandleSessionChanged(s))
                        /\ WF_vars(RenewAppGuards(s) /\ key[s] \notin blocked)
                        /\ WF_vars(SessionClosed(s))
                        /\ WF_vars(GuardExpires(key[s]))
  /\ \A w \in Worker : WF_vars(Work(w))
  /\ WF_vars(GateAcquired) /\ WF_vars(EndActivation)

(***************************************************************************)
(* Properties                                                              *)
(***************************************************************************)

\* A session is reported as dropped by a guard only when the kernel has
\* acknowledged a guard for it since the guard was last requested: neither a
\* failure nor the late result of an abandoned operation turns into a claim.
AppliedAfterAck ==
  \A s \in Session : Inspected(s) /\ Applied(Insp(s).enf) => s \in acked

InstallsCurrent ==
  \A k \in blocked' \ blocked :
    /\ gate.writer # "holding"
    /\ \E w \in Worker : /\ worker[w].pc = "execute" /\ key[worker[w].intent.sid] = k
                         /\ worker[w].intent.gen = gen

\* A guard is put into the kernel only on behalf of the generation that is
\* current at that moment, and never while an activation holds the gate: what an
\* older policy asked for is not enforced under its successor.
InstalledByCurrent == [][InstallsCurrent]_vars

Roomy == slots > Cardinality(Session)


\* An activation that asks for the gate gets it.
ActivationGetsGate == (gate.writer = "waiting") ~> (gate.writer # "waiting")

=============================================================================
