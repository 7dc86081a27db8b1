-------------------------- MODULE InspectionProofs --------------------------
(***************************************************************************)
(* Proofs about Inspection, for any sessions, workers, queue sizes and     *)
(* policies.                                                               *)
(***************************************************************************)
EXTENDS Inspection, TLAPS

(***************************************************************************)
(* Types                                                                   *)
(***************************************************************************)

\* MergeApplication returns an application.
LEMMA MergeType ==
  ASSUME NEW previous \in Application, NEW next \in Application, NEW order \in Nat
  PROVE  MergeApplication(previous, next, order) \in Application
BY Zenon DEF MergeApplication, Application

\* EvaluateAppRestriction returns a state of the application policy.
LEMMA RestrictionType ==
  ASSUME NEW allowed, NEW app \in Application, NEW late \in BOOLEAN
  PROVE  EvaluateAppRestriction(allowed, app, late) \in AppPolicyState
BY DEF EvaluateAppRestriction, AppPolicyState, Strong, Application

\* The policy of the current generation is a selection.
LEMMA CurrentSelection ==
  ASSUME TypeOK
  PROVE  policy[gen] \in Selection /\ policy[gen].mode \in Mode /\ gen \in Nat
<1>1. policy[gen] \in Selection
  BY DEF TypeOK
<1> QED
  BY <1>1 DEF TypeOK, Selection

\* The record a reduction starts from.
Base(s) == IF Inspected(s) THEN Insp(s) ELSE DefaultSessionInspection

\* The enforcement the record of s states.
Enf(s) == IF Inspected(s) THEN Insp(s).enf ELSE NotRequested

LEMMA BaseType ==
  ASSUME TypeOK, NEW s \in Session
  PROVE  /\ Base(s) \in InspectionRecord
         /\ Base(s).rev = Revision(s) /\ Revision(s) \in Nat
         /\ Base(s).enf = Enf(s) /\ Enf(s) \in Enforcement
<1>1. store[s] \in SessionRecord \cup {None}
  BY DEF TypeOK
<1>2. Inspected(s) => Insp(s) \in InspectionRecord
  BY <1>1 DEF Inspected, Insp, SessionRecord
<1>3. DefaultSessionInspection \in InspectionRecord
  BY DEF DefaultSessionInspection, InspectionRecord, NotRequested, Enforcement, Unknown,
         Application, Mode, AppPolicyState
<1> QED
  BY <1>2, <1>3 DEF Base, Enf, Revision, InspectionRecord, DefaultSessionInspection

\* An observation has its type.
LEMMA ObservationType ==
  ASSUME NEW o \in Observations
  PROVE  /\ o.app \in Application /\ o.order \in Nat /\ o.late \in BOOLEAN
         /\ o.alert \in {None, NotRequested, Reported}
<1>1. \A a \in App, n \in {3, 4} : Evidence(a, n) \in Application
  BY DEF Evidence, Application
<1>2. Unknown \in Application
  BY DEF Unknown, Application
<1>3. o.app \in {Evidence(a, 4) : a \in App} \cup ({Unknown} \cup {Evidence(a, 3) : a \in App})
  BY DEF Observations
<1>4. o.order \in {0, 1} /\ o.late \in BOOLEAN /\ o.alert \in {None, NotRequested, Reported}
  BY Zenon DEF Observations
<1> QED
  BY <1>1, <1>2, <1>3, <1>4

\* WithApplication keeps the shape of a record and what it says of enforcement.
LEMMA WithApplicationType ==
  ASSUME NEW base \in InspectionRecord, NEW selection, NEW o \in Observations
  PROVE  /\ WithApplication(base, selection, o) \in InspectionRecord
         /\ WithApplication(base, selection, o).enf = base.enf
         /\ WithApplication(base, selection, o).rev = base.rev
<1> DEFINE app == IF o.app.name = "UNKNOWN" THEN base.app
                  ELSE MergeApplication(base.app, o.app, o.order)
<1>1. app \in Application
  BY MergeType, ObservationType, Zenon DEF InspectionRecord
<1>2. EvaluateAppRestriction(selection.allowed, app, o.late) \in AppPolicyState
  BY <1>1, RestrictionType, ObservationType
<1> HIDE DEF app
<1>3. WithApplication(base, selection, o)
        = [base EXCEPT !.app = app, !.state = EvaluateAppRestriction(selection.allowed, app, o.late)]
  BY DEF WithApplication, app
<1> QED
  BY <1>1, <1>2, <1>3, Zenon DEF InspectionRecord

\* A guard's enforcement is one.
LEMMA GuardType ==
  ASSUME NEW action \in {"drop", "allow"}, NEW status \in {"PENDING"} \cup Result, NEW op \in Nat
  PROVE  /\ Guard(action, status, op) \in Enforcement
         /\ Guard(action, status, op).op = op
         /\ Pending(Guard(action, status, op)) <=> action = "drop" /\ status = "PENDING"
         /\ Applied(Guard(action, status, op)) <=> action = "drop" /\ status = "APPLIED"
BY DEF Guard, Enforcement, Pending, Applied

\* WithThreat and WithSuperseded keep the enforcement, or leave one that is
\* neither pending nor applied.
LEMMA WithThreatType ==
  ASSUME NEW next \in InspectionRecord, NEW o \in Observations
  PROVE  /\ WithThreat(next, o) \in InspectionRecord
         /\ WithThreat(next, o).rev = next.rev
         /\ \/ WithThreat(next, o).enf = next.enf
            \/ /\ ~Pending(WithThreat(next, o).enf)
               /\ ~Applied(WithThreat(next, o).enf)
<1>1. CASE WithThreat(next, o) = next
  BY <1>1
<1>2. CASE WithThreat(next, o) = [next EXCEPT !.enf = o.alert] /\ o.alert # None
  <2>1. o.alert \in {NotRequested, Reported}
    BY <1>2, ObservationType
  <2>2. o.alert \in Enforcement /\ ~Pending(o.alert) /\ ~Applied(o.alert)
    BY <2>1 DEF NotRequested, Reported, Enforcement, Pending, Applied
  <2> QED
    BY <1>2, <2>2 DEF InspectionRecord
<1> QED
  BY <1>1, <1>2 DEF WithThreat

LEMMA WithSupersededType ==
  ASSUME NEW next \in InspectionRecord
  PROVE  /\ WithSuperseded(next) \in InspectionRecord
         /\ WithSuperseded(next).rev = next.rev
         /\ \/ WithSuperseded(next).enf = next.enf
            \/ /\ ~Pending(WithSuperseded(next).enf)
               /\ ~Applied(WithSuperseded(next).enf)
<1>1. CASE WithSuperseded(next) = next
  BY <1>1
<1>2. CASE WithSuperseded(next) = [next EXCEPT !.enf.status = "UNAVAILABLE"]
  <2> DEFINE e == [next.enf EXCEPT !.status = "UNAVAILABLE"]
  <2>1. e \in Enforcement /\ ~Pending(e) /\ ~Applied(e)
    BY DEF InspectionRecord, Enforcement, Pending, Applied, Result
  <2>2. WithSuperseded(next) = [next EXCEPT !.enf = e]
    BY <1>2 DEF InspectionRecord
  <2> HIDE DEF e
  <2> QED
    BY <2>1, <2>2 DEF InspectionRecord
<1> QED
  BY <1>1, <1>2 DEF WithSuperseded

\* Writes(s, next): `next` states the enforcement that the record of s states,
\* one that is newly requested, or one that is neither pending nor applied.
Writes(s, next) ==
  \/ next.enf = Enf(s)
  \/ Pending(next.enf) /\ next.enf.op = Revision(s) + 1
  \/ ~Pending(next.enf) /\ ~Applied(next.enf)

\* ReduceInspection.
LEMMA ReduceType ==
  ASSUME TypeOK, NEW s \in Session, NEW o \in Observations
  PROVE  /\ ReduceInspection(s, policy[gen], o) \in InspectionRecord
         /\ Writes(s, ReduceInspection(s, policy[gen], o))
<1> DEFINE selection == policy[gen]
           base == [Base(s) EXCEPT !.gen = gen, !.mode = selection.mode]
           app == WithApplication(base, selection, o)
           threat == WithThreat(app, o)
           next == WithSuperseded(threat)
           asked == Guard("drop", "PENDING", base.rev + 1)
<1>1. /\ base \in InspectionRecord
      /\ base.rev = Revision(s) /\ Revision(s) \in Nat /\ base.enf = Enf(s)
  BY BaseType, CurrentSelection, Zenon DEF InspectionRecord
<1> HIDE DEF base
<1>2. app \in InspectionRecord /\ app.enf = Enf(s) /\ app.rev = Revision(s)
  BY <1>1, WithApplicationType
<1> HIDE DEF app
<1>3. /\ threat \in InspectionRecord
      /\ threat.enf = Enf(s) \/ (~Pending(threat.enf) /\ ~Applied(threat.enf))
  BY <1>2, WithThreatType
<1> HIDE DEF threat
<1>4. /\ next \in InspectionRecord
      /\ next.enf = Enf(s) \/ (~Pending(next.enf) /\ ~Applied(next.enf))
  BY <1>3, WithSupersededType
<1> HIDE DEF next
<1>5. asked \in Enforcement /\ Pending(asked) /\ asked.op = Revision(s) + 1
  BY <1>1, GuardType
<1> HIDE DEF asked
<1>6. \/ ReduceInspection(s, selection, o) = [base EXCEPT !.state = "NOT_APPLICABLE"]
      \/ ReduceInspection(s, selection, o) = [next EXCEPT !.enf = asked]
      \/ ReduceInspection(s, selection, o) = next
  <2>1. ReduceInspection(s, selection, o) =
          CASE selection.mode = "OFF" -> [base EXCEPT !.state = "NOT_APPLICABLE"]
            [] selection.mode # "OFF" /\ Wanted(next) -> [next EXCEPT !.enf = asked]
            [] OTHER -> next
    BY Zenon DEF ReduceInspection, base, app, threat, next, asked, Base
  <2> HIDE DEF selection
  <2> QED
    BY <2>1, Zenon
<1>7. /\ [base EXCEPT !.state = "NOT_APPLICABLE"] \in InspectionRecord
      /\ [base EXCEPT !.state = "NOT_APPLICABLE"].enf = Enf(s)
  BY <1>1 DEF InspectionRecord, AppPolicyState
<1>8. /\ [next EXCEPT !.enf = asked] \in InspectionRecord
      /\ [next EXCEPT !.enf = asked].enf = asked
  BY <1>4, <1>5 DEF InspectionRecord
<1> QED
  BY <1>4, <1>5, <1>6, <1>7, <1>8, Zenon DEF Writes

\* Reselected.
LEMMA ReselectedType ==
  ASSUME TypeOK, NEW s \in Session
  PROVE  /\ Reselected(s, policy[gen]) \in InspectionRecord
         /\ Reselected(s, policy[gen]).enf = NotRequested
<1> DEFINE app == IF Inspected(s) THEN Insp(s).app ELSE Unknown
           state == IF policy[gen].mode = "OFF" THEN "NOT_APPLICABLE"
                    ELSE EvaluateAppRestriction(policy[gen].allowed, app, FALSE)
<1>1. app \in Application
  BY BaseType DEF Base, InspectionRecord, Unknown, Application
<1>2. state \in AppPolicyState
  BY <1>1, RestrictionType, Zenon DEF AppPolicyState
<1> HIDE DEF app, state
<1>3. Reselected(s, policy[gen]) =
        [DefaultSessionInspection EXCEPT
           !.gen = gen, !.mode = policy[gen].mode, !.app = app, !.state = state]
  BY DEF Reselected, app, state
<1>4. DefaultSessionInspection \in InspectionRecord
  BY DEF DefaultSessionInspection, InspectionRecord, NotRequested, Enforcement, Unknown,
         Application, Mode, AppPolicyState
<1> QED
  BY <1>1, <1>2, <1>3, <1>4, CurrentSelection, Zenon DEF InspectionRecord, DefaultSessionInspection

\* updateInspectionLocked writes one record and raises its revision.
LEMMA UpdatedType ==
  ASSUME TypeOK, NEW s \in Session, store[s] # None, NEW insp \in InspectionRecord
  PROVE  /\ Updated(s, insp) \in [Session -> SessionRecord \cup {None}]
         /\ Updated(s, insp)[s] \in SessionRecord /\ Updated(s, insp)[s] # None
         /\ Updated(s, insp)[s].insp # None
         /\ Updated(s, insp)[s].insp \in InspectionRecord
         /\ Updated(s, insp)[s].insp.rev = Revision(s) + 1
         /\ Updated(s, insp)[s].insp.enf = insp.enf
         /\ \A t \in Session \ {s} : Updated(s, insp)[t] = store[t]
<1> DEFINE r == [insp EXCEPT !.rev = Revision(s) + 1]
<1>1. r \in InspectionRecord /\ r.rev = Revision(s) + 1 /\ r.enf = insp.enf
  BY BaseType DEF InspectionRecord
<1> HIDE DEF r
<1>2. store[s] \in SessionRecord
  BY DEF TypeOK
<1>3. [store[s] EXCEPT !.insp = r] \in SessionRecord /\ [store[s] EXCEPT !.insp = r].insp = r
  BY <1>1, <1>2 DEF SessionRecord
<1>4. Updated(s, insp) = [store EXCEPT ![s] = [store[s] EXCEPT !.insp = r]]
  BY DEF Updated, r, TypeOK
<1>5. r # None
  BY <1>1, NoneAssumption
<1>6. [store[s] EXCEPT !.insp = r] # None
  BY <1>3, NoneAssumption
<1> QED
  BY <1>1, <1>3, <1>4, <1>5, <1>6 DEF TypeOK

\* completeIntent writes the result into the record that awaits it, or nothing.
LEMMA CompleteType ==
  ASSUME TypeOK, NEW i \in IntentRecord, NEW result \in Enforcement
  PROVE  /\ CompleteInspectionIntent(i, result) \in [Session -> SessionRecord \cup {None}]
         /\ \/ CompleteInspectionIntent(i, result) = store
            \/ /\ MatchesSession(i, gen) /\ store[i.sid] # None
               /\ CompleteInspectionIntent(i, result)
                    = Updated(i.sid, [Insp(i.sid) EXCEPT !.enf = result])
               /\ [Insp(i.sid) EXCEPT !.enf = result] \in InspectionRecord
               /\ [Insp(i.sid) EXCEPT !.enf = result].enf = result
<1>1. i.sid \in Session
  BY DEF IntentRecord
<1>2. CASE store[i.sid] # None /\ i.gen = gen /\ MatchesSession(i, gen)
  <2>1. Insp(i.sid) \in InspectionRecord
    BY <1>1, <1>2, BaseType DEF Base, MatchesSession
  <2>2. /\ [Insp(i.sid) EXCEPT !.enf = result] \in InspectionRecord
        /\ [Insp(i.sid) EXCEPT !.enf = result].enf = result
    BY <2>1 DEF InspectionRecord
  <2>3. Updated(i.sid, [Insp(i.sid) EXCEPT !.enf = result]) \in [Session -> SessionRecord \cup {None}]
    BY <1>1, <1>2, <2>2, UpdatedType
  <2> QED
    BY <1>2, <2>2, <2>3 DEF CompleteInspectionIntent
<1>3. CASE ~(store[i.sid] # None /\ i.gen = gen /\ MatchesSession(i, gen))
  BY <1>3 DEF CompleteInspectionIntent, TypeOK
<1> QED
  BY <1>2, <1>3

LEMMA IntentType ==
  ASSUME TypeOK, NEW kind \in {"INSTALL", "RENEW", "REMOVE"}, NEW s \in Session,
         NEW op \in Nat, NEW rev \in Nat
  PROVE  /\ Intent(kind, s, op, rev) \in IntentRecord
         /\ Intent(kind, s, op, rev).kind = kind /\ Intent(kind, s, op, rev).sid = s
         /\ Intent(kind, s, op, rev).op = op /\ Intent(kind, s, op, rev).rev = rev
         /\ Intent(kind, s, op, rev).gen = gen
BY CurrentSelection DEF Intent, IntentRecord

\* The queue after a call that may find it full holds the intents it held and
\* possibly the new one.
LEMMA EnqueuedType ==
  ASSUME TypeOK, NEW i \in IntentRecord
  PROVE  /\ Enqueued(i) \in Seq(IntentRecord)
         /\ \A n \in 1 .. Len(Enqueued(i)) :
              Enqueued(i)[n] = i \/ \E m \in 1 .. Len(intents) : intents[m] = Enqueued(i)[n]
<1>1. CASE Enqueued(i) = intents
  BY <1>1 DEF TypeOK
<1>2. CASE Enqueued(i) = Append(intents, i)
  <2>1. intents \in Seq(IntentRecord)
    BY DEF TypeOK
  <2>2. /\ Append(intents, i) \in Seq(IntentRecord)
        /\ Len(Append(intents, i)) = Len(intents) + 1
        /\ \A n \in 1 .. Len(intents) : Append(intents, i)[n] = intents[n]
        /\ Append(intents, i)[Len(intents) + 1] = i
    BY <2>1
  <2>3. Len(intents) \in Nat
    BY <2>1
  <2> QED
    BY <1>2, <2>2, <2>3
<1> QED
  BY <1>1, <1>2 DEF Enqueued

\* The intent of a reduction, if there is one.
LEMMA RequestedType ==
  ASSUME TypeOK, NEW s \in Session, NEW next \in InspectionRecord
  PROVE  \/ Requested(s, next) = <<>>
         \/ /\ Pending(next.enf) /\ next.enf.op = Revision(s) + 1
            /\ Requested(s, next) = <<Intent("INSTALL", s, Revision(s) + 1, Revision(s) + 1)>>
            /\ Requested(s, next)[1] = Intent("INSTALL", s, Revision(s) + 1, Revision(s) + 1)
            /\ Requested(s, next) # <<>>
BY DEF Requested

\* What handleObservation leaves in the queue.
LEMMA AfterRequest ==
  ASSUME TypeOK, NEW s \in Session, NEW next \in InspectionRecord
  PROVE  LET i == Intent("INSTALL", s, Revision(s) + 1, Revision(s) + 1)
             q == intents \o Requested(s, next)
         IN  /\ i \in IntentRecord
             /\ q \in Seq(IntentRecord)
             /\ \A n \in 1 .. Len(q) :
                  \/ q[n] = i /\ Requested(s, next) # <<>>
                  \/ \E m \in 1 .. Len(intents) : intents[m] = q[n]
<1> DEFINE i == Intent("INSTALL", s, Revision(s) + 1, Revision(s) + 1)
<1>1. i \in IntentRecord
  BY BaseType, IntentType
<1>2. intents \in Seq(IntentRecord)
  BY DEF TypeOK
<1>3. CASE Requested(s, next) = <<>>
  <2>1. intents \o <<>> = intents
    BY <1>2
  <2> QED
    BY <1>1, <1>2, <1>3, <2>1
<1>4. CASE Requested(s, next) = <<i>>
  <2> HIDE DEF i
  <2>1. intents \o <<i>> = Append(intents, i)
    BY <1>1, <1>2
  <2>2. /\ Append(intents, i) \in Seq(IntentRecord)
        /\ Len(Append(intents, i)) = Len(intents) + 1
        /\ \A n \in 1 .. Len(intents) : Append(intents, i)[n] = intents[n]
        /\ Append(intents, i)[Len(intents) + 1] = i
    BY <1>1, <1>2
  <2>3. Len(intents) \in Nat
    BY <1>2
  <2>4. Requested(s, next) # <<>>
    BY <1>4
  <2>5. \A n \in 1 .. Len(Append(intents, i)) :
          \/ Append(intents, i)[n] = i
          \/ \E m \in 1 .. Len(intents) : intents[m] = Append(intents, i)[n]
    BY <2>2, <2>3
  <2> QED
    BY <1>1, <1>4, <2>1, <2>2, <2>4, <2>5 DEF i
<1> QED
  BY <1>3, <1>4, RequestedType

\* A step of any action keeps the types.
LEMMA TypeStep ==
  ASSUME TypeOK, [Next]_vars
  PROVE  TypeOK'
<1>1. ASSUME NEW s \in Session, NEW o \in Observations, HandleObservation(s, o)
      PROVE  TypeOK'
  <2> DEFINE next == ReduceInspection(s, policy[gen], o)
  <2>1. next \in InspectionRecord /\ store[s] # None
    BY <1>1, ReduceType DEF HandleObservation
  <2>2. PICK request \in {Requested(s, next)} :
          /\ store' = Updated(s, next)
          /\ IF request # <<>> /\ Len(intents) >= slots
             THEN /\ loop' = request[1]
                  /\ gate' = [gate EXCEPT !.readers = @ \cup {"loop"}]
                  /\ intents' = intents
             ELSE /\ intents' = intents \o request
                  /\ UNCHANGED <<loop, gate>>
          /\ acked' = IF request # <<>> THEN acked \ {s} ELSE acked
    BY <1>1, Zenon DEF HandleObservation
  <2> HIDE DEF next
  <2>3. store' \in [Session -> SessionRecord \cup {None}]
    BY <2>1, <2>2, UpdatedType
  <2>a. intents \o Requested(s, next) \in Seq(IntentRecord)
    BY <2>1, AfterRequest
  <2>b. Requested(s, next) # <<>> => Requested(s, next)[1] \in IntentRecord
    BY <2>1, AfterRequest, RequestedType
  <2>4. intents' \in Seq(IntentRecord) /\ loop' \in IntentRecord \cup {None}
    BY <2>2, <2>a, <2>b, Zenon DEF TypeOK
  <2>5. gate' \in [readers : SUBSET (Worker \cup {"loop"}), writer : {"none", "waiting", "holding"}]
    BY <2>2 DEF TypeOK
  <2> QED
    BY <1>1, <2>2, <2>3, <2>4, <2>5 DEF HandleObservation, TypeOK, config
<1>2. ASSUME CompleteUnqueued PROVE TypeOK'
  <2>1. loop \in IntentRecord /\ loop.sid \in Session /\ loop.op \in Nat
    BY <1>2 DEF CompleteUnqueued, TypeOK, IntentRecord
  <2>2. Guard("drop", "UNAVAILABLE", loop.op) \in Enforcement
    BY <2>1, GuardType DEF Result
  <2>3. store' \in [Session -> SessionRecord \cup {None}]
    BY <1>2, <2>1, <2>2, CompleteType, Zenon DEF CompleteUnqueued
  <2> QED
    BY <1>2, <2>3 DEF CompleteUnqueued, TypeOK, config
<1>3. ASSUME NEW s \in Session, HandleSessionChanged(s) PROVE TypeOK'
  <2>1. CASE UNCHANGED <<store, intents, acked>>
    BY <1>3, <2>1 DEF HandleSessionChanged, TypeOK, config
  <2>2. CASE ~UNCHANGED <<store, intents, acked>>
    <3> DEFINE next == Reselected(s, policy[gen])
               op == Revision(s) + 1
               written == IF InstallGuard(s, next)
                          THEN [next EXCEPT !.enf = Guard("drop", "PENDING", op)]
                          ELSE next
    <3>1. /\ store[s] # None
          /\ store' = Updated(s, written)
          /\ intents' = CASE RemoveGuard(s, next) -> Enqueued(Intent("REMOVE", s, 0, op))
                          [] InstallGuard(s, next) -> Enqueued(Intent("INSTALL", s, op, op))
                          [] OTHER -> intents
          /\ acked' = IF InstallGuard(s, next) THEN acked \ {s} ELSE acked
      BY <1>3, <2>2 DEF HandleSessionChanged
    <3>2. next \in InspectionRecord /\ op \in Nat
      BY ReselectedType, BaseType
    <3>3. Guard("drop", "PENDING", op) \in Enforcement
      BY <3>2, GuardType
    <3>4. written \in InspectionRecord
      BY <3>2, <3>3 DEF InspectionRecord
    <3>5. /\ Enqueued(Intent("REMOVE", s, 0, op)) \in Seq(IntentRecord)
          /\ Enqueued(Intent("INSTALL", s, op, op)) \in Seq(IntentRecord)
      BY <3>2, IntentType, EnqueuedType
    <3> HIDE DEF next, op, written
    <3>6. store' \in [Session -> SessionRecord \cup {None}]
      BY <3>1, <3>4, UpdatedType
    <3>7. intents' \in Seq(IntentRecord)
      BY <3>1, <3>5 DEF TypeOK
    <3> QED
      BY <1>3, <3>1, <3>6, <3>7 DEF HandleSessionChanged, TypeOK, config
  <2> QED
    BY <2>1, <2>2
<1>4. ASSUME NEW s \in Session, SweepAppDeadline(s) PROVE TypeOK'
  <2>1. Insp(s) \in InspectionRecord /\ store[s] # None
    BY <1>4, BaseType DEF Base, SweepAppDeadline, Inspected
  <2>2. [Insp(s) EXCEPT !.state = "UNKNOWN_ALLOWED"] \in InspectionRecord
    BY <2>1 DEF InspectionRecord, AppPolicyState
  <2>3. store' \in [Session -> SessionRecord \cup {None}]
    BY <1>4, <2>1, <2>2, UpdatedType DEF SweepAppDeadline
  <2> QED
    BY <1>4, <2>3, Zenon DEF SweepAppDeadline, TypeOK, config
<1>5. ASSUME NEW s \in Session, RenewAppGuards(s) PROVE TypeOK'
  <2>1. Insp(s).rev \in Nat
    BY <1>5, BaseType DEF Base, RenewAppGuards, RequestRenewal, Renewable, InspectionRecord
  <2>2. intents' \in Seq(IntentRecord)
    BY <1>5, <2>1, IntentType, EnqueuedType, Zenon DEF RenewAppGuards, RequestRenewal
  <2> QED
    BY <1>5, <2>2 DEF RenewAppGuards, RequestRenewal, TypeOK, config
<1>a. ASSUME NEW w \in Worker, NEW x \in WorkerRecord, WellFormed(x),
             worker' = [worker EXCEPT ![w] = x]
      PROVE  worker' \in [Worker -> WorkerRecord] /\ \A v \in Worker : WellFormed(worker'[v])
  BY <1>a DEF TypeOK
<1>b. IdleWorker \in WorkerRecord /\ WellFormed(IdleWorker)
  BY DEF IdleWorker, WorkerRecord, WellFormed
<1>6. ASSUME NEW w \in Worker, TakeIntent(w) PROVE TypeOK'
  <2>1. /\ intents \in Seq(IntentRecord) /\ intents # <<>>
    BY <1>6 DEF TypeOK, TakeIntent
  <2>2. Head(intents) \in IntentRecord /\ Tail(intents) \in Seq(IntentRecord)
    BY <2>1
  <2> DEFINE taken == [IdleWorker EXCEPT !.pc = "check", !.intent = Head(intents)]
  <2>3. taken \in WorkerRecord /\ WellFormed(taken)
    BY <2>2, Zenon DEF IdleWorker, WorkerRecord, WellFormed
  <2>4. worker' = [worker EXCEPT ![w] = taken]
    BY <1>6 DEF TakeIntent
  <2> HIDE DEF taken
  <2>5. worker' \in [Worker -> WorkerRecord] /\ \A v \in Worker : WellFormed(worker'[v])
    BY <1>a, <2>3, <2>4, Zenon
  <2> QED
    BY <1>6, <2>2, <2>5 DEF TakeIntent, TypeOK, config
<1>7. ASSUME NEW w \in Worker, CheckIntent(w) PROVE TypeOK'
  <2> DEFINE i == worker[w].intent
             me == worker[w]
             go == [me EXCEPT !.pc = "execute", !.closed = ClosedCleanup(i)]
             gaveUp == [me EXCEPT !.pc = "complete", !.result = "UNAVAILABLE"]
  <2>1. me \in WorkerRecord /\ i \in IntentRecord
    BY <1>7 DEF TypeOK, CheckIntent, WellFormed
  <2>2. go \in WorkerRecord /\ WellFormed(go)
    BY <2>1, Zenon DEF WorkerRecord, ClosedCleanup, WellFormed
  <2>3. gaveUp \in WorkerRecord /\ WellFormed(gaveUp)
    BY <2>1, Zenon DEF WorkerRecord, Result, WellFormed
  <2>4. PICK x \in {IdleWorker, go, gaveUp} : worker' = [worker EXCEPT ![w] = x]
    BY <1>7, Zenon DEF CheckIntent
  <2> HIDE DEF go, gaveUp
  <2>5. worker' \in [Worker -> WorkerRecord] /\ \A v \in Worker : WellFormed(worker'[v])
    BY <1>a, <1>b, <2>2, <2>3, <2>4, ZenonT(60)
  <2>6. gate' \in [readers : SUBSET (Worker \cup {"loop"}), writer : {"none", "waiting", "holding"}]
        /\ gate'.writer = gate.writer
    BY <1>7 DEF CheckIntent, TypeOK
  <2> QED
    BY <1>7, <2>5, <2>6 DEF CheckIntent, TypeOK, config
<1>8. ASSUME NEW w \in Worker, ExecuteIntent(w) PROVE TypeOK'
  <2>1. worker[w] \in WorkerRecord /\ worker[w].intent \in IntentRecord
    BY <1>8 DEF TypeOK, ExecuteIntent, WellFormed
  <2>2. PICK ok \in BOOLEAN :
          /\ worker' = [worker EXCEPT ![w].pc = "recheck",
                                      ![w].result = IF ok THEN "APPLIED" ELSE "FAILED"]
          /\ acked' = IF ok /\ worker[w].intent.kind # "REMOVE"
                      THEN acked \cup {worker[w].intent.sid} ELSE acked
    BY <1>8, Zenon DEF ExecuteIntent
  <2> DEFINE x == [worker[w] EXCEPT !.pc = "recheck", !.result = IF ok THEN "APPLIED" ELSE "FAILED"]
  <2>3. x \in WorkerRecord /\ WellFormed(x)
    BY <2>1, Zenon DEF WorkerRecord, Result, WellFormed
  <2>4. worker' = [worker EXCEPT ![w] = x]
    BY <2>2, Zenon DEF TypeOK
  <2> HIDE DEF x
  <2>5. worker' \in [Worker -> WorkerRecord] /\ \A v \in Worker : WellFormed(worker'[v])
    BY <1>a, <2>3, <2>4, Zenon
  <2>6. acked' \subseteq Session
    BY <2>1, <2>2 DEF TypeOK, IntentRecord
  <2> QED
    BY <1>8, <2>5, <2>6 DEF ExecuteIntent, TypeOK, config
<1>9. ASSUME NEW w \in Worker, RefuseIntent(w) PROVE TypeOK'
  <2>1. worker[w] \in WorkerRecord /\ worker[w].intent \in IntentRecord
    BY <1>9 DEF TypeOK, RefuseIntent, WellFormed
  <2> DEFINE x == [worker[w] EXCEPT !.pc = "recheck", !.result = "FAILED"]
  <2>2. x \in WorkerRecord /\ WellFormed(x)
    BY <2>1, Zenon DEF WorkerRecord, Result, WellFormed
  <2>3. worker' = [worker EXCEPT ![w] = x]
    BY <1>9, Zenon DEF RefuseIntent, TypeOK
  <2> HIDE DEF x
  <2>4. worker' \in [Worker -> WorkerRecord] /\ \A v \in Worker : WellFormed(worker'[v])
    BY <1>a, <2>2, <2>3, ZenonT(60)
  <2> QED
    BY <1>9, <2>4 DEF RefuseIntent, TypeOK, config
<1>10. ASSUME NEW w \in Worker, RecheckIntent(w) PROVE TypeOK'
  <2> DEFINE stale == [worker[w] EXCEPT !.pc = "cleanup"]
             done == [worker[w] EXCEPT !.pc = "complete"]
  <2>1. /\ worker[w] \in WorkerRecord /\ worker[w].intent \in IntentRecord
        /\ worker[w].result \in Result
    BY <1>10 DEF TypeOK, RecheckIntent, WellFormed
  <2>2. stale \in WorkerRecord /\ WellFormed(stale)
    BY <2>1 DEF WorkerRecord, WellFormed
  <2>3. done \in WorkerRecord /\ WellFormed(done)
    BY <2>1 DEF WorkerRecord, WellFormed
  <2>4. PICK x \in {IdleWorker, stale, done} : worker' = [worker EXCEPT ![w] = x]
    BY <1>10 DEF RecheckIntent, TypeOK
  <2> HIDE DEF stale, done
  <2>5. worker' \in [Worker -> WorkerRecord] /\ \A v \in Worker : WellFormed(worker'[v])
    BY <1>a, <1>b, <2>2, <2>3, <2>4, ZenonT(60)
  <2>6. gate' \in [readers : SUBSET (Worker \cup {"loop"}), writer : {"none", "waiting", "holding"}]
        /\ gate'.writer = gate.writer
    BY <1>10 DEF RecheckIntent, Release, TypeOK
  <2> QED
    BY <1>10, <2>5, <2>6 DEF RecheckIntent, TypeOK, config
<1>11. ASSUME NEW w \in Worker, CleanupStale(w) PROVE TypeOK'
  <2>1. worker' \in [Worker -> WorkerRecord] /\ \A v \in Worker : WellFormed(worker'[v])
    BY <1>11, <1>a, <1>b, Zenon DEF CleanupStale
  <2>2. gate' \in [readers : SUBSET (Worker \cup {"loop"}), writer : {"none", "waiting", "holding"}]
        /\ gate'.writer = gate.writer
    BY <1>11 DEF CleanupStale, Release, TypeOK
  <2> QED
    BY <1>11, <2>1, <2>2 DEF CleanupStale, TypeOK, config
<1>12. ASSUME NEW w \in Worker, CompleteIntent(w) PROVE TypeOK'
  <2> DEFINE i == worker[w].intent
             action == IF i.kind = "REMOVE" THEN "allow" ELSE "drop"
             result == Guard(action, worker[w].result, i.op)
  <2>1. i \in IntentRecord /\ i.op \in Nat /\ worker[w].result \in Result
    BY <1>12 DEF TypeOK, CompleteIntent, WellFormed, IntentRecord
  <2>a. action \in {"drop", "allow"}
    OBVIOUS
  <2>2. result \in Enforcement
    <3> HIDE DEF action, i
    <3> QED
      BY <2>1, <2>a, GuardType, Zenon
  <2>3. store' = CompleteInspectionIntent(i, result)
    BY <1>12 DEF CompleteIntent
  <2> HIDE DEF result
  <2>4. store' \in [Session -> SessionRecord \cup {None}]
    BY <2>1, <2>2, <2>3, CompleteType, Zenon
  <2>5. worker' \in [Worker -> WorkerRecord] /\ \A v \in Worker : WellFormed(worker'[v])
    BY <1>12, <1>a, <1>b, ZenonT(60) DEF CompleteIntent
  <2> QED
    BY <1>12, <2>4, <2>5 DEF CompleteIntent, TypeOK, config
<1>13. ASSUME NEW s \in Session, SessionCreated(s) PROVE TypeOK'
  <2>1. [polgen |-> gen, insp |-> None] \in SessionRecord
    BY CurrentSelection DEF SessionRecord
  <2> QED
    BY <1>13, <2>1 DEF SessionCreated, TypeOK, config
<1>14. ASSUME NEW s \in Session, FlowEnds(s) PROVE TypeOK'
  BY <1>14 DEF FlowEnds, TypeOK, config
<1>15. ASSUME NEW s \in Session, SessionClosed(s) PROVE TypeOK'
  <2>1. Inspected(s) => Insp(s).rev \in Nat
    BY BaseType DEF Base, InspectionRecord
  <2>2. intents' \in Seq(IntentRecord)
    BY <1>15, <2>1, IntentType, EnqueuedType, Zenon DEF SessionClosed, TypeOK
  <2> QED
    BY <1>15, <2>2 DEF SessionClosed, TypeOK, config
<1>16. ASSUME BeginActivation PROVE TypeOK'
  BY <1>16 DEF BeginActivation, TypeOK, config
<1>17. ASSUME GateAcquired PROVE TypeOK'
  BY <1>17 DEF GateAcquired, TypeOK, config
<1>18. ASSUME EndActivation PROVE TypeOK'
  <2>1. policy' = policy /\ gen' \in 1 .. Len(policy)
    BY <1>18 DEF EndActivation, TypeOK, config
  <2>2. store' \in [Session -> SessionRecord \cup {None}]
    <3>1. CASE store' = store
      BY <3>1 DEF TypeOK
    <3>2. CASE store' = [s \in Session |->
                           IF store[s] = None THEN None ELSE [store[s] EXCEPT !.polgen = gen']]
      <4>1. \A s \in Session : store[s] # None => [store[s] EXCEPT !.polgen = gen'] \in SessionRecord
        BY <2>1, SMTT(30) DEF SessionRecord, TypeOK
      <4> QED
        BY <3>2, <4>1
    <3> QED
      BY <1>18, <3>1, <3>2 DEF EndActivation
  <2>3. gate' \in [readers : SUBSET (Worker \cup {"loop"}), writer : {"none", "waiting", "holding"}]
        /\ gate'.writer = "none"
    BY <1>18 DEF EndActivation, TypeOK
  <2> QED
    BY <1>18, <2>1, <2>2, <2>3, SMTT(30) DEF EndActivation, TypeOK, config
<1>19. ASSUME NEW s \in Session, GuardExpires(key[s]) PROVE TypeOK'
  BY <1>19 DEF GuardExpires, TypeOK, config
<1>20. ASSUME UNCHANGED vars PROVE TypeOK'
  BY <1>20 DEF vars, TypeOK, config
<1> QED
  BY <1>1, <1>2, <1>3, <1>4, <1>5, <1>6, <1>7, <1>8, <1>9, <1>10, <1>11, <1>12, <1>13, <1>14,
     <1>15, <1>16, <1>17, <1>18, <1>19, <1>20, SMTT(30)
  DEF Next, Loop, Work

LEMMA TypeInit ==
  Init => TypeOK
<1> SUFFICES ASSUME Init PROVE TypeOK
  OBVIOUS
<1>1. /\ policy \in Seq(Selection) /\ policy # <<>> /\ slots \in Nat
  BY ScenarioAssumption DEF Init
<1>2. 1 \in 1 .. Len(policy)
  BY <1>1
<1>3. IdleWorker \in WorkerRecord /\ WellFormed(IdleWorker)
  BY DEF IdleWorker, WorkerRecord, WellFormed
<1>4. <<>> \in Seq(IntentRecord)
  OBVIOUS
<1> QED
  BY <1>1, <1>2, <1>3, <1>4 DEF Init, TypeOK

\* Every variable keeps its type (Runtime, SessionInspection, InspectionIntent).
THEOREM TypeCorrect == Spec => []TypeOK
<1>1. TypeOK /\ [Next]_vars => TypeOK'
  BY TypeStep, SMTT(30)
<1> QED
  BY <1>1, TypeInit, PTL DEF Spec

(***************************************************************************)
(* The gate                                                                *)
(***************************************************************************)

\* A worker holds the gate from its check to its recheck, so no activation has
\* it then; what the worker executes was asked for by the current generation.
GateInv ==
  /\ gate.writer = "holding" => gate.readers = {}
  /\ \A w \in Worker :
       /\ worker[w].pc \in {"execute", "recheck", "cleanup"} => w \in gate.readers
       /\ worker[w].pc = "execute" /\ worker[w].intent.kind # "REMOVE" => worker[w].intent.gen = gen

LEMMA GateStep ==
  ASSUME TypeOK, GateInv, [Next]_vars
  PROVE  GateInv'
<1> USE DEF GateInv
<1>1. ASSUME NEW s \in Session, NEW o \in Observations, HandleObservation(s, o)
      PROVE  GateInv'
  <2>1. gate.writer = "none" /\ gate'.writer = "none" /\ gate.readers \subseteq gate'.readers
    BY <1>1 DEF HandleObservation, MayRead, TypeOK
  <2> QED
    BY <1>1, <2>1 DEF HandleObservation
<1>2. ASSUME CompleteUnqueued PROVE GateInv'
  BY <1>2, WorkerAssumption DEF CompleteUnqueued, MayRead, TypeOK
<1>3. ASSUME NEW s \in Session, HandleSessionChanged(s) PROVE GateInv'
  BY <1>3 DEF HandleSessionChanged
<1>4. ASSUME NEW s \in Session, SweepAppDeadline(s) PROVE GateInv'
  BY <1>4, SMTT(30) DEF SweepAppDeadline
<1>5. ASSUME NEW s \in Session, RenewAppGuards(s) PROVE GateInv'
  BY <1>5 DEF RenewAppGuards, RequestRenewal
<1>6. ASSUME NEW w \in Worker, TakeIntent(w) PROVE GateInv'
  BY <1>6, SMTT(30) DEF TakeIntent, IdleWorker, TypeOK
<1>7. ASSUME NEW w \in Worker, CheckIntent(w) PROVE GateInv'
  <2> DEFINE i == worker[w].intent
             go == [worker[w] EXCEPT !.pc = "execute", !.closed = ClosedCleanup(i)]
             gaveUp == [worker[w] EXCEPT !.pc = "complete", !.result = "UNAVAILABLE"]
  <2>1. worker[w] \in WorkerRecord
    BY DEF TypeOK
  <2>2. CASE Executable(i) /\ Verified(i)
    <3>1. worker' = [worker EXCEPT ![w] = go]
      BY <1>7, <2>2, Zenon DEF CheckIntent
    <3>2. gate'.readers = gate.readers \cup {w} /\ gate'.writer = gate.writer /\ gate.writer = "none"
      BY <1>7, <2>2 DEF CheckIntent, MayRead, TypeOK
    <3>3. go.pc = "execute" /\ go.intent = i
      BY <2>1, SMTT(30) DEF WorkerRecord
    <3>4. i.kind # "REMOVE" => i.gen = gen
      BY <2>2 DEF Executable, ClosedCleanup, MatchesSession
    <3> HIDE DEF go
    <3>5. worker'[w] = go /\ \A v \in Worker \ {w} : worker'[v] = worker[v]
      BY <3>1 DEF TypeOK
    <3>6. gen' = gen
      BY <1>7 DEF CheckIntent
    <3> QED
      BY <3>2, <3>3, <3>4, <3>5, <3>6
  <2>3. CASE ~(Executable(i) /\ Verified(i))
    <3>1. worker' = [worker EXCEPT ![w] = IdleWorker] \/ worker' = [worker EXCEPT ![w] = gaveUp]
      BY <1>7, <2>3, Zenon DEF CheckIntent
    <3>2. gate' = gate
      BY <1>7, <2>3 DEF CheckIntent
    <3>3. gaveUp.pc = "complete" /\ IdleWorker.pc = "idle"
      BY <2>1 DEF WorkerRecord, IdleWorker
    <3> HIDE DEF gaveUp
    <3>5. worker'[w].pc \in {"idle", "complete"} /\ \A v \in Worker \ {w} : worker'[v] = worker[v]
      BY <3>1, <3>3 DEF TypeOK
    <3>6. gen' = gen
      BY <1>7 DEF CheckIntent
    <3> QED
      BY <3>2, <3>5, <3>6
  <2> QED
    BY <2>2, <2>3
<1>8. ASSUME NEW w \in Worker, ExecuteIntent(w) PROVE GateInv'
  <2>1. PICK ok \in BOOLEAN :
          worker' = [worker EXCEPT ![w].pc = "recheck",
                                   ![w].result = IF ok THEN "APPLIED" ELSE "FAILED"]
    BY <1>8, Zenon DEF ExecuteIntent
  <2>2. worker'[w].pc = "recheck" /\ \A v \in Worker \ {w} : worker'[v] = worker[v]
    BY <2>1 DEF TypeOK, WorkerRecord
  <2> QED
    BY <1>8, <2>2, Zenon DEF ExecuteIntent
<1>9. ASSUME NEW w \in Worker, RefuseIntent(w) PROVE GateInv'
  <2>2. worker'[w].pc = "recheck" /\ \A v \in Worker \ {w} : worker'[v] = worker[v]
    BY <1>9 DEF RefuseIntent, TypeOK, WorkerRecord
  <2> QED
    BY <1>9, <2>2, ZenonT(60) DEF RefuseIntent
<1>10. ASSUME NEW w \in Worker, RecheckIntent(w) PROVE GateInv'
  <2>1. gen' = gen /\ worker[w].pc = "recheck"
    BY <1>10 DEF RecheckIntent
  <2>2. CASE worker' = [worker EXCEPT ![w].pc = "cleanup"] /\ UNCHANGED gate
    <3>1. worker'[w].pc = "cleanup" /\ \A v \in Worker \ {w} : worker'[v] = worker[v]
      BY <2>2 DEF TypeOK, WorkerRecord
    <3> QED
      BY <2>1, <2>2, <3>1
  <2>3. CASE /\ worker' = [worker EXCEPT ![w] =
                          IF StillValid(w) /\ ~@.closed THEN [@ EXCEPT !.pc = "complete"]
                                                        ELSE IdleWorker]
             /\ Release(w)
    <3>1. worker'[w].pc \in {"complete", "idle"} /\ \A v \in Worker \ {w} : worker'[v] = worker[v]
      BY <2>3 DEF TypeOK, WorkerRecord, IdleWorker
    <3>2. gate'.readers = gate.readers \ {w} /\ gate'.writer = gate.writer
      BY <2>3 DEF Release, TypeOK
    <3> QED
      BY <2>1, <3>1, <3>2
  <2> QED
    BY <1>10, <2>2, <2>3 DEF RecheckIntent
<1>11. ASSUME NEW w \in Worker, CleanupStale(w) PROVE GateInv'
  <2>1. worker'[w].pc = "idle" /\ \A v \in Worker \ {w} : worker'[v] = worker[v]
    BY <1>11 DEF CleanupStale, TypeOK, IdleWorker
  <2>2. gate'.readers = gate.readers \ {w} /\ gate'.writer = gate.writer /\ gen' = gen
    BY <1>11 DEF CleanupStale, Release, TypeOK
  <2> QED
    BY <2>1, <2>2
<1>12. ASSUME NEW w \in Worker, CompleteIntent(w) PROVE GateInv'
  <2>1. worker'[w].pc = "idle" /\ \A v \in Worker \ {w} : worker'[v] = worker[v]
    BY <1>12, SMTT(30) DEF CompleteIntent, TypeOK, IdleWorker
  <2> QED
    BY <1>12, <2>1 DEF CompleteIntent
<1>13. ASSUME NEW s \in Session, SessionCreated(s) PROVE GateInv'
  BY <1>13 DEF SessionCreated
<1>14. ASSUME NEW s \in Session, FlowEnds(s) PROVE GateInv'
  BY <1>14 DEF FlowEnds
<1>15. ASSUME NEW s \in Session, SessionClosed(s) PROVE GateInv'
  BY <1>15 DEF SessionClosed
<1>16. ASSUME BeginActivation PROVE GateInv'
  BY <1>16 DEF BeginActivation, TypeOK
<1>17. ASSUME GateAcquired PROVE GateInv'
  BY <1>17 DEF GateAcquired, TypeOK
<1>18. ASSUME EndActivation PROVE GateInv'
  <2>1. gate.readers = {} /\ gate'.readers = {} /\ worker' = worker
    BY <1>18 DEF EndActivation, TypeOK
  <2>2. \A w \in Worker : worker[w].pc \notin {"execute", "recheck", "cleanup"}
    BY <2>1
  <2> QED
    BY <2>1, <2>2
<1>19. ASSUME NEW s \in Session, GuardExpires(key[s]) PROVE GateInv'
  BY <1>19 DEF GuardExpires
<1>20. ASSUME UNCHANGED vars PROVE GateInv'
  BY <1>20 DEF vars
<1> QED
  BY <1>1, <1>2, <1>3, <1>4, <1>5, <1>6, <1>7, <1>8, <1>9, <1>10, <1>11, <1>12, <1>13, <1>14,
     <1>15, <1>16, <1>17, <1>18, <1>19, <1>20, ZenonT(60)
  DEF Next, Loop, Work

LEMMA GateInit ==
  Init => GateInv
BY DEF Init, GateInv, IdleWorker

THEOREM GateFenced == Spec => []GateInv
<1>1. TypeOK /\ GateInv /\ [Next]_vars => GateInv'
  BY GateStep
<1> QED
  BY <1>1, GateInit, TypeCorrect, PTL DEF Spec

\* Only an execution adds to what the kernel drops.
LEMMA InstalledStep ==
  ASSUME TypeOK, GateInv, [Next]_vars, NEW k \in blocked' \ blocked
  PROVE  /\ gate.writer # "holding"
         /\ \E w \in Worker : /\ worker[w].pc = "execute" /\ key[worker[w].intent.sid] = k
                              /\ worker[w].intent.gen = gen
<1>1. ASSUME NEW w \in Worker, ExecuteIntent(w)
      PROVE  /\ gate.writer # "holding"
             /\ worker[w].pc = "execute" /\ key[worker[w].intent.sid] = k
             /\ worker[w].intent.gen = gen
  <2>1. worker[w].pc = "execute" /\ w \in gate.readers
    BY <1>1 DEF ExecuteIntent, GateInv
  <2>2. Installs(worker[w].intent) /\ k = key[worker[w].intent.sid]
    BY <1>1 DEF ExecuteIntent
  <2> QED
    BY <2>1, <2>2 DEF GateInv, Installs
<1>2. ASSUME NEW w \in Worker, Work(w), ~ExecuteIntent(w) PROVE FALSE
  BY <1>2, Zenon DEF Work, TakeIntent, CheckIntent, RefuseIntent, RecheckIntent, CleanupStale,
              CompleteIntent
<1>3. ASSUME Loop PROVE FALSE
  BY <1>3, Zenon DEF Loop, HandleObservation, CompleteUnqueued, HandleSessionChanged, SweepAppDeadline,
              RenewAppGuards, RequestRenewal
<1>4. ASSUME NEW s \in Session,
             SessionCreated(s) \/ FlowEnds(s) \/ SessionClosed(s) \/ GuardExpires(key[s])
      PROVE  FALSE
  BY <1>4, Zenon DEF SessionCreated, FlowEnds, SessionClosed, GuardExpires
<1>5. ASSUME BeginActivation \/ GateAcquired \/ EndActivation \/ UNCHANGED vars PROVE FALSE
  BY <1>5 DEF BeginActivation, GateAcquired, EndActivation, vars
<1> QED
  BY <1>1, <1>2, <1>3, <1>4, <1>5 DEF Next

\* A guard enters the kernel only for the generation that is current, and never
\* while an activation holds the gate (executeIntent under activationGate).
THEOREM InstalledByCurrentHolds == Spec => InstalledByCurrent
<1>1. TypeOK /\ GateInv /\ [Next]_vars => InstallsCurrent
  BY InstalledStep DEF InstallsCurrent
<1> QED
  BY <1>1, TypeCorrect, GateFenced, PTL DEF Spec, InstalledByCurrent

(***************************************************************************)
(* Acknowledgements                                                        *)
(***************************************************************************)

\* The record of i's session still waits for the result of i: an installation
\* by its operation, anything else by its revision.
Awaited(i) ==
  /\ Inspected(i.sid)
  /\ IF i.kind = "INSTALL"
     THEN Pending(Insp(i.sid).enf) /\ Insp(i.sid).enf.op = i.op
     ELSE Insp(i.sid).rev = i.rev

\* An intent names a revision its session has reached, and an installation is
\* named after the revision that requested it.
Bounded(i) ==
  /\ i.sid \in gone \/ (Inspected(i.sid) /\ i.rev <= Insp(i.sid).rev)
  /\ i.kind = "INSTALL" => i.op = i.rev

\* The kernel has acknowledged the guard that r reports.
Vouched(r) ==
  /\ r.pc \in {"recheck", "complete"} /\ r.result = "APPLIED"
  /\ r.intent.kind # "REMOVE" /\ Awaited(r.intent)
  => r.intent.sid \in acked

AckInv ==
  /\ \A s \in Session : store[s] # None => s \notin gone
  /\ \A n \in 1 .. Len(intents) : Bounded(intents[n])
  /\ loop # None => Bounded(loop)
  /\ \A w \in Worker : /\ worker[w].pc # "idle" => Bounded(worker[w].intent)
                       /\ Vouched(worker[w])
  /\ AppliedAfterAck

\* What a step may do to the record of s: leave it alone, create it, drop it with
\* its session, or raise its revision.  A raised record is newly requested, keeps
\* its enforcement, or ends in one that is not pending and, when it is applied,
\* acknowledged.
Keeps(s) ==
  /\ store'[s] # None <=> store[s] # None
  /\ store[s] # None => store'[s].insp = store[s].insp
  /\ s \in gone' <=> s \in gone
  /\ s \in acked => s \in acked'

Creates(s) ==
  /\ store[s] = None /\ s \notin gone /\ s \notin gone'
  /\ store'[s] # None /\ store'[s].insp = None

Closes(s) == store'[s] = None /\ s \in gone'

Raises(s) ==
  /\ store[s] # None /\ store'[s] # None /\ store'[s].insp # None
  /\ store'[s].insp.rev = Revision(s) + 1
  /\ s \in gone' <=> s \in gone
  /\ \/ Pending(store'[s].insp.enf) /\ store'[s].insp.enf.op = Revision(s) + 1
     \/ store'[s].insp.enf = Enf(s) /\ (s \in acked => s \in acked')
     \/ ~Pending(store'[s].insp.enf) /\ (Applied(store'[s].insp.enf) => s \in acked')

RecordStep(s) == Keeps(s) \/ Creates(s) \/ Closes(s) \/ Raises(s)

\* Bounded and Awaited after the step, for an intent of before it.
BoundedNext(i) ==
  /\ \/ i.sid \in gone'
     \/ /\ store'[i.sid] # None /\ store'[i.sid].insp # None
        /\ i.rev <= store'[i.sid].insp.rev
  /\ i.kind = "INSTALL" => i.op = i.rev

AwaitedNext(i) ==
  /\ store'[i.sid] # None /\ store'[i.sid].insp # None
  /\ IF i.kind = "INSTALL"
     THEN Pending(store'[i.sid].insp.enf) /\ store'[i.sid].insp.enf.op = i.op
     ELSE store'[i.sid].insp.rev = i.rev

\* An intent stays bounded.
LEMMA BoundedStep ==
  ASSUME TypeOK, AckInv, NEW i \in IntentRecord, Bounded(i), RecordStep(i.sid)
  PROVE  BoundedNext(i)
<1> DEFINE s == i.sid
<1>1. s \in Session /\ i.rev \in Nat
  BY DEF IntentRecord
<1>2. /\ Inspected(s) => Insp(s).rev = Revision(s)
      /\ Revision(s) \in Nat
  BY <1>1, BaseType DEF Base
<1>3. i.kind = "INSTALL" => i.op = i.rev
  BY DEF Bounded
<1>4. CASE Keeps(s)
  BY <1>3, <1>4 DEF Keeps, Bounded, BoundedNext, Inspected, Insp
<1>5. CASE Creates(s)
  BY <1>5 DEF Creates, Bounded, Inspected
<1>6. CASE Closes(s)
  BY <1>3, <1>6, SMTT(30) DEF Closes, BoundedNext
<1>7. CASE Raises(s)
  <2>1. s \notin gone
    BY <1>1, <1>7 DEF Raises, AckInv
  <2>2. i.rev <= Revision(s)
    BY <1>2, <2>1 DEF Bounded
  <2>3. i.rev <= Revision(s) + 1
    BY <1>1, <1>2, <2>2
  <2> QED
    BY <1>3, <1>7, <2>3, SMTT(30) DEF Raises, BoundedNext
<1> QED
  BY <1>4, <1>5, <1>6, <1>7 DEF RecordStep

\* What is awaited after a step was awaited before it, and an acknowledgement
\* of it stands: a new request is named after a revision that no intent in
\* flight has seen.
LEMMA AwaitedStep ==
  ASSUME TypeOK, AckInv, NEW i \in IntentRecord, Bounded(i), RecordStep(i.sid), AwaitedNext(i)
  PROVE  Awaited(i) /\ (i.sid \in acked => i.sid \in acked')
<1> DEFINE s == i.sid
<1>1. s \in Session /\ i.rev \in Nat /\ i.op \in Nat
  BY DEF IntentRecord
<1>2. /\ Inspected(s) => Insp(s).rev = Revision(s) /\ Insp(s).enf = Enf(s)
      /\ Revision(s) \in Nat
  BY <1>1, BaseType DEF Base
<1>3. CASE Keeps(s)
  BY <1>3 DEF Keeps, Awaited, AwaitedNext, Inspected, Insp
<1>4. CASE Creates(s)
  BY <1>4 DEF Creates, AwaitedNext
<1>5. CASE Closes(s)
  BY <1>5, SMTT(30) DEF Closes, AwaitedNext
<1>6. CASE Raises(s)
  <2>1. s \notin gone
    BY <1>1, <1>6 DEF Raises, AckInv
  <2>2. Inspected(s) /\ i.rev <= Revision(s)
    BY <1>2, <2>1, SMTT(30) DEF Bounded
  <2>3. i.kind = "INSTALL"
    BY <1>1, <1>2, <1>6, <2>2 DEF Raises, AwaitedNext
  <2>4. i.op # Revision(s) + 1
    BY <1>1, <1>2, <2>2, <2>3 DEF Bounded
  <2>5. Pending(store'[s].insp.enf) /\ store'[s].insp.enf.op = i.op
    BY <2>3 DEF AwaitedNext
  <2>6. store'[s].insp.enf = Enf(s) /\ (s \in acked => s \in acked')
    BY <1>6, <2>4, <2>5 DEF Raises
  <2> QED
    BY <1>2, <2>2, <2>3, <2>5, <2>6, Zenon DEF Awaited
<1> QED
  BY <1>3, <1>4, <1>5, <1>6 DEF RecordStep

\* A record that claims an applied guard after a step is vouched for.
LEMMA ClaimStep ==
  ASSUME TypeOK, AckInv, NEW s \in Session, RecordStep(s),
         store'[s] # None, store'[s].insp # None, Applied(store'[s].insp.enf)
  PROVE  s \in acked'
<1>1. Inspected(s) => Insp(s).enf = Enf(s)
  BY BaseType DEF Base
<1>2. ~Inspected(s) => ~Applied(Enf(s))
  BY DEF Enf, NotRequested, Applied
<1>3. Applied(Enf(s)) => s \in acked
  BY <1>1, <1>2 DEF AckInv, AppliedAfterAck
<1>4. CASE Keeps(s)
  BY <1>1, <1>3, <1>4 DEF Keeps, Inspected, Insp
<1>5. CASE Raises(s)
  <2>1. ~Pending(store'[s].insp.enf)
    BY DEF Pending, Applied
  <2> QED
    BY <1>3, <1>5, <2>1 DEF Raises
<1> QED
  BY <1>4, <1>5 DEF RecordStep, Creates, Closes

\* A worker's record is settled when its intent is bounded and its result vouched
\* for, after the step.
Settled(r) ==
  /\ r.pc # "idle" => BoundedNext(r.intent)
  /\ /\ r.pc \in {"recheck", "complete"} /\ r.result = "APPLIED"
     /\ r.intent.kind # "REMOVE" /\ AwaitedNext(r.intent)
     => r.intent.sid \in acked'

\* Everything that was in flight is settled after a step.
LEMMA InFlight ==
  ASSUME TypeOK, AckInv, \A s \in Session : RecordStep(s)
  PROVE  /\ \A n \in 1 .. Len(intents) : BoundedNext(intents[n])
         /\ loop # None => BoundedNext(loop)
         /\ \A w \in Worker : Settled(worker[w])
<1>1. \A i \in IntentRecord : i.sid \in Session
  BY DEF IntentRecord
<1>2. \A i \in IntentRecord : Bounded(i) => BoundedNext(i)
  BY <1>1, BoundedStep
<1>3. \A i \in IntentRecord : Bounded(i) /\ AwaitedNext(i) =>
        Awaited(i) /\ (i.sid \in acked => i.sid \in acked')
  BY <1>1, AwaitedStep
<1>4. \A n \in 1 .. Len(intents) : BoundedNext(intents[n])
  BY <1>2 DEF TypeOK, AckInv
<1>5. loop # None => BoundedNext(loop)
  BY <1>2 DEF TypeOK, AckInv
<1>6. ASSUME NEW w \in Worker PROVE Settled(worker[w])
  <2>1. CASE worker[w].pc = "idle"
    BY <2>1 DEF Settled
  <2>2. CASE worker[w].pc # "idle"
    <3>1. WellFormed(worker[w]) /\ Bounded(worker[w].intent) /\ Vouched(worker[w])
      BY <2>2, Zenon DEF TypeOK, AckInv
    <3>2. worker[w].intent \in IntentRecord
      BY <2>2, <3>1, Zenon DEF WellFormed
    <3> QED
      BY <1>2, <1>3, <3>1, <3>2 DEF Settled, Vouched
  <2> QED
    BY <2>1, <2>2
<1> QED
  BY <1>4, <1>5, <1>6

\* The invariant after a step, from what is in flight after it.
LEMMA AckFrom ==
  ASSUME TypeOK, AckInv, \A s \in Session : RecordStep(s),
         \A n \in 1 .. Len(intents') : BoundedNext(intents'[n]),
         loop' # None => BoundedNext(loop'),
         \A w \in Worker : Settled(worker'[w])
  PROVE  AckInv'
<1>1. \A s \in Session : store'[s] # None => s \notin gone'
  BY SMTT(30) DEF AckInv, RecordStep, Keeps, Creates, Closes, Raises
<1>2. AppliedAfterAck'
  BY ClaimStep DEF AppliedAfterAck, Inspected, Insp
<1>3. \A n \in 1 .. Len(intents') : Bounded(intents[n])'
  BY DEF Bounded, BoundedNext, Inspected, Insp
<1>4. loop' # None => Bounded(loop)'
  BY SMTT(30) DEF Bounded, BoundedNext, Inspected, Insp
<1>5. \A w \in Worker : worker'[w].pc # "idle" => Bounded(worker[w].intent)'
  BY SMTT(30) DEF Settled, Bounded, BoundedNext, Inspected, Insp
<1>6. \A w \in Worker : Vouched(worker[w])'
  BY DEF Settled, Vouched, Awaited, AwaitedNext, Inspected, Insp
<1> QED
  BY <1>1, <1>2, <1>3, <1>4, <1>5, <1>6, Zenon DEF AckInv

\* A step that puts one worker in another place.
LEMMA WorkerStep ==
  ASSUME TypeOK, AckInv, \A s \in Session : Keeps(s),
         NEW w \in Worker, NEW x, Settled(x), worker' = [worker EXCEPT ![w] = x],
         UNCHANGED <<intents, loop>>
  PROVE  AckInv'
<1>1. \A s \in Session : RecordStep(s)
  BY DEF RecordStep
<1>2. \A v \in Worker : Settled(worker'[v])
  BY <1>1, InFlight DEF TypeOK
<1> QED
  BY <1>1, <1>2, InFlight, AckFrom

\* An idle worker is settled.
LEMMA IdleSettled ==
  Settled(IdleWorker)
BY DEF Settled, IdleWorker

\* Nothing happens to a record whose session, acknowledgement and close are
\* left alone.
LEMMA NothingWritten ==
  ASSUME store' = store, gone' = gone, acked \subseteq acked'
  PROVE  \A s \in Session : Keeps(s)
BY SMTT(30) DEF Keeps

\* updateInspectionLocked raises the record it writes.
LEMMA UpdatedRaises ==
  ASSUME TypeOK, NEW s \in Session, store[s] # None, NEW insp \in InspectionRecord,
         store' = Updated(s, insp), gone' = gone, acked \ {s} \subseteq acked',
         \/ Pending(insp.enf) /\ insp.enf.op = Revision(s) + 1
         \/ insp.enf = Enf(s) /\ (s \in acked => s \in acked')
         \/ ~Pending(insp.enf) /\ (Applied(insp.enf) => s \in acked')
  PROVE  Raises(s) /\ \A t \in Session : RecordStep(t)
<1>1. /\ store'[s] # None /\ store'[s].insp # None
      /\ store'[s].insp.rev = Revision(s) + 1 /\ store'[s].insp.enf = insp.enf
      /\ \A t \in Session \ {s} : store'[t] = store[t]
  BY UpdatedType
<1>2. Raises(s)
  BY <1>1 DEF Raises
<1>3. \A t \in Session \ {s} : Keeps(t)
  BY <1>1 DEF Keeps
<1> QED
  BY <1>2, <1>3, SMTT(30) DEF RecordStep

LEMMA AckStep ==
  ASSUME TypeOK, AckInv, [Next]_vars
  PROVE  AckInv'
<1>1. ASSUME NEW s \in Session, NEW o \in Observations, HandleObservation(s, o)
      PROVE  AckInv'
  <2> DEFINE next == ReduceInspection(s, policy[gen], o)
             i == Intent("INSTALL", s, Revision(s) + 1, Revision(s) + 1)
  <2>1. next \in InspectionRecord /\ Writes(s, next) /\ store[s] # None
    BY <1>1, ReduceType DEF HandleObservation
  <2>2. PICK request \in {Requested(s, next)} :
          /\ store' = Updated(s, next)
          /\ IF request # <<>> /\ Len(intents) >= slots
             THEN /\ loop' = request[1]
                  /\ gate' = [gate EXCEPT !.readers = @ \cup {"loop"}]
                  /\ intents' = intents
             ELSE /\ intents' = intents \o request
                  /\ UNCHANGED <<loop, gate>>
          /\ acked' = IF request # <<>> THEN acked \ {s} ELSE acked
    BY <1>1 DEF HandleObservation
  <2>3. gone' = gone /\ worker' = worker
    BY <1>1 DEF HandleObservation
  <2> HIDE DEF next
  <2>4. acked \ {s} \subseteq acked' /\ (Requested(s, next) = <<>> => acked' = acked)
    BY <2>2
  <2>5. \/ Pending(next.enf) /\ next.enf.op = Revision(s) + 1
        \/ Requested(s, next) = <<>>
    BY <2>1, RequestedType
  <2>6. Raises(s) /\ \A t \in Session : RecordStep(t)
    BY <2>1, <2>2, <2>3, <2>4, <2>5, UpdatedRaises DEF Writes
  <2>7. Revision(s) \in Nat
    BY BaseType, SMTT(30)
  <2>8. BoundedNext(i)
    <3>1. i.kind = "INSTALL" /\ i.sid = s /\ i.op = Revision(s) + 1 /\ i.rev = Revision(s) + 1
      BY <2>7, IntentType
    <3> HIDE DEF i
    <3> QED
      BY <2>6, <2>7, <3>1 DEF Raises, BoundedNext
  <2> HIDE DEF i
  <2>9. \A n \in 1 .. Len(intents') : BoundedNext(intents'[n])
    <3>1. CASE intents' = intents
      BY <2>6, <3>1, InFlight
    <3>2. CASE intents' = intents \o Requested(s, next)
      <4>1. \A n \in 1 .. Len(intents') :
              intents'[n] = i \/ \E m \in 1 .. Len(intents) : intents[m] = intents'[n]
        BY <2>1, <3>2, AfterRequest, Zenon DEF i
      <4> QED
        BY <2>6, <2>8, <4>1, InFlight
    <3> QED
      BY <2>2, <3>1, <3>2
  <2>10. loop' # None => BoundedNext(loop')
    <3>1. CASE loop' = loop
      BY <2>6, <3>1, InFlight
    <3>2. CASE Requested(s, next) # <<>> /\ loop' = Requested(s, next)[1]
      BY <2>1, <2>8, <3>2, RequestedType DEF i
    <3> QED
      BY <2>2, <3>1, <3>2
  <2> QED
    BY <2>3, <2>6, <2>9, <2>10, InFlight, AckFrom
<1>2. ASSUME CompleteUnqueued PROVE AckInv'
  <2> DEFINE result == Guard("drop", "UNAVAILABLE", loop.op)
  <2>1. loop \in IntentRecord /\ loop.sid \in Session /\ loop.op \in Nat
    BY <1>2 DEF CompleteUnqueued, TypeOK, IntentRecord
  <2>2. result \in Enforcement /\ ~Pending(result) /\ ~Applied(result)
    BY <2>1, GuardType DEF Result
  <2>3. /\ store' = CompleteInspectionIntent(loop, result)
        /\ gone' = gone /\ acked' = acked /\ worker' = worker /\ intents' = intents /\ loop' = None
    BY <1>2 DEF CompleteUnqueued
  <2> HIDE DEF result
  <2>4. \A t \in Session : RecordStep(t)
    <3>1. CASE store' = store
      BY <2>3, <3>1, NothingWritten, SMTT(30) DEF RecordStep
    <3>2. CASE store' # store
      <4> DEFINE insp == [Insp(loop.sid) EXCEPT !.enf = result]
      <4>1. /\ store[loop.sid] # None /\ store' = Updated(loop.sid, insp)
            /\ insp \in InspectionRecord /\ insp.enf = result
        BY <2>1, <2>2, <2>3, <3>2, CompleteType
      <4> HIDE DEF insp
      <4> QED
        BY <2>1, <2>2, <2>3, <4>1, UpdatedRaises
    <3> QED
      BY <3>1, <3>2
  <2> QED
    BY <2>3, <2>4, InFlight, AckFrom
<1>3. ASSUME NEW s \in Session, HandleSessionChanged(s) PROVE AckInv'
  <2>0. gone' = gone /\ worker' = worker /\ loop' = loop
    BY <1>3 DEF HandleSessionChanged
  <2>1. CASE UNCHANGED <<store, intents, acked>>
    <3>1. \A t \in Session : RecordStep(t)
      BY <2>0, <2>1, NothingWritten DEF RecordStep
    <3> QED
      BY <2>0, <2>1, <3>1, InFlight, AckFrom
  <2>2. CASE ~UNCHANGED <<store, intents, acked>>
    <3> DEFINE next == Reselected(s, policy[gen])
               op == Revision(s) + 1
               asked == Guard("drop", "PENDING", op)
               written == IF InstallGuard(s, next) THEN [next EXCEPT !.enf = asked] ELSE next
               remove == Intent("REMOVE", s, 0, op)
               install == Intent("INSTALL", s, op, op)
    <3>1. /\ store[s] # None
          /\ store' = Updated(s, written)
          /\ intents' = CASE RemoveGuard(s, next) -> Enqueued(remove)
                          [] InstallGuard(s, next) -> Enqueued(install)
                          [] OTHER -> intents
          /\ acked' = IF InstallGuard(s, next) THEN acked \ {s} ELSE acked
      BY <1>3, <2>2 DEF HandleSessionChanged
    <3>2. next \in InspectionRecord /\ next.enf = NotRequested /\ op \in Nat /\ Revision(s) \in Nat
      BY ReselectedType, BaseType
    <3>3. asked \in Enforcement /\ Pending(asked) /\ asked.op = Revision(s) + 1
      BY <3>2, GuardType
    <3>4. ~Pending(NotRequested) /\ ~Applied(NotRequested)
      BY DEF NotRequested, Pending, Applied
    <3>5. remove \in IntentRecord /\ remove.kind = "REMOVE" /\ remove.sid = s /\ remove.rev = op
      <4>1. 0 \in Nat
        OBVIOUS
      <4> HIDE DEF op
      <4> QED
        BY <3>2, <4>1, IntentType
    <3>6. /\ install \in IntentRecord /\ install.sid = s /\ install.rev = op /\ install.op = op
      BY <3>2, IntentType
    <3> HIDE DEF next, asked, remove, install
    <3>7. /\ written \in InspectionRecord
          /\ \/ Pending(written.enf) /\ written.enf.op = Revision(s) + 1
             \/ ~Pending(written.enf) /\ ~Applied(written.enf)
      BY <3>2, <3>3, <3>4 DEF InspectionRecord
    <3>8. acked \ {s} \subseteq acked'
      BY <3>1
    <3> HIDE DEF written
    <3>9. Raises(s) /\ \A t \in Session : RecordStep(t)
      BY <2>0, <3>1, <3>7, <3>8, UpdatedRaises, SMTT(30)
    <3>10. store'[s] # None /\ store'[s].insp # None /\ store'[s].insp.rev = op
      BY <3>9 DEF Raises
    <3>11. BoundedNext(remove) /\ BoundedNext(install)
      BY <3>2, <3>5, <3>6, <3>10 DEF BoundedNext
    <3>12. intents' = Enqueued(remove) \/ intents' = Enqueued(install) \/ intents' = intents
      BY <3>1, SMTT(30)
    <3>13. \A n \in 1 .. Len(intents') : BoundedNext(intents'[n])
      <4>1. CASE intents' = Enqueued(remove)
        BY <3>5, <3>9, <3>11, <4>1, EnqueuedType, InFlight
      <4>2. CASE intents' = Enqueued(install)
        BY <3>6, <3>9, <3>11, <4>2, EnqueuedType, InFlight
      <4>3. CASE intents' = intents
        BY <3>9, <4>3, InFlight
      <4> QED
        BY <3>12, <4>1, <4>2, <4>3
    <3> QED
      BY <2>0, <3>9, <3>13, InFlight, AckFrom
  <2> QED
    BY <2>1, <2>2
<1>4. ASSUME NEW s \in Session, SweepAppDeadline(s) PROVE AckInv'
  <2> DEFINE insp == [Insp(s) EXCEPT !.state = "UNKNOWN_ALLOWED"]
  <2>1. Inspected(s) /\ store[s] # None
    BY <1>4 DEF SweepAppDeadline, Inspected
  <2>2. Insp(s) \in InspectionRecord /\ Insp(s).enf = Enf(s)
    BY <2>1, BaseType DEF Base
  <2>3. insp \in InspectionRecord /\ insp.enf = Enf(s)
    BY <2>2 DEF InspectionRecord, AppPolicyState
  <2>4. /\ store' = Updated(s, insp) /\ gone' = gone /\ acked' = acked
        /\ worker' = worker /\ intents' = intents /\ loop' = loop
    BY <1>4 DEF SweepAppDeadline
  <2> HIDE DEF insp
  <2>5. \A t \in Session : RecordStep(t)
    BY <2>1, <2>3, <2>4, UpdatedRaises
  <2> QED
    BY <2>4, <2>5, InFlight, AckFrom
<1>5. ASSUME NEW s \in Session, RenewAppGuards(s) PROVE AckInv'
  <2> DEFINE i == Intent("RENEW", s, 0, Insp(s).rev)
  <2>1. Inspected(s)
    BY <1>5 DEF RenewAppGuards, RequestRenewal, Renewable
  <2>2. Insp(s).rev \in Nat
    BY <2>1, BaseType DEF Base, InspectionRecord
  <2>3. i \in IntentRecord /\ i.kind = "RENEW" /\ i.sid = s /\ i.rev = Insp(s).rev
    BY <2>2, IntentType
  <2> HIDE DEF i
  <2>4. /\ intents' = Enqueued(i) /\ store' = store /\ gone' = gone /\ acked' = acked
        /\ worker' = worker /\ loop' = loop
    BY <1>5 DEF RenewAppGuards, RequestRenewal, i
  <2>5. \A t \in Session : RecordStep(t)
    BY <2>4, NothingWritten DEF RecordStep
  <2>6. Bounded(i)
    BY <2>1, <2>2, <2>3 DEF Bounded
  <2>7. BoundedNext(i)
    BY <2>3, <2>5, <2>6, BoundedStep, SMTT(30)
  <2>8. \A n \in 1 .. Len(intents') : BoundedNext(intents'[n])
    BY <2>3, <2>4, <2>5, <2>7, EnqueuedType, InFlight, ZenonT(60)
  <2> QED
    BY <2>4, <2>5, <2>8, InFlight, AckFrom, SMTT(30)
<1>6. ASSUME NEW w \in Worker, TakeIntent(w) PROVE AckInv'
  <2> DEFINE taken == [IdleWorker EXCEPT !.pc = "check", !.intent = Head(intents)]
  <2>1. /\ intents \in Seq(IntentRecord) /\ intents # <<>>
        /\ worker' = [worker EXCEPT ![w] = taken] /\ intents' = Tail(intents) /\ loop' = loop
        /\ store' = store /\ gone' = gone /\ acked' = acked
    BY <1>6 DEF TypeOK, TakeIntent
  <2>2. \A t \in Session : RecordStep(t)
    BY <2>1, NothingWritten DEF RecordStep
  <2>3. /\ Head(intents) = intents[1] /\ 1 \in 1 .. Len(intents)
        /\ Len(Tail(intents)) = Len(intents) - 1
        /\ \A n \in 1 .. Len(Tail(intents)) : Tail(intents)[n] = intents[n + 1] /\ n + 1 \in 1 .. Len(intents)
    BY <2>1
  <2>4. taken.pc = "check" /\ taken.intent = Head(intents)
    BY DEF IdleWorker
  <2> HIDE DEF taken
  <2>5. Settled(taken)
    BY <2>2, <2>3, <2>4, InFlight DEF Settled
  <2>6. \A v \in Worker : Settled(worker'[v])
    BY <2>1, <2>2, <2>5, InFlight DEF TypeOK
  <2>7. \A n \in 1 .. Len(intents') : BoundedNext(intents'[n])
    BY <2>1, <2>2, <2>3, InFlight
  <2> QED
    BY <2>1, <2>2, <2>6, <2>7, InFlight, AckFrom
<1>7. ASSUME NEW w \in Worker, CheckIntent(w) PROVE AckInv'
  <2> DEFINE i == worker[w].intent
             go == [worker[w] EXCEPT !.pc = "execute", !.closed = ClosedCleanup(i)]
             gaveUp == [worker[w] EXCEPT !.pc = "complete", !.result = "UNAVAILABLE"]
  <2>1. worker[w] \in WorkerRecord /\ worker[w].pc = "check"
    BY <1>7 DEF TypeOK, CheckIntent
  <2>2. \A t \in Session : Keeps(t)
    BY <1>7, NothingWritten DEF CheckIntent
  <2>3. BoundedNext(i)
    BY <2>1, <2>2, InFlight DEF RecordStep, Settled
  <2>4. Settled(go) /\ Settled(gaveUp)
    BY <2>1, <2>3 DEF Settled, WorkerRecord
  <2>5. PICK x \in {IdleWorker, go, gaveUp} : worker' = [worker EXCEPT ![w] = x]
    BY <1>7, Zenon DEF CheckIntent
  <2> HIDE DEF go, gaveUp
  <2>6. Settled(x) /\ intents' = intents /\ loop' = loop
    BY <1>7, <2>4, <2>5, IdleSettled DEF CheckIntent
  <2> QED
    BY <2>2, <2>5, <2>6, WorkerStep, Zenon
<1>8. ASSUME NEW w \in Worker, ExecuteIntent(w) PROVE AckInv'
  <2>1. PICK ok \in BOOLEAN :
          /\ worker' = [worker EXCEPT ![w].pc = "recheck",
                                      ![w].result = IF ok THEN "APPLIED" ELSE "FAILED"]
          /\ acked' = IF ok /\ worker[w].intent.kind # "REMOVE"
                      THEN acked \cup {worker[w].intent.sid} ELSE acked
    BY <1>8, Zenon DEF ExecuteIntent
  <2> DEFINE x == [worker[w] EXCEPT !.pc = "recheck", !.result = IF ok THEN "APPLIED" ELSE "FAILED"]
  <2>2. worker[w] \in WorkerRecord /\ worker[w].pc = "execute"
    BY <1>8 DEF TypeOK, ExecuteIntent
  <2>3. store' = store /\ gone' = gone /\ acked \subseteq acked' /\ intents' = intents /\ loop' = loop
    BY <1>8, <2>1 DEF ExecuteIntent
  <2>4. \A t \in Session : Keeps(t)
    BY <2>3, NothingWritten
  <2>5. BoundedNext(worker[w].intent)
    BY <2>2, <2>4, InFlight DEF RecordStep, Settled
  <2>6. Settled(x)
    BY <2>1, <2>2, <2>5 DEF Settled, WorkerRecord
  <2>7. worker' = [worker EXCEPT ![w] = x]
    BY <2>1, Zenon DEF TypeOK
  <2> HIDE DEF x
  <2> QED
    BY <2>3, <2>4, <2>6, <2>7, WorkerStep, Zenon
<1>9. ASSUME NEW w \in Worker, RefuseIntent(w) PROVE AckInv'
  <2> DEFINE x == [worker[w] EXCEPT !.pc = "recheck", !.result = "FAILED"]
  <2>1. worker[w] \in WorkerRecord /\ worker[w].pc = "execute"
    BY <1>9 DEF TypeOK, RefuseIntent
  <2>2. \A t \in Session : Keeps(t)
    BY <1>9, NothingWritten DEF RefuseIntent
  <2>3. BoundedNext(worker[w].intent)
    BY <2>1, <2>2, InFlight DEF RecordStep, Settled
  <2>4. Settled(x)
    BY <2>1, <2>3 DEF Settled, WorkerRecord
  <2>5. worker' = [worker EXCEPT ![w] = x] /\ intents' = intents /\ loop' = loop
    BY <1>9, Zenon DEF RefuseIntent, TypeOK
  <2> HIDE DEF x
  <2> QED
    BY <2>2, <2>4, <2>5, WorkerStep, Zenon
<1>10. ASSUME NEW w \in Worker, RecheckIntent(w) PROVE AckInv'
  <2> DEFINE stale == [worker[w] EXCEPT !.pc = "cleanup"]
             done == [worker[w] EXCEPT !.pc = "complete"]
  <2>1. worker[w] \in WorkerRecord /\ worker[w].pc = "recheck"
    BY <1>10 DEF TypeOK, RecheckIntent
  <2>2. \A t \in Session : Keeps(t)
    BY <1>10, NothingWritten DEF RecheckIntent
  <2>3. Settled(worker[w])
    BY <2>2, InFlight DEF RecordStep
  <2>4. Settled(stale) /\ Settled(done)
    BY <2>1, <2>3 DEF Settled, WorkerRecord
  <2>5. PICK x \in {IdleWorker, stale, done} : worker' = [worker EXCEPT ![w] = x]
    BY <1>10 DEF RecheckIntent, TypeOK
  <2> HIDE DEF stale, done
  <2>6. Settled(x) /\ intents' = intents /\ loop' = loop
    BY <1>10, <2>4, <2>5, IdleSettled, SMTT(30) DEF RecheckIntent
  <2> QED
    BY <2>2, <2>5, <2>6, WorkerStep, ZenonT(60)
<1>11. ASSUME NEW w \in Worker, CleanupStale(w) PROVE AckInv'
  <2>1. \A t \in Session : Keeps(t)
    BY <1>11, NothingWritten DEF CleanupStale
  <2> QED
    BY <1>11, <2>1, IdleSettled, WorkerStep, ZenonT(60) DEF CleanupStale
<1>12. ASSUME NEW w \in Worker, CompleteIntent(w) PROVE AckInv'
  <2> DEFINE i == worker[w].intent
             action == IF i.kind = "REMOVE" THEN "allow" ELSE "drop"
             result == Guard(action, worker[w].result, i.op)
  <2>1. /\ i \in IntentRecord /\ i.op \in Nat /\ i.sid \in Session
        /\ worker[w].result \in Result /\ worker[w].pc = "complete"
    BY <1>12, Zenon DEF TypeOK, CompleteIntent, WellFormed, IntentRecord
  <2>2. action \in {"drop", "allow"} /\ (action = "drop" <=> i.kind # "REMOVE")
    OBVIOUS
  <2>3. /\ result \in Enforcement /\ ~Pending(result)
        /\ Applied(result) => action = "drop" /\ worker[w].result = "APPLIED"
    <3>1. worker[w].result \in {"PENDING"} \cup Result /\ worker[w].result # "PENDING"
      BY <2>1 DEF Result
    <3> HIDE DEF action, i
    <3> QED
      BY <2>1, <2>2, <3>1, GuardType, ZenonT(60)
  <2>4. /\ store' = CompleteInspectionIntent(i, result)
        /\ gone' = gone /\ acked' = acked /\ intents' = intents /\ loop' = loop
        /\ worker' = [worker EXCEPT ![w] = IdleWorker]
    BY <1>12 DEF CompleteIntent
  <2> HIDE DEF result, action
  <2>5. \A t \in Session : RecordStep(t)
    <3>1. CASE store' = store
      BY <2>4, <3>1, NothingWritten, SMTT(30) DEF RecordStep
    <3>2. CASE store' # store
      <4> DEFINE insp == [Insp(i.sid) EXCEPT !.enf = result]
      <4>1. /\ store[i.sid] # None /\ store' = Updated(i.sid, insp) /\ MatchesSession(i, gen)
            /\ insp \in InspectionRecord /\ insp.enf = result
        BY <2>1, <2>3, <2>4, <3>2, CompleteType
      <4>2. Awaited(i)
        BY <4>1, Zenon DEF MatchesSession, Awaited
      <4>3. Vouched(worker[w])
        BY Zenon DEF AckInv
      <4>4. Applied(result) => i.sid \in acked
        BY <2>1, <2>2, <2>3, <4>2, <4>3 DEF Vouched
      <4> HIDE DEF insp, i
      <4> QED
        BY <2>1, <2>3, <2>4, <4>1, <4>4, UpdatedRaises, Zenon
    <3> QED
      BY <3>1, <3>2
  <2>6. \A v \in Worker : Settled(worker'[v])
    BY <2>4, <2>5, IdleSettled, InFlight DEF TypeOK
  <2> QED
    BY <2>4, <2>5, <2>6, InFlight, AckFrom
<1>13. ASSUME NEW s \in Session, SessionCreated(s) PROVE AckInv'
  <2> DEFINE fresh == [polgen |-> gen, insp |-> None]
  <2>1. fresh \in SessionRecord /\ fresh.insp = None
    BY CurrentSelection DEF SessionRecord
  <2>2. fresh # None
    BY <2>1, NoneAssumption
  <2>3. /\ store[s] = None /\ s \notin gone /\ gone' = gone /\ acked' = acked
        /\ store' = [store EXCEPT ![s] = fresh]
        /\ worker' = worker /\ intents' = intents /\ loop' = loop
    BY <1>13 DEF SessionCreated
  <2> HIDE DEF fresh
  <2>4. store'[s] = fresh /\ \A t \in Session \ {s} : store'[t] = store[t]
    BY <2>3 DEF TypeOK
  <2>5. Creates(s) /\ \A t \in Session \ {s} : Keeps(t)
    BY <2>1, <2>2, <2>3, <2>4 DEF Creates, Keeps
  <2>6. \A t \in Session : RecordStep(t)
    BY <2>5 DEF RecordStep
  <2> QED
    BY <2>3, <2>6, InFlight, AckFrom
<1>14. ASSUME NEW s \in Session, FlowEnds(s) PROVE AckInv'
  <2>1. \A t \in Session : RecordStep(t)
    BY <1>14, NothingWritten DEF FlowEnds, RecordStep
  <2> QED
    BY <1>14, <2>1, InFlight, AckFrom DEF FlowEnds
<1>15. ASSUME NEW s \in Session, SessionClosed(s) PROVE AckInv'
  <2> DEFINE i == Intent("REMOVE", s, 0, Insp(s).rev)
  <2>1. /\ store' = [store EXCEPT ![s] = None] /\ gone' = gone \cup {s} /\ acked' = acked
        /\ worker' = worker /\ loop' = loop
        /\ intents' = intents \/ (Inspected(s) /\ intents' = Enqueued(i))
    BY <1>15 DEF SessionClosed
  <2>2. store'[s] = None /\ \A t \in Session \ {s} : store'[t] = store[t]
    BY <2>1 DEF TypeOK
  <2>3. Closes(s) /\ \A t \in Session \ {s} : Keeps(t)
    BY <2>1, <2>2 DEF Closes, Keeps
  <2>4. \A t \in Session : RecordStep(t)
    BY <2>3 DEF RecordStep
  <2>5. CASE intents' = intents
    BY <2>1, <2>4, <2>5, InFlight, AckFrom
  <2>6. CASE Inspected(s) /\ intents' = Enqueued(i)
    <3>1. Insp(s).rev \in Nat
      BY <2>6, BaseType DEF Base, InspectionRecord
    <3>2. i \in IntentRecord /\ i.kind = "REMOVE" /\ i.sid = s
      BY <3>1, IntentType
    <3> HIDE DEF i
    <3>3. BoundedNext(i)
      BY <2>1, <3>2 DEF BoundedNext
    <3>4. \A n \in 1 .. Len(intents') : BoundedNext(intents'[n])
      BY <2>4, <2>6, <3>2, <3>3, EnqueuedType, InFlight
    <3> QED
      BY <2>1, <2>4, <3>4, InFlight, AckFrom
  <2> QED
    BY <2>1, <2>5, <2>6, SMTT(30)
<1>16. ASSUME BeginActivation \/ GateAcquired PROVE AckInv'
  <2>1. \A t \in Session : RecordStep(t)
    BY <1>16, NothingWritten DEF BeginActivation, GateAcquired, RecordStep
  <2> QED
    BY <1>16, <2>1, InFlight, AckFrom DEF BeginActivation, GateAcquired
<1>17. ASSUME EndActivation PROVE AckInv'
  <2>1. /\ gone' = gone /\ acked' = acked /\ worker' = worker /\ intents' = intents /\ loop' = loop
    BY <1>17 DEF EndActivation
  <2>2. \A t \in Session : Keeps(t)
    <3>1. CASE store' = store
      BY <2>1, <3>1, NothingWritten
    <3>2. CASE store' = [s \in Session |->
                           IF store[s] = None THEN None ELSE [store[s] EXCEPT !.polgen = gen']]
      <4>1. gen' \in Nat
        BY <1>17, CurrentSelection DEF EndActivation
      <4>2. ASSUME NEW t \in Session, store[t] # None
            PROVE  store'[t] # None /\ store'[t].insp = store[t].insp
        <5> DEFINE r == [store[t] EXCEPT !.polgen = gen']
        <5>1. r \in SessionRecord /\ r.insp = store[t].insp
          BY <4>1, <4>2 DEF TypeOK, SessionRecord
        <5> HIDE DEF r
        <5>2. store'[t] = r
          BY <3>2, <4>2 DEF r
        <5> QED
          BY <5>1, <5>2, NoneAssumption
      <4>3. \A t \in Session : store[t] = None => store'[t] = None
        BY <3>2
      <4> QED
        BY <2>1, <4>2, <4>3 DEF Keeps
    <3> QED
      BY <1>17, <3>1, <3>2 DEF EndActivation
  <2>3. \A t \in Session : RecordStep(t)
    BY <2>2 DEF RecordStep
  <2> QED
    BY <2>1, <2>3, InFlight, AckFrom
<1>18. ASSUME NEW s \in Session, GuardExpires(key[s]) PROVE AckInv'
  <2>1. \A t \in Session : RecordStep(t)
    BY <1>18, NothingWritten DEF GuardExpires, RecordStep
  <2> QED
    BY <1>18, <2>1, InFlight, AckFrom DEF GuardExpires
<1>19. ASSUME UNCHANGED vars PROVE AckInv'
  <2>1. \A t \in Session : RecordStep(t)
    BY <1>19, NothingWritten DEF vars, RecordStep
  <2> QED
    BY <1>19, <2>1, InFlight, AckFrom DEF vars
<1> QED
  BY <1>1, <1>2, <1>3, <1>4, <1>5, <1>6, <1>7, <1>8, <1>9, <1>10, <1>11, <1>12, <1>13, <1>14,
     <1>15, <1>16, <1>17, <1>18, <1>19, ZenonT(60)
  DEF Next, Loop, Work

LEMMA AckInit ==
  Init => AckInv
<1> SUFFICES ASSUME Init PROVE AckInv
  OBVIOUS
<1>1. \A s \in Session : store[s] = None
  BY DEF Init
<1>2. Len(intents) = 0 /\ loop = None
  BY DEF Init
<1>3. \A w \in Worker : worker[w].pc = "idle"
  BY DEF Init, IdleWorker
<1> QED
  BY <1>1, <1>2, <1>3 DEF AckInv, Vouched, AppliedAfterAck, Inspected

\* A session is claimed as dropped by a guard only when the kernel has
\* acknowledged a guard for it since the last request (completeIntent,
\* MatchesSession, CompleteInspectionIntent).
THEOREM AppliedSafe == Spec => []AppliedAfterAck
<1>1. TypeOK /\ AckInv /\ [Next]_vars => AckInv'
  BY AckStep
<1>2. AckInv => AppliedAfterAck
  BY DEF AckInv
<1> QED
  BY <1>1, <1>2, AckInit, TypeCorrect, PTL DEF Spec
=============================================================================
