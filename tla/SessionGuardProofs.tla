------------------------- MODULE SessionGuardProofs -------------------------
(***************************************************************************)
(* No guard of SessionRuntime leaks: while nft obeys, an identifier in the *)
(* kernel's set of revoked conntrack identifiers always has somebody who   *)
(* answers for it.                                                         *)
(***************************************************************************)
EXTENDS SessionRuntimeProofs

\* A revocation that has installed its guard and has not finished.
Revoking(l, ct) == l.pc \in LockPC \ {"releaseGuard"} /\ CtOf[l.s] = ct

\* The cleanup of closed sessions has still to look at the identifier.
ReleaseDue(l, ct) ==
  \/ l.pc \in {"release", "releaseGuard"} /\ CtOf[l.s] = ct
  \/ \E e \in l.todo : e.v.revoked /\ CtOf[e.s] = ct

Held(ct) ==
  \/ HasActiveRevokedConntrackID(ct)
  \/ \E t \in Operators : Revoking(th[t], ct)
  \/ ReleaseDue(th[Applier], ct)

LeakInv == \A ct \in kRevoked : Held(ct)

\* The owner of an identifier stays, or its close is recorded in the list that
\* releaseClosedSession works through.
LEMMA OwnerStep ==
  ASSUME TypeInv, [Next]_vars, NEW s \in Session, Active(s), sess[s].revoked
  PROVE  \/ Active(s)' /\ sess'[s].revoked
         \/ ReleaseDue(th'[Applier], CtOf[s])
<1>1. LifeStep(s)
  BY LifeSteps
<1>2. CASE sess'[s].st = sess[s].st
  <2>1. sess'[s].revoked
    BY <1>1, <1>2 DEF LifeStep, Active
  <2> QED BY <1>2, <2>1 DEF Active
<1>3. ASSUME NEW S \in SUBSET Session, s \in S, Close(S)
      PROVE  ReleaseDue(th'[Applier], CtOf[s])
  <2> DEFINE m == [Idle EXCEPT !.pc = "loop", !.op = "close", !.todo = List(S)]
             e == [s |-> s, v |-> View(sess[s])]
  <2>1. m.todo = List(S)
    BY DEF Idle
  <2>2. Goto(Applier, m)
    BY <1>3 DEF Close
  <2> HIDE DEF m
  <2>3. th'[Applier] = m
    BY <2>2 DEF Goto, TypeInv, TypeOK, Thread
  <2>4. e \in List(S)
    BY <1>3 DEF List
  <2>5. e.v.revoked /\ e.s = s
    BY DEF View
  <2> QED BY <2>1, <2>3, <2>4, <2>5 DEF ReleaseDue
<1> QED BY <1>1, <1>2, <1>3 DEF LifeStep, Active

LEMMA HeldByOwner ==
  ASSUME TypeInv, [Next]_vars, NEW ct, HasActiveRevokedConntrackID(ct)
  PROVE  Held(ct)'
<1>1. PICK s \in Session : Active(s) /\ sess[s].revoked /\ CtOf[s] = ct
  BY DEF HasActiveRevokedConntrackID
<1>2. CASE Active(s)' /\ sess'[s].revoked
  BY <1>1, <1>2 DEF Held, HasActiveRevokedConntrackID
<1>3. CASE ReleaseDue(th'[Applier], CtOf[s])
  BY <1>1, <1>3 DEF Held, ReleaseDue
<1> QED BY <1>1, <1>2, <1>3, OwnerStep

\* A revocation hands its identifier to the session it marks, or takes the
\* guard back.
LEMMA RevocationStep ==
  ASSUME TypeInv, ~KernelFails, NEW t \in Operators, OperatorStep(t),
         NEW ct \in kRevoked', Revoking(th[t], ct)
  PROVE  Held(ct)'
<1> DEFINE l == th[t]
<1>1. l \in Locals /\ t \in Thread /\ th \in [Thread -> Locals]
  BY DEF TypeInv, TypeOK, Thread
<1>2. ASSUME NEW m, Goto(t, m), m.pc \in LockPC \ {"releaseGuard"}, m.s = l.s
      PROVE  Held(ct)'
  <2>1. th'[t] = m
    BY <1>1, <1>2 DEF Goto
  <2> QED BY <1>2, <2>1 DEF Held, Revoking
<1>3. CASE RevokeMap(t)
  <2> DEFINE a == [l EXCEPT !.pc = "revokeGen"]
             b(old) == [l EXCEPT !.pc = "revokeEvict", !.old = old]
  <2>1. /\ a.pc = "revokeGen" /\ a.s = l.s
        /\ \A old : b(old).pc = "revokeEvict" /\ b(old).s = l.s
    BY <1>1 DEF Locals
  <2>2. Goto(t, a) \/ \E old : Goto(t, b(old))
    BY <1>3 DEF RevokeMap
  <2> HIDE DEF a, b
  <2> QED BY <1>2, <2>1, <2>2 DEF LockPC
<1>4. CASE RevokeEvict(t)
  <2> DEFINE m == [l EXCEPT !.pc = "revokeGen", !.old = None]
  <2>1. m.pc = "revokeGen" /\ m.s = l.s
    BY <1>1 DEF Locals
  <2>2. Goto(t, m)
    BY <1>4 DEF RevokeEvict
  <2> HIDE DEF m
  <2> QED BY <1>2, <2>1, <2>2 DEF LockPC
<1>5. CASE RevokeGeneration(t)
  <2> DEFINE m == [l EXCEPT !.pc = "markRevoked", !.gen = generation]
  <2>1. m.pc = "markRevoked" /\ m.s = l.s
    BY <1>1 DEF Locals
  <2>2. Goto(t, m)
    BY <1>5 DEF RevokeGeneration
  <2> HIDE DEF m
  <2> QED BY <1>2, <2>1, <2>2 DEF LockPC
<1>6. CASE MarkRevoked(t)
  <2>1. CASE Active(l.s)
    <3>1. l.s \in Session /\ sess \in [Session -> SessionRecord] /\ l.gen \in Nat
      BY <1>1, <1>6 DEF MarkRevoked, TypeInv, TypeOK, WellFormed, Locals
    <3>2. sess' = [sess EXCEPT ![l.s] = Revoked(sess[l.s], l.gen)]
      BY <1>6, <2>1 DEF MarkRevoked
    <3>3. Revoked(sess[l.s], l.gen).st = sess[l.s].st /\ Revoked(sess[l.s], l.gen).revoked
      BY <3>1, RecordFields
    <3>4. sess'[l.s].st = "active" /\ sess'[l.s].revoked
      BY <2>1, <3>1, <3>2, <3>3 DEF Active
    <3>5. CtOf[l.s] = ct
      BY DEF Revoking
    <3> QED BY <3>1, <3>4, <3>5 DEF Held, HasActiveRevokedConntrackID, Active
  <2>2. CASE ~Active(l.s)
    <3> DEFINE m == [l EXCEPT !.pc = "untrack"]
    <3>1. m.pc = "untrack" /\ m.s = l.s
      BY <1>1 DEF Locals
    <3>2. Goto(t, m)
      BY <1>6, <2>2 DEF MarkRevoked
    <3> HIDE DEF m
    <3> QED BY <1>2, <3>1, <3>2 DEF LockPC
  <2> QED BY <2>1, <2>2
<1>7. CASE RevokeUntrack(t)
  <2> DEFINE m == [l EXCEPT !.pc = "undoGuard"]
  <2>1. m.pc = "undoGuard" /\ m.s = l.s
    BY <1>1 DEF Locals
  <2>2. Goto(t, m)
    BY <1>7 DEF RevokeUntrack
  <2> HIDE DEF m
  <2> QED BY <1>2, <2>1, <2>2 DEF LockPC
<1>8. CASE RevokeUndo(t)
  BY <1>8 DEF RevokeUndo, Outcomes, Revoking
<1>9. l.pc \in {"revokeMap", "revokeEvict", "revokeGen", "markRevoked", "untrack", "undoGuard"}
  BY DEF Revoking, LockPC
<1>10. ~Evaluation(t)
  BY <1>9 DEF Evaluation, LocalGeneration, MarkEvaluationUnavailable, EvalGet, EvalRead,
              EvalHit, SetBlockedDecision, SetDecisionIfCurrent, PublishDecision
<1>11. ~\E src \in Source : SweepGuard(t, src) \/ ListSource(t, src)
  BY <1>9 DEF SweepGuard, ListSource
<1>12. ASSUME NEW cur, InvalidateRead(t, cur) PROVE FALSE
  <2>1. [l EXCEPT !.todo = @ \ {cur}].pc = l.pc
    BY <1>1 DEF Locals
  <2> QED BY <1>9, <1>12, <2>1 DEF InvalidateRead
<1>13. ~(AddGuardOk(t) \/ AddGuardFails(t) \/ RemoveGuard(t) \/ RemoveEntry(t)
         \/ InvalidateStore(t) \/ RevokeGuard(t))
  BY <1>9 DEF AddGuardOk, AddGuardFails, RemoveGuard, RemoveEntry, InvalidateStore, RevokeGuard
<1> QED
  BY <1>3, <1>4, <1>5, <1>6, <1>7, <1>8, <1>10, <1>11, <1>12, <1>13 DEF OperatorStep

\* An evaluation leaves the caller's list alone.
LEMMA EvaluationTodo ==
  ASSUME TypeInv, NEW t \in Thread, Evaluation(t)
  PROVE  /\ th'[t].todo = th[t].todo
         /\ th[t].pc \notin {"release", "releaseGuard"}
<1> DEFINE l == th[t]
<1>1. WellFormed(l) /\ l \in Locals /\ th \in [Thread -> Locals]
  BY DEF TypeInv, TypeOK, WellFormed
<1>2. l.pc \in {"localGen", "mark", "get", "read", "hit", "setBlocked", "publish"}
  BY DEF Evaluation, LocalGeneration, MarkEvaluationUnavailable, EvalGet, EvalRead,
         EvalHit, SetBlockedDecision, SetDecisionIfCurrent, PublishDecision
<1>3. l.s \in Session
  BY <1>1, <1>2 DEF WellFormed
<1>4. SUFFICES th'[t].todo = l.todo
  BY <1>2
<1>5. CASE Goto(t, Return(l))
  BY <1>1, <1>5, ReturnType DEF Goto
<1>6. CASE l.retry < 2 /\ Goto(t, Retry(l))
  BY <1>1, <1>3, <1>6, RetryType DEF Goto
<1>7. CASE LocalGeneration(t)
  <2> DEFINE m == [l EXCEPT !.pc = "mark", !.gen = generation]
  <2>1. Goto(t, m)
    BY <1>7 DEF LocalGeneration
  <2>2. m.todo = l.todo
    BY <1>1 DEF Locals
  <2> HIDE DEF m
  <2> QED BY <1>1, <2>1, <2>2 DEF Goto
<1>8. CASE EvalGet(t)
  <2> DEFINE m == [l EXCEPT !.pc = "read", !.v = View(sess[l.s])]
  <2>1. Goto(t, m) \/ Goto(t, Return(l))
    BY <1>8 DEF EvalGet
  <2>2. m.todo = l.todo
    BY <1>1 DEF Locals
  <2> HIDE DEF m
  <2> QED BY <1>1, <1>5, <2>1, <2>2 DEF Goto
<1>9. CASE EvalRead(t)
  <2> DEFINE d == Verdict[program][l.s][l.v.nat][l.v.zone]
             f == Frame(l, "publish", l.s)
             m1 == [[f EXCEPT !.gen = generation] EXCEPT !.pc = "setBlocked"]
             m2 == [[f EXCEPT !.gen = generation] EXCEPT !.pc = "hit", !.retry = l.retry]
             m3 == [[f EXCEPT !.gen = generation] EXCEPT !.dec = d, !.retry = l.retry]
  <2>1. Goto(t, m1) \/ Goto(t, Return(l)) \/ Goto(t, m2) \/ Goto(t, m3)
    BY <1>9 DEF EvalRead
  <2>2. "publish" \in PC
    BY DEF PC
  <2>3. f \in Locals /\ f.todo = l.todo
    BY SMTT(30), <1>1, <1>3, <2>2, FrameType
  <2> HIDE DEF l, d, f
  <2>4. m1.todo = l.todo /\ m2.todo = l.todo /\ m3.todo = l.todo
    BY <2>3 DEF Locals
  <2> HIDE DEF m1, m2, m3
  <2> QED BY <1>1, <1>5, <2>1, <2>4 DEF Goto, l
<1> QED
  BY <1>5, <1>6, <1>7, <1>8, <1>9
  DEF Evaluation, MarkEvaluationUnavailable, EvalHit, SetBlockedDecision,
      SetDecisionIfCurrent, PublishDecision

\* releaseClosedSession works its list off, and removes a guard unless an active
\* revoked session has got the identifier.
LEMMA ReleaseStep ==
  ASSUME TypeInv, ControlInv, ~KernelFails, ApplierStep,
         NEW ct \in kRevoked', ReleaseDue(th[Applier], ct)
  PROVE  Held(ct)'
<1> DEFINE l == th[Applier]
           Listed1(e) == e.v.revoked /\ CtOf[e.s] = ct
<1>1. l \in Locals /\ Applier \in Thread /\ th \in [Thread -> Locals]
  BY DEF TypeInv, TypeOK, Thread
<1>2. ASSUME NEW e \in th'[Applier].todo, Listed1(e)
      PROVE  Held(ct)'
  BY <1>2 DEF Held, ReleaseDue
<1>3. ASSUME NEW m, Goto(Applier, m), m.pc \in {"release", "releaseGuard"}, CtOf[m.s] = ct
      PROVE  Held(ct)'
  <2>1. th'[Applier] = m
    BY <1>1, <1>3 DEF Goto
  <2> QED BY <1>3, <2>1 DEF Held, ReleaseDue
<1>4. \/ l.pc \in {"release", "releaseGuard"} /\ CtOf[l.s] = ct
      \/ \E e \in l.todo : Listed1(e)
  BY DEF ReleaseDue
<1>5. CASE Evaluation(Applier)
  <2>1. th'[Applier].todo = l.todo /\ l.pc \notin {"release", "releaseGuard"}
    BY <1>1, <1>5, EvaluationTodo
  <2> QED BY <1>2, <1>4, <2>1
<1>6. CASE ReadProgram \/ SetZones \/ CheckEvaluate
  <2>1. l.pc \in {"program", "zones", "check"}
    BY <1>6 DEF ReadProgram, SetZones, CheckEvaluate
  <2>2. l.todo = {}
    BY <1>1, <2>1 DEF ControlInv, Control
  <2> QED BY <1>4, <2>1, <2>2
<1>7. ASSUME NEW cur \in l.todo, Untrack(cur)
      PROVE  Held(ct)'
  <2> DEFINE k == [l EXCEPT !.todo = @ \ {cur}]
             m == Frame(k, "release", cur.s)
  <2>1. k \in Locals /\ k.todo = l.todo \ {cur} /\ k.pc = l.pc
    <3> HIDE DEF l
    <3> QED BY <1>1 DEF Locals
  <2>2. /\ k.pc = "loop"
        /\ IF cur.v.revoked \/ cur.s \in revokedIds THEN Goto(Applier, m)
           ELSE Goto(Applier, Return(k))
    BY <1>7 DEF Untrack
  <2>3. cur.s \in Session /\ "release" \in PC
    BY <1>1 DEF Locals, Listed, PC
  <2> HIDE DEF k
  <2>4. m.pc = "release" /\ m.s = cur.s /\ m.todo = k.todo
    BY SMTT(30), <2>1, <2>3, FrameType
  <2>5. Return(k).todo = k.todo
    BY <2>1, ReturnType
  <2> HIDE DEF m
  <2>6. PICK e \in l.todo : Listed1(e)
    BY <1>4, <2>1, <2>2
  <2>7. CASE e = cur
    BY <1>3, <2>2, <2>4, <2>6, <2>7
  <2>8. CASE e # cur
    <3>1. th'[Applier].todo = k.todo
      BY <1>1, <2>2, <2>4, <2>5 DEF Goto
    <3> QED BY <1>2, <2>1, <2>6, <2>8, <3>1
  <2> QED BY <2>7, <2>8
<1>8. CASE Goto(Applier, Return(l)) /\ \E e \in l.todo : Listed1(e)
  <2>1. th'[Applier].todo = l.todo
    BY <1>1, <1>8, ReturnType DEF Goto
  <2> QED BY <1>2, <1>8, <2>1
<1>9. CASE ReleaseCheck
  <2>1. CASE HasActiveRevokedConntrackID(CtOf[l.s])
    <3>1. Goto(Applier, Return(l)) /\ sess' = sess
      BY <1>9, <2>1 DEF ReleaseCheck
    <3>2. CASE CtOf[l.s] = ct
      BY <2>1, <3>1, <3>2 DEF Held, HasActiveRevokedConntrackID, Active
    <3> QED BY <1>4, <1>8, <3>1, <3>2
  <2>2. CASE ~HasActiveRevokedConntrackID(CtOf[l.s])
    <3> DEFINE m == [l EXCEPT !.pc = "releaseGuard"]
    <3>1. Goto(Applier, m)
      BY <1>9, <2>2 DEF ReleaseCheck
    <3>2. m.pc = "releaseGuard" /\ m.s = l.s /\ m.todo = l.todo
      <4> HIDE DEF l
      <4> QED BY <1>1 DEF Locals
    <3> HIDE DEF m
    <3>3. th'[Applier].todo = l.todo
      BY <1>1, <3>1, <3>2 DEF Goto
    <3> QED BY <1>2, <1>3, <1>4, <3>1, <3>2, <3>3
  <2> QED BY <2>1, <2>2
<1>10. CASE ReleaseGuard
  <2>1. kRevoked' = kRevoked \ {CtOf[l.s]} /\ Goto(Applier, Return(l))
    BY <1>10 DEF ReleaseGuard, Outcomes
  <2> QED BY <1>4, <1>8, <2>1
<1> QED BY <1>5, <1>6, <1>7, <1>9, <1>10 DEF ApplierStep

\* Only a revocation adds an identifier to the kernel set.
LEMMA NewGuardRevoking ==
  ASSUME TypeInv, [Next]_vars, NEW ct \in kRevoked' \ kRevoked
  PROVE  Held(ct)'
<1>1. SUFFICES kRevoked' # kRevoked => \/ kRevoked' \subseteq kRevoked
                                       \/ \E t \in Operators : RevokeGuard(t)
  <2>1. PICK t \in Operators : RevokeGuard(t)
    BY <1>1
  <2> DEFINE l == th[t]
             m == [l EXCEPT !.pc = "revokeMap"]
  <2>2. kRevoked' = kRevoked \cup {CtOf[l.s]} /\ Goto(t, m)
    BY <2>1 DEF RevokeGuard
  <2>3. l \in Locals /\ t \in Thread /\ th \in [Thread -> Locals]
    BY DEF TypeInv, TypeOK, Thread
  <2>4. m.pc = "revokeMap" /\ m.s = l.s
    BY <2>3 DEF Locals
  <2> HIDE DEF m
  <2>5. th'[t] = m
    BY <2>2, <2>3 DEF Goto
  <2> QED BY <2>2, <2>4, <2>5 DEF Held, Revoking, LockPC
<1>2. ASSUME NEW t, Evaluation(t)
      PROVE  kRevoked' = kRevoked
  BY <1>2 DEF Evaluation, LocalGeneration, MarkEvaluationUnavailable, EvalGet,
       EvalRead, EvalHit, SetBlockedDecision, SetDecisionIfCurrent, PublishDecision,
       kernel
<1>3. CASE ApplierStep \/ ActivatorStep
  BY <1>2, <1>3
  DEF ApplierStep, ReadProgram, SetZones, CheckEvaluate, Untrack, ReleaseCheck,
      ReleaseGuard, ActivatorStep, ActivateList, ActivateInvalidate, ActivateSetZones,
      kernel
<1>4. ASSUME NEW t \in Operators, OperatorStep(t), kRevoked' # kRevoked
      PROVE  kRevoked' \subseteq kRevoked \/ RevokeGuard(t)
  <2>1. CASE RevokeEvict(t) \/ RevokeUndo(t)
    BY <2>1 DEF RevokeEvict, RevokeUndo
  <2> QED
    BY <1>2, <1>4, <2>1
    DEF OperatorStep, AddGuardOk, AddGuardFails, RemoveGuard, RemoveEntry,
        SweepGuard, ListSource, InvalidateRead, InvalidateStore, RevokeMap,
        RevokeGeneration, MarkRevoked, RevokeUntrack, kernel
<1>5. ASSUME NEW t \in Operators, Issue(t)
      PROVE  kRevoked' = kRevoked
  BY <1>5 DEF Issue, Revoke, GateEvaluate, AddBlock, RemoveBlock, Sweep, kernel
<1>6. CASE \/ \E s \in Session, live \in BOOLEAN : Observe(s, live)
           \/ \E S \in SUBSET Session : Close(S)
  BY <1>6 DEF Observe, Close, kernel
<1>7. CASE UNCHANGED vars \/ Activate
           \/ \E src \in Source : EntryTimeout(src) \/ KernelTimeout(src)
  BY <1>7 DEF vars, Activate, EntryTimeout, KernelTimeout, kernel
<1> QED BY <1>3, <1>4, <1>5, <1>6, <1>7 DEF Next

\* A goroutine in the middle of a call changes only by its own steps.
LEMMA OwnSteps ==
  ASSUME TypeInv, ControlInv, [Next]_vars, NEW t \in Thread,
         th[t].pc # "idle", th'[t] # th[t]
  PROVE  \/ t = Applier /\ ApplierStep
         \/ t = Activator /\ ActivatorStep
         \/ t \in Operators /\ OperatorStep(t)
<1>1. ASSUME NEW u \in Thread, ThreadStep(u) PROVE u = t
  BY <1>1 DEF ThreadStep
<1>2. CASE ApplierStep
  <2>1. ThreadStep(Applier)
    BY <1>2, ApplierSteps, EvaluationSteps DEF ApplierStep, Thread
  <2> QED BY <1>1, <1>2, <2>1 DEF Thread
<1>3. CASE ActivatorStep
  <2>1. ThreadStep(Activator)
    BY <1>3, ActivatorSteps, EvaluationSteps DEF ActivatorStep, Thread
  <2> QED BY <1>1, <1>3, <2>1 DEF Thread
<1>4. ASSUME NEW u \in Operators, OperatorStep(u)
      PROVE  t \in Operators /\ OperatorStep(t)
  <2>1. ThreadStep(u)
    BY <1>4, BlockSteps, RevokeSteps, EvaluationSteps DEF OperatorStep, Thread
  <2> QED BY <1>1, <1>4, <2>1 DEF Thread
<1>5. ASSUME NEW u \in Operators, Issue(u)
      PROVE  FALSE
  <2>1. ThreadStep(u) /\ th[u].pc = "idle"
    BY <1>5, IssueSteps DEF Thread, Issue, Revoke, GateEvaluate, AddBlock, RemoveBlock, Sweep
  <2> QED BY <1>1, <2>1 DEF Thread
<1>6. ASSUME \/ \E s \in Session, live \in BOOLEAN : Observe(s, live)
             \/ \E S \in SUBSET Session : Close(S)
      PROVE  FALSE
  <2>1. ThreadStep(Applier)
    BY <1>6, ApplierSteps
  <2>2. th[Applier].pc = "idle"
    BY <1>6 DEF Observe, Close
  <2> QED BY <1>1, <2>1, <2>2 DEF Thread
<1>7. ASSUME Activate PROVE FALSE
  <2>1. ThreadStep(Activator) /\ th[Activator].pc = "idle"
    BY <1>7, ActivatorSteps DEF Activate
  <2> QED BY <1>1, <2>1 DEF Thread
<1>8. ~(UNCHANGED vars \/ \E src \in Source : EntryTimeout(src) \/ KernelTimeout(src))
  BY DEF vars, EntryTimeout, KernelTimeout
<1> QED BY <1>2, <1>3, <1>4, <1>5, <1>6, <1>7, <1>8 DEF Next

LEMMA LeakStep ==
  TypeInv /\ ControlInv /\ ~KernelFails /\ LeakInv /\ [Next]_vars => LeakInv'
<1> SUFFICES ASSUME TypeInv, ControlInv, ~KernelFails, LeakInv, [Next]_vars,
                    NEW ct \in kRevoked'
             PROVE  Held(ct)'
  BY DEF LeakInv
<1>1. CASE ct \notin kRevoked
  BY <1>1, NewGuardRevoking
<1>2. CASE HasActiveRevokedConntrackID(ct)
  BY <1>2, HeldByOwner
<1>3. ASSUME NEW t \in Operators, Revoking(th[t], ct)
      PROVE  Held(ct)'
  <2>1. t \in Thread /\ th[t].pc # "idle"
    BY <1>3 DEF Thread, Revoking, LockPC
  <2>2. CASE th'[t] = th[t]
    BY <1>3, <2>2 DEF Held, Revoking
  <2>3. CASE th'[t] # th[t]
    <3>1. OperatorStep(t)
      BY <2>1, <2>3, OwnSteps, ThreadAssumption
    <3> QED BY <1>3, <3>1, RevocationStep
  <2> QED BY <2>2, <2>3
<1>4. CASE ReleaseDue(th[Applier], ct)
  <2>1. Applier \in Thread /\ th[Applier].pc # "idle"
    BY <1>4 DEF Thread, ReleaseDue, ControlInv, Control
  <2>2. CASE th'[Applier] = th[Applier]
    BY <1>4, <2>2 DEF Held, ReleaseDue
  <2>3. CASE th'[Applier] # th[Applier]
    <3>1. ApplierStep
      BY <2>1, <2>3, OwnSteps, ThreadAssumption
    <3> QED BY <1>4, <3>1, ReleaseStep
  <2> QED BY <2>2, <2>3
<1> QED BY <1>1, <1>2, <1>3, <1>4 DEF LeakInv, Held

\* While nft does what it is asked, no guard is left in the kernel on a conntrack
\* identifier that no active revoked session has, however revocations, evictions,
\* closes, reused identifiers and cleanups interleave.
THEOREM GuardNotLeaked ==
  ASSUME ~KernelFails
  PROVE  Spec => []NoLeakedGuard
<1>1. Init => LeakInv
  BY DEF Init, LeakInv
<1>2. TypeInv /\ ControlInv /\ LeakInv => NoLeakedGuard
  <2> SUFFICES ASSUME TypeInv, ControlInv, LeakInv, AllIdle, NEW ct \in kRevoked
               PROVE  HasActiveRevokedConntrackID(ct)
    BY DEF NoLeakedGuard
  <2>1. Held(ct) /\ \A t \in Thread : th[t].pc = "idle" /\ th[t].todo = {}
    BY DEF LeakInv, AllIdle, ControlInv, Control
  <2> QED BY <2>1 DEF Held, Revoking, ReleaseDue, LockPC, Thread
<1>3. TypeInv /\ ControlInv /\ [Next]_vars => ControlInv'
  BY ControlStep
<1>4. Init => ControlInv
  BY InitInvariants
<1>5. TypeInv /\ ControlInv /\ LeakInv /\ [Next]_vars => LeakInv'
  BY LeakStep
<1> QED BY <1>1, <1>2, <1>3, <1>4, <1>5, InitType, StepType, PTL DEF Spec
=============================================================================
