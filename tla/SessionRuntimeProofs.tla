------------------------ MODULE SessionRuntimeProofs ------------------------
(***************************************************************************)
(* Safety of SessionRuntime, for any number of sessions, sources,          *)
(* programs, operators and requests.                                       *)
(***************************************************************************)
EXTENDS SessionRuntimeTypes

(***************************************************************************)
(* The inductive invariants.                                               *)
(***************************************************************************)
LockPC == {"releaseGuard", "revokeMap", "revokeEvict", "revokeGen",
           "markRevoked", "untrack", "undoGuard"}

\* An idle thread has no loop left, a list is made when the previous one is
\* done, and only requests other than "add" end with work left to do.
Control(l) ==
  /\ l.pc = "idle" => l.srcs = {}
  /\ l.pc \in {"idle", "list", "addGuard", "delGuard", "delEntry", "sweepGuard",
                "program", "zones", "check"} => l.todo = {}
  /\ l.pc \in {"delGuard", "delEntry", "sweepGuard", "revokeGuard"}
                 \cup (LockPC \ {"releaseGuard"}) => l.op # "add"

ControlInv == \A t \in Thread : Control(th[t])

\* An allow decision is on the session or can still be published on it.
Exposed(s) ==
  \/ sess[s].dec = Allow
  \/ \E t \in fresh : th[t].pc = "publish" /\ th[t].s = s /\ th[t].dec = Allow

\* A request to add the block of s has still to invalidate s.
Pending(l, s) ==
  /\ l.op = "add" /\ l.src = SrcOf[s]
  /\ \/ l.pc = "addGuard"
     \/ SrcOf[s] \in l.srcs
     \/ \E e \in l.todo : e.s = s
     \/ l.pc = "invalidate" /\ l.s = s

BlockInv ==
  \A s \in Session :
    /\ sess[s].st = "unseen" => sess[s].dec # Allow
    /\ Active(s) /\ blocks[SrcOf[s]] # None /\ Exposed(s)
         => Pending(th[blocks[SrcOf[s]]], s)

\* Generations come from the past, and an allow that is about to be stamped with
\* the current one comes from the current program.
CanAllow(s) == \E nat \in BOOLEAN, z \in Zone : Verdict[program][s][nat][z] = Allow

GenerationInv ==
  /\ \A s \in Session : sess[s].gen <= generation
  /\ \A t \in Thread : th[t].gen <= generation
  /\ \A t \in Thread :
       th[t].pc = "publish" /\ th[t].gen = generation /\ th[t].dec = Allow
         => CanAllow(th[t].s)

\* guardMu excludes the deletion of a guard and the marking of its next owner.
GuardInv ==
  /\ \A t \in Thread : th[t].pc \in LockPC => guardMu = t
  /\ th[Applier].pc = "releaseGuard" =>
       ~HasActiveRevokedConntrackID(CtOf[th[Applier].s])
  /\ \A s \in Session : sess[s].st # "active" => ~sess[s].revoked

-----------------------------------------------------------------------------
(***************************************************************************)
(* What a step does to the sessions.                                       *)
(***************************************************************************)
Generations == {0, generation} \cup {th[t].gen : t \in Thread}

\* The decision of s is as before, or not an allow, or the result of an
\* evaluator whose snapshot is current.
SessionStep(s) ==
  \/ /\ sess'[s].dec = sess[s].dec /\ sess'[s].gen = sess[s].gen
     /\ sess'[s].cache = sess[s].cache /\ sess'[s].revoked = sess[s].revoked
  \/ sess'[s].dec # Allow /\ sess'[s].gen \in Generations
  \/ \E t \in fresh :
       /\ th[t].pc = "publish" /\ th[t].s = s
       /\ sess'[s].dec = th[t].dec /\ sess'[s].gen = th[t].gen
       /\ Active(s) /\ ~sess[s].revoked /\ ~sess'[s].revoked

\* A store write other than a decision that allows.
LEMMA SilentRecords ==
  ASSUME NEW r \in SessionRecord, NEW g \in Nat
  PROVE  /\ Invalidated(r, g).dec # Allow /\ Invalidated(r, g).gen = g
         /\ Decided(r, g, Drop).dec # Allow /\ Decided(r, g, Drop).gen = g
         /\ Unavailable(r, g).dec # Allow /\ Unavailable(r, g).gen = g
         /\ Revoked(r, g).dec # Allow /\ Revoked(r, g).gen = g
BY PolicyAssumption, SMTT(30)
DEF Invalidated, Decided, Unavailable, Revoked, SessionRecord

\* An evaluation writes a session only so.
LEMMA EvaluationSessions ==
  ASSUME TypeInv, NEW t \in Thread, Evaluation(t), NEW s \in Session
  PROVE  SessionStep(s)
<1> DEFINE l == th[t]
<1>1. sess[s] \in SessionRecord /\ l.gen \in Nat /\ l.gen \in Generations
  BY DEF TypeInv, TypeOK, Locals, Generations
<1>2. CASE sess' = sess
  BY <1>2 DEF SessionStep
<1>3. CASE MarkEvaluationUnavailable(t)
  <2>1. sess' = sess \/ sess' = [sess EXCEPT ![l.s] = Unavailable(sess[l.s], l.gen)]
    BY <1>3 DEF MarkEvaluationUnavailable
  <2>2. sess'[s] = sess[s] \/ sess'[s] = Unavailable(sess[s], l.gen)
    BY <2>1 DEF TypeInv, TypeOK
  <2> QED BY SMTT(30), <1>1, <2>2, SilentRecords DEF SessionStep
<1>4. CASE SetBlockedDecision(t)
  <2>1. sess' = sess \/ sess' = [sess EXCEPT ![l.s] = Decided(sess[l.s], l.gen, Drop)]
    BY <1>4 DEF SetBlockedDecision
  <2>2. sess'[s] = sess[s] \/ sess'[s] = Decided(sess[s], l.gen, Drop)
    BY <2>1 DEF TypeInv, TypeOK
  <2> QED BY SMTT(30), <1>1, <2>2, SilentRecords DEF SessionStep
<1>5. CASE SetDecisionIfCurrent(t)
  <2>1. \/ sess' = sess
        \/ /\ t \in fresh /\ l.pc = "publish" /\ Active(l.s) /\ ~sess[l.s].revoked
           /\ sess' = [sess EXCEPT ![l.s] = Decided(sess[l.s], l.gen, l.dec)]
    BY <1>5 DEF SetDecisionIfCurrent, PublishDecision, MayDecide
  <2>2. \/ sess'[s] = sess[s]
        \/ /\ t \in fresh /\ l.pc = "publish" /\ Active(s) /\ ~sess[s].revoked
           /\ l.s = s
           /\ sess'[s] = Decided(sess[s], l.gen, l.dec)
    BY <2>1 DEF TypeInv, TypeOK
  <2>3. /\ Decided(sess[s], l.gen, l.dec).dec = l.dec
        /\ Decided(sess[s], l.gen, l.dec).gen = l.gen
        /\ Decided(sess[s], l.gen, l.dec).revoked = sess[s].revoked
    BY <1>1 DEF Decided, SessionRecord
  <2> QED BY <2>2, <2>3 DEF SessionStep
<1> QED
  BY <1>2, <1>3, <1>4, <1>5, Zenon
  DEF Evaluation, LocalGeneration, EvalGet, EvalRead, EvalHit

\* The writes of the event path, of an activation and of the operators.
LEMMA WriteSessions ==
  ASSUME TypeInv, NEW s \in Session,
         \/ \E x \in Session, live \in BOOLEAN : Observe(x, live)
         \/ \E S \in SUBSET Session : Close(S)
         \/ SetZones \/ ActivateInvalidate
         \/ \E cur \in th[Activator].todo : ActivateSetZones(cur)
         \/ \E t \in Operators : InvalidateStore(t) \/ MarkRevoked(t)
  PROVE  SessionStep(s)
<1>1. sess[s] \in SessionRecord /\ sess \in [Session -> SessionRecord]
  BY DEF TypeInv, TypeOK
<1>2. ASSUME NEW t \in Thread
      PROVE  th[t].gen \in Nat /\ th[t].gen \in Generations
  BY DEF TypeInv, TypeOK, Locals, Generations
<1>3. generation \in Nat /\ generation \in Generations /\ 0 \in Generations
  BY DEF TypeInv, TypeOK, Generations
<1>4. ASSUME NEW x \in Session, NEW live \in BOOLEAN, Observe(x, live)
      PROVE  SessionStep(s)
  <2>1. PICK nat : sess' = [sess EXCEPT ![x] = [sess[x] EXCEPT !.st = "active",
                                                               !.nat = nat]]
    BY <1>4, Zenon DEF Observe
  <2> QED BY SMTT(30), <1>1, <2>1 DEF SessionStep, SessionRecord
<1>5. ASSUME NEW S \in SUBSET Session, Close(S)
      PROVE  SessionStep(s)
  <2>1. sess'[s] = sess[s] \/ sess'[s] = [NoSession EXCEPT !.st = "closed"]
    BY <1>5, Zenon DEF Close
  <2>2. sess'[s] = sess[s] \/ (sess'[s].dec # Allow /\ sess'[s].gen = 0)
    BY <2>1, PolicyAssumption DEF NoSession
  <2> QED BY <1>3, <2>2, SMTT(30) DEF SessionStep
<1>6. CASE SetZones
  <2>1. sess' = [sess EXCEPT ![th[Applier].s] =
                   [sess[th[Applier].s] EXCEPT !.zone = th[Applier].zone]]
    BY <1>6 DEF SetZones
  <2> QED BY SMTT(30), <1>1, <2>1 DEF SessionStep, SessionRecord
<1>7. CASE ActivateInvalidate
  <2>1. sess' = sess \/ sess' = [sess EXCEPT ![th[Activator].s] =
                                   Invalidated(sess[th[Activator].s], generation)]
    BY <1>7 DEF ActivateInvalidate
  <2>2. sess'[s] = sess[s] \/ sess'[s] = Invalidated(sess[s], generation)
    BY <1>1, <2>1
  <2> QED BY SMTT(30), <1>1, <1>3, <2>2, SilentRecords DEF SessionStep
<1>8. ASSUME NEW cur \in th[Activator].todo, ActivateSetZones(cur)
      PROVE  SessionStep(s)
  <2>1. PICK zone : sess' = sess \/ sess' = [sess EXCEPT ![cur.s].zone = zone]
    BY <1>8, Zenon DEF ActivateSetZones
  <2> QED BY SMTT(30), <1>1, <2>1 DEF SessionStep, SessionRecord
<1>9. ASSUME NEW t \in Operators, InvalidateStore(t) \/ MarkRevoked(t)
      PROVE  SessionStep(s)
  <2> DEFINE l == th[t]
  <2>1. \/ sess' = sess
        \/ sess' = [sess EXCEPT ![l.s] = Invalidated(sess[l.s], l.gen)]
        \/ sess' = [sess EXCEPT ![l.s] = Revoked(sess[l.s], l.gen)]
    BY <1>9 DEF InvalidateStore, MarkRevoked
  <2>2. \/ sess'[s] = sess[s]
        \/ sess'[s] = Invalidated(sess[s], l.gen)
        \/ sess'[s] = Revoked(sess[s], l.gen)
    BY <1>1, <2>1
  <2>3. l.gen \in Nat /\ l.gen \in Generations
    BY <1>2 DEF Thread
  <2> QED BY SMTT(30), <1>1, <2>2, <2>3, SilentRecords DEF SessionStep
<1> QED
  BY <1>4, <1>5, <1>6, <1>7, <1>8, <1>9

\* The remaining actions leave the store alone.
LEMMA SessionSteps ==
  ASSUME TypeInv, [Next]_vars, NEW s \in Session
  PROVE  SessionStep(s)
<1>1. CASE sess' = sess
  BY <1>1 DEF SessionStep
<1>2. CASE ApplierStep
  BY <1>1, <1>2, WriteSessions, EvaluationSessions, ZenonT(60)
  DEF ApplierStep, ReadProgram, CheckEvaluate, Untrack, ReleaseCheck, ReleaseGuard,
      Thread
<1>3. CASE ActivatorStep
  BY <1>1, <1>3, WriteSessions, EvaluationSessions
  DEF ActivatorStep, ActivateList, Thread
<1>4. ASSUME NEW t \in Operators, OperatorStep(t)
      PROVE  SessionStep(s)
  BY <1>1, <1>4, WriteSessions, EvaluationSessions, Zenon
  DEF OperatorStep, AddGuardOk, AddGuardFails, RemoveGuard, RemoveEntry, SweepGuard,
      ListSource, InvalidateRead, RevokeGuard, RevokeMap, RevokeEvict,
      RevokeGeneration, RevokeUntrack, RevokeUndo, Thread
<1>5. ASSUME NEW t \in Operators, Issue(t)
      PROVE  SessionStep(s)
  BY <1>1, <1>5, Zenon
  DEF Issue, Revoke, GateEvaluate, AddBlock, RemoveBlock, Sweep
<1>6. CASE UNCHANGED vars \/ Activate
           \/ \E src \in Source : EntryTimeout(src) \/ KernelTimeout(src)
  BY <1>1, <1>6 DEF vars, Activate, EntryTimeout, KernelTimeout
<1> QED
  BY <1>2, <1>3, <1>4, <1>5, <1>6, WriteSessions DEF Next

-----------------------------------------------------------------------------
\* A revoked session never shows an allow decision, for any number of operators,
\* evaluators and activations: setDecision refuses revoked sessions, and every
\* other write of the store clears the decision or sets DROP.
THEOREM RevokedSafe == Spec => []RevokedNeverAllowed
<1>1. Init => RevokedNeverAllowed
  BY SMTT(30), PolicyAssumption DEF Init, RevokedNeverAllowed, NoSession
<1>2. TypeInv /\ RevokedNeverAllowed /\ [Next]_vars => RevokedNeverAllowed'
  BY SessionSteps DEF SessionStep, RevokedNeverAllowed
<1> QED BY <1>1, <1>2, InitType, StepType, PTL DEF Spec

-----------------------------------------------------------------------------
(***************************************************************************)
(* What a step does to the thread that takes it.                           *)
(***************************************************************************)
\* A decision computed from the current program, with no block in the way.
Evaluated(l) ==
  /\ blocks[SrcOf[l.s]] = None
  /\ l.gen = generation
  /\ l.dec = Allow => CanAllow(l.s)

\* t need not invalidate s any more.
Served(t, s) ==
  \/ ~(Active(s) /\ Exposed(s))'
  \/ blocks[SrcOf[s]] = t => blocks'[SrcOf[s]] = None

Moves(t, m) ==
  /\ m.gen \in {0, generation, th[t].gen}
  /\ Control(m)
  /\ m.pc = "publish" => Evaluated(m) /\ blocks' = blocks
  /\ t \in Operators => \A s \in Session :
       Pending(th[t], s) => Pending(m, s) \/ Served(t, s)
  /\ m.pc \in LockPC => guardMu' = t \/ (guardMu' = guardMu /\ th[t].pc \in LockPC)
  /\ guardMu' # guardMu => guardMu = None \/ th[t].pc \in LockPC
  /\ m.pc = "releaseGuard" =>
       t = Applier /\ sess' = sess /\ ~HasActiveRevokedConntrackID(CtOf[m.s])

ThreadStep(t) ==
  /\ \A u \in Thread \ {t} : th'[u] = th[u]
  /\ fresh' \subseteq fresh \cup {t}
  /\ Moves(t, th'[t])

\* A step of t, from the locals it leaves.
LEMMA StepFromMoves ==
  ASSUME TypeInv, NEW t \in Thread, NEW m, Goto(t, m), Moves(t, m),
         fresh' \subseteq fresh \cup {t}
  PROVE  ThreadStep(t)
<1>1. th'[t] = m /\ \A u \in Thread \ {t} : th'[u] = th[u]
  BY DEF Goto, TypeInv, TypeOK
<1> QED BY <1>1 DEF ThreadStep

\* Return leaves the caller's loops as they are.
LEMMA ReturnMoves ==
  ASSUME NEW l \in Locals
  PROVE  /\ Control(Return(l)) /\ Return(l).gen = 0
         /\ Return(l).pc \notin {"publish"} \cup LockPC
         /\ \A s \in Session :
              /\ l.op = "add" /\ l.src = SrcOf[s]
              /\ SrcOf[s] \in l.srcs \/ \E e \in l.todo : e.s = s
              => Pending(Return(l), s)
<1>1. /\ Return(l).todo = l.todo /\ Return(l).srcs = l.srcs
      /\ l.todo # {} \/ l.srcs # {} => Return(l).op = l.op /\ Return(l).src = l.src
      /\ Return(l).pc \in {"idle", "loop", "list"}
      /\ Return(l).pc = "idle" => l.todo = {} /\ l.srcs = {}
      /\ Return(l).gen = 0
  BY ReturnType
<1>2. Return(l).pc = "list" => l.todo = {}
  <2>1. CASE l.todo # {}
    <3>1. "loop" \in PC
      BY DEF PC
    <3>2. Return(l).pc = "loop"
      BY SMTT(30), <2>1, <3>1, FrameType DEF Return
    <3> QED BY <3>2
  <2> QED BY <2>1
<1>3. Control(Return(l))
  BY <1>1, <1>2 DEF Control, LockPC
<1>4. Return(l).pc \notin {"publish"} \cup LockPC
  BY <1>1 DEF LockPC
<1> QED BY <1>1, <1>3, <1>4 DEF Pending

\* A step inside a call keeps the caller's loops as well.
LEMMA InnerMoves ==
  ASSUME NEW t \in Thread, NEW m,
         th[t].pc \notin {"addGuard", "invalidate"},
         m.pc \in {"localGen", "mark", "get", "read", "hit", "setBlocked", "release",
                   "actInvalidate"},
         m.op = th[t].op, m.src = th[t].src,
         m.todo = th[t].todo, m.srcs = th[t].srcs,
         m.gen \in {0, generation, th[t].gen}, guardMu' = guardMu
  PROVE  Moves(t, m)
<1>1. \A s \in Session : Pending(th[t], s) => Pending(m, s)
  BY DEF Pending
<1>2. Control(m) /\ m.pc \notin {"publish"} \cup LockPC
  BY DEF Control, LockPC
<1> QED BY <1>1, <1>2 DEF Moves

\* A step that ends a call returns to the caller's loops.
LEMMA ReturningMoves ==
  ASSUME TypeInv, NEW t \in Thread, th[t].pc \notin {"addGuard", "invalidate"},
         guardMu' = guardMu
  PROVE  Moves(t, Return(th[t]))
<1> DEFINE m == Return(th[t])
<1>1. th[t] \in Locals
  BY DEF TypeInv, TypeOK
<1>2. /\ Control(m) /\ m.gen = 0 /\ m.pc \notin {"publish"} \cup LockPC
      /\ \A s \in Session :
           /\ th[t].op = "add" /\ th[t].src = SrcOf[s]
           /\ SrcOf[s] \in th[t].srcs \/ \E e \in th[t].todo : e.s = s
           => Pending(m, s)
  BY <1>1, ReturnMoves
<1> HIDE DEF m
<1>3. \A s \in Session : Pending(th[t], s) => Pending(m, s)
  BY <1>2 DEF Pending
<1> QED BY <1>2, <1>3 DEF Moves, LockPC, m

\* A thread of an operator whose request is not an "add", or that has none, owes
\* nothing.
LEMMA OtherMoves ==
  ASSUME TypeInv, NEW t \in Thread, NEW m,
         t \in Operators =>
           \/ th[t].op # "add"
           \/ th[t].pc = "idle" /\ Control(th[t]),
         m.pc \notin {"publish"} \cup LockPC, Control(m),
         m.gen \in {0, generation, th[t].gen}, guardMu' = guardMu
  PROVE  Moves(t, m)
<1>1. t \in Operators => \A s \in Session : ~Pending(th[t], s)
  BY DEF Pending, Control
<1> QED BY <1>1 DEF Moves, LockPC

\* An idle thread has nothing left to do.
LEMMA IdleControl == Control(Idle) /\ Idle.pc = "idle" /\ Idle.gen = 0
BY SMTT(30) DEF Control, Idle, LockPC

\* The steps of an evaluation.
LEMMA EvaluationSteps ==
  ASSUME TypeInv, NEW t \in Thread, Evaluation(t)
  PROVE  ThreadStep(t)
<1> DEFINE l == th[t]
<1>1. WellFormed(l) /\ l \in Locals /\ l.gen \in Nat
  BY SMTT(30) DEF TypeInv, WellFormed, Locals
<1>2. /\ l.pc \in {"localGen", "mark", "get", "read", "hit", "setBlocked", "publish"}
      /\ guardMu' = guardMu /\ blocks' = blocks
  BY ZenonT(60) DEF Evaluation, LocalGeneration, MarkEvaluationUnavailable, EvalGet, EvalRead,
         EvalHit, SetBlockedDecision, SetDecisionIfCurrent, PublishDecision,
         revoking, blockMap
<1>3. l.s \in Session
  BY <1>1, <1>2, SMTT(30) DEF WellFormed
<1>4. fresh' \subseteq fresh \cup {t}
  BY Zenon DEF Evaluation, LocalGeneration, MarkEvaluationUnavailable, EvalGet, EvalRead,
         EvalHit, SetBlockedDecision, SetDecisionIfCurrent, PublishDecision, Bump
<1>5. CASE Goto(t, Return(l))
  <2>1. Moves(t, Return(l))
    BY <1>2, ReturningMoves
  <2> QED BY <1>4, <1>5, <2>1, StepFromMoves
<1>6. CASE l.retry < 2 /\ Goto(t, Retry(l))
  <2>1. /\ Retry(l).pc = "get" /\ Retry(l).gen = 0
        /\ Retry(l).op = l.op /\ Retry(l).src = l.src
        /\ Retry(l).todo = l.todo /\ Retry(l).srcs = l.srcs
    BY <1>1, <1>3, <1>6, RetryType
  <2>2. Moves(t, Retry(l))
    BY <1>2, <2>1, InnerMoves
  <2> QED BY <1>4, <1>6, <2>2, StepFromMoves
<1>7. CASE LocalGeneration(t)
  <2> DEFINE m == [l EXCEPT !.pc = "mark", !.gen = generation]
  <2>1. Goto(t, m)
    BY <1>7 DEF LocalGeneration
  <2>2. /\ m.pc = "mark" /\ m.gen = generation /\ m.op = l.op /\ m.src = l.src
        /\ m.todo = l.todo /\ m.srcs = l.srcs
    <3> HIDE DEF l
    <3> QED BY <1>1 DEF Locals
  <2> HIDE DEF m
  <2>3. Moves(t, m)
    BY <1>2, <2>2, InnerMoves
  <2> QED BY <1>4, <2>1, <2>3, StepFromMoves
<1>8. CASE EvalGet(t)
  <2> DEFINE m == [l EXCEPT !.pc = "read", !.v = View(sess[l.s])]
  <2>1. Goto(t, m) \/ Goto(t, Return(l))
    BY <1>8 DEF EvalGet
  <2>2. /\ m.pc = "read" /\ m.gen = l.gen /\ m.op = l.op /\ m.src = l.src
        /\ m.todo = l.todo /\ m.srcs = l.srcs
    <3> HIDE DEF l
    <3> QED BY <1>1 DEF Locals
  <2> HIDE DEF m
  <2>3. Moves(t, m)
    BY <1>2, <2>2, InnerMoves
  <2> QED BY <1>4, <1>5, <2>1, <2>3, StepFromMoves
<1>9. CASE EvalRead(t)
  <2> DEFINE d == Verdict[program][l.s][l.v.nat][l.v.zone]
             f == Frame(l, "publish", l.s)
             next == [f EXCEPT !.gen = generation]
             m1 == [next EXCEPT !.pc = "setBlocked"]
             m2 == [next EXCEPT !.pc = "hit", !.retry = l.retry]
             m3 == [next EXCEPT !.dec = d, !.retry = l.retry]
  <2>1. \/ Goto(t, m1) \/ Goto(t, Return(l)) \/ Goto(t, m2)
        \/ blocks[SrcOf[l.s]] = None /\ Goto(t, m3)
    BY <1>9, ZenonT(60) DEF EvalRead
  <2>2. d = Allow => CanAllow(l.s)
    BY <1>1, ZenonT(60) DEF CanAllow, Locals, SessionView
  <2>3. "publish" \in PC
    BY DEF PC
  <2>4. /\ f \in Locals /\ f.pc = "publish" /\ f.s = l.s /\ f.op = l.op
        /\ f.src = l.src /\ f.todo = l.todo /\ f.srcs = l.srcs
    BY SMTT(30), <1>1, <1>3, <2>3, FrameType
  <2> HIDE DEF l, d, f
  <2>5. /\ next = [f EXCEPT !.gen = generation]
        /\ next.pc = "publish" /\ next.s = l.s /\ next.op = l.op /\ next.src = l.src
        /\ next.todo = l.todo /\ next.srcs = l.srcs /\ next.gen = generation
    BY <2>4 DEF Locals
  <2>6. next \in Locals
    BY <2>4 DEF Locals, TypeInv, TypeOK
  <2> HIDE DEF next
  <2>7. /\ m1.pc = "setBlocked" /\ m1.gen = generation /\ m1.op = l.op
        /\ m1.src = l.src /\ m1.todo = l.todo /\ m1.srcs = l.srcs
        /\ m2.pc = "hit" /\ m2.gen = generation /\ m2.op = l.op
        /\ m2.src = l.src /\ m2.todo = l.todo /\ m2.srcs = l.srcs
    BY <2>5, <2>6 DEF Locals
  <2>8. /\ m3.pc = "publish" /\ m3.gen = generation /\ m3.op = l.op
        /\ m3.src = l.src /\ m3.todo = l.todo /\ m3.srcs = l.srcs
        /\ m3.s = l.s /\ m3.dec = d
    BY <2>5, <2>6 DEF Locals
  <2> HIDE DEF m1, m2, m3
  <2>9. Moves(t, m1) /\ Moves(t, m2)
    BY <1>2, <2>7, InnerMoves DEF l
  <2>10. ASSUME blocks[SrcOf[l.s]] = None PROVE Moves(t, m3)
    <3>1. Evaluated(m3) /\ Control(m3) /\ m3.pc \notin LockPC
      BY <2>2, <2>8, <2>10 DEF Evaluated, Control, LockPC
    <3>2. \A s \in Session : Pending(th[t], s) => Pending(m3, s)
      BY <1>2, <2>8 DEF Pending, l
    <3> QED BY <1>2, <2>8, <3>1, <3>2 DEF Moves
  <2> QED BY <1>4, <1>5, <2>1, <2>9, <2>10, StepFromMoves, SMTT(30) DEF l
<1> QED
  BY <1>5, <1>6, <1>7, <1>8, <1>9, SMTT(30)
  DEF Evaluation, MarkEvaluationUnavailable, EvalHit, SetBlockedDecision,
      SetDecisionIfCurrent, PublishDecision

\* The steps of the goroutine that holds applyMu.
LEMMA ApplierSteps ==
  ASSUME TypeInv, ControlInv,
         \/ \E s \in Session, live \in BOOLEAN : Observe(s, live)
         \/ \E S \in SUBSET Session : Close(S)
         \/ ReadProgram \/ SetZones \/ CheckEvaluate
         \/ \E cur \in th[Applier].todo : Untrack(cur)
         \/ ReleaseCheck \/ ReleaseGuard
  PROVE  ThreadStep(Applier)
<1> DEFINE l == th[Applier]
<1>1. /\ Applier \in Thread /\ Applier \notin Operators
      /\ l \in Locals /\ l.gen \in Nat /\ WellFormed(l)
  BY ThreadAssumption, SMTT(30) DEF TypeInv, Thread, WellFormed, Locals
<1>2. fresh' \subseteq fresh \cup {Applier}
  BY ZenonT(60) DEF Observe, Close, ReadProgram, SetZones, CheckEvaluate, Untrack,
         ReleaseCheck, ReleaseGuard, Bump
<1>3. ASSUME NEW m, Goto(Applier, m), m.pc \notin {"publish"} \cup LockPC, Control(m),
             m.gen \in {0, generation, l.gen}, guardMu' = guardMu
      PROVE  ThreadStep(Applier)
  <2>1. Moves(Applier, m)
    BY <1>1, <1>3, OtherMoves
  <2> QED BY <1>1, <1>2, <1>3, <2>1, StepFromMoves, SMTT(30)
<1>4. ASSUME NEW k \in Locals, Goto(Applier, Return(k)), guardMu' = guardMu
      PROVE  ThreadStep(Applier)
  BY <1>3, <1>4, ReturnMoves
<1>5. ASSUME NEW s \in Session, NEW live \in BOOLEAN, Observe(s, live)
      PROVE  ThreadStep(Applier)
  <2>1. PICK v, c : Goto(Applier, [Idle EXCEPT !.pc = "program", !.op = "observe",
                                   !.s = s, !.v = v, !.changed = c, !.live = live])
    BY <1>5, ZenonT(60) DEF Observe
  <2> DEFINE m == [Idle EXCEPT !.pc = "program", !.op = "observe", !.s = s, !.v = v,
                               !.changed = c, !.live = live]
  <2>2. Goto(Applier, m) /\ guardMu' = guardMu
    BY <1>5, <2>1, Zenon DEF Observe, revoking
  <2>3. m.pc = "program" /\ m.gen = 0 /\ m.todo = {}
    BY DEF Idle
  <2> HIDE DEF m
  <2> QED BY <1>3, <2>2, <2>3, SMTT(30) DEF Control, LockPC
<1>6. ASSUME NEW S \in SUBSET Session, Close(S)
      PROVE  ThreadStep(Applier)
  <2> DEFINE m == [Idle EXCEPT !.pc = "loop", !.op = "close", !.todo = List(S)]
  <2>1. Goto(Applier, m) /\ guardMu' = guardMu
    BY <1>6, Zenon DEF Close, revoking
  <2>2. m.pc = "loop" /\ m.gen = 0
    BY DEF Idle
  <2> HIDE DEF m
  <2> QED BY <1>3, <2>1, <2>2, SMTT(30) DEF Control, LockPC
<1>7. ASSUME NEW m, Goto(Applier, m), m.pc \in {"zones", "check"}, m.gen = l.gen,
             m.todo = l.todo, l.pc \in {"program", "zones"}, guardMu' = guardMu
      PROVE  ThreadStep(Applier)
  BY <1>1, <1>3, <1>7 DEF ControlInv, Control, LockPC
<1>12. CASE ReadProgram
  <2> DEFINE z == InferZone[program][l.s][l.v.nat]
             m == [l EXCEPT !.pc = "zones", !.zone = z]
  <2>1. Goto(Applier, m) /\ guardMu' = guardMu /\ l.pc = "program"
    BY <1>12 DEF ReadProgram, revoking
  <2> HIDE DEF l, z
  <2>2. m.pc = "zones" /\ m.gen = l.gen /\ m.todo = l.todo
    BY <1>1 DEF Locals
  <2> HIDE DEF m
  <2> QED BY <1>7, <2>1, <2>2, SMTT(30)
<1>13. CASE SetZones
  <2>1. PICK v, c : Goto(Applier, [l EXCEPT !.pc = "check", !.v = v, !.changed = c])
    BY <1>13, Zenon DEF SetZones
  <2> DEFINE m == [l EXCEPT !.pc = "check", !.v = v, !.changed = c]
  <2>2. Goto(Applier, m) /\ guardMu' = guardMu /\ l.pc = "zones"
    BY <1>13, <2>1 DEF SetZones, revoking
  <2> HIDE DEF l
  <2>3. m.pc = "check" /\ m.gen = l.gen /\ m.todo = l.todo
    BY <1>1 DEF Locals
  <2> HIDE DEF m
  <2> QED BY <1>7, <2>2, <2>3, SMTT(30)
<1>8. CASE CheckEvaluate
  <2>1. PICK m \in {EvaluateObserved(l, l.v.zone), Idle} : Goto(Applier, m)
    BY <1>8 DEF CheckEvaluate
  <2>2. guardMu' = guardMu /\ l.s \in Session
    BY <1>1, <1>8, SMTT(30) DEF CheckEvaluate, revoking, WellFormed
  <2>3. m.pc \in {"localGen", "get", "idle"} /\ m.gen = 0 /\ Control(m)
    BY SMTT(30), <1>1, <2>1, <2>2, EvaluateObservedType, IdleControl DEF Control, LockPC
  <2> QED BY <1>3, <2>1, <2>2, <2>3 DEF LockPC
<1>9. ASSUME NEW cur \in l.todo, Untrack(cur)
      PROVE  ThreadStep(Applier)
  <2> DEFINE k == [l EXCEPT !.todo = @ \ {cur}]
             m == Frame(k, "release", cur.s)
  <2>1. Goto(Applier, m) \/ Goto(Applier, Return(k))
    BY <1>9 DEF Untrack
  <2>2. guardMu' = guardMu
    BY <1>9, SMTT(30) DEF Untrack
  <2>3. cur.s \in Session /\ "release" \in PC
    BY <1>1 DEF Locals, Listed, PC
  <2>4. k \in Locals
    <3> HIDE DEF l
    <3> QED BY <1>1, SMTT(30) DEF Locals
  <2> HIDE DEF k
  <2>5. m.pc = "release" /\ m.gen = 0
    BY SMTT(30), <2>3, <2>4, FrameType
  <2> HIDE DEF m
  <2>6. Control(m) /\ m.pc \notin {"publish"} \cup LockPC
    BY <2>5 DEF Control, LockPC
  <2> QED BY <1>3, <1>4, <2>1, <2>2, <2>4, <2>5, <2>6
<1>10. CASE ReleaseCheck
  <2> DEFINE m == [l EXCEPT !.pc = "releaseGuard"]
  <2>1. \/ Goto(Applier, Return(l)) /\ guardMu' = guardMu
        \/ /\ Goto(Applier, m) /\ guardMu' = Applier /\ guardMu = None
           /\ sess' = sess /\ ~HasActiveRevokedConntrackID(CtOf[l.s])
    BY <1>10 DEF ReleaseCheck
  <2>2. m.pc = "releaseGuard" /\ m.gen = l.gen /\ m.s = l.s
    <3> HIDE DEF l
    <3> QED BY <1>1 DEF Locals
  <2> HIDE DEF m
  <2>3. ASSUME guardMu' = Applier, guardMu = None, sess' = sess,
               ~HasActiveRevokedConntrackID(CtOf[l.s])
        PROVE  Moves(Applier, m)
    BY <1>1, <2>2, <2>3, SMTT(30) DEF Moves, Control, LockPC
  <2> QED BY <1>1, <1>2, <1>4, <2>1, <2>3, StepFromMoves
<1>11. CASE ReleaseGuard
  <2>1. Goto(Applier, Return(l)) /\ guardMu' = None /\ l.pc \in LockPC
    BY <1>11, SMTT(30) DEF ReleaseGuard, LockPC
  <2>2. /\ Control(Return(l)) /\ Return(l).gen = 0
        /\ Return(l).pc \notin {"publish"} \cup LockPC
    BY <1>1, ReturnMoves, SMTT(30)
  <2>3. Moves(Applier, Return(l))
    BY <1>1, <2>1, <2>2 DEF Moves, LockPC
  <2> QED BY <1>1, <1>2, <2>1, <2>3, StepFromMoves, SMTT(30)
<1> QED BY <1>5, <1>6, <1>8, <1>9, <1>10, <1>11, <1>12, <1>13, SMTT(30)

\* The steps of an activation.
LEMMA ActivatorSteps ==
  ASSUME TypeInv,
         \/ Activate \/ ActivateList \/ ActivateInvalidate
         \/ \E cur \in th[Activator].todo : ActivateSetZones(cur)
  PROVE  ThreadStep(Activator)
<1> DEFINE l == th[Activator]
<1>1. /\ Activator \in Thread /\ Activator \notin Operators
      /\ l \in Locals /\ WellFormed(l)
  BY ThreadAssumption, SMTT(30) DEF TypeInv, Thread, WellFormed
<1>2. fresh' \subseteq fresh \cup {Activator} /\ guardMu' = guardMu
  BY Zenon DEF Activate, ActivateList, ActivateInvalidate, ActivateSetZones, Bump, revoking
<1>3. ASSUME NEW m, Goto(Activator, m), m.pc \notin {"publish"} \cup LockPC, Control(m),
             m.gen = 0
      PROVE  ThreadStep(Activator)
  <2>1. Moves(Activator, m)
    BY <1>1, <1>2, <1>3, OtherMoves
  <2> QED BY <1>1, <1>2, <1>3, <2>1, StepFromMoves
<1>4. ASSUME NEW k \in Locals, Goto(Activator, Return(k))
      PROVE  ThreadStep(Activator)
  BY <1>3, <1>4, ReturnMoves
<1>5. CASE Activate
  <2> DEFINE m == [Idle EXCEPT !.pc = "list", !.op = "activate"]
  <2>1. Goto(Activator, m)
    BY <1>5 DEF Activate
  <2>2. m.pc = "list" /\ m.gen = 0 /\ m.todo = {}
    BY DEF Idle
  <2> HIDE DEF m
  <2> QED BY <1>3, <2>1, <2>2 DEF Control, LockPC
<1>6. CASE ActivateList
  <2> DEFINE k == [l EXCEPT !.todo = List(Unrevoked)]
  <2>1. Goto(Activator, Return(k))
    BY <1>6 DEF ActivateList
  <2>2. List(Unrevoked) \in SUBSET Listed
    BY ListType DEF Unrevoked
  <2> HIDE DEF l
  <2>3. k \in Locals
    BY <1>1, <2>2 DEF Locals
  <2> HIDE DEF k
  <2> QED BY <1>4, <2>1, <2>3
<1>7. CASE ActivateInvalidate
  <2>1. PICK zone : Goto(Activator, EvaluateObserved(l, zone))
                      \/ Goto(Activator, Return(l))
    BY <1>7, SMTT(30) DEF ActivateInvalidate
  <2>2. l.s \in Session
    BY <1>1, <1>7 DEF ActivateInvalidate, WellFormed
  <2>3. /\ EvaluateObserved(l, zone).pc \in {"localGen", "get"}
        /\ EvaluateObserved(l, zone).gen = 0
    BY <1>1, <2>2, EvaluateObservedType
  <2>4. Control(EvaluateObserved(l, zone))
    BY <2>3 DEF Control, LockPC
  <2> QED BY <1>1, <1>3, <1>4, <2>1, <2>3, <2>4, SMTT(30) DEF LockPC
<1>8. ASSUME NEW cur \in l.todo, ActivateSetZones(cur)
      PROVE  ThreadStep(Activator)
  <2> DEFINE k == [l EXCEPT !.todo = @ \ {cur}]
             f == Frame(k, "actInvalidate", cur.s)
             z == InferZone[program][cur.s][cur.v.nat]
             m == [f EXCEPT !.zone = z]
  <2>1. Goto(Activator, m) \/ Goto(Activator, Return(k))
    BY <1>8, ZenonT(60) DEF ActivateSetZones
  <2>2. cur.s \in Session /\ "actInvalidate" \in PC
    BY <1>1 DEF Locals, Listed, PC
  <2> HIDE DEF l, z
  <2>3. k \in Locals
    BY <1>1 DEF Locals
  <2> HIDE DEF k
  <2>4. f \in Locals /\ f.pc = "actInvalidate" /\ f.gen = 0
    BY SMTT(30), <2>2, <2>3, FrameType
  <2> HIDE DEF f
  <2>5. m.pc = "actInvalidate" /\ m.gen = 0
    BY <2>4 DEF Locals
  <2> HIDE DEF m
  <2>6. Control(m) /\ m.pc \notin {"publish"} \cup LockPC
    BY <2>5 DEF Control, LockPC
  <2> QED BY <1>3, <1>4, <2>1, <2>3, <2>5, <2>6, SMTT(30)
<1> QED BY <1>5, <1>6, <1>7, <1>8

\* A new request finds its thread idle; one that adds a block owes the
\* invalidation of every session of the source.
LEMMA IssueSteps ==
  ASSUME TypeInv, ControlInv, NEW t \in Operators, Issue(t)
  PROVE  ThreadStep(t)
<1> DEFINE l == th[t]
<1>1. /\ t \in Thread /\ Control(l) /\ l.pc = "idle"
      /\ fresh' \subseteq fresh \cup {t} /\ guardMu' = guardMu
  BY ZenonT(60) DEF Thread, ControlInv, Issue, Revoke, GateEvaluate, AddBlock, RemoveBlock,
         Sweep, revoking
<1>2. ASSUME NEW m, Goto(t, m), m.pc \in {"revokeGuard", "get", "addGuard",
                                          "delGuard", "sweepGuard"},
             m.gen = 0, m.todo = {},
             m.pc \in {"revokeGuard", "delGuard", "sweepGuard"} => m.op # "add"
      PROVE  ThreadStep(t)
  <2>1. Control(m) /\ m.pc \notin {"publish"} \cup LockPC
    BY <1>2 DEF Control, LockPC
  <2>2. Moves(t, m)
    BY <1>1, <1>2, <2>1, OtherMoves, SMTT(30)
  <2> QED BY <1>1, <1>2, <2>2, StepFromMoves
<1>3. ASSUME NEW s \in Session, Revoke(t, s) \/ GateEvaluate(t, s)
      PROVE  ThreadStep(t)
  <2>1. PICK pc \in {"revokeGuard", "get"}, op \in {"revoke", "evaluate"} :
          Goto(t, [Idle EXCEPT !.pc = pc, !.op = op, !.s = s])
    BY <1>3 DEF Revoke, GateEvaluate
  <2> DEFINE m == [Idle EXCEPT !.pc = pc, !.op = op, !.s = s]
  <2>2. Goto(t, m)
    BY <2>1
  <2>3. m.pc = pc /\ m.gen = 0 /\ m.todo = {} /\ m.op = op
    BY DEF Idle
  <2> HIDE DEF m
  <2> QED BY SMTT(30), <1>2, <2>2, <2>3
<1>4. ASSUME NEW src \in Source, AddBlock(t, src) \/ RemoveBlock(t, src)
      PROVE  ThreadStep(t)
  <2>1. PICK p \in {<<"addGuard", "add">>, <<"delGuard", "remove">>} :
          Goto(t, [Idle EXCEPT !.pc = p[1], !.op = p[2], !.src = src])
    BY <1>4 DEF AddBlock, RemoveBlock
  <2> DEFINE m == [Idle EXCEPT !.pc = p[1], !.op = p[2], !.src = src]
  <2>2. Goto(t, m)
    BY <2>1
  <2>3. m.pc = p[1] /\ m.gen = 0 /\ m.todo = {} /\ m.op = p[2]
    BY DEF Idle
  <2> HIDE DEF m
  <2> QED BY SMTT(30), <1>2, <2>2, <2>3
<1>5. CASE Sweep(t)
  <2> DEFINE m == [Idle EXCEPT !.pc = "sweepGuard", !.op = "sweep",
                               !.srcs = expired, !.rest = expired]
  <2>1. Goto(t, m)
    BY <1>5 DEF Sweep
  <2>2. m.pc = "sweepGuard" /\ m.gen = 0 /\ m.todo = {} /\ m.op = "sweep"
    BY SMTT(30) DEF Idle
  <2> HIDE DEF m
  <2> QED BY <1>2, <2>1, <2>2
<1> QED BY <1>3, <1>4, <1>5, SMTT(30) DEF Issue

\* The steps of block and unblock requests and of the sweeper: an "add" owes s
\* until it has invalidated s, found s closed, or withdrawn its entry.
LEMMA BlockSteps ==
  ASSUME TypeInv, ControlInv, NEW t \in Operators,
         \/ AddGuardOk(t) \/ AddGuardFails(t) \/ RemoveGuard(t) \/ RemoveEntry(t)
         \/ \E src \in Source : SweepGuard(t, src) \/ ListSource(t, src)
         \/ \E cur \in th[t].todo : InvalidateRead(t, cur)
         \/ InvalidateStore(t)
  PROVE  ThreadStep(t)
<1> DEFINE l == th[t]
<1>1. t \in Thread /\ WellFormed(l) /\ l \in Locals /\ Control(l)
  BY SMTT(30) DEF TypeInv, Thread, WellFormed, ControlInv
<1>2. fresh' \subseteq fresh \cup {t} /\ guardMu' = guardMu
  BY ZenonT(60) DEF AddGuardOk, AddGuardFails, RemoveGuard, RemoveEntry, SweepGuard, ListSource,
         InvalidateRead, InvalidateStore, Bump, revoking
<1>3. ASSUME NEW m, Goto(t, m), m.pc \notin {"publish"} \cup LockPC, Control(m),
             m.gen \in {0, generation, l.gen},
             \A s \in Session : Pending(l, s) => Pending(m, s) \/ Served(t, s)
      PROVE  ThreadStep(t)
  <2>1. Moves(t, m)
    BY <1>2, <1>3, ZenonT(60) DEF Moves, LockPC
  <2> QED BY <1>1, <1>2, <1>3, <2>1, StepFromMoves, ZenonT(60)
<1>4. CASE AddGuardOk(t) \/ RemoveEntry(t)
  <2> DEFINE m == [l EXCEPT !.pc = "list", !.srcs = {l.src}]
  <2>1. Goto(t, m) /\ l.pc \in {"addGuard", "delEntry"}
    BY <1>4 DEF AddGuardOk, RemoveEntry
  <2> HIDE DEF l
  <2>2. /\ m.pc = "list" /\ m.gen = l.gen /\ m.op = l.op /\ m.src = l.src
        /\ m.srcs = {l.src} /\ m.todo = {}
    BY <1>1, <2>1 DEF Locals, Control
  <2> HIDE DEF m
  <2>3. Control(m) /\ m.pc \notin {"publish"} \cup LockPC
    BY <2>2 DEF Control, LockPC
  <2>4. \A s \in Session : Pending(l, s) => Pending(m, s)
    BY <2>2, SMTT(30) DEF Pending
  <2> QED BY <1>3, <2>1, <2>2, <2>3, <2>4 DEF l
<1>5. CASE AddGuardFails(t)
  <2>1. Goto(t, Idle) /\ (blocks[l.src] = t => blocks'[l.src] = None)
    <3>1. l.src \in Source
      BY <1>1, <1>5, ZenonT(60) DEF AddGuardFails, WellFormed
    <3> QED BY <1>5, <3>1, ZenonT(60) DEF AddGuardFails, TypeInv, TypeOK
  <2>2. \A s \in Session : Pending(l, s) => Served(t, s)
    BY <2>1, ZenonT(60) DEF Pending, Served
  <2> QED BY <1>3, <2>1, <2>2, IdleControl, ZenonT(60) DEF LockPC
<1>6. CASE RemoveGuard(t)
  <2> DEFINE m == [l EXCEPT !.pc = "delEntry"]
  <2>1. (Goto(t, m) \/ Goto(t, Idle)) /\ l.pc = "delGuard"
    BY <1>6 DEF RemoveGuard
  <2>2. l.op # "add" /\ l.todo = {}
    BY <1>1, <2>1, SMTT(30) DEF Control
  <2>3. \A s \in Session : ~Pending(l, s)
    BY <2>2, Zenon DEF Pending
  <2> HIDE DEF l
  <2>4. m.pc = "delEntry" /\ m.gen = l.gen /\ m.op = l.op /\ m.todo = {}
    BY <1>1, <2>2 DEF Locals
  <2> HIDE DEF m
  <2>5. Control(m) /\ m.pc \notin {"publish"} \cup LockPC
    BY <2>2, <2>4, SMTT(30) DEF Control, LockPC
  <2> QED BY <1>3, <2>1, <2>3, <2>4, <2>5, IdleControl, Zenon DEF l, LockPC
<1>7. ASSUME NEW src \in Source, SweepGuard(t, src)
      PROVE  ThreadStep(t)
  <2> DEFINE pc == IF l.rest = {src} THEN "list" ELSE "sweepGuard"
             m  == [l EXCEPT !.rest = @ \ {src}, !.pc = pc]
  <2>1. Goto(t, m) /\ l.pc = "sweepGuard"
    BY <1>7, Zenon DEF SweepGuard
  <2>2. l.op # "add" /\ l.todo = {} /\ pc \in {"list", "sweepGuard"}
    BY <1>1, <2>1, SMTT(30) DEF Control
  <2>3. \A s \in Session : ~Pending(l, s)
    BY <2>2 DEF Pending
  <2> HIDE DEF l, pc
  <2>4. m.pc = pc /\ m.gen = l.gen /\ m.op = l.op /\ m.todo = {}
    BY <1>1, <2>2, SMTT(30) DEF Locals
  <2> HIDE DEF m
  <2>5. Control(m) /\ m.pc \notin {"publish"} \cup LockPC
    BY <2>2, <2>4, SMTT(30) DEF Control, LockPC
  <2> QED BY <1>3, <2>1, <2>3, <2>4, <2>5, ZenonT(60) DEF l
<1>8. ASSUME NEW src \in Source, ListSource(t, src)
      PROVE  ThreadStep(t)
  <2> DEFINE S == {s \in Session : SrcOf[s] = src} \cap
                    (IF l.op = "add" THEN Session ELSE Unrevoked)
             k == [l EXCEPT !.todo = List(S), !.srcs = @ \ {src}]
  <2>1. Goto(t, Return(k)) /\ l.pc = "list" /\ src \in l.srcs /\ sess' = sess
    BY <1>8, ZenonT(60) DEF ListSource
  <2>2. S \in SUBSET Session
    OBVIOUS
  <2>3. ASSUME NEW s \in Session, Pending(l, s)
        PROVE  /\ l.op = "add" /\ l.src = SrcOf[s] /\ SrcOf[s] \in l.srcs
               /\ SrcOf[s] = src => s \in S
    BY <1>1, <2>1, <2>3, SMTT(30) DEF Pending, Control
  <2> HIDE DEF S
  <2>4. List(S) \in SUBSET Listed
    BY <2>2, ListType, SMTT(30)
  <2>5. ASSUME NEW s \in S, Active(s) PROVE \E e \in List(S) : e.s = s
    <3>1. [s |-> s, v |-> View(sess[s])] \in List(S)
      BY <2>5 DEF List
    <3> QED BY <3>1, SMTT(30)
  <2> HIDE DEF l
  <2>6. /\ k \in Locals /\ k.op = l.op /\ k.src = l.src
        /\ k.todo = List(S) /\ k.srcs = l.srcs \ {src}
    BY <1>1, <2>4, ZenonT(60) DEF Locals
  <2> HIDE DEF k
  <2>7. /\ Control(Return(k)) /\ Return(k).gen = 0
        /\ Return(k).pc \notin {"publish"} \cup LockPC
        /\ \A s \in Session :
             /\ k.op = "add" /\ k.src = SrcOf[s]
             /\ SrcOf[s] \in k.srcs \/ \E e \in k.todo : e.s = s
             => Pending(Return(k), s)
    BY <2>6, ReturnMoves, Zenon
  <2>8. ASSUME NEW s \in Session, Pending(l, s)
        PROVE  Pending(Return(k), s) \/ Served(t, s)
    <3>1. /\ k.op = "add" /\ k.src = SrcOf[s] /\ SrcOf[s] \in l.srcs
          /\ SrcOf[s] = src => s \in S
      BY <2>3, <2>6, <2>8, ZenonT(60)
    <3>2. CASE SrcOf[s] # src
      BY <2>6, <2>7, <3>1, <3>2, ZenonT(60)
    <3>3. CASE SrcOf[s] = src /\ Active(s)
      <4>1. s \in S
        BY <3>1, <3>3, ZenonT(60)
      <4>2. \E e \in List(S) : e.s = s
        BY <2>5, <3>3, <4>1, SMTT(30)
      <4>3. \E e \in k.todo : e.s = s
        BY <2>6, <4>2, SMTT(30)
      <4> QED BY <2>7, <3>1, <4>3, ZenonT(60)
    <3>4. CASE ~Active(s)
      BY <2>1, <3>4, ZenonT(60) DEF Served, Active
    <3> QED BY <3>2, <3>3, <3>4, ZenonT(60)
  <2> QED BY <1>3, <2>1, <2>7, <2>8, ZenonT(60) DEF l
<1>9. ASSUME NEW cur \in l.todo, InvalidateRead(t, cur)
      PROVE  ThreadStep(t)
  <2> DEFINE k == [l EXCEPT !.todo = @ \ {cur}]
             f == Frame(k, "invalidate", cur.s)
             m == [f EXCEPT !.v = cur.v, !.gen = generation]
  <2>1. Goto(t, m) /\ l.pc = "loop"
    <3>1. Goto(t, m) /\ k.pc = "loop"
      BY <1>9, Zenon DEF InvalidateRead
    <3>2. k.pc = l.pc
      <4> HIDE DEF l
      <4> QED BY <1>1, SMTT(30) DEF Locals
    <3> QED BY <3>1, <3>2, SMTT(30)
  <2>2. cur.s \in Session /\ "invalidate" \in PC
    BY <1>1, Zenon DEF Locals, Listed, PC
  <2> HIDE DEF l
  <2>3. /\ k \in Locals /\ k.op = l.op /\ k.src = l.src /\ k.srcs = l.srcs
        /\ k.todo = l.todo \ {cur}
    BY <1>1, SMTT(30) DEF Locals
  <2> HIDE DEF k
  <2>4. /\ f \in Locals /\ f.pc = "invalidate" /\ f.s = cur.s /\ f.op = k.op
        /\ f.src = k.src /\ f.todo = k.todo /\ f.srcs = k.srcs
    BY SMTT(30), <2>2, <2>3, FrameType
  <2> HIDE DEF f
  <2>5. /\ m.pc = "invalidate" /\ m.s = cur.s /\ m.op = l.op /\ m.src = l.src
        /\ m.todo = l.todo \ {cur} /\ m.srcs = l.srcs /\ m.gen = generation
    BY <2>3, <2>4, SMTT(30) DEF Locals
  <2> HIDE DEF m
  <2>6. Control(m) /\ m.pc \notin {"publish"} \cup LockPC
    BY <2>5, SMTT(30) DEF Control, LockPC
  <2>7. \A s \in Session : Pending(l, s) => Pending(m, s)
    BY <2>1, <2>5, SMTT(30) DEF Pending
  <2> QED BY <1>3, <2>1, <2>5, <2>6, <2>7, ZenonT(60) DEF l
<1>10. CASE InvalidateStore(t)
  <2> DEFINE m == EvaluateObserved(l, l.v.zone)
  <2>1. l.s \in Session /\ l.pc = "invalidate" /\ l.gen \in Nat
    BY <1>1, <1>10, ZenonT(60) DEF InvalidateStore, WellFormed, Locals
  <2>2. /\ m.pc \in {"localGen", "get"} /\ m.op = l.op /\ m.src = l.src
        /\ m.todo = l.todo /\ m.srcs = l.srcs /\ m.gen = 0
    BY <1>1, <2>1, EvaluateObservedType, ZenonT(60)
  <2>3. Control(m) /\ m.pc \notin {"publish"} \cup LockPC
    BY <2>2, ZenonT(60) DEF Control, LockPC
  <2>4. /\ Control(Return(l)) /\ Return(l).gen = 0
        /\ Return(l).pc \notin {"publish"} \cup LockPC
        /\ \A s \in Session :
             /\ l.op = "add" /\ l.src = SrcOf[s]
             /\ SrcOf[s] \in l.srcs \/ \E e \in l.todo : e.s = s
             => Pending(Return(l), s)
    BY <1>1, ReturnMoves, ZenonT(60)
  <2>5. CASE Active(l.s)
    <3>1. /\ Goto(t, m) /\ fresh' = Bump(l.s)
          /\ sess' = [sess EXCEPT ![l.s] = Invalidated(sess[l.s], l.gen)]
      BY <1>10, <2>5, ZenonT(60) DEF InvalidateStore
    <3>2. sess[l.s] \in SessionRecord
      BY <2>1, ZenonT(60) DEF TypeInv, TypeOK
    <3>3. sess'[l.s].dec # Allow
      <4>1. sess'[l.s] = Invalidated(sess[l.s], l.gen)
        BY <2>1, <3>1, Zenon DEF TypeInv, TypeOK
      <4> QED BY <2>1, <3>2, <4>1, SilentRecords, ZenonT(60)
    <3>4. ASSUME NEW u \in fresh', th'[u].pc = "publish" PROVE th'[u].s # l.s
      <4>1. u \in Thread /\ u \in fresh /\ th[u].s # l.s
        BY <3>1, ZenonT(60) DEF Bump, TypeInv, TypeOK
      <4>2. u = t => th'[u] = m
        BY <1>1, <3>1, ZenonT(60) DEF Goto, TypeInv, TypeOK
      <4>3. u # t
        BY <2>3, <3>4, <4>2, SMTT(30)
      <4>4. th'[u] = th[u]
        BY <3>1, <4>1, <4>3, ZenonT(60) DEF Goto, TypeInv, TypeOK
      <4> QED BY <4>1, <4>4, SMTT(30)
    <3>5. ASSUME NEW s \in Session, s = l.s PROVE Served(t, s)
      BY <3>3, <3>4, <3>5, ZenonT(60) DEF Served, Exposed
    <3> HIDE DEF m
    <3>6. \A s \in Session : Pending(l, s) => Pending(m, s) \/ s = l.s
      BY <2>1, <2>2, ZenonT(60) DEF Pending
    <3> QED BY <1>3, <2>2, <2>3, <3>1, <3>5, <3>6, ZenonT(60)
  <2>6. CASE ~Active(l.s)
    <3>1. Goto(t, Return(l)) /\ sess' = sess
      BY <1>10, <2>6, ZenonT(60) DEF InvalidateStore
    <3>2. ASSUME NEW s \in Session, s = l.s PROVE Served(t, s)
      BY <2>6, <3>1, <3>2, SMTT(30) DEF Served, Active
    <3>3. \A s \in Session : Pending(l, s) => Pending(Return(l), s) \/ s = l.s
      BY <2>1, <2>4, ZenonT(60) DEF Pending
    <3> QED BY <1>3, <2>4, <3>1, <3>2, <3>3, ZenonT(60)
  <2> QED BY <2>5, <2>6, SMTT(30)
<1> QED BY <1>4, <1>5, <1>6, <1>7, <1>8, <1>9, <1>10, SMTT(30)

\* The steps of a revocation, which take, hold and release guardMu.
LEMMA RevokeSteps ==
  ASSUME TypeInv, ControlInv, NEW t \in Operators,
         \/ RevokeGuard(t) \/ RevokeMap(t) \/ RevokeEvict(t) \/ RevokeGeneration(t)
         \/ MarkRevoked(t) \/ RevokeUntrack(t) \/ RevokeUndo(t)
  PROVE  ThreadStep(t)
<1> DEFINE l == th[t]
           Locked == LockPC \ {"releaseGuard"}
<1>1. t \in Thread /\ l \in Locals /\ Control(l)
  BY SMTT(30) DEF TypeInv, TypeOK, Thread, ControlInv
<1>2. fresh' \subseteq fresh \cup {t} /\ l.pc \in {"revokeGuard"} \cup Locked
  BY ZenonT(60) DEF RevokeGuard, RevokeMap, RevokeEvict, RevokeGeneration, MarkRevoked,
         RevokeUntrack, RevokeUndo, Bump, LockPC
<1>3. l.op # "add" /\ \A s \in Session : ~Pending(l, s)
  BY <1>1, <1>2, ZenonT(60) DEF Control, Pending
<1>4. ASSUME NEW m, Goto(t, m), m.pc \in Locked, m.op = l.op,
             m.gen \in {generation, l.gen},
             \/ l.pc \in LockPC /\ guardMu' = guardMu
             \/ guardMu = None /\ guardMu' = t
      PROVE  ThreadStep(t)
  <2>1. Control(m) /\ m.pc # "publish"
    BY <1>3, <1>4, ZenonT(60) DEF Control, LockPC
  <2>2. Moves(t, m)
    BY <1>3, <1>4, <2>1, ZenonT(60) DEF Moves
  <2> QED BY <1>1, <1>2, <1>4, <2>2, StepFromMoves, ZenonT(60)
<1>5. ASSUME Goto(t, Idle),
             guardMu' = guardMu \/ l.pc \in LockPC
      PROVE  ThreadStep(t)
  <2>1. Moves(t, Idle)
    BY <1>3, <1>5, IdleControl, Zenon DEF Moves, LockPC
  <2> QED BY <1>1, <1>2, <1>5, <2>1, StepFromMoves, ZenonT(60)
<1>6. ASSUME NEW pc \in Locked, NEW old, Goto(t, [l EXCEPT !.pc = pc, !.old = old]),
             \/ l.pc \in LockPC /\ guardMu' = guardMu
             \/ guardMu = None /\ guardMu' = t
      PROVE  ThreadStep(t)
  <2> DEFINE m == [l EXCEPT !.pc = pc, !.old = old]
  <2>1. m.pc = pc /\ m.op = l.op /\ m.gen = l.gen
    <3> HIDE DEF l
    <3> QED BY <1>1 DEF Locals
  <2>2. Goto(t, m)
    BY <1>6
  <2> HIDE DEF m, Locked
  <2> QED BY <1>4, <1>6, <2>1, <2>2
<1>15. ASSUME NEW pc \in Locked, Goto(t, [l EXCEPT !.pc = pc]),
             \/ l.pc \in LockPC /\ guardMu' = guardMu
             \/ guardMu = None /\ guardMu' = t
      PROVE  ThreadStep(t)
  <2> DEFINE m == [l EXCEPT !.pc = pc]
  <2>1. m.pc = pc /\ m.op = l.op /\ m.gen = l.gen
    <3> HIDE DEF l
    <3> QED BY <1>1 DEF Locals
  <2>2. Goto(t, m)
    BY <1>15
  <2> HIDE DEF m, Locked
  <2> QED BY <1>4, <1>15, <2>1, <2>2
<1>7. /\ "revokeMap" \in Locked /\ "revokeGen" \in Locked /\ "revokeEvict" \in Locked
      /\ "markRevoked" \in Locked /\ "untrack" \in Locked /\ "undoGuard" \in Locked
      /\ Locked \subseteq LockPC
  BY DEF LockPC
<1>8. CASE RevokeGuard(t)
  <2>1. \/ Goto(t, [l EXCEPT !.pc = "revokeMap"]) /\ guardMu = None /\ guardMu' = t
        \/ Goto(t, Idle) /\ guardMu' = guardMu
    BY <1>8, SMTT(30) DEF RevokeGuard
  <2> HIDE DEF Locked
  <2> QED BY <1>5, <1>7, <1>15, <2>1
<1>9. CASE RevokeMap(t)
  <2>1. /\ l.pc = "revokeMap" /\ guardMu' = guardMu
        /\ \/ Goto(t, [l EXCEPT !.pc = "revokeGen"])
           \/ \E old \in Session \cup {None} :
                Goto(t, [l EXCEPT !.pc = "revokeEvict", !.old = old])
    BY <1>9, ZenonT(60) DEF RevokeMap, TypeInv, TypeOK
  <2> HIDE DEF Locked
  <2> QED BY <1>6, <1>7, <1>15, <2>1, ZenonT(60)
<1>10. CASE RevokeEvict(t)
  <2>1. /\ l.pc = "revokeEvict" /\ guardMu' = guardMu
        /\ Goto(t, [l EXCEPT !.pc = "revokeGen", !.old = None])
    BY <1>10, SMTT(30) DEF RevokeEvict, revoking
  <2> HIDE DEF Locked
  <2> QED BY <1>6, <1>7, <2>1, Zenon
<1>11. CASE RevokeGeneration(t)
  <2> DEFINE m == [l EXCEPT !.pc = "markRevoked", !.gen = generation]
  <2>1. l.pc = "revokeGen" /\ guardMu' = guardMu /\ Goto(t, m)
    BY <1>11 DEF RevokeGeneration, revoking
  <2>2. m.pc = "markRevoked" /\ m.op = l.op /\ m.gen = generation
    <3> HIDE DEF l
    <3> QED BY <1>1 DEF Locals
  <2> HIDE DEF m, Locked
  <2> QED BY <1>4, <1>7, <2>1, <2>2
<1>12. CASE MarkRevoked(t)
  <2>1. /\ l.pc = "markRevoked"
        /\ Goto(t, Idle) \/ (Goto(t, [l EXCEPT !.pc = "untrack"]) /\ guardMu' = guardMu)
    BY <1>12 DEF MarkRevoked
  <2> HIDE DEF Locked
  <2> QED BY <1>5, <1>7, <1>15, <2>1
<1>13. CASE RevokeUntrack(t)
  <2>1. /\ l.pc = "untrack" /\ guardMu' = guardMu
        /\ Goto(t, [l EXCEPT !.pc = "undoGuard"])
    BY <1>13 DEF RevokeUntrack
  <2> HIDE DEF Locked
  <2> QED BY <1>7, <1>15, <2>1
<1>14. CASE RevokeUndo(t)
  <2>1. l.pc = "undoGuard" /\ Goto(t, Idle)
    BY <1>14, SMTT(30) DEF RevokeUndo
  <2> QED BY <1>5, <1>7, <2>1, SMTT(30)
<1> QED BY <1>8, <1>9, <1>10, <1>11, <1>12, <1>13, <1>14, SMTT(30)

\* Every step is one thread's, or none's.
LEMMA ThreadSteps ==
  ASSUME TypeInv, ControlInv, [Next]_vars
  PROVE  \/ \E t \in Thread : ThreadStep(t)
         \/ UNCHANGED <<th, fresh, sess, blocks, guardMu, kRevoked, program, generation>>
<1>1. CASE ApplierStep
  BY <1>1, ApplierSteps, EvaluationSteps, ZenonT(60) DEF ApplierStep, Thread
<1>2. CASE ActivatorStep
  BY <1>2, ActivatorSteps, EvaluationSteps, SMTT(30) DEF ActivatorStep, Thread
<1>3. ASSUME NEW t \in Operators, OperatorStep(t)
      PROVE  ThreadStep(t)
  BY <1>3, BlockSteps, RevokeSteps, EvaluationSteps, ZenonT(60) DEF OperatorStep, Thread
<1>4. ASSUME NEW s \in Session, NEW live \in BOOLEAN, Observe(s, live)
      PROVE  ThreadStep(Applier)
  BY <1>4, ApplierSteps, SMTT(30)
<1>5. ASSUME NEW S \in SUBSET Session, Close(S)
      PROVE  ThreadStep(Applier)
  BY <1>5, ApplierSteps, ZenonT(60)
<1>6. CASE UNCHANGED vars
           \/ \E src \in Source : EntryTimeout(src) \/ KernelTimeout(src)
  BY <1>6 DEF vars, EntryTimeout, KernelTimeout, policy, blockMap, revoking, kernel
<1> QED
  BY <1>1, <1>2, <1>3, <1>4, <1>5, <1>6, ActivatorSteps, IssueSteps, ZenonT(60) DEF Next, Thread

\* Control holds of the stepping thread by its step, of the others as before.
LEMMA ControlStep == TypeInv /\ ControlInv /\ [Next]_vars => ControlInv'
<1> SUFFICES ASSUME TypeInv, ControlInv, [Next]_vars PROVE ControlInv'
  OBVIOUS
<1>1. CASE UNCHANGED th
  BY <1>1 DEF ControlInv
<1>2. ASSUME NEW t \in Thread, ThreadStep(t) PROVE ControlInv'
  <2>1. ASSUME NEW u \in Thread PROVE Control(th'[u])
    BY <1>2 DEF ThreadStep, Moves, ControlInv
  <2> QED BY <2>1, SMTT(30) DEF ControlInv
<1> QED BY <1>1, <1>2, ThreadSteps

-----------------------------------------------------------------------------
(***************************************************************************)
(* The life of a session, and of a block entry.                            *)
(***************************************************************************)
\* A session is created, possibly revoked while active, and closed; no
\* evaluator has a snapshot of a session that is being created.
LifeStep(s) ==
  \/ /\ sess'[s].st = sess[s].st
     /\ \/ sess'[s].revoked = sess[s].revoked
        \/ /\ Active(s) /\ sess'[s].revoked
           /\ \E t \in Operators : th[t].pc = "markRevoked"
  \/ /\ sess'[s].st = "closed" /\ ~sess'[s].revoked
     /\ \E S \in SUBSET Session : s \in S /\ Close(S)
  \/ /\ sess[s].st = "unseen" /\ sess'[s].st = "active"
     /\ sess'[s].revoked = sess[s].revoked /\ sess'[s].dec = sess[s].dec
     /\ fresh' \subseteq {Applier} \cup {u \in fresh : th[u].s # s}
     /\ th'[Applier].pc = "program"
     /\ \A u \in Thread \ {Applier} : th'[u] = th[u]

\* What the store's writes leave of a record.
LEMMA RecordFields ==
  ASSUME NEW r \in SessionRecord, NEW g \in Nat, NEW d
  PROVE  /\ Invalidated(r, g).st = r.st /\ Invalidated(r, g).revoked = r.revoked
         /\ Decided(r, g, d).st = r.st /\ Decided(r, g, d).revoked = r.revoked
         /\ Unavailable(r, g).st = r.st /\ Unavailable(r, g).revoked = r.revoked
         /\ Revoked(r, g).st = r.st /\ Revoked(r, g).revoked
BY DEF Invalidated, Decided, Unavailable, Revoked, SessionRecord

\* Every write to a session is a step of its life.
LEMMA LifeSteps ==
  ASSUME TypeInv, [Next]_vars, NEW s \in Session
  PROVE  LifeStep(s)
<1>1. sess[s] \in SessionRecord /\ sess \in [Session -> SessionRecord]
  BY DEF TypeInv, TypeOK
<1>2. generation \in Nat /\ \A t \in Thread : th[t].gen \in Nat
  BY SMTT(30) DEF TypeInv, TypeOK, Locals
<1>3. CASE sess' = sess
  BY <1>3 DEF LifeStep
<1>4. ASSUME NEW x \in Session, NEW live \in BOOLEAN, Observe(x, live)
      PROVE  LifeStep(s)
  <2>1. PICK nat, m :
          /\ sess' = [sess EXCEPT ![x] = [sess[x] EXCEPT !.st = "active", !.nat = nat]]
          /\ sess[x].st = "unseen" => fresh' = Bump(x) \cup {Applier}
          /\ Goto(Applier, m) /\ m.pc = "program" /\ sess[x].st # "closed"
    <3>1. PICK nat, v, c :
            /\ sess' = [sess EXCEPT ![x] = [sess[x] EXCEPT !.st = "active",
                                                           !.nat = nat]]
            /\ sess[x].st = "unseen" => fresh' = Bump(x) \cup {Applier}
            /\ Goto(Applier, [Idle EXCEPT !.pc = "program", !.op = "observe",
                                !.s = x, !.v = v, !.changed = c, !.live = live])
      BY <1>4, Zenon DEF Observe
    <3> DEFINE m == [Idle EXCEPT !.pc = "program", !.op = "observe", !.s = x,
                                 !.v = v, !.changed = c, !.live = live]
    <3>2. m.pc = "program"
      BY DEF Idle
    <3>3. Goto(Applier, m)
      BY <3>1
    <3> HIDE DEF m
    <3> QED BY <1>4, <3>1, <3>2, <3>3, ZenonT(60) DEF Observe
  <2>2. CASE x # s
    BY <1>1, <2>1, <2>2 DEF LifeStep
  <2>3. CASE x = s
    <3>1. /\ sess'[s].st = "active" /\ sess'[s].revoked = sess[s].revoked
          /\ sess'[s].dec = sess[s].dec
      BY <1>1, <2>1, <2>3 DEF SessionRecord
    <3>2. sess[s].st \in {"unseen", "active"}
      BY <1>1, <2>1, <2>3 DEF SessionRecord
    <3>3. th'[Applier].pc = "program" /\ \A u \in Thread \ {Applier} : th'[u] = th[u]
      BY <2>1 DEF Goto, TypeInv, TypeOK, Thread
    <3>4. Bump(s) \subseteq {u \in fresh : th[u].s # s}
      BY DEF Bump, TypeInv, TypeOK
    <3> QED BY <2>1, <2>3, <3>1, <3>2, <3>3, <3>4 DEF LifeStep
  <2> QED BY <2>2, <2>3, SMTT(30)
<1>5. ASSUME NEW S \in SUBSET Session, Close(S)
      PROVE  LifeStep(s)
  <2>1. sess'[s] = sess[s] \/ (s \in S /\ sess'[s] = [NoSession EXCEPT !.st = "closed"])
    BY <1>5 DEF Close
  <2> QED BY <1>5, <2>1 DEF NoSession, LifeStep
<1>6. CASE SetZones \/ \E cur \in th[Activator].todo : ActivateSetZones(cur)
  <2>1. PICK x, zone : sess' = sess \/ sess' = [sess EXCEPT ![x].zone = zone]
    BY <1>1, <1>6, ZenonT(60) DEF SetZones, ActivateSetZones
  <2> QED BY SMTT(30), <1>1, <2>1 DEF LifeStep, SessionRecord
<1>7. ASSUME NEW x, NEW r, sess' = [sess EXCEPT ![x] = r],
             x \in Session => /\ r.st = sess[x].st
                              /\ r.revoked = sess[x].revoked
      PROVE  LifeStep(s)
  BY <1>1, <1>7, ZenonT(60) DEF LifeStep
<1>8. CASE ActivateInvalidate
  <2>1. sess' = sess \/ sess' = [sess EXCEPT ![th[Activator].s] =
                                   Invalidated(sess[th[Activator].s], generation)]
    BY <1>8 DEF ActivateInvalidate
  <2> QED BY <1>1, <1>2, <1>3, <1>7, <2>1, RecordFields, SMTT(30)
<1>9. ASSUME NEW t \in Thread, Evaluation(t) \/ InvalidateStore(t)
      PROVE  LifeStep(s)
  <2> DEFINE l == th[t]
  <2>1. \/ sess' = sess
        \/ sess' = [sess EXCEPT ![l.s] = Unavailable(sess[l.s], l.gen)]
        \/ sess' = [sess EXCEPT ![l.s] = Decided(sess[l.s], l.gen, Drop)]
        \/ sess' = [sess EXCEPT ![l.s] = Decided(sess[l.s], l.gen, l.dec)]
        \/ sess' = [sess EXCEPT ![l.s] = Invalidated(sess[l.s], l.gen)]
    BY <1>9, Zenon DEF Evaluation, LocalGeneration, MarkEvaluationUnavailable, EvalGet,
       EvalRead, EvalHit, SetBlockedDecision, SetDecisionIfCurrent, PublishDecision,
       InvalidateStore
  <2>2. l.s \in Session => sess[l.s] \in SessionRecord
    BY <1>1
  <2>3. l.gen \in Nat
    BY <1>2
  <2> DEFINE Same(r) == /\ r.st = sess[l.s].st
                        /\ r.revoked = sess[l.s].revoked
  <2>4. l.s \in Session => /\ Same(Unavailable(sess[l.s], l.gen))
                           /\ Same(Decided(sess[l.s], l.gen, Drop))
                           /\ Same(Decided(sess[l.s], l.gen, l.dec))
                           /\ Same(Invalidated(sess[l.s], l.gen))
    BY ZenonT(60), <2>2, <2>3, RecordFields
  <2>5. CASE sess' = sess
    BY <1>3, <2>5
  <2>6. CASE sess' = [sess EXCEPT ![l.s] = Unavailable(sess[l.s], l.gen)]
    BY <1>7, <2>4, <2>6, Zenon
  <2>7. CASE sess' = [sess EXCEPT ![l.s] = Decided(sess[l.s], l.gen, Drop)]
    BY <1>7, <2>4, <2>7, Zenon
  <2>8. CASE sess' = [sess EXCEPT ![l.s] = Decided(sess[l.s], l.gen, l.dec)]
    BY <1>7, <2>4, <2>8, Zenon
  <2>9. CASE sess' = [sess EXCEPT ![l.s] = Invalidated(sess[l.s], l.gen)]
    BY <1>7, <2>4, <2>9, Zenon
  <2> QED BY <2>1, <2>5, <2>6, <2>7, <2>8, <2>9, SMTT(30)
<1>10. ASSUME NEW t \in Operators, MarkRevoked(t)
      PROVE  LifeStep(s)
  <2> DEFINE l == th[t]
  <2>1. /\ l.pc = "markRevoked"
        /\ \/ sess' = sess
           \/ Active(l.s) /\ sess' = [sess EXCEPT ![l.s] = Revoked(sess[l.s], l.gen)]
    BY <1>10 DEF MarkRevoked
  <2>2. \/ sess'[s] = sess[s]
        \/ Active(s) /\ sess'[s] = Revoked(sess[s], l.gen)
    BY <1>1, <2>1
  <2>3. l.gen \in Nat
    BY <1>2 DEF Thread
  <2>4. Revoked(sess[s], l.gen).st = sess[s].st /\ Revoked(sess[s], l.gen).revoked
    BY <1>1, <2>3, RecordFields, Zenon
  <2>5. \E u \in Operators : th[u].pc = "markRevoked"
    BY <2>1
  <2> HIDE DEF l
  <2>6. CASE sess'[s] = sess[s]
    BY <2>6 DEF LifeStep
  <2>7. CASE Active(s) /\ sess'[s] = Revoked(sess[s], l.gen)
    <3>1. sess'[s].st = sess[s].st /\ sess'[s].revoked
      BY <2>4, <2>7, Zenon
    <3> QED BY <2>5, <2>7, <3>1, ZenonT(60) DEF LifeStep
  <2> QED BY <2>2, <2>6, <2>7, Zenon
<1>11. CASE ApplierStep
  BY <1>3, <1>6, <1>9, <1>11, ZenonT(60)
  DEF ApplierStep, ReadProgram, CheckEvaluate, Untrack, ReleaseCheck, ReleaseGuard,
      Thread
<1>12. CASE ActivatorStep
  BY <1>3, <1>6, <1>8, <1>9, <1>12 DEF ActivatorStep, ActivateList, Thread
<1>13. ASSUME NEW t \in Operators, OperatorStep(t)
      PROVE  LifeStep(s)
  BY <1>3, <1>9, <1>10, <1>13, Zenon
  DEF OperatorStep, AddGuardOk, AddGuardFails, RemoveGuard, RemoveEntry, SweepGuard,
      ListSource, InvalidateRead, RevokeGuard, RevokeMap, RevokeEvict,
      RevokeGeneration, RevokeUntrack, RevokeUndo, Thread
<1>14. ASSUME NEW t \in Operators, Issue(t)
      PROVE  LifeStep(s)
  BY <1>3, <1>14
  DEF Issue, Revoke, GateEvaluate, AddBlock, RemoveBlock, Sweep
<1>15. CASE UNCHANGED vars \/ Activate
           \/ \E src \in Source : EntryTimeout(src) \/ KernelTimeout(src)
  BY <1>3, <1>15 DEF vars, Activate, EntryTimeout, KernelTimeout
<1> QED
  BY <1>4, <1>5, <1>11, <1>12, <1>13, <1>14, <1>15 DEF Next

\* An entry of Runtime.blocks is only written by a request that still has to
\* install the kernel guard and to list the sessions of the source.
EntryStep(src) ==
  \/ blocks'[src] \in {blocks[src], None}
  \/ /\ th'[blocks'[src]].op = "add" /\ th'[blocks'[src]].src = src
     /\ th'[blocks'[src]].pc = "addGuard"

\* Every step keeps the entry, withdraws it or belongs to such a request.
LEMMA EntrySteps ==
  ASSUME TypeInv, [Next]_vars, NEW src \in Source
  PROVE  EntryStep(src)
<1>1. CASE blocks' = blocks
  BY <1>1, SMTT(30) DEF EntryStep
<1>2. ASSUME NEW t \in Operators, NEW x \in Source, AddBlock(t, x), x = src
      PROVE  EntryStep(src)
  <2> DEFINE m == [Idle EXCEPT !.pc = "addGuard", !.op = "add", !.src = x]
  <2>1. blocks'[src] = t /\ Goto(t, m)
    BY <1>2 DEF AddBlock, TypeInv, TypeOK
  <2>2. m.pc = "addGuard" /\ m.op = "add" /\ m.src = x
    BY SMTT(30) DEF Idle
  <2> HIDE DEF m
  <2>3. th'[t] = m
    BY <2>1 DEF Goto, TypeInv, TypeOK, Thread
  <2> QED BY <1>2, <2>1, <2>2, <2>3 DEF EntryStep
<1>3. ASSUME NEW t \in Operators, NEW x \in Source, AddBlock(t, x), x # src
      PROVE  EntryStep(src)
  BY <1>3, SMTT(30) DEF EntryStep, AddBlock, TypeInv, TypeOK
<1>4. ASSUME NEW t \in Operators, Issue(t)
      PROVE  EntryStep(src)
  <2>1. CASE Sweep(t)
    BY <2>1, SMTT(30) DEF Sweep, EntryStep
  <2> QED BY <1>1, <1>2, <1>3, <1>4, <2>1, ZenonT(60)
    DEF Issue, Revoke, GateEvaluate, RemoveBlock, blockMap
<1>5. ASSUME NEW t \in Thread, Evaluation(t)
      PROVE  blocks' = blocks
  BY <1>5, ZenonT(60) DEF Evaluation, LocalGeneration, MarkEvaluationUnavailable, EvalGet,
       EvalRead, EvalHit, SetBlockedDecision, SetDecisionIfCurrent, PublishDecision,
       blockMap
<1>6. ASSUME NEW t \in Operators, OperatorStep(t)
      PROVE  EntryStep(src)
  <2>1. blocks'[src] \in {blocks[src], None}
    BY <1>5, <1>6, ZenonT(60)
    DEF OperatorStep, AddGuardOk, AddGuardFails, RemoveGuard, RemoveEntry,
        SweepGuard, ListSource, InvalidateRead, InvalidateStore, RevokeGuard,
        RevokeMap, RevokeEvict, RevokeGeneration, MarkRevoked, RevokeUntrack,
        RevokeUndo, Thread, blockMap, TypeInv, TypeOK
  <2> QED BY <2>1, ZenonT(60) DEF EntryStep
<1>7. CASE ApplierStep \/ ActivatorStep
  BY <1>1, <1>5, <1>7, ZenonT(60)
  DEF ApplierStep, ReadProgram, SetZones, CheckEvaluate, Untrack, ReleaseCheck,
      ReleaseGuard, ActivatorStep, ActivateList, ActivateInvalidate,
      ActivateSetZones, Thread, blockMap
<1>8. ASSUME NEW s \in Session, NEW live \in BOOLEAN, Observe(s, live)
      PROVE  EntryStep(src)
  BY <1>1, <1>8 DEF Observe, blockMap
<1>9. ASSUME NEW S \in SUBSET Session, Close(S)
      PROVE  EntryStep(src)
  BY <1>1, <1>9 DEF Close, blockMap
<1>10. CASE UNCHANGED vars \/ Activate
           \/ \E x \in Source : EntryTimeout(x) \/ KernelTimeout(x)
  BY <1>1, <1>10, SMTT(30) DEF vars, Activate, EntryTimeout, KernelTimeout, blockMap
<1> QED BY <1>4, <1>6, <1>7, <1>8, <1>9, <1>10, SMTT(30) DEF Next

-----------------------------------------------------------------------------
(***************************************************************************)
(* The theorems.                                                           *)
(***************************************************************************)
\* An allow appears on s, or gets ready to, only through an evaluation that has
\* found no block of the source.
LEMMA ExposedStep ==
  ASSUME TypeInv, ControlInv, [Next]_vars, NEW s \in Session, Exposed(s)'
  PROVE  Exposed(s) \/ (blocks[SrcOf[s]] = None /\ blocks' = blocks)
<1>1. CASE sess'[s].dec = Allow
  BY <1>1, SessionSteps, SMTT(30) DEF SessionStep, Exposed
<1>2. ASSUME NEW u \in fresh', th'[u].pc = "publish", th'[u].s = s,
             th'[u].dec = Allow
      PROVE  Exposed(s) \/ (blocks[SrcOf[s]] = None /\ blocks' = blocks)
  <2>1. CASE UNCHANGED <<th, fresh>>
    BY <1>2, <2>1, SMTT(30) DEF Exposed
  <2>2. ASSUME NEW t \in Thread, ThreadStep(t), u # t
        PROVE  Exposed(s)
    <3>1. u \in fresh /\ u \in Thread
      BY <1>2, <2>2, ZenonT(60) DEF ThreadStep, TypeInv, TypeOK
    <3>2. th'[u] = th[u]
      BY <2>2, <3>1, ZenonT(60) DEF ThreadStep
    <3> QED BY <1>2, <3>1, <3>2, SMTT(30) DEF Exposed
  <2>3. ASSUME NEW t \in Thread, ThreadStep(t), u = t
        PROVE  blocks[SrcOf[s]] = None /\ blocks' = blocks
    BY <1>2, <2>3, ZenonT(60) DEF ThreadStep, Moves, Evaluated
  <2> QED BY <2>1, <2>2, <2>3, ThreadSteps, ZenonT(60)
<1> QED BY <1>1, <1>2, SMTT(30) DEF Exposed

\* The step of the block invariant.
LEMMA BlockStep == TypeInv /\ ControlInv /\ BlockInv /\ [Next]_vars => BlockInv'
<1> SUFFICES ASSUME TypeInv, ControlInv, BlockInv, [Next]_vars, NEW s \in Session
             PROVE  /\ sess'[s].st = "unseen" => sess'[s].dec # Allow
                    /\ Active(s)' /\ blocks'[SrcOf[s]] # None /\ Exposed(s)'
                         => Pending(th'[blocks'[SrcOf[s]]], s)
  BY Zenon DEF BlockInv
<1>1. SrcOf[s] \in Source
  BY SessionAssumption
<1>2. LifeStep(s) /\ SessionStep(s) /\ EntryStep(SrcOf[s])
  BY <1>1, LifeSteps, SessionSteps, EntrySteps, SMTT(30)
<1>3. ASSUME sess'[s].st = "unseen" PROVE sess'[s].dec # Allow
  <2>1. sess[s].st = "unseen"
    BY <1>2, <1>3, ZenonT(60) DEF LifeStep
  <2>2. sess[s].dec # Allow
    BY <2>1, ZenonT(60) DEF BlockInv
  <2> QED BY <1>2, <2>1, <2>2, SMTT(30) DEF SessionStep, Active
<1>4. ASSUME Active(s)', blocks'[SrcOf[s]] # None, Exposed(s)'
      PROVE  Pending(th'[blocks'[SrcOf[s]]], s)
  <2> DEFINE b == blocks[SrcOf[s]]
  <2>1. CASE blocks'[SrcOf[s]] # b
    BY <1>2, <1>4, <2>1 DEF EntryStep, Pending
  <2>2. CASE blocks'[SrcOf[s]] = b
    <3>1. Exposed(s) /\ b # None
      BY <1>4, <2>2, ExposedStep
    <3>2. Active(s)
      <4>1. ASSUME ~Active(s) PROVE FALSE
        <5>1. /\ sess[s].st = "unseen" /\ sess'[s].dec = sess[s].dec
              /\ fresh' \subseteq {Applier} \cup {u \in fresh : th[u].s # s}
              /\ th'[Applier].pc = "program"
              /\ \A u \in Thread \ {Applier} : th'[u] = th[u]
          BY <1>2, <1>4, <4>1, SMTT(30) DEF LifeStep, Active
        <5>2. sess'[s].dec # Allow
          BY <5>1, ZenonT(60) DEF BlockInv
        <5>3. ASSUME NEW u \in fresh', th'[u].pc = "publish" PROVE th'[u].s # s
          BY <5>1, <5>3, ZenonT(60) DEF TypeInv, TypeOK
        <5> QED BY <1>4, <5>2, <5>3, SMTT(30) DEF Exposed
      <4> QED BY <4>1
    <3>3. Pending(th[b], s)
      BY <3>1, <3>2, ZenonT(60) DEF BlockInv
    <3>4. b \in Operators /\ b \in Thread
      BY <1>1, <3>1, SMTT(30) DEF TypeInv, TypeOK, Thread
    <3>5. CASE UNCHANGED th
      BY <2>2, <3>3, <3>5, SMTT(30)
    <3>6. ASSUME NEW t \in Thread, ThreadStep(t), t # b
          PROVE  Pending(th'[b], s)
      BY <3>3, <3>4, <3>6, ZenonT(60) DEF ThreadStep
    <3>7. ASSUME NEW t \in Thread, ThreadStep(t), t = b
          PROVE  Pending(th'[b], s)
      <4>1. Pending(th'[t], s) \/ Served(t, s)
        BY <3>3, <3>4, <3>7, ZenonT(60) DEF ThreadStep, Moves
      <4>2. ~Served(t, s)
        BY <1>4, <2>2, <3>1, <3>7, Zenon DEF Served
      <4> QED BY <3>7, <4>1, <4>2, ZenonT(60)
    <3> QED BY <2>2, <3>5, <3>6, <3>7, ThreadSteps, ZenonT(60)
  <2> QED BY <2>1, <2>2, SMTT(30)
<1> QED BY <1>3, <1>4, SMTT(30)

\* Threads start idle, and no session has a decision.
LEMMA InitInvariants == Init => ControlInv /\ BlockInv /\ GenerationInv /\ GuardInv
<1> SUFFICES ASSUME Init PROVE ControlInv /\ BlockInv /\ GenerationInv /\ GuardInv
  OBVIOUS
<1>1. \A t \in Thread : th[t] = Idle
  BY SMTT(30) DEF Init
<1>2. \A s \in Session :
        sess[s].dec # Allow /\ sess[s].gen = 0 /\ ~sess[s].revoked
  BY PolicyAssumption DEF Init, NoSession
<1>3. fresh = {} /\ generation = 0 /\ Applier \in Thread
  BY DEF Init, Thread
<1>4. Idle.pc = "idle" /\ Idle.gen = 0 /\ Control(Idle)
  BY IdleControl
<1>5. ControlInv
  BY <1>1, <1>4, SMTT(30) DEF ControlInv
<1>6. BlockInv
  BY <1>2, <1>3, SMTT(30) DEF BlockInv, Exposed
<1>7. \A t \in Thread : th[t].pc = "idle" /\ th[t].gen = 0
  BY <1>1, <1>4, SMTT(30)
<1>8. GenerationInv
  <2>1. 0 <= generation /\ \A t \in Thread : th[t].pc # "publish"
    BY SMTT(30), <1>3, <1>7
  <2>2. /\ \A s \in Session : sess[s].gen <= generation
        /\ \A t \in Thread : th[t].gen <= generation
    BY SMTT(30), <1>2, <1>7, <2>1
  <2> QED BY <2>1, <2>2, ZenonT(60) DEF GenerationInv
<1>9. GuardInv
  <2>1. \A t \in Thread : th[t].pc \notin LockPC
    BY <1>7 DEF LockPC
  <2>2. th[Applier].pc # "releaseGuard"
    BY <1>3, <1>7
  <2> QED BY <1>2, <2>1, <2>2, SMTT(30) DEF GuardInv
<1> QED BY <1>5, <1>6, <1>8, <1>9

\* Once the request that wrote a block has been served, no session of the source
\* shows an allow decision while the block stays: an evaluator that read the
\* policy before the block was written holds a snapshot whose Revision the
\* request's Invalidate has made stale.
THEOREM BlockSafe == Spec => []BlockOverridesAllow
<1>1. BlockInv => BlockOverridesAllow
  BY ZenonT(60) DEF BlockInv, BlockOverridesAllow, AddUnderway, Pending, Exposed
<1> QED
  BY <1>1, InitType, StepType, InitInvariants, ControlStep, BlockStep, PTL DEF Spec

\* Only an activation writes the program, and it advances the generation.
LEMMA PolicySteps ==
  ASSUME [Next]_vars
  PROVE  \/ program' = program /\ generation' = generation
         \/ generation' = generation + 1
<1>1. CASE program' = program /\ generation' = generation
  BY <1>1, SMTT(30)
<1>2. ASSUME NEW t, Evaluation(t)
      PROVE  program' = program /\ generation' = generation
  BY <1>2, ZenonT(60) DEF Evaluation, LocalGeneration, MarkEvaluationUnavailable, EvalGet,
       EvalRead, EvalHit, SetBlockedDecision, SetDecisionIfCurrent, PublishDecision,
       policy
<1>3. CASE ApplierStep \/ ActivatorStep
  BY <1>1, <1>2, <1>3, ZenonT(60)
  DEF ApplierStep, ReadProgram, SetZones, CheckEvaluate, Untrack, ReleaseCheck,
      ReleaseGuard, ActivatorStep, ActivateList, ActivateInvalidate,
      ActivateSetZones, policy
<1>4. ASSUME NEW t \in Operators, OperatorStep(t)
      PROVE  program' = program /\ generation' = generation
  BY <1>2, <1>4, ZenonT(60)
  DEF OperatorStep, AddGuardOk, AddGuardFails, RemoveGuard, RemoveEntry, SweepGuard,
      ListSource, InvalidateRead, InvalidateStore, RevokeGuard, RevokeMap,
      RevokeEvict, RevokeGeneration, MarkRevoked, RevokeUntrack, RevokeUndo, policy
<1>5. ASSUME NEW t \in Operators, Issue(t)
      PROVE  program' = program /\ generation' = generation
  BY <1>5, Zenon DEF Issue, Revoke, GateEvaluate, AddBlock, RemoveBlock, Sweep, policy
<1>6. CASE Activate
  BY <1>6 DEF Activate
<1>7. ASSUME NEW s \in Session, NEW live \in BOOLEAN, Observe(s, live)
      PROVE  program' = program /\ generation' = generation
  BY <1>7 DEF Observe, policy
<1>8. ASSUME NEW S \in SUBSET Session, Close(S)
      PROVE  program' = program /\ generation' = generation
  BY <1>8, SMTT(30) DEF Close, policy
<1>9. CASE UNCHANGED vars
           \/ \E src \in Source : EntryTimeout(src) \/ KernelTimeout(src)
  BY <1>1, <1>9, SMTT(30) DEF vars, EntryTimeout, KernelTimeout, policy
<1> QED BY <1>3, <1>4, <1>5, <1>6, <1>7, <1>8, <1>9, SMTT(30) DEF Next

\* The step of the generation invariant.
LEMMA GenerationStep ==
  /\ TypeInv /\ ControlInv /\ GenerationInv /\ AllowFromCurrentProgram
  /\ [Next]_vars
  => GenerationInv' /\ AllowFromCurrentProgram'
<1> SUFFICES ASSUME TypeInv, ControlInv, GenerationInv, AllowFromCurrentProgram,
                    [Next]_vars
             PROVE  GenerationInv' /\ AllowFromCurrentProgram'
  OBVIOUS
<1>1. /\ generation \in Nat /\ \A t \in Thread : th[t].gen \in Nat
      /\ \A s \in Session : sess[s].gen \in Nat
  BY SMTT(30) DEF TypeInv, TypeOK, Locals, SessionRecord
<1>2. ASSUME NEW g \in Generations PROVE g \in Nat /\ g <= generation
  BY SMTT(30), <1>1, <1>2 DEF Generations, GenerationInv
<1>3. ASSUME NEW s \in Session
      PROVE  sess'[s].gen \in Nat /\ sess'[s].gen <= generation
  <2>1. CASE sess'[s].gen = sess[s].gen
    BY <1>1, <2>1, ZenonT(60) DEF GenerationInv
  <2>2. ASSUME NEW t \in fresh, sess'[s].gen = th[t].gen
        PROVE  sess'[s].gen \in Generations
    BY <2>2, ZenonT(60) DEF Generations, TypeInv, TypeOK
  <2>3. SessionStep(s)
    BY SessionSteps, SMTT(30)
  <2> QED BY <1>2, <2>1, <2>2, <2>3, ZenonT(60) DEF SessionStep
<1>4. ASSUME NEW u \in Thread
      PROVE  /\ th'[u].gen \in Nat /\ th'[u].gen <= generation
             /\ \/ th'[u] = th[u]
                \/ th'[u].pc = "publish" => Evaluated(th'[u])
  <2>1. CASE th'[u] = th[u]
    BY <1>1, <2>1, ZenonT(60) DEF GenerationInv
  <2>2. ASSUME NEW t \in Thread, ThreadStep(t), u = t
        PROVE  /\ th'[u].gen \in Generations
               /\ th'[u].pc = "publish" => Evaluated(th'[u])
    BY <2>2, ZenonT(60) DEF ThreadStep, Moves, Generations
  <2>3. ASSUME NEW t \in Thread, ThreadStep(t), u # t
        PROVE  th'[u] = th[u]
    BY <2>3 DEF ThreadStep
  <2> QED BY <1>2, <2>1, <2>2, <2>3, ThreadSteps, ZenonT(60)
<1>5. CASE generation' = generation + 1
  <2>1. \A s \in Session : sess'[s].gen < generation'
    BY SMTT(30), <1>1, <1>3, <1>5
  <2>2. \A t \in Thread : th'[t].gen < generation'
    BY SMTT(30), <1>1, <1>4, <1>5
  <2>3. generation' \in Nat /\ \A t \in Thread : th'[t].gen \in Nat
    BY SMTT(30), <1>1, <1>4, <1>5
  <2>4. \A s \in Session : sess'[s].gen \in Nat
    BY <1>3, SMTT(30)
  <2>5. GenerationInv'
    BY SMTT(30), <2>1, <2>2, <2>3, <2>4 DEF GenerationInv
  <2>6. AllowFromCurrentProgram'
    BY SMTT(30), <2>1, <2>3, <2>4 DEF AllowFromCurrentProgram
  <2> QED BY <2>5, <2>6, SMTT(30)
<1>6. CASE program' = program /\ generation' = generation
  <2>1. \A s : CanAllow(s)' <=> CanAllow(s)
    BY <1>6, SMTT(30) DEF CanAllow
  <2>2. ASSUME NEW t \in Thread, th'[t].pc = "publish", th'[t].gen = generation,
               th'[t].dec = Allow
        PROVE  CanAllow(th'[t].s)
    <3>1. CASE th'[t] = th[t]
      BY <2>2, <3>1, SMTT(30) DEF GenerationInv
    <3>2. CASE Evaluated(th'[t])
      BY <2>2, <3>2, SMTT(30) DEF Evaluated
    <3> QED BY <1>4, <2>2, <3>1, <3>2, ZenonT(60)
  <2>3. GenerationInv'
    <3>1. ASSUME NEW t \in Thread, th'[t].pc = "publish",
                 th'[t].gen = generation', th'[t].dec = Allow
          PROVE  CanAllow(th[t].s)'
      BY <1>6, <2>2, <3>1, ZenonT(60) DEF CanAllow
    <3> QED BY <1>3, <1>4, <1>6, <3>1, ZenonT(60) DEF GenerationInv
  <2>4. ASSUME NEW s \in Session, sess'[s].cache = "CACHED",
               sess'[s].gen = generation, sess'[s].dec = Allow
        PROVE  CanAllow(s)
    <3>1. SessionStep(s)
      BY SessionSteps
    <3>2. ASSUME NEW t \in fresh, th[t].pc = "publish", th[t].s = s,
                 sess'[s].dec = th[t].dec, sess'[s].gen = th[t].gen
          PROVE  CanAllow(s)
      BY <2>4, <3>2, ZenonT(60) DEF GenerationInv, TypeInv, TypeOK
    <3>3. CASE /\ sess'[s].dec = sess[s].dec /\ sess'[s].gen = sess[s].gen
               /\ sess'[s].cache = sess[s].cache
      BY <2>4, <3>3, SMTT(30) DEF AllowFromCurrentProgram, CanAllow
    <3> QED BY <2>4, <3>1, <3>2, <3>3, ZenonT(60) DEF SessionStep
  <2>5. AllowFromCurrentProgram'
    BY <1>6, <2>4, ZenonT(60) DEF AllowFromCurrentProgram, CanAllow
  <2> QED BY <2>3, <2>5
<1> QED BY <1>5, <1>6, PolicySteps

\* An allow decision that carries the current generation was computed from the
\* current program, however many activations overtake however many evaluators.
THEOREM GenerationSafe == Spec => []AllowFromCurrentProgram
<1>1. Init => AllowFromCurrentProgram
  BY SMTT(30), PolicyAssumption DEF Init, AllowFromCurrentProgram, NoSession
<1> QED
  BY <1>1, InitType, StepType, InitInvariants, ControlStep, GenerationStep, PTL
  DEF Spec

\* The step of the guard invariant: whoever is at a step of LockPC holds guardMu.
LEMMA GuardStep == TypeInv /\ ControlInv /\ GuardInv /\ [Next]_vars => GuardInv'
<1> SUFFICES ASSUME TypeInv, ControlInv, GuardInv, [Next]_vars PROVE GuardInv'
  OBVIOUS
<1>1. ASSUME NEW u \in Thread, th'[u].pc \in LockPC
      PROVE  guardMu' = u
  <2>1. CASE UNCHANGED <<th, guardMu>>
    BY <1>1, <2>1, SMTT(30) DEF GuardInv
  <2>2. ASSUME NEW t \in Thread, ThreadStep(t), t = u
        PROVE  guardMu' = u
    BY <1>1, <2>2, ZenonT(60) DEF ThreadStep, Moves, GuardInv
  <2>3. ASSUME NEW t \in Thread, ThreadStep(t), t # u
        PROVE  guardMu' = u
    <3>1. guardMu = u /\ u # None
      BY <1>1, <2>3, ThreadAssumption, ZenonT(60) DEF ThreadStep, GuardInv
    <3> QED BY <2>3, <3>1, ZenonT(60) DEF ThreadStep, Moves, GuardInv
  <2> QED BY <2>1, <2>2, <2>3, ThreadSteps, SMTT(30)
<1>2. ASSUME NEW s \in Session, sess'[s].st # "active"
      PROVE  ~sess'[s].revoked
  <2>1. LifeStep(s)
    BY LifeSteps
  <2> QED BY <1>2, <2>1 DEF LifeStep, GuardInv, Active
<1>3. ASSUME th'[Applier].pc = "releaseGuard", NEW s \in Session,
             Active(s)', sess'[s].revoked, CtOf[s] = CtOf[th'[Applier].s]
      PROVE  FALSE
  <2>1. Applier \in Thread /\ Applier \notin Operators
    BY ThreadAssumption, SMTT(30) DEF Thread
  <2>2. CASE th'[Applier] = th[Applier]
    <3>1. guardMu = Applier
      BY <1>3, <2>1, <2>2 DEF GuardInv, LockPC
    <3>2. ASSUME NEW t \in Operators PROVE th[t].pc # "markRevoked"
      BY <2>1, <3>1, SMTT(30) DEF GuardInv, LockPC, Thread
    <3>3. sess[s].revoked /\ Active(s)
      <4>1. LifeStep(s)
        BY LifeSteps
      <4> QED BY <1>3, <3>2, <4>1, ZenonT(60) DEF LifeStep, GuardInv, Active
    <3> QED BY <1>3, <2>2, <3>3, ZenonT(60) DEF GuardInv, HasActiveRevokedConntrackID
  <2>3. ASSUME ThreadStep(Applier) PROVE FALSE
    <3>1. sess' = sess /\ ~HasActiveRevokedConntrackID(CtOf[th'[Applier].s])
      BY <1>3, <2>3, ZenonT(60) DEF ThreadStep, Moves
    <3> QED BY <1>3, <3>1 DEF HasActiveRevokedConntrackID, Active
  <2>4. ASSUME NEW t \in Thread, ThreadStep(t), t # Applier
        PROVE  th'[Applier] = th[Applier]
    BY <2>1, <2>4 DEF ThreadStep
  <2> QED BY <2>2, <2>3, <2>4, ThreadSteps
<1>4. th'[Applier].pc = "releaseGuard" =>
        ~HasActiveRevokedConntrackID(CtOf[th[Applier].s])'
  BY <1>3 DEF HasActiveRevokedConntrackID
<1> QED BY <1>1, <1>2, <1>4, Zenon DEF GuardInv

\* What takes an element from the nft set of revoked identifiers.
LEMMA KernelSteps ==
  ASSUME [Next]_vars
  PROVE  \/ kRevoked \subseteq kRevoked'
         \/ ReleaseGuard
         \/ \E t \in Operators : th[t].pc \in {"revokeEvict", "undoGuard"}
<1> DEFINE G == \/ kRevoked \subseteq kRevoked'
                \/ ReleaseGuard
                \/ \E t \in Operators : th[t].pc \in {"revokeEvict", "undoGuard"}
<1> SUFFICES G
  OBVIOUS
<1>1. CASE kRevoked' = kRevoked
  BY <1>1, ZenonT(60)
<1>2. ASSUME NEW t, Evaluation(t)
      PROVE  kRevoked' = kRevoked
  BY <1>2, ZenonT(60) DEF Evaluation, LocalGeneration, MarkEvaluationUnavailable, EvalGet,
       EvalRead, EvalHit, SetBlockedDecision, SetDecisionIfCurrent, PublishDecision,
       kernel
<1>3. CASE ApplierStep \/ ActivatorStep
  BY <1>1, <1>2, <1>3, ZenonT(60)
  DEF ApplierStep, ReadProgram, SetZones, CheckEvaluate, Untrack, ReleaseCheck,
      ActivatorStep, ActivateList, ActivateInvalidate, ActivateSetZones, kernel
<1>4. ASSUME NEW t \in Operators, OperatorStep(t)
      PROVE  G
  <2>1. CASE RevokeGuard(t) \/ RevokeEvict(t) \/ RevokeUndo(t)
    BY <2>1, SMTT(30) DEF RevokeGuard, RevokeEvict, RevokeUndo
  <2> QED
    BY <1>1, <1>2, <1>4, <2>1, ZenonT(60)
    DEF OperatorStep, AddGuardOk, AddGuardFails, RemoveGuard, RemoveEntry,
        SweepGuard, ListSource, InvalidateRead, InvalidateStore, RevokeMap,
        RevokeGeneration, MarkRevoked, RevokeUntrack, kernel
<1>5. ASSUME NEW t \in Operators, Issue(t)
      PROVE  kRevoked' = kRevoked
  BY <1>5, Zenon DEF Issue, Revoke, GateEvaluate, AddBlock, RemoveBlock, Sweep, kernel
<1>6. ASSUME NEW s \in Session, NEW live \in BOOLEAN, Observe(s, live)
      PROVE  kRevoked' = kRevoked
  BY <1>6 DEF Observe, kernel
<1>7. ASSUME NEW S \in SUBSET Session, Close(S)
      PROVE  kRevoked' = kRevoked
  BY <1>7 DEF Close, kernel
<1>8. CASE UNCHANGED vars \/ Activate
           \/ \E src \in Source : EntryTimeout(src) \/ KernelTimeout(src)
  BY <1>1, <1>8 DEF vars, Activate, EntryTimeout, KernelTimeout, kernel
<1> HIDE DEF G
<1> QED BY <1>1, <1>3, <1>4, <1>5, <1>6, <1>7, <1>8, SMTT(30) DEF Next

\* The cleanup of a closed session never removes the kernel guard of an active
\* revoked session that has got the same conntrack identifier: the check and the
\* deletion are one section of guardMu, and so is the marking of a new owner.
THEOREM GuardSafe == Spec => GuardOutlivesClose
<1>1. GuardInv /\ [Next]_vars => GuardKept
  <2> SUFFICES ASSUME GuardInv, [Next]_vars, NEW s \in Session, Active(s),
                      sess[s].revoked, CtOf[s] \in kRevoked, CtOf[s] \notin kRevoked'
               PROVE  \E t \in Operators : th[t].pc \in {"revokeEvict", "undoGuard"}
    BY SMTT(30) DEF GuardKept
  <2>1. ~ReleaseGuard
    BY Zenon DEF ReleaseGuard, GuardInv, HasActiveRevokedConntrackID
  <2> QED BY <2>1, KernelSteps, SMTT(30)
<1> QED
  BY <1>1, InitType, StepType, InitInvariants, ControlStep, GuardStep, PTL
  DEF Spec, GuardOutlivesClose
=============================================================================
