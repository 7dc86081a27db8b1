------------------------- MODULE SessionRuntimeTypes -------------------------
(***************************************************************************)
(* Type correctness of SessionRuntime, for any number of sessions,         *)
(* sources, programs, operators and requests.                              *)
(***************************************************************************)
EXTENDS SessionRuntime, TLAPS

(***************************************************************************)
(* The inductive invariant.  TypeOK alone lets a thread be at a step that  *)
(* needs a session or a source without having one.                         *)
(***************************************************************************)
\* The locals of a thread suit the step it is at.
WellFormed(l) ==
  /\ l \in Locals
  /\ l.pc \in {"program", "zones", "check", "localGen", "mark", "get", "read",
               "hit", "setBlocked", "publish", "actInvalidate", "invalidate",
               "release", "releaseGuard", "revokeGuard", "revokeMap",
               "revokeEvict", "revokeGen", "markRevoked", "untrack",
               "undoGuard"} => l.s \in Session
  /\ l.pc \in {"addGuard", "delGuard", "delEntry"} => l.src \in Source

TypeInv == TypeOK /\ \A t \in Thread : WellFormed(th[t])

-----------------------------------------------------------------------------
(***************************************************************************)
(* Locals.                                                                 *)
(***************************************************************************)
\* The record of a session that is not there is a session record.
LEMMA NoSessionType == NoSession \in SessionRecord
BY PolicyAssumption DEF NoSession, SessionRecord, Decision, CacheState

\* A snapshot of a session record is a view.
LEMMA ViewType ==
  ASSUME NEW r \in SessionRecord
  PROVE  View(r) \in SessionView
BY DEF View, SessionRecord, SessionView

\* A program assigns a zone to every session, with or without its NAT tuple.
LEMMA InferZoneType ==
  ASSUME NEW p \in Program, NEW s \in Session, NEW nat \in BOOLEAN
  PROVE  InferZone[p][s][nat] \in Zone
<1>1. InferZone[p] \in [Session -> [BOOLEAN -> Zone]]
  BY PolicyAssumption
<1>2. InferZone[p][s] \in [BOOLEAN -> Zone]
  BY <1>1
<1> QED BY <1>2

\* A program decides every session in every zone.
LEMMA VerdictType ==
  ASSUME NEW p \in Program, NEW s \in Session, NEW nat \in BOOLEAN,
         NEW z \in Zone
  PROVE  Verdict[p][s][nat][z] \in Decision
<1>1. Verdict[p] \in [Session -> [BOOLEAN -> [Zone -> {Allow, Drop}]]]
  BY PolicyAssumption
<1>2. Verdict[p][s] \in [BOOLEAN -> [Zone -> {Allow, Drop}]]
  BY <1>1
<1>3. Verdict[p][s][nat] \in [Zone -> {Allow, Drop}]
  BY <1>2
<1>4. Verdict[p][s][nat][z] \in {Allow, Drop}
  BY <1>3
<1> QED BY <1>4 DEF Decision

\* An idle thread is well formed.
LEMMA IdleType == WellFormed(Idle)
BY SMTT(30), NoSessionType, ViewType, PolicyAssumption
DEF Idle, WellFormed, Locals, PC, Op, Decision

\* A thread that starts a request has the locals of an idle one.
LEMMA StartType ==
  ASSUME NEW pc \in PC, NEW op \in Op
  PROVE  /\ [Idle EXCEPT !.pc = pc, !.op = op] \in Locals
         /\ [Idle EXCEPT !.pc = pc, !.op = op].pc = pc
<1>1. Idle \in Locals
  BY IdleType DEF WellFormed
<1> QED BY Zenon, <1>1 DEF Locals

\* What survives a call.
LEMMA FrameType ==
  ASSUME NEW l \in Locals, NEW pc \in PC, NEW s \in Session \cup {None}
  PROVE  /\ Frame(l, pc, s) \in Locals
         /\ Frame(l, pc, s).pc = pc /\ Frame(l, pc, s).s = s
         /\ Frame(l, pc, s).op = l.op /\ Frame(l, pc, s).src = l.src
         /\ Frame(l, pc, s).todo = l.todo /\ Frame(l, pc, s).srcs = l.srcs
         /\ Frame(l, pc, s).gen = 0 /\ Frame(l, pc, s).retry = 0
BY IdleType DEF Frame, WellFormed, Locals, Idle

\* Return leads to an idle thread or to the next turn of a loop.
LEMMA ReturnType ==
  ASSUME NEW l \in Locals
  PROVE  /\ WellFormed(Return(l))
         /\ Return(l).todo = l.todo /\ Return(l).srcs = l.srcs
         /\ l.todo # {} \/ l.srcs # {} =>
              Return(l).op = l.op /\ Return(l).src = l.src
         /\ Return(l).pc \in {"idle", "loop", "list"}
         /\ Return(l).pc = "idle" => l.todo = {} /\ l.srcs = {}
         /\ Return(l).gen = 0
<1>1. CASE l.todo = {} /\ l.srcs = {}
  BY <1>1, IdleType DEF Return, Idle
<1>2. CASE l.todo # {}
  <2>1. Return(l) = Frame(l, "loop", None)
    BY <1>2 DEF Return
  <2>2. "loop" \in PC
    BY DEF PC
  <2>3. /\ Return(l) \in Locals /\ Return(l).pc = "loop" /\ Return(l).gen = 0
        /\ Return(l).op = l.op /\ Return(l).src = l.src
        /\ Return(l).todo = l.todo /\ Return(l).srcs = l.srcs
    BY SMTT(30), <2>1, <2>2, FrameType
  <2> QED BY <1>2, <2>3 DEF WellFormed
<1>3. CASE l.todo = {} /\ l.srcs # {}
  <2>1. Return(l) = Frame(l, "list", None)
    BY <1>3 DEF Return
  <2>2. "list" \in PC
    BY DEF PC
  <2>3. /\ Return(l) \in Locals /\ Return(l).pc = "list" /\ Return(l).gen = 0
        /\ Return(l).op = l.op /\ Return(l).src = l.src
        /\ Return(l).todo = l.todo /\ Return(l).srcs = l.srcs
    BY SMTT(30), <2>1, <2>2, FrameType
  <2> QED BY <1>3, <2>3 DEF WellFormed
<1> QED BY <1>1, <1>2, <1>3

\* A step that sets the locals of one thread to a well-formed record keeps the
\* locals of all threads well formed.
LEMMA GotoType ==
  ASSUME TypeInv, NEW t \in Thread, NEW l, WellFormed(l), Goto(t, l)
  PROVE  /\ th' \in [Thread -> Locals]
         /\ \A u \in Thread : WellFormed(th'[u])
         /\ th'[t] = l
         /\ \A u \in Thread \ {t} : th'[u] = th[u]
<1>1. th' = [th EXCEPT ![t] = l] /\ th \in [Thread -> Locals] /\ l \in Locals
  BY DEF Goto, TypeInv, TypeOK, WellFormed
<1>2. \A u \in Thread : th'[u] = IF u = t THEN l ELSE th[u]
  BY <1>1
<1> QED BY <1>1, <1>2 DEF TypeInv

\* evaluateObserved starts well formed, and keeps the caller's loops.
LEMMA EvaluateObservedType ==
  ASSUME NEW l \in Locals, l.s \in Session, NEW zone
  PROVE  /\ WellFormed(EvaluateObserved(l, zone))
         /\ EvaluateObserved(l, zone).pc \in {"localGen", "get"}
         /\ EvaluateObserved(l, zone).op = l.op
         /\ EvaluateObserved(l, zone).src = l.src
         /\ EvaluateObserved(l, zone).todo = l.todo
         /\ EvaluateObserved(l, zone).srcs = l.srcs
         /\ EvaluateObserved(l, zone).gen = 0
<1> DEFINE pc == IF zone = Local THEN "localGen" ELSE "get"
<1>1. pc \in PC /\ pc \in {"localGen", "get"}
  BY DEF PC
<1>2. EvaluateObserved(l, zone) = Frame(l, pc, l.s)
  BY DEF EvaluateObserved
<1> HIDE DEF pc
<1>3. /\ Frame(l, pc, l.s) \in Locals
      /\ Frame(l, pc, l.s).pc = pc /\ Frame(l, pc, l.s).s = l.s
      /\ Frame(l, pc, l.s).op = l.op /\ Frame(l, pc, l.s).src = l.src
      /\ Frame(l, pc, l.s).todo = l.todo /\ Frame(l, pc, l.s).srcs = l.srcs
      /\ Frame(l, pc, l.s).gen = 0
  BY SMTT(30), <1>1, FrameType
<1> QED BY <1>1, <1>2, <1>3 DEF WellFormed

\* A retry is well formed while retries are left.
LEMMA RetryType ==
  ASSUME NEW l \in Locals, l.s \in Session, l.retry < 2
  PROVE  /\ WellFormed(Retry(l)) /\ Retry(l).pc = "get" /\ Retry(l).gen = 0
         /\ Retry(l).op = l.op /\ Retry(l).src = l.src
         /\ Retry(l).todo = l.todo /\ Retry(l).srcs = l.srcs
<1>1. "get" \in PC
  BY DEF PC
<1> DEFINE f == Frame(l, "get", l.s)
<1>2. /\ f \in Locals /\ f.pc = "get" /\ f.s = l.s /\ f.gen = 0
      /\ f.op = l.op /\ f.src = l.src /\ f.todo = l.todo /\ f.srcs = l.srcs
  BY SMTT(30), <1>1, FrameType
<1>3. l.retry + 1 \in 0..2
  <2>1. l.retry \in 0..2
    BY DEF Locals
  <2> QED BY SMTT(30), <2>1
<1>4. Retry(l) = [f EXCEPT !.retry = l.retry + 1]
  BY DEF Retry
<1> HIDE DEF f
<1> QED BY ZenonT(60), <1>2, <1>3, <1>4 DEF WellFormed, Locals

\* The store's writes keep a session record a session record.
LEMMA RecordType ==
  ASSUME NEW r \in SessionRecord, NEW g \in Nat, NEW d \in Decision
  PROVE  /\ Invalidated(r, g) \in SessionRecord
         /\ Decided(r, g, d) \in SessionRecord
         /\ Unavailable(r, g) \in SessionRecord
         /\ Revoked(r, g) \in SessionRecord
BY DEF Invalidated, Decided, Unavailable, Revoked, SessionRecord, Decision,
       CacheState

\* A list holds views of sessions.
LEMMA ListType ==
  ASSUME TypeInv, NEW S \in SUBSET Session
  PROVE  List(S) \in SUBSET Listed
<1>1. \A s \in Session : sess[s] \in SessionRecord
  BY DEF TypeInv, TypeOK
<1>2. \A s \in Session : View(sess[s]) \in SessionView
  BY <1>1, ViewType
<1> QED BY SMTT(30), <1>2 DEF List, Listed

-----------------------------------------------------------------------------
(***************************************************************************)
(* Type correctness, action by action.                                     *)
(***************************************************************************)
\* What every action below leaves to prove.
LEMMA TypeFromParts ==
  ASSUME TypeInv,
         sess' \in [Session -> SessionRecord], fresh' \subseteq Thread,
         program' \in Program, generation' \in Nat,
         blocks' \in [Source -> Operators \cup {None}], expired' \subseteq Source,
         revokedIds' \subseteq Session, guardMu' \in Thread \cup {None},
         kBlocks' \subseteq Source, kRevoked' \subseteq CtId,
         NEW t \in Thread, NEW l, WellFormed(l), Goto(t, l)
  PROVE  TypeInv'
<1>1. th' \in [Thread -> Locals] /\ \A u \in Thread : WellFormed(th'[u])
  BY GotoType
<1> QED BY <1>1 DEF TypeInv, TypeOK

\* A record creates or merges a session and starts applyRecord.
LEMMA ObserveType ==
  ASSUME TypeInv, NEW s \in Session, NEW live \in BOOLEAN, Observe(s, live)
  PROVE  TypeInv'
<1>1. PICK nat \in NatOutcomes(s), touched \in BOOLEAN :
        LET changed == touched \/ nat # sess[s].nat \/ sess[s].st = "unseen"
            r       == [sess[s] EXCEPT !.st = "active", !.nat = nat]
        IN  /\ sess' = [sess EXCEPT ![s] = r]
            /\ fresh' = (IF changed THEN Bump(s) ELSE fresh) \cup {Applier}
            /\ Goto(Applier, [Idle EXCEPT !.pc = "program", !.op = "observe",
                                !.s = s, !.v = View(r),
                                !.changed = changed, !.live = live])
  BY DEF Observe
<1> DEFINE changed == touched \/ nat # sess[s].nat \/ sess[s].st = "unseen"
           r == [sess[s] EXCEPT !.st = "active", !.nat = nat]
           l == [Idle EXCEPT !.pc = "program", !.op = "observe", !.s = s,
                   !.v = View(r), !.changed = changed, !.live = live]
<1>2. sess[s] \in SessionRecord /\ nat \in BOOLEAN
  BY DEF TypeInv, TypeOK, NatOutcomes, SessionRecord
<1>3. r \in SessionRecord
  BY <1>2 DEF SessionRecord
<1>4. View(r) \in SessionView /\ changed \in BOOLEAN
  BY <1>3, ViewType
<1>6. sess' \in [Session -> SessionRecord]
  BY <1>1, <1>3 DEF TypeInv, TypeOK
<1>7. fresh' \subseteq Thread /\ Applier \in Thread
  BY <1>1 DEF TypeInv, TypeOK, Bump, Thread
<1>8. Goto(Applier, l)
  BY <1>1
<1> HIDE DEF changed, r
<1>5. WellFormed(l)
  <2>1. l \in Locals
    BY <1>4, IdleType DEF WellFormed, Locals, PC, Op
  <2>2. l.pc = "program" /\ l.s = s
    BY DEF Idle
  <2> HIDE DEF l
  <2> QED BY <2>1, <2>2 DEF WellFormed
<1>9. UNCHANGED <<policy, blockMap, revoking, kernel>>
  BY DEF Observe
<1> HIDE DEF l
<1> QED
  BY <1>5, <1>6, <1>7, <1>8, <1>9, TypeFromParts
  DEF TypeInv, TypeOK, policy, blockMap, revoking, kernel

\* Reading the program keeps the types.
LEMMA ReadProgramType ==
  ASSUME TypeInv, ReadProgram
  PROVE  TypeInv'
<1> DEFINE l == th[Applier]
           m == [l EXCEPT !.pc = "zones",
                          !.zone = InferZone[program][l.s][l.v.nat]]
<1>1. Applier \in Thread /\ WellFormed(l) /\ l.pc = "program"
  BY DEF TypeInv, Thread, ReadProgram
<1>2. l \in Locals /\ l.s \in Session
  BY <1>1 DEF WellFormed
<1>3. InferZone[program][l.s][l.v.nat] \in Zone
  <2>1. program \in Program
    BY DEF TypeInv, TypeOK
  <2>2. l.v.nat \in BOOLEAN
    BY <1>2 DEF Locals, SessionView
  <2> QED BY <1>2, <2>1, <2>2, InferZoneType
<1>4. Goto(Applier, m)
  BY DEF ReadProgram
<1>5. UNCHANGED <<sess, fresh, policy, blockMap, revoking, kernel>>
  BY DEF ReadProgram
<1> HIDE DEF l
<1>6. m \in Locals /\ m.pc = "zones" /\ m.s = l.s
  BY <1>2, <1>3 DEF Locals, PC
<1> HIDE DEF m
<1>7. WellFormed(m)
  BY <1>2, <1>6 DEF WellFormed
<1> QED
  BY <1>1, <1>4, <1>5, <1>7, TypeFromParts
  DEF TypeInv, TypeOK, policy, blockMap, revoking, kernel

\* SetZones keeps the types.
LEMMA SetZonesType ==
  ASSUME TypeInv, SetZones
  PROVE  TypeInv'
<1> DEFINE l     == th[Applier]
           moved == sess[l.s].zone # l.zone
           r     == [sess[l.s] EXCEPT !.zone = l.zone]
           c     == l.changed \/ moved \/ Applier \notin fresh
           m     == [l EXCEPT !.pc = "check", !.v = View(r), !.changed = c]
<1>1. Applier \in Thread /\ WellFormed(l) /\ l.pc = "zones"
  BY DEF TypeInv, Thread, SetZones
<1>2. l \in Locals /\ l.s \in Session
  BY <1>1 DEF WellFormed
<1>3. r \in SessionRecord
  <2>1. sess[l.s] \in SessionRecord
    BY <1>2 DEF TypeInv, TypeOK
  <2>2. l.zone \in Zone
    BY <1>2 DEF Locals
  <2> QED BY SMTT(30), <2>1, <2>2 DEF SessionRecord
<1>4. View(r) \in SessionView /\ c \in BOOLEAN
  BY <1>3, ViewType
<1>5. /\ Goto(Applier, m)
      /\ sess' = [sess EXCEPT ![l.s] = r]
      /\ fresh' \subseteq fresh
      /\ UNCHANGED <<policy, blockMap, revoking, kernel>>
  BY DEF SetZones, Bump
<1> HIDE DEF r, c, l
<1>6. m \in Locals /\ m.pc = "check" /\ m.s = l.s
  BY <1>2, <1>4 DEF Locals, PC
<1> HIDE DEF m
<1>7. WellFormed(m)
  BY <1>2, <1>6 DEF WellFormed
<1>8. sess' \in [Session -> SessionRecord]
  BY <1>3, <1>5 DEF TypeInv, TypeOK
<1> QED
  BY <1>1, <1>5, <1>7, <1>8, TypeFromParts
  DEF TypeInv, TypeOK, policy, blockMap, revoking, kernel

\* The end of applyRecord keeps the types.
LEMMA CheckEvaluateType ==
  ASSUME TypeInv, CheckEvaluate
  PROVE  TypeInv'
<1> DEFINE l == th[Applier]
<1>1. Applier \in Thread /\ l \in Locals /\ l.s \in Session
  BY DEF TypeInv, Thread, CheckEvaluate, WellFormed
<1>2. PICK m \in {EvaluateObserved(l, l.v.zone), Idle} : Goto(Applier, m)
  BY DEF CheckEvaluate
<1>3. WellFormed(m)
  BY <1>1, <1>2, EvaluateObservedType, IdleType
<1>4. UNCHANGED <<sess, fresh, policy, blockMap, revoking, kernel>>
  BY DEF CheckEvaluate
<1> QED
  BY <1>1, <1>2, <1>3, <1>4, TypeFromParts
  DEF TypeInv, TypeOK, policy, blockMap, revoking, kernel

\* The steps of evaluateObserved and evaluate keep the types; the retry counter
\* stays within its bound because the last attempt returns.
LEMMA EvaluationType ==
  ASSUME TypeInv, NEW t \in Thread, Evaluation(t)
  PROVE  TypeInv'
<1> DEFINE l == th[t]
<1>1. WellFormed(l) /\ l \in Locals
  BY DEF TypeInv, WellFormed
<1>2. ASSUME l.s \in Session PROVE sess[l.s] \in SessionRecord
  BY <1>2 DEF TypeInv, TypeOK
<1>3. WellFormed(Return(l))
  BY <1>1, ReturnType
<1>4. l.gen \in Nat /\ l.dec \in Decision /\ Drop \in Decision /\ generation \in Nat
  BY <1>1 DEF TypeInv, TypeOK, Locals, Decision
<1>5. CASE LocalGeneration(t)
  <2> DEFINE m == [l EXCEPT !.pc = "mark", !.gen = generation]
  <2>1. l.s \in Session /\ Goto(t, m)
    BY <1>1, <1>5 DEF LocalGeneration, WellFormed
  <2>2. UNCHANGED <<sess, fresh, policy, blockMap, revoking, kernel>>
    BY <1>5 DEF LocalGeneration
  <2> HIDE DEF l
  <2>3. m \in Locals /\ m.pc = "mark" /\ m.s = l.s
    BY <1>1, <1>4 DEF Locals, PC
  <2> HIDE DEF m
  <2>4. WellFormed(m)
    BY <2>1, <2>3 DEF WellFormed
  <2> QED
    BY <2>1, <2>2, <2>4, TypeFromParts
    DEF TypeInv, TypeOK, policy, blockMap, revoking, kernel
<1>6. CASE MarkEvaluationUnavailable(t)
  <2>1. l.s \in Session /\ Goto(t, Return(l))
    BY <1>1, <1>6 DEF MarkEvaluationUnavailable, WellFormed
  <2>2. Unavailable(sess[l.s], l.gen) \in SessionRecord
    BY <1>2, <1>4, <2>1, RecordType
  <2>3. /\ sess' \in [Session -> SessionRecord] /\ fresh' \subseteq Thread
        /\ UNCHANGED <<policy, blockMap, revoking, kernel>>
    BY <1>6, <2>2 DEF MarkEvaluationUnavailable, Bump, TypeInv, TypeOK
  <2> QED
    BY <1>3, <2>1, <2>3, TypeFromParts
    DEF TypeInv, TypeOK, policy, blockMap, revoking, kernel
<1>7. CASE EvalGet(t)
  <2> DEFINE m == [l EXCEPT !.pc = "read", !.v = View(sess[l.s])]
  <2>1. l.s \in Session
    BY <1>1, <1>7 DEF EvalGet, WellFormed
  <2>2. /\ Goto(t, m) \/ Goto(t, Return(l))
        /\ fresh' \subseteq Thread
        /\ UNCHANGED <<sess, policy, blockMap, revoking, kernel>>
    BY <1>7 DEF EvalGet, TypeInv, TypeOK
  <2>3. View(sess[l.s]) \in SessionView
    BY <1>2, <2>1, ViewType
  <2> HIDE DEF l
  <2>4. m \in Locals /\ m.pc = "read" /\ m.s = l.s
    BY <1>1, <2>3 DEF Locals, PC
  <2> HIDE DEF m
  <2>5. WellFormed(m)
    BY <2>1, <2>4 DEF WellFormed
  <2> QED
    BY <1>3, <2>2, <2>5, TypeFromParts
    DEF TypeInv, TypeOK, policy, blockMap, revoking, kernel
<1>8. CASE EvalRead(t)
  <2> DEFINE d == Verdict[program][l.s][l.v.nat][l.v.zone]
             next == [Frame(l, "publish", l.s) EXCEPT !.gen = generation]
             m1 == [next EXCEPT !.pc = "setBlocked"]
             m2 == [next EXCEPT !.pc = "hit", !.retry = l.retry]
             m3 == [next EXCEPT !.dec = d, !.retry = l.retry]
  <2>1. l.s \in Session
    BY <1>1, <1>8 DEF EvalRead, WellFormed
  <2>2. /\ Goto(t, m1) \/ Goto(t, Return(l)) \/ Goto(t, m2) \/ Goto(t, m3)
        /\ fresh' \subseteq Thread
        /\ UNCHANGED <<sess, policy, blockMap, revoking, kernel>>
    BY <1>8 DEF EvalRead, TypeInv, TypeOK
  <2>3. d \in Decision /\ l.retry \in 0..2
    <3>1. program \in Program
      BY DEF TypeInv, TypeOK
    <3>2. l.v.nat \in BOOLEAN /\ l.v.zone \in Zone /\ l.retry \in 0..2
      BY <1>1 DEF Locals, SessionView
    <3> QED BY <2>1, <3>1, <3>2, VerdictType
  <2>4. /\ Frame(l, "publish", l.s) \in Locals
        /\ Frame(l, "publish", l.s).pc = "publish"
        /\ Frame(l, "publish", l.s).s = l.s
    <3>1. "publish" \in PC
      BY DEF PC
    <3> QED BY SMTT(30), <1>1, <2>1, <3>1, FrameType
  <2> HIDE DEF l, d
  <2>5. next \in Locals /\ next.pc = "publish" /\ next.s = l.s
    BY <1>4, <2>4 DEF Locals
  <2> HIDE DEF next
  <2>6. /\ m1 \in Locals /\ m1.s = l.s /\ m1.pc = "setBlocked"
        /\ m2 \in Locals /\ m2.s = l.s /\ m2.pc = "hit"
        /\ m3 \in Locals /\ m3.s = l.s /\ m3.pc = "publish"
    BY <2>3, <2>5 DEF Locals, PC
  <2> HIDE DEF m1, m2, m3
  <2>7. WellFormed(m1) /\ WellFormed(m2) /\ WellFormed(m3)
    BY <2>1, <2>6 DEF WellFormed
  <2> QED
    BY <1>3, <2>2, <2>7, TypeFromParts
    DEF TypeInv, TypeOK, policy, blockMap, revoking, kernel
<1>9. CASE EvalHit(t)
  <2>1. l.s \in Session
    BY <1>1, <1>9 DEF EvalHit, WellFormed
  <2>2. /\ (l.retry < 2 /\ Goto(t, Retry(l))) \/ Goto(t, Return(l))
        /\ UNCHANGED <<sess, fresh, policy, blockMap, revoking, kernel>>
    BY <1>9 DEF EvalHit
  <2>3. l.retry < 2 => WellFormed(Retry(l))
    BY <1>1, <2>1, RetryType
  <2> QED
    BY <1>3, <2>2, <2>3, TypeFromParts
    DEF TypeInv, TypeOK, policy, blockMap, revoking, kernel
<1>10. CASE SetBlockedDecision(t)
  <2>1. l.s \in Session /\ Goto(t, Return(l))
    BY <1>1, <1>10 DEF SetBlockedDecision, WellFormed
  <2>2. Decided(sess[l.s], l.gen, Drop) \in SessionRecord
    BY <1>2, <1>4, <2>1, RecordType
  <2>3. /\ sess' \in [Session -> SessionRecord] /\ fresh' \subseteq Thread
        /\ UNCHANGED <<policy, blockMap, revoking, kernel>>
    BY <1>10, <2>2 DEF SetBlockedDecision, Bump, TypeInv, TypeOK
  <2> QED
    BY <1>3, <2>1, <2>3, TypeFromParts
    DEF TypeInv, TypeOK, policy, blockMap, revoking, kernel
<1>11. CASE SetDecisionIfCurrent(t)
  <2>1. l.s \in Session
    BY <1>1, <1>11 DEF SetDecisionIfCurrent, PublishDecision, WellFormed
  <2>2. Decided(sess[l.s], l.gen, l.dec) \in SessionRecord
    BY <1>2, <1>4, <2>1, RecordType
  <2>3. /\ sess' \in [Session -> SessionRecord] /\ fresh' \subseteq Thread
        /\ UNCHANGED <<policy, blockMap, revoking, kernel>>
        /\ (l.retry < 2 /\ Goto(t, Retry(l))) \/ Goto(t, Return(l))
    BY <1>11, <2>2
    DEF SetDecisionIfCurrent, PublishDecision, Bump, TypeInv, TypeOK
  <2>4. l.retry < 2 => WellFormed(Retry(l))
    BY <1>1, <2>1, RetryType
  <2> QED
    BY <1>3, <2>3, <2>4, TypeFromParts
    DEF TypeInv, TypeOK, policy, blockMap, revoking, kernel
<1> QED
  BY <1>5, <1>6, <1>7, <1>8, <1>9, <1>10, <1>11 DEF Evaluation

\* A new request starts with the locals its first step needs.
LEMMA IssueType ==
  ASSUME TypeInv, NEW t \in Operators, Issue(t)
  PROVE  TypeInv'
<1>1. t \in Thread
  BY DEF Thread
<1>2. ASSUME NEW s \in Session, Revoke(t, s) \/ GateEvaluate(t, s)
      PROVE  TypeInv'
  <2>1. PICK pc \in {"revokeGuard", "get"}, op \in {"revoke", "evaluate"} :
          Goto(t, [Idle EXCEPT !.pc = pc, !.op = op, !.s = s])
    BY <1>2 DEF Revoke, GateEvaluate
  <2> DEFINE l == [Idle EXCEPT !.pc = pc, !.op = op, !.s = s]
  <2>2. l \in Locals /\ l.pc = pc /\ l.s = s
    BY IdleType DEF WellFormed, Locals, PC, Op, Request, Idle
  <2>3. UNCHANGED <<sess, fresh, policy, blockMap, revoking, kernel>>
    BY <1>2 DEF Revoke, GateEvaluate
  <2>4. Goto(t, l)
    BY <2>1
  <2> HIDE DEF l
  <2>5. WellFormed(l)
    BY <2>2 DEF WellFormed
  <2> QED
    BY <1>1, <2>3, <2>4, <2>5, TypeFromParts
    DEF TypeInv, TypeOK, policy, blockMap, revoking, kernel
<1>3. ASSUME NEW src \in Source, AddBlock(t, src)
      PROVE  TypeInv'
  <2> DEFINE l == [Idle EXCEPT !.pc = "addGuard", !.op = "add", !.src = src]
  <2>1. l \in Locals /\ l.pc = "addGuard" /\ l.src = src
    BY IdleType DEF WellFormed, Locals, PC, Op, Request, Idle
  <2>2. /\ Goto(t, l)
        /\ blocks' \in [Source -> Operators \cup {None}] /\ expired' \subseteq Source
        /\ UNCHANGED <<sess, fresh, policy, revoking, kernel>>
    BY <1>3 DEF AddBlock, TypeInv, TypeOK
  <2> HIDE DEF l
  <2>3. WellFormed(l)
    BY <2>1 DEF WellFormed
  <2> QED
    BY <1>1, <2>2, <2>3, TypeFromParts
    DEF TypeInv, TypeOK, policy, revoking, kernel
<1>4. ASSUME NEW src \in Source, RemoveBlock(t, src)
      PROVE  TypeInv'
  <2> DEFINE l == [Idle EXCEPT !.pc = "delGuard", !.op = "remove", !.src = src]
  <2>1. l \in Locals /\ l.pc = "delGuard" /\ l.src = src
    BY IdleType DEF WellFormed, Locals, PC, Op, Request, Idle
  <2>2. Goto(t, l) /\ UNCHANGED <<sess, fresh, policy, blockMap, revoking, kernel>>
    BY <1>4 DEF RemoveBlock
  <2> HIDE DEF l
  <2>3. WellFormed(l)
    BY <2>1 DEF WellFormed
  <2> QED
    BY <1>1, <2>2, <2>3, TypeFromParts
    DEF TypeInv, TypeOK, policy, blockMap, revoking, kernel
<1>5. CASE Sweep(t)
  <2> DEFINE l == [Idle EXCEPT !.pc = "sweepGuard", !.op = "sweep",
                               !.srcs = expired, !.rest = expired]
  <2>1. l \in Locals /\ l.pc = "sweepGuard"
    <3>1. expired \in SUBSET Source
      BY DEF TypeInv, TypeOK
    <3> QED BY <3>1, IdleType DEF WellFormed, Locals, PC, Op, Request, Idle
  <2>2. /\ Goto(t, l)
        /\ blocks' \in [Source -> Operators \cup {None}] /\ expired' \subseteq Source
        /\ UNCHANGED <<sess, fresh, policy, revoking, kernel>>
    BY <1>5 DEF Sweep, TypeInv, TypeOK
  <2> HIDE DEF l
  <2>3. WellFormed(l)
    BY <2>1 DEF WellFormed
  <2> QED
    BY <1>1, <2>2, <2>3, TypeFromParts
    DEF TypeInv, TypeOK, policy, revoking, kernel
<1> QED
  BY <1>2, <1>3, <1>4, <1>5 DEF Issue

\* Closing sessions keeps the types.
LEMMA CloseType ==
  ASSUME TypeInv, NEW S \in SUBSET Session, Close(S)
  PROVE  TypeInv'
<1> DEFINE l == [Idle EXCEPT !.pc = "loop", !.op = "close", !.todo = List(S)]
<1>1. List(S) \in SUBSET Listed
  BY ListType
<1>2. l \in Locals /\ l.pc = "loop"
  BY <1>1, IdleType DEF WellFormed, Locals, PC, Op, Idle
<1>3. /\ Goto(Applier, l) /\ fresh' \subseteq Thread
      /\ UNCHANGED <<policy, blockMap, revoking, kernel>>
  BY DEF Close, TypeInv, TypeOK
<1>4. sess' \in [Session -> SessionRecord]
  <2>1. [NoSession EXCEPT !.st = "closed"] \in SessionRecord
    BY NoSessionType DEF SessionRecord
  <2> QED BY <2>1 DEF Close, TypeInv, TypeOK
<1> HIDE DEF l
<1>5. WellFormed(l)
  BY <1>2 DEF WellFormed
<1> QED
  BY <1>3, <1>4, <1>5, TypeFromParts
  DEF TypeInv, TypeOK, policy, blockMap, revoking, kernel, Thread

\* The cleanup of closed sessions keeps the types.
LEMMA ReleaseType ==
  ASSUME TypeInv,
         \/ \E cur \in th[Applier].todo : Untrack(cur)
         \/ ReleaseCheck
         \/ ReleaseGuard
  PROVE  TypeInv'
<1> DEFINE l == th[Applier]
<1>1. Applier \in Thread /\ WellFormed(l) /\ l \in Locals
  BY DEF TypeInv, Thread, WellFormed
<1>2. ASSUME NEW cur \in l.todo, Untrack(cur)
      PROVE  TypeInv'
  <2> DEFINE k == [l EXCEPT !.todo = @ \ {cur}]
             m == Frame(k, "release", cur.s)
  <2>1. cur \in Listed
    BY <1>1 DEF Locals
  <2>2. /\ Goto(Applier, m) \/ Goto(Applier, Return(k))
        /\ revokedIds' \subseteq Session
        /\ UNCHANGED <<sess, fresh, policy, blockMap, guardMu, kernel>>
    BY <1>2 DEF Untrack, TypeInv, TypeOK
  <2>3. cur.s \in Session /\ "release" \in PC
    BY <2>1 DEF Listed, PC
  <2> HIDE DEF l
  <2>4. k \in Locals
    BY <1>1 DEF Locals
  <2> HIDE DEF k
  <2>5. m \in Locals /\ m.pc = "release" /\ m.s = cur.s
    BY SMTT(30), <2>3, <2>4, FrameType
  <2> HIDE DEF m
  <2>6. WellFormed(m) /\ WellFormed(Return(k))
    BY <2>3, <2>4, <2>5, ReturnType DEF WellFormed
  <2> QED
    BY <1>1, <2>2, <2>6, TypeFromParts
    DEF TypeInv, TypeOK, policy, blockMap, kernel
<1>3. CASE ReleaseCheck
  <2> DEFINE m == [l EXCEPT !.pc = "releaseGuard"]
  <2>1. l.s \in Session
    BY <1>1, <1>3 DEF ReleaseCheck, WellFormed
  <2>2. /\ Goto(Applier, m) \/ Goto(Applier, Return(l))
        /\ guardMu' \in Thread \cup {None}
        /\ UNCHANGED <<sess, fresh, policy, blockMap, revokedIds, kernel>>
    BY <1>1, <1>3 DEF ReleaseCheck, TypeInv, TypeOK
  <2> HIDE DEF l
  <2>3. m \in Locals /\ m.pc = "releaseGuard" /\ m.s = l.s
    BY <1>1 DEF Locals, PC
  <2> HIDE DEF m
  <2>4. WellFormed(m) /\ WellFormed(Return(l))
    BY <1>1, <2>1, <2>3, ReturnType DEF WellFormed
  <2> QED
    BY <1>1, <2>2, <2>4, TypeFromParts
    DEF TypeInv, TypeOK, policy, blockMap, kernel
<1>4. CASE ReleaseGuard
  <2>1. /\ Goto(Applier, Return(l)) /\ guardMu' = None
        /\ kRevoked' \subseteq CtId
        /\ UNCHANGED <<sess, fresh, policy, blockMap, revokedIds, kBlocks>>
    BY <1>4 DEF ReleaseGuard, TypeInv, TypeOK
  <2>2. WellFormed(Return(l))
    BY <1>1, ReturnType
  <2> QED
    BY <1>1, <2>1, <2>2, TypeFromParts
    DEF TypeInv, TypeOK, policy, blockMap
<1> QED
  BY <1>2, <1>3, <1>4

\* The steps of an activation keep the types.
LEMMA ActivateType ==
  ASSUME TypeInv,
         \/ Activate
         \/ ActivateList
         \/ \E cur \in th[Activator].todo : ActivateSetZones(cur)
         \/ ActivateInvalidate
  PROVE  TypeInv'
<1> DEFINE l == th[Activator]
<1>1. Activator \in Thread /\ WellFormed(l) /\ l \in Locals
  BY DEF TypeInv, Thread, WellFormed
<1>2. CASE Activate
  <2> DEFINE m == [Idle EXCEPT !.pc = "list", !.op = "activate"]
  <2>1. m \in Locals /\ m.pc = "list"
    <3>1. "list" \in PC /\ "activate" \in Op
      BY DEF PC, Op
    <3> QED BY <3>1, StartType
  <2>2. /\ Goto(Activator, m) /\ program' \in Program /\ generation' \in Nat
        /\ UNCHANGED <<sess, fresh, blockMap, revoking, kernel>>
    <3>1. generation \in Nat
      BY DEF TypeInv, TypeOK
    <3>2. generation + 1 \in Nat
      BY SMTT(30), <3>1
    <3> QED BY <1>2, <3>2 DEF Activate
  <2> HIDE DEF m
  <2>3. WellFormed(m)
    BY <2>1 DEF WellFormed
  <2> QED
    BY <1>1, <2>2, <2>3, TypeFromParts
    DEF TypeInv, TypeOK, blockMap, revoking, kernel
<1>3. CASE ActivateList
  <2> DEFINE k == [l EXCEPT !.todo = List(Unrevoked)]
  <2>1. Goto(Activator, Return(k))
    BY <1>3 DEF ActivateList
  <2>2. UNCHANGED <<sess, fresh, policy, blockMap, revoking, kernel>>
    BY <1>3 DEF ActivateList
  <2>3. List(Unrevoked) \in SUBSET Listed
    BY ListType DEF Unrevoked
  <2> HIDE DEF l
  <2>4. k \in Locals
    BY <1>1, <2>3 DEF Locals
  <2> HIDE DEF k
  <2>5. WellFormed(Return(k))
    BY <2>4, ReturnType
  <2> QED
    BY <1>1, <2>1, <2>2, <2>5, TypeFromParts
    DEF TypeInv, TypeOK, policy, blockMap, revoking, kernel
<1>4. ASSUME NEW cur \in l.todo, ActivateSetZones(cur)
      PROVE  TypeInv'
  <2> DEFINE k    == [l EXCEPT !.todo = @ \ {cur}]
             zone == InferZone[program][cur.s][cur.v.nat]
             f    == Frame(k, "actInvalidate", cur.s)
             m    == [f EXCEPT !.zone = zone]
  <2>1. cur \in Listed
    BY <1>1 DEF Locals
  <2>2. cur.s \in Session /\ cur.v.nat \in BOOLEAN /\ "actInvalidate" \in PC
    BY <2>1 DEF Listed, SessionView, PC
  <2>3. zone \in Zone
    <3>1. program \in Program
      BY DEF TypeInv, TypeOK
    <3> QED BY <2>2, <3>1, InferZoneType
  <2>4. [sess EXCEPT ![cur.s].zone = zone] \in [Session -> SessionRecord]
    BY ZenonT(60), <2>2, <2>3 DEF TypeInv, TypeOK, SessionRecord
  <2>5. /\ Goto(Activator, m) \/ Goto(Activator, Return(k))
        /\ sess' \in [Session -> SessionRecord] /\ fresh' \subseteq Thread
        /\ UNCHANGED <<policy, blockMap, revoking, kernel>>
    BY <1>4, <2>4 DEF ActivateSetZones, TypeInv, TypeOK, Bump
  <2> HIDE DEF l, zone
  <2>6. k \in Locals
    BY <1>1 DEF Locals
  <2> HIDE DEF k
  <2>7. f \in Locals /\ f.pc = "actInvalidate" /\ f.s = cur.s
    BY SMTT(30), <2>2, <2>6, FrameType
  <2> HIDE DEF f
  <2>8. m \in Locals /\ m.pc = "actInvalidate" /\ m.s = cur.s
    BY <2>3, <2>7 DEF Locals
  <2> HIDE DEF m
  <2>9. WellFormed(m) /\ WellFormed(Return(k))
    BY <2>2, <2>6, <2>8, ReturnType DEF WellFormed
  <2> QED
    BY <1>1, <2>5, <2>9, TypeFromParts
    DEF TypeInv, TypeOK, policy, blockMap, revoking, kernel
<1>5. CASE ActivateInvalidate
  <2> DEFINE r == Invalidated(sess[l.s], generation)
  <2>1. l.s \in Session
    BY <1>1, <1>5 DEF ActivateInvalidate, WellFormed
  <2>2. r \in SessionRecord
    BY <2>1, RecordType DEF TypeInv, TypeOK, Decision
  <2>3. /\ Goto(Activator, EvaluateObserved(l, r.zone)) \/ Goto(Activator, Return(l))
        /\ sess' \in [Session -> SessionRecord] /\ fresh' \subseteq Thread
        /\ UNCHANGED <<policy, blockMap, revoking, kernel>>
    BY <1>5, <2>2 DEF ActivateInvalidate, TypeInv, TypeOK, Bump
  <2>4. WellFormed(EvaluateObserved(l, r.zone)) /\ WellFormed(Return(l))
    BY <1>1, <2>1, EvaluateObservedType, ReturnType
  <2> QED
    BY <1>1, <2>3, <2>4, TypeFromParts
    DEF TypeInv, TypeOK, policy, blockMap, revoking, kernel
<1> QED
  BY <1>2, <1>3, <1>4, <1>5

\* The steps of block and unblock requests and of the sweeper keep the types.
LEMMA BlockStepsType ==
  ASSUME TypeInv, NEW t \in Operators,
         \/ AddGuardOk(t) \/ AddGuardFails(t) \/ RemoveGuard(t) \/ RemoveEntry(t)
         \/ \E src \in Source : SweepGuard(t, src) \/ ListSource(t, src)
         \/ \E cur \in th[t].todo : InvalidateRead(t, cur)
         \/ InvalidateStore(t)
  PROVE  TypeInv'
<1> DEFINE l == th[t]
<1>1. t \in Thread /\ WellFormed(l) /\ l \in Locals
  BY DEF TypeInv, Thread, WellFormed
<1>2. CASE AddGuardOk(t) \/ RemoveEntry(t)
  <2> DEFINE m == [l EXCEPT !.pc = "list", !.srcs = {l.src}]
  <2>1. l.src \in Source
    BY <1>1, <1>2 DEF AddGuardOk, RemoveEntry, WellFormed
  <2>2. /\ Goto(t, m) /\ kBlocks' \subseteq Source
        /\ blocks' \in [Source -> Operators \cup {None}] /\ expired' \subseteq Source
        /\ UNCHANGED <<sess, fresh, policy, revoking, kRevoked>>
    BY <1>2, <2>1
    DEF AddGuardOk, RemoveEntry, TypeInv, TypeOK, blockMap, kernel
  <2> HIDE DEF l
  <2>3. m \in Locals /\ m.pc = "list"
    BY <1>1, <2>1 DEF Locals, PC
  <2> HIDE DEF m
  <2>4. WellFormed(m)
    BY <2>3 DEF WellFormed
  <2> QED
    BY <1>1, <2>2, <2>4, TypeFromParts DEF TypeInv, TypeOK, policy, revoking
<1>3. CASE AddGuardFails(t)
  <2>1. /\ Goto(t, Idle)
        /\ blocks' \in [Source -> Operators \cup {None}] /\ expired' \subseteq Source
        /\ UNCHANGED <<sess, fresh, policy, revoking, kernel>>
    BY <1>3 DEF AddGuardFails, TypeInv, TypeOK
  <2> QED
    BY <1>1, <2>1, IdleType, TypeFromParts DEF TypeInv, TypeOK, policy, revoking, kernel
<1>4. CASE RemoveGuard(t)
  <2> DEFINE m == [l EXCEPT !.pc = "delEntry"]
  <2>1. l.src \in Source
    BY <1>1, <1>4 DEF RemoveGuard, WellFormed
  <2>2. /\ Goto(t, m) \/ Goto(t, Idle)
        /\ kBlocks' \subseteq Source
        /\ UNCHANGED <<sess, fresh, policy, blockMap, revoking, kRevoked>>
    BY <1>4 DEF RemoveGuard, TypeInv, TypeOK
  <2> HIDE DEF l
  <2>3. m \in Locals /\ m.pc = "delEntry" /\ m.src = l.src
    BY <1>1 DEF Locals, PC
  <2> HIDE DEF m
  <2>4. WellFormed(m)
    BY <2>1, <2>3 DEF WellFormed
  <2> QED
    BY <1>1, <2>2, <2>4, IdleType, TypeFromParts
    DEF TypeInv, TypeOK, policy, blockMap, revoking
<1>5. ASSUME NEW src \in Source, SweepGuard(t, src)
      PROVE  TypeInv'
  <2> DEFINE pc == IF l.rest = {src} THEN "list" ELSE "sweepGuard"
             m  == [l EXCEPT !.rest = @ \ {src}, !.pc = pc]
  <2>1. /\ Goto(t, m) /\ kBlocks' \subseteq Source
        /\ UNCHANGED <<sess, fresh, policy, blockMap, revoking, kRevoked>>
    BY <1>5 DEF SweepGuard, TypeInv, TypeOK
  <2>2. pc \in {"list", "sweepGuard"} /\ pc \in PC
    BY DEF PC
  <2> HIDE DEF l, pc
  <2>3. m \in Locals /\ m.pc = pc
    BY <1>1, <2>2 DEF Locals
  <2> HIDE DEF m
  <2>4. WellFormed(m)
    BY <2>2, <2>3 DEF WellFormed
  <2> QED
    BY <1>1, <2>1, <2>4, TypeFromParts DEF TypeInv, TypeOK, policy, blockMap, revoking
<1>6. ASSUME NEW src \in Source, ListSource(t, src)
      PROVE  TypeInv'
  <2> DEFINE S == {s \in Session : SrcOf[s] = src} \cap
                    (IF l.op = "add" THEN Session ELSE Unrevoked)
             k == [l EXCEPT !.todo = List(S), !.srcs = @ \ {src}]
  <2>1. Goto(t, Return(k)) /\ UNCHANGED <<sess, fresh, policy, blockMap, revoking, kernel>>
    BY <1>6 DEF ListSource
  <2>2. S \in SUBSET Session
    OBVIOUS
  <2> HIDE DEF S
  <2>3. List(S) \in SUBSET Listed
    BY <2>2, ListType
  <2> HIDE DEF l
  <2>4. k \in Locals
    BY <1>1, <2>3 DEF Locals
  <2> HIDE DEF k
  <2>5. WellFormed(Return(k))
    BY <2>4, ReturnType
  <2> QED
    BY <1>1, <2>1, <2>5, TypeFromParts
    DEF TypeInv, TypeOK, policy, blockMap, revoking, kernel
<1>7. ASSUME NEW cur \in l.todo, InvalidateRead(t, cur)
      PROVE  TypeInv'
  <2> DEFINE k == [l EXCEPT !.todo = @ \ {cur}]
             f == Frame(k, "invalidate", cur.s)
             m == [f EXCEPT !.v = cur.v, !.gen = generation]
  <2>1. cur \in Listed /\ generation \in Nat
    BY <1>1 DEF Locals, TypeInv, TypeOK
  <2>2. cur.s \in Session /\ cur.v \in SessionView /\ "invalidate" \in PC
    BY <2>1 DEF Listed, PC
  <2>3. Goto(t, m) /\ UNCHANGED <<sess, fresh, policy, blockMap, revoking, kernel>>
    BY <1>7 DEF InvalidateRead
  <2> HIDE DEF l
  <2>4. k \in Locals
    BY <1>1 DEF Locals
  <2> HIDE DEF k
  <2>5. f \in Locals /\ f.pc = "invalidate" /\ f.s = cur.s
    BY SMTT(30), <2>2, <2>4, FrameType
  <2> HIDE DEF f
  <2>6. m \in Locals /\ m.pc = "invalidate" /\ m.s = cur.s
    BY <2>1, <2>2, <2>5 DEF Locals
  <2> HIDE DEF m
  <2>7. WellFormed(m)
    BY <2>2, <2>6 DEF WellFormed
  <2> QED
    BY <1>1, <2>3, <2>7, TypeFromParts
    DEF TypeInv, TypeOK, policy, blockMap, revoking, kernel
<1>8. CASE InvalidateStore(t)
  <2>1. l.s \in Session /\ l.gen \in Nat
    BY <1>1, <1>8 DEF InvalidateStore, WellFormed, Locals
  <2>2. Invalidated(sess[l.s], l.gen) \in SessionRecord
    BY <2>1, RecordType DEF TypeInv, TypeOK, Decision
  <2>3. /\ Goto(t, EvaluateObserved(l, l.v.zone)) \/ Goto(t, Return(l))
        /\ sess' \in [Session -> SessionRecord] /\ fresh' \subseteq Thread
        /\ UNCHANGED <<policy, blockMap, revoking, kernel>>
    BY <1>8, <2>2 DEF InvalidateStore, TypeInv, TypeOK, Bump
  <2>4. WellFormed(EvaluateObserved(l, l.v.zone)) /\ WellFormed(Return(l))
    BY <1>1, <2>1, EvaluateObservedType, ReturnType
  <2> QED
    BY <1>1, <2>3, <2>4, TypeFromParts
    DEF TypeInv, TypeOK, policy, blockMap, revoking, kernel
<1> QED
  BY <1>2, <1>3, <1>4, <1>5, <1>6, <1>7, <1>8

\* The steps of a revocation keep the types.
LEMMA RevokeStepsType ==
  ASSUME TypeInv, NEW t \in Operators,
         \/ RevokeGuard(t) \/ RevokeMap(t) \/ RevokeEvict(t) \/ RevokeGeneration(t)
         \/ MarkRevoked(t) \/ RevokeUntrack(t) \/ RevokeUndo(t)
  PROVE  TypeInv'
<1> DEFINE l == th[t]
<1>1. t \in Thread /\ WellFormed(l) /\ l \in Locals
  BY DEF TypeInv, Thread, WellFormed
<1>2. l.s \in Session
  BY <1>1 DEF WellFormed, RevokeGuard, RevokeMap, RevokeEvict, RevokeGeneration,
              MarkRevoked, RevokeUntrack, RevokeUndo
<1>3. CtOf[l.s] \in CtId /\ l.gen \in Nat /\ generation \in Nat
  BY <1>1, <1>2, SessionAssumption DEF Locals, TypeInv, TypeOK
<1>4. Revoked(sess[l.s], l.gen) \in SessionRecord
  BY <1>2, <1>3, RecordType DEF TypeInv, TypeOK, Decision
<1>5. /\ \A pc \in {"revokeMap", "revokeGen", "untrack", "undoGuard"} :
           WellFormed([l EXCEPT !.pc = pc])
      /\ \A old \in Session :
           WellFormed([l EXCEPT !.pc = "revokeEvict", !.old = old])
      /\ WellFormed([l EXCEPT !.pc = "revokeGen", !.old = None])
      /\ WellFormed([l EXCEPT !.pc = "markRevoked", !.gen = generation])
  <2> HIDE DEF l
  <2>1. ASSUME NEW pc \in {"revokeMap", "revokeGen", "untrack", "undoGuard"}
        PROVE  WellFormed([l EXCEPT !.pc = pc])
    <3> DEFINE m == [l EXCEPT !.pc = pc]
    <3>1. m \in Locals /\ m.pc = pc /\ m.s = l.s
      BY <1>1 DEF Locals, PC
    <3> HIDE DEF m
    <3>2. WellFormed(m)
      BY <1>2, <3>1 DEF WellFormed
    <3> QED BY <3>2 DEF m
  <2>2. ASSUME NEW old \in Session
        PROVE  WellFormed([l EXCEPT !.pc = "revokeEvict", !.old = old])
    <3> DEFINE m == [l EXCEPT !.pc = "revokeEvict", !.old = old]
    <3>1. m \in Locals /\ m.pc = "revokeEvict" /\ m.s = l.s
      BY <1>1 DEF Locals, PC
    <3> HIDE DEF m
    <3>2. WellFormed(m)
      BY <1>2, <3>1 DEF WellFormed
    <3> QED BY <3>2 DEF m
  <2>3. WellFormed([l EXCEPT !.pc = "revokeGen", !.old = None])
    <3> DEFINE m == [l EXCEPT !.pc = "revokeGen", !.old = None]
    <3>1. m \in Locals /\ m.pc = "revokeGen" /\ m.s = l.s
      BY <1>1 DEF Locals, PC
    <3> HIDE DEF m
    <3>2. WellFormed(m)
      BY <1>2, <3>1 DEF WellFormed
    <3> QED BY <3>2 DEF m
  <2>4. WellFormed([l EXCEPT !.pc = "markRevoked", !.gen = generation])
    <3> DEFINE m == [l EXCEPT !.pc = "markRevoked", !.gen = generation]
    <3>1. m \in Locals /\ m.pc = "markRevoked" /\ m.s = l.s
      BY <1>1, <1>3 DEF Locals, PC
    <3> HIDE DEF m
    <3>2. WellFormed(m)
      BY <1>2, <3>1 DEF WellFormed
    <3> QED BY <3>2 DEF m
  <2> QED BY <2>1, <2>2, <2>3, <2>4
<1>6. PICK m : WellFormed(m) /\ Goto(t, m)
  <2>1. CASE RevokeGuard(t)
    <3>1. Goto(t, [l EXCEPT !.pc = "revokeMap"]) \/ Goto(t, Idle)
      BY <2>1 DEF RevokeGuard
    <3> QED BY <1>5, <3>1, IdleType
  <2>2. CASE RevokeMap(t)
    <3>1. \/ Goto(t, [l EXCEPT !.pc = "revokeGen"])
          \/ \E old \in Session :
               Goto(t, [l EXCEPT !.pc = "revokeEvict", !.old = old])
      BY <2>2 DEF RevokeMap, TypeInv, TypeOK
    <3> QED BY <1>5, <3>1
  <2>3. CASE RevokeEvict(t)
    BY <1>5, <2>3 DEF RevokeEvict
  <2>4. CASE RevokeGeneration(t)
    BY <1>5, <2>4 DEF RevokeGeneration
  <2>5. CASE MarkRevoked(t)
    <3>1. Goto(t, [l EXCEPT !.pc = "untrack"]) \/ Goto(t, Idle)
      BY <2>5 DEF MarkRevoked
    <3> QED BY <1>5, <3>1, IdleType
  <2>6. CASE RevokeUntrack(t)
    BY <1>5, <2>6 DEF RevokeUntrack
  <2>7. CASE RevokeUndo(t)
    BY <2>7, IdleType DEF RevokeUndo
  <2> QED BY <2>1, <2>2, <2>3, <2>4, <2>5, <2>6, <2>7
<1>7. /\ sess' \in [Session -> SessionRecord] /\ fresh' \subseteq Thread
      /\ revokedIds' \subseteq Session /\ guardMu' \in Thread \cup {None}
      /\ kRevoked' \subseteq CtId
      /\ UNCHANGED <<policy, blockMap, kBlocks>>
  <2> HIDE DEF l
  <2>1. CASE RevokeGuard(t)
    BY <1>1, <1>3, <2>1 DEF RevokeGuard, TypeInv, TypeOK, l
  <2>2. CASE RevokeMap(t)
    BY <1>2, <2>2 DEF RevokeMap, TypeInv, TypeOK, kernel, l
  <2>3. CASE RevokeEvict(t)
    BY <2>3 DEF RevokeEvict, TypeInv, TypeOK, revoking
  <2>4. CASE RevokeGeneration(t)
    BY <2>4 DEF RevokeGeneration, TypeInv, TypeOK, revoking, kernel
  <2>5. CASE MarkRevoked(t)
    BY <1>4, <2>5 DEF MarkRevoked, TypeInv, TypeOK, kernel, Bump, l
  <2>6. CASE RevokeUntrack(t)
    BY <2>6 DEF RevokeUntrack, TypeInv, TypeOK, kernel
  <2>7. CASE RevokeUndo(t)
    BY <2>7 DEF RevokeUndo, TypeInv, TypeOK
  <2> QED BY <2>1, <2>2, <2>3, <2>4, <2>5, <2>6, <2>7
<1> QED
  BY <1>1, <1>6, <1>7, TypeFromParts DEF TypeInv, TypeOK, policy, blockMap

\* The passing of time keeps the types.
LEMMA TimeoutType ==
  ASSUME TypeInv, NEW src \in Source, EntryTimeout(src) \/ KernelTimeout(src)
  PROVE  TypeInv'
BY DEF TypeInv, TypeOK, EntryTimeout, KernelTimeout, policy, blockMap, revoking,
       kernel

\* The initial states are well typed.
LEMMA InitType == Init => TypeInv
<1> SUFFICES ASSUME Init PROVE TypeInv
  OBVIOUS
<1>1. \A t \in Thread : th[t] = Idle /\ Idle \in Locals
  BY IdleType DEF Init, WellFormed
<1>2. \A t \in Thread : WellFormed(th[t])
  BY <1>1, IdleType
<1>3. th \in [Thread -> Locals]
  BY <1>1 DEF Init
<1>4. sess \in [Session -> SessionRecord]
  BY NoSessionType DEF Init
<1> QED
  BY <1>2, <1>3, <1>4 DEF Init, TypeInv, TypeOK

\* Every step keeps the types.
LEMMA StepType == TypeInv /\ [Next]_vars => TypeInv'
<1> SUFFICES ASSUME TypeInv, [Next]_vars PROVE TypeInv'
  OBVIOUS
<1>1. CASE UNCHANGED vars
  BY <1>1 DEF vars, TypeInv, TypeOK
<1>2. CASE ApplierStep
  BY <1>2, ReadProgramType, SetZonesType, CheckEvaluateType, ReleaseType,
     EvaluationType DEF ApplierStep, Thread
<1>3. CASE ActivatorStep
  BY <1>3, ActivateType, EvaluationType DEF ActivatorStep, Thread
<1>4. ASSUME NEW t \in Operators, OperatorStep(t)
      PROVE  TypeInv'
  BY <1>4, BlockStepsType, RevokeStepsType, EvaluationType DEF OperatorStep, Thread
<1> QED
  BY <1>1, <1>2, <1>3, <1>4, ObserveType, CloseType, ActivateType, IssueType,
     TimeoutType DEF Next

\* Every variable, and every local of every thread, keeps its type.
THEOREM TypeCorrect == Spec => []TypeOK
<1>1. TypeInv => TypeOK
  BY DEF TypeInv
<1> QED BY <1>1, InitType, StepType, PTL DEF Spec
=============================================================================
