--------------------------- MODULE SessionRuntime ---------------------------
(***************************************************************************)
(* The decision cache of ngfw-engine and the goroutines that write it:     *)
(* internal/engine/runtime.go over internal/session/runtime_store.go and   *)
(* internal/dataplane/runtime_guards.go.                                   *)
(*                                                                         *)
(* A step is one critical section of the code (Runtime.mu, the store mutex *)
(* or one nft transaction); a goroutine may be preempted between any two.  *)
(* The logical threads are                                                 *)
(*   Applier    whichever goroutine holds Runtime.applyMu: the event       *)
(*              consumer, a resync dump, an expiry check or a counter      *)
(*              refresh;                                                   *)
(*   Activator  the commit coordinator, serialised by                      *)
(*              RuntimeServiceAdapter.applyMu;                             *)
(*   Operators  IPC requests (block, unblock, revoke), the block sweeper   *)
(*              and the request gate, which exclude each other only        *)
(*              through guardMu.                                           *)
(*                                                                         *)
(* A session's Revision is only ever compared with that of a snapshot, so  *)
(* it is represented by `fresh', the threads whose snapshot is current.    *)
(* Inspection is off (Session.Inspection = nil): M2 mode.                  *)
(***************************************************************************)
EXTENDS Naturals, FiniteSets

CONSTANTS
  Session,        \* conntrack incarnations; each is seen, then closed, once
  Source,         \* original source addresses
  CtId,           \* conntrack identifiers; the kernel reuses them
  SrcOf,          \* [Session -> Source]
  CtOf,           \* [Session -> CtId]
  Program,        \* compiled connectivity programs
  Zone,           \* (source, destination) zone pairs; Local if either is local
  Local, Unknown,
  InferZone,      \* [Program -> [Session -> [BOOLEAN -> Zone]]]
  Verdict,        \* [Program -> [Session -> [BOOLEAN -> [Zone -> {Allow, Drop}]]]]
  Applier, Activator, Operators,
  None,           \* no thread, no session, no source, no decision
  Allow, Drop,
  Requests,       \* [Operators -> SUBSET Request]: what each one may issue
  MaxGeneration,  \* bound: activations stop at this generation
  MaxRevoked,     \* Runtime.maxRevoked
  MaxBlocks,      \* capacity of Runtime.blocks
  CanLearnNat,    \* whether a record may omit the reply tuple at first
  KernelFails     \* whether an nft transaction may fail

Thread == {Applier, Activator} \cup Operators

ASSUME ThreadAssumption ==
  /\ Applier # Activator
  /\ {Applier, Activator} \cap Operators = {}
  /\ None \notin Thread

ASSUME SessionAssumption ==
  /\ SrcOf \in [Session -> Source]
  /\ CtOf \in [Session -> CtId]
  /\ None \notin Session /\ None \notin Source

Request == {"add", "remove", "sweep", "revoke", "evaluate"}

ASSUME RequestAssumption == Requests \in [Operators -> SUBSET Request]

ASSUME PolicyAssumption ==
  /\ Local \in Zone /\ Unknown \in Zone
  /\ None # Allow /\ None # Drop /\ Allow # Drop
  /\ InferZone \in [Program -> [Session -> [BOOLEAN -> Zone]]]
  /\ Verdict \in [Program -> [Session -> [BOOLEAN -> [Zone -> {Allow, Drop}]]]]

ASSUME BoundAssumption ==
  /\ MaxGeneration \in Nat
  /\ MaxRevoked \in Nat \ {0}
  /\ MaxBlocks \in Nat \ {0}
  /\ CanLearnNat \in BOOLEAN
  /\ KernelFails \in BOOLEAN

VARIABLES
  sess,        \* RuntimeStore.byID and its tombstones
  fresh,       \* threads whose snapshot of their session has its Revision
  program, generation,
  blocks,      \* Runtime.blocks: the request that wrote the entry, or None
  expired,     \* sources whose entry is past ExpiresAt
  revokedIds,  \* Runtime.revoked
  guardMu,     \* holder of Runtime.guardMu
  kBlocks,     \* nft set source_blocks
  kRevoked,    \* nft set revoked_ctids
  th           \* the threads' program counters and locals

blockMap == <<blocks, expired>>
policy   == <<program, generation>>
revoking == <<revokedIds, guardMu>>
kernel   == <<kBlocks, kRevoked>>
vars     == <<sess, fresh, program, generation, blocks, expired, revokedIds,
              guardMu, kBlocks, kRevoked, th>>

(***************************************************************************)
(* Types.                                                                  *)
(***************************************************************************)
Decision == {None, Allow, Drop}

\* LOCAL is CacheNotEvaluated with the "local traffic" reason.
CacheState == {"NOT_EVALUATED", "LOCAL", "CACHED", "INVALIDATED"}

SessionRecord ==
  [st : {"unseen", "active", "closed"}, nat : BOOLEAN, zone : Zone,
   dec : Decision, gen : Nat, cache : CacheState, revoked : BOOLEAN]

\* What a caller keeps of the clone that a store method returns.
SessionView ==
  [nat : BOOLEAN, zone : Zone, gen : Nat, cache : CacheState,
   revoked : BOOLEAN]

Listed == [s : Session, v : SessionView]

Op == {"none", "observe", "close", "activate"} \cup Request

PC == {"idle", "program", "zones", "check", "localGen", "mark", "get", "read",
       "hit", "setBlocked", "publish", "list", "loop", "actInvalidate",
       "addGuard", "invalidate", "delGuard", "delEntry", "sweepGuard",
       "release", "releaseGuard", "revokeGuard", "revokeMap", "revokeEvict", "revokeGen",
       "markRevoked", "untrack", "undoGuard"}

Locals ==
  [pc : PC, op : Op, s : Session \cup {None}, v : SessionView, zone : Zone,
   gen : Nat, dec : Decision, retry : 0..2, src : Source \cup {None},
   todo : SUBSET Listed, srcs : SUBSET Source, rest : SUBSET Source,
   old : Session \cup {None}, changed : BOOLEAN, live : BOOLEAN]

\* Every variable, and every local of every goroutine, has its type; in
\* particular evaluate never starts a fourth attempt.
TypeOK ==
  /\ sess \in [Session -> SessionRecord]
  /\ fresh \subseteq Thread
  /\ program \in Program
  /\ generation \in Nat
  /\ blocks \in [Source -> Operators \cup {None}]
  /\ expired \subseteq Source
  /\ revokedIds \subseteq Session
  /\ guardMu \in Thread \cup {None}
  /\ kBlocks \subseteq Source
  /\ kRevoked \subseteq CtId
  /\ th \in [Thread -> Locals]

(***************************************************************************)
(* The store.                                                              *)
(***************************************************************************)
NoSession ==
  [st |-> "unseen", nat |-> FALSE, zone |-> Unknown, dec |-> None, gen |-> 0,
   cache |-> "NOT_EVALUATED", revoked |-> FALSE]

Active(s) == sess[s].st = "active"

View(r) ==
  [nat |-> r.nat, zone |-> r.zone, gen |-> r.gen, cache |-> r.cache,
   revoked |-> r.revoked]

\* Revision++: every snapshot of s goes stale.
Bump(s) == fresh \ {u \in Thread : th[u].s = s}

Invalidated(r, g) ==
  [r EXCEPT !.cache = "INVALIDATED", !.gen = g,
            !.dec = IF r.revoked THEN Drop ELSE None]

Decided(r, g, d) == [r EXCEPT !.cache = "CACHED", !.gen = g, !.dec = d]

Unavailable(r, g) == [r EXCEPT !.cache = "LOCAL", !.gen = g, !.dec = None]

Revoked(r, g) ==
  [r EXCEPT !.revoked = TRUE, !.cache = "INVALIDATED", !.gen = g, !.dec = Drop]

List(S) == {[s |-> s, v |-> View(sess[s])] : s \in {x \in S : Active(x)}}

Unrevoked == {s \in Session : ~sess[s].revoked}

(***************************************************************************)
(* The threads.                                                            *)
(***************************************************************************)
Idle ==
  [pc |-> "idle", op |-> "none", s |-> None, v |-> View(NoSession),
   zone |-> Unknown, gen |-> 0, dec |-> None, retry |-> 0, src |-> None,
   todo |-> {}, srcs |-> {}, rest |-> {}, old |-> None, changed |-> FALSE, live |-> FALSE]

Goto(t, l) == th' = [th EXCEPT ![t] = l]

\* What survives a call: the loops it is nested in.
Frame(l, pc, s) ==
  [Idle EXCEPT !.pc = pc, !.s = s, !.op = l.op, !.src = l.src,
               !.todo = l.todo, !.srcs = l.srcs]

\* The end of a loop body or of the whole request: the next session of the
\* list, then the next source, then the caller.
Return(l) ==
  IF l.todo # {} THEN Frame(l, "loop", None)
  ELSE IF l.srcs # {} THEN Frame(l, "list", None)
  ELSE Idle

\* evaluateObserved(value) branches on the zones of the value it is given.
EvaluateObserved(l, zone) ==
  Frame(l, IF zone = Local THEN "localGen" ELSE "get", l.s)

Init ==
  /\ sess = [s \in Session |-> NoSession]
  /\ fresh = {}
  /\ program \in Program
  /\ generation = 0
  /\ blocks = [src \in Source |-> None]
  /\ expired = {}
  /\ revokedIds = {}
  /\ guardMu = None
  /\ kBlocks = {}
  /\ kRevoked = {}
  /\ th = [t \in Thread |-> Idle]

-----------------------------------------------------------------------------
(***************************************************************************)
(* applyRecord, under applyMu.  A record creates the session or merges     *)
(* into it; a merge bumps the Revision only if something changed.          *)
(***************************************************************************)
NatOutcomes(s) == {sess[s].nat} \cup (IF CanLearnNat THEN {TRUE} ELSE {})

Observe(s, live) ==
  /\ th[Applier].pc = "idle"
  /\ sess[s].st # "closed"
  /\ \E nat \in NatOutcomes(s), touched \in BOOLEAN :
       LET changed == touched \/ nat # sess[s].nat \/ sess[s].st = "unseen"
           r       == [sess[s] EXCEPT !.st = "active", !.nat = nat]
       IN  /\ sess' = [sess EXCEPT ![s] = r]
           /\ fresh' = (IF changed THEN Bump(s) ELSE fresh) \cup {Applier}
           /\ Goto(Applier, [Idle EXCEPT !.pc = "program", !.op = "observe",
                                         !.s = s, !.v = View(r),
                                         !.changed = changed, !.live = live])
  /\ UNCHANGED <<policy, blockMap, revoking, kernel>>

ReadProgram ==
  LET l == th[Applier] IN
  /\ l.pc = "program"
  /\ Goto(Applier, [l EXCEPT !.pc = "zones",
                             !.zone = InferZone[program][l.s][l.v.nat]])
  /\ UNCHANGED <<sess, fresh, policy, blockMap, revoking, kernel>>

\* Only the holder of applyMu closes sessions, so the session is still there.
SetZones ==
  LET l     == th[Applier]
      moved == sess[l.s].zone # l.zone
      r     == [sess[l.s] EXCEPT !.zone = l.zone]
  IN
  /\ l.pc = "zones"
  /\ sess' = [sess EXCEPT ![l.s] = r]
  /\ fresh' = (IF moved THEN Bump(l.s) ELSE fresh) \ {Applier}
  /\ Goto(Applier, [l EXCEPT !.pc = "check", !.v = View(r),
                             !.changed = l.changed \/ moved \/ Applier \notin fresh])
  /\ UNCHANGED <<policy, blockMap, revoking, kernel>>

\* Mutation: a stale generation does not trigger an evaluation.
CheckEvaluateIgnoringGeneration ==
  LET l == th[Applier] IN
  /\ l.pc = "check"
  /\ Goto(Applier, IF l.changed \/ (l.live /\ l.v.cache # "CACHED")
                     THEN EvaluateObserved(l, l.v.zone) ELSE Idle)
  /\ UNCHANGED <<sess, fresh, policy, blockMap, revoking, kernel>>

\* A dump retries only what changed or what another generation decided.
CheckEvaluate ==
  LET l    == th[Applier]
      need == \/ l.changed
              \/ l.v.gen # generation
              \/ l.live /\ l.v.cache # "CACHED"
  IN
  /\ l.pc = "check"
  /\ Goto(Applier, IF need THEN EvaluateObserved(l, l.v.zone) ELSE Idle)
  /\ UNCHANGED <<sess, fresh, policy, blockMap, revoking, kernel>>

-----------------------------------------------------------------------------
(***************************************************************************)
(* evaluateObserved for local traffic, and evaluate.                       *)
(***************************************************************************)
LocalGeneration(t) ==
  /\ th[t].pc = "localGen"
  /\ Goto(t, [th[t] EXCEPT !.pc = "mark", !.gen = generation])
  /\ UNCHANGED <<sess, fresh, policy, blockMap, revoking, kernel>>

\* Neither Revoked nor a newer PolicyGeneration stops this write.
MarkEvaluationUnavailable(t) ==
  LET l == th[t]
      r == Unavailable(sess[l.s], l.gen)
  IN
  /\ l.pc = "mark"
  /\ Goto(t, Return(l))
  /\ IF Active(l.s) /\ r # sess[l.s]
       THEN sess' = [sess EXCEPT ![l.s] = r] /\ fresh' = Bump(l.s)
       ELSE UNCHANGED <<sess, fresh>>
  /\ UNCHANGED <<policy, blockMap, revoking, kernel>>

EvalGet(t) ==
  LET l == th[t] IN
  /\ l.pc = "get"
  /\ IF Active(l.s)
       THEN /\ Goto(t, [l EXCEPT !.pc = "read", !.v = View(sess[l.s])])
            /\ fresh' = fresh \cup {t}
       ELSE Goto(t, Return(l)) /\ UNCHANGED fresh
  /\ UNCHANGED <<sess, policy, blockMap, revoking, kernel>>

\* One read section of Runtime.mu; degraded only forces a re-evaluation.
EvalRead(t) ==
  LET l    == th[t]
      d    == Verdict[program][l.s][l.v.nat][l.v.zone]
      next == [Frame(l, "publish", l.s) EXCEPT !.gen = generation]
  IN
  /\ l.pc = "read"
  /\ \E degraded \in BOOLEAN :
       LET hit == /\ l.v.cache = "CACHED" /\ l.v.gen = generation
                  /\ ~degraded /\ ~l.v.revoked
       IN  CASE blocks[SrcOf[l.s]] # None ->
                  /\ Goto(t, [next EXCEPT !.pc = "setBlocked"])
                  /\ fresh' = fresh \ {t}
             [] blocks[SrcOf[l.s]] = None /\ l.s \in revokedIds ->
                  Goto(t, Return(l)) /\ fresh' = fresh \ {t}
             [] blocks[SrcOf[l.s]] = None /\ l.s \notin revokedIds /\ hit ->
                  /\ Goto(t, [next EXCEPT !.pc = "hit", !.retry = l.retry])
                  /\ fresh' = fresh \ {t}
             [] OTHER ->
                  /\ Goto(t, [next EXCEPT !.dec = d, !.retry = l.retry])
                  /\ UNCHANGED fresh
  /\ UNCHANGED <<sess, policy, blockMap, revoking, kernel>>

Retry(l) == [Frame(l, "get", l.s) EXCEPT !.retry = l.retry + 1]

EvalHit(t) ==
  LET l == th[t] IN
  /\ l.pc = "hit"
  /\ Goto(t, IF generation # l.gen /\ l.retry < 2 THEN Retry(l) ELSE Return(l))
  /\ UNCHANGED <<sess, fresh, policy, blockMap, revoking, kernel>>

\* Mutation: setDecision forgets v.Revoked.
MayDecideRevoked(s, g) == Active(s) /\ sess[s].gen <= g

\* setDecision's conditions other than the expected revision.
MayDecide(s, g) == Active(s) /\ ~sess[s].revoked /\ sess[s].gen <= g

\* The blocked branch calls SetDecision: no expected revision, no retry.
SetBlockedDecision(t) ==
  LET l == th[t] IN
  /\ l.pc = "setBlocked"
  /\ Goto(t, Return(l))
  /\ IF MayDecide(l.s, l.gen)
       THEN /\ sess' = [sess EXCEPT ![l.s] = Decided(sess[l.s], l.gen, Drop)]
            /\ fresh' = Bump(l.s)
       ELSE UNCHANGED <<sess, fresh>>
  /\ UNCHANGED <<policy, blockMap, revoking, kernel>>

\* A result that is not published is retried, then dropped.
PublishDecision(t, current, g, retries) ==
  LET l == th[t] IN
  /\ l.pc = "publish"
  /\ IF current /\ MayDecide(l.s, g)
       THEN /\ sess' = [sess EXCEPT ![l.s] = Decided(sess[l.s], g, l.dec)]
            /\ fresh' = Bump(l.s)
            /\ Goto(t, Return(l))
       ELSE /\ Goto(t, IF Active(l.s) /\ l.retry < retries THEN Retry(l)
                       ELSE Return(l))
            /\ fresh' = fresh \ {t}
            /\ UNCHANGED sess
  /\ UNCHANGED <<policy, blockMap, revoking, kernel>>

\* Mutations: the expected revision is not compared; the decision is stamped
\* with the generation current at the write.
SetDecisionUnconditionally(t) == PublishDecision(t, TRUE, th[t].gen, 2)
SetDecisionStampedLate(t) == PublishDecision(t, t \in fresh, generation, 2)

\* The revision, and the generation read with the program.
SetDecisionIfCurrent(t) == PublishDecision(t, t \in fresh, th[t].gen, 2)

Evaluation(t) ==
  \/ LocalGeneration(t) \/ MarkEvaluationUnavailable(t)
  \/ EvalGet(t) \/ EvalRead(t) \/ EvalHit(t)
  \/ SetBlockedDecision(t) \/ SetDecisionIfCurrent(t)

\* The request gate evaluates the session of a connection it opens.
GateEvaluate(t, s) ==
  /\ th[t].pc = "idle" /\ "evaluate" \in Requests[t]
  /\ sess[s].st # "unseen"
  /\ Goto(t, [Idle EXCEPT !.pc = "get", !.op = "evaluate", !.s = s])
  /\ UNCHANGED <<sess, fresh, policy, blockMap, revoking, kernel>>

-----------------------------------------------------------------------------
(***************************************************************************)
(* Close: a DESTROY event or a verified expiry closes one session, the     *)
(* sweep after a complete dump closes all that it missed; then             *)
(* releaseClosedSession runs for each.                                     *)
(***************************************************************************)
Close(S) ==
  /\ th[Applier].pc = "idle"
  /\ S # {} /\ \A s \in S : Active(s)
  /\ sess' = [s \in Session |->
                IF s \in S THEN [NoSession EXCEPT !.st = "closed"] ELSE sess[s]]
  /\ fresh' = fresh \ {u \in Thread : th[u].s \in S}
  /\ Goto(Applier, [Idle EXCEPT !.pc = "loop", !.op = "close", !.todo = List(S)])
  /\ UNCHANGED <<policy, blockMap, revoking, kernel>>

Untrack(cur) ==
  LET l     == [th[Applier] EXCEPT !.todo = @ \ {cur}]
      guard == cur.v.revoked \/ cur.s \in revokedIds
  IN
  /\ l.pc = "loop" /\ l.op = "close" /\ cur \in th[Applier].todo
  /\ revokedIds' = revokedIds \ {cur.s}
  /\ Goto(Applier, IF guard THEN Frame(l, "release", cur.s) ELSE Return(l))
  /\ UNCHANGED <<sess, fresh, policy, blockMap, guardMu, kernel>>

HasActiveRevokedConntrackID(ct) ==
  \E s \in Session : Active(s) /\ sess[s].revoked /\ CtOf[s] = ct

\* nft rejects the deletion of an absent element, which changes nothing either.
Outcomes == IF KernelFails THEN BOOLEAN ELSE {TRUE}

\* Mutation: the owner of a reused identifier is not looked up.
ReleaseUnchecked ==
  LET l == th[Applier] IN
  /\ l.pc = "release" /\ guardMu = None
  /\ Goto(Applier, [l EXCEPT !.pc = "releaseGuard"])
  /\ guardMu' = Applier
  /\ UNCHANGED <<sess, fresh, policy, blockMap, revokedIds, kernel>>

\* The check and the nft deletion are one section of guardMu.
ReleaseCheck ==
  LET l == th[Applier] IN
  /\ l.pc = "release" /\ guardMu = None
  /\ IF HasActiveRevokedConntrackID(CtOf[l.s])
       THEN Goto(Applier, Return(l)) /\ UNCHANGED guardMu
       ELSE /\ Goto(Applier, [l EXCEPT !.pc = "releaseGuard"])
            /\ guardMu' = Applier
  /\ UNCHANGED <<sess, fresh, policy, blockMap, revokedIds, kernel>>

ReleaseGuard ==
  LET l == th[Applier] IN
  /\ l.pc = "releaseGuard"
  /\ \E ok \in Outcomes :
       kRevoked' = IF ok THEN kRevoked \ {CtOf[l.s]} ELSE kRevoked
  /\ guardMu' = None
  /\ Goto(Applier, Return(l))
  /\ UNCHANGED <<sess, fresh, policy, blockMap, revokedIds, kBlocks>>

-----------------------------------------------------------------------------
(***************************************************************************)
(* activateWhileInspectionPaused.  Only the activator writes program and   *)
(* generation, so its arguments are the current ones throughout.           *)
(***************************************************************************)
Activate ==
  /\ th[Activator].pc = "idle"
  /\ generation < MaxGeneration
  /\ generation' = generation + 1
  /\ program' \in Program
  /\ Goto(Activator, [Idle EXCEPT !.pc = "list", !.op = "activate"])
  /\ UNCHANGED <<sess, fresh, blockMap, revoking, kernel>>

ActivateList ==
  /\ th[Activator].pc = "list"
  /\ Goto(Activator, Return([th[Activator] EXCEPT !.todo = List(Unrevoked)]))
  /\ UNCHANGED <<sess, fresh, policy, blockMap, revoking, kernel>>

ActivateSetZones(cur) ==
  LET l    == [th[Activator] EXCEPT !.todo = @ \ {cur}]
      zone == InferZone[program][cur.s][cur.v.nat]
  IN
  /\ l.pc = "loop" /\ cur \in th[Activator].todo
  /\ IF Active(cur.s)
       THEN /\ sess' = [sess EXCEPT ![cur.s].zone = zone]
            /\ fresh' = IF sess[cur.s].zone # zone THEN Bump(cur.s) ELSE fresh
            /\ Goto(Activator, [Frame(l, "actInvalidate", cur.s)
                                  EXCEPT !.zone = zone])
       ELSE Goto(Activator, Return(l)) /\ UNCHANGED <<sess, fresh>>
  /\ UNCHANGED <<policy, blockMap, revoking, kernel>>

\* Sessions the new program places in a local zone are re-marked at once.
ActivateInvalidate ==
  LET l == th[Activator]
      r == Invalidated(sess[l.s], generation)
  IN
  /\ l.pc = "actInvalidate"
  /\ IF Active(l.s)
       THEN /\ sess' = [sess EXCEPT ![l.s] = r]
            /\ fresh' = Bump(l.s)
            /\ Goto(Activator, IF l.zone = Local THEN EvaluateObserved(l, r.zone)
                               ELSE Return(l))
       ELSE Goto(Activator, Return(l)) /\ UNCHANGED <<sess, fresh>>
  /\ UNCHANGED <<policy, blockMap, revoking, kernel>>

-----------------------------------------------------------------------------
(***************************************************************************)
(* Temporary blocks: AddTemporaryBlockContext, RemoveTemporaryBlockContext *)
(* and SweepBlocks.                                                        *)
(***************************************************************************)
AddBlock(t, src) ==
  /\ th[t].pc = "idle" /\ "add" \in Requests[t]
  /\ blocks[src] # None \/ Cardinality({x \in Source : blocks[x] # None}) < MaxBlocks
  /\ blocks' = [blocks EXCEPT ![src] = t]
  /\ expired' = expired \ {src}
  /\ Goto(t, [Idle EXCEPT !.pc = "addGuard", !.op = "add", !.src = src])
  /\ UNCHANGED <<sess, fresh, policy, revoking, kernel>>

AddGuardOk(t) ==
  LET l == th[t] IN
  /\ l.pc = "addGuard"
  /\ kBlocks' = kBlocks \cup {l.src}
  /\ Goto(t, [l EXCEPT !.pc = "list", !.srcs = {l.src}])
  /\ UNCHANGED <<sess, fresh, policy, blockMap, revoking, kRevoked>>

\* The entry is withdrawn only if this request still owns it.
AddGuardFails(t) ==
  LET l   == th[t]
      own == blocks[l.src] = t
  IN
  /\ l.pc = "addGuard" /\ KernelFails
  /\ blocks' = IF own THEN [blocks EXCEPT ![l.src] = None] ELSE blocks
  /\ expired' = IF own THEN expired \ {l.src} ELSE expired
  /\ Goto(t, Idle)
  /\ UNCHANGED <<sess, fresh, policy, revoking, kernel>>

RemoveBlock(t, src) ==
  /\ th[t].pc = "idle" /\ "remove" \in Requests[t]
  /\ Goto(t, [Idle EXCEPT !.pc = "delGuard", !.op = "remove", !.src = src])
  /\ UNCHANGED <<sess, fresh, policy, blockMap, revoking, kernel>>

RemoveGuard(t) ==
  LET l == th[t] IN
  /\ l.pc = "delGuard"
  /\ \E ok \in Outcomes :
       IF ok /\ l.src \in kBlocks
         THEN /\ kBlocks' = kBlocks \ {l.src}
              /\ Goto(t, [l EXCEPT !.pc = "delEntry"])
         ELSE Goto(t, Idle) /\ UNCHANGED kBlocks
  /\ UNCHANGED <<sess, fresh, policy, blockMap, revoking, kRevoked>>

RemoveEntry(t) ==
  LET l == th[t] IN
  /\ l.pc = "delEntry"
  /\ blocks' = [blocks EXCEPT ![l.src] = None]
  /\ expired' = expired \ {l.src}
  /\ Goto(t, [l EXCEPT !.pc = "list", !.srcs = {l.src}])
  /\ UNCHANGED <<sess, fresh, policy, revoking, kernel>>

Sweep(t) ==
  /\ th[t].pc = "idle" /\ "sweep" \in Requests[t]
  /\ expired # {}
  /\ blocks' = [src \in Source |-> IF src \in expired THEN None ELSE blocks[src]]
  /\ expired' = {}
  /\ Goto(t, [Idle EXCEPT !.pc = "sweepGuard", !.op = "sweep",
                          !.srcs = expired, !.rest = expired])
  /\ UNCHANGED <<sess, fresh, policy, revoking, kernel>>

\* The sweeper ignores the result of the deletion.
SweepGuard(t, src) ==
  LET l == th[t] IN
  /\ l.pc = "sweepGuard" /\ src \in l.rest
  /\ \E ok \in Outcomes : kBlocks' = IF ok THEN kBlocks \ {src} ELSE kBlocks
  /\ Goto(t, [l EXCEPT !.rest = @ \ {src},
                       !.pc = IF l.rest = {src} THEN "list" ELSE "sweepGuard"])
  /\ UNCHANGED <<sess, fresh, policy, blockMap, revoking, kRevoked>>

\* AddTemporaryBlock lists every session, reevaluateSource skips revoked ones.
ListSource(t, src) ==
  LET l == th[t]
      S == {s \in Session : SrcOf[s] = src} \cap
             (IF l.op = "add" THEN Session ELSE Unrevoked)
  IN
  /\ l.pc = "list" /\ src \in l.srcs
  /\ Goto(t, Return([l EXCEPT !.todo = List(S), !.srcs = @ \ {src}]))
  /\ UNCHANGED <<sess, fresh, policy, blockMap, revoking, kernel>>

InvalidateRead(t, cur) ==
  LET l == [th[t] EXCEPT !.todo = @ \ {cur}] IN
  /\ l.pc = "loop" /\ cur \in th[t].todo
  /\ Goto(t, [Frame(l, "invalidate", cur.s) EXCEPT !.v = cur.v, !.gen = generation])
  /\ UNCHANGED <<sess, fresh, policy, blockMap, revoking, kernel>>

\* The generation is the one read before, which may no longer be current.
InvalidateStore(t) ==
  LET l == th[t] IN
  /\ l.pc = "invalidate"
  /\ IF Active(l.s)
       THEN /\ sess' = [sess EXCEPT ![l.s] = Invalidated(sess[l.s], l.gen)]
            /\ fresh' = Bump(l.s)
            /\ Goto(t, EvaluateObserved(l, l.v.zone))
       ELSE Goto(t, Return(l)) /\ UNCHANGED <<sess, fresh>>
  /\ UNCHANGED <<policy, blockMap, revoking, kernel>>

\* Time: ExpiresAt passes; the kernel element has its own timeout.
EntryTimeout(src) ==
  /\ blocks[src] # None /\ src \notin expired
  /\ expired' = expired \cup {src}
  /\ UNCHANGED <<sess, fresh, policy, blocks, revoking, kernel, th>>

KernelTimeout(src) ==
  /\ src \in kBlocks
  /\ kBlocks' = kBlocks \ {src}
  /\ UNCHANGED <<sess, fresh, policy, blockMap, revoking, kRevoked, th>>

-----------------------------------------------------------------------------
(***************************************************************************)
(* RevokeContext: Get, then everything else under guardMu.                 *)
(***************************************************************************)
Revoke(t, s) ==
  /\ th[t].pc = "idle" /\ "revoke" \in Requests[t]
  /\ Active(s)
  /\ Goto(t, [Idle EXCEPT !.pc = "revokeGuard", !.op = "revoke", !.s = s])
  /\ UNCHANGED <<sess, fresh, policy, blockMap, revoking, kernel>>

RevokeGuard(t) ==
  LET l == th[t] IN
  /\ l.pc = "revokeGuard" /\ guardMu = None
  /\ \E ok \in Outcomes :
       IF ok
         THEN /\ guardMu' = t
              /\ kRevoked' = kRevoked \cup {CtOf[l.s]}
              /\ Goto(t, [l EXCEPT !.pc = "revokeMap"])
         ELSE Goto(t, Idle) /\ UNCHANGED <<guardMu, kRevoked>>
  /\ UNCHANGED <<sess, fresh, policy, blockMap, revokedIds, kBlocks>>

\* At the limit, map iteration picks an arbitrary victim.
RevokeMap(t) ==
  LET l == th[t] IN
  /\ l.pc = "revokeMap"
  /\ \/ /\ Cardinality(revokedIds) < MaxRevoked
        /\ revokedIds' = revokedIds \cup {l.s}
        /\ Goto(t, [l EXCEPT !.pc = "revokeGen"])
     \/ /\ Cardinality(revokedIds) >= MaxRevoked
        /\ \E old \in revokedIds :
             /\ revokedIds' = (revokedIds \ {old}) \cup {l.s}
             /\ Goto(t, [l EXCEPT !.pc = "revokeEvict", !.old = old])
  /\ UNCHANGED <<sess, fresh, policy, blockMap, guardMu, kernel>>

RevokeEvict(t) ==
  LET l == th[t] IN
  /\ l.pc = "revokeEvict"
  /\ \E ok \in Outcomes :
       kRevoked' = IF ok THEN kRevoked \ {CtOf[l.old]} ELSE kRevoked
  /\ Goto(t, [l EXCEPT !.pc = "revokeGen", !.old = None])
  /\ UNCHANGED <<sess, fresh, policy, blockMap, revoking, kBlocks>>

RevokeGeneration(t) ==
  LET l == th[t] IN
  /\ l.pc = "revokeGen"
  /\ Goto(t, [l EXCEPT !.pc = "markRevoked", !.gen = generation])
  /\ UNCHANGED <<sess, fresh, policy, blockMap, revoking, kernel>>

MarkRevoked(t) ==
  LET l == th[t] IN
  /\ l.pc = "markRevoked"
  /\ IF Active(l.s)
       THEN /\ sess' = [sess EXCEPT ![l.s] = Revoked(sess[l.s], l.gen)]
            /\ fresh' = Bump(l.s)
            /\ Goto(t, Idle)
            /\ guardMu' = None
       ELSE /\ Goto(t, [l EXCEPT !.pc = "untrack"])
            /\ UNCHANGED <<sess, fresh, guardMu>>
  /\ UNCHANGED <<policy, blockMap, revokedIds, kernel>>

\* The session closed meanwhile: take the entry and the guard back.
RevokeUntrack(t) ==
  LET l == th[t] IN
  /\ l.pc = "untrack"
  /\ revokedIds' = revokedIds \ {l.s}
  /\ Goto(t, [l EXCEPT !.pc = "undoGuard"])
  /\ UNCHANGED <<sess, fresh, policy, blockMap, guardMu, kernel>>

\* Mutation: the guard of a session that closed meanwhile is not taken back.
RevokeKeepsGuard(t) ==
  /\ th[t].pc = "undoGuard"
  /\ guardMu' = None
  /\ Goto(t, Idle)
  /\ UNCHANGED <<sess, fresh, policy, blockMap, revokedIds, kernel>>

RevokeUndo(t) ==
  LET l == th[t] IN
  /\ l.pc = "undoGuard"
  /\ \E ok \in Outcomes :
       kRevoked' = IF ok THEN kRevoked \ {CtOf[l.s]} ELSE kRevoked
  /\ guardMu' = None
  /\ Goto(t, Idle)
  /\ UNCHANGED <<sess, fresh, policy, blockMap, revokedIds, kBlocks>>

-----------------------------------------------------------------------------
ApplierStep ==
  \/ ReadProgram \/ SetZones \/ CheckEvaluate
  \/ \E cur \in th[Applier].todo : Untrack(cur)
  \/ ReleaseCheck \/ ReleaseGuard
  \/ Evaluation(Applier)

ActivatorStep ==
  \/ ActivateList \/ ActivateInvalidate
  \/ \E cur \in th[Activator].todo : ActivateSetZones(cur)
  \/ Evaluation(Activator)

OperatorStep(t) ==
  \/ AddGuardOk(t) \/ AddGuardFails(t)
  \/ RemoveGuard(t) \/ RemoveEntry(t)
  \/ \E src \in Source : SweepGuard(t, src) \/ ListSource(t, src)
  \/ \E cur \in th[t].todo : InvalidateRead(t, cur)
  \/ InvalidateStore(t)
  \/ RevokeGuard(t) \/ RevokeMap(t) \/ RevokeEvict(t) \/ RevokeGeneration(t)
  \/ MarkRevoked(t) \/ RevokeUntrack(t) \/ RevokeUndo(t)
  \/ Evaluation(t)

Issue(t) ==
  \/ \E s \in Session : Revoke(t, s) \/ GateEvaluate(t, s)
  \/ \E src \in Source : AddBlock(t, src) \/ RemoveBlock(t, src)
  \/ Sweep(t)

Next ==
  \/ \E s \in Session, live \in BOOLEAN : Observe(s, live)
  \/ \E S \in SUBSET Session : Close(S)
  \/ Activate
  \/ ApplierStep
  \/ ActivatorStep
  \/ \E t \in Operators : Issue(t) \/ OperatorStep(t)
  \/ \E src \in Source : EntryTimeout(src) \/ KernelTimeout(src)

Spec == Init /\ [][Next]_vars

\* Goroutines run; every resync pass observes a live flow or closes a lost one.
Fairness ==
  /\ WF_vars(ApplierStep)
  /\ WF_vars(ActivatorStep)
  /\ \A t \in Operators : WF_vars(OperatorStep(t))
  /\ \A s \in Session :
       SF_vars((\E live \in BOOLEAN : Observe(s, live)) \/ Close({s}))

LiveSpec == Spec /\ Fairness

-----------------------------------------------------------------------------
(***************************************************************************)
(* Properties.                                                             *)
(***************************************************************************)
\* The request that wrote the block of src is still being served.
AddUnderway(src) == th[blocks[src]].op = "add" /\ th[blocks[src]].src = src

\* Once AddTemporaryBlockContext has returned, no session of the source has an
\* allow decision while the block stays, whatever evaluator was running when the
\* block was written ("temporary block overrides cached allow").
BlockOverridesAllow ==
  \A s \in Session :
    /\ Active(s)
    /\ blocks[SrcOf[s]] # None
    /\ ~AddUnderway(SrcOf[s])
    => sess[s].dec # Allow

\* No evaluator, block or activation puts an allow decision back on a revoked
\* session, even one whose entry was evicted from Runtime.revoked.
RevokedNeverAllowed ==
  \A s \in Session : sess[s].revoked => sess[s].dec # Allow

\* An allow decision stamped with the current generation was made by the
\* current program: evaluate publishes the generation it read with the program.
AllowFromCurrentProgram ==
  \A s \in Session :
    sess[s].cache = "CACHED" /\ sess[s].gen = generation /\ sess[s].dec = Allow
      => \E nat \in BOOLEAN, z \in Zone : Verdict[program][s][nat][z] = Allow

\* Only the eviction and the undo of a revocation take the kernel guard from
\* a session that stays revoked: the cleanup of a closed session whose
\* conntrack identifier was reused leaves it alone.
GuardKept ==
  \A s \in Session :
    /\ Active(s) /\ sess[s].revoked /\ sess'[s].revoked
    /\ CtOf[s] \in kRevoked /\ CtOf[s] \notin kRevoked'
    => \E t \in Operators : th[t].pc \in {"revokeEvict", "undoGuard"}

GuardOutlivesClose == [][GuardKept]_vars

AllIdle == \A t \in Thread : th[t].pc = "idle"

\* With a kernel that obeys, no guard is left on an identifier that no active
\* revoked session has: it would drop the flow that gets the identifier next.
NoLeakedGuard ==
  AllIdle => \A ct \in kRevoked : HasActiveRevokedConntrackID(ct)

\* A session left behind by an activation is stamped with the current
\* generation, closed or revoked in the end.
StaleGenerationHeals ==
  \A s \in Session :
    (Active(s) /\ sess[s].gen # generation)
      ~> (~Active(s) \/ sess[s].revoked \/ sess[s].gen = generation)

-----------------------------------------------------------------------------
(***************************************************************************)
(* What a comment says and the code does not keep.                         *)
(***************************************************************************)
\* runtime_store.go:152: cleanup "must not delete an element now owned by a newer
\* revoked session".
CleanupSparesOtherOwner ==
  [][\A t \in Operators, s \in Session :
       /\ th[t].pc = "undoGuard" /\ th'[t].pc # "undoGuard"
       /\ s # th[t].s /\ Active(s) /\ sess[s].revoked /\ CtOf[s] \in kRevoked
       => CtOf[s] \in kRevoked']_vars

=============================================================================
