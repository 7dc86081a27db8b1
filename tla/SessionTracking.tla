--------------------------- MODULE SessionTracking ---------------------------
(***************************************************************************)
(* How ngfw-engine keeps its session table equal to the kernel's conntrack *)
(* table: the netlink source (internal/conntrack), the bounded event queue *)
(* and the resynchronisation of internal/engine/runtime.go, and the        *)
(* identity indexes of internal/session/runtime_store.go.                  *)
(*                                                                         *)
(* The kernel creates and destroys flows at any time.  Its notifications   *)
(* pass a socket that overruns and a queue that fills up; a dump walks the *)
(* table one slot after the other while both go on.  applyMu serialises    *)
(* whoever writes the store, so an event, a visited record and a verified  *)
(* probe are one step each, and only a dump holds the mutex across steps.  *)
(*                                                                         *)
(* A session's decision is the business of SessionRuntime.  Here a session *)
(* is the conntrack identity it stands for, plus a history variable, the   *)
(* flows whose records it has absorbed.  One boot, one network namespace   *)
(* and one conntrack zone.                                                 *)
(***************************************************************************)
EXTENDS Naturals, Sequences, FiniteSets, TLC

CONSTANTS
  Flow,          \* conntrack entries; each is created and destroyed once
  Scenarios,     \* the instances to check: [key, stamp, aliases, env], see below
  OmitReply,     \* whether an event may omit the reply tuple
  MaxSessions,   \* RuntimeLimits.MaxSessions
  MaxClosed,     \* RuntimeLimits.MaxClosed
  QueueSize,     \* RuntimeLimits.MaxEventQueue
  SocketSize,    \* messages the netlink receive buffer holds
  None

\* A tuple is <<source, destination>>; the kernel never has two live flows that
\* share an identifier or a tuple.
Reverse(t) == <<t[2], t[1]>>

VARIABLES
  key,           \* the table: [id, start, orig, reply] of every flow
  stamp,         \* the records that carry a start time: none ("off"), DESTROY
                 \* and dump records ("partial"), all ("on")
  MaxAliases,    \* RuntimeLimits.MaxAliases
  env,           \* which of these happen: "update" (events of a live flow), "cut"
                 \* (incomplete dumps), "failure" (of the event source), "expiry"
                 \* and "refresh" (probes)
  live, dead,    \* the kernel: current and past flows
  socket,        \* messages in the receive buffer
  overrun,       \* ENOBUFS is pending
  sourceUp,      \* the receive loop runs
  queue,         \* Runtime.queue
  byID,          \* RuntimeStore.byID; byTuple is derived from it
  byIdentity, identities,   \* byIdentity and identitiesBySession
  byConntrack, conntracks,  \* byConntrack and conntracksBySession
  tombstones,    \* RuntimeStore.tombstones, oldest first
  started, consuming, degraded, resyncing,
  dump,          \* the goroutine in Start or resync
  probe,         \* verifyExpiredCandidate or RefreshSessionCounters
  lossy          \* history: an event was lost, the store was full, or the first
                 \* dump failed

config == <<key, stamp, MaxAliases, env>>
kernel == <<config, live, dead>>
source == <<socket, overrun, sourceUp, queue>>
index  == <<byIdentity, identities, byConntrack, conntracks>>
store  == <<byID, index, tombstones>>
health == <<started, consuming, degraded, resyncing>>
vars   == <<kernel, source, store, health, dump, probe, lossy>>

(***************************************************************************)
(* Identities.  0 stands for an absent identifier or start time.           *)
(***************************************************************************)
Identity(f, stamped) ==
  [id |-> key[f].id, start |-> IF stamped THEN key[f].start ELSE 0, orig |-> key[f].orig]

EventStamped(kind) == stamp = "on" \/ (stamp = "partial" /\ kind = "DESTROY")
DumpStamped == stamp # "off"

Record(f, stamped, reply) ==
  [flow |-> f, ident |-> Identity(f, stamped), reply |-> IF reply THEN key[f].reply ELSE None]

\* flow.Aliases as indexLocked stores them: the first MaxAliases distinct views
\* a packet of the session may show (original, reply, translated, policy).
Views(s) ==
  LET policy == <<s.ident.orig[1], s.reply[1]>>
  IN  <<s.ident.orig, Reverse(s.ident.orig)>> \o
      (IF s.reply = None THEN <<>>
       ELSE <<s.reply, Reverse(s.reply), policy, Reverse(policy)>>)

Aliases(s) ==
  LET v == Views(s)
  IN  {v[i] : i \in {j \in DOMAIN v : Cardinality({v[k] : k \in 1..j}) <= MaxAliases}}

Conflict(a, b) == a # 0 /\ b # 0 /\ a # b

\* resolveTupleLocked: exactly one session claims the tuple.
ResolveTuple(t) ==
  LET owners == {s \in DOMAIN byID : t \in Aliases(byID[s])}
  IN  IF Cardinality(owners) = 1 THEN CHOOSE s \in owners : TRUE ELSE None

TupleCandidate(ident) ==
  LET s == ResolveTuple(ident.orig)
  IN  IF s = None THEN None
      ELSE IF \/ Conflict(byID[s].ident.id, ident.id)
              \/ Conflict(byID[s].ident.start, ident.start) THEN None ELSE s

\* Mutation: the start time is not compared.
ResolveIgnoringStart(ident) ==
  IF ident \in DOMAIN byIdentity THEN byIdentity[ident]
  ELSE IF ident.id \in DOMAIN byConntrack
    THEN LET s == byConntrack[ident.id]
         IN  IF byID[s].ident.orig # ident.orig THEN None ELSE s
  ELSE TupleCandidate(ident)

\* resolveIdentityLocked: the exact identity, then the identifier, then the tuple.
ResolveIdentity(ident) ==
  IF ident \in DOMAIN byIdentity THEN byIdentity[ident]
  ELSE IF ident.id # 0 /\ ident.id \in DOMAIN byConntrack
    THEN LET s == byConntrack[ident.id]
         IN  IF \/ byID[s].ident.orig # ident.orig
                \/ Conflict(byID[s].ident.start, ident.start) THEN None ELSE s
  ELSE TupleCandidate(ident)

\* tombstoneIdentityMatches some tombstone.
Stale(ident) ==
  \E i \in DOMAIN tombstones :
    /\ tombstones[i].id = ident.id /\ tombstones[i].orig = ident.orig
    /\ ~Conflict(tombstones[i].start, ident.start)

(***************************************************************************)
(* Index maintenance, inside the store's critical section.                 *)
(***************************************************************************)
Without(f, gone) == [k \in DOMAIN f \ gone |-> f[k]]
Elements(seq) == {seq[i] : i \in DOMAIN seq}
ListOf(lists, s) == IF s \in DOMAIN lists THEN lists[s] ELSE <<>>

Remembered(list, x) ==
  LET l == IF x \in Elements(list) THEN list ELSE Append(list, x)
  IN  IF Len(l) > MaxAliases THEN Tail(l) ELSE l

\* The entry for x in one index, and the oldest entry of s dropped at the limit.
Indexed(ix, lists, s, x) ==
  LET gone == Elements(ListOf(lists, s)) \ Elements(Remembered(ListOf(lists, s), x))
      new  == (x :> s) @@ ix
  IN  Without(new, {k \in gone : k \in DOMAIN new /\ new[k] = s})

\* rememberIdentityLocked.  An identity moves to the session that last showed
\* it; an identifier stays with the first session that claimed it.
RememberIdentity(s, ident) ==
  /\ IF ident \in DOMAIN byIdentity /\ byIdentity[ident] = s
       THEN UNCHANGED <<byIdentity, identities>>
       ELSE /\ byIdentity' = Indexed(byIdentity, identities, s, ident)
            /\ identities' = (s :> Remembered(ListOf(identities, s), ident)) @@ identities
  /\ IF ident.id = 0 \/ (ident.id \in DOMAIN byConntrack /\ byConntrack[ident.id] # s)
       THEN UNCHANGED <<byConntrack, conntracks>>
       ELSE /\ byConntrack' = Indexed(byConntrack, conntracks, s, ident.id)
            /\ conntracks' = (s :> Remembered(ListOf(conntracks, s), ident.id)) @@ conntracks

\* removeIndexesLocked: what the session's own lists name, and still is its.
RemoveIndexes(gone) ==
  /\ byIdentity' = Without(byIdentity, {k \in DOMAIN byIdentity : /\ byIdentity[k] \in gone
                                         /\ k \in Elements(ListOf(identities, byIdentity[k]))})
  /\ byConntrack' = Without(byConntrack, {k \in DOMAIN byConntrack : /\ byConntrack[k] \in gone
                                           /\ k \in Elements(ListOf(conntracks, byConntrack[k]))})
  /\ identities' = Without(identities, gone)
  /\ conntracks' = Without(conntracks, gone)

NoProbe == [pc |-> "idle", kind |-> None, sid |-> None, ident |-> None, result |-> None, stale |-> FALSE]

\* A probe whose recheck will fail: what it asked and was told matters no more.
Outdated == [NoProbe EXCEPT !.pc = "answered", !.stale = TRUE]

\* LastObservedAt moves on: an expiry snapshot of the session, or an answer
\* already received for it, is out of date.
Touched(s) ==
  IF probe.sid = s /\ (probe.kind = "expiry" \/ probe.pc = "answered") THEN Outdated ELSE probe

(***************************************************************************)
(* ApplyObserved: merge into the session a record belongs to, or create.   *)
(***************************************************************************)
\* sessionID hashes the identity; a second session with it gets a suffix.
NewID(ident) ==
  [ident |-> ident,
   suffix |-> CHOOSE n \in 0..MaxSessions :
     /\ [ident |-> ident, suffix |-> n] \notin DOMAIN byID
     /\ \A m \in 0..(n - 1) : [ident |-> ident, suffix |-> m] \in DOMAIN byID]

Full == Cardinality(DOMAIN byID) >= MaxSessions

\* The session a record is applied to: None is ErrStaleEvent or ErrRuntimeCapacity.
Target(ident) ==
  LET s == ResolveIdentity(ident)  t == TupleCandidate(ident) IN
  IF s # None THEN s
  ELSE IF Stale(ident) THEN None
  ELSE IF t # None THEN t
  ELSE IF Full THEN None ELSE NewID(ident)

\* mergeLocked: what the session learns from a record.
Learn(s, r) ==
  [s EXCEPT !.ident.start = IF @ = 0 THEN r.ident.start ELSE @,
            !.ident.id    = IF @ = 0 THEN r.ident.id ELSE @,
            !.reply       = IF r.reply # None THEN r.reply ELSE @,
            !.flows       = @ \cup {r.flow}]

ApplyRecord(r, s) ==
  IF s = None
    THEN /\ degraded' = (degraded \/ ~Stale(r.ident))
         /\ lossy' = (lossy \/ ~Stale(r.ident))
         /\ UNCHANGED store
    ELSE /\ byID' = (s :> IF s \in DOMAIN byID THEN Learn(byID[s], r)
                          ELSE [ident |-> r.ident, reply |-> r.reply, flows |-> {r.flow}]) @@ byID
         /\ RememberIdentity(s, r.ident)
         /\ UNCHANGED <<tombstones, degraded, lossy>>

\* LastObservedAt.After(dumpStarted), for a dump under way.
Since(s) == dump.since \cup IF dump.pc \in {"lock", "dump"} THEN {s} \ {None} ELSE {}

(***************************************************************************)
(* Closing.  appendClosedLocked keeps the last MaxClosed tombstones; a map *)
(* iteration closes several sessions in any order.                         *)
(***************************************************************************)
Orders(gone) ==
  {o \in [1..Cardinality(gone) -> gone] : \A i, j \in DOMAIN o : i # j => o[i] # o[j]}

Trimmed(list) ==
  IF Len(list) > MaxClosed THEN SubSeq(list, Len(list) - MaxClosed + 1, Len(list)) ELSE list

CloseSessions(gone) ==
  /\ \E o \in Orders(gone) :
       tombstones' = Trimmed(tombstones \o [i \in DOMAIN o |-> byID[o[i]].ident])
  /\ byID' = Without(byID, gone)
  /\ RemoveIndexes(gone)

Closed(gone) == IF probe.sid \in gone THEN Outdated ELSE probe

\* Mutation: a DESTROY ends only the session of exactly its identity.
DestroyedExact(ident) == IF ident \in DOMAIN byIdentity THEN {byIdentity[ident]} ELSE {}

\* Mutation: a DESTROY ends whatever session its tuple now shows.
DestroyedByTuple(ident) == {ResolveTuple(ident.orig)} \ {None}

\* RuntimeStore.Close: the sessions (one or none) that a DESTROY ends.
Destroyed(ident) ==
  LET found == ResolveIdentity(ident)
      s == IF found # None THEN found
           ELSE IF ident.id # 0 \/ Stale(ident) THEN None ELSE ResolveTuple(ident.orig)
  IN  {t \in {s} \ {None} : /\ ~Conflict(byID[t].ident.start, ident.start)
                            /\ ~Conflict(byID[t].ident.id, ident.id)
                            /\ byID[t].ident.orig = ident.orig}

\* The kernel keeps identifiers and tuples of live flows apart.
Distinct(f, g) ==
  /\ key[f].id # key[g].id
  /\ {key[f].orig, key[f].reply} \cap {key[g].orig, key[g].reply} = {}

Init ==
  /\ \E sc \in Scenarios : key = sc.key /\ stamp = sc.stamp /\ MaxAliases = sc.aliases /\ env = sc.env
  /\ live = {} /\ dead = {}
  /\ socket = <<>> /\ overrun = FALSE /\ sourceUp = FALSE /\ queue = <<>>
  /\ byID = <<>> /\ byIdentity = <<>> /\ identities = <<>>
  /\ byConntrack = <<>> /\ conntracks = <<>> /\ tombstones = <<>>
  /\ started = FALSE /\ consuming = FALSE /\ degraded = FALSE /\ resyncing = FALSE
  /\ dump = [pc |-> "idle", todo |-> {}, seen |-> {}, since |-> {}, loss |-> FALSE]
  /\ probe = NoProbe
  /\ lossy = FALSE

-----------------------------------------------------------------------------
(***************************************************************************)
(* The kernel and its multicast socket.                                    *)
(***************************************************************************)
Notify(kind, f) ==
  \E reply \in (IF OmitReply THEN BOOLEAN ELSE {TRUE}) :
    /\ socket' = IF sourceUp /\ Len(socket) < SocketSize
                   THEN Append(socket, [kind |-> kind, rec |-> Record(f, EventStamped(kind), reply)])
                   ELSE socket
    /\ overrun' = (overrun \/ (sourceUp /\ Len(socket) = SocketSize))

FlowNew(f) ==
  /\ f \notin live \cup dead
  /\ \A g \in live : Distinct(f, g)
  /\ live' = live \cup {f}
  /\ Notify("NEW", f)
  /\ UNCHANGED <<config, dead, sourceUp, queue, store, health, dump, probe, lossy>>

FlowUpdate(f) ==
  /\ "update" \in env /\ f \in live /\ sourceUp
  /\ Notify("UPDATE", f)
  /\ UNCHANGED <<kernel, sourceUp, queue, store, health, dump, probe, lossy>>

FlowDestroy(f) ==
  /\ f \in live
  /\ live' = live \ {f} /\ dead' = dead \cup {f}
  /\ Notify("DESTROY", f)
  /\ UNCHANGED <<config, sourceUp, queue, store, health, dump, probe, lossy>>

-----------------------------------------------------------------------------
(***************************************************************************)
(* receiveConntrackEvents and the sink.                                    *)
(***************************************************************************)
\* lossVersion moves on under a dump that has read it.
LossCounted == [dump EXCEPT !.loss = @ \/ dump.pc \in {"lock", "dump"}]

\* ReportLoss: degraded, and a resync unless one is under way.
Report ==
  /\ degraded' = TRUE /\ lossy' = TRUE
  /\ resyncing' = (resyncing \/ started)
  /\ dump' = IF started /\ ~resyncing THEN [dump EXCEPT !.pc = "begin"] ELSE LossCounted
  /\ UNCHANGED <<kernel, queue, store, started, consuming, probe>>

\* TryEnqueue; when the queue is full, ReportLoss follows.  lossVersion grows in
\* both, so a dump that begins between the two is incomplete either way.
Receive ==
  /\ sourceUp /\ ~overrun /\ socket # <<>>
  /\ socket' = Tail(socket)
  /\ \/ /\ Len(queue) < QueueSize
        /\ queue' = Append(queue, Head(socket))
        /\ UNCHANGED <<kernel, store, health, dump, probe, lossy>>
     \/ Len(queue) = QueueSize /\ Report
  /\ UNCHANGED <<overrun, sourceUp>>

\* ENOBUFS, or a datagram that does not decode.
ReceiveOverrun ==
  /\ sourceUp /\ overrun
  /\ overrun' = FALSE
  /\ Report
  /\ UNCHANGED <<socket, sourceUp>>

\* Any other read error is fatal: eventSourceFailed, and the socket is closed.
SourceFails ==
  /\ "failure" \in env /\ sourceUp
  /\ sourceUp' = FALSE /\ socket' = <<>> /\ overrun' = FALSE
  /\ Report

-----------------------------------------------------------------------------
(***************************************************************************)
(* Start and resync.                                                       *)
(***************************************************************************)
Start ==
  /\ ~started
  /\ \/ /\ started' = TRUE /\ resyncing' = TRUE /\ sourceUp' = TRUE
        /\ dump' = [dump EXCEPT !.pc = "begin"]
        /\ UNCHANGED degraded
     \/ \* Subscribe fails
        /\ degraded' = TRUE
        /\ UNCHANGED <<started, resyncing, sourceUp, dump>>
  /\ UNCHANGED <<kernel, socket, overrun, queue, store, consuming, probe, lossy>>

PeriodicResync ==
  /\ consuming /\ ~resyncing
  /\ resyncing' = TRUE
  /\ dump' = [dump EXCEPT !.pc = "begin"]
  /\ UNCHANGED <<kernel, source, store, started, consuming, degraded, probe, lossy>>

\* dumpStarted and lossBefore are read; then the goroutine waits for applyMu.
DumpBegin ==
  /\ dump.pc = "begin"
  /\ dump' = [pc |-> "lock", todo |-> Flow, seen |-> {}, since |-> {}, loss |-> FALSE]
  /\ UNCHANGED <<kernel, source, store, health, probe, lossy>>

DumpLock ==
  /\ dump.pc = "lock"
  /\ dump' = [dump EXCEPT !.pc = "dump"]
  /\ UNCHANGED <<kernel, source, store, health, probe, lossy>>

\* One slot: a record is in the dump iff its flow lives when the walk gets there.
DumpVisit(f) ==
  /\ dump.pc = "dump" /\ f \in dump.todo
  /\ IF f \in live
       THEN \E r \in {Record(f, DumpStamped, TRUE)} : \E s \in {Target(r.ident)} :
              /\ ApplyRecord(r, s) /\ probe' = Touched(s)
              /\ dump' = [dump EXCEPT !.todo = @ \ {f}, !.seen = @ \cup {r.ident}, !.since = Since(s)]
       ELSE /\ dump' = [dump EXCEPT !.todo = @ \ {f}]
            /\ UNCHANGED <<store, degraded, lossy, probe>>
  /\ UNCHANGED <<kernel, source, started, consuming, resyncing>>

DumpDone == [dump EXCEPT !.pc = IF consuming THEN "clear" ELSE "idle",
                         !.todo = {}, !.seen = {}, !.since = {}, !.loss = FALSE]

\* The dump is cut short, interrupted, or overlaps a loss: nothing is concluded
\* from what it did not contain.
DumpIncomplete ==
  /\ dump.pc = "dump"
  /\ ~dump.loss => "cut" \in env
  /\ degraded' = TRUE /\ resyncing' = FALSE /\ consuming' = TRUE
  /\ lossy' = (lossy \/ ~consuming)
  /\ dump' = [DumpDone EXCEPT !.pc = "idle"]
  /\ UNCHANGED <<kernel, source, store, started, probe>>


\* ReconcileMissing: neither in the dump nor observed since it began.
Missing == DOMAIN byID \ ({ResolveIdentity(i) : i \in dump.seen} \cup dump.since)

DumpComplete ==
  /\ dump.pc = "dump" /\ dump.todo = {} /\ ~dump.loss
  /\ \E gone \in {Missing} : CloseSessions(gone) /\ probe' = Closed(gone)
  /\ consuming' = TRUE
  /\ resyncing' = consuming
  /\ dump' = DumpDone
  /\ UNCHANGED <<kernel, source, started, degraded, lossy>>

\* After the apply lock is released, resync declares the view healthy again.
DumpClear ==
  /\ dump.pc = "clear"
  /\ degraded' = (degraded /\ ~sourceUp)
  /\ dump' = [dump EXCEPT !.pc = "release"]
  /\ UNCHANGED <<kernel, source, store, started, consuming, resyncing, probe, lossy>>

DumpRelease ==
  /\ dump.pc = "release"
  /\ resyncing' = FALSE
  /\ dump' = [dump EXCEPT !.pc = "idle"]
  /\ UNCHANGED <<kernel, source, store, started, consuming, degraded, probe, lossy>>

-----------------------------------------------------------------------------
\* consume and applyEvent, when applyMu is free.
Consume ==
  /\ consuming /\ queue # <<>> /\ dump.pc # "dump"
  /\ queue' = Tail(queue)
  /\ LET ev == Head(queue) IN
     IF ev.kind = "DESTROY"
       THEN \E gone \in {Destroyed(ev.rec.ident)} :
              /\ CloseSessions(gone) /\ probe' = Closed(gone)
              /\ UNCHANGED <<degraded, dump, lossy>>
       ELSE \E s \in {Target(ev.rec.ident)} :
              /\ ApplyRecord(ev.rec, s) /\ probe' = Touched(s)
              /\ dump' = [dump EXCEPT !.since = Since(s)]
  /\ UNCHANGED <<kernel, socket, overrun, sourceUp, started, consuming, resyncing>>

(***************************************************************************)
(* Expiry verification and counter refresh: a snapshot, a targeted Get     *)
(* outside all locks, and a recheck under applyMu.                         *)
(***************************************************************************)
\* The deadline of any session, or the retry time of a deferred one, may have
\* passed: ExpiredCandidates returns whatever time has made of it.
ProbeStart(kind, s) ==
  /\ kind \in env /\ consuming /\ probe.pc = "idle" /\ s \in DOMAIN byID
  /\ probe' = [NoProbe EXCEPT !.pc = "get", !.kind = kind, !.sid = s, !.ident = byID[s].ident]
  /\ UNCHANGED <<kernel, source, store, health, dump, lossy>>

\* queryConntrackFlow looks the original tuple up in both directions; a flow
\* with another identifier or start is ErrAmbiguousIdentity.
Get(ident) ==
  LET hit == {f \in live : ident.orig \in {key[f].orig, key[f].reply}}
  IN  IF hit = {} THEN [kind |-> "absent"]
      ELSE LET f == CHOOSE f \in hit : TRUE
               r == Record(f, DumpStamped, TRUE)
           IN  IF /\ r.ident.orig = ident.orig
                  /\ ident.id # 0 => r.ident.id = ident.id
                  /\ ident.start # 0 => r.ident.start = ident.start
                 THEN [kind |-> "found", rec |-> r] ELSE [kind |-> "unavailable"]

\* The answer, or a timeout or transport error instead of it.
ProbeGet ==
  /\ probe.pc = "get"
  /\ \E answer \in {Get(probe.ident), [kind |-> "unavailable"]} :
       probe' = [probe EXCEPT !.pc = "answered", !.result = answer]
  /\ UNCHANGED <<kernel, source, store, health, dump, lossy>>

\* ExpiryCandidateCurrent, and the recheck of RefreshSessionCounters.
CandidateCurrent == ~probe.stale /\ byID[probe.sid].ident = probe.ident

\* The answer is applied under applyMu, and the goroutine ends.  Only an expiry
\* probe draws a conclusion from an answer without a record.
ProbeApply ==
  LET kind == IF CandidateCurrent THEN probe.result.kind ELSE "outdated" IN
  /\ probe.pc = "answered" /\ dump.pc # "dump"
  /\ probe' = NoProbe
  /\ \/ /\ kind = "found"
        /\ \E s \in {Target(probe.result.rec.ident)} :
             /\ ApplyRecord(probe.result.rec, s)
             /\ dump' = [dump EXCEPT !.since = Since(s)]
     \/ /\ kind = "absent" /\ probe.kind = "expiry"
        /\ CloseSessions({probe.sid})
        /\ UNCHANGED <<dump, degraded, lossy>>
     \/ /\ kind = "unavailable" /\ probe.kind = "expiry"
        /\ degraded' = TRUE
        /\ UNCHANGED <<store, dump, lossy>>
     \/ /\ kind # "outdated" => (kind # "found" /\ probe.kind = "refresh")
        /\ UNCHANGED <<store, degraded, dump, lossy>>
  /\ UNCHANGED <<kernel, source, started, consuming, resyncing>>

\* PruneClosed drops the tombstones older than ClosedTTL.
PruneClosed ==
  /\ consuming /\ tombstones # <<>>
  /\ tombstones' = Tail(tombstones)
  /\ UNCHANGED <<kernel, source, byID, index, health, dump, probe, lossy>>

-----------------------------------------------------------------------------
Resync == DumpBegin \/ DumpLock \/ (\E f \in Flow : DumpVisit(f)) \/ DumpComplete
          \/ DumpClear \/ DumpRelease

Next ==
  \/ \E f \in Flow : FlowNew(f) \/ FlowUpdate(f) \/ FlowDestroy(f)
  \/ Receive \/ ReceiveOverrun \/ SourceFails
  \/ Start \/ PeriodicResync \/ Resync \/ DumpIncomplete
  \/ Consume
  \/ \E s \in DOMAIN byID, kind \in {"expiry", "refresh"} : ProbeStart(kind, s)
  \/ ProbeGet \/ ProbeApply
  \/ PruneClosed

Spec == Init /\ [][Next]_vars

(***************************************************************************)
(* The goroutines keep running and the tickers keep ticking.  Nothing is   *)
(* assumed of the kernel, of probes or of losses.                          *)
(***************************************************************************)
LiveSpec ==
  /\ Spec
  /\ WF_vars(Start /\ started')
  /\ WF_vars(Receive \/ ReceiveOverrun)
  /\ WF_vars(PeriodicResync \/ Resync \/ (DumpIncomplete /\ dump.todo = {}))
  /\ WF_vars(Consume)
  /\ WF_vars(PruneClosed)

-----------------------------------------------------------------------------
(***************************************************************************)
(* Properties.                                                             *)
(***************************************************************************)
\* Flows that records without a usable start time cannot tell apart.
Twins(f, g) == f # g /\ key[f].id = key[g].id /\ key[f].orig = key[g].orig /\ stamp # "on"
Twinned(f) == \E g \in dead : Twins(f, g)

\* Every index entry names an active session of that identifier and tuple
\* (removeIndexesLocked, rememberIdentityLocked): a record is never merged into
\* a session that has been closed, or into that of another flow.
IndexSound ==
  /\ \A k \in DOMAIN byIdentity :
       /\ byIdentity[k] \in DOMAIN byID
       /\ byID[byIdentity[k]].ident.id = k.id /\ byID[byIdentity[k]].ident.orig = k.orig
  /\ \A i \in DOMAIN byConntrack :
       byConntrack[i] \in DOMAIN byID /\ byID[byConntrack[i]].ident.id = i

\* A session absorbs the records of one kernel flow only ("Never coalesce two
\* known, conflicting IDs or start timestamps"), whatever order events, dump
\* records and Get answers arrive in; and the indexes find no other session.
SingleIncarnation ==
  /\ IndexSound
  /\ \A s \in DOMAIN byID : \A f, g \in byID[s].flows : f = g \/ Twins(f, g)

\* A session is closed only when its flow is gone: no DESTROY of an earlier
\* flow, no dump that missed a newer one and no late Get answer ends the session
\* of a live flow, unless the records could not tell the two apart.
ClosesOnlyDead ==
  \A s \in DOMAIN byID \ DOMAIN byID' : \A f \in byID[s].flows : f \in dead \/ Twinned(f)

ClosedOnlyDead == [][ClosesOnlyDead]_vars

Tracked(f) == \E s \in DOMAIN byID : f \in byID[s].flows
Exact == /\ \A f \in live : Tracked(f)
         /\ \A s \in DOMAIN byID : byID[s].flows \cap live # {}

\* With nothing in flight and nothing ever lost, the session table is the
\* kernel's table: every live flow is tracked and every session is live, however
\* events, dumps and probes interleaved.
QuietStoreIsExact ==
  (/\ consuming /\ ~lossy /\ sourceUp /\ socket = <<>> /\ queue = <<>> /\ dump.pc \in {"idle", "begin"})
    => /\ \A f \in live : Tracked(f) \/ Twinned(f)
       /\ \A s \in DOMAIN byID : byID[s].flows \cap live # {}

\* A runtime that reports itself healthy, with nothing in flight, has the
\* kernel's table: a dump that overlaps a loss keeps the degraded state.
HealthyIsExact ==
  (/\ consuming /\ ~degraded /\ socket = <<>> /\ ~overrun /\ queue = <<>> /\ dump.pc = "idle")
    => \A f \in live : Tracked(f) \/ Twinned(f)

=============================================================================
