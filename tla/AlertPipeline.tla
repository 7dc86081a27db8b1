---- MODULE AlertPipeline ----
\* What becomes of a sensor's alerts in the engine: the bounded observation
\* queue, the deduper, the security event store, correlation with a session and
\* its bounded retries (internal/engine/inspection_runtime.go 190-345,
\* security_events.go; internal/inspection/eve/identity.go;
\* internal/inspection/correlation). One goroutine runs `loop`, so handling an
\* observation is one action; sessions come and go between two of them, and
\* within one only where it re-reads the store (the outcome `counted`). The
\* reduction of a session's inspection state is the module Inspection.
EXTENDS Naturals, FiniteSets, FiniteSetsExt, SequencesExt

CONSTANTS
  Alert,        \* alerts, each known by its event id
  Session,      \* sessions of the tuple the alerts were seen on
  None,
  Capacity,     \* SecurityEventStore.capacity
  MaxBytes,     \* SecurityEventStore.maxBytes
  MaxPending,   \* PendingCorrelations.max
  MaxSeen,      \* Deduper.maxCount
  QueueItems,   \* capacity of InspectionRuntime.queue
  PageLimit,    \* limit of a reader's queries
  MaxSubmits,   \* bound of the model: submissions of one alert
  MaxNext       \* bound of the model: records stored

VARIABLES
  queue,        \* InspectionRuntime.queue
  submits,      \* submissions of each alert
  seen,         \* the deduper's ids, oldest first
  store,        \* the security events stored, oldest first
  bytes,        \* SecurityEventStore.bytes
  next,         \* SecurityEventStore.next
  pending,      \* PendingCorrelations.items
  known,        \* how the session store would resolve the tuple: see Resolve
  published,    \* EventSecurityAlert events of each alert
  counted,      \* how often an alert was added to a session's threat count
  evicted,      \* evictions of each alert's record
  reader        \* a client following NextSequence

stored == <<store, bytes, next>>
vars == <<queue, submits, seen, stored, pending, known, published, counted, evicted, reader>>

RecordSize == 1       \* of an uncorrelated record
CorrelatedSize == 2   \* a session and a policy add to it
Ids(records) == {records[i].id : i \in 1 .. Len(records)}
Bytes(records) == FoldSeq(LAMBDA r, sum : r.size + sum, 0, records)
Position(records, a) == CHOOSE i \in 1 .. Len(records) : records[i].id = a

Init ==
  /\ queue = << >> /\ submits = [a \in Alert |-> 0] /\ seen = << >>
  /\ store = << >> /\ bytes = 0 /\ next = 0 /\ pending = {}
  /\ known = [state |-> "none", session |-> None]
  /\ published = [a \in Alert |-> 0] /\ counted = published /\ evicted = published
  /\ reader = [cursor |-> 0, told |-> {}]

----
\* TrySubmit by a reader of EVE: a full queue drops. A position is submitted
\* again only while the deduper knows it: within one process the reader passes
\* every position once (EveReader), so a later replay does not happen.
Submit(a) ==
  /\ submits[a] < MaxSubmits
  /\ submits[a] > 0 => a \in ToSet(seen)
  /\ submits' = [submits EXCEPT ![a] = @ + 1]
  /\ queue' = IF Len(queue) < QueueItems THEN Append(queue, a) ELSE queue
  /\ UNCHANGED <<seen, stored, pending, known, published, counted, evicted, reader>>

\* SeenOrAdd: the id becomes the newest, the oldest beyond the bound go.
Remembered(ids, a) ==
  LET all == Append(SelectSeq(ids, LAMBDA x : x # a), a)
  IN IF Len(all) > MaxSeen THEN Tail(all) ELSE all

\* A mutated form: the deduper's answer is not looked at.
DuplicateIgnored(a) == FALSE

\* SeenOrAdd's answer: seen inside the retention window.
Duplicate(a) == a \in ToSet(seen)

\* The security store before, and the records Add evicts for one more.
Kept(records) ==
  LET fits(n) == LET rest == SubSeq(records, n + 1, Len(records))
                 IN Len(rest) < Capacity /\ (rest # << >> => Bytes(rest) + RecordSize <= MaxBytes)
  IN SubSeq(records, 1 + Min({n \in 0 .. Len(records) : fits(n)}), Len(records))

\* Add: idempotent for an event id. (A record over maxBytes is refused; those of
\* a normalized observation are far smaller.)
Add(a) ==
  IF a \in Ids(store) THEN [kept |-> store, added |-> FALSE, records |-> store]
  ELSE [kept |-> Kept(store), added |-> TRUE,
        records |-> Append(Kept(store), [id |-> a, seq |-> next + 1, size |-> RecordSize,
                                         session |-> None, state |-> "UNCORRELATED"])]

\* UpdateCorrelation: nothing to do for an equal correlation; a record that
\* grows evicts older ones, and is refused if those do not make room for it.
UpdateCorrelation(records, a, session, state) ==
  LET at == Position(records, a)
      updated == [records EXCEPT ![at] =
                    [@ EXCEPT !.session = session, !.state = state,
                              !.size = IF session = None THEN RecordSize ELSE CorrelatedSize]]
      drops == {n \in 0 .. at - 1 : Bytes(SubSeq(updated, n + 1, Len(updated))) <= MaxBytes}
  IN IF (records[at].session = session /\ records[at].state = state) \/ drops = {}
     THEN records
     ELSE SubSeq(updated, 1 + Min(drops), Len(updated))

\* Resolve: one session with a strong identity, open or recently closed; several
\* candidates; or none, or only one of partial identity ("none").
Resolve ==
  CASE known.state \in {"strong", "closed"} -> [state |-> "CORRELATED", session |-> known.session]
    [] known.state = "several" -> [state |-> "AMBIGUOUS", session |-> None]
    [] OTHER -> [state |-> "UNCORRELATED", session |-> None]

\* handleObservation for an alert after deduplication, to its last update: the
\* record, the correlation, the retry entry and, unless the session is closed
\* or has moved on, the session's threat count.
Process(a) ==
  LET add == Add(a)
      attach == add.added \/ add.records[Position(add.records, a)].session = None
      r == Resolve
      records == UpdateCorrelation(add.records, a, r.session, r.state)
  IN /\ add.added => next < MaxNext
     /\ store' = records
     /\ bytes' = (IF add.added THEN bytes - (Bytes(store) - Bytes(add.kept)) + RecordSize
                  ELSE bytes) + Bytes(records) - Bytes(add.records)
     /\ next' = IF add.added THEN next + 1 ELSE next
     /\ evicted' = [x \in Alert |-> IF x \in Ids(store) \ Ids(records)
                                    THEN evicted[x] + 1 ELSE evicted[x]]
     /\ published' = [published EXCEPT ![a] = IF add.added THEN @ + 1 ELSE @]
     /\ pending' = IF r.state = "CORRELATED" THEN pending \ {a}
                   ELSE IF r.state = "UNCORRELATED" /\ Cardinality(pending) < MaxPending
                        THEN pending \cup {a}
                   ELSE pending
     /\ counted' \in {counted} \cup
          (IF attach /\ known.state = "strong"
           THEN {[counted EXCEPT ![a] = @ + 1]} ELSE {})

\* loop takes an observation from the queue.
Handle ==
  /\ queue # << >>
  /\ queue' = Tail(queue) /\ seen' = Remembered(seen, Head(queue))
  /\ IF Duplicate(Head(queue))
     THEN UNCHANGED <<stored, pending, published, counted, evicted>>
     ELSE Process(Head(queue))
  /\ UNCHANGED <<submits, known, reader>>

\* retryPending: a due entry is handled again, past the deduper.
RetryPending(a) ==
  /\ a \in pending
  /\ Process(a)
  /\ UNCHANGED <<queue, submits, seen, known, reader>>

\* RetryDue drops an entry whose wait is over.
PendingExpires(a) ==
  /\ a \in pending
  /\ pending' = pending \ {a}
  /\ UNCHANGED <<queue, submits, seen, stored, known, published, counted, evicted, reader>>

\* The deduper's retention passes for its oldest id.
SeenExpires ==
  /\ seen # << >> /\ Head(seen) \notin ToSet(queue)
  /\ seen' = Tail(seen)
  /\ UNCHANGED <<queue, submits, stored, pending, known, published, counted, evicted, reader>>

\* Sessions of the tuple appear, are completed, closed, replaced or lost.
SessionsChange ==
  /\ known' \in {[state |-> s, session |-> None] : s \in {"none", "several"}}
               \cup {[state |-> s, session |-> x] : s \in {"strong", "closed"}, x \in Session}
  /\ UNCHANGED <<queue, submits, seen, stored, pending, published, counted, evicted, reader>>

\* page.NextSequence: the last record looked at.
NextCursor(page) ==
  IF page = {} THEN reader.cursor ELSE Max({store[i].seq : i \in page})

\* Query, from the reader's cursor: a gap is reported when the oldest record is
\* not the next one.
Query ==
  LET after == reader.cursor
      match == {i \in 1 .. Len(store) : store[i].seq > after}
      page == {i \in match : Cardinality({j \in match : j < i}) < PageLimit}
      gap == IF store # << >> /\ store[1].seq > after + 1 THEN after + 1 .. store[1].seq - 1 ELSE {}
  IN /\ reader' = [cursor |-> NextCursor(page),
                   told |-> reader.told \cup {store[i].seq : i \in page} \cup gap]
     /\ UNCHANGED <<queue, submits, seen, stored, pending, known, published, counted, evicted>>

Next ==
  \/ \E a \in Alert : Submit(a) \/ RetryPending(a) \/ PendingExpires(a)
  \/ Handle
  \/ SeenExpires
  \/ SessionsChange
  \/ Query

Spec == Init /\ [][Next]_vars

----
\* The bounds of the store hold and its byte counter, which only moves by
\* differences, is the size of what is stored, through evictions by new alerts
\* and by correlations that make a record grow (security_events.go 79-194).
StoreExact ==
  /\ bytes = Bytes(store) /\ bytes <= MaxBytes /\ Len(store) <= Capacity
  /\ Len(store) = Cardinality(Ids(store))

\* "it must not increment the session threat count or publish a second alert"
\* (inspection_runtime.go 285-287): with retries, replays the deduper knows and
\* sessions that come and go, an alert counts towards a session once. A second
\* alert event is published only when the record was evicted in between.
AlertCountedOnce ==
  \A a \in Alert : counted[a] <= 1 /\ published[a] <= 1 + evicted[a]

\* A client that follows NextSequence received every record up to its cursor
\* or was told of the gap it lies in (security_events.go 196-246).
NoSilentGap == \A n \in 1 .. reader.cursor : n \in reader.told
====
