---- MODULE GateEvidence ----
\* The engine's bounded store of request decisions
\* (internal/engine/gate_request.go, gate_result.go): storeGateDecision adds a
\* record under a count and a byte budget, ReportRequestResult annotates it
\* with what the proxy forwarded, and readers page through it by sequence.
\* Each operation holds gateMu throughout, so each is one action; time is the
\* action Expire, after which the record is dropped by whoever meets it.
EXTENDS Naturals, FiniteSets, FiniteSetsExt, SequencesExt

CONSTANTS
  Req,           \* request identifiers
  None,          \* no record, no forward result
  MaxDecisions,  \* GateService.MaxDecisions
  MaxBytes,      \* GateService.MaxEvidenceBytes
  PageLimit,     \* the limit a reader passes to ListRequestGateEvidence
  Sizes,         \* encoded sizes of a decision's evidence
  MaxSequence    \* bound of the model: sequence numbers handed out

VARIABLES
  records,       \* gateDecisions
  order,         \* gateDecisionOrder
  bytes,         \* gateDecisionBytes
  sequence,      \* gateSequence
  generation,    \* Runtime.CurrentGeneration
  published,     \* EventRequestGateResult events of each decision, named by the
                 \* sequence number its record was stored with
  reader         \* a client following NextSequence

vars == <<records, order, bytes, sequence, generation, published, reader>>

AnnotationSize == 1
Result == {"FORWARDED", "FAILED"}
Stored == {r \in Req : records[r] # None}
Live == {r \in Stored : records[r].live}

Init ==
  /\ records = [r \in Req |-> None] /\ order = << >> /\ bytes = 0
  /\ sequence = 0 /\ generation = 1
  /\ published = [d \in 1 .. MaxSequence |-> 0]
  /\ reader = [cursor |-> 0, at |-> 0, more |-> TRUE, seen |-> [r \in Req |-> 0]]

SumOf(f, S) == MapThenSumSet(LAMBDA r : f[r].size, S)

\* removeGateDecisionLocked for every record of ids.
RemoveRecords(ids) ==
  /\ records' = [r \in Req |-> IF r \in ids THEN None ELSE records[r]]
  /\ order' = SelectSeq(order, LAMBDA r : r \notin ids)
  /\ bytes' = bytes - SumOf(records, ids)

\* The eviction loops: the records taken from the front of the order, `kept`
\* passed over, until `size` more bytes fit beside those left (and one more
\* record does, when the loop also counts records) or none is left.
Evicted(kept, size, counts) ==
  LET others == SelectSeq(order, LAMBDA r : r # kept)
      taken(n) == ToSet(SubSeq(others, 1, n))
      fits(left) == /\ counts => Cardinality(left) < MaxDecisions
                    /\ SumOf(records, left) + size <= MaxBytes
      enough == {n \in 0 .. Len(others) : fits(Stored \ ({kept} \cup taken(n)))}
  IN taken(IF enough = {} THEN Len(others) ELSE Min(enough))

\* storeGateDecision: the decision of request r, of the given encoded size.
StoreDecision(r, verdict, size) ==
  /\ sequence < MaxSequence
  /\ IF size > MaxBytes
     THEN UNCHANGED <<records, order, bytes, sequence>>
     ELSE LET prior == {r} \cap Stored
              out == prior \cup Evicted(r, size, TRUE)
          IN /\ sequence' = sequence + 1
             /\ records' = [q \in Req |->
                  IF q = r THEN [decision |-> sequence', verdict |-> verdict,
                                 gen |-> generation, forward |-> None,
                                 seq |-> sequence', size |-> size, live |-> TRUE]
                  ELSE IF q \in out THEN None ELSE records[q]]
             /\ order' = Append(SelectSeq(order, LAMBDA q : q \notin out), r)
             /\ bytes' = (bytes - SumOf(records, out)) + size
  /\ UNCHANGED <<generation, published, reader>>

\* ReportRequestResult's checks of an existing record against the report (that
\* TLS results come from https requests is a check of the same kind, left out).
Matches(rec, d, g) ==
  /\ rec.decision = d /\ rec.gen = g /\ g = generation /\ rec.verdict = "ALLOW"

\* A result was already recorded: an equal one is acknowledged again, another
\* one refused, and neither changes the store.
Already(rec) == rec.forward # None

\* ReportRequestResult for request r and decision d with the generation g of
\* the proxy's runtime; a report of another generation (checkProxyRuntime) or
\* of an unknown request is refused without effect. The eviction loop may empty the rest of the store and
\* still refuse the report, when the annotated record alone exceeds the budget
\* (excluded before the loop, so it cannot).
Report(r, d, g, result) ==
  /\ d \in 1 .. sequence /\ g = generation /\ r \in Stored
  /\ LET rec == records[r] IN
     IF ~rec.live THEN RemoveRecords({r}) /\ UNCHANGED <<sequence, published>>
     ELSE LET size == rec.size + AnnotationSize
              out == Evicted(r, size, FALSE)
          IN IF ~Matches(rec, d, g) \/ Already(rec) \/ size > MaxBytes
             THEN UNCHANGED <<records, order, bytes, sequence, published>>
             ELSE /\ sequence < MaxSequence
                  /\ sequence' = sequence + 1
                  /\ records' = [q \in Req |->
                       IF q = r THEN [rec EXCEPT !.forward = result, !.seq = sequence',
                                                 !.size = size]
                       ELSE IF q \in out THEN None ELSE records[q]]
                  /\ order' = Append(SelectSeq(order, LAMBDA q : q \notin out \cup {r}), r)
                  /\ bytes' = (bytes - SumOf(records, out)) + AnnotationSize
                  /\ published' = [published EXCEPT ![d] = @ + 1]
  /\ UNCHANGED <<generation, reader>>

\* GetRequestDecision: a lookup drops the record it finds expired.
Get(r) ==
  /\ r \in Stored \ Live
  /\ RemoveRecords({r})
  /\ UNCHANGED <<sequence, generation, published, reader>>

\* A mutated form: a full page keeps the newest records.
PageNewest(after) ==
  LET match == {r \in Live : records[r].seq > after}
  IN {r \in match : Cardinality({q \in match : records[q].seq > records[r].seq}) < PageLimit}

\* The records of one page: of those after the cursor, the lowest sequences.
Page(after) ==
  LET match == {r \in Live : records[r].seq > after}
  IN {r \in match : Cardinality({q \in match : records[q].seq < records[r].seq}) < PageLimit}

\* ListRequestGateEvidence, called by the reader with its cursor; every expired
\* record met is dropped.
List ==
  LET page == Page(reader.cursor)
      match == {r \in Live : records[r].seq > reader.cursor}
  IN /\ RemoveRecords(Stored \ Live)
     /\ reader' = [cursor |-> IF page = {} THEN reader.cursor
                              ELSE Max({records[r].seq : r \in page}),
                   at |-> sequence, more |-> Cardinality(match) > Cardinality(page),
                   seen |-> [r \in Req |-> IF r \in page THEN records[r].seq
                                           ELSE reader.seen[r]]]
     /\ UNCHANGED <<sequence, generation, published>>

\* RequestEvidenceForSession: a scan of the whole store that drops what expired.
SessionScan ==
  /\ Stored # Live
  /\ RemoveRecords(Stored \ Live)
  /\ UNCHANGED <<sequence, generation, published, reader>>

\* gateDecisionTTL passes for a record.
Expire(r) ==
  /\ r \in Live
  /\ records' = [records EXCEPT ![r].live = FALSE]
  /\ UNCHANGED <<order, bytes, sequence, generation, published, reader>>

\* A new generation is published.
Activate ==
  /\ generation = 1 /\ generation' = 2
  /\ UNCHANGED <<records, order, bytes, sequence, published, reader>>

Next ==
  \/ \E r \in Req, v \in {"ALLOW", "BLOCK"}, n \in Sizes : StoreDecision(r, v, n)
  \/ \E r \in Req, d \in 1 .. MaxSequence, g \in 1 .. 2, res \in Result : Report(r, d, g, res)
  \/ \E r \in Req : Get(r) \/ Expire(r)
  \/ List
  \/ SessionScan
  \/ Activate

Spec == Init /\ [][Next]_vars

----
\* The three structures of the store agree after any sequence of stores,
\* reports, reads and expiries: the order list holds each stored request once,
\* oldest sequence first, the byte counter is the size of what is stored and
\* neither budget is exceeded. The byte counter is signed in the code and only
\* ever adjusted by differences (gate_request.go 120-157, gate_result.go 70-88).
BudgetsExact ==
  /\ ToSet(order) = Stored /\ Len(order) = Cardinality(Stored)
  /\ \A i, j \in 1 .. Len(order) : i < j => records[order[i]].seq < records[order[j]].seq
  /\ bytes = SumOf(records, Stored) /\ bytes <= MaxBytes
  /\ Cardinality(Stored) <= MaxDecisions

\* "retries are idempotent; no TTL extension or duplicate event"
\* (gate_result.go 63): whatever the proxy retries, and whatever is evicted or
\* replaced in between, a decision has at most one result event, and has one
\* only if it is an ALLOW whose record was annotated.
ResultPublishedOnce ==
  /\ \A d \in DOMAIN published : published[d] <= 1
  /\ \A r \in Stored : (published[records[r].decision] = 1) <=> (records[r].forward # None)

\* A reader that follows NextSequence misses nothing that is still stored: a
\* live record at or below its cursor was handed to it in the current version,
\* although annotations move records ahead and pages are cut off at the limit;
\* and a page without HasMore leaves nothing of its time behind.
ReaderMissesNothing ==
  \A r \in Live :
    records[r].seq <= reader.cursor \/ (~reader.more /\ records[r].seq <= reader.at)
      => reader.seen[r] = records[r].seq
====
