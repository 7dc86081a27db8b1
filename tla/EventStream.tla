---- MODULE EventStream ----
\* The runtime event ring (internal/engine/runtime_events.go) and a websocket
\* client of it (wsEvents in internal/management/api.go), which polls the engine
\* over IPC while the engine publishes, overwrites and restarts.
EXTENDS Naturals, Sequences

CONSTANTS
  Capacity,     \* RuntimeEventRing.capacity
  PageLimit,    \* events per page
  MaxNext,      \* bound: events published in one engine process
  MaxStream     \* bound: engine processes

VARIABLES
  stream,       \* streamID of the running engine
  next,         \* RuntimeEventRing.next
  items,        \* the sequences in the ring
  client        \* wsEvents: the stream and cursor it follows, and what the
                \* browser was told of: <<stream, sequence>> pairs

vars == <<stream, next, items, client>>

Connected == [on |-> 0, cursor |-> 0, told |-> {}, labelled |-> {}]
Init == stream = 1 /\ next = 0 /\ items = << >> /\ client = Connected

\* Publish: the oldest event is overwritten when the ring is full.
Publish ==
  /\ next < MaxNext
  /\ next' = next + 1
  /\ items' = Append(IF Len(items) >= Capacity THEN Tail(items) ELSE items, next')
  /\ UNCHANGED <<stream, client>>

\* Read's second result: the oldest sequence, if it is not the next one.
GapFrom(after) ==
  IF items # << >> /\ after + 1 < items[1] THEN items[1] ELSE 0

\* Read's page: the oldest events after the cursor.
Page(after) ==
  LET match == SelectSeq(items, LAMBDA n : n > after)
  IN IF Len(match) > PageLimit THEN SubSeq(match, 1, PageLimit) ELSE match

\* The engine behind the connection is not the one the cursor is of.
Restarted == client.on # 0 /\ client.on # stream

\* One round of wsEvents: a page of another stream resets the cursor; otherwise
\* a gap is announced and the events are delivered, the cursor following the
\* last of them (not NextSequence, which may lie beyond the page).
Poll ==
  /\ client' =
       IF Restarted THEN [client EXCEPT !.on = stream, !.cursor = 0]
       ELSE LET page == Page(client.cursor)
                gap == GapFrom(client.cursor)
                on == IF client.on = 0 THEN stream ELSE client.on
                new == {page[i] : i \in 1 .. Len(page)}
            IN [on |-> on,
                cursor |-> IF page = << >> THEN client.cursor ELSE page[Len(page)],
                told |-> client.told \cup
                  {<<stream, n>> : n \in new \cup (IF gap = 0 THEN {} ELSE client.cursor + 1 .. gap - 1)},
                labelled |-> client.labelled \cup {<<stream, on>> : n \in new}]
  /\ UNCHANGED <<stream, next, items>>

\* The engine restarts with an empty ring under a new stream id.
Restart ==
  /\ stream < MaxStream
  /\ stream' = stream + 1 /\ next' = 0 /\ items' = << >>
  /\ UNCHANGED client

\* A failed call closes the connection; the browser opens another.
Reconnect == client' = Connected /\ UNCHANGED <<stream, next, items>>

Next == Publish \/ Poll \/ Restart \/ Reconnect

Spec == Init /\ [][Next]_vars

----
\* The client is never silently behind: every event of the stream it follows up
\* to its cursor was delivered or lies in an announced gap, and no event of a
\* restarted engine is delivered under the old stream's identity, where its
\* smaller sequence numbers would be taken for old events
\* (runtime_events.go 45-81, api.go 1364-1391).
ClientAccounted ==
  /\ \A n \in 1 .. client.cursor : <<client.on, n>> \in client.told
  /\ \A l \in client.labelled : l[1] = l[2]
====
