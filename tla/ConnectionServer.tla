-------------------------- MODULE ConnectionServer --------------------------
(***************************************************************************)
(* The transparent proxy's listener (internal/proxy/connection_server.go). *)
(* Two accept loops, one for HTTP and one for HTTPS, share one capacity     *)
(* limit; every accepted flow runs in a goroutine of its own; a hook that   *)
(* fires once the context is cancelled closes the listeners and the flows   *)
(* it finds.  Serve returns after both loops, the hook and every flow.      *)
(*                                                                         *)
(* The addresses, the connection's random identity and what a handler does  *)
(* with its flow are abstracted: a handler is known only by the fact that   *)
(* it returns once its connection is closed.                                *)
(***************************************************************************)
EXTENDS Naturals, FiniteSets

CONSTANTS
    Conn,           \* the downstream connections clients may open
    None,           \* no connection
    MaxConnections, \* the shared capacity limit
    MaxFailures     \* bound on the failures of Accept

Listener == {"http", "https"}

VARIABLES
    serve,      \* program counter of Serve
    cancelled,  \* serveCtx.Err() # nil
    listening,  \* the listeners that are still open
    loop,       \* the two accept loops: program counter and connection in hand
    limit,      \* tokens in the limit channel
    tracked,    \* server.connections
    shuttingDown,
    hook,       \* the shutdown hook: program counter and snapshot to close
    active,     \* the active gauge
    open,       \* connections whose socket is open on the proxy's side
    flow,       \* the goroutine of each connection
    failures    \* failures of Accept so far

vars == <<serve, cancelled, listening, loop, limit, tracked, shuttingDown,
          hook, active, open, flow, failures>>

TypeOK ==
    /\ serve \in {"first", "second", "hook", "flows", "returned"}
    /\ cancelled \in BOOLEAN /\ shuttingDown \in BOOLEAN
    /\ listening \subseteq Listener
    /\ loop \in [Listener -> [pc : {"accept", "limit", "track", "spawn", "result", "ended"},
                              conn : Conn \cup {None}]]
    /\ limit \in 0..MaxConnections /\ active \in 0..Cardinality(Conn)
    /\ tracked \subseteq Conn /\ open \subseteq Conn
    /\ hook \in [pc : {"armed", "listeners", "snapshot", "close", "done"},
                 left : SUBSET Conn]
    /\ flow \in [Conn -> {"unseen", "rejected", "setup", "handler", "close",
                          "untrack", "release", "done"}]
    /\ failures \in 0..MaxFailures

(* Serve up to the point where both loops run. *)
Init ==
    /\ serve = "first" /\ cancelled = FALSE /\ listening = Listener
    /\ loop = [l \in Listener |-> [pc |-> "accept", conn |-> None]]
    /\ limit = 0 /\ tracked = {} /\ shuttingDown = FALSE
    /\ hook = [pc |-> "armed", left |-> {}]
    /\ active = 0 /\ open = {} /\ flow = [c \in Conn |-> "unseen"]
    /\ failures = 0

-----------------------------------------------------------------------------
(* Serve *)

(* The parent's context is cancelled: a SIGTERM or a failing peer service. *)
Cancel ==
    /\ ~cancelled /\ serve = "first"
    /\ cancelled' = TRUE
    /\ UNCHANGED <<serve, listening, loop, limit, tracked, shuttingDown, hook,
                   active, open, flow, failures>>

(* A loop's result; the first one cancels the other. *)
TakeResult(l) ==
    /\ serve \in {"first", "second"} /\ loop[l].pc = "result"
    /\ loop' = [loop EXCEPT ![l].pc = "ended"]
    /\ serve' = IF serve = "first" THEN "second" ELSE "hook"
    /\ cancelled' = TRUE
    /\ UNCHANGED <<listening, limit, tracked, shuttingDown, hook, active, open,
                   flow, failures>>

AwaitHook ==
    /\ serve = "hook" /\ hook.pc = "done"
    /\ serve' = "flows"
    /\ UNCHANGED <<cancelled, listening, loop, limit, tracked, shuttingDown,
                   hook, active, open, flow, failures>>

(* The flows the wait group counts. *)
Running == {c \in Conn : flow[c] \in {"setup", "handler", "close", "untrack", "release"}}

AwaitFlows ==
    /\ serve = "flows" /\ Running = {}
    /\ serve' = "returned" /\ tracked' = {}
    /\ UNCHANGED <<cancelled, listening, loop, limit, shuttingDown, hook,
                   active, open, flow, failures>>

-----------------------------------------------------------------------------
(* acceptLoop *)

Goto(l, pc, c) == loop' = [loop EXCEPT ![l] = [pc |-> pc, conn |-> c]]

Accept(l) ==
    /\ loop[l].pc = "accept" /\ l \in listening
    /\ \E c \in Conn :
        /\ flow[c] = "unseen" /\ \A m \in Listener : loop[m].conn # c
        /\ Goto(l, "limit", c) /\ open' = open \cup {c}
    /\ UNCHANGED <<serve, cancelled, listening, limit, tracked, shuttingDown,
                   hook, active, flow, failures>>

(* Accept fails because the listener is closed or the process is out of     *)
(* descriptors; either way the loop ends.                                   *)
AcceptFails(l) ==
    /\ loop[l].pc = "accept"
    /\ l \in listening => failures < MaxFailures
    /\ failures' = IF l \in listening THEN failures + 1 ELSE failures
    /\ Goto(l, "result", None)
    /\ UNCHANGED <<serve, cancelled, listening, limit, tracked, shuttingDown,
                   hook, active, open, flow>>

(* The connection is closed before any work is done for it. *)
Reject(l, c) ==
    /\ open' = open \ {c} /\ flow' = [flow EXCEPT ![c] = "rejected"]
    /\ Goto(l, "accept", None)

TakeToken(l) ==
    /\ loop[l].pc = "limit"
    /\ IF limit < MaxConnections
         THEN /\ limit' = limit + 1 /\ Goto(l, "track", loop[l].conn)
              /\ UNCHANGED <<open, flow>>
         ELSE /\ Reject(l, loop[l].conn) /\ UNCHANGED limit
    /\ UNCHANGED <<serve, cancelled, listening, tracked, shuttingDown, hook,
                   active, failures>>

(* A build that forgets to look at the shutdown under the lock. *)
RefusedNever == FALSE

Refused == shuttingDown \/ cancelled

Track(l) ==
    /\ loop[l].pc = "track"
    /\ IF Refused
         THEN /\ Reject(l, loop[l].conn) /\ limit' = limit - 1
              /\ UNCHANGED tracked
         ELSE /\ tracked' = tracked \cup {loop[l].conn}
              /\ Goto(l, "spawn", loop[l].conn)
              /\ UNCHANGED <<open, flow, limit>>
    /\ UNCHANGED <<serve, cancelled, listening, shuttingDown, hook, active,
                   failures>>

Spawn(l) ==
    /\ loop[l].pc = "spawn"
    /\ active' = active + 1
    /\ flow' = [flow EXCEPT ![loop[l].conn] = "setup"]
    /\ Goto(l, "accept", None)
    /\ UNCHANGED <<serve, cancelled, listening, limit, tracked, shuttingDown,
                   hook, open, failures>>

-----------------------------------------------------------------------------
(* The goroutine of one flow *)

(* The identity, the client address and the original destination; a failure *)
(* of any of them ends the flow without the handler.                        *)
Setup(c) ==
    /\ flow[c] = "setup"
    /\ \E pc \in {"handler", "close"} : flow' = [flow EXCEPT ![c] = pc]
    /\ UNCHANGED <<serve, cancelled, listening, loop, limit, tracked,
                   shuttingDown, hook, active, open, failures>>

HandlerReturns(c) ==
    /\ flow[c] = "handler"
    /\ flow' = [flow EXCEPT ![c] = "close"]
    /\ UNCHANGED <<serve, cancelled, listening, loop, limit, tracked,
                   shuttingDown, hook, active, open, failures>>

CloseFlow(c) ==
    /\ flow[c] = "close"
    /\ open' = open \ {c} /\ flow' = [flow EXCEPT ![c] = "untrack"]
    /\ UNCHANGED <<serve, cancelled, listening, loop, limit, tracked,
                   shuttingDown, hook, active, failures>>

Untrack(c) ==
    /\ flow[c] = "untrack"
    /\ tracked' = tracked \ {c} /\ flow' = [flow EXCEPT ![c] = "release"]
    /\ UNCHANGED <<serve, cancelled, listening, loop, limit, shuttingDown,
                   hook, active, open, failures>>

(* A build whose flow keeps its token. *)
KeepToken(c) ==
    /\ flow[c] = "release"
    /\ active' = active - 1 /\ flow' = [flow EXCEPT ![c] = "done"]
    /\ UNCHANGED <<serve, cancelled, listening, loop, limit, tracked,
                   shuttingDown, hook, open, failures>>

Release(c) ==
    /\ flow[c] = "release"
    /\ active' = active - 1 /\ limit' = limit - 1
    /\ flow' = [flow EXCEPT ![c] = "done"]
    /\ UNCHANGED <<serve, cancelled, listening, loop, tracked, shuttingDown,
                   hook, open, failures>>

-----------------------------------------------------------------------------
(* The shutdown hook *)

HookFires ==
    /\ hook.pc = "armed" /\ cancelled
    /\ listening' = Listener \ {"http"} /\ hook' = [hook EXCEPT !.pc = "listeners"]
    /\ UNCHANGED <<serve, cancelled, loop, limit, tracked, shuttingDown,
                   active, open, flow, failures>>

HookClosesSecond ==
    /\ hook.pc = "listeners"
    /\ listening' = {} /\ hook' = [hook EXCEPT !.pc = "snapshot"]
    /\ UNCHANGED <<serve, cancelled, loop, limit, tracked, shuttingDown,
                   active, open, flow, failures>>

(* closeActive, under the lock *)
HookSnapshots ==
    /\ hook.pc = "snapshot"
    /\ shuttingDown' = TRUE /\ hook' = [pc |-> "close", left |-> tracked]
    /\ UNCHANGED <<serve, cancelled, listening, loop, limit, tracked, active,
                   open, flow, failures>>

(* closeActive, after the lock is released *)
HookCloses ==
    /\ hook.pc = "close"
    /\ IF hook.left = {}
         THEN hook' = [hook EXCEPT !.pc = "done"] /\ UNCHANGED open
         ELSE \E c \in hook.left :
                /\ hook' = [hook EXCEPT !.left = @ \ {c}] /\ open' = open \ {c}
    /\ UNCHANGED <<serve, cancelled, listening, loop, limit, tracked,
                   shuttingDown, active, flow, failures>>

-----------------------------------------------------------------------------
LoopStep(l) ==
    \/ Accept(l) \/ AcceptFails(l) \/ TakeToken(l) \/ Track(l) \/ Spawn(l)

Teardown(c) == CloseFlow(c) \/ Untrack(c) \/ Release(c)

HookStep == HookFires \/ HookClosesSecond \/ HookSnapshots \/ HookCloses

ServeStep == (\E l \in Listener : TakeResult(l)) \/ AwaitHook \/ AwaitFlows

Next ==
    \/ Cancel \/ ServeStep \/ HookStep
    \/ \E l \in Listener : LoopStep(l)
    \/ \E c \in Conn : Setup(c) \/ HandlerReturns(c) \/ Teardown(c)

Spec == Init /\ [][Next]_vars

(* Goroutines that can run do run, and a handler returns once its           *)
(* connection is closed: its reads and writes fail.  Nothing makes a        *)
(* handler return while its connection stays open.                          *)
FlowRuns(c) ==
    Setup(c) \/ Teardown(c) \/ (c \notin open /\ HandlerReturns(c))

Fairness ==
    /\ WF_vars(ServeStep) /\ WF_vars(HookStep)
    /\ \A l \in Listener : WF_vars(LoopStep(l))
    /\ \A c \in Conn : WF_vars(FlowRuns(c))

FairSpec == Spec /\ Fairness

-----------------------------------------------------------------------------
(* Capacity is neither exceeded nor lost: the tokens of the limit channel   *)
(* are those of the connections in hand or in a flow, and a Serve that has  *)
(* returned leaves no open socket, no token and a gauge of zero behind,     *)
(* whatever was accepted while the hook was closing things.                 *)
CapacityConserved ==
    /\ limit = Cardinality(Running)
               + Cardinality({l \in Listener : loop[l].pc \in {"track", "spawn"}})
    /\ serve = "returned" => open = {} /\ limit = 0 /\ active = 0

(* A cancelled Serve returns: a connection accepted while the hook is       *)
(* closing the flows is either refused by track or in the hook's snapshot,  *)
(* so no flow is left for Serve to wait for.                                *)
CancelledReturns == cancelled ~> (serve = "returned")

=============================================================================
