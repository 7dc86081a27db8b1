---- MODULE RequestGate ----
\* The request gate: the proxy's handling of one HTTP request
\* (internal/proxy/http1_gate.go, gate_connection.go), the gate IPC it asks the
\* engine over (internal/gateipc) and the engine's GateService
\* (internal/engine/gate_service.go, gate_request.go, gate_lookup.go), which
\* re-opens the connection for every request while generations are activated,
\* sessions are learned, revoked and replaced, and sources are blocked.
\*
\* One proxy runtime is modelled, the one of descriptor [inst 1, gen 1]: the
\* supervisor (GateSupervisor) closes it with all its connections before it
\* starts another. A call of the engine is an `op`, one step per read of shared
\* state; the proxy may give up on a call whose op the engine still executes.
EXTENDS Naturals, FiniteSets

CONSTANTS
  Conn,        \* downstream connections the proxy accepts
  Request,     \* HTTP requests
  Session,     \* incarnations of the flow in conntrack, one M2 session each
  None,        \* no session, no record, no kernel entry
  Scenarios    \* what a behaviour is about, see Init

ASSUME CallerAssumption == Conn \cap Request = {} /\ Session # {}

VARIABLES
  sc,          \* the scenario
  inst,        \* engineInstance of the running engine process
  gen,         \* Runtime.generation
  program,     \* the policy of each generation for this flow's first match
  activating,  \* a generation is prepared or published and not finalized
  preparing,   \* GateService.preparation is set
  ready,       \* generation the kernel interception is verified for, or 0
  blocked,     \* the client's source has a temporary block
  flow,        \* the conntrack entry of the tuple now, or None
  sess,        \* RuntimeStore: what is recorded of each incarnation
  table,       \* GateService.gateConnections
  op,          \* the engine's execution of the call of a connection or request
  link,        \* the proxy's connections: stage and session of the decision
  stage,       \* the proxy's requests
  evidence,    \* the inspection result the proxy sends with a request
  decided,     \* the decision the engine recorded for a request
  since        \* denials in force continuously since a request was sent

engine == <<inst, gen, program, activating, preparing, ready>>
store == <<blocked, flow, sess>>
proxy == <<link, stage, evidence>>
vars == <<sc, engine, store, table, op, proxy, decided, since>>

Caller == Conn \cup Request
Runtime == [inst |-> 1, gen |-> 1]
MaxTries == 3

\* A policy of the program: its action, the gate plan it carries and how that
\* plan treats TLS, excluded destinations and requests not fully inspected.
Policy ==
  [action : {"ALLOW", "DROP"}, gate : {"OFF", "ON"},
   tls : {"BYPASS", "METADATA", "DECRYPT", "EXCLUDED"},
   fail : {"OPEN", "CLOSE"}, partial : {"BLOCK", "ALLOW_PARTIAL"}]

\* What handleRequest can send as domain.RequestInspectionResult: a completed
\* inspection (with no alert, one of the blocking ones, or one with an unknown
\* action, or made with another ruleset), or the reason there is none.
Completed == {"clean", "alert", "unknown", "ruleset"}
Evidence ==
  Completed \cup {"large", "decompression", "encoding", "malformed", "unavailable"}

\* decideGate
DecideGate(p, kind) ==
  IF p.action # "ALLOW" THEN "BLOCK"
  ELSE IF p.gate = "OFF" THEN "BYPASS"
  ELSE IF kind = "plain" THEN "INSPECT"
  ELSE IF p.tls \in {"BYPASS", "EXCLUDED"} THEN "BYPASS"
  ELSE IF p.tls = "METADATA" THEN "METADATA"
  ELSE IF kind = "nohello" THEN (IF p.fail = "OPEN" THEN "BYPASS" ELSE "BLOCK")
  ELSE "DECRYPT"

\* A mutated form: failing open covers partial inspections too.
VerdictFailOpen(p, ev) ==
  IF ev = "clean" \/ (p.fail = "OPEN" /\ ev \notin {"malformed", "alert"}) THEN "ALLOW"
  ELSE "BLOCK"

\* EvaluateRequest after the plan is read, with hasBlockingGateAlert,
\* decideInspectedRequest and applyGateFailure.
Verdict(p, ev) ==
  CASE ev = "clean" -> "ALLOW"
    [] ev \in {"malformed", "alert"} -> "BLOCK"
    [] ev \in {"encoding", "large", "decompression"} ->
         IF p.fail = "OPEN" /\ p.partial = "ALLOW_PARTIAL" THEN "ALLOW" ELSE "BLOCK"
    [] OTHER -> IF p.fail = "OPEN" THEN "ALLOW" ELSE "BLOCK"

\* What ServeProxyConnection finds at the start of a connection: HTTP, a
\* ClientHello, or TLS without one that can be read.
Kind == {"plain", "tls", "nohello"}

ASSUME ScenarioAssumption ==
  \A x \in Scenarios :
    /\ x.kind \in [Conn -> Kind] /\ x.of \in [Request -> Conn]
    /\ x.generations \in Nat \ {0}
    /\ x.policies \subseteq Policy /\ x.evidence \subseteq Evidence

Inspecting == {"INSPECT", "DECRYPT"}

Idle == [pc |-> "none", gen |-> 0, sid |-> None, action |-> "BLOCK", tries |-> 0]
NoSession == [state |-> "none", revoked |-> FALSE, effective |-> "none"]
Undecided == [verdict |-> "none", gen |-> 0, sid |-> None]

ConnOf(a) == IF a \in Conn THEN a ELSE sc.of[a]

Init ==
  /\ sc \in Scenarios
  /\ inst = 1 /\ gen = 1 /\ activating = FALSE /\ preparing = FALSE /\ ready = 1
  /\ program \in [1 .. sc.generations -> sc.policies]
  /\ blocked = FALSE
  /\ flow = CHOOSE s \in Session : TRUE
  /\ sess = [s \in Session |-> NoSession]
  /\ table = [c \in Conn |-> None]
  /\ op = [a \in Caller |-> Idle]
  /\ link = [c \in Conn |-> [stage |-> IF c \in sc.conns THEN "accepted" ELSE "closed",
                             sid |-> None]]
  /\ stage = [r \in Request |-> "none"]
  /\ evidence \in [Request -> sc.evidence]
  /\ decided = [r \in Request |-> Undecided]
  /\ since = [r \in Request |-> {}]

----
\* The engine around the gate: activation, sessions and blocks.

\* PrepareActivation forgets the verified interception; PrepareGateRuntime sets
\* the preparation when the candidate uses the gate.
BeginActivation ==
  /\ "activate" \in sc.events /\ ~activating
  /\ activating' = TRUE /\ ready' = 0 /\ preparing' \in BOOLEAN
  /\ UNCHANGED <<sc, inst, gen, program, store, table, op, proxy, decided, since>>

\* Runtime.Activate publishes the next generation; an activation that fails after
\* this is compensated by another one.
PublishGeneration ==
  /\ activating /\ gen < sc.generations
  /\ gen' = gen + 1
  /\ UNCHANGED <<sc, inst, program, activating, preparing, ready, store, table, op, proxy,
                 decided, since>>

\* finalizeActivation, with CompleteGatePreparation.
EndActivation ==
  /\ activating
  /\ activating' = FALSE /\ preparing' = FALSE
  /\ UNCHANGED <<sc, inst, gen, program, ready, store, table, op, proxy, decided, since>>

\* refreshM4ReadinessLocked, which verifies the published snapshot or forgets it.
RefreshReadiness ==
  /\ ~activating /\ "activate" \in sc.events
  /\ ready' \in {0, gen} /\ ready' # ready
  /\ UNCHANGED <<sc, inst, gen, program, activating, preparing, store, table, op, proxy,
                 decided, since>>

\* A new engine process: its tables, sessions and blocks start empty, and the
\* calls the old one was serving break.
EngineRestarts ==
  /\ "restart" \in sc.events /\ inst = 1
  /\ inst' = 2
  /\ table' = [c \in Conn |-> None]
  /\ op' = [a \in Caller |-> IF op[a].pc \in {"none", "replied"} THEN op[a]
                             ELSE [op[a] EXCEPT !.pc = "failed"]]
  /\ sess' = [s \in Session |-> NoSession] /\ blocked' = FALSE
  /\ decided' = [r \in Request |-> Undecided]
  /\ since' = [r \in Request |-> {}]
  /\ UNCHANGED <<sc, gen, program, activating, preparing, ready, flow, proxy>>

Decision(g) == IF blocked THEN "DROP" ELSE program[g].action

\* ApplyObserved records the incarnation, and evaluateObserved gives it zones
\* and a decision in a second step.
SessionObserved ==
  /\ "learn" \in sc.events /\ flow # None /\ sess[flow].state = "none"
  /\ sess' = [sess EXCEPT ![flow].state = "raw"]
  /\ UNCHANGED <<sc, engine, blocked, flow, table, op, proxy, decided, since>>

SessionEnriched(s) ==
  /\ sess[s].state = "raw"
  /\ sess' = [sess EXCEPT ![s].state = "active",
                          ![s].effective = IF sess[s].revoked THEN "DROP" ELSE Decision(gen)]
  /\ UNCHANGED <<sc, engine, blocked, flow, table, op, proxy, decided, since>>

\* The kernel forgets the entry; the next packet of the tuple makes another.
FlowEnds ==
  /\ "reuse" \in sc.events /\ flow # None
  /\ flow' = None
  /\ since' = [r \in Request |-> since[r] \ {"revoked"}]
  /\ UNCHANGED <<sc, engine, blocked, sess, table, op, proxy, decided>>

FlowReplaced(s) ==
  /\ flow = None /\ sess[s] = NoSession
  /\ flow' = s
  /\ UNCHANGED <<sc, engine, blocked, sess, table, op, proxy, decided, since>>

SessionClosed(s) ==
  /\ s # flow /\ sess[s].state \in {"raw", "active"}
  /\ sess' = [sess EXCEPT ![s].state = "closed"]
  /\ UNCHANGED <<sc, engine, blocked, flow, table, op, proxy, decided, since>>

Revoke(s) ==
  /\ "revoke" \in sc.events /\ sess[s].state \in {"raw", "active"} /\ ~sess[s].revoked
  /\ sess' = [sess EXCEPT ![s].revoked = TRUE, ![s].effective = "DROP"]
  /\ UNCHANGED <<sc, engine, blocked, flow, table, op, proxy, decided, since>>

Reevaluated(b) ==
  [s \in Session |->
     IF sess[s].state = "active" /\ ~sess[s].revoked
     THEN [sess[s] EXCEPT !.effective = IF b THEN "DROP" ELSE program[gen].action]
     ELSE sess[s]]

BlockSource ==
  /\ "block" \in sc.events /\ ~blocked
  /\ blocked' = TRUE /\ sess' = Reevaluated(TRUE)
  /\ UNCHANGED <<sc, engine, flow, table, op, proxy, decided, since>>

UnblockSource ==
  /\ blocked
  /\ blocked' = FALSE /\ sess' = Reevaluated(FALSE)
  /\ since' = [r \in Request |-> since[r] \ {"blocked"}]
  /\ UNCHANGED <<sc, engine, flow, table, op, proxy, decided>>

\* The TTL of a connection record passes.
RecordExpires(c) ==
  /\ "expire" \in sc.events /\ table[c] # None /\ table[c].fresh
  /\ table' = [table EXCEPT ![c].fresh = FALSE]
  /\ UNCHANGED <<sc, engine, store, op, proxy, decided, since>>

----
\* GateService.OpenConnection, the engine's side of a connection's call, and the
\* first half of EvaluateRequest.

\* checkProxyRuntime
Accepts(d) == ~preparing /\ d.inst = inst /\ d.gen = gen /\ ready = gen

Goto(a, pc) == op' = [op EXCEPT ![a].pc = pc]

\* ServeConn hands the request frame to HandleGate. For a request
\* EvaluateRequest looks the connection up first, and a record past its TTL is
\* dropped.
Receive(a) ==
  /\ op[a].pc = "sent"
  /\ LET c == ConnOf(a)
         known == table[c] # None /\ table[c].fresh
     IN  /\ Goto(a, IF ~Accepts(Runtime) THEN "failed"
                    ELSE IF a \in Request /\ ~known THEN "final" ELSE "enter")
         /\ table' = IF Accepts(Runtime) /\ a \in Request /\ ~known
                     THEN [table EXCEPT ![c] = None] ELSE table
  /\ UNCHANGED <<sc, engine, store, proxy, decided, since>>

EnterOpen(a) ==
  /\ op[a].pc = "enter"
  /\ Goto(a, IF Accepts(Runtime) THEN "open" ELSE "failed")
  /\ UNCHANGED <<sc, engine, store, table, proxy, decided, since>>

Opened(a) == IF a \in Request THEN "plan" ELSE "reply"

\* One attempt starts with the generation of the program it reads; after three
\* the connection is refused under the generation of the moment.
ReadProgram(a) ==
  /\ op[a].pc = "open"
  /\ op' = [op EXCEPT ![a] =
              [pc |-> IF op[a].tries < MaxTries THEN "resolve" ELSE Opened(a),
               gen |-> gen, sid |-> None, action |-> "BLOCK", tries |-> op[a].tries]]
  /\ UNCHANGED <<sc, engine, store, table, proxy, decided, since>>

\* A mutated form: a record without zones is unbound even when it is revoked.
LinkedZoned(s) ==
  s # None /\ sess[s].state = "active"

\* resolveProxySession: the session recorded for the identity the kernel has
\* now, unless that is still without zones, decision and revocation. A lookup
\* that fails or finds nothing is an error, which permits nothing.
Linked(s) ==
  /\ s # None /\ sess[s].state \in {"raw", "active"}
  /\ sess[s].state = "raw" => sess[s].revoked

ResolveSession(a) ==
  /\ op[a].pc = "resolve"
  /\ \E answered \in {TRUE, "lose" \notin sc.events} :
     op' = [op EXCEPT ![a] =
       CASE flow = None \/ ~answered -> [op[a] EXCEPT !.pc = "source"]
         [] answered /\ Linked(flow) /\ sess[flow].revoked ->
              [op[a] EXCEPT !.pc = "source", !.sid = flow]
         [] answered /\ Linked(flow) /\ ~sess[flow].revoked ->
              [op[a] EXCEPT !.pc = "evaluate", !.sid = flow]
         [] OTHER ->
              [op[a] EXCEPT !.pc = "source",
                            !.action = DecideGate(program[op[a].gen], sc.kind[ConnOf(a)])]]
  /\ UNCHANGED <<sc, engine, store, table, proxy, decided, since>>

Retry(a) == [op[a] EXCEPT !.pc = "open", !.tries = op[a].tries + 1]

\* Runtime.Evaluate decides for the generation of the moment, which must be the
\* one this attempt is about. A session that closed meanwhile is an error.
EvaluateSession(a) ==
  /\ op[a].pc = "evaluate"
  /\ LET s == op[a].sid
         live == sess[s].state = "active"
     IN  /\ op' = [op EXCEPT ![a] =
                     CASE ~live -> [op[a] EXCEPT !.pc = "source"]
                       [] live /\ gen # op[a].gen -> Retry(a)
                       [] OTHER -> [op[a] EXCEPT !.pc = "get"]]
         /\ sess' = IF live /\ ~sess[s].revoked
                    THEN [sess EXCEPT ![s].effective = Decision(gen)] ELSE sess
  /\ UNCHANGED <<sc, engine, blocked, flow, table, proxy, decided, since>>

\* The session is read again after the evaluation, and denies when it was
\* revoked, closed or given a dropping decision.
GetSession(a) ==
  /\ op[a].pc = "get"
  /\ LET s == op[a].sid
         denied == sess[s].state # "active" \/ sess[s].revoked \/ sess[s].effective = "DROP"
     IN  op' = [op EXCEPT ![a].pc = "source",
                          ![a].action = IF denied THEN "BLOCK"
                                        ELSE DecideGate(program[op[a].gen], sc.kind[ConnOf(a)])]
  /\ UNCHANGED <<sc, engine, store, table, proxy, decided, since>>

\* gateSourceBlocked outranks every decision of the attempt.
CheckSource(a) ==
  /\ op[a].pc = "source"
  /\ op' = [op EXCEPT ![a].pc = "pin",
                      ![a].action = IF blocked THEN "BLOCK" ELSE op[a].action]
  /\ UNCHANGED <<sc, engine, store, table, proxy, decided, since>>

Fresh == {c \in Conn : table[c] # None /\ table[c].fresh}


\* rememberGateConnection: the table after it, and whether it agreed.
RememberConnection(c, sid, action) ==
  LET known == c \in Fresh
      moved == known /\ table[c].sid # None /\ table[c].sid # sid
      size == Cardinality({d \in Conn : table[d] # None})
      purged == IF table[c] = None /\ size >= sc.records
                THEN [d \in Conn |-> IF d \in Fresh THEN table[d] ELSE None] ELSE table
      full == table[c] = None /\ Cardinality({d \in Conn : purged[d] # None}) >= sc.records
  IN  CASE moved -> [table |-> [table EXCEPT ![c] = None], kept |-> FALSE]
        [] ~moved /\ action \notin Inspecting -> [table |-> table, kept |-> TRUE]
        [] ~moved /\ action \in Inspecting /\ full -> [table |-> purged, kept |-> FALSE]
        [] OTHER -> [table |-> [purged EXCEPT ![c] = [sid |-> sid, fresh |-> TRUE]],
                     kept |-> TRUE]

\* The attempt stands if the generation did not move under it.
PinConnection(a) ==
  /\ op[a].pc = "pin"
  /\ IF gen # op[a].gen
     THEN op' = [op EXCEPT ![a] = Retry(a)] /\ UNCHANGED table
     ELSE \E m \in {RememberConnection(ConnOf(a), op[a].sid, op[a].action)} :
            /\ table' = m.table
            /\ op' = [op EXCEPT ![a].pc = Opened(a),
                                ![a].action = IF m.kept THEN op[a].action ELSE "BLOCK"]
  /\ UNCHANGED <<sc, engine, store, proxy, decided, since>>

----
\* GateService.EvaluateRequest after the connection was opened again, and the
\* replies.

\* The connection must still be inspected and be of the session the proxy was
\* told; the plan must be of the generation the connection was opened under.
PlanRequest(r) ==
  /\ op[r].pc = "plan"
  /\ LET mine == /\ op[r].action \in Inspecting
                 /\ link[ConnOf(r)].sid # None => op[r].sid = link[ConnOf(r)].sid
         planned == gen = op[r].gen /\ program[gen].gate = "ON"
     IN  op' = [op EXCEPT ![r].pc = "final",
                          ![r].action = IF mine /\ planned
                                        THEN Verdict(program[gen], evidence[r]) ELSE "BLOCK"]
  /\ UNCHANGED <<sc, engine, store, table, proxy, decided, since>>

\* The last look at the generation, and storeGateDecision. A request of an
\* unknown connection arrives here without a generation.
FinishRequest(r) ==
  /\ op[r].pc = "final"
  /\ \E v \in {IF op[r].action = "ALLOW" /\ gen = op[r].gen THEN "ALLOW" ELSE "BLOCK"} :
       LET g == IF op[r].gen = 0 THEN gen ELSE op[r].gen IN
       /\ op' = [op EXCEPT ![r].pc = "reply", ![r].action = v, ![r].gen = g]
       /\ decided' = [decided EXCEPT ![r] = [verdict |-> v, gen |-> g, sid |-> op[r].sid]]
  /\ UNCHANGED <<sc, engine, store, table, proxy, since>>

\* The reply reaches the proxy, unless it gave up on the call.
Waiting(a) == IF a \in Conn THEN link[a].stage = "asking" ELSE stage[a] = "asking"

\* IPCConnectionAuthorizer, validateConnectionDecision and the switch of
\* ServeProxyConnection; serveDecrypted may fail its handshake.
ConnectionReply(c) ==
  /\ op[c].pc \in {"reply", "failed"} /\ Waiting(c)
  /\ op' = [op EXCEPT ![c].pc = "replied"]
  /\ LET good == op[c].pc = "reply" /\ op[c].gen = Runtime.gen
         next == CASE ~good \/ op[c].action = "BLOCK" -> {"closed"}
                   [] good /\ op[c].action \in {"BYPASS", "METADATA"} -> {"tunnel"}
                   [] good /\ op[c].action = "DECRYPT" -> {"serving", "closed"}
                   [] OTHER -> {"serving"}
     IN  \E s \in next : link' = [link EXCEPT ![c] = [stage |-> s, sid |-> op[c].sid]]
  /\ UNCHANGED <<sc, engine, store, table, stage, evidence, decided, since>>

\* A request's handler moves on; a refusal closes an HTTP/1.1 connection
\* (writeGateStatus).
Proceed(r, s) ==
  /\ stage' = [stage EXCEPT ![r] = s]
  /\ link' = IF s = "refused" /\ ~sc.streams THEN [link EXCEPT ![ConnOf(r)].stage = "closed"]
             ELSE link

\* IPCRequestAuthorizer and validRequestDecision: only an ALLOW of the runtime's
\* own generation hands the body over (ReplayAfterAllow).
RequestReply(r) ==
  /\ op[r].pc \in {"reply", "failed"} /\ Waiting(r)
  /\ LET good == op[r].pc = "reply" /\ op[r].gen = Runtime.gen
     IN  Proceed(r, IF good /\ op[r].action = "ALLOW" THEN "forwarding" ELSE "refused")
  /\ op' = [op EXCEPT ![r].pc = "replied"]
  /\ UNCHANGED <<sc, engine, store, table, evidence, decided, since>>

\* The call's deadline passes, or its connection breaks: the proxy answers 503
\* and the engine may go on.
CallLost(a) ==
  /\ "lose" \in sc.events /\ Waiting(a)
  /\ IF a \in Conn
     THEN link' = [link EXCEPT ![a].stage = "closed"] /\ UNCHANGED stage
     ELSE Proceed(a, "refused")
  /\ op' = IF op[a].pc = "sent" THEN [op EXCEPT ![a].pc = "replied"] ELSE op
  /\ UNCHANGED <<sc, engine, store, table, evidence, decided, since>>

----
\* The proxy.

\* ServeProxyConnection: the ClientHello was read, its failure is part of the
\* connection's kind, and the engine is asked.
OpenConnection(c) ==
  /\ link[c].stage = "accepted"
  /\ link' = [link EXCEPT ![c].stage = "asking"]
  /\ Goto(c, "sent")
  /\ UNCHANGED <<sc, engine, store, table, stage, evidence, decided, since>>

Admitted == {r \in Request : stage[r] \notin {"none", "refused", "done"}}

\* handleRequest: requestSlots and the client's own count bound what is in
\* progress; an HTTP/1.1 connection serves one request at a time.
AdmitRequest(r) ==
  /\ stage[r] = "none" /\ link[ConnOf(r)].stage = "serving"
  /\ ~sc.streams => \A q \in Admitted : ConnOf(q) # ConnOf(r)
  /\ Proceed(r, IF Cardinality(Admitted) < sc.slots THEN "reading" ELSE "refused")
  /\ UNCHANGED <<sc, engine, store, table, op, evidence, decided, since>>

\* ReadGateRequestBody under the read deadline, and the request's normalisation.
ReadBody(r) ==
  /\ stage[r] = "reading"
  /\ \E s \in {"inspecting", "refused"} : Proceed(r, s)
  /\ UNCHANGED <<sc, engine, store, table, op, evidence, decided, since>>

Denials ==
  {d \in {"blocked", "revoked"} :
     \/ d = "blocked" /\ blocked
     \/ d = "revoked" /\ flow # None /\ sess[flow].revoked /\ sess[flow].state # "closed"}

\* The evidence is complete (InspectRequest bounded to three quarters of the
\* deadline) and goes to the engine with the request.
AskEngine(r) ==
  /\ stage[r] = "inspecting"
  /\ stage' = [stage EXCEPT ![r] = "asking"]
  /\ Goto(r, "sent")
  /\ since' = [since EXCEPT ![r] = Denials]
  /\ UNCHANGED <<sc, engine, store, table, link, evidence, decided>>

\* forwardAllowed, which reports the result and ends the request whatever the
\* upstream answered.
Forward(r) ==
  /\ stage[r] = "forwarding"
  /\ stage' = [stage EXCEPT ![r] = "done"]
  /\ UNCHANGED <<sc, engine, store, table, op, link, evidence, decided, since>>

----
Serve(a) ==
  Receive(a) \/ EnterOpen(a) \/ ReadProgram(a) \/ ResolveSession(a) \/ EvaluateSession(a)
    \/ GetSession(a) \/ CheckSource(a) \/ PinConnection(a)

Decide(r) == PlanRequest(r) \/ FinishRequest(r) \/ RequestReply(r)

Handle(r) == AdmitRequest(r) \/ ReadBody(r) \/ AskEngine(r) \/ Forward(r)

Environment ==
  \/ BeginActivation \/ PublishGeneration \/ EndActivation \/ RefreshReadiness
  \/ EngineRestarts \/ SessionObserved \/ FlowEnds \/ BlockSource \/ UnblockSource
  \/ \E s \in Session :
       SessionEnriched(s) \/ FlowReplaced(s) \/ SessionClosed(s) \/ Revoke(s)
  \/ \E c \in Conn : RecordExpires(c)

Next ==
  \/ Environment
  \/ \E a \in Caller : Serve(a) \/ CallLost(a)
  \/ \E c \in Conn : OpenConnection(c) \/ ConnectionReply(c)
  \/ \E r \in Request : Decide(r) \/ Handle(r)

Spec == Init /\ [][Next]_vars

----
\* Properties.

\* What reaches the upstream is what one generation's program says. A request is
\* forwarded only if the policy of the runtime's own generation allows and gates
\* the flow, in a mode that inspects it, and its evidence is a clean inspection
\* or the policy fails open (for partial evidence: allows partial ones too). A
\* connection is tunnelled uninspected only if that policy allows it and either
\* does not gate it, exempts it, or fails open on a connection without a
\* ClientHello. The program, the session and the plan are read in separate steps
\* while generations are published and put back.
ForwardedIsJustified ==
  LET p == program[Runtime.gen]
      whole(e) == e \in {"unknown", "ruleset", "unavailable"}
      partly(e) == e \in {"large", "decompression", "encoding"}
  IN  /\ \A r \in Request : stage[r] \in {"forwarding", "done"} =>
           /\ p.action = "ALLOW" /\ p.gate = "ON"
           /\ sc.kind[ConnOf(r)] # "plain" => p.tls = "DECRYPT" /\ sc.kind[ConnOf(r)] = "tls"
           /\ \/ evidence[r] = "clean"
              \/ p.fail = "OPEN" /\ whole(evidence[r])
              \/ p.fail = "OPEN" /\ p.partial = "ALLOW_PARTIAL" /\ partly(evidence[r])
      /\ \A c \in Conn : link[c].stage = "tunnel" =>
           /\ p.action = "ALLOW"
           /\ \/ p.gate = "OFF"
              \/ sc.kind[c] # "plain" /\ p.tls # "DECRYPT"
              \/ sc.kind[c] = "nohello" /\ p.fail = "OPEN"

\* A source block or a revocation of the flow's session that is in force from
\* before the request is sent to the engine until the engine decides is never
\* answered with ALLOW, whatever is learned, activated or retried meanwhile
\* ("A new source block must outrank every cached or newly calculated ALLOW").
DeniedStaysDenied ==
  \A r \in Request : since[r] # {} => decided[r].verdict # "ALLOW"


====
