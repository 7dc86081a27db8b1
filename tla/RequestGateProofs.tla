------------------------- MODULE RequestGateProofs --------------------------
(***************************************************************************)
(* Proofs about RequestGate, for any connections, requests, sessions and    *)
(* scenarios: what is forwarded is justified by one generation's policy,    *)
(* and a standing denial is never answered with ALLOW.                      *)
(***************************************************************************)
EXTENDS RequestGate, TLAPS

Pc == {"none", "sent", "enter", "open", "resolve", "evaluate", "get", "source", "pin",
       "plan", "final", "reply", "failed", "replied"}
Action == {"BLOCK", "BYPASS", "INSPECT", "METADATA", "DECRYPT", "ALLOW"}
Call == [pc : Pc, gen : Nat, sid : Session \cup {None}, action : Action, tries : Nat]
SessionRecord == [state : {"none", "raw", "active", "closed"}, revoked : BOOLEAN,
                  effective : {"none", "ALLOW", "DROP"}]
DecisionRecord == [verdict : {"none", "ALLOW", "BLOCK"}, gen : Nat, sid : Session \cup {None}]
Link == [stage : {"accepted", "closed", "asking", "tunnel", "serving"},
         sid : Session \cup {None}]
Stage == {"none", "reading", "inspecting", "asking", "forwarding", "refused", "done"}

TypeInv ==
  /\ sc \in Scenarios
  /\ gen \in 1 .. sc.generations
  /\ program \in [1 .. sc.generations -> Policy]
  /\ blocked \in BOOLEAN /\ flow \in Session \cup {None}
  /\ sess \in [Session -> SessionRecord]
  /\ op \in [Caller -> Call]
  /\ link \in [Conn -> Link]
  /\ stage \in [Request -> Stage] /\ evidence \in [Request -> Evidence]
  /\ decided \in [Request -> DecisionRecord]
  /\ since \in [Request -> SUBSET {"blocked", "revoked"}]

-----------------------------------------------------------------------------
\* What policy p justifies: a request with evidence e on a connection of kind k, and
\* a connection of kind k that is not inspected.
Justifies(p, k, e) ==
  /\ p.action = "ALLOW" /\ p.gate = "ON"
  /\ k # "plain" => p.tls = "DECRYPT" /\ k = "tls"
  /\ \/ e = "clean"
     \/ p.fail = "OPEN" /\ e \in {"unknown", "ruleset", "unavailable"}
     \/ p.fail = "OPEN" /\ p.partial = "ALLOW_PARTIAL"
        /\ e \in {"large", "decompression", "encoding"}

Exempts(p, k) ==
  /\ p.action = "ALLOW"
  /\ \/ p.gate = "OFF"
     \/ k # "plain" /\ p.tls # "DECRYPT"
     \/ k = "nohello" /\ p.fail = "OPEN"

KindOf(a) == sc.kind[ConnOf(a)]

\* What an execution l of the call of a has found out: until the session is read
\* nothing is permitted; then at most what the policy of the generation l.gen says;
\* and an ALLOW for a request is justified by that policy.
CallSound(l, a) ==
  /\ l.pc \in {"resolve", "evaluate", "get"} =>
       l.gen \in 1 .. sc.generations /\ l.action = "BLOCK"
  /\ l.pc \in {"source", "pin", "plan"} \/ (a \in Conn /\ l.pc = "reply") =>
       /\ l.gen \in 1 .. sc.generations
       /\ l.action \in {"BLOCK", DecideGate(program[l.gen], KindOf(a))}
  /\ a \in Request =>
       /\ l.pc \in {"none", "sent"} => l.action = "BLOCK"
       /\ l.pc \in {"final", "reply"} /\ l.action = "ALLOW" =>
            Justifies(program[l.gen], KindOf(a), evidence[a])

CallInv == \A a \in Caller : CallSound(op[a], a)

\* A request that was not sent yet is unknown to the engine.
Unsent == {"none", "reading", "inspecting"}

RequestInv ==
  \A r \in Request :
    /\ stage[r] \in Unsent => op[r].pc = "none" /\ decided[r].verdict = "none"
    /\ stage[r] \in {"forwarding", "done"} =>
         Justifies(program[1], KindOf(r), evidence[r])

TunnelInv == \A c \in Conn : link[c].stage = "tunnel" => Exempts(program[1], KindOf(c))

-----------------------------------------------------------------------------
\* What is remembered as denied since a request was sent is still in force,
Standing(d) ==
  /\ "blocked" \in d => blocked
  /\ "revoked" \in d => /\ flow # None /\ sess[flow].revoked
                        /\ sess[flow].state \in {"raw", "active"}

\* and no reading of the engine has missed it: a revocation is found where the
\* session is resolved, a block where the source is checked.
CallDenied(l, d) ==
  /\ "revoked" \in d => /\ l.pc \notin {"evaluate", "get"}
                        /\ l.pc = "source" => l.action = "BLOCK"
  /\ d # {} /\ l.pc \in {"pin", "plan", "final"} => l.action = "BLOCK"

RevokedKnown == \A s \in Session : sess[s].revoked => sess[s].state # "none"

DenialInv ==
  /\ RevokedKnown
  /\ \A r \in Request : Standing(since[r]) /\ CallDenied(op[r], since[r])
  /\ DeniedStaysDenied

GateInv == TypeInv /\ CallInv /\ RequestInv /\ TunnelInv /\ DenialInv

-----------------------------------------------------------------------------
(***************************************************************************)
(* The operators.                                                          *)
(***************************************************************************)
LEMMA DecideGateType ==
  ASSUME NEW p, NEW k
  PROVE  DecideGate(p, k) \in {"BLOCK", "BYPASS", "INSPECT", "METADATA", "DECRYPT"}
BY DEF DecideGate

\* A request is allowed only by the plan that inspects it.
LEMMA VerdictJustified ==
  ASSUME NEW p \in Policy, NEW k \in Kind, NEW e \in Evidence,
         DecideGate(p, k) \in Inspecting, p.gate = "ON", Verdict(p, e) = "ALLOW"
  PROVE  Justifies(p, k, e)
<1>1. p.action = "ALLOW" /\ (k # "plain" => p.tls = "DECRYPT" /\ k = "tls")
  BY DEF DecideGate, Inspecting, Policy, Kind
<1>2. \/ e = "clean"
      \/ p.fail = "OPEN" /\ e \in {"unknown", "ruleset", "unavailable"}
      \/ p.fail = "OPEN" /\ p.partial = "ALLOW_PARTIAL"
         /\ e \in {"large", "decompression", "encoding"}
  BY DEF Verdict, Evidence, Completed
<1> QED BY <1>1, <1>2 DEF Justifies

LEMMA BypassExempts ==
  ASSUME NEW p \in Policy, NEW k \in Kind, DecideGate(p, k) \in {"BYPASS", "METADATA"}
  PROVE  Exempts(p, k)
BY DEF DecideGate, Exempts, Policy, Kind

LEMMA VerdictType ==
  ASSUME NEW p, NEW e
  PROVE  Verdict(p, e) \in {"ALLOW", "BLOCK"}
BY DEF Verdict

\* The kind of a caller's connection.
LEMMA KindOfType ==
  ASSUME sc \in Scenarios, NEW a \in Caller
  PROVE  ConnOf(a) \in Conn /\ KindOf(a) \in Kind
BY ScenarioAssumption DEF ConnOf, KindOf, Caller

-----------------------------------------------------------------------------
(***************************************************************************)
(* The engine's execution of a call.                                       *)
(***************************************************************************)
\* What a step of the execution for a makes of it, as far as the invariant goes.
Served(a, m) ==
  /\ m \in Call /\ op' = [op EXCEPT ![a] = m] /\ op[a].pc # "none"
  /\ CallSound(m, a)
  /\ a \in Request => CallDenied(m, since[a])

\* Steps that move to the next location only.
LEMMA MoveStep ==
  ASSUME TypeInv, NEW a \in Caller, NEW pc \in {"failed", "enter", "open"}, Goto(a, pc),
         op[a].pc # "none"
  PROVE  Served(a, [op[a] EXCEPT !.pc = pc])
<1>1. [op[a] EXCEPT !.pc = pc] \in Call /\ [op[a] EXCEPT !.pc = pc].pc = pc
  BY DEF TypeInv, Call, Pc
<1>2. op' = [op EXCEPT ![a] = [op[a] EXCEPT !.pc = pc]]
  BY DEF Goto, TypeInv
<1> QED BY <1>1, <1>2 DEF Served, CallSound, CallDenied

LEMMA ReceiveStep ==
  ASSUME GateInv, NEW a \in Caller, Receive(a)
  PROVE  \E m : Served(a, m)
<1>1. TypeInv /\ CallSound(op[a], a) /\ op[a].pc = "sent" /\ op[a] \in Call
  BY DEF GateInv, CallInv, TypeInv, Receive
<1>2. \/ \E pc \in {"failed", "enter"} : Goto(a, pc)
      \/ a \in Request /\ Goto(a, "final")
  BY DEF Receive
<1>3. CASE \E pc \in {"failed", "enter"} : Goto(a, pc)
  BY <1>1, <1>3, MoveStep
<1>4. CASE a \in Request /\ Goto(a, "final")
  <2> DEFINE m == [op[a] EXCEPT !.pc = "final"]
  <2>1. m \in Call /\ m.pc = "final" /\ m.action = "BLOCK"
    BY <1>1, <1>4 DEF Call, Pc, CallSound
  <2>2. op' = [op EXCEPT ![a] = m]
    BY <1>1, <1>4 DEF Goto, TypeInv
  <2>3. a \notin Conn
    BY <1>4, CallerAssumption
  <2> HIDE DEF m
  <2> QED BY <1>1, <2>1, <2>2, <2>3 DEF Served, CallSound, CallDenied
<1> QED BY <1>2, <1>3, <1>4

LEMMA EnterOpenStep ==
  ASSUME GateInv, NEW a \in Caller, EnterOpen(a)
  PROVE  \E m : Served(a, m)
<1>1. TypeInv /\ op[a].pc # "none" /\ \E pc \in {"failed", "open"} : Goto(a, pc)
  BY DEF GateInv, EnterOpen
<1> QED BY <1>1, MoveStep

LEMMA ReadProgramStep ==
  ASSUME GateInv, NEW a \in Caller, ReadProgram(a)
  PROVE  \E m : Served(a, m)
<1> DEFINE m == [pc |-> IF op[a].tries < MaxTries THEN "resolve" ELSE Opened(a),
                 gen |-> gen, sid |-> None, action |-> "BLOCK", tries |-> op[a].tries]
<1>1. TypeInv /\ op[a].pc = "open" /\ op[a] \in Call /\ op' = [op EXCEPT ![a] = m]
  BY DEF GateInv, TypeInv, ReadProgram
<1>2. gen \in 1 .. sc.generations /\ gen \in Nat
  BY <1>1, ScenarioAssumption DEF TypeInv
<1>3. /\ m.pc \in {"resolve", "plan", "reply"} /\ m.action = "BLOCK" /\ m.gen = gen
      /\ a \in Request => m.pc # "reply"
  BY DEF Opened
<1>4. m \in Call
  BY <1>1, <1>2, <1>3 DEF Call, Pc, Action
<1> HIDE DEF m
<1> QED BY <1>1, <1>2, <1>3, <1>4 DEF Served, CallSound, CallDenied

LEMMA ResolveSessionStep ==
  ASSUME GateInv, NEW a \in Caller, ResolveSession(a)
  PROVE  \E m : Served(a, m)
<1>1. /\ TypeInv /\ CallSound(op[a], a) /\ op[a].pc = "resolve" /\ op[a] \in Call
      /\ op[a].gen \in 1 .. sc.generations /\ op[a].action = "BLOCK"
  BY DEF GateInv, CallInv, TypeInv, ResolveSession, CallSound
<1> DEFINE d == DecideGate(program[op[a].gen], KindOf(a))
<1>2. PICK answered \in BOOLEAN :
        op' = [op EXCEPT ![a] =
          CASE flow = None \/ ~answered -> [op[a] EXCEPT !.pc = "source"]
            [] answered /\ Linked(flow) /\ sess[flow].revoked ->
                 [op[a] EXCEPT !.pc = "source", !.sid = flow]
            [] answered /\ Linked(flow) /\ ~sess[flow].revoked ->
                 [op[a] EXCEPT !.pc = "evaluate", !.sid = flow]
            [] OTHER -> [op[a] EXCEPT !.pc = "source", !.action = d]]
  BY DEF ResolveSession, KindOf
<1>3. d \in Action
  BY DecideGateType DEF Action
<1> HIDE DEF d
<1>4. CASE flow = None \/ ~answered
  <2> DEFINE m == [op[a] EXCEPT !.pc = "source"]
  <2>1. op' = [op EXCEPT ![a] = m]
    BY <1>2, <1>4 DEF Linked
  <2>2. m \in Call /\ m.pc = "source" /\ m.action = "BLOCK" /\ m.gen = op[a].gen
    BY <1>1 DEF Call, Pc
  <2> HIDE DEF m
  <2> QED BY <1>1, <2>1, <2>2 DEF Served, CallSound, CallDenied
<1>5. CASE flow # None /\ answered /\ Linked(flow) /\ sess[flow].revoked
  <2> DEFINE m == [op[a] EXCEPT !.pc = "source", !.sid = flow]
  <2>1. op' = [op EXCEPT ![a] = m]
    BY <1>2, <1>5
  <2>2. m \in Call /\ m.pc = "source" /\ m.action = "BLOCK" /\ m.gen = op[a].gen
    BY <1>1 DEF Call, Pc, TypeInv
  <2> HIDE DEF m
  <2> QED BY <1>1, <2>1, <2>2 DEF Served, CallSound, CallDenied
<1>6. ASSUME flow # None, ~(Linked(flow) /\ sess[flow].revoked), a \in Request
      PROVE  "revoked" \notin since[a]
  BY <1>1, <1>6 DEF GateInv, DenialInv, Standing, Linked, TypeInv, SessionRecord
<1>7. CASE flow # None /\ answered /\ Linked(flow) /\ ~sess[flow].revoked
  <2> DEFINE m == [op[a] EXCEPT !.pc = "evaluate", !.sid = flow]
  <2>1. op' = [op EXCEPT ![a] = m]
    BY <1>2, <1>7
  <2>2. m \in Call /\ m.pc = "evaluate" /\ m.action = "BLOCK" /\ m.gen = op[a].gen
    BY <1>1 DEF Call, Pc, TypeInv
  <2> HIDE DEF m
  <2> QED BY <1>1, <1>6, <1>7, <2>1, <2>2 DEF Served, CallSound, CallDenied
<1>8. CASE flow # None /\ answered /\ ~Linked(flow)
  <2> DEFINE m == [op[a] EXCEPT !.pc = "source", !.action = d]
  <2>1. op' = [op EXCEPT ![a] = m]
    BY <1>2, <1>8
  <2>2. m \in Call /\ m.pc = "source" /\ m.action = d /\ m.gen = op[a].gen
    BY <1>1, <1>3 DEF Call, Pc
  <2> HIDE DEF m
  <2> QED BY <1>1, <1>6, <1>8, <2>1, <2>2 DEF Served, CallSound, CallDenied, d
<1> QED BY <1>4, <1>5, <1>7, <1>8

\* Another attempt.
LEMMA RetryStep ==
  ASSUME TypeInv, NEW a \in Caller, op' = [op EXCEPT ![a] = Retry(a)], op[a].pc # "none"
  PROVE  Served(a, Retry(a))
<1>1. op[a] \in Call
  BY DEF TypeInv
<1>2. op[a].tries + 1 \in Nat
  BY <1>1 DEF Call
<1> DEFINE n == op[a].tries + 1
<1> HIDE DEF n
<1>3. [op[a] EXCEPT !.pc = "open", !.tries = n] \in Call
  BY <1>1, <1>2 DEF Call, Pc, n
<1>4. Retry(a) \in Call /\ Retry(a).pc = "open"
  BY <1>1, <1>3 DEF Retry, n, Call
<1> QED BY <1>4 DEF Served, CallSound, CallDenied

LEMMA EvaluateSessionStep ==
  ASSUME GateInv, NEW a \in Caller, EvaluateSession(a)
  PROVE  \E m : Served(a, m)
<1>1. /\ TypeInv /\ CallSound(op[a], a) /\ op[a].pc = "evaluate" /\ op[a] \in Call
      /\ op[a].gen \in 1 .. sc.generations /\ op[a].action = "BLOCK"
  BY DEF GateInv, CallInv, TypeInv, EvaluateSession, CallSound
<1>2. a \in Request => "revoked" \notin since[a]
  BY <1>1 DEF GateInv, DenialInv, CallDenied
<1>3. \/ op' = [op EXCEPT ![a] = [op[a] EXCEPT !.pc = "source"]]
      \/ op' = [op EXCEPT ![a] = Retry(a)]
      \/ op' = [op EXCEPT ![a] = [op[a] EXCEPT !.pc = "get"]]
  BY DEF EvaluateSession
<1>4. CASE op' = [op EXCEPT ![a] = Retry(a)]
  BY <1>1, <1>4, RetryStep
<1>5. ASSUME NEW pc \in {"source", "get"}, op' = [op EXCEPT ![a] = [op[a] EXCEPT !.pc = pc]]
      PROVE  \E m : Served(a, m)
  <2> DEFINE m == [op[a] EXCEPT !.pc = pc]
  <2>1. m \in Call /\ m.pc = pc /\ m.action = "BLOCK" /\ m.gen = op[a].gen
    BY <1>1 DEF Call, Pc
  <2> HIDE DEF m
  <2> QED BY <1>1, <1>2, <1>5, <2>1 DEF Served, CallSound, CallDenied, m
<1> QED BY <1>3, <1>4, <1>5

LEMMA GetSessionStep ==
  ASSUME GateInv, NEW a \in Caller, GetSession(a)
  PROVE  \E m : Served(a, m)
<1>1. /\ TypeInv /\ CallSound(op[a], a) /\ op[a].pc = "get" /\ op[a] \in Call
      /\ op[a].gen \in 1 .. sc.generations
  BY DEF GateInv, CallInv, TypeInv, GetSession, CallSound
<1>2. a \in Request => "revoked" \notin since[a]
  BY <1>1 DEF GateInv, DenialInv, CallDenied
<1> DEFINE d == DecideGate(program[op[a].gen], KindOf(a))
<1>3. d \in Action
  BY DecideGateType DEF Action
<1>4. PICK w \in {"BLOCK", d} : op' = [op EXCEPT ![a].pc = "source", ![a].action = w]
  BY DEF GetSession, KindOf
<1> HIDE DEF d
<1> DEFINE m == [op[a] EXCEPT !.pc = "source", !.action = w]
<1>5. op' = [op EXCEPT ![a] = m]
  BY <1>1, <1>4 DEF TypeInv
<1>6. m \in Call /\ m.pc = "source" /\ m.action = w /\ m.gen = op[a].gen
  BY <1>1, <1>3 DEF Call, Pc, Action
<1> HIDE DEF m
<1> QED BY <1>1, <1>2, <1>5, <1>6 DEF Served, CallSound, CallDenied, d

LEMMA CheckSourceStep ==
  ASSUME GateInv, NEW a \in Caller, CheckSource(a)
  PROVE  \E m : Served(a, m)
<1>1. /\ TypeInv /\ CallSound(op[a], a) /\ op[a].pc = "source" /\ op[a] \in Call
      /\ op[a].gen \in 1 .. sc.generations
  BY DEF GateInv, CallInv, TypeInv, CheckSource, CallSound
<1> DEFINE w == IF blocked THEN "BLOCK" ELSE op[a].action
           m == [op[a] EXCEPT !.pc = "pin", !.action = w]
<1>2. w \in {"BLOCK", op[a].action}
  OBVIOUS
<1>3. ASSUME a \in Request, since[a] # {}
      PROVE  w = "BLOCK"
  <2>1. "blocked" \in since[a] \/ "revoked" \in since[a]
    BY <1>1, <1>3 DEF TypeInv
  <2>2. "blocked" \in since[a] => blocked
    BY <1>3 DEF GateInv, DenialInv, Standing
  <2>3. "revoked" \in since[a] => op[a].action = "BLOCK"
    BY <1>1, <1>3 DEF GateInv, DenialInv, CallDenied
  <2> QED BY <2>1, <2>2, <2>3
<1>4. op' = [op EXCEPT ![a] = m]
  BY <1>1 DEF TypeInv, CheckSource
<1> HIDE DEF w
<1>5. m \in Call /\ m.pc = "pin" /\ m.action = w /\ m.gen = op[a].gen
  BY <1>1, <1>2 DEF Call, Pc, Action
<1> HIDE DEF m
<1> QED BY <1>1, <1>2, <1>3, <1>4, <1>5 DEF Served, CallSound, CallDenied

LEMMA PinConnectionStep ==
  ASSUME GateInv, NEW a \in Caller, PinConnection(a)
  PROVE  \E m : Served(a, m)
<1>1. /\ TypeInv /\ CallSound(op[a], a) /\ op[a].pc = "pin" /\ op[a] \in Call
      /\ op[a].gen \in 1 .. sc.generations
  BY DEF GateInv, CallInv, TypeInv, PinConnection, CallSound
<1>2. a \in Request /\ since[a] # {} => op[a].action = "BLOCK"
  BY <1>1 DEF GateInv, DenialInv, CallDenied
<1>3. CASE op' = [op EXCEPT ![a] = Retry(a)]
  BY <1>1, <1>3, RetryStep
<1>4. ASSUME NEW w \in {"BLOCK", op[a].action},
             op' = [op EXCEPT ![a].pc = Opened(a), ![a].action = w]
      PROVE  \E m : Served(a, m)
  <2> DEFINE m == [op[a] EXCEPT !.pc = Opened(a), !.action = w]
  <2>1. op' = [op EXCEPT ![a] = m]
    BY <1>1, <1>4 DEF TypeInv
  <2>2. Opened(a) \in {"plan", "reply"} /\ (a \in Request => Opened(a) = "plan")
    BY DEF Opened
  <2>3. m \in Call /\ m.pc = Opened(a) /\ m.action = w /\ m.gen = op[a].gen
    BY <1>1, <2>2 DEF Call, Pc, Action
  <2> HIDE DEF m
  <2> QED BY <1>1, <1>2, <1>4, <2>1, <2>2, <2>3 DEF Served, CallSound, CallDenied
<1>5. CASE gen # op[a].gen
  BY <1>3, <1>5 DEF PinConnection
<1>6. CASE gen = op[a].gen
  <2>1. PICK m \in {RememberConnection(ConnOf(a), op[a].sid, op[a].action)} :
          op' = [op EXCEPT ![a].pc = Opened(a),
                           ![a].action = IF m.kept THEN op[a].action ELSE "BLOCK"]
    BY <1>6 DEF PinConnection
  <2> QED BY <1>4, <2>1
<1> QED BY <1>5, <1>6

\* The plan: an ALLOW is a verdict about the plan the connection is inspected under.
LEMMA PlanRequestStep ==
  ASSUME GateInv, NEW r \in Request, PlanRequest(r)
  PROVE  \E m : Served(r, m)
<1>1. /\ TypeInv /\ r \in Caller /\ r \notin Conn /\ op[r].pc = "plan" /\ op[r] \in Call
      /\ CallSound(op[r], r) /\ gen \in 1 .. sc.generations
  BY CallerAssumption DEF GateInv, CallInv, TypeInv, PlanRequest, Caller
<1>2. PICK w \in {"ALLOW", "BLOCK"} :
        /\ op' = [op EXCEPT ![r].pc = "final", ![r].action = w]
        /\ w = "ALLOW" => /\ op[r].action \in Inspecting /\ gen = op[r].gen
                          /\ program[gen].gate = "ON"
                          /\ Verdict(program[gen], evidence[r]) = "ALLOW"
  BY VerdictType DEF PlanRequest
<1> DEFINE m == [op[r] EXCEPT !.pc = "final", !.action = w]
<1>3. op' = [op EXCEPT ![r] = m]
  BY <1>1, <1>2 DEF TypeInv
<1>4. m \in Call /\ m.pc = "final" /\ m.action = w /\ m.gen = op[r].gen
  BY <1>1 DEF Call, Pc, Action
<1>5. ASSUME w = "ALLOW"
      PROVE  Justifies(program[op[r].gen], KindOf(r), evidence[r])
  <2>1. op[r].action = DecideGate(program[gen], KindOf(r))
    BY <1>1, <1>2, <1>5 DEF CallSound, Inspecting
  <2>2. program[gen] \in Policy /\ evidence[r] \in Evidence /\ KindOf(r) \in Kind
    BY <1>1, KindOfType DEF TypeInv
  <2> QED BY <1>2, <1>5, <2>1, <2>2, VerdictJustified
<1>6. since[r] # {} => w # "ALLOW"
  BY <1>1, <1>2 DEF GateInv, DenialInv, CallDenied, Inspecting
<1> HIDE DEF m
<1> QED BY <1>1, <1>3, <1>4, <1>5, <1>6 DEF Served, CallSound, CallDenied

-----------------------------------------------------------------------------
(***************************************************************************)
(* What the steps leave alone.                                             *)
(***************************************************************************)
\* A session record that changes in its decision only.
SameStanding ==
  /\ sess' \in [Session -> SessionRecord]
  /\ \A s \in Session : sess'[s].revoked = sess[s].revoked /\ sess'[s].state = sess[s].state

LEMMA StandingKept ==
  ASSUME TypeInv, DenialInv, SameStanding, UNCHANGED <<blocked, flow>>
  PROVE  RevokedKnown' /\ \A d : Standing(d) => Standing(d)'
<1>1. RevokedKnown'
  BY DEF RevokedKnown, DenialInv, SameStanding
<1>2. flow # None => flow \in Session
  BY DEF TypeInv
<1>3. ASSUME NEW d, Standing(d)
      PROVE  Standing(d)'
  BY <1>2, <1>3 DEF Standing, SameStanding
<1> QED BY <1>1, <1>3

\* A step of the engine for one caller.
LEMMA ServedKeeps ==
  ASSUME GateInv, NEW a \in Caller, NEW m, Served(a, m), SameStanding,
         UNCHANGED <<sc, gen, program, blocked, flow, link, stage, evidence, decided, since>>
  PROVE  GateInv'
<1>1. TypeInv'
  BY DEF GateInv, TypeInv, SameStanding, Served
<1>2. op' = [op EXCEPT ![a] = m] /\ op \in [Caller -> Call]
  BY DEF Served, GateInv, TypeInv
<1>3. CallInv'
  <2> SUFFICES ASSUME NEW b \in Caller PROVE CallSound(op[b], b)'
    BY DEF CallInv
  <2>1. CallSound(op'[b], b)
    BY <1>2 DEF Served, GateInv, CallInv
  <2> QED BY <2>1 DEF CallSound, KindOf, ConnOf
<1>4. RequestInv'
  <2> SUFFICES ASSUME NEW r \in Request
               PROVE  /\ stage[r] \in Unsent => op'[r].pc = "none" /\ decided[r].verdict = "none"
                      /\ stage[r] \in {"forwarding", "done"} =>
                           Justifies(program[1], KindOf(r), evidence[r])
    BY DEF RequestInv, KindOf, ConnOf
  <2>1. r \in Caller
    BY DEF Caller
  <2> QED BY <1>2, <2>1 DEF Served, GateInv, RequestInv
<1>5. TunnelInv'
  BY DEF TunnelInv, GateInv, KindOf, ConnOf
<1>6. DenialInv'
  <2>1. RevokedKnown' /\ \A d : Standing(d) => Standing(d)'
    BY StandingKept DEF GateInv
  <2>2. ASSUME NEW r \in Request
        PROVE  CallDenied(op'[r], since[r])
    <3>1. r \in Caller
      BY DEF Caller
    <3> QED BY <1>2, <3>1 DEF Served, GateInv, DenialInv
  <2>3. ASSUME NEW r \in Request
        PROVE  Standing(since[r])'
    BY <2>1 DEF GateInv, DenialInv, Standing
  <2>4. DeniedStaysDenied'
    BY DEF DeniedStaysDenied, GateInv, DenialInv
  <2> QED BY <2>1, <2>2, <2>3, <2>4 DEF DenialInv
<1> QED BY <1>1, <1>3, <1>4, <1>5, <1>6 DEF GateInv

\* A step of the engine around the gate.
LEMMA AroundKeeps ==
  ASSUME GateInv, UNCHANGED <<sc, program, op, link, stage, evidence, decided>>,
         gen' \in 1 .. sc.generations, blocked' \in BOOLEAN, flow' \in Session \cup {None},
         sess' \in [Session -> SessionRecord],
         since' \in [Request -> SUBSET {"blocked", "revoked"}],
         \A r \in Request : since'[r] \subseteq since[r] /\ Standing(since[r])',
         RevokedKnown'
  PROVE  GateInv'
<1>1. TypeInv'
  BY DEF GateInv, TypeInv
<1>2. CallInv'
  BY DEF GateInv, CallInv, CallSound, KindOf, ConnOf
<1>3. RequestInv' /\ TunnelInv'
  BY DEF GateInv, RequestInv, TunnelInv, KindOf, ConnOf
<1>4. DenialInv'
  <2>1. ASSUME NEW r \in Request
        PROVE  CallDenied(op[r], since'[r])
    <3>1. CallDenied(op[r], since[r]) /\ since'[r] \subseteq since[r]
      BY DEF GateInv, DenialInv
    <3> QED BY <3>1 DEF CallDenied
  <2>2. DeniedStaysDenied'
    BY DEF DeniedStaysDenied, GateInv, DenialInv
  <2> QED BY <2>1, <2>2 DEF DenialInv
<1> QED BY <1>1, <1>2, <1>3, <1>4 DEF GateInv

LEMMA ServeStep ==
  ASSUME GateInv, NEW a \in Caller, Serve(a)
  PROVE  GateInv'
<1>1. PICK m : Served(a, m)
  BY ReceiveStep, EnterOpenStep, ReadProgramStep, ResolveSessionStep, EvaluateSessionStep,
     GetSessionStep, CheckSourceStep, PinConnectionStep DEF Serve
<1>2. UNCHANGED <<sc, gen, program, blocked, flow, link, stage, evidence, decided, since>>
  BY DEF Serve, Receive, EnterOpen, ReadProgram, ResolveSession, EvaluateSession, GetSession,
         CheckSource, PinConnection, engine, store, proxy
<1>3. sess \in [Session -> SessionRecord] /\ program \in [1 .. sc.generations -> Policy]
      /\ gen \in 1 .. sc.generations
  BY DEF GateInv, TypeInv
<1>4. SameStanding
  <2>1. CASE EvaluateSession(a)
    <3>1. Decision(gen) \in {"none", "ALLOW", "DROP"}
      BY <1>3 DEF Decision, Policy
    <3>2. sess' = sess \/ sess' = [sess EXCEPT ![op[a].sid].effective = Decision(gen)]
      BY <2>1 DEF EvaluateSession
    <3> QED BY <1>3, <3>1, <3>2 DEF SameStanding, SessionRecord
  <2>2. CASE ~EvaluateSession(a)
    <3>1. sess' = sess
      BY <2>2 DEF Serve, Receive, EnterOpen, ReadProgram, ResolveSession, GetSession,
                  CheckSource, PinConnection, store
    <3> QED BY <1>3, <3>1 DEF SameStanding
  <2> QED BY <2>1, <2>2
<1> QED BY <1>1, <1>2, <1>4, ServedKeeps

\* A step of the proxy, or of the engine's answer to it, for one request.
LEMMA RequestKeeps ==
  ASSUME GateInv, NEW r \in Request, NEW m \in Call, NEW s \in Stage,
         NEW d \in DecisionRecord, NEW e \in SUBSET {"blocked", "revoked"},
         UNCHANGED <<sc, gen, program, blocked, flow, sess, evidence>>,
         op' = [op EXCEPT ![r] = m], stage' = [stage EXCEPT ![r] = s],
         decided' = [decided EXCEPT ![r] = d], since' = [since EXCEPT ![r] = e],
         link' \in [Conn -> Link],
         \A c \in Conn : link'[c].stage \in {link[c].stage, "closed"},
         CallSound(m, r), CallDenied(m, e), Standing(e), e # {} => d.verdict # "ALLOW",
         s \in Unsent => m.pc = "none" /\ d.verdict = "none",
         s \in {"forwarding", "done"} => Justifies(program[1], KindOf(r), evidence[r])
  PROVE  GateInv'
<1>1. TypeInv /\ r \in Caller
  BY DEF GateInv, Caller
<1>2. TypeInv'
  BY <1>1 DEF TypeInv
<1>3. CallInv'
  <2> SUFFICES ASSUME NEW b \in Caller PROVE CallSound(op[b], b)'
    BY DEF CallInv
  <2>1. CallSound(op'[b], b)
    BY <1>1 DEF TypeInv, GateInv, CallInv
  <2> QED BY <2>1 DEF CallSound, KindOf, ConnOf
<1>4. RequestInv'
  <2> SUFFICES ASSUME NEW q \in Request
               PROVE  /\ stage'[q] \in Unsent => op'[q].pc = "none" /\ decided'[q].verdict = "none"
                      /\ stage'[q] \in {"forwarding", "done"} =>
                           Justifies(program[1], KindOf(q), evidence[q])
    BY DEF RequestInv, KindOf, ConnOf
  <2>1. q \in Caller
    BY DEF Caller
  <2>2. CASE q = r
    BY <1>1, <2>2 DEF TypeInv
  <2>3. CASE q # r
    <3>1. stage'[q] = stage[q] /\ op'[q] = op[q] /\ decided'[q] = decided[q]
      BY <1>1, <2>1, <2>3 DEF TypeInv
    <3> QED BY <3>1 DEF GateInv, RequestInv
  <2> QED BY <2>2, <2>3
<1>5. TunnelInv'
  BY DEF TunnelInv, GateInv, KindOf, ConnOf
<1>6. ASSUME NEW q \in Request
      PROVE  /\ Standing(since'[q]) /\ CallDenied(op'[q], since'[q])
             /\ since'[q] # {} => decided'[q].verdict # "ALLOW"
  <2>1. q \in Caller
    BY DEF Caller
  <2>2. CASE q = r
    BY <1>1, <2>2 DEF TypeInv
  <2>3. CASE q # r
    <3>1. since'[q] = since[q] /\ op'[q] = op[q] /\ decided'[q] = decided[q]
      BY <1>1, <2>1, <2>3 DEF TypeInv
    <3> QED BY <3>1 DEF GateInv, DenialInv, DeniedStaysDenied
  <2> QED BY <2>2, <2>3
<1>7. DenialInv'
  <2>1. RevokedKnown'
    BY DEF GateInv, DenialInv, RevokedKnown
  <2>2. \A q \in Request : Standing(since[q])' /\ CallDenied(op[q], since[q])'
    BY <1>6 DEF Standing, CallDenied
  <2> QED BY <1>6, <2>1, <2>2 DEF DenialInv, DeniedStaysDenied
<1> QED BY <1>2, <1>3, <1>4, <1>5, <1>7 DEF GateInv

\* What the invariant says of one request, in the form the steps below use.
LEMMA RequestFacts ==
  ASSUME GateInv, NEW r \in Request
  PROVE  /\ op[r] \in Call /\ stage[r] \in Stage /\ decided[r] \in DecisionRecord
         /\ since[r] \in SUBSET {"blocked", "revoked"} /\ link \in [Conn -> Link]
         /\ op = [op EXCEPT ![r] = op[r]] /\ stage = [stage EXCEPT ![r] = stage[r]]
         /\ decided = [decided EXCEPT ![r] = decided[r]]
         /\ since = [since EXCEPT ![r] = since[r]]
         /\ CallSound(op[r], r) /\ CallDenied(op[r], since[r]) /\ Standing(since[r])
         /\ since[r] # {} => decided[r].verdict # "ALLOW"
         /\ stage[r] \in Unsent => op[r].pc = "none" /\ decided[r].verdict = "none"
         /\ stage[r] \in {"forwarding", "done"} =>
              Justifies(program[1], KindOf(r), evidence[r])
<1>1. r \in Caller
  BY DEF Caller
<1>2. /\ op[r] \in Call /\ stage[r] \in Stage /\ decided[r] \in DecisionRecord
      /\ since[r] \in SUBSET {"blocked", "revoked"} /\ link \in [Conn -> Link]
  BY <1>1 DEF GateInv, TypeInv
<1>3. /\ op = [op EXCEPT ![r] = op[r]] /\ stage = [stage EXCEPT ![r] = stage[r]]
      /\ decided = [decided EXCEPT ![r] = decided[r]]
      /\ since = [since EXCEPT ![r] = since[r]]
  BY <1>1 DEF GateInv, TypeInv
<1>4. CallSound(op[r], r) /\ CallDenied(op[r], since[r]) /\ Standing(since[r])
  BY <1>1 DEF GateInv, CallInv, DenialInv
<1>5. since[r] # {} => decided[r].verdict # "ALLOW"
  BY DEF GateInv, DenialInv, DeniedStaysDenied
<1>6. /\ stage[r] \in Unsent => op[r].pc = "none" /\ decided[r].verdict = "none"
      /\ stage[r] \in {"forwarding", "done"} =>
           Justifies(program[1], KindOf(r), evidence[r])
  BY DEF GateInv, RequestInv
<1> QED BY <1>2, <1>3, <1>4, <1>5, <1>6

\* The handler of a request closes at most its connection.
LEMMA ProceedKeeps ==
  ASSUME link \in [Conn -> Link], NEW r, NEW s, Proceed(r, s)
  PROVE  /\ stage' = [stage EXCEPT ![r] = s] /\ link' \in [Conn -> Link]
         /\ \A c \in Conn : link'[c].stage \in {link[c].stage, "closed"}
BY DEF Proceed, Link

-----------------------------------------------------------------------------
(***************************************************************************)
(* Requests.                                                               *)
(***************************************************************************)
LEMMA FinishRequestStep ==
  ASSUME GateInv, NEW r \in Request, FinishRequest(r)
  PROVE  GateInv'
<1>1. TypeInv /\ op[r].pc = "final" /\ op[r] \in Call /\ r \in Caller /\ r \notin Conn
  BY CallerAssumption, RequestFacts DEF GateInv, FinishRequest, Caller
<1>2. gen \in Nat \ {0}
  BY <1>1, ScenarioAssumption DEF TypeInv
<1> DEFINE v == IF op[r].action = "ALLOW" /\ gen = op[r].gen THEN "ALLOW" ELSE "BLOCK"
           g == IF op[r].gen = 0 THEN gen ELSE op[r].gen
           m == [op[r] EXCEPT !.pc = "reply", !.action = v, !.gen = g]
           d == [verdict |-> v, gen |-> g, sid |-> op[r].sid]
<1>3. op' = [op EXCEPT ![r] = m] /\ decided' = [decided EXCEPT ![r] = d]
  BY <1>1 DEF TypeInv, FinishRequest
<1>4. v \in {"ALLOW", "BLOCK"} /\ g \in Nat
      /\ (v = "ALLOW" => op[r].action = "ALLOW" /\ g = op[r].gen)
  BY <1>1, <1>2 DEF Call
<1> HIDE DEF v, g
<1>5. m \in Call /\ m.pc = "reply" /\ m.action = v /\ m.gen = g
  BY <1>1, <1>4 DEF Call, Pc, Action
<1>6. d \in DecisionRecord /\ d.verdict = v
  BY <1>1, <1>4 DEF Call, DecisionRecord
<1> HIDE DEF m, d
<1>7. CallSound(m, r)
  BY <1>1, <1>4, <1>5, RequestFacts DEF CallSound
<1>8. since[r] # {} => v # "ALLOW"
  BY <1>1, <1>4, RequestFacts DEF CallDenied
<1>9. CallDenied(m, since[r])
  BY <1>5 DEF CallDenied
<1>10. stage[r] \notin Unsent
  BY <1>1, RequestFacts
<1>11. /\ UNCHANGED <<sc, gen, program, blocked, flow, sess, evidence>>
       /\ UNCHANGED <<link, stage, since>>
  BY DEF FinishRequest, engine, store, proxy
<1>12. /\ stage' = [stage EXCEPT ![r] = stage[r]] /\ since' = [since EXCEPT ![r] = since[r]]
       /\ link' \in [Conn -> Link]
       /\ \A c \in Conn : link'[c].stage \in {link[c].stage, "closed"}
  BY <1>11, RequestFacts
<1> HIDE DEF GateInv
<1> QED
  BY <1>3, <1>5, <1>6, <1>7, <1>8, <1>9, <1>10, <1>11, <1>12, RequestFacts, RequestKeeps

LEMMA RequestReplyStep ==
  ASSUME GateInv, NEW r \in Request, RequestReply(r)
  PROVE  GateInv'
<1>1. TypeInv /\ op[r].pc \in {"reply", "failed"} /\ op[r] \in Call /\ r \in Caller
  BY RequestFacts DEF GateInv, RequestReply, Caller
<1> DEFINE m == [op[r] EXCEPT !.pc = "replied"]
<1>2. op' = [op EXCEPT ![r] = m]
  BY <1>1 DEF TypeInv, RequestReply
<1>3. m \in Call /\ m.pc = "replied"
  BY <1>1 DEF Call, Pc
<1> HIDE DEF m
<1>4. PICK s \in {"forwarding", "refused"} :
        /\ Proceed(r, s)
        /\ s = "forwarding" => op[r].pc = "reply" /\ op[r].gen = 1 /\ op[r].action = "ALLOW"
  BY DEF RequestReply, Runtime
<1>5. s = "forwarding" => Justifies(program[1], KindOf(r), evidence[r])
  BY <1>4, RequestFacts DEF CallSound
<1>6. /\ stage' = [stage EXCEPT ![r] = s] /\ link' \in [Conn -> Link]
      /\ \A c \in Conn : link'[c].stage \in {link[c].stage, "closed"}
  BY <1>4, RequestFacts, ProceedKeeps
<1>7. UNCHANGED <<sc, gen, program, blocked, flow, sess, evidence>>
      /\ UNCHANGED <<decided, since>>
  BY DEF RequestReply, engine, store
<1>8. CallSound(m, r) /\ CallDenied(m, since[r])
  BY <1>3 DEF CallSound, CallDenied
<1>9. decided' = [decided EXCEPT ![r] = decided[r]] /\ since' = [since EXCEPT ![r] = since[r]]
  BY <1>7, RequestFacts
<1>10. s \in Stage /\ s \notin Unsent /\ s # "done"
  BY DEF Stage, Unsent
<1> QED
  BY <1>2, <1>3, <1>5, <1>6, <1>7, <1>8, <1>9, <1>10, RequestFacts, RequestKeeps

\* The steps of the handler that leave the engine alone.
LEMMA HandlerKeeps ==
  ASSUME GateInv, NEW r \in Request, NEW s \in Stage, Proceed(r, s),
         UNCHANGED <<sc, gen, program, blocked, flow, sess, evidence>>,
         UNCHANGED <<op, decided, since>>,
         s \in Unsent => stage[r] \in Unsent, s \notin {"forwarding", "done"}
  PROVE  GateInv'
<1>1. /\ stage' = [stage EXCEPT ![r] = s] /\ link' \in [Conn -> Link]
      /\ \A c \in Conn : link'[c].stage \in {link[c].stage, "closed"}
  BY RequestFacts, ProceedKeeps
<1>2. /\ op' = [op EXCEPT ![r] = op[r]] /\ decided' = [decided EXCEPT ![r] = decided[r]]
      /\ since' = [since EXCEPT ![r] = since[r]]
  BY RequestFacts
<1> QED BY <1>1, <1>2, RequestFacts, RequestKeeps

LEMMA HandleStep ==
  ASSUME GateInv, NEW r \in Request, Handle(r)
  PROVE  GateInv'
<1>1. CASE AdmitRequest(r) \/ ReadBody(r)
  <2>1. PICK s \in {"reading", "inspecting", "refused"} : Proceed(r, s)
    BY <1>1 DEF AdmitRequest, ReadBody
  <2>2. s \in Stage /\ stage[r] \in Unsent /\ s \notin {"forwarding", "done"}
    BY <1>1 DEF Stage, Unsent, AdmitRequest, ReadBody
  <2>3. /\ UNCHANGED <<sc, gen, program, blocked, flow, sess, evidence>>
        /\ UNCHANGED <<op, decided, since>>
    BY <1>1 DEF AdmitRequest, ReadBody, engine, store
  <2> QED BY <2>1, <2>2, <2>3, HandlerKeeps
<1>2. CASE AskEngine(r)
  <2>1. TypeInv /\ op[r] \in Call /\ r \in Caller /\ r \notin Conn /\ stage[r] \in Unsent
    BY <1>2, CallerAssumption, RequestFacts DEF GateInv, AskEngine, Caller, Unsent
  <2>2. op[r].pc = "none" /\ op[r].action = "BLOCK" /\ decided[r].verdict = "none"
    BY <2>1, RequestFacts DEF CallSound
  <2> DEFINE m == [op[r] EXCEPT !.pc = "sent"]
  <2>3. op' = [op EXCEPT ![r] = m]
    BY <1>2, <2>1 DEF TypeInv, AskEngine, Goto
  <2>4. m \in Call /\ m.pc = "sent" /\ m.action = "BLOCK"
    BY <2>1, <2>2 DEF Call, Pc
  <2> HIDE DEF m
  <2>5. Denials \in SUBSET {"blocked", "revoked"} /\ Standing(Denials)
    <3>1. "revoked" \in Denials => flow \in Session /\ sess[flow] \in SessionRecord
                                   /\ sess[flow].revoked /\ sess[flow].state # "closed"
      BY <2>1 DEF Denials, TypeInv
    <3>2. "revoked" \in Denials => sess[flow].state \in {"raw", "active"}
      BY <3>1 DEF GateInv, DenialInv, RevokedKnown, SessionRecord
    <3> QED BY <3>1, <3>2 DEF Denials, Standing
  <2>6. CallSound(m, r) /\ CallDenied(m, Denials)
    BY <2>1, <2>4 DEF CallSound, CallDenied
  <2>7. /\ UNCHANGED <<sc, gen, program, blocked, flow, sess, evidence>>
        /\ UNCHANGED <<link, decided>>
        /\ stage' = [stage EXCEPT ![r] = "asking"] /\ since' = [since EXCEPT ![r] = Denials]
    BY <1>2 DEF AskEngine, engine, store
  <2>8. /\ decided' = [decided EXCEPT ![r] = decided[r]] /\ link' \in [Conn -> Link]
        /\ \A c \in Conn : link'[c].stage \in {link[c].stage, "closed"}
    BY <2>7, RequestFacts
  <2>9. "asking" \in Stage /\ "asking" \notin Unsent /\ decided[r] \in DecisionRecord
    BY RequestFacts DEF Stage, Unsent
  <2> QED BY <2>2, <2>3, <2>4, <2>5, <2>6, <2>7, <2>8, <2>9, RequestKeeps
<1>3. CASE Forward(r)
  <2>1. /\ UNCHANGED <<sc, gen, program, blocked, flow, sess, evidence>>
        /\ UNCHANGED <<op, link, decided, since>>
        /\ stage[r] = "forwarding" /\ stage' = [stage EXCEPT ![r] = "done"]
    BY <1>3 DEF Forward, engine, store
  <2>2. /\ op' = [op EXCEPT ![r] = op[r]] /\ decided' = [decided EXCEPT ![r] = decided[r]]
        /\ since' = [since EXCEPT ![r] = since[r]] /\ link' \in [Conn -> Link]
        /\ \A c \in Conn : link'[c].stage \in {link[c].stage, "closed"}
    BY <2>1, RequestFacts
  <2>3. "done" \in Stage /\ "done" \notin Unsent
    BY DEF Stage, Unsent
  <2> QED BY <2>1, <2>2, <2>3, RequestFacts, RequestKeeps
<1> QED BY <1>1, <1>2, <1>3 DEF Handle

-----------------------------------------------------------------------------
(***************************************************************************)
(* Connections, and calls the proxy gives up on.                           *)
(***************************************************************************)
LEMMA ConnectionKeeps ==
  ASSUME GateInv, NEW c \in Conn, NEW m \in Call,
         UNCHANGED <<sc, gen, program, blocked, flow, sess, stage, evidence, decided, since>>,
         op' = [op EXCEPT ![c] = m], CallSound(m, c), link' \in [Conn -> Link],
         \A b \in Conn : link'[b].stage = "tunnel" => Exempts(program[1], KindOf(b))
  PROVE  GateInv'
<1>1. TypeInv /\ c \in Caller /\ c \notin Request
  BY CallerAssumption DEF GateInv, Caller
<1>2. TypeInv'
  BY <1>1 DEF TypeInv
<1>3. CallInv'
  <2> SUFFICES ASSUME NEW b \in Caller PROVE CallSound(op[b], b)'
    BY DEF CallInv
  <2>1. CallSound(op'[b], b)
    BY <1>1 DEF TypeInv, GateInv, CallInv
  <2> QED BY <2>1 DEF CallSound, KindOf, ConnOf
<1>4. \A r \in Request : op'[r] = op[r]
  BY <1>1 DEF TypeInv, Caller
<1>5. RequestInv' /\ TunnelInv'
  BY <1>4 DEF GateInv, RequestInv, TunnelInv, KindOf, ConnOf
<1>6. DenialInv'
  <2>1. RevokedKnown' /\ DeniedStaysDenied'
    BY DEF GateInv, DenialInv, RevokedKnown, DeniedStaysDenied
  <2>2. \A r \in Request : Standing(since[r])' /\ CallDenied(op[r], since[r])'
    BY <1>4 DEF GateInv, DenialInv, Standing
  <2> QED BY <2>1, <2>2 DEF DenialInv
<1> QED BY <1>2, <1>3, <1>5, <1>6 DEF GateInv

LEMMA OpenConnectionStep ==
  ASSUME GateInv, NEW c \in Conn, OpenConnection(c)
  PROVE  GateInv'
<1>1. TypeInv /\ TunnelInv /\ c \in Caller /\ c \notin Request /\ op[c] \in Call
  BY CallerAssumption DEF GateInv, Caller, TypeInv
<1> DEFINE m == [op[c] EXCEPT !.pc = "sent"]
<1>2. op' = [op EXCEPT ![c] = m]
  BY <1>1 DEF TypeInv, OpenConnection, Goto
<1>3. m \in Call /\ m.pc = "sent"
  BY <1>1 DEF Call, Pc
<1> HIDE DEF m
<1>4. CallSound(m, c)
  BY <1>1, <1>3 DEF CallSound
<1>5. link' \in [Conn -> Link]
  BY <1>1 DEF TypeInv, OpenConnection, Link
<1>6. \A b \in Conn : link'[b].stage = "tunnel" => Exempts(program[1], KindOf(b))
  BY <1>1 DEF TypeInv, OpenConnection, Link, TunnelInv
<1>7. UNCHANGED <<sc, gen, program, blocked, flow, sess, stage, evidence, decided, since>>
  BY DEF OpenConnection, engine, store
<1> QED BY <1>2, <1>3, <1>4, <1>5, <1>6, <1>7, ConnectionKeeps

LEMMA ConnectionReplyStep ==
  ASSUME GateInv, NEW c \in Conn, ConnectionReply(c)
  PROVE  GateInv'
<1>1. /\ TypeInv /\ TunnelInv /\ c \in Caller /\ c \notin Request /\ op[c] \in Call
      /\ CallSound(op[c], c)
  BY CallerAssumption DEF GateInv, CallInv, Caller, TypeInv
<1> DEFINE m == [op[c] EXCEPT !.pc = "replied"]
<1>2. op' = [op EXCEPT ![c] = m]
  BY <1>1 DEF TypeInv, ConnectionReply
<1>3. m \in Call /\ m.pc = "replied"
  BY <1>1 DEF Call, Pc
<1> HIDE DEF m
<1>4. CallSound(m, c)
  BY <1>1, <1>3 DEF CallSound
<1>5. PICK s \in {"closed", "tunnel", "serving"} :
        /\ link' = [link EXCEPT ![c] = [stage |-> s, sid |-> op[c].sid]]
        /\ s = "tunnel" => /\ op[c].pc = "reply" /\ op[c].gen = 1
                           /\ op[c].action \in {"BYPASS", "METADATA"}
  BY DEF ConnectionReply, Runtime
<1>6. link' \in [Conn -> Link]
  BY <1>1, <1>5 DEF TypeInv, Link, Call
<1>7. s = "tunnel" => Exempts(program[1], KindOf(c))
  <2> SUFFICES ASSUME s = "tunnel" PROVE Exempts(program[1], KindOf(c))
    OBVIOUS
  <2>1. 1 \in 1 .. sc.generations /\ DecideGate(program[1], KindOf(c)) \in {"BYPASS", "METADATA"}
    BY <1>1, <1>5 DEF CallSound
  <2>2. program[1] \in Policy /\ KindOf(c) \in Kind
    BY <1>1, <2>1, KindOfType DEF TypeInv
  <2> QED BY <2>1, <2>2, BypassExempts
<1>8. \A b \in Conn : link'[b].stage = "tunnel" => Exempts(program[1], KindOf(b))
  BY <1>1, <1>5, <1>7 DEF TypeInv, TunnelInv
<1>9. UNCHANGED <<sc, gen, program, blocked, flow, sess, stage, evidence, decided, since>>
  BY DEF ConnectionReply, engine, store
<1> QED BY <1>2, <1>3, <1>4, <1>6, <1>8, <1>9, ConnectionKeeps

LEMMA CallLostStep ==
  ASSUME GateInv, NEW a \in Caller, CallLost(a)
  PROVE  GateInv'
<1>1. TypeInv /\ TunnelInv /\ op[a] \in Call /\ CallSound(op[a], a)
  BY DEF GateInv, CallInv, TypeInv
<1>2. PICK m \in Call : /\ op' = [op EXCEPT ![a] = m]
                        /\ m = op[a] \/ m.pc = "replied"
  <2>1. CASE op[a].pc = "sent"
    <3> DEFINE m == [op[a] EXCEPT !.pc = "replied"]
    <3>1. m \in Call /\ m.pc = "replied"
      BY <1>1 DEF Call, Pc
    <3>2. op' = [op EXCEPT ![a] = m]
      BY <1>1, <2>1 DEF TypeInv, CallLost
    <3> QED BY <3>1, <3>2
  <2>2. CASE op[a].pc # "sent"
    <3>1. op' = [op EXCEPT ![a] = op[a]]
      BY <1>1, <2>2 DEF TypeInv, CallLost
    <3> QED BY <1>1, <3>1
  <2> QED BY <2>1, <2>2
<1>3. CallSound(m, a)
  BY <1>1, <1>2 DEF CallSound
<1>4. /\ UNCHANGED <<sc, gen, program, blocked, flow, sess, evidence>>
      /\ UNCHANGED <<decided, since>>
  BY DEF CallLost, engine, store
<1>5. CASE a \in Conn
  <2>1. link' = [link EXCEPT ![a].stage = "closed"] /\ stage' = stage
    BY <1>5 DEF CallLost
  <2>2. link' \in [Conn -> Link]
    BY <1>1, <2>1 DEF TypeInv, Link
  <2>3. \A b \in Conn : link'[b].stage = "tunnel" => Exempts(program[1], KindOf(b))
    BY <1>1, <2>1 DEF TypeInv, Link, TunnelInv
  <2> QED BY <1>2, <1>3, <1>4, <1>5, <2>1, <2>2, <2>3, ConnectionKeeps
<1>6. CASE a \notin Conn
  <2>1. a \in Request /\ stage[a] = "asking" /\ Proceed(a, "refused")
    BY <1>6 DEF CallLost, Waiting, Caller
  <2>2. /\ stage' = [stage EXCEPT ![a] = "refused"] /\ link' \in [Conn -> Link]
        /\ \A c \in Conn : link'[c].stage \in {link[c].stage, "closed"}
    BY <2>1, RequestFacts, ProceedKeeps
  <2>3. CallDenied(m, since[a])
    BY <1>2, <2>1, RequestFacts DEF CallDenied
  <2>4. decided' = [decided EXCEPT ![a] = decided[a]] /\ since' = [since EXCEPT ![a] = since[a]]
    BY <1>4, <2>1, RequestFacts
  <2>5. "refused" \in Stage /\ "refused" \notin Unsent
    BY DEF Stage, Unsent
  <2> QED
    BY <1>2, <1>3, <1>4, <2>1, <2>2, <2>3, <2>4, <2>5, RequestFacts, RequestKeeps
<1> QED BY <1>5, <1>6

-----------------------------------------------------------------------------
(***************************************************************************)
(* The engine around the gate.                                             *)
(***************************************************************************)
LEMMA ActivationSteps ==
  ASSUME GateInv, BeginActivation \/ PublishGeneration \/ EndActivation \/ RefreshReadiness
                    \/ \E c \in Conn : RecordExpires(c)
  PROVE  GateInv'
<1>1. TypeInv /\ DenialInv
  BY DEF GateInv
<1>2. UNCHANGED <<sc, program, op, link, stage, evidence, decided>>
      /\ UNCHANGED <<blocked, flow, sess, since>>
  BY DEF BeginActivation, PublishGeneration, EndActivation, RefreshReadiness, RecordExpires,
         store, proxy, engine
<1>3. gen' = gen \/ (gen' = gen + 1 /\ gen < sc.generations)
  BY DEF BeginActivation, PublishGeneration, EndActivation, RefreshReadiness, RecordExpires,
         engine
<1>4. gen' \in 1 .. sc.generations
  BY <1>1, <1>3, ScenarioAssumption DEF TypeInv
<1>5. RevokedKnown' /\ \A r \in Request : since'[r] \subseteq since[r] /\ Standing(since[r])'
  BY <1>1, <1>2 DEF DenialInv, RevokedKnown, Standing
<1> QED BY <1>1, <1>2, <1>4, <1>5, AroundKeeps DEF TypeInv

LEMMA SessionSteps ==
  ASSUME GateInv, \/ SessionObserved
                  \/ \E s \in Session : SessionEnriched(s) \/ SessionClosed(s) \/ Revoke(s)
  PROVE  GateInv'
<1>1. TypeInv /\ DenialInv
  BY DEF GateInv
<1>2. UNCHANGED <<sc, program, op, link, stage, evidence, decided>>
      /\ UNCHANGED <<gen, blocked, flow, since>>
  BY DEF SessionObserved, SessionEnriched, SessionClosed, Revoke, proxy, engine
<1> DEFINE Moved == /\ sess' \in [Session -> SessionRecord] /\ RevokedKnown'
                    /\ \A s \in Session : sess[s].revoked => sess'[s].revoked
                    /\ flow \in Session /\ sess[flow].state \in {"raw", "active"} =>
                         sess'[flow].state \in {"raw", "active"}
<1>3. Moved
  <2>1. CASE SessionObserved
    BY <1>1, <1>2, <2>1 DEF SessionObserved, TypeInv, SessionRecord, DenialInv, RevokedKnown
  <2>2. ASSUME NEW s \in Session, SessionEnriched(s)
        PROVE  Moved
    <3>1. PICK w \in {"ALLOW", "DROP"} :
            sess' = [sess EXCEPT ![s].state = "active", ![s].effective = w]
      BY <1>1, <2>2 DEF SessionEnriched, Decision, TypeInv, Policy
    <3>2. /\ sess \in [Session -> SessionRecord] /\ RevokedKnown
          /\ sess[s].state = "raw"
      BY <1>1, <2>2 DEF SessionEnriched, TypeInv, DenialInv
    <3>3. sess' \in [Session -> SessionRecord]
      BY <3>1, <3>2 DEF SessionRecord
    <3>4. \A x \in Session : /\ sess'[x].state \in {sess[x].state, "active"}
                             /\ sess'[x].revoked = sess[x].revoked
      BY <3>1, <3>2 DEF SessionRecord
    <3>5. RevokedKnown'
      BY <3>2, <3>4 DEF RevokedKnown
    <3> QED BY <3>3, <3>4, <3>5
  <2>3. ASSUME NEW s \in Session, SessionClosed(s)
        PROVE  Moved
    BY <1>1, <2>3 DEF SessionClosed, TypeInv, SessionRecord, DenialInv, RevokedKnown
  <2>4. ASSUME NEW s \in Session, Revoke(s)
        PROVE  Moved
    <3>1. /\ sess \in [Session -> SessionRecord] /\ RevokedKnown
          /\ sess[s].state \in {"raw", "active"}
          /\ sess' = [sess EXCEPT ![s].revoked = TRUE, ![s].effective = "DROP"]
      BY <1>1, <2>4 DEF Revoke, TypeInv, DenialInv
    <3>2. sess' \in [Session -> SessionRecord]
      BY <3>1 DEF SessionRecord
    <3>3. \A x \in Session : /\ sess'[x].state = sess[x].state
                             /\ sess[x].revoked => sess'[x].revoked
      BY <3>1 DEF SessionRecord
    <3>4. RevokedKnown'
      BY <3>1, <3>3 DEF RevokedKnown
    <3> QED BY <3>2, <3>3, <3>4
  <2> QED BY <2>1, <2>2, <2>3, <2>4
<1>4. \A r \in Request : since'[r] \subseteq since[r] /\ Standing(since[r])'
  BY <1>1, <1>2, <1>3 DEF DenialInv, Standing, TypeInv
<1> QED BY <1>1, <1>2, <1>3, <1>4, AroundKeeps DEF TypeInv

LEMMA FlowSteps ==
  ASSUME GateInv, FlowEnds \/ \E s \in Session : FlowReplaced(s)
  PROVE  GateInv'
<1>1. TypeInv /\ DenialInv
  BY DEF GateInv
<1>2. UNCHANGED <<sc, program, op, link, stage, evidence, decided>>
      /\ UNCHANGED <<gen, blocked, sess>>
  BY DEF FlowEnds, FlowReplaced, proxy, engine
<1>3. RevokedKnown'
  BY <1>1, <1>2 DEF DenialInv, RevokedKnown
<1>4. /\ flow' \in Session \cup {None}
      /\ since' \in [Request -> SUBSET {"blocked", "revoked"}]
      /\ \A r \in Request : since'[r] \subseteq since[r] /\ "revoked" \notin since'[r]
  <2>1. CASE FlowEnds
    BY <1>1, <2>1 DEF FlowEnds, TypeInv
  <2>2. CASE \E s \in Session : FlowReplaced(s)
    BY <1>1, <2>2 DEF FlowReplaced, TypeInv, DenialInv, Standing
  <2> QED BY <2>1, <2>2
<1>5. \A r \in Request : Standing(since[r])'
  BY <1>1, <1>2, <1>4 DEF DenialInv, Standing
<1> QED BY <1>1, <1>2, <1>3, <1>4, <1>5, AroundKeeps DEF TypeInv

LEMMA BlockSteps ==
  ASSUME GateInv, BlockSource \/ UnblockSource
  PROVE  GateInv'
<1>1. TypeInv /\ DenialInv
  BY DEF GateInv
<1>2. UNCHANGED <<sc, program, op, link, stage, evidence, decided>> /\ UNCHANGED <<gen, flow>>
  BY DEF BlockSource, UnblockSource, proxy, engine
<1>3. PICK b \in BOOLEAN : sess' = Reevaluated(b) /\ blocked' = b
  BY DEF BlockSource, UnblockSource
<1>4. SameStanding
  <2>1. program[gen].action \in {"ALLOW", "DROP"}
    BY <1>1 DEF TypeInv, Policy
  <2> QED BY <1>1, <1>3, <2>1 DEF SameStanding, Reevaluated, TypeInv, SessionRecord
<1>5. /\ since' \in [Request -> SUBSET {"blocked", "revoked"}]
      /\ \A r \in Request : /\ since'[r] \subseteq since[r]
                            /\ "blocked" \in since'[r] => blocked'
  <2>1. CASE BlockSource
    BY <1>1, <2>1 DEF BlockSource, TypeInv
  <2>2. CASE UnblockSource
    BY <1>1, <2>2 DEF UnblockSource, TypeInv
  <2> QED BY <2>1, <2>2
<1>6. RevokedKnown'
  BY <1>1, <1>4 DEF DenialInv, RevokedKnown, SameStanding
<1>7. \A r \in Request : Standing(since[r])'
  BY <1>1, <1>2, <1>4, <1>5 DEF DenialInv, Standing, SameStanding, TypeInv
<1> QED BY <1>1, <1>2, <1>3, <1>4, <1>5, <1>6, <1>7, AroundKeeps DEF TypeInv, SameStanding

LEMMA EngineRestartsStep ==
  ASSUME GateInv, EngineRestarts
  PROVE  GateInv'
<1>1. TypeInv /\ UNCHANGED <<sc, gen, program, flow, link, stage, evidence>>
  BY DEF GateInv, EngineRestarts, proxy
<1>2. \A r \in Request : decided'[r] = Undecided /\ since'[r] = {}
  BY DEF EngineRestarts
<1>3. \A a \in Caller : /\ op'[a] \in Call
                        /\ op'[a] = op[a] \/ (op'[a].pc = "failed" /\ op[a].pc # "none")
  BY <1>1 DEF EngineRestarts, TypeInv, Call, Pc
<1>4. TypeInv'
  <2>1. op' \in [Caller -> Call]
    BY <1>3 DEF EngineRestarts
  <2>2. NoSession \in SessionRecord /\ Undecided \in DecisionRecord
    BY DEF NoSession, SessionRecord, Undecided, DecisionRecord
  <2>3. /\ decided' \in [Request -> DecisionRecord] /\ blocked' \in BOOLEAN
        /\ since' \in [Request -> SUBSET {"blocked", "revoked"}]
        /\ sess' \in [Session -> SessionRecord]
    BY <2>2 DEF EngineRestarts
  <2> QED BY <1>1, <2>1, <2>3 DEF TypeInv
<1>5. CallInv'
  <2> SUFFICES ASSUME NEW a \in Caller PROVE CallSound(op[a], a)'
    BY DEF CallInv
  <2>1. CallSound(op'[a], a)
    BY <1>3 DEF GateInv, CallInv, CallSound
  <2> QED BY <1>1, <2>1 DEF CallSound, KindOf, ConnOf
<1>6. RequestInv' /\ TunnelInv'
  BY <1>1, <1>2, <1>3 DEF GateInv, RequestInv, TunnelInv, KindOf, ConnOf, Undecided, Caller
<1>7. DenialInv'
  <2>1. RevokedKnown'
    BY DEF EngineRestarts, RevokedKnown, NoSession
  <2>2. DeniedStaysDenied'
    BY <1>2 DEF DeniedStaysDenied
  <2>3. \A r \in Request : Standing(since[r])' /\ CallDenied(op[r], since[r])'
    BY <1>2 DEF Standing, CallDenied
  <2> QED BY <2>1, <2>2, <2>3 DEF DenialInv
<1> QED BY <1>4, <1>5, <1>6, <1>7 DEF GateInv

-----------------------------------------------------------------------------
(***************************************************************************)
(* The theorems.                                                           *)
(***************************************************************************)
LEMMA GateStarts == Init => GateInv
<1> SUFFICES ASSUME Init PROVE GateInv
  OBVIOUS
<1>1. Idle \in Call /\ NoSession \in SessionRecord /\ Undecided \in DecisionRecord
  BY DEF Idle, Call, Pc, Action, NoSession, SessionRecord, Undecided, DecisionRecord
<1>2. flow \in Session
  BY CallerAssumption DEF Init
<1>3. /\ sc.generations \in Nat \ {0} /\ sc.policies \subseteq Policy
      /\ sc.evidence \subseteq Evidence /\ sc \in Scenarios
  BY ScenarioAssumption DEF Init
<1>4. /\ program \in [1 .. sc.generations -> Policy] /\ evidence \in [Request -> Evidence]
      /\ gen \in 1 .. sc.generations
  BY <1>3 DEF Init
<1>5. link \in [Conn -> Link] /\ \A c \in Conn : link[c].stage # "tunnel"
  BY DEF Init, Link
<1>6. TypeInv
  <2>1. stage \in [Request -> Stage] /\ since \in [Request -> SUBSET {"blocked", "revoked"}]
    BY DEF Init, Stage
  <2>2. /\ sess \in [Session -> SessionRecord] /\ op \in [Caller -> Call]
        /\ decided \in [Request -> DecisionRecord] /\ blocked \in BOOLEAN
    BY <1>1 DEF Init
  <2> QED BY <1>2, <1>3, <1>4, <1>5, <2>1, <2>2 DEF TypeInv
<1>7. \A a \in Caller : op[a].pc = "none" /\ op[a].action = "BLOCK"
  BY DEF Init, Idle
<1>8. CallInv
  BY <1>7 DEF CallInv, CallSound
<1>9. RequestInv /\ TunnelInv
  BY <1>5, <1>7 DEF Init, RequestInv, TunnelInv, Caller, Undecided
<1>10. DenialInv
  <2>1. RevokedKnown
    BY DEF Init, RevokedKnown, NoSession
  <2>2. \A r \in Request : since[r] = {}
    BY DEF Init
  <2> QED BY <2>1, <2>2 DEF DenialInv, Standing, CallDenied, DeniedStaysDenied
<1> QED BY <1>6, <1>8, <1>9, <1>10 DEF GateInv

LEMMA GateStep == GateInv /\ [Next]_vars => GateInv'
<1> SUFFICES ASSUME GateInv, [Next]_vars PROVE GateInv'
  OBVIOUS
<1>1. CASE Environment
  BY <1>1, ActivationSteps, SessionSteps, FlowSteps, BlockSteps, EngineRestartsStep
  DEF Environment
<1>2. ASSUME NEW a \in Caller, Serve(a) \/ CallLost(a)
      PROVE  GateInv'
  BY <1>2, ServeStep, CallLostStep
<1>3. ASSUME NEW c \in Conn, OpenConnection(c) \/ ConnectionReply(c)
      PROVE  GateInv'
  BY <1>3, OpenConnectionStep, ConnectionReplyStep
<1>4. ASSUME NEW r \in Request, Decide(r) \/ Handle(r)
      PROVE  GateInv'
  <2>1. CASE PlanRequest(r)
    <3>1. PICK m : Served(r, m)
      BY <2>1, PlanRequestStep
    <3>2. UNCHANGED <<sc, gen, program, blocked, flow, link, stage, evidence, decided, since>>
          /\ sess' = sess
      BY <2>1 DEF PlanRequest, engine, store, proxy
    <3>3. SameStanding /\ r \in Caller
      BY <3>2 DEF SameStanding, GateInv, TypeInv, Caller
    <3> QED BY <3>1, <3>2, <3>3, ServedKeeps
  <2> QED BY <1>4, <2>1, FinishRequestStep, RequestReplyStep, HandleStep DEF Decide
<1>5. CASE UNCHANGED vars
  BY <1>5 DEF vars, engine, store, proxy, GateInv, TypeInv, CallInv, CallSound, RequestInv,
     TunnelInv, DenialInv, RevokedKnown, Standing, CallDenied, DeniedStaysDenied, KindOf, ConnOf
<1> QED BY <1>1, <1>2, <1>3, <1>4, <1>5 DEF Next

\* Whatever generations are published or put back while a call is served, a request is
\* forwarded, or a connection tunnelled, only if the policy of the runtime's own
\* generation justifies it (GateService.OpenConnection and EvaluateRequest with the
\* proxy's checks of their replies).
THEOREM RequestsJustified == Spec => []ForwardedIsJustified
<1>1. GateInv => ForwardedIsJustified
  BY DEF GateInv, RequestInv, TunnelInv, ForwardedIsJustified, Justifies, Exempts, KindOf,
         Runtime, ConnOf
<1> QED BY <1>1, GateStarts, GateStep, PTL DEF Spec

\* A block or a revocation that stands from before the request is sent until the engine
\* decides is not answered with ALLOW (gateSourceBlocked, resolveProxySession).
THEOREM DenialsOutrank == Spec => []DeniedStaysDenied
<1>1. GateInv => DeniedStaysDenied
  BY DEF GateInv, DenialInv
<1> QED BY <1>1, GateStarts, GateStep, PTL DEF Spec
=============================================================================
