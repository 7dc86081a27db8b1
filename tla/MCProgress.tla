---------------------------- MODULE MCProgress ----------------------------
(***************************************************************************)
(* What must happen in the end, in three instances.  A behaviour is of one  *)
(* of them, the part chosen in the initial state; the others rest in an     *)
(* initial state of theirs.                                                 *)
(*   "activation"  commits, rollbacks and retries with one failure anywhere *)
(*                 and two crashes anywhere;                                *)
(*   "healing"     two activations while a session's records come and go;   *)
(*   "tracking"    kernels that fall silent after losses and failures.      *)
(***************************************************************************)
EXTENDS MCSessionTracking

CONSTANTS
  c1, c2, c3, i1, i2, Empty,
  s1, src1, ct1, p1, p2, o1, Forward, Local, Unknown, Applier, Activator, Allow, Drop

VARIABLES
  part,
  running, applied, journal, net, nft, mgr, ctl, rt, insp, job, sent, receipts,
  published, faults, crashes,
  sess, fresh, program, generation, blocks, expired, revokedIds, guardMu,
  kBlocks, kRevoked, th

Configs == {c1, c2, c3}
Ids == {i1, i2}

Engine == INSTANCE Activation WITH
  Config <- Configs, Id <- Ids, MaxVersion <- 3, MaxFaults <- 1, MaxCrashes <- 2,
  LateErrors <- FALSE

Sessions == {s1}
Sources == {src1}
CtIds == {ct1}
SrcOfAll == s1 :> src1
CtOfAll == s1 :> ct1
Zones == {Forward, Local, Unknown}
Programs == {p1, p2}
OneOperator == {o1}
NoRequests == o1 :> {}

\* Before NAT is known, p2 places the session in a local zone.
Zoning ==
  [p \in Programs |-> [s \in Sessions |-> [nat \in BOOLEAN |->
     IF p = p2 /\ ~nat THEN Local ELSE Forward]]]

\* p1 allows, p2 drops.
Verdicts ==
  [p \in Programs |-> [s \in Sessions |-> [nat \in BOOLEAN |-> [z \in Zones |->
     IF p = p1 THEN Allow ELSE Drop]]]]

Decisions == INSTANCE SessionRuntime WITH
  Session <- Sessions, Source <- Sources, CtId <- CtIds, SrcOf <- SrcOfAll,
  CtOf <- CtOfAll, Program <- Programs, Zone <- Zones, InferZone <- Zoning,
  Verdict <- Verdicts, Operators <- OneOperator, Requests <- NoRequests,
  MaxGeneration <- 2, MaxRevoked <- 1, MaxBlocks <- 1,
  CanLearnNat <- TRUE, KernelFails <- FALSE

engineVars == <<running, applied, journal, net, nft, mgr, ctl, rt, insp, job, sent,
                receipts, published, faults, crashes>>
decisionVars == <<sess, fresh, program, generation, blocks, expired, revokedIds,
                  guardMu, kBlocks, kRevoked, th>>
all == <<part, vars, engineVars, decisionVars>>

Rest == CHOOSE sc \in Scenarios : TRUE

AllInit ==
  /\ part \in {"activation", "healing", "tracking"}
  /\ Init /\ (part # "tracking" => key = Rest.key /\ stamp = Rest.stamp
                                   /\ MaxAliases = Rest.aliases /\ env = Rest.env)
  /\ Engine!Init /\ (part # "activation" => running.cfg = c1)
  /\ Decisions!Init /\ (part # "healing" => program = p1)

AllNext ==
  \/ part = "tracking" /\ Next /\ UNCHANGED <<part, engineVars, decisionVars>>
  \/ part = "activation" /\ Engine!Next /\ UNCHANGED <<part, vars, decisionVars>>
  \/ part = "healing" /\ Decisions!Next /\ UNCHANGED <<part, vars, engineVars>>

\* The fairness of Activation!LiveSpec, SessionRuntime!Fairness and
\* SessionTracking!LiveSpec, each for its own part.
AllSpec ==
  /\ AllInit /\ [][AllNext]_all
  /\ WF_engineVars(part = "activation"
                   /\ (Engine!Boot \/ Engine!ApplyStep \/ Engine!CoordinatorStep))
  /\ WF_decisionVars(part = "healing" /\ Decisions!ApplierStep)
  /\ WF_decisionVars(part = "healing" /\ Decisions!ActivatorStep)
  /\ WF_decisionVars(part = "healing" /\ Decisions!OperatorStep(o1))
  /\ SF_decisionVars(part = "healing"
                     /\ ((\E live1 \in BOOLEAN : Decisions!Observe(s1, live1))
                         \/ Decisions!Close(Sessions)))
  /\ WF_vars(part = "tracking" /\ Start /\ started')
  /\ WF_vars(part = "tracking" /\ (Receive \/ ReceiveOverrun))
  /\ WF_vars(part = "tracking"
             /\ (PeriodicResync \/ Resync \/ (DumpIncomplete /\ dump.todo = {})))
  /\ WF_vars(part = "tracking" /\ Consume)
  /\ WF_vars(part = "tracking" /\ PruneClosed)

\* At every instant at which the engine could crash, running.json is one of the
\* two configurations a retained journal describes, so that NewController and
\* validateRecoveryTarget accept it at the next startup.
StartupAccepted == Engine!StartupAccepted


\* A commit retried under its operation identifier, after a lost answer, a
\* failure or a restart that forgot the receipts, is published at most once.
CommittedOnce == Engine!CommittedOnce

\* A stopped engine comes back and serves requests, however startup was
\* interrupted.
EngineComesBack == part = "activation" => Engine!EngineComesBack

\* A session left behind by an activation is stamped with the current
\* generation, closed or revoked in the end.
StaleGenerationHeals == Decisions!StaleGenerationHeals
=============================================================================
