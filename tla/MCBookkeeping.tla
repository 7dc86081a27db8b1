--------------------------- MODULE MCBookkeeping ---------------------------
(***************************************************************************)
(* What the parts of the appliance write down and count, in one run.  A     *)
(* behaviour is of one instance, the part chosen in the initial state; the  *)
(* variables of the others rest.                                            *)
(*   "activation"  Activation: failures and crashes, the journal            *)
(*   "cache"       KernelCache: epochs over activations, crashes, reboots   *)
(*   "editor"      ConfigEditor: two requests, policy edits or save faults  *)
(*   "eve"         EveReader: three files, two sensor processes, one crash  *)
(*   "evidence"    GateEvidence: three requests, room for two               *)
(*   "alerts"      AlertPipeline: three alerts, room for two, one session   *)
(*   "stream"      EventStream: a ring of two, two engine processes         *)
(*   "pool"        WorkerPool: two calls, one worker, a queue of one        *)
(***************************************************************************)
EXTENDS KernelCache

CONSTANTS c1, c2, c3, i1, i2, Empty, q1, q2, q3, s1, w1

VARIABLES
  part,
  runningFile, appliedFile, journalFile, net, nft, mgr, ctl, rt, insp, serving, sent,
  receipts, published, faults, crashes,
  editing, up, editor, draft, engine, request, acknowledged, requests, apiCrashes,
  files, path, epochFile, sensor, position, rd, offered, entered, readerCrashes,
  decisions, order, bytes, sequence, generation, reported, reader,
  queue, submits, seen, store, storeBytes, storeNext, pending, known, announced, counted,
  evicted, follower,
  stream, ringNext, items, browser,
  pool, jobs, call, worker, sessions

-----------------------------------------------------------------------------
(* One flow that c1 allows and c2 does not.  The paths of M1/M2 appliances    *)
(* are free of faults here: MCKernelCache has the others.                     *)

AllowedFlows == [c \in {c1, c2} |-> IF c = c1 THEN Flow ELSE {}]
CacheScenarios == {[path |-> "bundle", faults |-> TRUE, reboots |-> FALSE],
                   [path |-> "bundle", faults |-> FALSE, reboots |-> TRUE],
                   [path |-> "m2", faults |-> FALSE, reboots |-> TRUE]}

Configs == {c1, c2, c3}
Ids == {i1, i2}
Act == INSTANCE Activation WITH
  Config <- Configs, Id <- Ids, MaxVersion <- 3, MaxFaults <- 2, MaxCrashes <- 1,
  LateErrors <- TRUE, running <- runningFile, applied <- appliedFile,
  journal <- journalFile, job <- serving

Clients == {q1, q2}
EditScenarios == {[policyEdits |-> TRUE, saveFaults |-> FALSE],
                  [policyEdits |-> FALSE, saveFaults |-> TRUE]}

Editor == INSTANCE ConfigEditor WITH
  Request <- Clients, Policies <- {0, 1, 2}, Rest <- {0, 2}, Shadowed <- {2},
  Malformed <- {2}, MaxVersion <- 2, MaxRequests <- 4, MaxCrashes <- 1,
  Scenarios <- EditScenarios, scenario <- editing, disk <- draft, crashes <- apiCrashes

Eve == INSTANCE EveReader WITH
  MaxFiles <- 3, MaxLines <- 1, MaxEpochs <- 2, MaxCrashes <- 1,
  disk <- position, crashes <- readerCrashes

GateRequests == {q1, q2, q3}
Evidence == INSTANCE GateEvidence WITH
  Req <- GateRequests, MaxDecisions <- 2, MaxBytes <- 3, PageLimit <- 1,
  Sizes <- {1, 3, 4}, MaxSequence <- 3, records <- decisions,
  published <- reported

Sessions == {s1}
Alerts == INSTANCE AlertPipeline WITH
  Alert <- GateRequests, Session <- Sessions, Capacity <- 2, MaxBytes <- 3,
  MaxPending <- 1, MaxSeen <- 1, QueueItems <- 1, PageLimit <- 1, MaxSubmits <- 2,
  MaxNext <- 3, bytes <- storeBytes, next <- storeNext, published <- announced,
  reader <- follower

Stream == INSTANCE EventStream WITH
  Capacity <- 2, PageLimit <- 1, MaxNext <- 4, MaxStream <- 2,
  next <- ringNext, client <- browser

Workers == {w1}
Sizes == [c \in Clients |-> IF c = q1 THEN 2 ELSE 1]
Pool == INSTANCE WorkerPool WITH
  Client <- Clients, Worker <- Workers, QueueItems <- 1, QueueBytes <- 2, Size <- Sizes,
  MaxFlowID <- 3, session <- sessions

-----------------------------------------------------------------------------
activationVars == <<runningFile, appliedFile, journalFile, net, nft, mgr, ctl, rt, insp,
                    serving, sent, receipts, published, faults, crashes>>
editorVars == <<editing, up, editor, draft, engine, request, acknowledged, requests,
                apiCrashes>>
eveVars == <<files, path, epochFile, sensor, position, rd, offered, entered,
             readerCrashes>>
evidenceVars == <<decisions, order, bytes, sequence, generation, reported, reader>>
alertVars == <<queue, submits, seen, store, storeBytes, storeNext, pending, known,
               announced, counted, evicted, follower>>
streamVars == <<stream, ringNext, items, browser>>
poolVars == <<pool, jobs, call, worker, sessions>>
all == <<part, activationVars, vars, editorVars, eveVars, evidenceVars, alertVars,
         streamVars, poolVars>>

CacheRests ==
  /\ scenario = None /\ boot = None /\ file = None /\ highest = None /\ rules = None
  /\ flows = None /\ running = None /\ applied = None /\ journal = None
  /\ recovery = None /\ job = None /\ attempts = None
ActivationRests ==
  /\ runningFile = None /\ appliedFile = None /\ journalFile = None /\ net = None
  /\ nft = None /\ mgr = None /\ ctl = None /\ rt = None /\ insp = None /\ serving = None
  /\ sent = None /\ receipts = None /\ published = None /\ faults = None /\ crashes = None
EditorRests ==
  /\ editing = None /\ up = None /\ editor = None /\ draft = None /\ engine = None
  /\ request = None /\ acknowledged = None /\ requests = None /\ apiCrashes = None
EveRests ==
  /\ files = None /\ path = None /\ epochFile = None /\ sensor = None
  /\ position = None /\ rd = None /\ offered = None /\ entered = None
  /\ readerCrashes = None
EvidenceRests ==
  /\ decisions = None /\ order = None /\ bytes = None /\ sequence = None
  /\ generation = None /\ reported = None /\ reader = None
AlertsRest ==
  /\ queue = None /\ submits = None /\ seen = None /\ store = None /\ storeBytes = None
  /\ storeNext = None /\ pending = None /\ known = None /\ announced = None
  /\ counted = None /\ evicted = None /\ follower = None
StreamRests == stream = None /\ ringNext = None /\ items = None /\ browser = None
PoolRests == pool = None /\ jobs = None /\ call = None /\ worker = None /\ sessions = None

AllInit ==
  /\ part \in {"activation", "cache", "editor", "eve", "evidence", "alerts", "stream",
               "pool"}
  /\ IF part = "activation" THEN Act!Init ELSE ActivationRests
  /\ IF part = "cache" THEN Init ELSE CacheRests
  /\ IF part = "editor" THEN Editor!Init ELSE EditorRests
  /\ IF part = "eve" THEN Eve!Init ELSE EveRests
  /\ IF part = "evidence" THEN Evidence!Init ELSE EvidenceRests
  /\ IF part = "alerts" THEN Alerts!Init ELSE AlertsRest
  /\ IF part = "stream" THEN Stream!Init ELSE StreamRests
  /\ IF part = "pool" THEN Pool!Init ELSE PoolRests

AllNext ==
  \/ /\ part = "activation" /\ Act!Next
     /\ UNCHANGED <<part, vars, editorVars, eveVars, evidenceVars, alertVars,
                    streamVars, poolVars>>
  \/ /\ part = "cache" /\ Next
     /\ UNCHANGED <<part, activationVars, editorVars, eveVars, evidenceVars, alertVars,
                    streamVars, poolVars>>
  \/ /\ part = "editor" /\ Editor!Next
     /\ UNCHANGED <<part, activationVars, vars, eveVars, evidenceVars, alertVars,
                    streamVars, poolVars>>
  \/ /\ part = "eve" /\ Eve!Next
     /\ UNCHANGED <<part, activationVars, vars, editorVars, evidenceVars, alertVars,
                    streamVars, poolVars>>
  \/ /\ part = "evidence" /\ Evidence!Next
     /\ UNCHANGED <<part, activationVars, vars, editorVars, eveVars, alertVars,
                    streamVars, poolVars>>
  \/ /\ part = "alerts" /\ Alerts!Next
     /\ UNCHANGED <<part, activationVars, vars, editorVars, eveVars, evidenceVars,
                    streamVars, poolVars>>
  \/ /\ part = "stream" /\ Stream!Next
     /\ UNCHANGED <<part, activationVars, vars, editorVars, eveVars, evidenceVars, alertVars,
                    poolVars>>
  \/ /\ part = "pool" /\ Pool!Next
     /\ UNCHANGED <<part, activationVars, vars, editorVars, eveVars, evidenceVars, alertVars,
                    streamVars>>

AllSpec == AllInit /\ [][AllNext]_all

\* dataplane.Controller: with no activation journal on disk the kernel holds
\* exactly what dataplane-applied.json records.
NoJournalNoLeftovers == part = "activation" => Act!NoJournalNoLeftovers

\* config.Manager and management: a candidate that carries the VALID badge, and
\* every configuration the engine runs, is one the checks accept.
ValidBadgeHolds ==
  part = "editor" => Editor!ValidBadgeHolds /\ Editor!EngineRunsAccepted


\* sensor.Reader: every observation carries the epoch of the process that wrote it.
EpochAttributed == part = "eve" => Eve!EpochAttributed


\* engine.Runtime and InspectionRuntime: a decision has at most one result event,
\* and an alert counts towards a session once.
CountedOnce ==
  /\ part = "evidence" => Evidence!ResultPublishedOnce
  /\ part = "alerts" => Alerts!AlertCountedOnce

\* Cursors over the evidence, the security events and the event ring: a reader
\* that follows them received all it has passed, or was told of the gap.
ReadersMissNothing ==
  /\ part = "evidence" => Evidence!ReaderMissesNothing
  /\ part = "alerts" => Alerts!NoSilentGap
  /\ part = "stream" => Stream!ClientAccounted


=============================================================================
