---------------------------- MODULE MCServices ----------------------------
(***************************************************************************)
(* The engine's and the proxy's long-running services, in one run.  A       *)
(* behaviour is of one of them, the part chosen in the initial state; the   *)
(* others rest in an initial state of theirs.                               *)
(*   "guards"     NftGuards: two zones that share a guard id, two tuples    *)
(*   "pool"       WorkerPool: one call, one worker, a queue of one         *)
(*   "gate"       GateSupervisor: two generations, two disturbances         *)
(*   "sensor"     SensorHealth: one stall, reconfiguration or crash         *)
(*   "listener"   ConnectionServer: two connections, capacity one           *)
(***************************************************************************)
EXTENDS NftGuards

CONSTANTS a, w1, d1, d2

VARIABLES
  part,
  pool, jobs, call, worker, session,
  enabled, engine, beat, proxy, disk, events,
  sensor, age, health, reader, monitor, lease, manager, straggler, silence, sensorEvents,
  serve, cancelled, listening, loop, limit, tracked, shuttingDown, hook, active,
  open, flow, failures

MCFaultSets == {{"refused", "late"}, {"refused", "late", "unread", "leftover"}}

Calls == {a}
Workers == {w1}
Sizes == [x \in Calls |-> 2]
Downstream == {d1, d2}

Pool == INSTANCE WorkerPool WITH
  Client <- Calls, Worker <- Workers, QueueItems <- 1, QueueBytes <- 2, Size <- Sizes,
  MaxFlowID <- 3

Gate == INSTANCE GateSupervisor WITH MaxGen <- 2, MaxEvents <- 2

Sensor == INSTANCE SensorHealth WITH
  Timeout <- 1, TTL <- 1, RecoveryWait <- 1, NftDelay <- 1, MaxEvents <- 1,
  events <- sensorEvents

Proxy == INSTANCE ConnectionServer WITH
  Conn <- Downstream, MaxConnections <- 1, MaxFailures <- 1

poolVars == <<pool, jobs, call, worker, session>>
gateVars == <<enabled, engine, beat, proxy, disk, events>>
sensorVars == <<sensor, age, health, reader, monitor, lease, manager, straggler,
                silence, sensorEvents>>
listenerVars == <<serve, cancelled, listening, loop, limit, tracked, shuttingDown,
                  hook, active, open, flow, failures>>
all == <<part, vars, poolVars, gateVars, sensorVars, listenerVars>>

AllInit ==
  /\ part \in {"guards", "pool", "gate", "sensor", "listener"}
  /\ Init /\ (part # "guards" => faults = {"refused", "late"})
  /\ Pool!Init /\ (part # "pool" => pool.flowID = 0)
  /\ Gate!Init /\ (part # "gate" => enabled = [g \in 1 .. 2 |-> FALSE])
  /\ Sensor!Init /\ manager = Sensor!Idle
  /\ Proxy!Init

AllNext ==
  \/ /\ part = "guards" /\ Next
     /\ UNCHANGED <<part, poolVars, gateVars, sensorVars, listenerVars>>
  \/ /\ part = "pool" /\ Pool!Next
     /\ UNCHANGED <<part, vars, gateVars, sensorVars, listenerVars>>
  \/ /\ part = "gate" /\ Gate!Next
     /\ UNCHANGED <<part, vars, poolVars, sensorVars, listenerVars>>
  \/ /\ part = "sensor" /\ Sensor!Next
     /\ UNCHANGED <<part, vars, poolVars, gateVars, listenerVars>>
  \/ /\ part = "listener" /\ Proxy!Next
     /\ UNCHANGED <<part, vars, poolVars, gateVars, sensorVars>>

\* The Fairness of each module, for its own part.
AllSpec ==
  /\ AllInit /\ [][AllNext]_all
  /\ WF_poolVars(part = "pool" /\ Pool!Closing)
  /\ \A w \in Workers : WF_poolVars(part = "pool" /\ Pool!Work(w))
  /\ \A c \in Calls : /\ WF_poolVars(part = "pool" /\ Pool!AwaitResult(c))
                      /\ WF_poolVars(part = "pool" /\ Pool!DeadlinePasses(c))
  /\ WF_gateVars(part = "gate" /\ Gate!Reconcile)
  /\ WF_gateVars(part = "gate" /\ Gate!Activation)
  /\ WF_gateVars(part = "gate" /\ Gate!Verified)
  /\ WF_gateVars(part = "gate" /\ Gate!BeatAges)
  /\ WF_sensorVars(part = "sensor" /\ Sensor!Tick)
  /\ WF_sensorVars(part = "sensor" /\ (Sensor!Probe \/ Sensor!NoRecovery))
  /\ WF_sensorVars(part = "sensor" /\ Sensor!LeaseApply)
  /\ WF_sensorVars(part = "sensor" /\ Sensor!StragglerStep)
  /\ SF_sensorVars(part = "sensor" /\ Sensor!RecoverySucceeds)
  /\ WF_listenerVars(part = "listener" /\ Proxy!ServeStep)
  /\ WF_listenerVars(part = "listener" /\ Proxy!HookStep)
  /\ \A l \in Proxy!Listener : WF_listenerVars(part = "listener" /\ Proxy!LoopStep(l))
  /\ \A c \in Downstream : WF_listenerVars(part = "listener" /\ Proxy!FlowRuns(c))

\* proxy.Supervisor: a runtime in service is made of the artifacts the engine
\* verified and recorded for the generation.
ServesExpected == Gate!ServesExpected


\* sensor.Monitor: the kernel queues packets to the sensor only while its
\* periodic stats were received recently.
LeaseNeedsStats == Sensor!LeaseNeedsStats

\* sensor.Monitor: a sensor that hangs, or answers and writes nothing, is
\* restarted.
StalledIsRecovered == Sensor!StalledIsRecovered

\* proxy.ConnectionServer: capacity tokens are neither exceeded nor lost, and a
\* Serve that has returned leaves no open socket behind.
CapacityConserved == Proxy!CapacityConserved

\* requestworker.Pool and proxy.ConnectionServer: a Close returns, whatever calls
\* and jobs it meets, and so does a Serve that was cancelled, whatever connections
\* are accepted while its hook closes them (CloseReturns, CancelledReturns).
ShutdownReturns ==
  (pool.phase = "closing" \/ cancelled) ~> (pool.phase = "closed" \/ serve = "returned")
=============================================================================
