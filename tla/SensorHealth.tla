---- MODULE SensorHealth ----
\* Whether the inline sensor is live, what that opens in the kernel and what is
\* done when it is not: the monitor and its health reducer
\* (internal/inspection/sensor), the IPS lease (IPSLeaseManager in
\* internal/dataplane/inspection_guards.go), a kernel set whose element expires
\* unless renewed and without which no packet is queued to the sensor, and
\* configureInspection (cmd/ngfw-engine/main.go), which replaces the lease
\* manager on every activation. Time is the action Tick; instants are kept as
\* ages in ticks, capped one tick past the limit they are compared with.
EXTENDS Naturals

CONSTANTS
  Timeout,       \* statsTimeout and the heartbeat limits (6 s)
  TTL,           \* lifetime of a renewed lease (3 s)
  RecoveryWait,  \* MonitoredSource.RecoveryWait (30 s)
  NftDelay,      \* bound: ticks an nft command of the manager takes
  MaxEvents      \* bound: stalls, reconfigurations and crashes

VARIABLES
  sensor,        \* the process: "up", "mute" (answers, writes no stats), "hung"
  age,           \* age of the last stats, heartbeat and progress, of the monitor,
                 \* and of the last recovery
  health,        \* HealthReducer.snapshot, successes and backlog
  reader,        \* the EVE reader's own health: "HEALTHY", or not (yet)
  monitor,       \* failedProbes, and whether Recover is running
  lease,         \* ticks left to the kernel element
  manager,       \* the running IPSLeaseManager
  straggler,     \* one that configureInspection stopped waiting for
  silence,       \* ticks since any monitor received stats of the sensor
  events         \* of the bounded kinds, so far

vars == <<sensor, age, health, reader, monitor, lease, manager, straggler, silence, events>>

Stale == Timeout + 1
Never == Timeout + 2      \* no such instant yet
Older(a) == IF a > Timeout THEN a ELSE a + 1
Off == [pc |-> "off", live |-> FALSE, wait |-> 0]
Idle == [Off EXCEPT !.pc = "idle"]
LongestSilence == Timeout + NftDelay + TTL
NewAge == [stats |-> Never, beat |-> Never, progress |-> Never, start |-> 0,
           recovery |-> RecoveryWait]
NewHealth == [state |-> "STARTING", reachable |-> FALSE, successes |-> 0, backlog |-> FALSE]

Init ==
  /\ sensor = "up" /\ reader = "DEGRADED" /\ lease = 0
  /\ age = NewAge /\ health = NewHealth /\ silence = LongestSilence + 1 /\ events = 0
  /\ monitor = [failed |-> 0, pc |-> "idle"]
  /\ manager \in {Off, Idle} /\ straggler = Off

----
\* A mutated form: the age of the last stats does not count.
CaptureLiveUnaged ==
  /\ health.reachable /\ health.state = "HEALTHY"
  /\ ~(health.backlog /\ age.progress = Stale)
  /\ age.beat # Stale

\* captureLiveLocked.
CaptureLiveLocked ==
  /\ health.reachable /\ health.state = "HEALTHY"
  /\ age.stats <= Timeout
  /\ ~(health.backlog /\ age.progress = Stale)
  /\ age.beat # Stale

\* MonitoredSource.snapshotAt: the reader has a say too.
CaptureLive == CaptureLiveLocked /\ reader = "HEALTHY"

\* HealthReducer.snapshotAt's state.
ReportedState ==
  IF health.state # "HEALTHY" THEN health.state
  ELSE IF age.stats = Never THEN (IF age.start > Timeout THEN "DEGRADED" ELSE "STARTING")
  ELSE IF age.stats > Timeout THEN "DEGRADED" ELSE "HEALTHY"

AwaitingInitialStats == age.stats = Never /\ age.start <= Timeout

\* monitoredSink.TrySubmit: any record of the sensor; stats count by their local
\* time of receipt, although their own timestamp becomes the heartbeat. (The
\* monitor's age is of no use after the first stats.)
Submit(stats, accepted) ==
  /\ sensor = "up" \/ (sensor = "mute" /\ ~stats)
  /\ \E beat \in IF stats THEN {0, Stale} ELSE {age.beat} :
       age' = [age EXCEPT !.stats = IF stats THEN 0 ELSE @, !.beat = beat,
                          !.start = IF stats THEN Stale ELSE @,
                          !.progress = IF accepted THEN 0 ELSE @]
  /\ health' = [health EXCEPT !.backlog = ~accepted,
                  !.state = IF accepted /\ @ = "STARTING" THEN "HEALTHY" ELSE @]
  /\ reader' = IF accepted THEN "HEALTHY" ELSE "DEGRADED"
  /\ silence' = IF stats THEN 0 ELSE silence
  /\ UNCHANGED <<sensor, monitor, lease, manager, straggler, events>>

\* The reader meets a bad line, or finds no file.
ReaderDegrades ==
  /\ reader' = "DEGRADED"
  /\ UNCHANGED <<sensor, age, health, monitor, lease, manager, straggler, silence, events>>

\* A mutated form: answers of the control socket put off recovery for good.
RecoveryDueUnanswered(failed) ==
  ~AwaitingInitialStats /\ failed >= 2 /\ age.recovery >= RecoveryWait

\* The monitor's decision to recover the sensor: two probes failed, or it
\* answers without capture being live.
RecoveryDue(failed) ==
  /\ ~AwaitingInitialStats /\ age.recovery >= RecoveryWait
  /\ failed < 2 => health.reachable /\ ~CaptureLive /\ ReportedState # "STARTING"

\* probe: RecordProbe, then Recover if due. A reply may be late though the
\* process is up.
ProbeRecords(ok) ==
  /\ ok => sensor # "hung"
  /\ health' = IF ok
               THEN [health EXCEPT !.reachable = TRUE,
                       !.successes = IF @ = 2 THEN 2 ELSE @ + 1,
                       !.state = IF health.successes >= 1 THEN "HEALTHY" ELSE @]
               ELSE [health EXCEPT !.reachable = FALSE, !.successes = 0, !.state = "DEGRADED"]
  /\ age' = IF ok THEN [age EXCEPT !.beat = 0] ELSE age
  /\ monitor' = [pc |-> "recover", failed |-> IF ok THEN 0
                                              ELSE IF monitor.failed = 2 THEN 2
                                              ELSE monitor.failed + 1]

Probe ==
  /\ monitor.pc = "idle"
  /\ \E ok \in BOOLEAN : ProbeRecords(ok)
  /\ UNCHANGED <<sensor, reader, lease, manager, straggler, silence, events>>

NoRecovery ==
  /\ monitor.pc = "recover" /\ ~RecoveryDue(monitor.failed)
  /\ monitor' = [monitor EXCEPT !.pc = "idle"]
  /\ UNCHANGED <<sensor, age, health, reader, lease, manager, straggler, silence, events>>

\* Recover restarts the unit and reads it back,
RecoverySucceeds ==
  /\ monitor.pc = "recover" /\ RecoveryDue(monitor.failed)
  /\ sensor' = "up" /\ age' = [age EXCEPT !.recovery = 0]
  /\ monitor' = [pc |-> "idle", failed |-> 0]
  /\ UNCHANGED <<health, reader, lease, manager, straggler, silence, events>>

\* or fails, which counts as a failed probe of the reducer.
RecoveryFails ==
  /\ monitor.pc = "recover" /\ RecoveryDue(monitor.failed)
  /\ age' = [age EXCEPT !.recovery = 0]
  /\ health' = [health EXCEPT !.reachable = FALSE, !.successes = 0, !.state = "DEGRADED"]
  /\ monitor' = [pc |-> "idle", failed |-> 0]
  /\ UNCHANGED <<sensor, reader, lease, manager, straggler, silence, events>>

----
\* Run's ticker: liveness is read, then the nft command takes its time.
LeaseTick ==
  /\ manager.pc = "idle"
  /\ manager' = [pc |-> "apply", live |-> CaptureLive, wait |-> NftDelay]
  /\ UNCHANGED <<sensor, age, health, reader, monitor, lease, straggler, silence, events>>

\* tick: RenewIPSLease (flush and add in one transaction) or StopIPSLease.
Applied(m) == IF m.live THEN TTL ELSE 0

LeaseApply ==
  /\ manager.pc = "apply"
  /\ lease' \in {lease, Applied(manager)}
  /\ manager' = Idle
  /\ UNCHANGED <<sensor, age, health, reader, monitor, straggler, silence, events>>

\* A manager that nobody waits for finishes its command and flushes the set.
StragglerStep ==
  /\ straggler.pc # "off"
  /\ IF straggler.pc = "apply"
     THEN /\ lease' \in {lease, Applied(straggler)}
          /\ straggler' = [Off EXCEPT !.pc = "flush"]
     ELSE lease' \in {lease, 0} /\ straggler' = Off
  /\ UNCHANGED <<sensor, age, health, reader, monitor, manager, silence, events>>

\* NewMonitoredSource, in place of whatever was learned before.
FreshMonitor ==
  /\ health' = NewHealth /\ age' = NewAge
  /\ monitor' = [failed |-> 0, pc |-> "idle"] /\ reader' = "DEGRADED"

Event == events < MaxEvents /\ events' = events + 1

\* configureInspection: the old manager is cancelled and, if it ends in time,
\* its final flush and the explicit one precede the new manager. Changed limits
\* or modes also replace the monitor.
Reconfigure(ips, fresh) ==
  /\ Event /\ manager.pc # "apply"
  /\ lease' \in {lease, 0}
  /\ manager' = IF ips THEN Idle ELSE Off
  /\ IF fresh THEN FreshMonitor ELSE UNCHANGED <<age, health, monitor, reader>>
  /\ UNCHANGED <<sensor, straggler, silence>>

\* "timed out stopping previous IPS lease manager": the activation fails, and
\* configureInspection of the restored one no longer knows of the old manager.
ReconfigureTimesOut ==
  /\ Event /\ manager.pc = "apply" /\ straggler = Off
  /\ straggler' = manager /\ manager' \in {Off, Idle}
  /\ UNCHANGED <<sensor, age, health, reader, monitor, lease, silence>>

\* The engine dies and is started again; what the kernel holds stays until it
\* expires or ClearInspectionRuntimeState succeeds.
EngineRestart ==
  /\ Event
  /\ manager' \in {Off, Idle} /\ straggler' = Off /\ lease' \in {lease, 0}
  /\ FreshMonitor
  /\ UNCHANGED <<sensor, silence>>

SensorStalls ==
  /\ Event
  /\ sensor' \in {"mute", "hung"}
  /\ UNCHANGED <<age, health, reader, monitor, lease, manager, straggler, silence>>

Waits(m) == m.pc = "apply" => m.wait > 0
Waited(m) == IF m.pc = "apply" THEN [m EXCEPT !.wait = @ - 1] ELSE m

Tick ==
  /\ Waits(manager) /\ Waits(straggler)
  /\ age' = [stats |-> Older(age.stats), beat |-> Older(age.beat),
             progress |-> Older(age.progress), start |-> Older(age.start),
             recovery |-> IF age.recovery = RecoveryWait THEN RecoveryWait
                          ELSE age.recovery + 1]
  /\ lease' = IF lease = 0 THEN 0 ELSE lease - 1
  /\ manager' = Waited(manager) /\ straggler' = Waited(straggler)
  /\ silence' = IF silence > LongestSilence THEN silence ELSE silence + 1
  /\ UNCHANGED <<sensor, health, reader, monitor, events>>

Next ==
  \/ \E stats, accepted \in BOOLEAN : Submit(stats, accepted)
  \/ ReaderDegrades
  \/ Probe \/ NoRecovery \/ RecoverySucceeds \/ RecoveryFails
  \/ LeaseTick \/ LeaseApply \/ StragglerStep
  \/ \E ips, fresh \in BOOLEAN : Reconfigure(ips, fresh)
  \/ ReconfigureTimesOut
  \/ EngineRestart
  \/ SensorStalls
  \/ Tick

Spec == Init /\ [][Next]_vars

\* The probe ticker and the manager's ticker keep firing, nft commands end, and
\* a restart of the unit does not fail for ever.
Fairness ==
  /\ WF_vars(Tick) /\ WF_vars(Probe \/ NoRecovery)
  /\ WF_vars(LeaseApply) /\ WF_vars(StragglerStep)
  /\ SF_vars(RecoverySucceeds)

----
\* "a live process alone cannot hide a failed EVE writer or reader and renew the
\* IPS lease" (monitor.go 11-14): however probes, renewals in flight, stragglers,
\* reconfigurations and crashes interleave, the kernel queues packets to the
\* sensor only while its periodic stats were received recently; the lease runs
\* out within Timeout + TTL and the time of one nft command.
LeaseNeedsStats == lease > 0 => silence + lease <= LongestSilence

\* "Fresh control replies must not prevent recovery of a stalled writer or
\* reader" (monitor.go 84-85): a sensor that hangs, or answers but writes
\* nothing, is restarted.
StalledIsRecovered == (sensor # "up") ~> (sensor = "up")
====
