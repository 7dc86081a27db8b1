------------------------- MODULE SensorHealthProofs -------------------------
(***************************************************************************)
(* The IPS lease of SensorHealth is bounded by the last stats of the       *)
(* sensor, for every timeout, lease lifetime and nft delay.                *)
(***************************************************************************)
EXTENDS SensorHealth, TLAPS

\* The limits are lengths of time, in ticks.
TimeConstants ==
  Timeout \in Nat /\ TTL \in Nat /\ RecoveryWait \in Nat /\ NftDelay \in Nat

Ages == [stats : Nat, beat : Nat, progress : Nat, start : Nat, recovery : Nat]
Managers == [pc : {"off", "idle", "apply", "flush"}, live : BOOLEAN, wait : Nat]

TypeInv ==
  /\ age \in Ages
  /\ lease \in Nat /\ silence \in Nat
  /\ manager \in Managers /\ straggler \in Managers

\* A renewal under way was decided on stats that were recent when it began, and
\* the time it has still to take is part of the bound.
RenewalSound(m, quiet) ==
  m.pc = "apply" /\ m.live => quiet + m.wait <= Timeout + NftDelay

\* The monitor's own age of the last stats is never younger than they are: a new
\* monitor starts from none. The bound on the lease then needs the one on every
\* renewal in flight, of the running manager and of one nobody waits for.
LeaseInv ==
  /\ age.stats <= Timeout => silence <= age.stats
  /\ RenewalSound(manager, silence) /\ RenewalSound(straggler, silence)
  /\ LeaseNeedsStats

Inv == TypeInv /\ LeaseInv

-----------------------------------------------------------------------------
LEMMA OffType ==
  /\ Off \in Managers /\ Off.pc = "off"
  /\ [Off EXCEPT !.pc = "flush"] \in Managers /\ [Off EXCEPT !.pc = "flush"].pc = "flush"
  /\ Idle \in Managers /\ Idle.pc = "idle"
BY DEF Off, Idle, Managers

LEMMA OlderType ==
  ASSUME TimeConstants, NEW a \in Nat
  PROVE  /\ Older(a) \in Nat
         /\ Older(a) <= Timeout => Older(a) = a + 1 /\ a <= Timeout
BY DEF Older, TimeConstants

\* A new monitor has received nothing.
LEMMA NewAgeType ==
  ASSUME TimeConstants
  PROVE  NewAge \in Ages /\ ~(NewAge.stats <= Timeout)
BY DEF NewAge, Never, Ages, TimeConstants

LEMMA InitInv ==
  ASSUME TimeConstants, Init
  PROVE  Inv
<1>1. age \in Ages /\ ~(age.stats <= Timeout)
  BY NewAgeType DEF Init
<1>2. /\ manager \in Managers /\ manager.pc # "apply"
      /\ straggler \in Managers /\ straggler.pc # "apply"
  BY OffType DEF Init
<1>3. lease = 0 /\ silence \in Nat
  BY DEF Init, LongestSilence, TimeConstants
<1> QED BY <1>1, <1>2, <1>3 DEF Inv, TypeInv, LeaseInv, RenewalSound, LeaseNeedsStats

\* Records of the sensor: stats make the silence end.
LEMMA SubmitStep ==
  ASSUME TimeConstants, Inv, NEW stats \in BOOLEAN, NEW accepted \in BOOLEAN,
         Submit(stats, accepted)
  PROVE  Inv'
<1>1. /\ age' \in Ages
      /\ age'.stats = IF stats THEN 0 ELSE age.stats
  <2>1. PICK beat \in {0, Stale, age.beat} :
          age' = [age EXCEPT !.stats = IF stats THEN 0 ELSE @, !.beat = beat,
                             !.start = IF stats THEN Stale ELSE @,
                             !.progress = IF accepted THEN 0 ELSE @]
    BY DEF Submit
  <2>2. beat \in Nat /\ Stale \in Nat
    BY <2>1 DEF Stale, TimeConstants, Inv, TypeInv, Ages
  <2> QED BY <2>1, <2>2 DEF Inv, TypeInv, Ages
<1>2. /\ silence' = IF stats THEN 0 ELSE silence
      /\ UNCHANGED <<lease, manager, straggler>>
  BY DEF Submit
<1>3. silence' \in Nat /\ silence' <= silence
  BY <1>2 DEF Inv, TypeInv
<1>4. age'.stats <= Timeout => silence' <= age'.stats
  BY <1>1, <1>2 DEF Inv, LeaseInv
<1>5. RenewalSound(manager, silence') /\ RenewalSound(straggler, silence')
  BY <1>3 DEF Inv, TypeInv, LeaseInv, RenewalSound, Managers, TimeConstants
<1>6. LeaseNeedsStats'
  BY <1>2, <1>3 DEF Inv, TypeInv, LeaseInv, LeaseNeedsStats, LongestSilence, TimeConstants
<1> QED BY <1>1, <1>2, <1>3, <1>4, <1>5, <1>6 DEF Inv, TypeInv, LeaseInv

\* Steps of the monitor leave the last stats as old as they are.
LEMMA MonitorStep ==
  ASSUME TimeConstants, Inv,
         ReaderDegrades \/ Probe \/ NoRecovery \/ RecoverySucceeds \/ RecoveryFails
  PROVE  Inv'
<1>1. UNCHANGED <<lease, manager, straggler, silence>>
  BY DEF ReaderDegrades, Probe, NoRecovery, RecoverySucceeds, RecoveryFails
<1>2. age' \in {age, [age EXCEPT !.beat = 0], [age EXCEPT !.recovery = 0]}
  BY DEF ReaderDegrades, Probe, ProbeRecords, NoRecovery, RecoverySucceeds, RecoveryFails
<1>3. age' \in Ages /\ age'.stats = age.stats
  BY <1>2 DEF Inv, TypeInv, Ages
<1> QED BY <1>1, <1>3 DEF Inv, TypeInv, LeaseInv, RenewalSound, LeaseNeedsStats

\* A renewal is decided while capture is live, so on recent stats.
LEMMA LeaseTickStep ==
  ASSUME TimeConstants, Inv, LeaseTick
  PROVE  Inv'
<1>1. UNCHANGED <<age, lease, straggler, silence>>
  BY DEF LeaseTick
<1>2. PICK live \in BOOLEAN : /\ live => age.stats <= Timeout
                              /\ manager' = [pc |-> "apply", live |-> live, wait |-> NftDelay]
  BY DEF LeaseTick, CaptureLive, CaptureLiveLocked
<1>3. manager' \in Managers /\ RenewalSound(manager', silence)
  BY <1>2 DEF Managers, RenewalSound, Inv, TypeInv, LeaseInv, Ages, TimeConstants
<1> QED BY <1>1, <1>3 DEF Inv, TypeInv, LeaseInv, LeaseNeedsStats

\* What a manager's command leaves in the kernel is within the bound.
LEMMA AppliedBound ==
  ASSUME TimeConstants, Inv, NEW m \in Managers, m.pc = "apply", RenewalSound(m, silence),
         lease' \in {lease, Applied(m)}, silence' = silence
  PROVE  lease' \in Nat /\ LeaseNeedsStats'
<1>1. CASE lease' = Applied(m) /\ m.live
  <2>1. silence + m.wait <= Timeout + NftDelay /\ silence \in Nat /\ m.wait \in Nat
    BY <1>1 DEF RenewalSound, Inv, TypeInv, Managers
  <2>2. lease' = TTL
    BY <1>1 DEF Applied
  <2> QED BY <2>1, <2>2 DEF LeaseNeedsStats, LongestSilence, TimeConstants
<1>2. CASE lease' \in {lease, 0}
  BY <1>2 DEF Inv, TypeInv, LeaseInv, LeaseNeedsStats
<1> QED BY <1>1, <1>2 DEF Applied

\* Flushing, or failing to flush, the set keeps the bound.
LEMMA FlushBound ==
  ASSUME TimeConstants, Inv, lease' \in {lease, 0}, silence' = silence
  PROVE  lease' \in Nat /\ LeaseNeedsStats'
BY DEF Inv, TypeInv, LeaseInv, LeaseNeedsStats

LEMMA ManagerStep ==
  ASSUME TimeConstants, Inv, LeaseApply \/ StragglerStep
  PROVE  Inv'
<1>1. CASE LeaseApply
  <2>1. /\ manager.pc = "apply" /\ lease' \in {lease, Applied(manager)} /\ manager' = Idle
        /\ UNCHANGED <<age, straggler, silence>>
    BY <1>1 DEF LeaseApply
  <2>2. lease' \in Nat /\ LeaseNeedsStats'
    BY <2>1, AppliedBound DEF Inv, TypeInv, LeaseInv
  <2> QED BY <2>1, <2>2, OffType DEF Inv, TypeInv, LeaseInv, RenewalSound
<1>2. CASE StragglerStep
  <2>1. straggler' \in Managers /\ straggler'.pc # "apply"
    <3>1. straggler' \in {Off, [Off EXCEPT !.pc = "flush"]}
      BY <1>2 DEF StragglerStep
    <3> QED BY <3>1, OffType
  <2>2. UNCHANGED <<age, manager, silence>>
    BY <1>2 DEF StragglerStep
  <2>3. CASE straggler.pc = "apply"
    <3>1. lease' \in {lease, Applied(straggler)}
      BY <1>2, <2>3 DEF StragglerStep
    <3>2. lease' \in Nat /\ LeaseNeedsStats'
      BY <2>2, <2>3, <3>1, AppliedBound DEF Inv, TypeInv, LeaseInv
    <3> QED BY <2>1, <2>2, <3>2 DEF Inv, TypeInv, LeaseInv, RenewalSound
  <2>4. CASE straggler.pc # "apply"
    <3>1. lease' \in {lease, 0}
      BY <1>2, <2>4 DEF StragglerStep
    <3> QED BY <2>1, <2>2, <3>1, FlushBound DEF Inv, TypeInv, LeaseInv, RenewalSound
  <2> QED BY <2>3, <2>4
<1> QED BY <1>1, <1>2

\* configureInspection, a restart of the engine and a stall of the sensor: a new
\* monitor knows of no stats, and a manager that is still at work stays bounded.
LEMMA EventStep ==
  ASSUME TimeConstants, Inv,
         \/ \E ips, fresh \in BOOLEAN : Reconfigure(ips, fresh)
         \/ ReconfigureTimesOut \/ EngineRestart \/ SensorStalls
  PROVE  Inv'
<1>1. silence' = silence /\ lease' \in {lease, 0}
  BY DEF Reconfigure, ReconfigureTimesOut, EngineRestart, SensorStalls
<1>2. age' \in Ages /\ (age'.stats <= Timeout => silence <= age'.stats)
  <2>1. age' \in {age, NewAge}
    BY DEF Reconfigure, ReconfigureTimesOut, EngineRestart, SensorStalls, FreshMonitor
  <2> QED BY <2>1, NewAgeType DEF Inv, TypeInv, LeaseInv
<1>3. /\ manager' \in {manager, Off, Idle}
      /\ straggler' \in {straggler, manager, Off}
  BY DEF Reconfigure, ReconfigureTimesOut, EngineRestart, SensorStalls
<1>4. /\ manager' \in Managers /\ straggler' \in Managers
      /\ RenewalSound(manager', silence) /\ RenewalSound(straggler', silence)
  BY <1>3, OffType DEF Inv, TypeInv, LeaseInv, RenewalSound
<1> QED BY <1>1, <1>2, <1>4, FlushBound DEF Inv, TypeInv, LeaseInv

\* A tick ages the stats, the silence, the lease and the commands alike, and no
\* command outlives its time.
LEMMA TickStep ==
  ASSUME TimeConstants, Inv, Tick
  PROVE  Inv'
<1>1. age' \in Ages /\ age'.stats = Older(age.stats)
  <2>1. /\ age'.stats = Older(age.stats)
        /\ \E n \in {RecoveryWait, age.recovery + 1} :
             age' = [stats |-> Older(age.stats), beat |-> Older(age.beat),
                     progress |-> Older(age.progress), start |-> Older(age.start),
                     recovery |-> n]
    BY DEF Tick
  <2>2. /\ Older(age.stats) \in Nat /\ Older(age.beat) \in Nat
        /\ Older(age.progress) \in Nat /\ Older(age.start) \in Nat
        /\ RecoveryWait \in Nat /\ age.recovery + 1 \in Nat
    BY OlderType DEF Inv, TypeInv, Ages, TimeConstants
  <2> QED BY <2>1, <2>2 DEF Ages
<1>2. /\ silence' \in {silence, silence + 1} /\ silence \in Nat
      /\ silence' = silence => silence > LongestSilence
  BY DEF Tick, Inv, TypeInv
<1>3. age'.stats <= Timeout => silence' <= age'.stats
  <2>1. age.stats \in Nat
    BY DEF Inv, TypeInv, Ages
  <2> QED BY <1>1, <1>2, <2>1, OlderType DEF Inv, LeaseInv
<1>4. ASSUME NEW m \in Managers, RenewalSound(m, silence), Waits(m)
      PROVE  Waited(m) \in Managers /\ RenewalSound(Waited(m), silence')
  <2>1. CASE m.pc = "apply"
    <3>1. m.wait \in Nat /\ m.wait > 0 /\ Waited(m) = [m EXCEPT !.wait = m.wait - 1]
      BY <1>4, <2>1 DEF Waits, Waited, Managers
    <3>2. /\ Waited(m) \in Managers /\ Waited(m).wait = m.wait - 1
          /\ Waited(m).live = m.live
      BY <3>1 DEF Managers
    <3> QED BY <1>2, <1>4, <2>1, <3>1, <3>2 DEF RenewalSound, TimeConstants
  <2>2. CASE m.pc # "apply"
    BY <2>2 DEF Waited, RenewalSound
  <2> QED BY <2>1, <2>2
<1>5. lease' \in Nat /\ LeaseNeedsStats'
  <2>1. lease \in Nat /\ lease' = IF lease = 0 THEN 0 ELSE lease - 1
    BY DEF Tick, Inv, TypeInv
  <2>2. lease > 0 => silence + lease <= LongestSilence
    BY DEF Inv, LeaseInv, LeaseNeedsStats
  <2>3. LongestSilence \in Nat
    BY DEF LongestSilence, TimeConstants
  <2>4. CASE lease > 1
    <3>1. silence' = silence + 1 /\ lease' = lease - 1
      BY <1>2, <2>1, <2>2, <2>3, <2>4
    <3>2. lease' \in Nat /\ silence' + lease' <= LongestSilence
      BY <1>2, <2>1, <2>2, <2>3, <2>4, <3>1
    <3> QED BY <3>2 DEF LeaseNeedsStats, LongestSilence
  <2>5. CASE ~(lease > 1)
    <3>1. lease' = 0
      BY <2>1, <2>5
    <3> QED BY <3>1 DEF LeaseNeedsStats
  <2> QED BY <2>4, <2>5
<1>6. /\ Waits(manager) /\ Waits(straggler)
      /\ manager' = Waited(manager) /\ straggler' = Waited(straggler)
  BY DEF Tick
<1>7. silence' \in Nat
  BY <1>2
<1> QED BY <1>1, <1>3, <1>4, <1>5, <1>6, <1>7 DEF Inv, TypeInv, LeaseInv

-----------------------------------------------------------------------------
\* The kernel queues packets to the sensor only while its stats were received
\* within Timeout + TTL and the time of one nft command, whatever the limits are
\* and however often the sensor stalls, the engine restarts or an activation
\* gives up on a lease manager that is still at work.
THEOREM LeaseBounded ==
  ASSUME TimeConstants
  PROVE  Spec => []LeaseNeedsStats
<1>1. Init => Inv
  BY InitInv
<1>2. Inv /\ [Next]_vars => Inv'
  <2>1. ASSUME Inv, UNCHANGED vars PROVE Inv'
    BY <2>1 DEF vars, Inv, TypeInv, LeaseInv, RenewalSound, LeaseNeedsStats
  <2> QED
    BY <2>1, SubmitStep, MonitorStep, LeaseTickStep, ManagerStep, EventStep, TickStep
    DEF Next
<1>3. Inv => LeaseNeedsStats
  BY DEF Inv, LeaseInv
<1> QED BY <1>1, <1>2, <1>3, PTL DEF Spec
=============================================================================
