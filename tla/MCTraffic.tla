----------------------------- MODULE MCTraffic -----------------------------
(***************************************************************************)
(* What the engine knows and decides about single flows, in one run.  A     *)
(* behaviour is of one instance, the part chosen in the initial state; the  *)
(* variables of the others rest.                                            *)
(*   "tracking"  SessionTracking under the kernels of MCScenarios           *)
(*   "gate"      RequestGate under the disturbances of GateScenarios        *)
(*   "policy"    PolicyRules over a small network and a pool of rules       *)
(***************************************************************************)
EXTENDS RequestGate

CONSTANTS AddrBits, Addr, Port, PolicyIDs, Body, Priority, Interfaces, Routes,
          f1, f2, c1, c2, r1, r2

VARIABLES
  part,
  key, stamp, MaxAliases, env, live, dead, socket, overrun, sourceUp, queue, byID,
  byIdentity, identities, byConntrack, conntracks, tombstones, started, consuming,
  degraded, resyncing, dump, probe, lossy,
  policies, defaultDeny

-----------------------------------------------------------------------------
(* Sessions: the kernels of MCSessionTracking.                                *)

Flows == {f1, f2}
TrackingValues == INSTANCE MCSessionTracking WITH
  Flow <- Flows, Scenarios <- {}, OmitReply <- FALSE, MaxSessions <- 2,
  MaxClosed <- 1, QueueSize <- 1, SocketSize <- 1
TrackingScenarios == TrackingValues!MCScenarios

Tracking == INSTANCE SessionTracking WITH
  Flow <- Flows, Scenarios <- TrackingScenarios, OmitReply <- FALSE, MaxSessions <- 2,
  MaxClosed <- 1, QueueSize <- 1, SocketSize <- 1

-----------------------------------------------------------------------------
(* Request gate: one client and one tuple; each scenario is a set of          *)
(* disturbances with the policies, evidence and connections it needs.         *)

Gated == [action |-> "ALLOW", gate |-> "ON", tls |-> "DECRYPT", fail |-> "CLOSE",
          partial |-> "BLOCK"]
Lenient == [Gated EXCEPT !.fail = "OPEN", !.partial = "ALLOW_PARTIAL"]
Open == [Gated EXCEPT !.gate = "OFF"]
Denied == [Gated EXCEPT !.action = "DROP"]

Scenario(events, kinds, rules, evidences, generations) ==
  {[events |-> events, kind |-> [c \in Conn |-> k], conns |-> {c1},
    of |-> [r \in Request |-> c1],
    policies |-> rules, evidence |-> evidences, generations |-> generations,
    streams |-> FALSE, records |-> 1, slots |-> 1] : k \in kinds}

\* Every policy and every kind of evidence, undisturbed.
Quiet == Scenario({}, {"plain", "tls", "nohello"}, Policy, Evidence, 1)

\* Generations come and go under the calls.
Moving == Scenario({"activate", "lose"}, {"plain"}, {Gated, Lenient, Open, Denied},
                   {"clean", "unavailable"}, 2)

\* Sessions are learned late, revoked, closed and replaced.
Replaced == Scenario({"learn", "reuse", "revoke"}, {"plain"}, {Gated}, {"clean"}, 1)

\* Sources are blocked and the engine restarts.
Blocking == Scenario({"learn", "block", "restart", "expire", "lose"}, {"tls"}, {Gated},
                     {"clean"}, 1)

\* Two connections share a table with room for one.
Crowded == {[x EXCEPT !.conns = Conn,
                      !.of = [r \in Request |-> IF r = r1 THEN c1 ELSE c2]] :
              x \in Scenario({"learn", "expire"}, {"plain"}, {Gated}, {"clean"}, 1)}

GateScenarios == Quiet \cup Moving \cup Replaced \cup Blocking \cup Crowded

-----------------------------------------------------------------------------
(* Policies: addresses of three bits, two ports, three zones.                 *)

Prefix(a, b) == [addr |-> a, bits |-> b]
Tcp(f, l) == [protocol |-> "tcp", first |-> f, last |-> l, allPorts |-> FALSE]
Icmp == [protocol |-> "icmp", first |-> 0, last |-> 0, allPorts |-> TRUE]

MCPolicyIDs == <<"p1", "p2", "p3">>
MCInterfaces == {[name |-> "eth0", zone |-> "lan", prefix |-> Prefix(0, 1)],
                 [name |-> "eth1", zone |-> "wan", prefix |-> Prefix(4, 2)],
                 [name |-> "eth2", zone |-> "dmz", prefix |-> Prefix(3, 3)]}
MCRoutes == {[interface |-> "eth1", prefix |-> Prefix(0, 0)]}

Rule(sz, dz, sa, da, sv, action, enabled) ==
  [sourceZones |-> sz, destinationZones |-> dz, sourceAddresses |-> sa,
   destinationAddresses |-> da, services |-> sv, action |-> action, enabled |-> enabled]

MCBody == {
  Rule({}, {}, {}, {}, {}, "DROP", TRUE),
  Rule({"lan", "dmz"}, {"wan"}, {}, {}, {Tcp(1, 2)}, "ALLOW", TRUE),
  Rule({"lan"}, {"wan"}, {Prefix(0, 2)}, {}, {}, "DROP", TRUE),
  Rule({"lan"}, {"wan"}, {Prefix(1, 1)}, {}, {Tcp(1, 1), Icmp}, "ALLOW", TRUE),
  Rule({"wan"}, {"dmz", "lan"}, {Prefix(6, 3), Prefix(5, 3)}, {Prefix(3, 2)},
       {Tcp(1, 2), Icmp}, "REJECT", TRUE),
  Rule({"lan"}, {"wan"}, {Prefix(0, 2)}, {}, {}, "ALLOW", FALSE)}

Rules == INSTANCE PolicyRules

NewConnections == Rules!Seen

-----------------------------------------------------------------------------
policyVars == <<policies, defaultDeny>>
trackingVars == <<key, stamp, MaxAliases, env, live, dead, socket, overrun, sourceUp,
                  queue, byID, byIdentity, identities, byConntrack, conntracks,
                  tombstones, started, consuming, degraded, resyncing, dump, probe, lossy>>
all == <<part, vars, policyVars, trackingVars>>

TrackingRests ==
  /\ key = None /\ stamp = None /\ MaxAliases = None /\ env = None /\ live = None
  /\ dead = None /\ socket = None /\ overrun = None /\ sourceUp = None /\ queue = None
  /\ byID = None /\ byIdentity = None /\ identities = None /\ byConntrack = None
  /\ conntracks = None /\ tombstones = None /\ started = None /\ consuming = None
  /\ degraded = None /\ resyncing = None /\ dump = None /\ probe = None /\ lossy = None

\* The gate rests in the one initial state of Replaced.
AllInit ==
  /\ part \in {"tracking", "gate", "policy"}
  /\ Init /\ (part # "gate" => sc \in Replaced)
  /\ IF part = "policy" THEN Rules!Init ELSE policies = <<>> /\ defaultDeny = TRUE
  /\ IF part = "tracking" THEN Tracking!Init ELSE TrackingRests

AllNext ==
  \/ part = "tracking" /\ Tracking!Next /\ UNCHANGED <<part, vars, policyVars>>
  \/ part = "gate" /\ Next /\ UNCHANGED <<part, policyVars, trackingVars>>
  \/ part = "policy" /\ Rules!Next /\ UNCHANGED <<part, vars, trackingVars>>

AllSpec == AllInit /\ [][AllNext]_all

\* Sessions: a session absorbs the records of one kernel flow only, and the
\* indexes find no other session.
SingleIncarnation == part = "tracking" => Tracking!SingleIncarnation

\* Sessions: with nothing in flight and nothing ever lost, the session table is
\* the kernel's table.
QuietStoreIsExact == part = "tracking" => Tracking!QuietStoreIsExact

\* Sessions: a session is closed only when its flow is gone.
ClosedOnlyDead == [][part = "tracking" => Tracking!ClosesOnlyDead]_all


\* Policies: a policy that edits are refused for as unreachable decides nothing.
UnreachableDecidesNothing == part = "policy" => Rules!UnreachableIsIdle(NewConnections)
=============================================================================
