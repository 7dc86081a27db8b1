---------------------------- MODULE MCInspection ----------------------------
(***************************************************************************)
(* Small instances of Inspection.                                          *)
(***************************************************************************)
EXTENDS Inspection

CONSTANTS s1, s2, k1, k2, w1, w2

Off       == [mode |-> "OFF", allowed |-> {}]
Ids       == [mode |-> "IDS", allowed |-> {}]
Only(app) == [mode |-> "IPS", allowed |-> {app}]

Shared   == [s \in {s1, s2} |-> k1]
Distinct == [s \in {s1, s2} |-> IF s = s1 THEN k1 ELSE k2]

Case(keys, policies, crew, size, max, faults, observations) ==
  [key |-> keys, policy |-> policies, workers |-> crew, slots |-> size,
   guards |-> max, env |-> faults, budget |-> observations]

\* s2 reuses s1's conntrack entry, or both are alive; the restriction is lifted,
\* exchanged, or observed only by an IDS.
MCScenarios ==
  {Case(Shared, <<Only("HTTP")>>, {w1}, 3, 2, {"close"}, 2),
   Case(Shared, <<Only("HTTP"), Off>>, {w1}, 3, 2, {"close"}, 1),
   Case(Distinct, <<Only("HTTP")>>, {w1}, 3, 1, {}, 2),
   Case(Distinct, <<Only("HTTP")>>, {w1}, 1, 2, {}, 2),
   Case(Shared, <<Only("HTTP"), Ids>>, {w1, w2}, 3, 2, {"weak"}, 2),
   Case(Shared, <<Only("HTTP"), Only("SSH")>>, {w1}, 3, 2, {"fault"}, 2)}

MCFull == {Case(Distinct, <<Only("HTTP"), Off>>, {w1}, 1, 2, {}, 2)}
=============================================================================
