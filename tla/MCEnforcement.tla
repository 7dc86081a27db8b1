--------------------------- MODULE MCEnforcement ---------------------------
(***************************************************************************)
(* SessionRuntime under three loads.  A behaviour is of one of them, the    *)
(* part chosen in the initial state:                                        *)
(*   "cutover"  a policy activation and a block interleave with the event   *)
(*              consumer, on one flow;                                      *)
(*   "revoke"   two revocations at the capacity limit, on flows that get    *)
(*              the same conntrack identifier one after the other;          *)
(*   "blocks"   two operators add, remove and sweep blocks that the kernel  *)
(*              may refuse, or one of them revokes, which it may refuse too. *)
(***************************************************************************)
EXTENDS MCSessionRuntime

VARIABLE part

MCRequests == o1 :> {"add", "evaluate", "revoke"} @@ o2 :> {"revoke", "evaluate"}

\* The operations each load is made of.
Load ==
  /\ part = "cutover" => /\ sess[s2] = NoSession
                         /\ th[o2] = Idle
                         /\ th[o1].op \in {"none", "add"}
  /\ part = "revoke" => /\ th[Activator] = Idle
                        /\ th[o1].op \in {"none", "revoke"}
  /\ part = "blocks" /\ th[o2].op = "revoke" => th[o1] = Idle

PartInit == part \in {"cutover", "revoke"} /\ Init /\ program = p1

PartNext == UNCHANGED part /\ Next /\ Load'

PartSpec == PartInit /\ [][PartNext]_<<part, vars>>

BlocksInit == part = "blocks" /\ Init

BlocksSpec == BlocksInit /\ [][PartNext]_<<part, vars>>
=============================================================================
