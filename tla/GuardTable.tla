----------------------------- MODULE GuardTable -----------------------------
(***************************************************************************)
(* What the application guard manager promises its callers: a bounded      *)
(* table of guards in which work on one guard never withdraws another.     *)
(*                                                                         *)
(* `owned' are the guards the manager answers for and `guarded' those of   *)
(* them that the kernel enforces.  An installation is owned after the      *)
(* kernel has it, a removal is forgotten after the kernel has dropped it,  *)
(* and the kernel lets a guard expire by itself.                           *)
(***************************************************************************)
EXTENDS Naturals, FiniteSets

CONSTANTS
  Key,           \* the guards there may be
  Max            \* how many may be owned at a time

VARIABLES owned, guarded

vars == <<owned, guarded>>

Init == owned = {} /\ guarded = {}

\* Work in the kernel on behalf of k: every other guard stays in force.
Touch(k) ==
  /\ owned' = owned
  /\ guarded' \in SUBSET owned
  /\ guarded \ {k} \subseteq guarded'

Own(k) ==
  /\ k \in owned \/ Cardinality(owned) < Max
  /\ owned' = owned \cup {k}
  /\ guarded' \in SUBSET owned'
  /\ guarded \subseteq guarded'

Disown(k) ==
  /\ owned' = owned \ {k}
  /\ guarded' = guarded \ {k}

Expire(k) ==
  /\ guarded' = guarded \ {k}
  /\ owned' = owned

Reset == owned' = {} /\ guarded' = {}

Next == Reset \/ \E k \in Key : Touch(k) \/ Own(k) \/ Disown(k) \/ Expire(k)

Spec == Init /\ [][Next]_vars
=============================================================================
