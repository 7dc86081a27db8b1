-------------------------- MODULE MCSessionRuntime --------------------------
(* Constants for model-checking SessionRuntime. *)
EXTENDS SessionRuntime, TLC

CONSTANTS s1, s2, src1, p1, p2, p3, Forward, o1, o2

MCSrcOf == [s \in Session |-> src1]

\* The kernel gives every flow the same identifier, one after the other.
MCCtOfReused == [s \in Session |-> CHOOSE c \in CtId : TRUE]

\* Before NAT is known, p2 places s1 in a local zone.
MCInferZone ==
  [p \in Program |-> [s \in Session |-> [nat \in BOOLEAN |->
     IF p = p2 /\ s = s1 /\ ~nat THEN Local ELSE Forward]]]

\* p1 allows, p2 drops, p3 drops what is translated.
MCVerdict ==
  [p \in Program |-> [s \in Session |-> [nat \in BOOLEAN |-> [z \in Zone |->
     IF p = p1 \/ (p = p3 /\ ~nat) THEN Allow ELSE Drop]]]]

MCBlockRequests == o1 :> {"add"} @@ o2 :> {"add", "remove", "sweep", "revoke"}
MCRevokeRequests == o1 :> {"revoke"} @@ o2 :> {"revoke", "evaluate"}
=============================================================================
