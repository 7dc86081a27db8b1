---------------------------- MODULE MCActivation ----------------------------
(* Instances of Activation for TLC: interchangeable configurations and       *)
(* operation identifiers.                                                    *)
EXTENDS Activation, TLC

Symmetry == Permutations(Config) \cup Permutations(Id)

=============================================================================
