--------------------------- MODULE MCKernelCache ---------------------------
\* KernelCache on an M1/M2 appliance whose kernel and disk may refuse, with one
\* flow that c1 allows and c2 does not. MCBookkeeping checks the other scenarios.
EXTENDS KernelCache

CONSTANTS c1, c2

MCAllowed == [c \in {c1, c2} |-> IF c = c1 THEN Flow ELSE {}]
MCScenarios == {[path |-> "m2", faults |-> TRUE, reboots |-> FALSE]}
=============================================================================
