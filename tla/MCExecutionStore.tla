-------------------------- MODULE MCExecutionStore --------------------------
(***************************************************************************)
(* Small cycles for TLC, one per question asked of ExecutionStore.         *)
(***************************************************************************)
EXTENDS ExecutionStore, TLC

\* A plan, its approval gate, and a check of the approval; or an answer, paid
\* work that follows from it, and work that follows from that.
ChainNeeds == <<{}, {1}, {2}>>
GateOfPlan == [s \in {2} |-> 1]

NoGates == [s \in {} |-> 1]
=============================================================================
