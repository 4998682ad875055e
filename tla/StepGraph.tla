------------------------------ MODULE StepGraph ------------------------------
(***************************************************************************)
(* The graph of a cycle: steps in file order and what each one needs.      *)
(* `upstream` and `downstream` (cycle/model.py) are worklist loops; here   *)
(* they are the least sets those loops end with, stated as the             *)
(* intersection of every closed set, which is also the form the proofs     *)
(* use.                                                                    *)
(***************************************************************************)
EXTENDS Naturals, FiniteSets

CONSTANTS N,      \* how many steps the cycle has
          Needs   \* step -> the steps its `needs:` names

\* A step is its position in the file.
Steps == 1..N

ASSUME NAssumption == N \in Nat \ {0}
ASSUME NeedsAssumption == Needs \in [Steps -> SUBSET Steps]

\* C holds every step that waits on one of C.
ClosedForward(C) == \A s \in Steps : Needs[s] \cap C # {} => s \in C

\* C holds everything the steps of C wait for.
ClosedBackward(C) == \A s \in C : Needs[s] \subseteq C

\* model.downstream: the steps of S and all that could only run after them.
Downstream(S) ==
    {d \in Steps : \A C \in SUBSET Steps : (S \subseteq C /\ ClosedForward(C)) => d \in C}

\* model.upstream: all that the steps of S wait for, without S itself.
Upstream(S) ==
    {u \in Steps : \A C \in SUBSET Steps : (S \subseteq C /\ ClosedBackward(C)) => u \in C} \ S

\* revisions.targets: the read-only path from a plan to its gate, and the gate.
PathBack(plan, gate) == (Downstream({plan}) \cap Upstream({gate})) \cup {gate}
=============================================================================
