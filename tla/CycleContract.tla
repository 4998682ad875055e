---------------------------- MODULE CycleContract ----------------------------
(***************************************************************************)
(* What a run of a cycle promises, whatever its scheduler does inside:     *)
(* the lifecycle a step's status may follow, that a step works only after  *)
(* what it needs, that a verdict stands unless a person sends the plan     *)
(* back, and that a run that is over left no step without one.             *)
(***************************************************************************)
EXTENDS StepGraph

CONSTANTS Jobs, Conditional, PlanOf

VARIABLES status, over

Terminal == {"success", "failed", "timeout", "skipped", "cancelled"}

Satisfied(s) ==
    \A n \in Needs[s] : status[n] = "success" \/ (status[n] \in Terminal /\ s \in Conditional)

Working == {s \in Steps : status[s] = "running"}

\* The lifecycle: what a step in state `from` may become.
Lifecycle(s, from, to) ==
    \/ from = "pending" /\ to = "running" /\ Satisfied(s)
    \/ from = "pending" /\ to \in {"skipped", "cancelled"}
    \/ from = "pending" /\ to = "failed" /\ Satisfied(s)
    \/ from = "running" /\ to \in Terminal \cup {"waiting"}
    \/ from = "waiting" /\ to \in {"pending", "timeout", "cancelled"}

Init == status = [s \in Steps |-> "pending"] /\ over = FALSE

\* Steps move along their lifecycle, never more at work than there are workers.
Advance ==
    /\ ~over
    /\ status' \in [Steps -> Terminal \cup {"pending", "running", "waiting"}]
    /\ \A s \in Steps : status'[s] # status[s] => Lifecycle(s, status[s], status'[s])
    /\ Cardinality(Working') <= Jobs
    /\ UNCHANGED over

\* A person sends a plan back: the path from the plan to its gate starts over,
\* the gate being at work and nothing else on that path.
SendBack(g) ==
    /\ ~over
    /\ g \in DOMAIN PlanOf /\ status[g] = "running"
    /\ LET again == PathBack(PlanOf[g], g)
       IN  /\ again \cap Working = {g}
           /\ status' = [s \in Steps |-> IF s \in again THEN "pending" ELSE status[s]]
    /\ UNCHANGED over

Finish ==
    /\ \A s \in Steps : status[s] \in Terminal
    /\ over' = TRUE
    /\ UNCHANGED status

Next == Advance \/ Finish \/ \E g \in DOMAIN PlanOf : SendBack(g)

Spec == Init /\ [][Next]_<<status, over>>
=============================================================================
