--------------------------- MODULE MCStepScheduler ---------------------------
(***************************************************************************)
(* Small cycles for TLC, one per question asked of StepScheduler.          *)
(***************************************************************************)
EXTENDS StepScheduler, TLC

\* A plan; notes taken from it and its gate, in one concurrency group; a report
\* with an `if:` after both; and an audit of the plan.
DiamondNeeds == <<{}, {1}, {1}, {2, 3}, {1}>>
NotesTwice == [s \in Steps |-> IF s = 2 THEN 2 ELSE 1]
NotesWithGate == [s \in {2, 3} |-> "scenarios"]
GateAfterNotes == [s \in {3} |-> 1]

\* Nothing needs anything: only workers, deadlines and groups order the steps.
NoNeeds == [s \in Steps |-> {}]
PairThenOne == <<{}, {}, {1}>>
Once == [s \in Steps |-> 1]
NoGroups == [s \in {} |-> "none"]
AllInOneGroup == [s \in Steps |-> "scenarios"]
NoGates == [s \in {} |-> 1]
=============================================================================
