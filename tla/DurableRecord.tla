---------------------------- MODULE DurableRecord ----------------------------
(***************************************************************************)
(* What the execution store promises: whatever is lost in a crash, the     *)
(* record a later process would load moves along a step's life one step at *)
(* a time, and a reset of several steps happens at once or not at all.     *)
(***************************************************************************)
EXTENDS StepGraph

CONSTANTS Human, Recoverable, Transient, Checks, PlanOf

VARIABLE record

Statuses == {"pending", "running", "waiting", "success", "failed", "refused", "skipped",
             "cancelled"}

Settled == {s \in Steps : record[s] \in {"success", "refused"}}
Unfinished == {s \in Steps : record[s] \notin {"success", "refused", "skipped"}}

\* What one step's record may become.
Lifecycle(s, to) ==
    \/ /\ record[s] \in {"pending", "waiting"} /\ to = "running"
       /\ \A n \in Needs[s] : record[n] = "success"
    \/ record[s] \in {"pending", "waiting"} /\ to \in {"skipped", "cancelled"}
    \/ record[s] = "running" /\ to \in {"success", "failed", "refused", "waiting", "cancelled"}

Init == record = [s \in Steps |-> "pending"]

Move(s) ==
    \E to \in Statuses : Lifecycle(s, to) /\ record' = [record EXCEPT ![s] = to]

Reset(S) == record' = [s \in Steps |-> IF s \in S THEN "pending" ELSE record[s]]

\* A person sends a plan back: the path to the gate, which alone is at work.
SendBack(g) ==
    /\ {s \in PathBack(PlanOf[g], g) : record[s] = "running"} = {g}
    /\ Reset(PathBack(PlanOf[g], g))

\* A later process goes on: all that did not come to an end, all that waits on
\* it, and of the rest only what asks again on every run. Work that may have
\* happened is repeated only where a repetition costs nothing.
GoOn(S) ==
    /\ Downstream(Unfinished) \subseteq S
    /\ S \cap Settled \subseteq Downstream(Unfinished) \cup Transient \cup Checks
    /\ {s \in S : record[s] = "running"} \subseteq Human \cup Recoverable
    /\ Reset(S)

Next ==
    \/ \E s \in Steps : Move(s)
    \/ \E g \in DOMAIN PlanOf : SendBack(g)
    \/ \E S \in SUBSET Steps : GoOn(S)

Spec == Init /\ [][Next]_record
=============================================================================
