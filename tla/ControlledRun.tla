--------------------------- MODULE ControlledRun ----------------------------
(***************************************************************************)
(* A run somebody watches: the loop that obeys their commands              *)
(* (PauseControl) and the approvals its workers ask them for (AskPerson),  *)
(* one question for each execution of an approval gate. The token of a     *)
(* question is the one that stops the run. A question is not held by a     *)
(* pause: it waits already (cycle/freeze.py). Without Ctrl+C the loop      *)
(* returns only when no worker is left, so that no question is open then.  *)
(***************************************************************************)
EXTENDS PauseControl

CONSTANT AutoGates   \* approval gates with `auto_answer`

Askers == {ApprovalOf[p] : p \in Gates}
Questions == Askers \X (0..MaxCommands)

ASSUME AskersAssumption ==
    AutoGates \subseteq Askers /\ Askers \subseteq Fragile /\ Askers \cap Freezable = {}

VARIABLES at, slot, opened, event, giving, result, told

Person_ == INSTANCE AskPerson WITH
              token <- stopping, Auto <- {q \in Questions : q[1] \in AutoGates}

askVars == <<at, slot, opened, event, giving, result, told>>
allVars == <<vars, askVars>>

\* The question of the execution a gate's worker was started for.
Question(g) == <<g, workerGen[g]>>

RunInit == Init /\ Person_!AskInit

\* approval.gate: what the step comes to.
GateResult(q) ==
    IF result[q].answered /\ result[q].answer = "yes" THEN "success" ELSE "failed"

AskApproval(g) ==
    /\ worker[g] = "working" /\ Person_!Ask(Question(g))
    /\ UNCHANGED vars

ReturnApproval(g) ==
    /\ at[Question(g)] = "done" /\ Return(g, GateResult(Question(g)))
    /\ UNCHANGED askVars

\* Stopped before its plugin was called.
ReturnUnasked(g) ==
    /\ at[Question(g)] = "no" /\ Return(g, "cancelled")
    /\ UNCHANGED askVars

\* The control thread, which also takes commands. "no" does here what a question
\* that is dismissed does.
AnswerApproval ==
    /\ \/ \E q \in Questions, answer \in {"yes", "dismissed"} : Person_!Deliver(q, answer)
       \/ Person_!SetEvent
    /\ UNCHANGED vars

Command_ == giving = {} /\ Person /\ UNCHANGED askVars

RunNext ==
    \/ Loop /\ UNCHANGED askVars
    \/ Command_ \/ AnswerApproval
    \/ \E s \in Steps \ Askers : Work(s) /\ UNCHANGED askVars
    \/ \E g \in Askers : AskApproval(g) \/ ReturnApproval(g) \/ ReturnUnasked(g)
    \/ \E q \in Questions : Person_!Waiter(q) /\ UNCHANGED vars

RunSpec == RunInit /\ [][RunNext]_allVars

\* PauseControl's fairness, and that of the threads that ask and that answer.
\* A person need not answer, and the time of a question need not come up.
RunFairSpec ==
    /\ RunSpec
    /\ WF_allVars(Loop /\ UNCHANGED askVars)
    /\ \A s \in Steps : SF_allVars(Record(s) /\ UNCHANGED askVars)
    /\ \A s \in Steps \ Askers : WF_allVars(Work(s) /\ UNCHANGED askVars)
    /\ \A g \in Askers : WF_allVars(AskApproval(g) \/ ReturnApproval(g) \/ ReturnUnasked(g))
    /\ \A q \in Questions : WF_allVars(Person_!Waiter(q) /\ UNCHANGED vars)
    /\ WF_allVars(Person_!SetEvent /\ UNCHANGED vars)

-----------------------------------------------------------------------------
RunTypeOK ==
    /\ TypeOK /\ Person_!AskTypeOK
    /\ \A q \in Questions : at[q] # "no" => q[2] <= gen[q[1]]

\* A phase is approved by an answer to the question of this very execution of
\* its gate: an answer somebody gave, or the one it takes by itself; not by a
\* stop, an abandoned question, or what was said before a retry.
ApprovalsReal ==
    \A g \in Askers : status[g] = "success" =>
        LET q == <<g, gen[g]>> IN "yes" \in told[q] \/ g \in AutoGates

\* Who was told that their answer was wanted is heard: the question ends,
\* without waiting for its time, and in a pause as well.
AnswerHeard == \A q \in Questions : told[q] # {} ~> at[q] = "done"
=============================================================================
