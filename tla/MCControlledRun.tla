--------------------------- MODULE MCControlledRun --------------------------
(***************************************************************************)
(* Small instances of ControlledRun and of PauseControl for TLC.           *)
(***************************************************************************)
EXTENDS ControlledRun, TLC

\* A step to stop after; a gate and what it approves; a manual step.
GateSecond == <<{}, {1}, {2}, {1}>>
FourPhases == <<1, 2, 2, 3>>
EveryPolicy == <<"stop_after", "approval_required", "manual">>
ApprovedBySecond == 2 :> 2

\* One phase, with nobody asked.
OneStep == <<{}>>
OnePhase == <<1>>
Automatic == <<"automatic">>
NoApproval == [p \in {} |-> 1]

\* A gate and what it approves, alone.
GateNeeds == <<{}, {1}>>
GatePhase == <<1, 1>>
GatePolicy == <<"approval_required">>
ApprovedByFirst == 1 :> 1

\* What a person says.
SaysPause == {Command("pause", 0)}
SaysPauseContinue == {Command("pause", 0), Command("continue", 0)}
PausesAndRuns ==
    {Command("pause", 0), Command("continue", 0), Command("retry_phase", 2)}
        \cup {Command("run_phase", p) : p \in 2..3}
=============================================================================
