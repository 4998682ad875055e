-------------------------- MODULE MCRunInteractions --------------------------
(***************************************************************************)
(* A small instance of RunInteractions for TLC: a plan, its gate, which    *)
(* takes no messages, and a step that judges the work.                     *)
(***************************************************************************)
EXTENDS RunInteractions, TLC

PlanGateJudge == <<{}, {1}, {2}>>
TwoNoneOne == <<2, 0, 1>>
GateOfPlan == 2 :> 1
=============================================================================
