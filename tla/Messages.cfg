CONSTANTS
    N = 3
    Needs <- PlanGateJudge
    Messages = {m1}
    Points <- TwoNoneOne
    PlanOf <- GateOfPlan
    Parking = {1}
    MaxWaits = 1
    MaxRevisions = 1
    MaxResumes = 2
SPECIFICATION Spec
CHECK_DEADLOCK FALSE
INVARIANTS PaidOnce WordsHonest JudgesKnow ClosedAtEnd
