CONSTANTS
    N = 2
    Needs <- GateNeeds
    PhaseOf <- GatePhase
    Policy <- GatePolicy
    ApprovalOf <- ApprovedByFirst
    Conditional = {}
    Lenient = {}
    Fragile = {1, 2}
    Unreadable = {}
    EmptyReads = {}
    Freezable = {2}
    Receipted = {}
    CanFreeze = TRUE
    Controlled = TRUE
    Stoppable = TRUE
    Says <- SaysPauseContinue
    MaxCommands = 2
    AutoGates = {1}
SPECIFICATION RunFairSpec
CHECK_DEADLOCK FALSE
PROPERTIES PauseComes StopEnds AnswerHeard
