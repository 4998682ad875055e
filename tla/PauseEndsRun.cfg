CONSTANTS
    N = 1
    Needs <- OneStep
    PhaseOf <- OnePhase
    Policy <- Automatic
    ApprovalOf <- NoApproval
    Conditional = {}
    Lenient = {}
    Fragile = {}
    Unreadable = {}
    EmptyReads = {}
    Freezable = {}
    Receipted = {}
    CanFreeze = TRUE
    Controlled = TRUE
    Stoppable = FALSE
    Says <- SaysPause
    MaxCommands = 1
    AutoGates = {}
SPECIFICATION RunSpec
CHECK_DEADLOCK FALSE
INVARIANT PendingStaysPending
