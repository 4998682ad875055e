CONSTANTS
    N = 4
    Needs <- GateSecond
    PhaseOf <- FourPhases
    Policy <- EveryPolicy
    ApprovalOf <- ApprovedBySecond
    Conditional = {2, 3}
    Lenient = {3}
    Fragile = {2, 3}
    Unreadable = {3}
    EmptyReads = {4}
    Freezable = {1, 3}
    Receipted = {3}
    CanFreeze = TRUE
    Controlled = TRUE
    Stoppable = TRUE
    Says <- PausesAndRuns
    MaxCommands = 3
    AutoGates = {}
SPECIFICATION RunSpec
CHECK_DEADLOCK FALSE
INVARIANTS PhasesKept ApprovalsReal
PROPERTIES BoundaryKept PauseBars
