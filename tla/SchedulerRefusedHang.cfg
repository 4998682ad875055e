SPECIFICATION Spec
CONSTANTS
    N = 2
    Needs <- NoNeeds
    Jobs = 2
    Disabled = {}
    Conditional = {}
    Fragile = {}
    Confined = {2}
    Lenient = {}
    Timed = {}
    Asks = {}
    Parking = {}
    Attempts <- Once
    GroupOf <- AllInOneGroup
    PlanOf <- NoGates
    MaxWaits = 0
    MaxExtensions = 0
    MaxRevisions = 0
    Stoppable = FALSE
    Interruptible = FALSE
    StoreMayFail = FALSE
INVARIANTS AlwaysReports
