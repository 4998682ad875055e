SPECIFICATION FairSpec
CONSTANTS
    N = 3
    Needs <- PairThenOne
    Jobs = 2
    Disabled = {3}
    Conditional = {}
    Fragile = {}
    Confined = {}
    Lenient = {2}
    Timed = {1}
    Asks = {1}
    Parking = {1}
    Attempts <- Once
    GroupOf <- AllInOneGroup
    PlanOf <- NoGates
    MaxWaits = 1
    MaxExtensions = 1
    MaxRevisions = 0
    Stoppable = TRUE
    Interruptible = TRUE
    StoreMayFail = TRUE
INVARIANTS OneLife RecordMatchesLoop QuestionsCurrent OutcomeHasCause SettledAtEnd
PROPERTIES RunEnds StopEnds
