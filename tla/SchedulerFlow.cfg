SPECIFICATION Spec
CONSTANTS
    N = 5
    Needs <- DiamondNeeds
    Jobs = 2
    Disabled = {}
    Conditional = {4}
    Fragile = {4}
    Confined = {4}
    Lenient = {1, 2}
    Timed = {3}
    Asks = {}
    Parking = {2}
    Attempts <- NotesTwice
    GroupOf <- NotesWithGate
    PlanOf <- GateAfterNotes
    MaxWaits = 1
    MaxExtensions = 0
    MaxRevisions = 1
    Stoppable = TRUE
    Interruptible = FALSE
    StoreMayFail = FALSE
INVARIANTS TypeOK NeedsMet GroupExclusion CleanedUp
PROPERTIES KeepsContract FailureStops
