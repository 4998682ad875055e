SPECIFICATION Spec
CONSTANTS
    N = 3
    Needs <- ChainNeeds
    Human = {1}
    Recoverable = {2}
    Transient = {1}
    Checks = {}
    Decisive = {}
    Parking = {3}
    PlanOf <- NoGates
    MaxRevisions = 0
    MaxResumes = 1
    MaxEdits = 1
    DiskMayFail = FALSE
    MayOutlive = TRUE
    Nothing = Nothing
CHECK_DEADLOCK FALSE
INVARIANTS AskedFirst KeptCurrent OneExecution
