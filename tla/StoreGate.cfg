SPECIFICATION Spec
CONSTANTS
    N = 3
    Needs <- ChainNeeds
    Human = {2}
    Recoverable = {1}
    Transient = {2}
    Checks = {3}
    Decisive = {3}
    Parking = {}
    PlanOf <- GateOfPlan
    MaxRevisions = 1
    MaxResumes = 2
    MaxEdits = 0
    DiskMayFail = TRUE
    MayOutlive = FALSE
    Nothing = Nothing
CHECK_DEADLOCK FALSE
INVARIANTS TypeOK WorkIsOnDisk UnknownStaysRunning
PROPERTIES CallsOnce ImplementsRecord
