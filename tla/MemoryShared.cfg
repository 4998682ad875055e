SPECIFICATION Spec
CONSTANTS
    r1 = r1
    r2 = r2
    r3 = r3
    Runs = {r1, r2}
    Reservations = {t1, t2}
    Budget = 2
    Seconds = 1
    Mortal = {r1}
    Faulty = {r1}
    MaxTime = 2
    MaxOps <- OneAndThree
    Nobody = Nobody
INVARIANTS TypeOK ExclusiveClaim NothingLost
PROPERTY ImplementsLedger
\* Every run comes to the end of what it tries.
CHECK_DEADLOCK FALSE
