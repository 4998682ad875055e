SPECIFICATION Spec
CONSTANTS
    r1 = r1
    r2 = r2
    r3 = r3
    Runs = {r1, r2, r3}
    Reservations = {t1}
    Budget = 2
    Seconds = 1
    Mortal = {r1}
    Faulty = {}
    MaxTime = 0
    MaxOps <- OneEach
    Nobody = Nobody
INVARIANT ExclusiveClaim
CHECK_DEADLOCK FALSE
