SPECIFICATION FairSpec
CONSTANTS
    r1 = r1
    r2 = r2
    Runs = {r1, r2}
    Serial = TRUE
    Faults = {"refused", "unavailable", "lost", "crash"}
    MaxRetries = 1
    MaxReviews = 6
INVARIANT TypeOK
PROPERTY OneVerdictAtATime
PROPERTY HoldsItsVerdict
PROPERTY RunEnds
