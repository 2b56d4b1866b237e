SPECIFICATION Spec
CONSTANTS
    r1 = r1
    r2 = r2
    Runs = {r1, r2}
    Serial = FALSE
    Faults = {"refused", "unavailable", "lost", "crash"}
    MaxRetries = 1
    MaxReviews = 6
PROPERTY SettlesOnItsVerdict
SYMMETRY RunSymmetry
