SPECIFICATION Spec
CONSTANTS
    r1 = r1
    r2 = r2
    Runs = {r1, r2}
    Faults = {"refused", "unavailable", "lost", "crash"}
    Others = {"resolve", "delete", "push"}
    MaxRetries = 1
    MaxThreads = 3
INVARIANT TypeOK
PROPERTY SettlesOnItsVerdict
PROPERTY NeverMakesBoth
SYMMETRY RunSymmetry
