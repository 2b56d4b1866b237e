SPECIFICATION Spec
CONSTANTS
    r1 = r1
    r2 = r2
    Runs = {r1, r2}
    Kinds = {"comment", "note", "checkRun", "status"}
    approve = approve
    block = block
    Texts = {approve, block}
    Faults = {"refused", "unavailable", "lost", "crash"}
    Others = {"write", "quote", "delete"}
    MaxRetries = 1
    PageSize = 1
    MaxPages = 2
    MaxBatches = 2
    MaxThings = 4
INVARIANT TypeOK
PROPERTY FindsTheShown
PROPERTY ShowsItsReport
PROPERTY AddsNoSecond
SYMMETRY RunAndTextSymmetry
