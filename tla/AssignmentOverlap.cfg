SPECIFICATION Spec
CONSTANTS
    alice = alice
    bob = bob
    carol = carol
    core = core
    r1 = r1
    r2 = r2
    NoComment = NoComment
    NoRoster = NoRoster
    Assignees = {alice}
    Users = {carol}
    Teams = {}
    Runs = {r1, r2}
    Host = "github"
    Faults = {"refused", "lost", "crash", "ledgerRead", "ledgerWrite", "ledgerDeleted"}
    Races = {"takeBack"}
INVARIANT TypeOK
PROPERTY NeverTakenFromItsPerson
INVARIANT UnreadableRemovesNothing
PROPERTY AskedForOrFailed
SYMMETRY RunSymmetry
