SPECIFICATION Spec
CONSTANTS
    alice = alice
    bob = bob
    carol = carol
    core = core
    r1 = r1
    r2 = r2
    NoComment = NoComment
    NoRoster = NoRoster
    Assignees = {alice, bob}
    Users = {carol}
    Teams = {core}
    Runs = {r1}
    Host = "gitlab"
    Faults = {"refused"}
    Races = {}
INVARIANT LedgerAccountsForAll
INVARIANT KeepsNothingUnwanted

