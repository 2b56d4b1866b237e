SPECIFICATION Spec
CONSTANTS
    Hosts = {"github", "gitlab"}
    People <- MCPeople
    Bots <- MCBots
    Files <- MCFiles
    Manifests <- MCManifests
    Changes <- MCChanges
    Headers = FALSE
    Rules <- MCRules
    RunNames = {"unit"}
    StatusNames = {"lint"}
    Patterns = {"unit", "lint"}
    MaxHead = 2
    MaxEvents = 4
INVARIANT TypeOK
INVARIANT ObjectionsAreReported
INVARIANT ApprovalsAreOfTheSha
INVARIANT TeamsAreOwners
INVARIANT ChecksAreNotGuessed
INVARIANT CountsNothingUnseen
