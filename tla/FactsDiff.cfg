SPECIFICATION Spec
CONSTANTS
    Hosts = {"github"}
    People <- MCPeople
    Bots <- MCBots
    Files <- MCFiles
    Manifests <- MCManifests
    Changes <- MCChanges
    Headers = FALSE
    Rules <- MCRules
    RunNames = {"unit"}
    StatusNames = {"lint"}
    Patterns = {"unit", "lint"}
    MaxHead = 2
    MaxEvents = 2
INVARIANT RefusesOnlyTheUnseen
