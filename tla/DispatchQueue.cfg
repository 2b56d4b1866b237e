SPECIFICATION FairSpec
CONSTANTS
    p1 = p1
    p2 = p2
    NoNumber = NoNumber
    NoEvent = NoEvent
    PRs = {p1}
    Triggers = {"review", "stop", "ask", "talk", "synchronize", "closed", "reopened", "reviewed", "checks"}
    Faults = {"call", "crash"}
    Races = {"overlap"}
    MaxNews = 3
INVARIANT TypeOK
INVARIANT OnlyTheSubscribed
INVARIANT NothingIsForgotten
PROPERTY NeverOlder
PROPERTY NewsIsShown
