SPECIFICATION Spec
CONSTANTS
    Offered = {"approve", "block", "comment", "assign", "incomplete"}
    MaxActions = 2
    Decisions <- AllDecisions
    Faults = {"subscription", "fetch", "ruleset", "config", "facts", "cluster", "rejected", "comment", "review", "assignment", "check", "crash"}
    MaxHead = 2
INVARIANT TypeOK
 
PROPERTY CheckFollowsTheReview
PROPERTY NothingHalfUnderstood
PROPERTY FailsOpen
