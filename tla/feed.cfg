CONSTANTS
    p1 = p1
    Posts <- OnePost
    MaxCuts = 2
SPECIFICATION Spec
INVARIANTS
    ApprovedFirst
    PendingIsApprovable
PROPERTIES
    PartedIsNotServed
CHECK_DEADLOCK FALSE
