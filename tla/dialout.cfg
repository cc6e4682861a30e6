CONSTANTS
    r1 = r1
    Requests <- OneRequest
    Roles <- AllRoles
    Faults <- AnyFault
    BackoffMs = 10
    MaxBackoffMs = 20
    MaxDrops = 2
SPECIFICATION FairSpec
INVARIANTS
    OnItsWay
PROPERTIES
    QuietAfterStop
    ComesBack
    EveryWaitEnds
    StartSettles
CHECK_DEADLOCK FALSE
