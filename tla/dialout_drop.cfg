CONSTANTS
    r1 = r1
    Requests <- OneRequest
    Roles <- DaemonOnly
    Faults <- NoFault
    BackoffMs = 10
    MaxBackoffMs = 20
    MaxDrops = 1
SPECIFICATION Spec
INVARIANTS
    DropReconnects
CHECK_DEADLOCK FALSE
