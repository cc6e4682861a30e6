SPECIFICATION InboundSpec
CONSTANTS
    r1 = r1
    r2 = r2
    b1 = b1
    b2 = b2
    b3 = b3
    b4 = b4
    ann = ann
    bob = bob
    Requests = {r1, r2}
    Bundles = {b1, b2, b3, b4}
    From <- MCFrom
    Earlier <- MCEarlier
    Pasts <- MCPasts
    ViaRelay = {r1, b2}
    WithCode = {r1, r2}
    Known = {}
    MaxPeer = 1
    MaxGlobal = 2
    MaxUses = 1
    Keep = 2
    MaxEnds = 1
    MaxOwner = 1
INVARIANTS
    InboundTypeOK
    LimitsHold
    Accounted
PROPERTIES
    MakesRoomInOrder
CHECK_DEADLOCK FALSE
