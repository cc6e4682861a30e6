CONSTANTS
    m1 = m1
    m2 = m2
    poison = poison
    s1 = s1
    Messages <- ThreeMessages
    NoMessage = NoMessage
    Refused <- Poison
    Slots <- OneSlot
    MaxDrops = 1
    MaxCrashes = 1
    MaxFailures = 1
    MaxCuts = 1
SPECIFICATION FairSpec
INVARIANTS
    NothingLost
PROPERTIES
    MailboxDrains
    OwnerIsTold
    ReceiptSpec
CHECK_DEADLOCK FALSE
