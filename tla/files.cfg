CONSTANTS
    alice = alice
    bob = bob
    s1 = s1
    s2 = s2
    Peers <- TwoPeers
    Worlds <- SerialOrOverlapping
    MaxRuns = 4
SYMMETRY Alike
SPECIFICATION HomeSpec
INVARIANTS
    BlockSurvives
    AdmitsOnlyAccepted
    RequestIsAnswerable
    ApprovalActsOnce
CHECK_DEADLOCK FALSE
