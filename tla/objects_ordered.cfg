CONSTANTS
    alice = alice
    bob = bob
    carol = carol
    note = note
    Agents <- ThreeAgents
    Objects <- OneObject
    Author <- ByAlice
    Ordered = TRUE
    MaxEnvelopes = 4
    MaxParts = 1
SPECIFICATION FairSpec
INVARIANTS
    ReadsWereShared
    ReadersAgreeWithOwner
PROPERTY
    RevokeArrives
CHECK_DEADLOCK FALSE
