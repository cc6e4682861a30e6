CONSTANTS
    alice = alice
    bob = bob
    Agents <- TwoAgents
    InviteOnly <- OnlyBob
    InviteUses = 1
    MaxEnvelopes = 4
    MaxGrants = 2
SPECIFICATION Spec
INVARIANTS
    BlockHolds
PROPERTIES
    AdmissionSpec
CHECK_DEADLOCK FALSE
