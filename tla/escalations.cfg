CONSTANTS
    alice = alice
    bob = bob
    yes = yes
    no = no
    NoAnswer = NoAnswer
    Agents <- TwoAgents
    Answers <- YesOrNo
    MaxRaised = 2
    MaxParts = 1
SPECIFICATION FairSpec
INVARIANTS
    AskerAgrees
PROPERTIES
    PartedAskNothing
    AnswerReturns
    ConsultationSpec
CHECK_DEADLOCK FALSE
