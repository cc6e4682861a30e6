SPECIFICATION Spec
CONSTANTS
    author = author
    reader = reader
    Agents = {author, reader}
    Posts = {p, q}
    Makes <- MCMakes
    MaxCrashes = 1
INVARIANTS
    AnswersFollowTheirQuery
PROPERTIES
    LifeMovesOn
    AnswerArrives
CHECK_DEADLOCK FALSE
