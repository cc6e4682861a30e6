SPECIFICATION OutreachSpec
CONSTANTS
    n1 = n1
    n2 = n2
    g = g
    q = q
    j1 = j1
    j2 = j2
    Newcomers = {n1, n2}
    Greeter = g
    Seeded = {n1}
    Shells = {j1, j2}
    Links <- LinksOf
    Packs <- PacksOf
    MaxJoins = 2
    MaxMishaps = 1
    MaxPartings = 1
INVARIANTS
    WelcomedAtMostOnce
    JoinAsksOnce
PROPERTIES
    AskersAreAnswered
    FriendsAreWelcomed
CHECK_DEADLOCK FALSE
