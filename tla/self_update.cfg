SPECIFICATION Spec
CONSTANTS
    MajorsOf <- Majors
    Roots <- OwnOrSystem
    MaxFaults = 1
    MaxCuts = 1
INVARIANTS
    InstallsAlone
PROPERTIES
    ReleaseReachesDaemon
    OwnerIsNudged
    NotifierMigrates
CHECK_DEADLOCK FALSE
