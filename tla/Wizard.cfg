SPECIFICATION Spec
CONSTANTS
    Users = {1, 2}
    Login = 2
    EnrollTarget = 2
    EnrollStreak = 2
    CountdownFrom = 2
    CalTarget = 2
    CalMaxAttempts = 2
    CalEnough = 1
    Machines <- MachinesMC
    MaxKeys = 3
    MaxOthers = 1
INVARIANTS EditsHitTheirProfile ConfirmedForActive
PROPERTIES EnrollEarned SamplingEnds
