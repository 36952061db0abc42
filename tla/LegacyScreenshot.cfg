\* Every request ends in an answer, and then nothing is left to do.
CONSTANTS
    Callers = {r1, r2}
    Threshold = 1
    ResetTimeout = 1
    Permits = 1
    MaxRetries = 2
    MaxSecond = 1
SPECIFICATION LegacySpec
INVARIANTS PermitsBalance PictureUnlessTorn OpenMeansFailures
PROPERTIES LegacyContract EveryRequestAnswered
CHECK_DEADLOCK FALSE
