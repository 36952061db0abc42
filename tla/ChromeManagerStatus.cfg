CONSTANTS
    Tasks = {t1}
    Admins = {}
    Watchers = {w1}
    Monitors = {m1}
    MaxConcurrent = 1
    None = None
SPECIFICATION Spec
PROPERTY StatusAnswered
CHECK_DEADLOCK FALSE
