\* Two requests that compete for one permit, beside a restart.
CONSTANTS
    Tasks = {t1, t2}
    Admins = {a1}
    Watchers = {}
    Monitors = {m1}
    MaxConcurrent = 1
    None = None
SPECIFICATION Spec
INVARIANTS PermitsBalance OneChrome FoundStoppedWasStopped
PROPERTIES EveryRequestEnds DeadChromeCleanedUp
