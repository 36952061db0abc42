\* Two tasks that compete for one permit, beside the start in the background.
CONSTANTS
    Tasks = {t1, t2}
    Boot = Boot
    Closer = Closer
    Nobody = Nobody
    MaxConcurrent = 1
    Frequent = 1
    MaxUses = 2
    Strategies = 2
SPECIFICATION Spec
INVARIANT PermitsBalance
PROPERTIES AloneIsSafe EveryCallEnds DeadChromeReplaced
\* The process may end in a panic.
CHECK_DEADLOCK FALSE
