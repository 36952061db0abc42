\* One query beside a direct query and a health check, which disable and
\* enable providers under it.
CONSTANTS
    Providers = {p1, p2}
    Queries = {q1}
    Directs = {d1}
    Checkers = {k1}
    MaxChecks = 1
    None = None
SPECIFICATION Spec
INVARIANTS TypeOK NilNeedsRace
PROPERTIES EveryQueryEnds DisabledComesBack
CHECK_DEADLOCK FALSE
