\* The pool may be stopped and the process may die: the system can end.
CONSTANTS
    Tasks = {r1, r2, r3}
    NumWorkers = 1
    Idle = Idle
    Exited = Exited
SPECIFICATION Spec
INVARIANTS TypeOK OnlyTimeoutsCloseEarly RefusedNeverRuns AnswerIsFromTask
PROPERTY EveryRequestAnswered
CHECK_DEADLOCK FALSE
