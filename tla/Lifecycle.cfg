\* Two workers; the process ends.
CONSTANTS
    Tasks = {r1, r2}
    NumWorkers = 2
    Idle = Idle
    Exited = Exited
SPECIFICATION LifeSpec
INVARIANTS TaskInOnePlace ServicesOutliveTasks StatusNotWritten
PROPERTY ShutdownCompletes
CHECK_DEADLOCK FALSE
