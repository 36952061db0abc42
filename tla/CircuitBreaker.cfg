\* Three callers, so that one can sit in the gap while two others open the
\* breaker again; no symmetry, because of the liveness of the contract.
CONSTANTS
    Callers = {c1, c2, c3}
    Threshold = 2
    ResetTimeout = 1
SPECIFICATION Spec
INVARIANT CountIsRun
PROPERTIES TripsOnlyAfterRun ImplementsContract
