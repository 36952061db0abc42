\* Windows and minutes of two ticks, tokens that live for three, seconds of two.
CONSTANTS
    Issues = {i1, i2}
    Requests = {r1, r2}
    MaxTokens = 1
    Minute = 2
    TokenExpiration = 3
    Limit = 1
    Window = 2
    Second = 2
    MaxTime = 5
    None = None
SYMMETRY Symmetry
SPECIFICATION Spec
INVARIANTS TypeOK TokenOnce TokenBound WindowBound
CHECK_DEADLOCK FALSE
