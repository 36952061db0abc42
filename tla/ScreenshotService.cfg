\* Two pages that differ in their selectors only and one of another domain, two permits, two seconds.
CONSTANTS
    Requests = {r1, r2, r3}
    Pages = {p, q, other}
    Alike = {p, q}
    MaxConcurrent = 2
    MaxSecond = 1
    None = None
SYMMETRY Symmetry
SPECIFICATION Spec
INVARIANTS PictureOfRequest AloneShowsOwnPage
CHECK_DEADLOCK FALSE
