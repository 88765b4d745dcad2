SPECIFICATION Spec
CONSTANTS
    Requests = {r1, r2}
    Profile <- ReviewOfEach
    Machines <- BothOrNone
    None = none
    Callers = {c1, c2}
    Observers = {o1}
    Files = {p, s, n}
    Tracked = {p, s}
    Nested = {n}
    Dirty = {s, n}
    Protected = {p, n}
    Short = {s}
    MaxChanges = 1
    Crashable = {c1, c2}
    Overlap = FALSE
SYMMETRY Symmetry
INVARIANTS
    ForegroundIsJudged
    
PROPERTIES
    ImplementsContract
CHECK_DEADLOCK FALSE
