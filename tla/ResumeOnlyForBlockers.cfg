SPECIFICATION Spec
CONSTANTS
    Callers = {c1}
    Catalogue <- ReviewOnly
    Crashable = {}
    Counts = {0, 1}
INVARIANTS
    ResumeOnlyForBlockers
