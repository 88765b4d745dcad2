SPECIFICATION Spec
CONSTANTS
    Callers = {c1, c2}
    Catalogue <- Rivals
    Crashable = {c1}
    Counts = {}
INVARIANTS
    SuccessIsEarned
PROPERTIES
    ImplementsOnce
