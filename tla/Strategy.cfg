SPECIFICATION FairSpec
CONSTANTS
    Callers = {c1}
    Catalogue <- Everything
    Crashable = {c1}
    Counts = {0, 1}
INVARIANTS
    TypeOK
    SuccessIsEarned
    RunsAreJustified
    LogFollowsRecord
PROPERTIES
    ExecuteAdvances
    ImplementsContract
    ExecuteConcludes
