SPECIFICATION FairSpec
CONSTANTS
    Clients = {c1}
    Executor = executor
    Required = {result, declared}
    Volatile = {declared}
    MaxOutput = 1
    Crashable = {executor}
INVARIANTS
    SucceededIsProven
    FailureIsDiagnosed
    EventsAreNumbered
PROPERTIES
    RunConcludes
    CrashIsReconciled
