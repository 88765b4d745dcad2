SPECIFICATION Spec
CONSTANTS
    Clients = {c1, c2}
    Executor = executor
    Required = {result}
    Volatile = {}
    MaxOutput = 0
    Crashable = {c1, c2, executor}
SYMMETRY ClientSymmetry
INVARIANTS
    StaleMeansGone
    CancelledWasSignalled
    DigestCoversVerification
PROPERTIES
    CancellationSticks
    ImplementsContract
