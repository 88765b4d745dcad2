SPECIFICATION Spec
CONSTANTS
    Clients = {c1}
    Executor = executor
    Required = {result}
    Volatile = {}
    MaxOutput = 1
    Crashable = {}
PROPERTIES
    StaleLosesNoEvidence
