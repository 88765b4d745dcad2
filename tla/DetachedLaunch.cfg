SPECIFICATION FairSpec
CONSTANTS
    Starters = {s1, s2, s3}
    Definitions = {d1, d2}
    None = none
    Crashable = {s1, s2}
INVARIANTS
    OneWorker
    WorkIsRecorded
PROPERTIES
    ImplementsContract
    EnvelopeGoesOn
    LaunchConcludes
CHECK_DEADLOCK FALSE
