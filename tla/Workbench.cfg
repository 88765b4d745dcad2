SPECIFICATION FairSpec
CONSTANTS
    r1 = r1
    r2 = r2
    w1 = w1
    w2 = w2
    None = none
    Runs = {r1, r2}
    Workspaces = {w1, w2}
    Fresh = {r2}
    Home <- HomeOfBoth
    Phases = {"busy", "done"}
    ReportOf <- ReportOfEach
    Limit = 1
    Workers = {"ann"}
    TaskIds = {"t1"}
    Paths = {"result", "plan", "events"}
    MaxActions = 3
    MaxOpens = 2
    MaxFailures = 1
INVARIANTS
    OneLoadAtATime
PROPERTIES
    ScreenCatchesUp
    InspectionIsAnswered
CHECK_DEADLOCK FALSE
