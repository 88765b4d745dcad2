SPECIFICATION Spec
CONSTANTS
    r1 = r1
    r2 = r2
    w1 = w1
    w2 = w2
    None = none
    Runs = {r1, r2}
    Workspaces = {w1, w2}
    Fresh = {}
    Home <- HomeOfBoth
    Phases = {"asking", "failed", "done"}
    ReportOf <- ReportOfEach
    Limit = 2
    Workers = {"ann"}
    TaskIds = {"t1"}
    Paths = {"result", "plan", "events"}
    MaxActions = 3
    MaxOpens = 1
    MaxFailures = 0
INVARIANTS
    AttentionOpensItsRun
CHECK_DEADLOCK FALSE
