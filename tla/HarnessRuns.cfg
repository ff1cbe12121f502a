SPECIFICATION FairSpec
CONSTANTS
    t1 = t1
    t2 = t2
    u1 = u1
    u2 = u2
    k1 = k1
    metric = metric
    report = report
    None = None
    Threads = {t1, t2}
    Askers = {t1}
    Users = {u1, u2}
    Assets = {metric, report}
    ExecuteTool <- MCExecuteTool
    Tokens = {k1}
    ModelTools <- MCModelTools
    Costs = {3}
    MaxSteps = 4
    MaxElapsed = 2
    MaxCost = 7
    PlanTime = 1
    ToolTime = 1
INVARIANTS
    SavedOnce
    WithinBudget
    NamedAssetForced
PROPERTIES
    RunsEnd
