SPECIFICATION Spec
CONSTANTS
    f1 = f1
    f2 = f2
    u1 = u1
    u2 = u2
    u3 = u3
    None = None
    Fields = {f1, f2}
    Targets = {u1, u3}
    TableOf <- MCTableOf
    Verified <- MCVerified
    Metrics <- MCMetrics
    Admins = {a1, a2}
    Required = {f1}
    InitMembers = {u1}
    MaxBatches = 2
    MaxFailures = 1
    Requests = {"mount", "remap", "confirm", "smoke", "activate", "deactivate"}
VIEW WithoutHistory
SYMMETRY AdminSymmetry
INVARIANTS
    ActiveFullyMapped
    SmokeDescribesMappings
PROPERTIES
    ImplementsContract
