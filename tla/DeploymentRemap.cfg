SPECIFICATION Spec
CONSTANTS
    f1 = f1
    f2 = f2
    u1 = u1
    u2 = u2
    u3 = u3
    None = None
    Fields = {f1, f2}
    Targets = {u1, u2, u3}
    TableOf <- MCTableOf
    Verified <- MCVerified
    Metrics <- MCMetrics
    Admins = {a1}
    Required = {f1, f2}
    InitMembers = {u1, u2}
    MaxBatches = 2
    MaxFailures = 1
    Requests = {"mount", "remap", "confirm", "deactivate"}
PROPERTIES
    ConfirmationTakesEffect
