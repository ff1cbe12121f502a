SPECIFICATION Spec
CONSTANTS
    c1 = c1  c2 = c2  alice = alice  bob = bob  tms = tms  corp = corp
    d1 = d1  d2 = d2  m0 = m0  m1 = m1  p1 = p1  s0 = s0  r0 = r0  q0 = q0
    n0 = n0  n1 = n1  n2 = n2
    Clients <- const_Clients
    Users <- const_Users
    Admins <- const_Admins
    Official = tms
    Pack = corp
    Deployments <- const_Deployments
    Codes <- const_Codes
    Names <- const_Names
    Versions = {1, 2}
    SeedRows <- const_SeedRows
    PackRows <- const_PackRows
    LegacyRows <- const_LegacyRows
    LegacyKept <- const_LegacyKept
    MaxRequests = 2
    CanCrash = TRUE
SYMMETRY Symmetry
INVARIANTS FilesOpen SharesHaveAsset MetricsFollowActivation
PROPERTIES RefsKeepResolving
CHECK_DEADLOCK FALSE
