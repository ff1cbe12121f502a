SPECIFICATION OrderlySpec
CONSTANTS
    alice = alice
    bob = bob
    p1 = p1
    m1 = m1
    None = None
    Admins <- const_Admins
    Packs <- const_Packs
    Edits <- const_Edits
    Assets <- const_Assets
    Overrides <- first_Version
    MaxVersion = 2
    MaxSnapshots = 2
    CanCrash = TRUE
SYMMETRY Symmetry
INVARIANTS StoresAgree
PROPERTIES RecordedInDraft FrozenVersions
CHECK_DEADLOCK FALSE
