SPECIFICATION Spec
CONSTANTS
    Foci = {"accounts", "sources", "documents", "assets", "layers", "runtime", "chat"}
    Names = {"admin", "user", "ann"}
    Defaults <- MCDefaults
    Editors = {e1, e2}
    Clients = {c1}
    MaxSessions = 1
    Evicted = 1
    MaxEdits = 2
    MaxLogins = 2
    Sources = {s1}
    Parameters = {p1, p2, cleared}
    Cleared = cleared
    Deleters = {d1}
    Lookups = {l1, l2}
    MaxSourceEdits = 3
    MaxExecutors = 3
    Removers = {r1}
    MaxUploads = 2
    Assets = {"m", "s", "t"}
    Bindings = {"tms", "unbound"}
    Unbound = "unbound"
    Repositories <- MCRepositories
    Savers = {v1, v2}
    MaxSaves = 3
    Releases <- MCReleases
    LayerDrafts <- MCLayerDrafts
    Keepers = {k1, k2}
    MaxLayers = 2
    MaxLayerEdits = 6
    Contents <- MCContents
    PackVersions = {1, 2}
    MaxPublished = 2
    Speakers = {"ann", "bob"}
    Posters = {q1}
    Histories <- MCHistories
    MaxChats = 3
    MaxMessages = 3
INVARIANTS
    AccountsSound
    SourcesSound
    ReadyHasFile
    DependenciesAcyclic
    LayersSound
    ResolutionSound
    ChatsOwned
CHECK_DEADLOCK FALSE
