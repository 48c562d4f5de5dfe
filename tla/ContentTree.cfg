SPECIFICATION Spec

CONSTANTS
    Root = "/"
    ConfigPath = "/tmp.yaml"
    IndexPath = "/index.md"
    KindOf <- MCKindOf
    ParentOf <- MCParentOf
    Above <- MCAbove
    RenderedOf <- MCRenderedOf
    Accepted <- MCAccepted
    SizeOf <- MCSizeOf
    Embeds <- MCEmbeds
    Relinked <- MCRelinked
    KeyHolder <- MCKeyHolder
    SeedConfig = "yaml"
    SeedIndex = "text"
    Paths = {"/", "/tmp.yaml", "/index.md", "/a", "/b", "/a/b", "/a/b/c.md", "/b.md"}
    Contents = {"yaml", "text", "more"}
    Grants = {}
    Keys = {}
    HeldByLink = {}
    MaxPages = 2
    MaxDirectories = 2
    MaxRetainedBytes = 99
    MaxCurrentAssetBytes = 99
    MaxEntries = 8
    MaxRevisions = 9

INVARIANTS
    TypeOK
    NamespaceUnique
    LiveTree
    RedirectsYield
    RowFollowsHistory
    TreeWithinQuota
PROPERTIES
    StoreImplemented

CHECK_DEADLOCK FALSE
