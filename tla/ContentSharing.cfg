SPECIFICATION Spec

CONSTANTS
    Root = "/"
    ConfigPath = "/tmp.yaml"
    IndexPath = "/index.md"
    KindOf <- MCKindOf
    ParentOf <- MCParentOf
    Above <- MCAbove
    RenderedOf <- MCRenderedOf
    Accepted <- MCAccepted
    SizeOf <- MCSizeOf
    Embeds <- MCEmbeds
    Relinked <- MCRelinked
    KeyHolder <- MCKeyHolder
    SeedConfig = "yaml"
    SeedIndex = "text"
    Paths = {"/", "/tmp.yaml", "/index.md", "/a.md", "/i.png"}
    Contents = {"yaml", "text", "shows", "png"}
    Grants = {g1}
    g1 = g1
    Keys = {"k1", "k2"}
    HeldByLink = {"k2"}
    MaxPages = 9
    MaxDirectories = 9
    MaxRetainedBytes = 99
    MaxCurrentAssetBytes = 99
    MaxEntries = 5
    MaxRevisions = 6

INVARIANTS
    GrantsOpenLivePages
PROPERTIES
    LinksEditTheirDocument
    RevocationIsFinal
    OnlyOwnersApproveAssets
    AtMostOnce

CHECK_DEADLOCK FALSE
