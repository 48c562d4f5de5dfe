SPECIFICATION RequestsSpec

CONSTANTS
    Root = "/"
    ConfigPath = "/tmp.yaml"
    IndexPath = "/index.md"
    KindOf <- MCKindOf
    ParentOf <- MCParentOf
    Above <- MCAbove
    RenderedOf <- MCRenderedOf
    Accepted <- MCAccepted
    SizeOf <- MCSizeOf
    Embeds <- MCEmbeds
    Relinked <- MCRelinked
    KeyHolder <- MCKeyHolder
    SeedConfig = "yaml"
    SeedIndex = "index"
    Paths = {"/", "/tmp.yaml", "/index.md", "/a", "/a/a.md", "/b.md", "/c.md"}
    Named = {"/a", "/a/a.md", "/b.md", "/c.md"}
    Asked = {"/a", "/b.md"}
    Contents = {"yaml", "index", old, new}
    old = old
    new = new
    Grants = {g1}
    g1 = g1
    Keys = {}
    Clients = {c1}
    c1 = c1
    MaxPages = 9
    MaxDirectories = 9
    MaxRetainedBytes = 99
    MaxCurrentAssetBytes = 99
    MaxEntries = 5
    MaxRevisions = 7

SYMMETRY Interchangeable

INVARIANTS
    ShownTogetherWasTogether
PROPERTIES
    ChangesReplaceWhatWasShown
    BulkStandsInItsOwnWay

CHECK_DEADLOCK FALSE
