SPECIFICATION PlacementSpec

CONSTANTS
    Root = "/"
    ConfigPath = "/tmp.yaml"
    IndexPath = "/index.md"
    KindOf <- MCKindOf
    ParentOf <- MCParentOf
    Above <- MCAbove
    RenderedOf <- MCRenderedOf
    Accepted <- MCAccepted
    SizeOf <- MCSizeOf
    Embeds <- MCEmbeds
    Relinked <- MCRelinked
    KeyHolder <- MCKeyHolder
    Slots <- MCSlots
    Asks <- MCAsks
    SeedConfig = "yaml"
    SeedIndex = "index"
    Paths = {"/", "/tmp.yaml", "/index.md", "/inbox", "/inbox/n.md", "/a", "/a/n.md", "/a/n-2.md", "/b.md"}
    Folders = {"/inbox", "/a"}
    Guesses = {"/b.md"}
    Contents = {"yaml", "index", old, new}
    old = old
    new = new
    Texts = {new}
    Grants = {}
    Keys = {k1}
    k1 = k1
    Handlers = {h1, h2}
    h1 = h1
    h2 = h2
    AIMaxCallsPerHour = 1
    MaxPages = 9
    MaxDirectories = 9
    MaxRetainedBytes = 99
    MaxCurrentAssetBytes = 99
    MaxEntries = 6
    MaxRevisions = 7

SYMMETRY Interchangeable

INVARIANTS
    OneDocumentPerRequest
    RetriesReachTheFirst
    BudgetOvershoot
PROPERTIES
    FilingNeverOverwrites
    RefileMovesWhatItRead

CHECK_DEADLOCK FALSE
