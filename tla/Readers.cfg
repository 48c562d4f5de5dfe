SPECIFICATION ReadersSpec

CONSTANTS
    Root = "/"
    ConfigPath = "/tmp.yaml"
    IndexPath = "/index.md"
    KindOf <- MCKindOf
    ParentOf <- MCParentOf
    Above <- MCAbove
    RenderedOf <- MCRenderedOf
    Accepted <- MCAccepted
    SizeOf <- MCSizeOf
    Embeds <- MCEmbeds
    Relinked <- MCRelinked
    KeyHolder <- MCKeyHolder
    SeedConfig = "yaml"
    SeedIndex = "index"
    Paths = {"/", "/tmp.yaml", "/index.md", "/a", "/a/a.md", "/i.png", "/a/i.png"}
    Contents = {"yaml", "index", "often", "png"}
    Grants = {}
    Keys = {}
    MaxPages = 9
    MaxDirectories = 9
    MaxRetainedBytes = 99
    MaxCurrentAssetBytes = 99
    MaxEntries = 6
    MaxRevisions = 6
    Readers = {r1}
    r1 = r1
    Addresses = {"/", "/a", "/a/", "/a/a", "/i.png", "/a/i.png"}
    PageAt <- MCPageAt
    OtherAt <- MCOtherAt
    IsDirURL <- MCIsDirURL
    SlashForm <- MCSlashForm
    AddressOf <- MCAddressOf
    PlaceOf <- MCPlaceOf
    RankOf <- MCRankOf
    BestRank = 1
    Matching <- MCMatching
    PathRank = 1
    Limit = 1
    PlainStems = {"a", "b", "index", "search", "tmp"}
    OtherStems = {"Upper", "o:code"}
    ReservedRoot <- MCReservedRoot
    TextExtensions = {"json", "yaml"}
    BinaryExtensions = {"png"}
    OtherExtensions = {"zip"}
    MaxPathDepth = 2

INVARIANTS
    LookupsMissNothing
    TagIsOfWhatWasShown
    CrawlsAreComplete
    ParentsAreValid
    EntriesAnswerAtTheirAddresses
PROPERTIES
    RequestsEnd
