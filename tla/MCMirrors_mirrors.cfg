CONSTANTS
    Texts <- HomeTexts
    Blank = ""
    LinksIn <- HomeLinks
    TermOf <- HomeTerms
    NoTerm = ""
    Groups = {"songs"}
    Artists = {"x", "y"}
    Albums = {"p", "q"}
    CatalogPages = 3
    CacheMax = 1
    Screens <- HomeScreens
    MaxEvents = 6
    Stories <- JobStories
    Capacity = 3
    Buffered = 1
    TailLimit = 2
    ListLimit = 2
    MaxRecords = 5
    MaxRestarts = 1
    ConfigClients = {c1, c2}
    EnvListen = "env"
    MaxPuts = 3
    MaxEdits = 2
    TokenUsers = {u1, u2}
    TokenLife = 4
    Lead = 2
    MaxFetch = 1
    MaxNow = 8
    MaxTokens = 3
    FullMeter = 4
    EventInterval = 2
    Codecs = 2
    MaxMeterTime = 4
    MaxFetches = 2
    v1 = v1
    v2 = v2
    v3 = v3
    w1 = w1
    sa = sa
    sb = sb
    e1 = e1
    e2 = e2
    m1 = m1
    m2 = m2
    NoTag = NoTag
    NoObject = NoObject
    Objects = {v1, v2, v3, w1}
    SourceOf <- Where
    SizeOf <- Sizes
    ETagOf <- ETags
    ModifiedOf <- Dates
    Weak = {e2}
    Modes = {"file", "memory"}
    Resumes = TRUE
    Lax = TRUE
    MaxMemory = 3
    MaxCalls = 3
    MaxObjectChanges = 2
    MaxCrashes = 2
SPECIFICATION MirrorsSpec
INVARIANTS
    HomeHolds StoreHolds NoHoles ConfigHolds TokenHolds MeterSettles WholeObject
CHECK_DEADLOCK FALSE
