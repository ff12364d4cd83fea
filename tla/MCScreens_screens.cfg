CONSTANTS
    j1 = j1
    j2 = j2
    Jobs = {j1, j2}
    Setups <- MCSetups
    Covers = {"x", "y"}
    Rendition <- OneRendition
    Decoders = {"f"}
    NoDecoder = "none"
    MaxPlayers = 1
    OpenSlots = 2
    RetryAfter = 2
    DirLimit = 0
    Showings <- MCShowings
    Addresses = {"a", "b"}
    Nowhere = ""
    Tools = {"ffmpeg", "QEMU"}
    FFmpegs = {"found", "given"}
    FindIt = "found"
    Screenings <- MCScreenings
SPECIFICATION ScreensSpec
INVARIANTS FeedHolds PlayersHold SetupHolds
CHECK_DEADLOCK FALSE
