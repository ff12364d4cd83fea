SPECIFICATION CheckpointsSpec
CONSTANTS
    s1 = s1
    s2 = s2
    s3 = s3
    s4 = s4
    s5 = s5
    a1 = a1
    a2 = a2
    NoAlbum = NoAlbum
    Songs = {s1, s2, s3, s4}
    AlbumOf <- TwoAlbums
    FirstLibraries <- Short
    RefusedSets <- OneOrBoth
    Changes = {"remove"}
    AnchorSize = 2
    Margin = 1
    PageLimit = 1
    ScanCap = 4
    MaxClientErrorPasses = 3
    MaxUpsets = 1
    Size = 4
    Chunk = 2
    Conns = 2
    Servers = {"honors", "ignores", "misplaces"}
    MaxFaults = 2
    MaxTears = 1
    MaxServerChanges = 1
    MaxBackends = 5
    MaxGen = 3
    Scripts <- AllScripts
INVARIANTS AnchorStands ResumesRight OneBackend
PROPERTIES AnchorCatchesUp ComputerServed
CHECK_DEADLOCK FALSE
