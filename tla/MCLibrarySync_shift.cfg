SPECIFICATION Spec
CONSTANTS
    s1 = s1
    s2 = s2
    s3 = s3
    s4 = s4
    s5 = s5
    a1 = a1
    a2 = a2
    NoAlbum = NoAlbum
    Songs = {s1, s2, s3, s4, s5}
    AlbumOf <- TwoAlbums
    FirstLibraries <- One
    RefusedSets <- Never
    Changes = {"remove", "removeInScan", "outrun"}
    AnchorSize = 2
    Margin = 1
    PageLimit = 1
    ScanCap = 6
    MaxClientErrorPasses = 3
    MaxUpsets = 0
INVARIANT NothingSkipped
CHECK_DEADLOCK FALSE
