SPECIFICATION Spec
CONSTANTS
    t1 = t1
    t2 = t2
    t3 = t3
    album = album
    playlist = playlist
    p = p
    q = q
    None = None
    Tracks = {t1, t2, t3}
    Jobs = {album, playlist}
    JobOf <- TwoJobs
    Outputs = {p, q}
    Downloads = 1
    Decrypts = 1
    Setups <- PanicSetups
INVARIANT PermitsReturned
CHECK_DEADLOCK FALSE
