SPECIFICATION Spec
CONSTANTS
    Peer = {p1}
    LastCheckpoint = 2
    FileSize = 3
    ChunkSize = 2
    MaxMsgs = 2
    MaxRestart = 0
INVARIANT BlocksWithinRetention
