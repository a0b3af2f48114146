SPECIFICATION FairSpec
CONSTANTS
    Peer = {p1}
    LastCheckpoint = 2
    FileSize = 3
    ChunkSize = 2
    MaxMsgs = 1
    MaxRestart = 1
INVARIANTS TypeOK 
PROPERTY DownloadEndsWhileNeeded
