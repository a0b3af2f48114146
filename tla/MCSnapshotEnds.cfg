SPECIFICATION FairSpec
CONSTANTS
    Peer = {p1}
    LastCheckpoint = 1
    FileSize = 3
    ChunkSize = 2
    MaxMsgs = 1
    MaxRestart = 0
PROPERTY DownloadEnds
