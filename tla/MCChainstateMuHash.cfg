SPECIFICATION Spec
CONSTANTS
    g = g  a1 = a1  a2 = a2  a3 = a3  b2 = b2  b3 = b3  b4 = b4  x3 = x3
    none = none  stripped = stripped
    Block = {g, a1, a2, a3, b2, b3, b4, x3}
    Genesis = g  NoBlock = none  Prev <- MCPrev  Height <- MCHeight
    Coin <- MCCoin  Ins <- MCIns  Outs <- MCOuts  AttOuts <- MCAttOuts
    UTXO <- MCUTXO  Att <- MCAtt
    MuhashAttestationActivationHeight = 2
    MandatoryPruneDepth = 3
    MaxCrash = 1  MaxDump = 0  MaxVerify = 3  CrashInReorgFlush = FALSE
INVARIANTS TypeOK MuHashLockstep MuHashRecordFaithful HonestBlocksAccepted
    AttestedChain SnapshotsFaithful
CHECK_DEADLOCK FALSE
