------------------------------ MODULE Chainstate ------------------------------
(***************************************************************************)
(* One Chainstate of the node: the coins cache and the coins database, the *)
(* UTXO MuHash accumulator with its record on disk, the block index in     *)
(* memory and on disk, and the automatic checkpoint snapshots.  cs_main    *)
(* serialises the operations; what interleaves with them is a process      *)
(* crash, possible between any two writes to disk, and the dumptxoutset    *)
(* RPC, which releases cs_main between two blocks.                         *)
(***************************************************************************)
EXTENDS UtxoChain

CONSTANTS
    MaxCrash,            \* bound on the number of crashes
    MaxDump,             \* bound on the number of dumptxoutset rollbacks
    MaxVerify,           \* the highest level VerifyDB is asked for
    CrashInReorgFlush    \* may a crash interrupt the flush of a reorg?

ASSUME BoundAssumption ==
    /\ MaxCrash \in Nat
    /\ MaxDump \in Nat
    /\ MaxVerify \in 0..4
    /\ CrashInReorgFlush \in BOOLEAN

VARIABLES
    pc,        \* what the thread holding cs_main does next
    ret,       \* where FlushStateToDisk returns to
    chain,     \* m_chain.Tip()
    tip,       \* best block of CoinsTip() (of the replay view while replaying)
    cache,     \* the coins CoinsTip() shows
    acc,       \* m_utxo_muhash
    loaded,    \* m_utxo_muhash_loaded
    index,     \* block index in memory: blocks with data, with undo, failed
    db,        \* coins in CoinsDB()
    best,      \* DB_BEST_BLOCK
    headNew,   \* DB_HEAD_BLOCKS[0], NoBlock when the key is absent
    headOld,   \* DB_HEAD_BLOCKS[1]
    recTip,    \* the block hash in the UTXO MuHash record
    recAcc,    \* the accumulator in the UTXO MuHash record
    dindex,    \* block index on disk
    dat,       \* snapshot files: [base, coins]
    sidecar,   \* their .hash files: [base, hash]
    roll,      \* block the dumptxoutset rollback undoes next
    scratch,   \* the coins in its temporary view
    verdict,   \* result of the last VerifyDB
    crashes, dumps

memory  == <<ret, chain, tip, cache, acc, loaded, index>>
coinsdb == <<db, best, headNew, headOld>>
record  == <<recTip, recAcc>>
files   == <<dat, sidecar>>
rpc     == <<roll, scratch, dumps>>
vars == <<pc, memory, coinsdb, record, dindex, files, rpc, verdict, crashes>>

NoIndex == [data |-> {}, undo |-> {}, failed |-> {}]

\* The states in which a thread is inside FlushStateToDisk, WriteAutomatic-
\* Snapshot and ReplayBlocks.
Flushing    == {"flushIndex", "flushCoins", "flushRec"}
Snapshotting == {"snapDump", "snapHash", "snapClean"}
Replaying   == {"back", "fwd", "replayed"}
PC == Flushing \cup Snapshotting \cup Replaying \cup {"ready", "down", "broken"}

\* A fresh node: LoadGenesisBlock stored the genesis block and the first
\* ActivateBestChain connected it, building the accumulator of the empty set.
Init ==
    /\ pc = "ready" /\ ret = "ready"
    /\ chain = Genesis /\ tip = Genesis /\ cache = {}
    /\ acc = Accumulate({}) /\ loaded = TRUE
    /\ index = [NoIndex EXCEPT !.data = {Genesis}]
    /\ db = {} /\ best = NoBlock /\ headNew = NoBlock /\ headOld = NoBlock
    /\ recTip = NoBlock /\ recAcc = Accumulate({})
    /\ dindex = NoIndex
    /\ dat = {} /\ sidecar = {}
    /\ roll = NoBlock /\ scratch = {}
    /\ verdict = "SUCCESS"
    /\ crashes = 0 /\ dumps = 0

-----------------------------------------------------------------------------
(* EnsureUTXOMuHashLoaded.                                                  *)

\* The accumulator afterwards: the one in memory, the one on record if it is
\* the one of the database's best block, else that of a scan of the database.
LoadedMuHash ==
    CASE loaded -> acc
      [] ~loaded /\ recTip # NoBlock /\ recTip = best -> recAcc
      [] OTHER -> Accumulate(db)

\* A rebuilt accumulator is recorded at once, unless the database is in the
\* middle of a flush and has no best block.
EnsureUTXOMuHashLoaded ==
    IF ~loaded /\ recTip # best /\ best # NoBlock
    THEN recTip' = best /\ recAcc' = LoadedMuHash
    ELSE UNCHANGED record

\* Chainstate::UTXOMuHash(), called for a block template (CreateNewBlock,
\* RegenerateUTXOAttestation): loads the accumulator and reads it.
UTXOMuHash ==
    /\ pc = "ready" /\ ~loaded
    /\ EnsureUTXOMuHashLoaded
    /\ acc' = LoadedMuHash /\ loaded' = TRUE
    /\ UNCHANGED <<pc, ret, chain, tip, cache, index, coinsdb, dindex, files,
                   rpc, verdict, crashes>>

-----------------------------------------------------------------------------
(* Blocks arriving, connecting, disconnecting.                              *)

\* The flush that ends ConnectTip and DisconnectTip (IF_NEEDED) and AcceptBlock
\* (NONE) may or may not write (cache size, pruning); m_chain moves after it.
FlushIfNeeded(newTip) ==
    /\ ret' = "ready"
    /\ \/ pc' = "ready" /\ chain' = newTip
       \/ pc' = "flushIndex" /\ UNCHANGED chain

\* AcceptBlock: the block's data is written to a block file.  Blocks of the
\* active chain are not requested again when they were pruned.
AcceptBlock(b) ==
    /\ pc = "ready"
    /\ b \notin index.data \cup index.failed
    /\ b \notin Ancestors[tip] /\ Prev[b] \notin index.failed
    /\ index' = [index EXCEPT !.data = @ \cup {b}]
    /\ FlushIfNeeded(tip)
    /\ UNCHANGED <<tip, cache, acc, loaded, coinsdb, record, dindex, files, rpc,
                   verdict, crashes>>

\* The chains FindMostWorkChain may choose: from the active chain on, every
\* block has its data and none is known to be invalid.
Candidates ==
    {c \in index.data \cup {tip} :
        Ancestors[c] \ Ancestors[tip] \subseteq index.data \ index.failed}

\* FindMostWorkChain.  All blocks are taken to have the same proof of work;
\* the tip keeps its place against a chain with as much work.
FindMostWorkChain ==
    LET work == Max({Height[c] : c \in Candidates})
    IN  IF Height[tip] = work THEN {tip}
        ELSE {c \in Candidates : Height[c] = work}

HasSnapshot(b) == \E d \in dat : d.base = b

\* Mutant: WriteAutomaticSnapshot does not flush before it reads CoinsDB().
ConnectTip_SnapshotUnflushed(b) ==
    /\ pc = "ready"
    /\ b # Genesis /\ Prev[b] = tip
    /\ \E c \in FindMostWorkChain : b \in Ancestors[c]
    /\ ValidateUTXOCheckpoint(b, cache, LoadedMuHash)
    /\ EnsureUTXOMuHashLoaded
    /\ index' = [index EXCEPT !.undo = @ \cup {b}]
    /\ acc' = ConnectMuHash(LoadedMuHash, b) /\ loaded' = TRUE
    /\ cache' = ApplyBlock(cache, b) /\ tip' = b
    /\ IF IsCheckpoint(Height[b]) /\ ~HasSnapshot(b)
       THEN pc' = "snapDump" /\ UNCHANGED <<ret, chain>>
       ELSE FlushIfNeeded(b)
    /\ UNCHANGED <<coinsdb, dindex, files, rpc, verdict, crashes>>

\* ConnectTip when ConnectBlock accepts the block: undo data, accumulator and
\* coins are updated, then a checkpoint block gets its snapshot, for which
\* WriteAutomaticSnapshot forces a flush first, unless it cannot create the file.
ConnectTip(b) ==
    /\ pc = "ready"
    /\ b # Genesis /\ Prev[b] = tip
    /\ \E c \in FindMostWorkChain : b \in Ancestors[c]
    /\ ValidateUTXOCheckpoint(b, cache, LoadedMuHash)
    /\ EnsureUTXOMuHashLoaded
    /\ index' = [index EXCEPT !.undo = @ \cup {b}]
    /\ acc' = ConnectMuHash(LoadedMuHash, b) /\ loaded' = TRUE
    /\ cache' = ApplyBlock(cache, b) /\ tip' = b
    /\ \/ /\ IsCheckpoint(Height[b]) /\ ~HasSnapshot(b)
          /\ pc' = "flushIndex" /\ ret' = "snapDump" /\ UNCHANGED chain
       \/ FlushIfNeeded(b)
    /\ UNCHANGED <<coinsdb, dindex, files, rpc, verdict, crashes>>

\* Mutant: the attestation is recomputed from CoinsDB(), one view too low.
RejectBlock_DatabaseView(b) ==
    /\ pc = "ready"
    /\ b # Genesis /\ Prev[b] = tip
    /\ \E c \in FindMostWorkChain : b \in Ancestors[c]
    /\ ~ValidateUTXOCheckpoint(b, db, LoadedMuHash)
    /\ EnsureUTXOMuHashLoaded
    /\ acc' = LoadedMuHash /\ loaded' = TRUE
    /\ index' = [index EXCEPT !.failed = @ \cup {b}]
    /\ UNCHANGED <<pc, ret, chain, tip, cache, coinsdb, dindex, files, rpc,
                   verdict, crashes>>

\* ConnectTip when the attestation does not validate: InvalidBlockFound.
RejectBlock(b) ==
    /\ pc = "ready"
    /\ b # Genesis /\ Prev[b] = tip
    /\ \E c \in FindMostWorkChain : b \in Ancestors[c]
    /\ ~ValidateUTXOCheckpoint(b, cache, LoadedMuHash)
    /\ EnsureUTXOMuHashLoaded
    /\ acc' = LoadedMuHash /\ loaded' = TRUE
    /\ index' = [index EXCEPT !.failed = @ \cup {b}]
    /\ UNCHANGED <<pc, ret, chain, tip, cache, coinsdb, dindex, files, rpc,
                   verdict, crashes>>

\* DisconnectTip, when a chain that the tip is not on has the most work.
DisconnectTip ==
    /\ pc = "ready"
    /\ tip # Genesis
    /\ \E c \in FindMostWorkChain : tip \notin Ancestors[c]
    /\ tip \in index.data \cap index.undo
    /\ EnsureUTXOMuHashLoaded
    /\ acc' = DisconnectMuHash(LoadedMuHash, cache, tip) /\ loaded' = TRUE
    /\ cache' = UndoBlock(cache, tip) /\ tip' = Prev[tip]
    /\ FlushIfNeeded(Prev[tip])
    /\ UNCHANGED <<index, coinsdb, dindex, files, rpc, verdict, crashes>>

-----------------------------------------------------------------------------
(* FlushStateToDisk, one action per group of writes that is atomic on disk. *)

\* A periodic or forced flush that is not part of ConnectTip/DisconnectTip.
FlushStateToDisk ==
    /\ pc = "ready"
    /\ pc' = "flushIndex" /\ ret' = "ready"
    /\ UNCHANGED <<chain, tip, cache, acc, loaded, index, coinsdb, record,
                   dindex, files, rpc, verdict, crashes>>

\* Mutant: the retention depth is not kept back.
Prunable_NoDepth == {b \in index.data \ {Genesis} : Height[b] <= Height[chain]}

\* The blocks whose files FindFilesToPrune may remove: height-based, with
\* m_chain, which a flush inside ConnectTip or DisconnectTip sees unmoved.
Prunable ==
    {b \in index.data \ {Genesis} : Height[b] <= Height[chain] - MandatoryPruneDepth}

\* Mutant: pruning drops the undo data but still claims the block data.
FlushIndex_UndoOnly ==
    /\ pc = "flushIndex"
    /\ \E pruned \in SUBSET Prunable : index' = [index EXCEPT !.undo = @ \ pruned]
    /\ dindex' = index'
    /\ pc' = "flushCoins"
    /\ UNCHANGED <<ret, chain, tip, cache, acc, loaded, coinsdb, record, files,
                   rpc, verdict, crashes>>

\* Prune some files in the index, then write the block index.
FlushIndex ==
    /\ pc = "flushIndex"
    /\ \E pruned \in SUBSET Prunable :
          index' = [index EXCEPT !.data = @ \ pruned, !.undo = @ \ pruned]
    /\ dindex' = index'
    /\ pc' = "flushCoins"
    /\ UNCHANGED <<ret, chain, tip, cache, acc, loaded, coinsdb, record, files,
                   rpc, verdict, crashes>>

\* Mutants: DB_BEST_BLOCK is not erased; the old head is taken from it by every
\* batch, also when it is gone; the new head is m_chain's tip.
BatchWritePartial_KeepsBest ==
    /\ pc \in {"flushCoins", "replayed"}
    /\ headOld' = IF headNew = NoBlock THEN best ELSE headOld
    /\ headNew' = tip
    /\ \E W \in SUBSET SymDiff(db, cache) : db' = (db \ W) \cup (W \cap cache)
    /\ UNCHANGED <<best, pc, memory, record, dindex, files, rpc, verdict, crashes>>

BatchWritePartial_OldHeadLost ==
    /\ pc \in {"flushCoins", "replayed"}
    /\ headOld' = best /\ headNew' = tip /\ best' = NoBlock
    /\ \E W \in SUBSET SymDiff(db, cache) : db' = (db \ W) \cup (W \cap cache)
    /\ UNCHANGED <<pc, memory, record, dindex, files, rpc, verdict, crashes>>

BatchWritePartial_ChainHead ==
    /\ pc \in {"flushCoins", "replayed"}
    /\ headOld' = IF headNew = NoBlock THEN best ELSE headOld
    /\ headNew' = chain /\ best' = NoBlock
    /\ \E W \in SUBSET SymDiff(db, cache) : db' = (db \ W) \cup (W \cap cache)
    /\ UNCHANGED <<pc, memory, record, dindex, files, rpc, verdict, crashes>>

\* CCoinsViewDB::BatchWrite, a partial batch: DB_BEST_BLOCK gives way to
\* DB_HEAD_BLOCKS, and some of the dirty coins W are written.
BatchWritePartial ==
    /\ pc \in {"flushCoins", "replayed"}
    /\ headOld' = IF headNew = NoBlock THEN best ELSE headOld
    /\ headNew' = tip
    /\ best' = NoBlock
    /\ \E W \in SUBSET SymDiff(db, cache) : db' = (db \ W) \cup (W \cap cache)
    /\ UNCHANGED <<pc, memory, record, dindex, files, rpc, verdict, crashes>>

\* BatchWrite, the last batch: the remaining coins and DB_BEST_BLOCK.  In
\* ReplayBlocks this ends the replay: the cache is then created anew over the
\* database and LoadChainTip sets m_chain.
BatchWriteLast ==
    /\ pc \in {"flushCoins", "replayed"}
    /\ db' = cache /\ best' = tip
    /\ headNew' = NoBlock /\ headOld' = NoBlock
    /\ IF pc = "replayed" THEN pc' = "ready" /\ chain' = tip
                          ELSE pc' = "flushRec" /\ UNCHANGED chain
    /\ UNCHANGED <<ret, tip, cache, acc, loaded, index, record, dindex, files,
                   rpc, verdict, crashes>>

\* Mutant: the record names m_chain's tip, which has not moved yet.
FlushRecord_ChainTip ==
    /\ pc = "flushRec"
    /\ recTip' = IF loaded THEN chain ELSE recTip
    /\ recAcc' = IF loaded THEN acc ELSE recAcc
    /\ pc' = ret /\ ret' = "ready"
    /\ chain' = IF ret = "ready" THEN tip ELSE chain
    /\ UNCHANGED <<tip, cache, acc, loaded, index, coinsdb, dindex, files, rpc,
                   verdict, crashes>>

\* WriteUTXOMuHashState, and back to the caller.
FlushRecord ==
    /\ pc = "flushRec"
    /\ recTip' = IF loaded THEN tip ELSE recTip
    /\ recAcc' = IF loaded THEN acc ELSE recAcc
    /\ pc' = ret /\ ret' = "ready"
    /\ chain' = IF ret = "ready" THEN tip ELSE chain
    /\ UNCHANGED <<tip, cache, acc, loaded, index, coinsdb, dindex, files, rpc,
                   verdict, crashes>>

-----------------------------------------------------------------------------
(* WriteAutomaticSnapshot, after its forced flush.                          *)

\* The hash and the coin count announced: the accumulator's once MuHash
\* attestation is active, else those of a scan of the database.
SnapshotMuHash ==
    IF IsMuhashAttestationActive(Height[tip]) THEN acc ELSE Accumulate(db)

\* Write the coins of the database to a temporary file and rename it.  A coin
\* count that does not match and any error give the snapshot up.
SnapshotDump ==
    /\ pc = "snapDump"
    /\ \/ /\ GetCoinCount(SnapshotMuHash) = Cardinality(db)
          /\ dat' = dat \cup {[base |-> tip, coins |-> db]}
          /\ pc' = "snapHash"
          /\ UNCHANGED <<ret, chain>>
       \/ FlushIfNeeded(tip) /\ UNCHANGED dat
    /\ UNCHANGED <<tip, cache, acc, loaded, index, coinsdb, record, dindex,
                   sidecar, rpc, verdict, crashes>>

\* Write the .hash sidecar; if that fails the snapshot is removed.
SnapshotHash ==
    /\ pc = "snapHash"
    /\ \/ /\ sidecar' = {s \in sidecar : s.base # tip}
                          \cup {[base |-> tip, hash |-> SnapshotMuHash]}
          /\ pc' = "snapClean"
          /\ UNCHANGED <<ret, chain, dat>>
       \/ /\ dat' = {d \in dat : d.base # tip}
          /\ FlushIfNeeded(tip)
          /\ UNCHANGED sidecar
    /\ UNCHANGED <<tip, cache, acc, loaded, index, coinsdb, record, dindex,
                   rpc, verdict, crashes>>

\* Remove every file of the snapshot directory that is not this snapshot's; an
\* error ends that early.
SnapshotClean ==
    /\ pc = "snapClean"
    /\ \E D \in SUBSET {d \in dat : d.base # tip}, S \in SUBSET {s \in sidecar : s.base # tip} :
          dat' = dat \ D /\ sidecar' = sidecar \ S
    /\ FlushIfNeeded(tip)
    /\ UNCHANGED <<tip, cache, acc, loaded, index, coinsdb, record, dindex,
                   rpc, verdict, crashes>>

-----------------------------------------------------------------------------
(* CVerifyDB::VerifyDB.                                                     *)

\* The blocks of m_chain, of a node that is ready.
ActiveChain == Ancestors[tip]

\* The block after b on the active chain.
Next_(b) == CHOOSE x \in ActiveChain : x # Genesis /\ Prev[x] = b

\* The scratch view from which level 3 disconnects b.
VerifyView[b \in ActiveChain] ==
    IF b = tip THEN cache ELSE UndoBlock(VerifyView[Next_(b)], Next_(b))

CleanDisconnect(view, b) ==
    Outs[b] \subseteq view /\ Ins[b] \cap (view \ Outs[b]) = {}

\* The last n blocks of the chain, as far back as there is block data.
VerifyRange(n) ==
    {b \in ActiveChain \ {Genesis} :
        /\ Height[b] > Height[tip] - n
        /\ \A a \in ActiveChain : Height[a] >= Height[b] => a \in index.data}

\* Level 3: every block of the range disconnects cleanly.
VerifyDisconnects(n) ==
    \A b \in VerifyRange(n) : b \in index.undo /\ CleanDisconnect(VerifyView[b], b)

\* Level 4 reconnects the blocks on the scratch view, but ConnectBlock checks
\* the attestation against that view's backend, CoinsTip(), and m_utxo_muhash.
\* (CORRUPTED also stands for the assertion in UpdateCoins that the backend's
\* coins can fail below the MuHash activation height.)
VerifyResult(level, n) ==
    IF /\ level >= 3 => VerifyDisconnects(n)
       /\ level >= 4 => \A b \in VerifyRange(n) :
                           ValidateUTXOCheckpoint(b, cache, LoadedMuHash)
    THEN "SUCCESS" ELSE "CORRUPTED"

\* Both levels leave the accumulator alone (update_muhash = false), except that
\* ConnectBlock loads it.
VerifyDB(level, n) ==
    /\ pc = "ready" /\ tip # Genesis
    /\ verdict' = VerifyResult(level, n)
    /\ IF level >= 4 /\ VerifyRange(n) # {} /\ VerifyDisconnects(n)
       THEN EnsureUTXOMuHashLoaded /\ acc' = LoadedMuHash /\ loaded' = TRUE
       ELSE UNCHANGED <<record, acc, loaded>>
    /\ UNCHANGED <<pc, ret, chain, tip, cache, index, coinsdb, dindex, files,
                   rpc, crashes>>

-----------------------------------------------------------------------------
(* dumptxoutset with a rollback: CreateRolledBackUTXOSnapshot.              *)

\* Flush, and copy the coins database to a temporary one.
DumpBegin ==
    /\ pc = "ready" /\ roll = NoBlock /\ dumps < MaxDump
    /\ tip # Genesis
    /\ dumps' = dumps + 1
    /\ roll' = tip /\ scratch' = cache
    /\ pc' = "flushIndex" /\ ret' = "ready"
    /\ UNCHANGED <<chain, tip, cache, acc, loaded, index, coinsdb, record,
                   dindex, files, verdict, crashes>>

\* Mutant: the tip at the time of the step is undone, not the next block down.
DumpRollback_UndoesTip ==
    /\ pc = "ready" /\ roll # Genesis
    /\ roll \in index.data \cap index.undo
    /\ EnsureUTXOMuHashLoaded
    /\ acc' = DisconnectMuHash(LoadedMuHash, scratch, roll) /\ loaded' = TRUE
    /\ scratch' = UndoBlock(scratch, tip) /\ roll' = Prev[roll]
    /\ UNCHANGED <<pc, ret, chain, tip, cache, index, coinsdb, dindex, files,
                   dumps, verdict, crashes>>

\* Undo one block in the temporary view.  cs_main is held for one block only,
\* and DisconnectBlock is called with its default, update_muhash = true.
DumpRollback ==
    /\ pc = "ready" /\ roll # Genesis
    /\ roll \in index.data \cap index.undo
    /\ EnsureUTXOMuHashLoaded
    /\ acc' = DisconnectMuHash(LoadedMuHash, scratch, roll) /\ loaded' = TRUE
    /\ scratch' = UndoBlock(scratch, roll) /\ roll' = Prev[roll]
    /\ UNCHANGED <<pc, ret, chain, tip, cache, index, coinsdb, dindex, files,
                   dumps, verdict, crashes>>

\* The target is reached (any ancestor may be the target), or a block on the
\* way was pruned and the RPC fails.
DumpEnd ==
    /\ pc = "ready" /\ roll # NoBlock
    /\ roll' = NoBlock /\ scratch' = {}
    /\ UNCHANGED <<pc, memory, coinsdb, record, dindex, files, dumps, verdict,
                   crashes>>

-----------------------------------------------------------------------------
(* Crash, restart and ReplayBlocks.                                         *)

\* Does the flush in progress on disk only extend the chain?
ExtendingFlush ==
    headOld = NoBlock \/ headOld \in Ancestors[headNew]

Crash ==
    /\ pc \notin {"down", "broken"}
    /\ crashes < MaxCrash
    /\ headNew # NoBlock /\ ~CrashInReorgFlush => ExtendingFlush
    /\ crashes' = crashes + 1
    /\ pc' = "down" /\ ret' = "ready"
    /\ chain' = Genesis /\ tip' = Genesis /\ cache' = {}
    /\ acc' = Accumulate({}) /\ loaded' = FALSE
    /\ index' = NoIndex
    /\ roll' = NoBlock /\ scratch' = {} /\ verdict' = "SUCCESS"
    /\ UNCHANGED <<coinsdb, record, dindex, files, dumps>>

\* Mutant: an interrupted first flush, whose old head is null, is not handled.
LoadChainstate_NullHead ==
    /\ pc = "down"
    /\ index' = [dindex EXCEPT !.data = @ \cup {Genesis}]
    /\ cache' = db
    /\ IF headNew # NoBlock
       THEN pc' = "back" /\ tip' = headOld /\ UNCHANGED chain
       ELSE pc' = "ready" /\ tip' = best /\ chain' = best
    /\ UNCHANGED <<ret, acc, loaded, coinsdb, record, dindex, files, rpc, verdict,
                   crashes>>

\* CompleteChainstateInitialization: load the block index, store the genesis
\* block if it is missing, replay an interrupted flush, load the tip.  On an
\* empty database the genesis block is connected again.
LoadChainstate ==
    /\ pc = "down"
    /\ index' = [dindex EXCEPT !.data = @ \cup {Genesis}]
    /\ cache' = db
    /\ CASE headNew # NoBlock ->
              /\ pc' = "back"
              /\ tip' = IF headOld = NoBlock THEN Genesis ELSE headOld
              /\ UNCHANGED <<chain, loaded>>
         [] headNew = NoBlock /\ best # NoBlock ->
              pc' = "ready" /\ tip' = best /\ chain' = best /\ UNCHANGED loaded
         [] OTHER ->
              /\ pc' = "ready" /\ tip' = Genesis /\ chain' = Genesis
              /\ loaded' = TRUE
    /\ UNCHANGED <<ret, acc, coinsdb, record, dindex, files, rpc, verdict,
                   crashes>>

\* One block of "Rollback along the old branch", down to the fork: the first
\* block on the way back from the old tip that is an ancestor of the new one.
\* The genesis block is never disconnected.  DisconnectBlock updates the
\* accumulator here too.
RollbackBlock ==
    /\ pc = "back" /\ tip # Genesis /\ tip \notin Ancestors[headNew]
    /\ IF tip \in index.data \cap index.undo
       THEN /\ EnsureUTXOMuHashLoaded
            /\ acc' = DisconnectMuHash(LoadedMuHash, cache, tip) /\ loaded' = TRUE
            /\ cache' = UndoBlock(cache, tip) /\ tip' = Prev[tip]
            /\ UNCHANGED pc
       ELSE pc' = "broken" /\ UNCHANGED <<record, acc, loaded, cache, tip>>
    /\ UNCHANGED <<ret, chain, index, coinsdb, dindex, files, rpc, verdict,
                   crashes>>

RollbackDone ==
    /\ pc = "back" /\ tip \in Ancestors[headNew]
    /\ pc' = "fwd"
    /\ UNCHANGED <<memory, coinsdb, record, dindex, files, rpc, verdict, crashes>>

\* Mutant: the loop applies the same block for ever.
RollforwardBlock_NoAdvance(b) ==
    /\ pc = "fwd" /\ tip # headNew
    /\ b \in Ancestors[headNew] \ {Genesis} /\ Prev[b] = tip
    /\ IF b \in index.data
       THEN cache' = ApplyBlock(cache, b) /\ UNCHANGED <<pc, tip>>
       ELSE pc' = "broken" /\ UNCHANGED <<cache, tip>>
    /\ UNCHANGED <<ret, chain, acc, loaded, index, coinsdb, record, dindex,
                   files, rpc, verdict, crashes>>

\* RollforwardBlock on the next block towards the new tip; it does not touch
\* the accumulator.
RollforwardBlock(b) ==
    /\ pc = "fwd" /\ tip # headNew
    /\ b \in Ancestors[headNew] \ {Genesis} /\ Prev[b] = tip
    /\ IF b \in index.data
       THEN cache' = ApplyBlock(cache, b) /\ tip' = b /\ UNCHANGED pc
       ELSE pc' = "broken" /\ UNCHANGED <<cache, tip>>
    /\ UNCHANGED <<ret, chain, acc, loaded, index, coinsdb, record, dindex,
                   files, rpc, verdict, crashes>>

ReplayDone ==
    /\ pc = "fwd" /\ tip = headNew
    /\ pc' = "replayed"
    /\ UNCHANGED <<memory, coinsdb, record, dindex, files, rpc, verdict, crashes>>

-----------------------------------------------------------------------------
Flush  == FlushIndex \/ BatchWritePartial \/ BatchWriteLast \/ FlushRecord
Snapshot == SnapshotDump \/ SnapshotHash \/ SnapshotClean
Replay == \/ RollbackBlock \/ RollbackDone \/ ReplayDone
          \/ \E b \in Block : RollforwardBlock(b)
Dump   == DumpBegin \/ DumpRollback \/ DumpEnd

Next ==
    \/ UTXOMuHash
    \/ \E b \in Block : AcceptBlock(b) \/ ConnectTip(b) \/ RejectBlock(b)
    \/ DisconnectTip
    \/ FlushStateToDisk \/ Flush \/ Snapshot
    \/ \E level \in {3, 4} \cap 0..MaxVerify, n \in 1..3 : VerifyDB(level, n)
    \/ Dump
    \/ Crash \/ LoadChainstate \/ Replay

Spec == Init /\ [][Next]_vars

\* A thread inside an operation goes on, and a stopped node is restarted.
Fairness ==
    /\ WF_vars(LoadChainstate)
    /\ WF_vars(Replay)
    /\ WF_vars(FlushIndex \/ BatchWriteLast \/ FlushRecord)
    /\ WF_vars(Snapshot)

FairSpec == Spec /\ Fairness
-----------------------------------------------------------------------------
(* Properties.                                                              *)

IndexType == [data : SUBSET Block, undo : SUBSET Block, failed : SUBSET Block]

\* The variables hold values of their types.
TypeOK ==
    /\ pc \in PC /\ ret \in {"ready", "snapDump"}
    /\ chain \in Block /\ tip \in Block
    /\ cache \in SUBSET Coin /\ db \in SUBSET Coin /\ scratch \in SUBSET Coin
    /\ acc \in [Coin -> Int] /\ recAcc \in [Coin -> Int]
    /\ loaded \in BOOLEAN
    /\ index \in IndexType /\ dindex \in IndexType
    /\ best \in Block \cup {NoBlock}
    /\ headNew \in Block \cup {NoBlock} /\ headOld \in Block \cup {NoBlock}
    /\ recTip \in Block \cup {NoBlock} /\ roll \in Block \cup {NoBlock}
    /\ dat \in SUBSET [base : Block, coins : SUBSET Coin]
    /\ sidecar \in SUBSET [base : Block, hash : [Coin -> Int]]
    /\ verdict \in {"SUCCESS", "CORRUPTED"}
    /\ crashes \in Nat /\ dumps \in Nat

InMemory == pc \in {"ready"} \cup Flushing \cup Snapshotting

\* Whatever was interrupted before, a running node's coins view is the UTXO
\* set of its best block, and a coins database that names a best block holds
\* exactly that block's UTXO set (BatchWrite, ReplayBlocks).
CoinsConsistent ==
    /\ InMemory => cache = UTXO[tip]
    /\ best # NoBlock => db = UTXO[best]

\* A loaded accumulator represents the same coins as CoinsTip() ("representing
\* the same UTXO set as CoinsTip()/CoinsDB() at the chain's current tip").
MuHashLockstep == InMemory /\ loaded => acc = Accumulate(cache)

\* The record on disk is the accumulator of the block it names, even when a
\* crash separated it from the coins batch.
MuHashRecordFaithful == recTip # NoBlock => recAcc = Accumulate(UTXO[recTip])

\* No block with a correct attestation is ever marked invalid: neither a
\* crash nor a reorg makes the node compute a wrong attestation.
HonestBlocksAccepted == \A b \in index.failed \cup dindex.failed : ~IsHonest(b)

\* Every block of the active chain carries the attestation of the UTXO set
\* that the chain really has at that block.
AttestedChain == InMemory => \A b \in Ancestors[tip] : IsHonest(b)

\* The block of an interrupted flush's start.
OldTip == IF headOld = NoBlock THEN Genesis ELSE headOld

\* ReplayBlocks finds the block and undo data it needs: the index and the
\* block files reach the disk before the coins that depend on them, and
\* pruning takes none of the blocks to replay.  It can only be one that is as far
\* below the tip of the interrupted flush as pruning reaches: when no flush was
\* made for that long, because WriteAutomaticSnapshot did not force one.
ReplaySucceeds ==
    pc = "broken" =>
        \E b \in SymDiff(Ancestors[OldTip], Ancestors[headNew]) :
            Height[b] <= Height[headNew] + 1 - MandatoryPruneDepth

\* A snapshot that has its sidecar holds the UTXO set of the block in its name
\* and the sidecar is that set's hash, so a peer that loads it arrives at the
\* accumulator of the chain (WriteAutomaticSnapshot).
SnapshotsFaithful ==
    \A s \in sidecar : \A d \in dat :
        s.base = d.base => /\ d.coins = UTXO[d.base]
                           /\ s.hash = Accumulate(UTXO[d.base])

\* VerifyDB never reports corruption on a database that is not corrupted.
VerifySucceeds == verdict = "SUCCESS"

\* The temporary view of a dumptxoutset rollback is the UTXO set of the block
\* it has reached, although blocks connect and disconnect, are pruned and are
\* flushed between two of its steps (CreateRolledBackUTXOSnapshot).
DumpViewFaithful == roll # NoBlock => scratch = UTXO[roll]

\* Once a flush is interrupted, the database can only be brought to the tip
\* that flush was for: BatchWrite's assert(old_heads[0] == block_hash).
InterruptedFlushKeepsTarget ==
    [][headNew # NoBlock /\ headNew' # NoBlock
         => headNew' = headNew /\ headOld' = headOld]_vars

\* The block a crash takes the node back to: the target of the interrupted
\* flush if there is one, else the database's best block.
DurableTip ==
    IF headNew # NoBlock THEN headNew ELSE IF best # NoBlock THEN best ELSE Genesis

\* The tip and the coins of the running node; while it is down or replaying
\* it counts as being where the replay will take it.
MemTip   == IF InMemory THEN tip ELSE DurableTip
MemCoins == IF InMemory THEN cache ELSE UTXO[DurableTip]

Durable == INSTANCE DurableChain WITH
    mem <- MemTip, coins <- MemCoins, disk <- DurableTip

\* Flushing in batches and replaying an interrupted flush amount to an atomic
\* write: a node that crashes at any point comes back at the tip of the last
\* flush that began to write coins, with that tip's UTXO set.
FlushIsAtomic == Durable!DSpec

\* A crashed node is running again after finitely many steps, or finds that a
\* block it has to replay was pruned (ReplaySucceeds).
Recovers == pc = "down" ~> pc \in {"ready", "broken"}

-----------------------------------------------------------------------------
(* The strengthenings that make the safety properties inductive.            *)

\* S is on the way from A to B: each coin is as in A or as in B.
Between(S, A, B) == A \cap B \subseteq S /\ S \subseteq A \cup B

\* The coins database: no best block while DB_HEAD_BLOCKS is there, and then
\* the coins are on the way between the two heads.
DbInv ==
    /\ headNew = NoBlock => headOld = NoBlock
    /\ headNew # NoBlock =>
          best = NoBlock /\ Between(db, UTXO[OldTip], UTXO[headNew])
    /\ headNew = NoBlock /\ best # NoBlock => db = UTXO[best]
    /\ headNew = NoBlock /\ best = NoBlock => db = {}

\* The coins view, of a running node and of one replaying a flush.
ViewInv ==
    /\ InMemory => cache = UTXO[tip]
    /\ InMemory /\ headNew # NoBlock => pc = "flushCoins" /\ headNew = tip
    /\ pc \in {"flushRec"} \cup Snapshotting => best = tip
    /\ pc \in Replaying => headNew # NoBlock
    /\ pc \in {"back", "fwd"} => Between(cache, UTXO[tip], UTXO[headNew])
    /\ pc = "replayed" => tip = headNew /\ cache = UTXO[tip]

CoinsInv == DbInv /\ ViewInv

\* The accumulator before it is loaded, while it is, and its record.
MuHashInv ==
    /\ InMemory /\ loaded => acc = Accumulate(cache)
    /\ InMemory /\ ~loaded => db = cache
    /\ recTip # NoBlock => recAcc = Accumulate(UTXO[recTip])
    /\ pc = "down" => acc = Accumulate({})
    /\ ret = "snapDump" \/ pc \in Snapshotting => loaded

\* A node replays only flushes that extend the chain, and so never loads the
\* accumulator while it replays.
ExtendingInv ==
    /\ pc \in {"down"} \cup Replaying => ~loaded
    /\ pc \in {"down"} \cup Replaying /\ headNew # NoBlock => ExtendingFlush
    /\ pc = "back" => tip \in Ancestors[headNew]

\* The snapshot files.
FilesInv ==
    /\ \A d \in dat : d.coins = UTXO[d.base]
    /\ \A s \in sidecar : s.hash = Accumulate(UTXO[s.base])

\* The block whose coins the database had before the flush in progress, if any.
BaseTip ==
    IF headNew # NoBlock THEN OldTip ELSE IF best # NoBlock THEN best ELSE Genesis

\* Block b is so far below height h that pruning may have taken it.
Deep(b, h) == Height[b] <= h - MandatoryPruneDepth

\* The chain has undo data wherever it has block data.
HasUndo(b, idx) == Ancestors[b] \cap idx.data \subseteq idx.undo \cup {Genesis}

\* Block data to go from one block to another, undo data for the way back; what is
\* missing is deep below h.
HasPath(from, to, idx, h) ==
    /\ \A b \in Ancestors[to] \ Ancestors[from] : b \in idx.data \/ Deep(b, h)
    /\ \A b \in Ancestors[from] \ Ancestors[to] : b \in idx.data \cap idx.undo \/ Deep(b, h)

\* Of a running node, the blocks between the database and the tip: pruning waits for
\* the next flush, which uses the height of a tip that is at most one block off.
BlockFilesInv ==
    /\ pc = "ready" => chain = tip
    /\ InMemory => Height[chain] <= Height[tip] + 1
    /\ InMemory => HasUndo(tip, index) /\ HasUndo(BaseTip, index)
    /\ InMemory => HasPath(BaseTip, tip, index, IF pc = "flushCoins" THEN Height[chain] ELSE 0)
    /\ pc = "flushCoins" => dindex = index

\* On disk, the blocks of the interrupted flush.
BlockFilesOnDisk ==
    /\ HasUndo(BaseTip, dindex)
    /\ headNew # NoBlock => /\ HasUndo(headNew, dindex)
                            /\ HasPath(OldTip, headNew, dindex, Height[headNew] + 1)

\* The replay goes back to the last common block, and from there to the new tip.
ReplayPosition ==
    /\ pc \in Replaying => index = [dindex EXCEPT !.data = @ \cup {Genesis}]
    /\ pc \in {"back", "fwd"} => Ancestors[OldTip] \cap Ancestors[headNew] \subseteq Ancestors[tip]
    /\ pc = "back" => tip \in Ancestors[OldTip]
    /\ pc = "fwd" => tip \in Ancestors[headNew]

ReplayInv == BlockFilesInv /\ BlockFilesOnDisk /\ ReplayPosition /\ ReplaySucceeds
=============================================================================
