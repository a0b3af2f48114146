----------------------------- MODULE ReplayProofs -----------------------------
(***************************************************************************)
(* What the block index on disk and in memory owes to the coins database:  *)
(* that an interrupted flush can be replayed and that VerifyDB finds what  *)
(* it needs, for every block tree.  Also that the active chain was         *)
(* attested block by block, that a rolled-back dump is of the block it has *)
(* reached, and that a Chainstate implements DurableChain: flushing in     *)
(* batches, crashing and replaying behave as an atomic write of the tip,   *)
(* and an interrupted flush keeps its target.                              *)
(***************************************************************************)
EXTENDS ChainstateProofs

-----------------------------------------------------------------------------
(* Block data on the way from the database to the tip.                      *)

\* More block and undo data is as good.
LEMMA MoreFiles ==
    ASSUME NEW from, NEW to, NEW h, NEW idx, NEW idx2, HasPath(from, to, idx, h),
           idx.data \subseteq idx2.data, idx.undo \subseteq idx2.undo
    PROVE  HasPath(from, to, idx2, h)
BY DEF HasPath

\* From a block to itself there is no way to go.
LEMMA NoPath == ASSUME NEW b, NEW idx, NEW h PROVE HasPath(b, b, idx, h)
BY DEF HasPath

\* No block is below height 0.
LEMMA NotDeep == ASSUME NEW b \in Block PROVE ~Deep(b, 0)
<1>1. Height[b] \in Nat /\ MandatoryPruneDepth \in Nat \ {0}
  BY BlockAssumption
<1> QED BY <1>1 DEF Deep

\* A step to a state of a running node, other than in the middle of a flush, that
\* writes nothing to disk.
LEMMA RunningStep ==
    ASSUME BlockFilesOnDisk, UNCHANGED <<coinsdb, dindex>>,
           pc' \in {"ready", "flushIndex", "flushRec"} \cup Snapshotting,
           pc' = "ready" => chain' = tip', Height[chain'] <= Height[tip'] + 1,
           HasUndo(tip', index'), HasUndo(BaseTip, index'), HasPath(BaseTip, tip', index', 0)
    PROVE  ReplayInv'
<1>1. BaseTip' = BaseTip /\ OldTip' = OldTip /\ headNew' = headNew /\ dindex' = dindex
  BY DEF BaseTip, OldTip, coinsdb
<1>2. BlockFilesOnDisk'
  BY <1>1 DEF BlockFilesOnDisk
<1>3. pc' \notin {"flushCoins", "broken", "back", "fwd"} \cup Replaying
  BY DEF Snapshotting, Replaying
<1>4. BlockFilesInv'
  BY <1>1, <1>3 DEF BlockFilesInv
<1>5. ReplayPosition' /\ ReplaySucceeds'
  BY <1>3 DEF ReplayPosition, ReplaySucceeds
<1> QED BY <1>2, <1>4, <1>5 DEF ReplayInv

\* What the invariants say of a running node outside a flush.
LEMMA WhenReady ==
    ASSUME TypeOK, ReplayInv, pc \in {"ready", "flushIndex"}
    PROVE  /\ BlockFilesOnDisk /\ tip \in Block /\ chain \in Block /\ BaseTip \in Block
           /\ pc = "ready" => chain = tip
           /\ Height[tip] \in Nat /\ Height[chain] \in Nat /\ Height[chain] <= Height[tip] + 1
           /\ HasUndo(tip, index) /\ HasUndo(BaseTip, index) /\ HasPath(BaseTip, tip, index, 0)
<1>1. tip \in Block /\ chain \in Block /\ BaseTip \in Block
  BY BlockAssumption DEF TypeOK, BaseTip, OldTip
<1>2. Height[tip] \in Nat /\ Height[chain] \in Nat
  BY <1>1, BlockAssumption
<1>3. InMemory /\ pc # "flushCoins"
  BY DEF InMemory, Flushing
<1> QED BY <1>1, <1>2, <1>3 DEF ReplayInv, BlockFilesInv

\* The flush at the end of a step of ActivateBestChain leaves m_chain at most one
\* block off.
LEMMA FlushMoves ==
    ASSUME NEW b, FlushIfNeeded(b), b = tip', Height[tip'] \in Nat, Height[chain] <= Height[tip'] + 1
    PROVE  /\ pc' \in {"ready", "flushIndex"} /\ (pc' = "ready" => chain' = tip')
           /\ Height[chain'] <= Height[tip'] + 1
BY DEF FlushIfNeeded

\* A block that arrives is not one that the database needs and pruning took.
LEMMA ReplayAccept ==
    ASSUME TypeOK, ReplayInv, NEW b \in Block, AcceptBlock(b) PROVE ReplayInv'
<1>1. /\ pc = "ready" /\ b \notin index.data /\ b \notin Ancestors[tip]
      /\ FlushIfNeeded(tip) /\ tip' = tip /\ UNCHANGED <<coinsdb, dindex>>
      /\ index'.data = index.data \cup {b} /\ index'.undo = index.undo
  BY DEF AcceptBlock, TypeOK, IndexType
<1>2. /\ BlockFilesOnDisk /\ tip \in Block /\ BaseTip \in Block /\ chain = tip
      /\ Height[tip] \in Nat /\ Height[chain] <= Height[tip] + 1
      /\ HasUndo(tip, index) /\ HasUndo(BaseTip, index) /\ HasPath(BaseTip, tip, index, 0)
  BY <1>1, WhenReady
<1>3. b \notin Ancestors[BaseTip]
  BY <1>1, <1>2, NotDeep DEF HasPath
<1>4. HasUndo(tip', index') /\ HasUndo(BaseTip, index')
  BY <1>1, <1>2, <1>3 DEF HasUndo
<1>5. HasPath(BaseTip, tip', index', 0)
  BY <1>1, <1>2, MoreFiles
<1>6. /\ pc' \in {"ready", "flushIndex"} /\ (pc' = "ready" => chain' = tip')
      /\ Height[chain'] <= Height[tip'] + 1
  BY <1>1, <1>2, FlushMoves
<1> QED BY <1>1, <1>2, <1>4, <1>5, <1>6, RunningStep

\* A rejected block only gets a flag.
LEMMA ReplayReject ==
    ASSUME TypeOK, ReplayInv, NEW b \in Block, RejectBlock(b) PROVE ReplayInv'
<1>1. /\ pc = "ready" /\ pc' = pc /\ chain' = chain /\ tip' = tip /\ UNCHANGED <<coinsdb, dindex>>
      /\ index'.data = index.data /\ index'.undo = index.undo
  BY DEF RejectBlock, TypeOK, IndexType
<1>2. /\ BlockFilesOnDisk /\ chain = tip /\ Height[chain] <= Height[tip] + 1
      /\ HasUndo(tip, index) /\ HasUndo(BaseTip, index) /\ HasPath(BaseTip, tip, index, 0)
  BY <1>1, WhenReady
<1>3. HasUndo(tip', index') /\ HasUndo(BaseTip, index')
  BY <1>1, <1>2 DEF HasUndo
<1>4. HasPath(BaseTip, tip', index', 0)
  BY <1>1, <1>2, MoreFiles
<1> QED BY <1>1, <1>2, <1>3, <1>4, RunningStep

\* A block that is connected has its data and gets its undo data.
LEMMA ReplayConnect ==
    ASSUME TypeOK, ReplayInv, NEW b \in Block, ConnectTip(b) PROVE ReplayInv'
<1>1. /\ pc = "ready" /\ b \in Block \ {Genesis} /\ Prev[b] = tip
      /\ \E c \in FindMostWorkChain : b \in Ancestors[c]
      /\ tip' = b /\ UNCHANGED <<coinsdb, dindex>>
      /\ index'.data = index.data /\ index'.undo = index.undo \cup {b}
      /\ FlushIfNeeded(b) \/ (pc' = "flushIndex" /\ chain' = chain)
  BY DEF ConnectTip, TypeOK, IndexType
<1>2. /\ BlockFilesOnDisk /\ tip \in Block /\ BaseTip \in Block /\ chain = tip
      /\ Height[tip] \in Nat /\ Height[chain] <= Height[tip] + 1
      /\ HasUndo(tip, index) /\ HasUndo(BaseTip, index) /\ HasPath(BaseTip, tip, index, 0)
  BY <1>1, WhenReady
<1>3. /\ Ancestors[b] = {b} \cup Ancestors[tip] /\ b \notin Ancestors[tip]
      /\ Height[b] = Height[tip] + 1
  BY <1>1, AncestorsUnfold, NotItsParents, BlockAssumption
<1>4. b \in index.data
  BY <1>1, <1>3 DEF FindMostWorkChain, Candidates
<1>5. HasUndo(tip', index') /\ HasUndo(BaseTip, index')
  BY <1>1, <1>2, <1>3 DEF HasUndo
<1>6. HasPath(BaseTip, tip', index', 0)
  BY <1>1, <1>2, <1>3, <1>4 DEF HasPath
<1>7. Height[tip'] \in Nat /\ Height[chain] <= Height[tip'] + 1
  BY <1>1, <1>2, <1>3
<1>8. /\ pc' \in {"ready", "flushIndex"} /\ (pc' = "ready" => chain' = tip')
      /\ Height[chain'] <= Height[tip'] + 1
  <2>1. CASE FlushIfNeeded(b)
    BY <1>1, <1>7, <2>1, FlushMoves
  <2>2. CASE pc' = "flushIndex" /\ chain' = chain
    BY <1>7, <2>2
  <2> QED BY <1>1, <2>1, <2>2
<1> QED BY <1>1, <1>2, <1>5, <1>6, <1>8, RunningStep

\* A block that is disconnected has its data and undo data.
LEMMA ReplayDisconnect ==
    ASSUME TypeOK, ReplayInv, DisconnectTip PROVE ReplayInv'
<1>1. /\ pc = "ready" /\ tip \in index.data \cap index.undo /\ tip # Genesis
      /\ tip' = Prev[tip] /\ FlushIfNeeded(Prev[tip]) /\ index' = index
      /\ UNCHANGED <<coinsdb, dindex>>
  BY DEF DisconnectTip
<1>2. /\ BlockFilesOnDisk /\ tip \in Block /\ BaseTip \in Block /\ chain = tip
      /\ Height[tip] \in Nat
      /\ HasUndo(tip, index) /\ HasUndo(BaseTip, index) /\ HasPath(BaseTip, tip, index, 0)
  BY <1>1, WhenReady
<1>3. /\ Ancestors[tip] = {tip} \cup Ancestors[Prev[tip]]
      /\ Height[tip] = Height[Prev[tip]] + 1 /\ Height[Prev[tip]] \in Nat
  BY <1>1, <1>2, AncestorsUnfold, BlockAssumption
<1>4. HasUndo(tip', index')
  BY <1>1, <1>2, <1>3 DEF HasUndo
<1>5. HasPath(BaseTip, tip', index', 0)
  BY <1>1, <1>2, <1>3 DEF HasPath
<1>6. Height[tip'] \in Nat /\ Height[chain] <= Height[tip'] + 1
  BY <1>1, <1>2, <1>3
<1>7. /\ pc' \in {"ready", "flushIndex"} /\ (pc' = "ready" => chain' = tip')
      /\ Height[chain'] <= Height[tip'] + 1
  BY <1>1, <1>6, FlushMoves
<1> QED BY <1>1, <1>2, <1>4, <1>5, <1>7, RunningStep

\* A path that misses only blocks deep below h misses only blocks deep below any
\* greater height.
LEMMA DeeperPath ==
    ASSUME NEW from \in Block, NEW to \in Block, NEW idx, NEW h \in Int, NEW k \in Int,
           HasPath(from, to, idx, h), h <= k
    PROVE  HasPath(from, to, idx, k)
<1>1. ASSUME NEW b \in Block, Deep(b, h) PROVE Deep(b, k)
  <2>1. Height[b] \in Nat /\ MandatoryPruneDepth \in Nat \ {0}
    BY BlockAssumption
  <2> QED BY <1>1, <2>1 DEF Deep
<1>2. Ancestors[from] \subseteq Block /\ Ancestors[to] \subseteq Block
  BY AncestorsAre
<1> QED BY <1>1, <1>2 DEF HasPath

\* FlushStateToDisk, UTXOMuHash, VerifyDB and the dump touch no block file.
LEMMA ReplayQuiet ==
    ASSUME TypeOK, ReplayInv, pc = "ready", pc' \in {"ready", "flushIndex"},
           UNCHANGED <<chain, tip, index, coinsdb, dindex>>
    PROVE  ReplayInv'
<1>1. /\ BlockFilesOnDisk /\ chain = tip /\ Height[chain] <= Height[tip] + 1
      /\ HasUndo(tip, index) /\ HasUndo(BaseTip, index) /\ HasPath(BaseTip, tip, index, 0)
  BY WhenReady
<1>2. /\ tip' = tip /\ chain' = chain /\ index' = index
  OBVIOUS
<1> QED BY <1>1, <1>2, RunningStep

\* Pruning takes blocks deep below m_chain's tip only, with their undo data, before the
\* index is written.
LEMMA ReplayFlushIndex ==
    ASSUME TypeOK, CoinsInv, ReplayInv, FlushIndex PROVE ReplayInv'
<1>1. PICK pruned \in SUBSET Prunable :
        index' = [index EXCEPT !.data = @ \ pruned, !.undo = @ \ pruned]
  BY DEF FlushIndex
<1>2. /\ pc = "flushIndex" /\ pc' = "flushCoins" /\ dindex' = index'
      /\ UNCHANGED <<chain, tip, best, headNew, headOld>>
  BY DEF FlushIndex, coinsdb
<1>3. index'.data = index.data \ pruned /\ index'.undo = index.undo \ pruned
  BY <1>1 DEF TypeOK, IndexType
<1>4. \A b \in pruned : Deep(b, Height[chain])
  BY DEF Prunable, Deep
<1>5. /\ tip \in Block /\ BaseTip \in Block
      /\ Height[tip] \in Nat /\ Height[chain] \in Nat /\ Height[chain] <= Height[tip] + 1
      /\ HasUndo(tip, index) /\ HasUndo(BaseTip, index) /\ HasPath(BaseTip, tip, index, 0)
  BY <1>2, WhenReady
<1>6. BaseTip' = BaseTip /\ OldTip' = OldTip /\ headNew' = headNew
  BY <1>2 DEF BaseTip, OldTip
<1>7. HasUndo(tip, index') /\ HasUndo(BaseTip, index')
  BY <1>3, <1>5 DEF HasUndo
<1>8. HasPath(BaseTip, tip, index', Height[chain])
  <2>1. HasPath(BaseTip, tip, index, Height[chain])
    BY <1>5, DeeperPath
  <2> QED BY <2>1, <1>3, <1>4 DEF HasPath
<1>9. BlockFilesInv'
  BY <1>2, <1>5, <1>6, <1>7, <1>8 DEF BlockFilesInv
<1>10. BlockFilesOnDisk'
  <2>1. headNew' = NoBlock
    BY <1>2 DEF CoinsInv, ViewInv, InMemory, Flushing
  <2> QED BY <2>1, <1>2, <1>6, <1>7 DEF BlockFilesOnDisk
<1>11. ReplayPosition' /\ ReplaySucceeds'
  BY <1>2 DEF ReplayPosition, ReplaySucceeds, Replaying
<1> QED BY <1>9, <1>10, <1>11 DEF ReplayInv

\* The first batch records the path: from the old best block to the tip.
LEMMA ReplayBatchPartial ==
    ASSUME TypeOK, CoinsInv, ReplayInv, BatchWritePartial PROVE ReplayInv'
<1>1. /\ pc \in {"flushCoins", "replayed"} /\ pc' = pc
      /\ headOld' = (IF headNew = NoBlock THEN best ELSE headOld) /\ headNew' = tip
      /\ UNCHANGED <<chain, tip, index, dindex>>
  BY DEF BatchWritePartial, memory
<1>2. tip \in Block /\ chain \in Block /\ NoBlock \notin Block
  BY BlockAssumption DEF TypeOK
<1>3. Height[tip] \in Nat /\ Height[chain] \in Nat
  BY <1>2, BlockAssumption
<1>4. BaseTip \in Block
  BY BlockAssumption DEF TypeOK, BaseTip, OldTip
<1>5. BaseTip' = BaseTip /\ OldTip' = BaseTip
  BY <1>1, <1>2 DEF BaseTip, OldTip
<1>6. CASE pc = "flushCoins"
  <2>1. /\ Height[chain] <= Height[tip] + 1
        /\ HasUndo(tip, index) /\ HasUndo(BaseTip, index)
        /\ HasPath(BaseTip, tip, index, Height[chain]) /\ dindex = index
    BY <1>6 DEF ReplayInv, BlockFilesInv, InMemory, Flushing
  <2>2. BlockFilesInv'
    BY <1>1, <1>5, <1>6, <2>1 DEF BlockFilesInv, InMemory, Flushing
  <2>3. HasPath(BaseTip, tip, index, Height[tip] + 1)
    BY <1>2, <1>3, <1>4, <2>1, DeeperPath
  <2>4. BlockFilesOnDisk'
    BY <1>1, <1>5, <2>1, <2>3 DEF BlockFilesOnDisk
  <2>5. ReplayPosition' /\ ReplaySucceeds'
    BY <1>1, <1>6 DEF ReplayPosition, ReplaySucceeds, Replaying
  <2> QED BY <2>2, <2>4, <2>5 DEF ReplayInv
<1>7. CASE pc = "replayed"
  <2>1. tip = headNew /\ headNew # NoBlock
    BY <1>7 DEF CoinsInv, ViewInv, Replaying
  <2>2. OldTip' = OldTip /\ headNew' = headNew
    BY <1>1, <1>5, <2>1 DEF BaseTip
  <2>3. BlockFilesOnDisk'
    BY <1>1, <1>5, <2>2 DEF ReplayInv, BlockFilesOnDisk
  <2>4. BlockFilesInv' /\ ReplaySucceeds'
    BY <1>1, <1>7 DEF BlockFilesInv, ReplaySucceeds, InMemory, Flushing, Snapshotting
  <2>5. ReplayPosition'
    BY <1>1, <1>7 DEF ReplayInv, ReplayPosition
  <2> QED BY <2>3, <2>4, <2>5 DEF ReplayInv
<1> QED BY <1>1, <1>6, <1>7

\* The last batch ends the path.
LEMMA ReplayBatchLast ==
    ASSUME TypeOK, CoinsInv, ReplayInv, BatchWriteLast PROVE ReplayInv'
<1>1. /\ pc \in {"flushCoins", "replayed"} /\ best' = tip /\ headNew' = NoBlock
      /\ UNCHANGED <<tip, index, dindex>>
      /\ pc = "flushCoins" => pc' = "flushRec" /\ chain' = chain
      /\ pc = "replayed" => pc' = "ready" /\ chain' = tip
  BY DEF BatchWriteLast
<1>2. tip \in Block /\ NoBlock \notin Block
  BY BlockAssumption DEF TypeOK
<1>3. Height[tip] \in Nat
  BY <1>2, BlockAssumption
<1>4. BaseTip' = tip
  BY <1>1, <1>2 DEF BaseTip
<1>5. HasUndo(tip, index) /\ HasUndo(tip, dindex)
  <2>1. CASE pc = "flushCoins"
    BY <2>1 DEF ReplayInv, BlockFilesInv, InMemory, Flushing
  <2>2. CASE pc = "replayed"
    <3>1. tip = headNew /\ headNew # NoBlock
      BY <2>2 DEF CoinsInv, ViewInv, Replaying
    <3>2. HasUndo(tip, dindex)
      BY <3>1 DEF ReplayInv, BlockFilesOnDisk
    <3>3. index = [dindex EXCEPT !.data = @ \cup {Genesis}]
      BY <2>2 DEF ReplayInv, ReplayPosition, Replaying
    <3>4. index.data = dindex.data \cup {Genesis} /\ index.undo = dindex.undo
      BY <3>3 DEF TypeOK, IndexType
    <3> QED BY <3>2, <3>4 DEF HasUndo
  <2> QED BY <1>1, <2>1, <2>2
<1>6. BlockFilesOnDisk'
  BY <1>1, <1>4, <1>5 DEF BlockFilesOnDisk
<1>7. Height[chain'] <= Height[tip] + 1
  <2>1. CASE pc = "flushCoins"
    BY <1>1, <2>1 DEF ReplayInv, BlockFilesInv, InMemory, Flushing
  <2>2. CASE pc = "replayed"
    BY <1>1, <1>3, <2>2
  <2> QED BY <1>1, <2>1, <2>2
<1>8. /\ pc' \in {"ready", "flushRec"} /\ tip' = tip /\ index' = index
      /\ pc' = "ready" => chain' = tip
  BY <1>1
<1>9. BlockFilesInv'
  BY <1>4, <1>5, <1>7, <1>8, NoPath DEF BlockFilesInv
<1>10. ReplayPosition' /\ ReplaySucceeds'
  BY <1>8 DEF ReplayPosition, ReplaySucceeds, Replaying
<1> QED BY <1>6, <1>9, <1>10 DEF ReplayInv

\* FlushStateToDisk returns and the snapshot steps: the database is at the tip.
LEMMA ReplayAfterFlush ==
    ASSUME TypeOK, CoinsInv, ReplayInv, FlushRecord \/ Snapshot PROVE ReplayInv'
<1>1. /\ pc \in {"flushRec"} \cup Snapshotting
      /\ pc' \in {"ready", "flushIndex"} \cup Snapshotting
      /\ UNCHANGED <<tip, index, coinsdb, dindex>>
      /\ pc' = "ready" => chain' = tip
      /\ chain' \in {chain, tip}
  <2>1. CASE FlushRecord
    BY <2>1 DEF FlushRecord, TypeOK, Snapshotting
  <2>2. CASE SnapshotDump
    BY <2>2 DEF SnapshotDump, FlushIfNeeded, Snapshotting
  <2>3. CASE SnapshotHash
    BY <2>3 DEF SnapshotHash, FlushIfNeeded, Snapshotting
  <2>4. CASE SnapshotClean
    BY <2>4 DEF SnapshotClean, FlushIfNeeded, Snapshotting
  <2> QED BY <2>1, <2>2, <2>3, <2>4 DEF Snapshot
<1>2. InMemory /\ pc # "flushCoins"
  BY <1>1 DEF InMemory, Flushing, Snapshotting
<1>3. best = tip /\ headNew = NoBlock /\ tip \in Block /\ NoBlock \notin Block
  BY <1>1, <1>2, BlockAssumption DEF CoinsInv, ViewInv, TypeOK
<1>4. BaseTip = tip
  BY <1>3 DEF BaseTip
<1>5. /\ BlockFilesOnDisk /\ Height[chain] <= Height[tip] + 1 /\ HasUndo(tip, index)
  BY <1>2 DEF ReplayInv, BlockFilesInv
<1>6. Height[tip] \in Nat
  BY <1>3, BlockAssumption
<1>7. Height[chain'] <= Height[tip'] + 1
  BY <1>1, <1>5, <1>6
<1>8. /\ tip' = tip /\ index' = index /\ UNCHANGED <<coinsdb, dindex>>
      /\ pc' \in {"ready", "flushIndex", "flushRec"} \cup Snapshotting
  BY <1>1
<1>9. HasUndo(tip', index') /\ HasUndo(BaseTip, index') /\ HasPath(BaseTip, tip', index', 0)
  BY <1>4, <1>5, <1>8, NoPath
<1> QED BY <1>1, <1>5, <1>7, <1>8, <1>9, RunningStep

\* A node that is down or replaying: only what is on disk and where the replay is
\* matter.
LEMMA ReplayingStep ==
    ASSUME BlockFilesOnDisk, UNCHANGED <<coinsdb, dindex>>, pc' \notin {"ready"} \cup Flushing \cup Snapshotting,
           ReplayPosition', ReplaySucceeds'
    PROVE  ReplayInv'
<1>1. BaseTip' = BaseTip /\ OldTip' = OldTip /\ headNew' = headNew /\ dindex' = dindex
  BY DEF BaseTip, OldTip, coinsdb
<1>2. BlockFilesOnDisk'
  BY <1>1 DEF BlockFilesOnDisk
<1>3. BlockFilesInv'
  BY DEF BlockFilesInv, InMemory, Flushing, Snapshotting
<1> QED BY <1>2, <1>3 DEF ReplayInv

\* A crash leaves the disk as it is.
LEMMA ReplayCrash == ASSUME ReplayInv, Crash PROVE ReplayInv'
<1>1. pc' = "down" /\ UNCHANGED <<coinsdb, dindex>>
  BY DEF Crash
<1>2. BlockFilesOnDisk
  BY DEF ReplayInv
<1>3. ReplayPosition' /\ ReplaySucceeds'
  BY <1>1 DEF ReplayPosition, ReplaySucceeds, Replaying
<1>4. pc' \notin {"ready"} \cup Flushing \cup Snapshotting
  BY <1>1 DEF Flushing, Snapshotting
<1> QED BY <1>1, <1>2, <1>3, <1>4, ReplayingStep

\* The index that is loaded is the one on disk, with the genesis block.
LEMMA LoadedUndo ==
    ASSUME TypeOK, NEW idx, idx = [dindex EXCEPT !.data = @ \cup {Genesis}],
           NEW b, HasUndo(b, dindex)
    PROVE  HasUndo(b, idx)
<1>1. idx.data = dindex.data \cup {Genesis} /\ idx.undo = dindex.undo
  BY DEF TypeOK, IndexType
<1> QED BY <1>1 DEF HasUndo

\* The restart begins at the old end of the path, or the database is at its best block.
LEMMA ReplayLoad == ASSUME TypeOK, CoinsInv, ReplayInv, LoadChainstate PROVE ReplayInv'
<1>1. /\ index' = [dindex EXCEPT !.data = @ \cup {Genesis}] /\ UNCHANGED <<coinsdb, dindex>>
  BY DEF LoadChainstate
<1>2. BlockFilesOnDisk
  BY DEF ReplayInv
<1>3. OldTip' = OldTip /\ headNew' = headNew /\ dindex' = dindex
  BY <1>1 DEF OldTip, coinsdb
<1>4. CASE headNew # NoBlock
  <2>1. pc' = "back" /\ tip' = OldTip
    BY <1>4 DEF LoadChainstate, OldTip
  <2>2. OldTip \in Block
    BY BlockAssumption DEF TypeOK, OldTip
  <2>3. OldTip \in Ancestors[OldTip]
    BY <2>2, AncestorsAre
  <2>4. ReplayPosition'
    BY <1>1, <1>3, <2>1, <2>3 DEF ReplayPosition
  <2>5. ReplaySucceeds'
    BY <2>1 DEF ReplaySucceeds
  <2>6. pc' \notin {"ready"} \cup Flushing \cup Snapshotting
    BY <2>1 DEF Flushing, Snapshotting
  <2> QED BY <1>1, <1>2, <2>4, <2>5, <2>6, ReplayingStep
<1>5. CASE headNew = NoBlock
  <2>1. pc' = "ready" /\ tip' = BaseTip /\ chain' = tip'
    <3>1. CASE best # NoBlock
      BY <1>5, <3>1 DEF LoadChainstate, BaseTip
    <3>2. CASE best = NoBlock
      BY <1>5, <3>2 DEF LoadChainstate, BaseTip
    <3> QED BY <3>1, <3>2
  <2>2. BaseTip \in Block
    BY BlockAssumption DEF TypeOK, BaseTip, OldTip
  <2>3. Height[BaseTip] \in Nat
    BY <2>2, BlockAssumption
  <2>4. HasUndo(BaseTip, index')
    BY <1>1, <1>2, LoadedUndo DEF BlockFilesOnDisk
  <2>5. Height[chain'] <= Height[tip'] + 1
    BY <2>1, <2>3
  <2>6. HasUndo(tip', index') /\ HasPath(BaseTip, tip', index', 0)
    BY <2>1, <2>4, NoPath
  <2> QED BY <1>1, <1>2, <2>1, <2>4, <2>5, <2>6, RunningStep
<1> QED BY <1>4, <1>5

\* Where the replay is.
LEMMA WhenReplaying ==
    ASSUME TypeOK, CoinsInv, ReplayInv, pc \in {"back", "fwd"}
    PROVE  /\ BlockFilesOnDisk /\ tip \in Block /\ OldTip \in Block /\ headNew \in Block
           /\ HasPath(OldTip, headNew, dindex, Height[headNew] + 1)
           /\ index = [dindex EXCEPT !.data = @ \cup {Genesis}]
           /\ index.data = dindex.data \cup {Genesis} /\ index.undo = dindex.undo
           /\ Ancestors[OldTip] \cap Ancestors[headNew] \subseteq Ancestors[tip]
           /\ pc = "back" => tip \in Ancestors[OldTip]
           /\ pc = "fwd" => tip \in Ancestors[headNew]
<1>1. headNew # NoBlock
  BY DEF CoinsInv, ViewInv, Replaying
<1>2. tip \in Block /\ OldTip \in Block /\ headNew \in Block
  BY <1>1, BlockAssumption DEF TypeOK, OldTip
<1>3. BlockFilesOnDisk /\ HasPath(OldTip, headNew, dindex, Height[headNew] + 1)
  BY <1>1 DEF ReplayInv, BlockFilesOnDisk
<1>4. /\ index = [dindex EXCEPT !.data = @ \cup {Genesis}]
      /\ Ancestors[OldTip] \cap Ancestors[headNew] \subseteq Ancestors[tip]
      /\ pc = "back" => tip \in Ancestors[OldTip]
      /\ pc = "fwd" => tip \in Ancestors[headNew]
  BY DEF ReplayInv, ReplayPosition, Replaying
<1>5. index.data = dindex.data \cup {Genesis} /\ index.undo = dindex.undo
  BY <1>4 DEF TypeOK, IndexType
<1> QED BY <1>2, <1>3, <1>4, <1>5

\* The way back stops at the last common block; a block that cannot be undone is deep.
LEMMA ReplayRollback ==
    ASSUME TypeOK, CoinsInv, ReplayInv, RollbackBlock PROVE ReplayInv'
<1>1. /\ pc = "back" /\ tip # Genesis /\ tip \notin Ancestors[headNew]
      /\ UNCHANGED <<index, coinsdb, dindex>>
  BY DEF RollbackBlock
<1>2. /\ BlockFilesOnDisk /\ tip \in Block /\ OldTip \in Block /\ headNew \in Block
      /\ HasPath(OldTip, headNew, dindex, Height[headNew] + 1)
      /\ index = [dindex EXCEPT !.data = @ \cup {Genesis}]
      /\ index.data = dindex.data \cup {Genesis} /\ index.undo = dindex.undo
      /\ Ancestors[OldTip] \cap Ancestors[headNew] \subseteq Ancestors[tip]
      /\ tip \in Ancestors[OldTip]
  BY <1>1, WhenReplaying
<1>3. OldTip' = OldTip /\ headNew' = headNew /\ dindex' = dindex /\ index' = index
  BY <1>1 DEF OldTip, coinsdb
<1>4. CASE tip \in index.data \cap index.undo
  <2>1. tip' = Prev[tip] /\ pc' = "back"
    BY <1>1, <1>4 DEF RollbackBlock
  <2>2. Ancestors[tip] = {tip} \cup Ancestors[Prev[tip]]
    BY <1>1, <1>2, AncestorsUnfold
  <2>3. Ancestors[OldTip] \cap Ancestors[headNew] \subseteq Ancestors[Prev[tip]]
    BY <1>1, <1>2, <2>2
  <2>4. Prev[tip] \in Ancestors[OldTip]
    BY <1>1, <1>2, ParentIs
  <2>5. ReplayPosition'
    BY <1>2, <1>3, <2>1, <2>3, <2>4 DEF ReplayPosition
  <2>6. ReplaySucceeds' /\ pc' \notin {"ready"} \cup Flushing \cup Snapshotting
    BY <2>1 DEF ReplaySucceeds, Flushing, Snapshotting
  <2> QED BY <1>1, <1>2, <2>5, <2>6, ReplayingStep
<1>5. CASE tip \notin index.data \cap index.undo
  <2>1. pc' = "broken"
    BY <1>5 DEF RollbackBlock
  <2>2. tip \in Ancestors[OldTip] \ Ancestors[headNew] /\ tip \notin dindex.data \cap dindex.undo
    BY <1>1, <1>2, <1>5
  <2>3. Deep(tip, Height[headNew] + 1)
    BY <1>2, <2>2 DEF HasPath
  <2>4. ReplaySucceeds'
    <3>1. /\ Height[tip] \in Nat /\ Height[headNew] \in Nat
          /\ MandatoryPruneDepth \in Nat
      BY <1>2, BlockAssumption
    <3>2. Height[tip] <= Height[headNew] + 1 - MandatoryPruneDepth
      BY <2>3, <3>1 DEF Deep
    <3>3. \E x \in SymDiff(Ancestors[OldTip], Ancestors[headNew]) :
             Height[x] <= Height[headNew] + 1 - MandatoryPruneDepth
      BY <2>2, <3>2, Zenon DEF SymDiff
    <3> QED BY <1>3, <3>3 DEF ReplaySucceeds
  <2>5. ReplayPosition' /\ pc' \notin {"ready"} \cup Flushing \cup Snapshotting
    BY <2>1 DEF ReplayPosition, Replaying, Flushing, Snapshotting
  <2> QED BY <1>1, <1>2, <2>4, <2>5, ReplayingStep
<1> QED BY <1>4, <1>5

\* The way forward starts there; a block that cannot be read is deep.
LEMMA ReplayRollforward ==
    ASSUME TypeOK, CoinsInv, ReplayInv, NEW b \in Block, RollforwardBlock(b) PROVE ReplayInv'
<1>1. /\ pc = "fwd" /\ b \in Ancestors[headNew] \ {Genesis} /\ Prev[b] = tip
      /\ UNCHANGED <<index, coinsdb, dindex>>
  BY DEF RollforwardBlock
<1>2. /\ BlockFilesOnDisk /\ tip \in Block /\ OldTip \in Block /\ headNew \in Block
      /\ HasPath(OldTip, headNew, dindex, Height[headNew] + 1)
      /\ index = [dindex EXCEPT !.data = @ \cup {Genesis}]
      /\ index.data = dindex.data \cup {Genesis} /\ index.undo = dindex.undo
      /\ Ancestors[OldTip] \cap Ancestors[headNew] \subseteq Ancestors[tip]
  BY <1>1, WhenReplaying
<1>3. OldTip' = OldTip /\ headNew' = headNew /\ dindex' = dindex /\ index' = index
  BY <1>1 DEF OldTip, coinsdb
<1>4. Ancestors[b] = {b} \cup Ancestors[tip] /\ b \notin Ancestors[tip]
  BY <1>1, AncestorsUnfold, NotItsParents
<1>5. CASE b \in index.data
  <2>1. tip' = b /\ pc' = "fwd"
    BY <1>1, <1>5 DEF RollforwardBlock
  <2>2. Ancestors[OldTip] \cap Ancestors[headNew] \subseteq Ancestors[b]
    BY <1>2, <1>4
  <2>3. ReplayPosition'
    BY <1>1, <1>2, <1>3, <2>1, <2>2 DEF ReplayPosition
  <2>4. ReplaySucceeds' /\ pc' \notin {"ready"} \cup Flushing \cup Snapshotting
    BY <2>1 DEF ReplaySucceeds, Flushing, Snapshotting
  <2> QED BY <1>1, <1>2, <2>3, <2>4, ReplayingStep
<1>6. CASE b \notin index.data
  <2>1. pc' = "broken"
    BY <1>6 DEF RollforwardBlock
  <2>2. b \in Ancestors[headNew] \ Ancestors[OldTip] /\ b \notin dindex.data
    BY <1>1, <1>2, <1>4, <1>6
  <2>3. Deep(b, Height[headNew] + 1)
    BY <1>2, <2>2 DEF HasPath
  <2>4. ReplaySucceeds'
    <3>1. /\ Height[b] \in Nat /\ Height[headNew] \in Nat
          /\ MandatoryPruneDepth \in Nat
      BY <1>2, BlockAssumption
    <3>2. Height[b] <= Height[headNew] + 1 - MandatoryPruneDepth
      BY <2>3, <3>1 DEF Deep
    <3>3. \E x \in SymDiff(Ancestors[OldTip], Ancestors[headNew]) :
             Height[x] <= Height[headNew] + 1 - MandatoryPruneDepth
      BY <2>2, <3>2, Zenon DEF SymDiff
    <3> QED BY <1>3, <3>3 DEF ReplaySucceeds
  <2>5. ReplayPosition' /\ pc' \notin {"ready"} \cup Flushing \cup Snapshotting
    BY <2>1 DEF ReplayPosition, Replaying, Flushing, Snapshotting
  <2> QED BY <1>1, <1>2, <2>4, <2>5, ReplayingStep
<1> QED BY <1>5, <1>6

\* The two turns of the replay.
LEMMA ReplayTurns ==
    ASSUME TypeOK, CoinsInv, ReplayInv, RollbackDone \/ ReplayDone PROVE ReplayInv'
<1>1. /\ pc \in {"back", "fwd"} /\ tip \in Ancestors[headNew] /\ pc' \in {"fwd", "replayed"}
      /\ UNCHANGED <<tip, index, coinsdb, dindex>>
  <2>1. CASE RollbackDone
    BY <2>1 DEF RollbackDone, memory
  <2>2. CASE ReplayDone
    <3>1. tip \in Block
      BY DEF TypeOK
    <3>2. tip \in Ancestors[tip]
      BY <3>1, AncestorsAre
    <3> QED BY <2>2, <3>2 DEF ReplayDone, memory
  <2> QED BY <2>1, <2>2
<1>2. /\ BlockFilesOnDisk /\ index = [dindex EXCEPT !.data = @ \cup {Genesis}]
      /\ Ancestors[OldTip] \cap Ancestors[headNew] \subseteq Ancestors[tip]
  BY <1>1, WhenReplaying
<1>3. OldTip' = OldTip /\ headNew' = headNew /\ dindex' = dindex /\ index' = index /\ tip' = tip
  BY <1>1 DEF OldTip, coinsdb
<1>4. ReplayPosition'
  BY <1>1, <1>2, <1>3 DEF ReplayPosition
<1>5. ReplaySucceeds' /\ pc' \notin {"ready"} \cup Flushing \cup Snapshotting
  BY <1>1 DEF ReplaySucceeds, Flushing, Snapshotting
<1> QED BY <1>1, <1>2, <1>4, <1>5, ReplayingStep

\* The invariant that makes ReplaySucceeds inductive.
ReplayableInv == TypeOK /\ CoinsInv /\ ReplayInv

\* A fresh node has nothing to replay.
LEMMA ReplayInit == Init => ReplayableInv
<1> SUFFICES ASSUME Init PROVE ReplayableInv
  OBVIOUS
<1>1. TypeOK /\ CoinsInv
  BY TypeInit, CoinsInit
<1>2. /\ pc = "ready" /\ chain = Genesis /\ tip = Genesis /\ headNew = NoBlock /\ best = NoBlock
      /\ index.data = {Genesis} /\ index.undo = {} /\ dindex.data = {} /\ dindex.undo = {}
  BY DEF Init, NoIndex
<1>3. BaseTip = Genesis /\ Height[Genesis] \in Nat
  BY <1>2, BlockAssumption DEF BaseTip
<1>4. HasUndo(Genesis, index) /\ HasUndo(Genesis, dindex)
  BY <1>2 DEF HasUndo
<1>5. BlockFilesInv
  BY <1>2, <1>3, <1>4, NoPath DEF BlockFilesInv
<1>6. BlockFilesOnDisk
  BY <1>2, <1>3, <1>4 DEF BlockFilesOnDisk
<1>7. ReplayPosition /\ ReplaySucceeds
  BY <1>2 DEF ReplayPosition, ReplaySucceeds, Replaying
<1> QED BY <1>1, <1>5, <1>6, <1>7 DEF ReplayableInv, ReplayInv

\* Every step keeps it.
LEMMA ReplayStep == ReplayableInv /\ [Next]_vars => ReplayableInv'
<1> SUFFICES ASSUME ReplayableInv, [Next]_vars PROVE ReplayableInv'
  OBVIOUS
<1>1. TypeOK /\ CoinsInv /\ ReplayInv
  BY DEF ReplayableInv
<1>2. TypeOK' /\ CoinsInv'
  BY <1>1, TypeStep, CoinsStep
<1>3. CASE UNCHANGED vars
  BY <1>1, <1>2, <1>3 DEF ReplayableInv, ReplayInv, BlockFilesInv, BlockFilesOnDisk, ReplayPosition,
     ReplaySucceeds, BaseTip, OldTip, InMemory, vars, memory, coinsdb
<1>4. CASE UTXOMuHash \/ FlushStateToDisk \/ Dump
  <2>1. pc = "ready" /\ pc' \in {"ready", "flushIndex"} /\ UNCHANGED <<chain, tip, index, coinsdb, dindex>>
    BY <1>4 DEF UTXOMuHash, FlushStateToDisk, Dump, DumpBegin, DumpRollback, DumpEnd, memory
  <2> QED BY <1>1, <1>2, <2>1, ReplayQuiet DEF ReplayableInv
<1>5. CASE \E level \in {3, 4} \cap 0..MaxVerify, n \in 1..3 : VerifyDB(level, n)
  <2>1. pc = "ready" /\ pc' \in {"ready", "flushIndex"} /\ UNCHANGED <<chain, tip, index, coinsdb, dindex>>
    BY <1>5 DEF VerifyDB
  <2> QED BY <1>1, <1>2, <2>1, ReplayQuiet DEF ReplayableInv
<1>6. CASE \E b \in Block : AcceptBlock(b) \/ ConnectTip(b) \/ RejectBlock(b)
  BY <1>1, <1>2, <1>6, ReplayAccept, ReplayConnect, ReplayReject DEF ReplayableInv
<1>7. CASE DisconnectTip
  BY <1>1, <1>2, <1>7, ReplayDisconnect DEF ReplayableInv
<1>8. CASE Flush \/ Snapshot
  BY <1>1, <1>2, <1>8, ReplayFlushIndex, ReplayBatchPartial, ReplayBatchLast, ReplayAfterFlush
  DEF ReplayableInv, Flush
<1>9. CASE Crash \/ LoadChainstate \/ Replay
  BY <1>1, <1>2, <1>9, ReplayCrash, ReplayLoad, ReplayRollback, ReplayRollforward, ReplayTurns
  DEF ReplayableInv, Replay
<1> QED BY <1>3, <1>4, <1>5, <1>6, <1>7, <1>8, <1>9 DEF Next

\* ReplayBlocks finds every block it has to undo or redo, whatever was connected,
\* disconnected, pruned and flushed and wherever the node crashed, unless the flush
\* spans a block deep enough to have been pruned by height.
THEOREM ReplayCorrect == Spec => []ReplaySucceeds
<1>1. ReplayableInv => ReplaySucceeds
  BY DEF ReplayableInv, ReplayInv
<1> QED BY <1>1, ReplayInit, ReplayStep, PTL DEF Spec

-----------------------------------------------------------------------------
(* CVerifyDB::VerifyDB.                                                     *)

\* The block after b on the active chain is the one whose parent is b.
LEMMA NextIs ==
    ASSUME TypeOK, NEW b \in Ancestors[tip] \ {tip}
    PROVE  /\ Next_(b) \in Ancestors[tip] \ {Genesis} /\ Next_(b) \in Block
           /\ Prev[Next_(b)] = b /\ Height[Next_(b)] = Height[b] + 1
<1>1. tip \in Block
  BY DEF TypeOK
<1>2. \E x \in Ancestors[tip] \ {Genesis} : Prev[x] = b
  BY <1>1, ChainIs
<1>3. \E x \in Ancestors[tip] : x # Genesis /\ Prev[x] = b
  BY <1>2
<1>4. Next_(b) \in Ancestors[tip] /\ Next_(b) # Genesis /\ Prev[Next_(b)] = b
  BY <1>3 DEF Next_, ActiveChain
<1> HIDE DEF Next_
<1>5. Next_(b) \in Block
  BY <1>1, <1>4, AncestorsAre
<1> QED BY <1>4, <1>5, BlockAssumption

\* The scratch view that level 3 has when it comes to a block is that block's UTXO set.
LEMMA VerifyViewIs ==
    ASSUME TypeOK, cache = UTXO[tip], NEW b \in Ancestors[tip] PROVE VerifyView[b] = UTXO[b]
<1> DEFINE f == [a \in Ancestors[tip] |-> UTXO[a]]
<1>1. tip \in Block
  BY DEF TypeOK
<1>2. Ancestors[tip] \subseteq Block /\ tip \in Ancestors[tip]
  BY <1>1, AncestorsAre
<1>3. ASSUME NEW a \in Ancestors[tip] \ {tip} PROVE UndoBlock(UTXO[Next_(a)], Next_(a)) = UTXO[a]
  <2>1. Next_(a) \in Block \ {Genesis} /\ Prev[Next_(a)] = a
    BY NextIs
  <2> QED BY <2>1, BlockEffect
<1>4. ASSUME NEW a \in Ancestors[tip] \ {tip} PROVE Next_(a) \in Ancestors[tip]
  BY NextIs
<1>5. f = [a \in Ancestors[tip] |-> IF a = tip THEN cache ELSE UndoBlock(f[Next_(a)], Next_(a))]
  BY <1>3, <1>4
<1> HIDE DEF f
<1> DEFINE g == CHOOSE h :
             h = [a \in Ancestors[tip] |-> IF a = tip THEN cache ELSE UndoBlock(h[Next_(a)], Next_(a))]
<1>6. g = [a \in Ancestors[tip] |-> IF a = tip THEN cache ELSE UndoBlock(g[Next_(a)], Next_(a))]
  BY <1>5
<1>7. VerifyView = g
  BY DEF VerifyView, ActiveChain
<1> HIDE DEF g
<1>8. VerifyView[tip] = UTXO[tip]
  BY <1>2, <1>6, <1>7
<1>9. \A a \in Ancestors[tip] \ {tip} : VerifyView[a] = UndoBlock(VerifyView[Next_(a)], Next_(a))
  BY <1>6, <1>7
<1> HIDE DEF VerifyView
<1> SUFFICES ASSUME VerifyView[b] # UTXO[b] PROVE FALSE
  OBVIOUS
<1> DEFINE Wrong == {a \in Ancestors[tip] : VerifyView[a] # UTXO[a]}
           N == {Height[tip] - Height[a] : a \in Wrong}
<1>10. \A a \in Ancestors[tip] : Height[tip] \in Nat /\ Height[a] \in Nat /\ Height[a] <= Height[tip]
  <2>1. \A a \in Ancestors[tip] : Height[tip] \in Nat /\ Height[a] \in Nat
    BY <1>1, <1>2, BlockAssumption
  <2>2. \A a \in Ancestors[tip] : a = tip \/ Height[a] < Height[tip]
    BY <1>1, AncestorsAre
  <2> QED BY <2>1, <2>2
<1>11. N \in SUBSET Nat /\ N # {}
  BY <1>10
<1>12. PICK a \in Wrong : \A c \in Wrong : Height[tip] - Height[a] <= Height[tip] - Height[c]
  <2> HIDE DEF N
  <2>1. PICK x \in N : \A y \in N : x <= y
    BY <1>11, LeastNumber, Zenon
  <2> HIDE DEF Wrong
  <2> QED BY <2>1 DEF N
<1>13. a \in Ancestors[tip] \ {tip}
  BY <1>8, <1>12
<1>14. /\ Next_(a) \in Ancestors[tip] \ {Genesis} /\ Height[Next_(a)] = Height[a] + 1
  BY <1>13, NextIs
<1>15. ~(Height[tip] - Height[a] <= Height[tip] - Height[Next_(a)])
  BY <1>10, <1>13, <1>14
<1>16. Next_(a) \notin Wrong
  BY <1>12, <1>15
<1>17. VerifyView[Next_(a)] = UTXO[Next_(a)]
  BY <1>14, <1>16
<1>18. VerifyView[a] = UTXO[a]
  BY <1>3, <1>9, <1>13, <1>17
<1> QED BY <1>12, <1>18

\* Level 3 passes whenever the view is the tip's and undo data goes with block data.
LEMMA VerifyPasses ==
    ASSUME TypeOK, cache = UTXO[tip], HasUndo(tip, index), NEW n PROVE VerifyDisconnects(n)
<1> SUFFICES ASSUME NEW b \in VerifyRange(n)
             PROVE  b \in index.undo /\ CleanDisconnect(VerifyView[b], b)
  BY DEF VerifyDisconnects
<1>1. b \in Ancestors[tip] \ {Genesis} /\ b \in index.data
  <2>1. tip \in Block
    BY DEF TypeOK
  <2>2. b \in Ancestors[tip] \ {Genesis} /\ \A a \in Ancestors[tip] : Height[a] >= Height[b] => a \in index.data
    BY DEF VerifyRange, ActiveChain
  <2>3. Height[b] \in Nat
    BY <2>1, <2>2, AncestorsAre, BlockAssumption
  <2> QED BY <2>2, <2>3
<1>2. b \in Block \ {Genesis}
  BY <1>1, AncestorsAre DEF TypeOK
<1>3. VerifyView[b] = UTXO[b]
  BY <1>1, VerifyViewIs
<1>4. CleanDisconnect(UTXO[b], b)
  <2>1. UTXO[b] = (UTXO[Prev[b]] \ Ins[b]) \cup Outs[b]
    BY <1>2, CoinAssumption
  <2> QED BY <2>1 DEF CleanDisconnect
<1> QED BY <1>1, <1>3, <1>4 DEF HasUndo

\* The inductive invariant of VerifySucceeds.
VerifyInv == ReplayableInv /\ VerifySucceeds

\* Every step keeps it.
LEMMA VerifyStep == ASSUME MaxVerify < 4 PROVE VerifyInv /\ [Next]_vars => VerifyInv'
<1> SUFFICES ASSUME VerifyInv, [Next]_vars PROVE VerifyInv'
  OBVIOUS
<1>1. ReplayableInv /\ ReplayableInv'
  BY ReplayStep DEF VerifyInv
<1>2. CASE \E level \in {3, 4} \cap 0..MaxVerify, n \in 1..3 : VerifyDB(level, n)
  <2>1. PICK level \in {3, 4} \cap 0..MaxVerify, n \in 1..3 : VerifyDB(level, n)
    BY <1>2
  <2>2. level = 3
    BY BoundAssumption
  <2>3. TypeOK /\ cache = UTXO[tip] /\ HasUndo(tip, index)
    BY <1>1, <2>1 DEF VerifyDB, ReplayableInv, ReplayInv, BlockFilesInv, CoinsInv, ViewInv, InMemory
  <2>4. VerifyDisconnects(n)
    BY <2>3, VerifyPasses
  <2>5. VerifyResult(3, n) = "SUCCESS"
    BY <2>4 DEF VerifyResult
  <2> QED BY <1>1, <2>1, <2>2, <2>5 DEF VerifyDB, VerifyInv, VerifySucceeds
<1>3. CASE verdict' \in {verdict, "SUCCESS"}
  BY <1>1, <1>3 DEF VerifyInv, VerifySucceeds
<1>4. CASE UNCHANGED vars
  BY <1>3, <1>4 DEF vars
<1>5. CASE Next
  BY <1>2, <1>3, <1>5 DEF Next, Flush, Snapshot, Replay, Dump,
     UTXOMuHash, AcceptBlock, ConnectTip, RejectBlock, DisconnectTip,
     FlushStateToDisk, FlushIndex, BatchWritePartial, BatchWriteLast, FlushRecord,
     SnapshotDump, SnapshotHash, SnapshotClean, DumpBegin, DumpRollback, DumpEnd, Crash,
     LoadChainstate, RollbackBlock, RollbackDone, ReplayDone, RollforwardBlock
<1> QED BY <1>4, <1>5

\* VerifyDB up to level 3 never reports corruption, for every block tree, range and
\* history of pruning, flushes and crashes: the undo data is there wherever the block
\* data is, and every block of the range disconnects cleanly from the view that the
\* blocks above it leave.
THEOREM VerifyCorrect == ASSUME MaxVerify < 4 PROVE Spec => []VerifySucceeds
<1>1. Init => VerifyInv
  BY ReplayInit DEF Init, VerifyInv, VerifySucceeds
<1>2. VerifyInv => VerifySucceeds
  BY DEF VerifyInv
<1> QED BY <1>1, <1>2, VerifyStep, PTL DEF Spec

-----------------------------------------------------------------------------
(* dumptxoutset.                                                            *)

\* The inductive invariant of DumpViewFaithful.
DumpInv == TypeOK /\ CoinsInv /\ DumpViewFaithful

\* Every step keeps it.
LEMMA DumpStep == DumpInv /\ [Next]_vars => DumpInv'
<1> SUFFICES ASSUME DumpInv, [Next]_vars PROVE DumpInv'
  OBVIOUS
<1>1. TypeOK /\ CoinsInv /\ TypeOK' /\ CoinsInv'
  BY TypeStep, CoinsStep DEF DumpInv
<1>2. CASE DumpBegin
  <2>1. roll' = tip /\ scratch' = UTXO[tip]
    BY <1>1, <1>2 DEF DumpBegin, CoinsInv, ViewInv, InMemory
  <2> QED BY <1>1, <2>1 DEF DumpInv, DumpViewFaithful
<1>3. CASE DumpRollback
  <2>1. roll \in Block \ {Genesis} /\ roll # NoBlock
    BY <1>1, <1>3, BlockAssumption DEF DumpRollback, TypeOK, IndexType
  <2>2. scratch = UTXO[roll] /\ scratch' = UndoBlock(scratch, roll) /\ roll' = Prev[roll]
    BY <1>3, <2>1 DEF DumpRollback, DumpInv, DumpViewFaithful
  <2>3. scratch' = UTXO[roll']
    BY <2>1, <2>2, BlockEffect
  <2> QED BY <1>1, <2>3 DEF DumpInv, DumpViewFaithful
<1>4. CASE DumpEnd \/ Crash
  BY <1>1, <1>4 DEF DumpEnd, Crash, DumpInv, DumpViewFaithful
<1>5. CASE UNCHANGED <<roll, scratch>>
  BY <1>1, <1>5 DEF DumpInv, DumpViewFaithful
<1>6. CASE UNCHANGED vars
  BY <1>5, <1>6 DEF vars, rpc
<1>7. CASE Next
  BY <1>2, <1>3, <1>4, <1>5, <1>7 DEF Next, rpc, Flush, Snapshot, Replay, Dump,
     UTXOMuHash, AcceptBlock, ConnectTip, RejectBlock, DisconnectTip,
     FlushStateToDisk, FlushIndex, BatchWritePartial, BatchWriteLast, FlushRecord,
     SnapshotDump, SnapshotHash, SnapshotClean, VerifyDB,
     LoadChainstate, RollbackBlock, RollbackDone, ReplayDone, RollforwardBlock
<1> QED BY <1>6, <1>7

\* The rolled-back view of dumptxoutset is the UTXO set of the block it has reached,
\* whatever the node does while cs_main is released between two blocks.
THEOREM DumpCorrect == Spec => []DumpViewFaithful
<1>1. Init => DumpInv
  BY TypeInit, CoinsInit DEF Init, DumpInv, DumpViewFaithful
<1>2. DumpInv => DumpViewFaithful
  BY DEF DumpInv
<1> QED BY <1>1, <1>2, DumpStep, PTL DEF Spec

-----------------------------------------------------------------------------
(* The active chain.                                                        *)

\* A block and its ancestors carry the attestation of the real UTXO set.
HonestChain(b) == \A a \in Ancestors[b] : IsHonest(a)

\* The inductive invariant of AttestedChain: also what is on disk was attested.
AttestedInv ==
    /\ AccInv
    /\ InMemory => HonestChain(tip)
    /\ best # NoBlock => HonestChain(best)
    /\ headNew # NoBlock => HonestChain(headNew)

\* Every step keeps it: ConnectTip checks the block it adds.
LEMMA AttestedStep ==
    ASSUME MaxDump = 0, CrashInReorgFlush = FALSE
    PROVE  AttestedInv /\ [Next]_vars => AttestedInv'
<1> SUFFICES ASSUME AttestedInv, [Next]_vars PROVE AttestedInv'
  OBVIOUS
<1>1. AccInv /\ AccInv' /\ TypeOK /\ CoinsInv
  BY AccStep DEF AttestedInv, AccInv
<1>2. ASSUME InMemory' => HonestChain(tip'), UNCHANGED coinsdb PROVE AttestedInv'
  BY <1>1, <1>2 DEF AttestedInv, coinsdb
<1>3. CASE UNCHANGED <<tip, coinsdb>> /\ (InMemory' => InMemory)
  BY <1>2, <1>3 DEF AttestedInv
<1>4. CASE \E b \in Block : ConnectTip(b)
  <2>1. PICK b \in Block : ConnectTip(b)
    BY <1>4
  <2>2. /\ pc = "ready" /\ b \in Block \ {Genesis} /\ Prev[b] = tip /\ tip' = b
        /\ ValidateUTXOCheckpoint(b, cache, LoadedMuHash) /\ UNCHANGED coinsdb
    BY <2>1 DEF ConnectTip
  <2>3. IsHonest(b)
    BY <1>1, <2>2, ValidateDecides
  <2>4. HonestChain(tip)
    BY <2>2 DEF AttestedInv, InMemory
  <2>5. Ancestors[b] = {b} \cup Ancestors[tip]
    BY <2>2, AncestorsUnfold
  <2> QED BY <1>2, <2>2, <2>3, <2>4, <2>5 DEF HonestChain
<1>5. CASE DisconnectTip
  <2>1. pc = "ready" /\ tip # Genesis /\ tip' = Prev[tip] /\ UNCHANGED coinsdb /\ tip \in Block
    BY <1>1, <1>5 DEF DisconnectTip, TypeOK
  <2>2. HonestChain(tip)
    BY <2>1 DEF AttestedInv, InMemory
  <2>3. Ancestors[tip] = {tip} \cup Ancestors[Prev[tip]]
    BY <2>1, AncestorsUnfold
  <2> QED BY <1>2, <2>1, <2>2, <2>3 DEF HonestChain
<1>6. CASE BatchWritePartial \/ BatchWriteLast
  <2>1. /\ pc \in {"flushCoins", "replayed"} /\ tip' = tip
        /\ best' \in {tip, NoBlock} /\ headNew' \in {tip, NoBlock}
    BY <1>6 DEF BatchWritePartial, BatchWriteLast, memory
  <2>2. HonestChain(tip)
    <3>1. CASE pc = "flushCoins"
      BY <3>1 DEF AttestedInv, InMemory, Flushing
    <3>2. CASE pc = "replayed"
      BY <1>1, <3>2 DEF AttestedInv, CoinsInv, ViewInv, Replaying
    <3> QED BY <2>1, <3>1, <3>2
  <2> QED BY <1>1, <2>1, <2>2 DEF AttestedInv
<1>7. CASE LoadChainstate
  <2>1. UNCHANGED coinsdb
    BY <1>7 DEF LoadChainstate
  <2>2. InMemory' => (best # NoBlock /\ tip' = best) \/ tip' = Genesis
    BY <1>7 DEF LoadChainstate, InMemory, Flushing, Snapshotting
  <2>3. HonestChain(Genesis)
    BY AncestorsUnfold DEF HonestChain, IsHonest
  <2> QED BY <1>2, <2>1, <2>2, <2>3 DEF AttestedInv
<1>8. CASE Crash \/ Replay
  <2>1. UNCHANGED coinsdb /\ ~InMemory'
    BY <1>8 DEF Crash, Replay, RollbackBlock, RollbackDone, ReplayDone, RollforwardBlock, InMemory,
       Flushing, Snapshotting
  <2> QED BY <1>2, <2>1
<1>9. CASE \/ UTXOMuHash \/ FlushStateToDisk \/ Snapshot \/ Dump \/ FlushIndex \/ FlushRecord
           \/ \E b \in Block : AcceptBlock(b) \/ RejectBlock(b)
           \/ \E level \in {3, 4} \cap 0..MaxVerify, n \in 1..3 : VerifyDB(level, n)
  <2>1. UNCHANGED <<tip, coinsdb>>
    BY <1>9 DEF UTXOMuHash, FlushStateToDisk, Snapshot, SnapshotDump, SnapshotHash, SnapshotClean,
       Dump, DumpBegin, DumpRollback, DumpEnd, FlushIndex, FlushRecord, AcceptBlock, RejectBlock,
       VerifyDB, memory
  <2>2. InMemory
    BY <1>9 DEF UTXOMuHash, FlushStateToDisk, Snapshot, SnapshotDump, SnapshotHash, SnapshotClean,
       Dump, DumpBegin, DumpRollback, DumpEnd, FlushIndex, FlushRecord, AcceptBlock, RejectBlock,
       VerifyDB, InMemory, Flushing, Snapshotting
  <2> QED BY <1>3, <2>1, <2>2
<1>10. CASE UNCHANGED vars
  BY <1>3, <1>10 DEF vars, memory, InMemory
<1>11. CASE Next
  BY <1>4, <1>5, <1>6, <1>7, <1>8, <1>9, <1>11 DEF Next, Flush
<1> QED BY <1>10, <1>11

\* Every block of the active chain carries the attestation of the UTXO set that its
\* parent really has, also after crashes and replayed flushes (of a chain that was
\* only extended) and whatever mix of honest and other blocks arrives.
THEOREM AttestedCorrect ==
    ASSUME MaxDump = 0, CrashInReorgFlush = FALSE
    PROVE  Spec => []AttestedChain
<1>1. Init => AttestedInv
  BY AccInit, AncestorsUnfold DEF Init, AttestedInv, HonestChain, IsHonest
<1>2. AttestedInv => AttestedChain
  BY DEF AttestedInv, HonestChain, AttestedChain
<1> QED BY <1>1, <1>2, AttestedStep, PTL DEF Spec

-----------------------------------------------------------------------------
(* The atomic write of the tip.                                             *)

\* Steps that leave the running node's tip and coins and the coins database
\* alone do nothing in DurableChain.
LEMMA DurableStutter ==
    ASSUME UNCHANGED <<tip, cache, coinsdb>>, InMemory' <=> InMemory
    PROVE  UNCHANGED <<MemTip, MemCoins, DurableTip>>
BY DEF MemTip, MemCoins, DurableTip, coinsdb

\* Connecting or disconnecting a block moves the tip and not the database.
LEMMA DurableMove ==
    ASSUME TypeOK, CoinsInv, CoinsInv', TypeOK',
           (\E b \in Block : ConnectTip(b)) \/ DisconnectTip
    PROVE  \E b \in Block : Durable!Move(b)
<1>1. pc = "ready" /\ pc' \in {"ready", "flushIndex"} /\ UNCHANGED coinsdb
  BY DEF ConnectTip, DisconnectTip, FlushIfNeeded
<1>2. InMemory /\ InMemory'
  BY <1>1 DEF InMemory, Flushing
<1>3. tip' \in Block /\ MemTip = tip /\ MemTip' = tip' /\ MemCoins' = UTXO[tip']
  BY <1>2 DEF MemTip, MemCoins, CoinsInv, ViewInv, TypeOK
<1>4. UNCHANGED DurableTip
  BY <1>1 DEF DurableTip, coinsdb
<1>5. \/ tip' # Genesis /\ Prev[tip'] = tip
      \/ tip # Genesis /\ Prev[tip] = tip'
  BY DEF ConnectTip, DisconnectTip
<1>6. Durable!Move(tip')
  BY <1>3, <1>4, <1>5 DEF Durable!Move
<1> QED BY <1>3, <1>6

\* The first batch of a flush makes the tip durable; a batch of a replay
\* leaves the durable tip where it is.
LEMMA DurableBatch ==
    ASSUME TypeOK, CoinsInv, CoinsInv', BatchWritePartial \/ BatchWriteLast
    PROVE  Durable!Persist \/ UNCHANGED <<MemTip, MemCoins, DurableTip>>
<1>1. DurableTip' = tip /\ UNCHANGED <<tip, cache>>
  BY BlockAssumption
  DEF DurableTip, BatchWritePartial, BatchWriteLast, memory, TypeOK
<1>2. CASE pc = "flushCoins"
  <2>1. InMemory /\ InMemory'
    BY <1>2 DEF BatchWritePartial, BatchWriteLast, InMemory, Flushing
  <2>2. MemTip = tip /\ MemTip' = tip /\ MemCoins = cache /\ MemCoins' = cache
    BY <1>1, <2>1 DEF MemTip, MemCoins
  <2>3. Durable!Persist
    BY <1>1, <2>2 DEF Durable!Persist
  <2> QED BY <2>3
<1>3. CASE pc = "replayed"
  <2>1. ~InMemory /\ DurableTip = tip /\ cache = UTXO[tip]
    BY <1>3 DEF InMemory, Flushing, Snapshotting, CoinsInv, ViewInv, DurableTip,
                Replaying
  <2>2. MemTip = tip /\ MemCoins = UTXO[tip]
    BY <2>1 DEF MemTip, MemCoins
  <2>3. MemTip' = tip /\ MemCoins' = UTXO[tip]
    BY <1>1, <2>1 DEF MemTip, MemCoins
  <2> QED BY <1>1, <2>1, <2>2, <2>3
<1> QED BY <1>2, <1>3 DEF BatchWritePartial, BatchWriteLast

\* A crash loses what is not durable; the restart and the replay lead back to
\* the durable tip.
LEMMA DurableRestart ==
    ASSUME TypeOK, CoinsInv, CoinsInv', Crash \/ LoadChainstate \/ Replay
    PROVE  Durable!Lose \/ UNCHANGED <<MemTip, MemCoins, DurableTip>>
<1>1. UNCHANGED coinsdb
  BY DEF Crash, LoadChainstate, Replay, RollbackBlock, RollbackDone, ReplayDone,
         RollforwardBlock
<1>2. UNCHANGED DurableTip
  BY <1>1 DEF DurableTip, coinsdb
<1>3. CASE Crash
  <2>1. ~InMemory'
    BY <1>3 DEF Crash, InMemory, Flushing, Snapshotting
  <2>2. MemTip' = DurableTip /\ MemCoins' = UTXO[DurableTip]
    BY <1>2, <2>1 DEF MemTip, MemCoins
  <2> QED BY <1>2, <2>2 DEF Durable!Lose
<1>4. CASE LoadChainstate
  <2>1. ~InMemory
    BY <1>4 DEF LoadChainstate, InMemory, Flushing, Snapshotting
  <2>2. CASE headNew # NoBlock
    <3>1. ~InMemory'
      BY <1>4, <2>2 DEF LoadChainstate, InMemory, Flushing, Snapshotting
    <3> QED BY <1>2, <2>1, <3>1 DEF MemTip, MemCoins
  <2>3. CASE headNew = NoBlock
    <3>1. InMemory' /\ tip' = DurableTip
      BY <1>4, <2>3 DEF LoadChainstate, DurableTip, InMemory
    <3>2. cache' = UTXO[DurableTip]
      BY <3>1 DEF CoinsInv, ViewInv
    <3> QED BY <1>2, <2>1, <3>1, <3>2 DEF MemTip, MemCoins
  <2> QED BY <2>2, <2>3
<1>5. CASE Replay
  <2>1. ~InMemory /\ ~InMemory'
    BY <1>5 DEF Replay, RollbackBlock, RollbackDone, ReplayDone,
       RollforwardBlock, InMemory, Flushing, Snapshotting
  <2> QED BY <1>2, <2>1 DEF MemTip, MemCoins
<1> QED BY <1>3, <1>4, <1>5

\* Every step of the chainstate is a step of DurableChain or a stutter.
LEMMA DurableStep ==
    ASSUME TypeOK, CoinsInv, TypeOK', CoinsInv', [Next]_vars
    PROVE  Durable!DNext \/ UNCHANGED <<MemTip, MemCoins, DurableTip>>
<1> USE DEF InMemory, Flushing, Snapshotting
<1>1. CASE UNCHANGED vars
  BY <1>1, DurableStutter DEF vars, memory
<1>2. CASE UTXOMuHash \/ FlushStateToDisk \/ FlushIndex \/ FlushRecord
  BY <1>2, DurableStutter
  DEF UTXOMuHash, FlushStateToDisk, FlushIndex, FlushRecord, TypeOK
<1>3. ASSUME NEW b \in Block, AcceptBlock(b) \/ RejectBlock(b)
      PROVE  UNCHANGED <<MemTip, MemCoins, DurableTip>>
  BY <1>3, DurableStutter DEF AcceptBlock, RejectBlock, FlushIfNeeded
<1>4. CASE Snapshot
  BY <1>4, DurableStutter
  DEF Snapshot, SnapshotDump, SnapshotHash, SnapshotClean, FlushIfNeeded
<1>5. ASSUME NEW level, NEW n, VerifyDB(level, n)
      PROVE  UNCHANGED <<MemTip, MemCoins, DurableTip>>
  BY <1>5, DurableStutter DEF VerifyDB
<1>6. CASE Dump
  BY <1>6, DurableStutter DEF Dump, DumpBegin, DumpRollback, DumpEnd, memory
<1>7. CASE (\E b \in Block : ConnectTip(b)) \/ DisconnectTip
  BY <1>7, DurableMove DEF Durable!DNext
<1>8. CASE BatchWritePartial \/ BatchWriteLast
  BY <1>8, DurableBatch DEF Durable!DNext
<1>9. CASE Crash \/ LoadChainstate \/ Replay
  BY <1>9, DurableRestart DEF Durable!DNext
<1> QED
  BY <1>1, <1>2, <1>3, <1>4, <1>5, <1>6, <1>7, <1>8, <1>9 DEF Next, Flush

\* Every behaviour of the chainstate is, seen through its tip, its coins and
\* the tip a crash takes it back to, one in which flushing is atomic.
THEOREM FlushRefines == Spec => FlushIsAtomic
<1>1. Init => Durable!DInit
  BY DEF Init, Durable!DInit, MemTip, MemCoins, DurableTip, InMemory
<1>2. Init => TypeOK /\ CoinsInv
  BY TypeInit, CoinsInit
<1>3. TypeOK /\ CoinsInv /\ [Next]_vars => TypeOK' /\ CoinsInv'
  BY TypeStep, CoinsStep
<1>4. TypeOK /\ CoinsInv /\ TypeOK' /\ CoinsInv' /\ [Next]_vars
        => [Durable!DNext]_(Durable!dvars)
  BY DurableStep DEF Durable!dvars
<1> QED BY <1>1, <1>2, <1>3, <1>4, PTL DEF Spec, FlushIsAtomic, Durable!DSpec

\* Only BatchWrite touches the heads, and it is called with the tip that the
\* interrupted flush was for: by the flush itself, whose tip has not moved, or by
\* ReplayBlocks, which has reached that tip.
LEMMA HeadsStep ==
    ASSUME TypeOK, CoinsInv, [Next]_vars, headNew # NoBlock, headNew' # NoBlock
    PROVE  headNew' = headNew /\ headOld' = headOld
<1>1. CASE BatchWritePartial
  <2>1. headNew = tip
    BY <1>1 DEF BatchWritePartial, CoinsInv, ViewInv, InMemory, Flushing
  <2> QED BY <1>1, <2>1 DEF BatchWritePartial
<1>2. CASE BatchWriteLast
  BY <1>2 DEF BatchWriteLast
<1>3. CASE UNCHANGED coinsdb
  BY <1>3 DEF coinsdb
<1>4. UNCHANGED coinsdb \/ BatchWritePartial \/ BatchWriteLast
  <2>1. CASE UNCHANGED vars
    BY <2>1 DEF vars
  <2>2. CASE UTXOMuHash \/ FlushStateToDisk \/ FlushIndex \/ FlushRecord
    BY <2>2 DEF UTXOMuHash, FlushStateToDisk, FlushIndex, FlushRecord
  <2>3. ASSUME NEW b \in Block, AcceptBlock(b) \/ ConnectTip(b) \/ RejectBlock(b)
        PROVE  UNCHANGED coinsdb
    BY <2>3 DEF AcceptBlock, ConnectTip, RejectBlock
  <2>4. CASE DisconnectTip
    BY <2>4 DEF DisconnectTip
  <2>5. CASE Snapshot
    BY <2>5 DEF Snapshot, SnapshotDump, SnapshotHash, SnapshotClean
  <2>6. ASSUME NEW level, NEW n, VerifyDB(level, n)
        PROVE  UNCHANGED coinsdb
    BY <2>6 DEF VerifyDB
  <2>7. CASE Dump
    BY <2>7 DEF Dump, DumpBegin, DumpRollback, DumpEnd
  <2>8. CASE Crash \/ LoadChainstate \/ Replay
    BY <2>8 DEF Crash, LoadChainstate, Replay, RollbackBlock, RollbackDone, ReplayDone,
                RollforwardBlock
  <2> QED
    BY <2>1, <2>2, <2>3, <2>4, <2>5, <2>6, <2>7, <2>8 DEF Next, Flush
<1> QED BY <1>1, <1>2, <1>3, <1>4

\* A flush that was interrupted, by however many crashes and in whichever batch of
\* it or of its replay, is only ever completed to its own tip.
THEOREM TargetKept == Spec => InterruptedFlushKeepsTarget
<1>1. Init => TypeOK /\ CoinsInv
  BY TypeInit, CoinsInit
<1>2. TypeOK /\ CoinsInv /\ [Next]_vars => TypeOK' /\ CoinsInv'
  BY TypeStep, CoinsStep
<1>3. TypeOK /\ CoinsInv /\ [Next]_vars
        => [headNew # NoBlock /\ headNew' # NoBlock
              => headNew' = headNew /\ headOld' = headOld]_vars
  BY HeadsStep
<1> QED BY <1>1, <1>2, <1>3, PTL DEF Spec, InterruptedFlushKeepsTarget
===============================================================================
