# Elektron Net in TLA+

Elektron Net is a fork of Bitcoin Core with 60 s blocks. Every node prunes its
history to a fixed depth, every block attests to the UTXO set in its coinbase,
and a node that has fallen behind the pruned history of its peers loads a UTXO
snapshot from them. This directory models the parts of the node in which those
rules meet crashes, reorgs, threads and the network. TLC checks the models on
small instances; TLAPS proves the most important properties for all instances.

Source paths below are relative to `src/src/`.

## 1. The system

| Component | State | Operations | What is hard about it |
|---|---|---|---|
| Chainstate (`validation.cpp`, `txdb.cpp`, `node/chainstate.cpp`) | active chain, coins cache, coins database with best block or head blocks, block index in memory and on disk | AcceptBlock, ConnectTip, DisconnectTip, FlushStateToDisk, ReplayBlocks, VerifyDB, start-up | a flush is many writes; a crash between any two, also during a replay |
| UTXO MuHash (`kernel/utxo_muhash.h`, `validation.cpp`) | accumulator, "loaded" flag, record on disk | add/remove coins on connect and disconnect, lazy load from the record or by a scan, write with a flush | must follow the coins view through reorgs, restarts and every caller of DisconnectBlock |
| Attestation (`validation.cpp`, `node/miner.cpp`) | a hash in each coinbase | compute, embed, validate; legacy and incremental form | a node that computes a wrong hash rejects the honest chain |
| Pruning (`node/blockstorage.cpp`) | which blocks have data and undo | part of a flush | must keep what a replay or a reorg still needs |
| Automatic snapshots (`WriteAutomaticSnapshot`) | `.dat` and `.hash` files | flush, dump, rename, sidecar, clean-up | coins come from the database, the hash from the accumulator; a crash between two files |
| dumptxoutset (`rpc/blockchain.cpp`) | a temporary view | roll back block by block | releases `cs_main` between blocks |
| Snapshot download (`net_processing.cpp`) | download entries with received ranges, peers per checkpoint, temporary files | four messages, a scheduler task, the chunk loop of SendMessages | lost and late chunks, sweeps, clean-ups of files in use, restarts, rate limits, two locks |
| Snapshot activation (`init.cpp`, `ActivateSnapshot`) | one or two chainstates | load, validate, replace a chainstate | replaces a running chainstate; partial failure |
| Stuck-chain recovery (`validation.cpp`, `init.cpp`, `net_processing.cpp`) | failure flags, best invalid block | detect, load a snapshot, clear flags, sync headers again | several threads, each waiting for another's result |
| Block download, headers sync | blocks in flight, per-peer sync state | request, receive, time out | suppressed while a snapshot download is active |
| Coins cache (`coins.cpp`) | DIRTY and FRESH flags per coin | fetch, spend, flush to the parent | a wrong FRESH loses a spend |
| Proof of work (`pow.cpp`) | none | next target, permitted transition; the "Stoic Awakening" rule for minimum difficulty | rule changes in the middle of a retarget period |
| Wallet UTXO scan (`wallet/wallet.cpp`) | scanned coins | scan, scan again after an activation | the set changes between the two |

The chainstate is at the centre: the attestation of the next block, the
snapshots that peers are served and the replay after a crash are all functions
of its coins. Snapshots are written by it, downloaded by the peer code, and
loaded by the activation task, which replaces the chainstate.

## 2. Modules

| Module | Models |
|---|---|
| `UtxoChain` | the block tree (constants), what a block does to a set of coins and to the accumulator, computing and validating an attestation |
| `Chainstate` | one chainstate: coins, accumulator, record, block index, pruning, snapshots, VerifyDB, dumptxoutset, crash and replay |
| `DurableChain` | abstract: what a chainstate promises, with a flush and a crash of one step each |
| `MCChainstate` | instances of `Chainstate` for TLC |
| `CoinsCache` | the coins database and two layers of caches over it, with DIRTY and FRESH flags |
| `CoinsView` | abstract: the same three views as plain maps from outpoints to coins |
| `BlockAttestation` | the attestation of a block transaction by transaction, from the template to validation |
| `Pow` | the next target, the Stoic Awakening escape, the retarget, the check of the headers pre-synchronisation |
| `ReceivedRanges` | the interval map of a download, against a plain set of bytes |
| `SnapshotDownload` | requesting, serving, receiving, cleaning up and activating snapshots |
| `ChunkPacing` | the request timer of the node and the rate limit of the peer, in seconds |
| `SnapshotActivation` | switching a running node to a snapshot, replacing one snapshot by a newer one, and what a start finds |
| `StuckChainRecovery` | a node that rejected the chain of the network: failure flags, best header, headers and blocks of a peer, and the snapshot that gets it off the verdict |
| `MCRecovery` | `SnapshotActivation` and an instance of `StuckChainRecovery` for TLC |
| `MCAlgorithms` | instances of `CoinsCache`, `ReceivedRanges`, `ChunkPacing`, `Pow` and `BlockAttestation` for TLC |
| `NetLocks` | the order in which three threads take `cs_main` and `m_snapshot_download_mutex` |
| `ChainstateProofs`, `ReplayProofs` | theorems about `Chainstate` |
| `SnapshotProofs` | theorems about `SnapshotDownload` and `ReceivedRanges` |
| `AttestationProofs`, `PowProofs` | theorems about `BlockAttestation`, `Pow` |
| `CoinsCacheProofs`, `ActivationProofs`, `RecoveryProofs` | theorems about `CoinsCache`, `SnapshotActivation`, `StuckChainRecovery` |

### UtxoChain and Chainstate

A coin is an outpoint with its content. A block is given by its parent, the coins
it spends (`Ins`) and creates (`Outs`), and the hash in its coinbase (`Att`).
Coins created and spent within one block cancel in every view that outlives the
block and are left out. MuHash maps into an abelian group, so the accumulator is
the number of times each coin was added minus the number of times it was removed,
and the hash is that function (no collisions). `AttOuts` is `Outs` with the
coinbase under the txid it has without the attestation output, as
`ComputeBlockUTXOAttestationHash` sees it.

`cs_main` makes operations atomic; the variable `pc` splits those that write to
disk at every point where a crash can separate two writes:

    ready -> flushIndex -> flushCoins (any number of batches) -> flushRec -> ready
                                                                 -> snapDump -> snapHash -> snapClean
    crash: down -> ready, or back -> fwd -> replayed (batches) -> ready

* `ConnectTip`/`RejectBlock`/`DisconnectTip` are the outcomes of
  `ActivateBestChainStep` for the block `FindMostWorkChain` leads to. Each may end
  in the flush that `FlushStateToDisk(IF_NEEDED)` decides on; `m_chain`
  (`chain`) moves only after it, which pruning sees.
* `FlushIndex` prunes any subset of what `GetPruneRange` allows (how blocks share
  files is not modelled) and writes the index. `BatchWritePartial` and
  `BatchWriteLast` are `CCoinsViewDB::BatchWrite`. `FlushRecord` is
  `WriteUTXOMuHashState`.
* `SnapshotDump`, `SnapshotHash`, `SnapshotClean` are `WriteAutomaticSnapshot` after
  its forced flush. It returns before that flush when it cannot create its file, and gives
  up on any error later; `ConnectTip` then goes on without the flush.
* `DumpBegin`, `DumpRollback`, `DumpEnd` are `CreateRolledBackUTXOSnapshot`.
* `LoadChainstate`, `RollbackBlock`, `RollforwardBlock`, `ReplayDone` are start-up
  and `ReplayBlocks`. A block that is missing ends the start with an error (`broken`), so
  the runs with crashes do not check for deadlock.

Simplifications: reorgs come from `FindMostWorkChain` only (no `invalidateblock`,
`preciousblock`); blocks of the active chain that were pruned are not fetched again
(`getblockfrompeer`); all blocks have the same work; database write errors, which
abort the node, do not occur; `VerifyDB` ends with success when blocks are missing;
a snapshot whose sidecar could not be written is always removed;
a cache shows exactly the coins of its layers (which `CoinsCache` justifies), and a
block's attestation follows from its net effect (which `BlockAttestation` justifies).

### SnapshotDownload

Checkpoint n is the block at height n * `MandatoryPruneDepth`. `net` and `own` are
the latest checkpoints below the best header and below the tip, and `wide` says
whether the gap is at least an interval. Timers are nondeterministic: a limit of
10 s, 60 s, 30 min or 6 h may have passed at any step. Peers run the same code, so
the files of one checkpoint are equal. Received ranges are sets of bytes, which
`ReceivedRanges` justifies. Messages are lost with their connection or dropped by
the peer, and arrive in any order. Sidecar writes, temporary files and renames may
fail. The activation task succeeds or refuses; what it does to the chainstate is
the subject of `SnapshotActivation`. "Stuck on an invalid chain" as a third reason to
need a snapshot is in `StuckChainRecovery`.

### SnapshotActivation

The chainstate list and the two coins directories of a node, and the scheduler task
that switches to a snapshot. `cs_main` is released between the parts of
`ActivateSnapshot`, so `pc` splits it:

    idle -> checked -> opened -> loading (partial flushes) -> loaded -> verified -> switched -> idle
              |          |           |                         |           |
              (assert)   work        read error, interrupt     hash        work, base file

and the message thread may accept headers, blocks and transactions at each point, and
the process may die. A failure runs `cleanup_bad_snapshot` and sets the file aside. The
header chain is one branch; the coins after a block are a function of its height, which
tells a whole snapshot from a partial one and one height from another. A file is good,
corrupt (found while reading or by its hash), misnamed or without a sidecar. A file whose
metadata cannot be parsed is left out: the task leaves it in place (`init.cpp:1558`).
`LoadChainstate` is the start: it detects the snapshot directory, deletes the other one,
and looks the best block of the coins up in the index. A start that fails is followed by
`-reindex-chainstate`. The check `CheckBlockIndex` makes of transaction counts is not
modelled, nor is the deletion of `.download` files at the end of an activation.

### StuckChainRecovery

A node whose accumulator or rules are wrong (`right` is false) rejects the blocks of the network
after height `fork` and may follow a branch of its own. Blocks are pairs of a branch and a height,
and the block index (`index`, `data`, `failed`, `bestHeader`, `bestInvalid`) is that of
`validation.cpp`. `ActivateBestChain` connects a heavier chain or flags its blocks;
`StartSync`, `Headers`, `Announce` and `ReceiveBlock` are the synchronisation with one peer, in
which a refused header ends a message (`AcceptBlockHeader`); `MaybeRequestSnapshot` asks for the
checkpoint of the best invalid block; `CheckSnapshot` is the activation task, which clears the
flags and computes the best header again; `ActivateSnapshot` or `ActivationFails` end the loading.
`Restart` keeps what is on disk and may bring software with the rules of the network.

Simplifications: the download of a snapshot is one step, and only one is downloaded at a time;
blocks arrive without a request of their own; peers still have the blocks after the fork; in a tie
of work the tip stays; an activation gives the node the network's attestations (the accumulator
is computed from the coins of the snapshot).

### CoinsCache and CoinsView

A cache entry is a coin or a cleared coin with its flags, and `tipDirty`, `viewDirty` are
the counters `m_dirty_count`. The operations on one entry (`Fetched`, `Added`, `Spent`,
`Merged`) are those of `coins.cpp`; the actions are the calls the node makes through them
under `cs_main`: connecting a block (`CoinsViewOverlay`, which does not fill the cache
below it), disconnecting one, flushing the view into `CoinsTip()`, `Flush`, `Sync`,
`Uncache`, loading a snapshot with `EmplaceCoinInternalDANGER`, and a crash between two
calls (a crash inside a database flush is `Chainstate`'s subject). A callers' obligation
is a guard: a coin is added without `possible_overwrite` only where there is none.

### BlockAttestation

Transactions form chains in a pool. `CreateNewBlock` is split at each chunk it takes, skips
or stops at; a template gets its attestation; `generateblock` replaces the transactions of a
template and regenerates it; a foreign block has any transactions in any order. Each is
checked as `ValidateUTXOCheckpoint` does, by the height's rule: `HASH_SERIALIZED` over a view,
MuHash with inputs looked up in the view below the block, or MuHash with lookups through the
block. The coinbase has another txid in the attestation than in the coins.

The block builder (`txgraph.cpp`) holds a linearization of each cluster, any topological one,
cut into chunks as `ChunkLinearizationInfo` does: `starts` are the positions where chunks begin
and `pos` is where the cluster has got to. Chunks of different clusters come by fee rate.

### ReceivedRanges

The map from the begin of a range to its end is a set of pairs. One turn of the merge loop of
`AddRange` is `Swallow`; `Merge` takes as many turns as there are ranges ahead, which is the
most the loop can take, and a turn after its end changes nothing.

### Pow

Words of `Width` bits and digits of `DigitBits` scale `arith_uint256` and its compact form
down; products wrap. A state is a network's parameters and the blocks since the last retarget.

### ChunkPacing

Time is counted in seconds, with the limits of the code (10 s, 2 s). The connection is
ordered and reliable, with any delay.

## 3. Runs

| Run | Question | Result |
|---|---|---|
| `muhash` | Does the accumulator, its record, each decision about a block and each snapshot follow the real UTXO set, through reorgs, pruning, VerifyDB and a crash? | holds, with no dumptxoutset rollback and no crash in the flush of a reorg |
| `crash` | With a crash anywhere, is a flush atomic, does the replay find its blocks, does the node come back, does a rollback of dumptxoutset read the right coins? | holds; a replay can lack a block only when no flush was made for a whole retention period |
| `download` | Is every snapshot put in place whole, and does every download entry end while a snapshot is needed? | holds |
| `activation` | Through bad files, blocks and transactions in between, errors, an interrupt, a crash and restarts: is what becomes current verified, found again, never behind, and every file dealt with? And does a node that rejected the chain of the network get back to it, with a consistent block index? | holds, the second where the recovery applies |
| `algorithms` | Do the caches, ranges, paced requests, attestations and difficulty rules compute what the other modules take for granted? | holds, for a target limit that leaves room for a retarget's product |
| `replay_muhash` | With a crash in the flush of a reorg, is the accumulator right? | no: finding 1 |
| `dump_muhash` | ... and with a dumptxoutset rollback? | no: finding 2 |
| `verify_level4` | Does VerifyDB accept an intact chain at level 4? | no: finding 3 |
| `download_left_behind` | Does a download entry end when the snapshot is no longer needed? | no: finding 4 |
| `blocks_within_retention` | Are block requests only held back for a snapshot that will be tried? | no: finding 5 |
| `own_snapshot_reload` | Does a node leave alone a snapshot it wrote itself? | no: finding 6 |
| `lock_order` | Can two threads wait for each other? | yes: finding 7 |

`algorithms` runs five modules that share no state in one model: the variable `part`
says which of them a behaviour runs. So do the two of `activation`.

Properties, by what they guard:

* `CoinsConsistent`, `InterruptedFlushKeepsTarget`, `FlushIsAtomic`, `Recovers`:
  crashes in batched flushes and in replays. `FlushIsAtomic` is refinement:
  `Chainstate` implements `DurableChain` with the durable tip mapped to the target of
  an interrupted flush, if there is one, else the best block of the database.
* `ReplaySucceeds`: pruning and the order of writes leave a replay without block or undo
  data only where the block it lacks is `MandatoryPruneDepth - 1` or more below the tip of
  the interrupted flush. `Recovers` excepts only that case.
* `MuHashLockstep`, `MuHashRecordFaithful`: the accumulator and its record.
* `HonestBlocksAccepted`, `AttestedChain`: exactly the honest blocks are connected.
* `SnapshotsFaithful`: a snapshot with a sidecar is the UTXO set of its block.
* `VerifySucceeds`, `DumpViewFaithful`: scratch views over a changing chain.
* `SnapshotsWhole`: a `.dat` file is complete and has a sidecar unless the node
  wrote it itself (a crash of `WriteAutomaticSnapshot` leaves one without).
* `CoverageExact`, `ProgressExact`: the interval map.
* `TransferCompletes`: a request the peer drops is repeated until every chunk is there.
* `ActiveCoinsVerified`: what a snapshot file held was hashed before it became current. Only
  a replacement cut short by a crash escapes this (`Torn`, section 4).
* `IntactReplacementPasses`: nothing of the replaced snapshot is left to fail the new one.
* `CurrentResolves`, `ValidatedTakesOver`, `RestartLoadsCurrent`: chainstate list and
  directories agree, and the accessors that abort when they find nothing find something.
* `TipNeverFallsBack`: a snapshot that was overtaken while it was loaded is dropped.
* `SnapshotsHandled`: a usable file is activated or set aside, none is tried for ever.
* `VerdictConsistent`: failure flags, best header and best invalid block stay
  in agreement when a verdict is made, taken back and made again in the middle of an activation.
* `RejectionEnds`: a node with the right rules catches up, also when the activation fails, except
  in the two cases of section 4.
* `NoLogicError`, `SanityCheck`, `ScanMatchesLookups`, `ImplementsViews`: the flags. The last
  one is refinement: the caches implement `CoinsView`, in which a flush is the copy of a map.
* `AttestationTrue`, `AccumulatorExact`, `OwnBlocksValid`, `TemplateOutsideGap`: a block that
  was accepted attests the coins after it; a node accepts what it builds; and only between the
  two activation heights can a call for a template fail.
* `RequiredIsPermitted`, `RetargetExact`, `EscapeEnds`: what a node requires passes the headers
  pre-synchronisation, a retarget computes what whole numbers would, an escape to
  minimum difficulty ends with the next block that is on time.
* `DownloadEndsWhileNeeded`: no entry suppresses block download for ever.

### Bounds

* Chainstate: a tree with two branches that fork after the first block and both spend
  its coin. In `muhash` they are three and four blocks long, so that reorgs of depth one
  and two occur, with a third branch whose attestation is wrong, and one crash. In
  `crash` the shorter branch ends one block earlier, so a replay rolls back one block and
  forward up to three; there are two crashes, so that the second can hit the replay of
  the first, and one dumptxoutset rollback. `MandatoryPruneDepth` is 3: checkpoints,
  pruning and reorgs meet. `crash` has 341,861 distinct states, `muhash` 465,367. In `muhash` MuHash attestation activates at height 2, so both
  forms of the attestation are validated; VerifyDB is called up to level 3 (level 4 is the
  subject of `verify_level4`, and the theorems about the accumulator include it). The proofs have none of these bounds.
* `download`: two checkpoints (a clean-up for one hits the files of the other), a file of
  two chunks, the second one short, one peer, one message in flight, one restart. A chunk of
  an earlier attempt cannot meet the offer of a later one with one message; the theorem
  `DownloadedSnapshotsWhole` has no such bound.
* `activation`: two checkpoints, two blocks apart: a first activation, a replacement, and a
  block between them that the node may connect by itself. Crashes and restarts are unbounded.
  Of the recovery: a fork two blocks before the checkpoint, so that the first rejected block is
  not the checkpoint, or at the checkpoint, which then carries no flag; a network that grows to two
  blocks after the checkpoint, past the threshold of one; an own branch up to the checkpoint's
  height, shorter than, as long as or longer than what the network has; one restart or lost connection.
* `algorithms`: two outpoints and two coins, so that an entry can be overwritten by another
  coin and two entries can differ in their flags (the proofs have no bound); eight bytes, so up
  to four separate ranges, where AddRange looks at one range to the left and a run of them to
  the right; three chunks with the real intervals in seconds; two retargets of four blocks, with
  block times early, on time, late enough for the escape and beyond a retarget's clamp; three
  heights, one under each rule of the attestation, with chains of up to three transactions.

### Fairness

`Chainstate`: a thread inside a flush, a snapshot or a replay goes on, and a stopped
node is started again; nothing is assumed about blocks arriving or about crashes,
which are bounded by `MaxCrash`. `SnapshotDownload`: the scheduler task runs again and
again (`scheduleEvery`) and finds an entry older than 6 h expired; message handlers and
the chunk loop run as long as there is something to do; the activation task runs.
Nothing is assumed of peers: they may never answer and may disconnect.
`SnapshotActivation`: the task runs every 30 s and each call of it returns; nothing is assumed
of messages, the operator or crashes. `StuckChainRecovery`: the peer's headers arrive, a snapshot
that was asked for arrives, the task runs, and a better chain is looked for; nothing is assumed of
the outcome of an activation, of miners or restarts. For blocks it is strong fairness: they are not
asked for during a snapshot download, but two requests for a snapshot are at least 60 s apart
(`m_last_snapshot_request`), and blocks arrive in between. `ChunkPacing`: time passes, the request loop runs, and
messages on an open connection are delivered.

## 4. Findings

1. `ReplayBlocks` (`validation.cpp:5307`) disconnects blocks with the accumulator
   switched on, which loads it by a scan of a half-written database, and rolls forward
   without it. The node starts with a loaded accumulator of no block. `validation.h:869`
   names ReplayBlocks as a caller the accumulator must track.
2. The dumptxoutset rollback (`rpc/blockchain.cpp:3309`) disconnects blocks from a
   temporary view with the accumulator switched on. Afterwards the accumulator is not
   that of `CoinsTip()`, as `validation.h:776` says it is.
3. `VerifyDB` at level 4 (`validation.cpp:5214`) checks attestations against the backend
   of its scratch view. `test/functional/rpc_blockchain.py:106` asserts success.
4. `MaybeRequestSnapshot` returns before its sweep once no snapshot is needed, so a
   download that stalls afterwards stays, and with it the suppression of block requests.
5. A local `.dat` that the activation task will not load again holds back block requests
   while the gap is within retention (`net_processing.cpp:6866`).
6. The activation task compares a file with the base of the snapshot chainstate
   (`init.cpp:1595`), not with its tip. A node in IBD that has connected the next checkpoint
   itself activates its own file for it: `ActivateSnapshot` closes and wipes the coins it runs on
   (`validation.cpp:6198`) before the work comparison refuses the file. `init.cpp:1482` says
   nodes "must not accidentally re-load them".
7. The UTXOSNAPSHOT handler takes `cs_main` under `m_snapshot_download_mutex`, all others
   the opposite order.

Other observations, which the models show but no run states:

* A retry of a download starts with empty `received_ranges` and requests every byte again;
  comments at `net_processing.cpp:5530` and `5644` say it resumes from the kept temporary file.
  `SnapshotsWhole` is what makes this safe.
* An answer clears the request timer (`net_processing.cpp:5601`), so the next request falls in
  the 2 s in which the peer drops requests, and is repeated 10 s later. The comment at
  `net_processing.cpp:197` calls the limit a "wide margin below legitimate use".
  `TransferCompletes` shows that the transfer still ends.
* Between the two attestation heights, a parent and a child in two chunks of one transaction
  each both enter a template (`node/miner.cpp:355` skips only chunks of several), its
  attestation fails and `CreateNewBlock` returns nothing, although `node/miner.cpp:325` means to
  keep "single-transaction chunks (and, absent any, at least the coinbase)" flowing.
  `TemplateOutsideGap` states where a template is certain. In the same range of heights,
  `generateblock` with transactions out of order ends in an error; below it, in a failed assertion
  of `UpdateCoins`.
* With the target limit of mainnet the product of a retarget (`pow.cpp:82`) does not fit in 256
  bits for the largest targets: `RetargetExact` and `RequiredIsPermitted` fail with such a limit.
  `doc-elektron/fix-report-powlimit-retarget-overflow.md` documents it; `test/pow_tests.cpp:179`
  and `test/fuzz/pow.cpp:123` state what fails. `algorithms` uses a limit that leaves room.
* An escape to minimum difficulty in the block before `StoicAwakeningEndHeight` keeps the rest of
  that period at the limit, since the walk back is part of the rule that has ended.
* After a replacement no chainstate is validated until the next start (`ValidatedTakesOver` has
  this as an exception): a second replacement in one session fails an assertion of
  `AddChainstate`. So does an activation that meets a transaction which entered the mempool while
  the coins were loaded; a mempool that is not empty before that sets a good file aside.
* A crash during a replacement leaves the old `base_blockhash` file beside coins of the new
  snapshot (`Torn`). After a partial flush the node refuses to start; after the last one it
  starts with the new coins under the old base.
* The flush that a checkpoint forces is skipped when the snapshot's file exists or cannot be created
  (`validation.cpp:2568`, `2573`, `2583`). If nothing else flushes for a whole retention period, a
  flush prunes blocks that its own replay would need (`validation.cpp:7039`): `ReplaySucceeds` has
  this as its exception. The periodic flush makes it unlikely.
* A first activation opens its database without a wipe, so coins left there by an attempt that
  was cut short make an intact file of another checkpoint fail its hash check.

* `RejectionEnds` has two exceptions. First, a node that was online when it rejected a block:
  `AcceptBlockHeader` refuses every later header of that chain (`bad-prevblk`), so `m_best_invalid`
  stays at that block, within the threshold, and neither detection nor request ever happens, also
  after an update of the software. `validation.h:1504` and `net_processing.cpp:2252` take it for the
  rejected chain's tip, and `doc-elektron/CHANGELOG-muhash-attestation.md:219` promises "fully
  automatic recovery". Recovery does work when the headers were there before the blocks were tried.
* Second, a node whose attestations are still wrong when the flags are cleared flags the blocks
  again while the coins are loaded, if it has their data. It then runs on the snapshot with the
  chain after it rejected, and has no newer checkpoint to ask for: later headers are refused.
* When a first activation fails after the flags were cleared, the next one does not count as a
  recovery, and `ResyncHeadersAfterRecovery` is not called. Announcements of blocks make up for it.

## 5. Proofs

The theorems hold for every value of the constants that satisfies the ASSUMEs of
`UtxoChain`, `Chainstate`, `CoinsCache`, `SnapshotDownload` and `SnapshotActivation`: a block is
one higher than its parent, spends coins that exist and creates coins that do not; there are
finitely many outpoints; the placeholders for "nothing" are no values. Hypotheses beyond these are
part of a theorem's statement and are given below; those about `Pow` and `BlockAttestation`
(`ConstantsFit`, `PowersFit`, `LimitsFit`) are evaluated by TLC for the instance of `MCAlgorithms`
(`PartsFit`). That blocks form a tree is proved from the heights (`TreeInduction`).

Chainstate:

* `TypeCorrect`, `CoinsCorrect` (`ChainstateProofs`). `CoinsConsistent` is not inductive:
  after a crash the database is at no block. `CoinsInv` adds that it is then *between*
  the two heads (every coin is as in one or as in the other), and that a replay keeps
  its view between the block it has reached and the target (`UndoBetween`, `ApplyBetween`:
  undoing and applying a block are idempotent on such sets); at the target the two ends
  coincide. There is no bound on crashes, and crashes in replays are included.
* `FlushRefines`, `TargetKept` (`ReplayProofs`): every step of `Chainstate` is a step of
  `DurableChain` or a stutter, and the first batch of a flush is the atomic write. Only
  BatchWrite touches the heads, and it is always called with the tip they name.
* `ReplayCorrect`, from `ReplayInv`: between the database and the tip there
  is block data on the way there and undo data on the way back, up to what pruning may take
  during the flush in progress, and the chain has undo data wherever it has block data. The tip
  that pruning measures from (`m_chain`) is at most one block above the tip being flushed, which
  is where the `+ 1` of `ReplaySucceeds` comes from. The first version of the property, "a replay
  never lacks a block", could not be proved: its argument needs the flush at every checkpoint,
  and `WriteAutomaticSnapshot` returns before that flush when it cannot create its file.
* `VerifyCorrect`: with `MaxVerify < 4`, which finding 3 makes necessary. It uses `ReplayInv`, and
  that every block of the range disconnects cleanly from what the blocks above it leave.
* `DumpCorrect`: from `CoinsInv`, with no restriction on what happens between two steps.
* `MuHashCorrect`, `MuHashRecordCorrect`, `HonestCorrect`, `SnapshotsCorrect`
  (`ChainstateProofs`), from `AccInv`: an unloaded accumulator means view and database agree,
  a record names the block it is of, and a replay never loads the accumulator.
  `AttestedCorrect` (`ReplayProofs`) adds that also the chains of the two heads on disk were
  attested. They assume `MaxDump = 0` and `CrashInReorgFlush = FALSE`, because findings 1 and 2
  refute them otherwise; `CrashInReorgFlush` restricts where a crash may fall, not what it does.

Other components:

* `CacheCoherent`, `NeverThrows`, `ScansExact`, `CachesImplementViews` (`CoinsCacheProofs`), from
  `CacheInv`: an entry that is not DIRTY equals what the layer below answers, a FRESH one stands
  over a layer that has no such coin, and a cleared coin is never FRESH. One lemma per operation
  on an entry, one per action; a flush is proved entry by entry. The refinement maps each layer to
  what lookups through it find.
* `CachesSane`: `CountInv` adds that each counter is the cardinality of the set of DIRTY entries
  (`EntryCount`, `MovedCount`: what one changed entry does to it).
* `DownloadTypes`, `DownloadedSnapshotsWhole` (`SnapshotProofs`), from `ReceivedInv`: what an
  entry counts as received is in its file, if the file exists, and what is not being
  downloaded has received nothing. So neither a file kept from an earlier attempt, nor one
  removed by a clean-up under a running download, ends as an incomplete snapshot.
* `RangesAreExact`, `ProgressIsExact` (`SnapshotProofs`, where `Ranges` is an instance of
  `ReceivedRanges`), for every file size, from `RangesInv`: no two ranges touch, and together they
  are the bytes received. The merge loop is followed turn by turn (`SwallowKeeps`): what is ahead
  lies to the right of the new range or touches it, and with one range less ahead after each turn
  that changes anything, nothing within reach is left after the last (`MergeIs`). So the bytes that
  `SnapshotDownload` keeps as a set are what the code keeps as ranges.
* `AttestationIsTrue`, `AccumulatorIsExact`, `OwnBlocksAreValid`, `TemplateIsThereOutsideGap`
  (`AttestationProofs`), for any number of coins, transactions and blocks, any fees, any limits of
  a block and any two activation heights. `ConstantsFit` says that the bounds are numbers and
  `None` no value. Three computations over the same transactions meet here: the coins view
  (`UpdateCoins`), the hash of a block under its three rules, and the commit of `ConnectBlock`.
  Each is shown to give the coins before the block and its outputs without its inputs, if every
  input is there when its turn comes (`Ordered`); the rule between the two heights needs every
  input in the coins below the block, which is why a template can fail there and a valid block
  still attests the right set. `Inv` adds to the properties that the mempool spends no output
  twice and nothing that is not there, that a template is made of it, and, for a block under way
  (`BuilderInv`), that clusters are apart, that a cluster has put exactly the transactions before
  `pos` into the block, and that the block has no transaction before its parents. That chunks are
  taken by fee rate plays no part in it: any order of the clusters, and any cut into chunks, keeps
  parents first.
* `EscapeDoesEnd`, `RetargetIsExact`, `RequiredDoesPass`, `LimitLeavesRoom` (`PowProofs`), for any
  spacing, interval, block times, digits of the compact form and set of networks (`ConstantsFit`)
  in which one that does not retarget, or retargets from the first block (BIP94), allows minimum
  difficulty, as each network of `kernel/chainparams.cpp` does. `PowersFit` states what the provers
  do not know of powers: `Base` is even and at least 2, `Base^k` is `Base` times the power before
  it, and the word is a whole number of digits. `EscapeDoesEnd` has no other hypothesis. The two
  theorems about retargets are about behaviours in which the target that a retarget starts from
  leaves room for the product (`[]ProductFits`). On a network whose limit passes
  `sanity_check_chainparams` (`LimitsFit`; signet's does) that is always so, which is
  `LimitLeavesRoom`. The limits of mainnet and the test networks do not pass it (section 4), and
  there the theorems say nothing of a period that ends with a target too near the limit.
  `RequiredDoesPass` rests on lemmas about the compact form: `SetCompact` of `GetCompact` rounds a
  number down to a multiple of a power of `Base` (`RoundedIs`, with the digit that the sign bit
  costs) and keeps the order of numbers (`RoundedMonotone`). The retarget clamps the time and
  rounds once; the check rounds the targets for a quarter and for four times the timespan. `Inv`
  says that within a period a block has the difficulty of the first or the limit; with it the walk
  back of the escape (`LastNonSpecialIs`) always ends at the difficulty of the first.
* `ActivationInvariance` and seven consequences of it (`ActivationProofs`): the safety properties
  that `activation` checks of `SnapshotActivation`, for any checkpoint interval and any number of
  blocks. `ActivationInv` says, phase by phase, which chainstates are listed and which directory
  belongs to each, what a directory on disk holds if it was not torn by a crash in a replacement,
  what of the file is in the database so far, and that the current chainstate has its directory
  behind it. None of the consequences is inductive without the others. `TipNeverFallsBack` is an
  action property: the step that switches compares the work again.
* `VerdictAlwaysConsistent` (`RecoveryProofs`), for forks that are heights (`Forks \subseteq Nat`)
  and a `None` that is no block. `RecoveryInv` adds that the index is closed under ancestors, and
  that what the node knows of its peer, and the snapshot it loads, are in the index. New headers
  are added one height at a time, which takes an induction over heights.

The prover cannot instantiate the library's induction theorems. Induction over heights goes through
the least number principle instead (`LeastNumber`, `LeastNatural`: the set of counterexamples has a
smallest height), and a recursive function is unfolded by giving a function that satisfies its
definition (`AncestorsUnfold`, `VerifyViewIs`).

The loops of `Replayed`, `MuHashed`, `Committed` and `Merge` are recursive functions from the number
of a turn to the state after it. That there is such a function (`ReplayTurns`, `IncrementalTurns`,
`CommitTurns`, `IsTurns`), and what it gives, is shown turn by turn (`LoopInduction`).

Only model-checked: liveness, which the prover cannot do (`Recovers`, `DownloadEndsWhileNeeded`,
`SnapshotsHandled`, `RejectionEnds`, `TransferCompletes`). `ChunkPacing` has only such a property,
and `NetLocks` only one that is violated.

## 6. Not modelled

* Of block download and headers sync: blocks in flight and their timeouts, several peers, and the
  low-work headers sync except for its difficulty check.
* Background validation of a snapshot (`MaybeValidateSnapshot`): the historical chainstate is
  deleted at the end of an activation.
* `invalidateblock`, `preciousblock`, reindexing, write errors of the databases (which abort the
  node), the packing of blocks into files, the format of snapshot files.
* The wallet, its UTXO scan included.
* Script and signature checks, the mempool and policy, sockets and address management, indexes,
  RPC, REST, ZMQ and GUI front ends, translations, the external miners under `mining/`, the web
  tools under `contrib/` (faucet, node map), and the libraries (LevelDB, secp256k1, univalue,
  minisketch). They are inherited code, pure computation, or input and output; LevelDB appears as
  atomic batches.
