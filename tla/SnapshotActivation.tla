------------------------- MODULE SnapshotActivation -------------------------
(***************************************************************************)
(* How a node switches to a downloaded UTXO snapshot while it runs, and    *)
(* what it finds on its disk when it starts again.                         *)
(*                                                                         *)
(* The scheduler thread looks for a snapshot file every 30 seconds         *)
(* (MaybeActivateAutomaticSnapshot), and hands it to ActivateSnapshot,     *)
(* which takes and releases cs_main several times: while the coins of the  *)
(* file are loaded and hashed, the message thread goes on connecting       *)
(* blocks and accepting transactions, and the process may die.  A start    *)
(* (LoadChainstate) sees only the two coins directories.                   *)
(*                                                                         *)
(* The header chain is one branch, so a height names a block and orders    *)
(* the blocks by work.  The set of unspent coins after block h is Utxo(h): *)
(* every block creates one coin and spends the one two blocks below.       *)
(***************************************************************************)
EXTENDS Integers, Sequences, FiniteSets, FiniteSetsExt

CONSTANTS Interval,    \* Consensus::Params::MandatoryPruneDepth
          MaxHeight,   \* bound on the header chain
          None,        \* no block, no file, no directory, no coins view
          Unknown      \* a best block hash that names no block

Height == 0..MaxHeight
Checkpoint == {h \in 1..MaxHeight : h % Interval = 0}

VARIABLES
    chainstates,  \* ChainstateManager::m_chainstates
    chainDir,     \* the coins database in chainstate/
    snapDir,      \* the coins database in chainstate_snapshot/
    files,        \* the .dat files of snapshots/, by checkpoint height
    requested,    \* checkpoints asked of the peers and not yet received
    best,         \* the height of m_best_header
    ibd,          \* m_cached_is_ibd
    mempool,      \* TRUE when the mempool holds a transaction
    activated,    \* s_activated_snapshot_hash
    pc,           \* where the scheduler thread is in ActivateSnapshot
    file,         \* the checkpoint it is activating
    kind,         \* what is in the file it has opened
    replacing,    \* replacing_snapshot
    up            \* running, stopped, aborted on an assertion, or unable to start

disk == <<chainDir, snapDir>>
node == <<chainstates, best, ibd, mempool, requested, activated>>
task == <<pc, file, kind, replacing>>
vars == <<disk, node, task, files, up>>

Utxo(h) == {i \in 0..h : i >= h - 1}

-----------------------------------------------------------------------------
(***************************************************************************)
(* Chainstates and their directories.  "base" is the base_blockhash file,  *)
(* "origin" the block from which the chain of received blocks under the    *)
(* store's coins starts: the blocks at or below it have no transactions in *)
(* the block index.                                                        *)
(***************************************************************************)
Store == [coins : SUBSET Height, best : Height \cup {None, Unknown},
          base : Height \cup {None}, origin : Height]
Chain == [from : Height \cup {None}, tip : Height,
          coins : (SUBSET Height) \cup {None},
          target : Height \cup {None}, validated : BOOLEAN]
Kinds == {"good", "corrupt", "misnamed", "unhashed"}

\* None stands for nothing: it is no height, no set of coins and no store.
ASSUME ActivationConstants ==
    /\ Interval \in Nat \ {0}
    /\ MaxHeight \in Nat
    /\ None \notin Int
    /\ \A coins \in SUBSET Height : None # coins
    /\ \A store \in Store : None # store
    /\ Unknown \notin Int \cup {None}

EmptyStore(origin) ==
    [coins |-> {}, best |-> None, base |-> None, origin |-> origin]

\* InitCoinsDB, the cache on top of it and LoadChainTip: an empty database
\* starts from the genesis block.
Opened(store, from, target, validated) ==
    [from |-> from, target |-> target, validated |-> validated,
     tip |-> IF store.best = None THEN 0 ELSE store.best,
     coins |-> IF store.best = None THEN Utxo(0) ELSE store.coins]

Candidates == {i \in DOMAIN chainstates : chainstates[i].target = None}

\* CurrentChainstate: the first chainstate that targets no block.
CurrentIndex == Min(Candidates)
Current == chainstates[CurrentIndex]

\* HistoricalChainstate
Historical == {i \in DOMAIN chainstates : chainstates[i].target # None}

WithCurrent(cs) == [chainstates EXCEPT ![CurrentIndex] = cs]

\* FlushStateToDisk of a chainstate, into its own directory.
FlushStateToDisk(cs) ==
    LET Write(store) == [store EXCEPT !.coins = cs.coins, !.best = cs.tip]
    IN IF cs.from = None
       THEN chainDir' = Write(chainDir) /\ UNCHANGED snapDir
       ELSE snapDir' = Write(snapDir) /\ UNCHANGED chainDir

HasFallenBehindPruneHorizon ==
    best >= Interval /\ best - Current.tip >= Interval

Init ==
    /\ chainDir = EmptyStore(0)
    /\ snapDir = None
    /\ chainstates = <<Opened(chainDir, None, None, TRUE)>>
    /\ files = [h \in Checkpoint |-> None]
    /\ requested = {}
    /\ best = 0
    /\ ibd = TRUE
    /\ mempool = FALSE
    /\ activated = None
    /\ pc = "idle" /\ file = None /\ kind = None /\ replacing = FALSE
    /\ up = "running"

-----------------------------------------------------------------------------
(* The message thread.                                                     *)

AcceptHeader ==
    /\ up = "running" /\ best < MaxHeight
    /\ best' = best + 1
    /\ UNCHANGED <<disk, chainstates, ibd, mempool, requested, activated, task, files, up>>

\* The process ends: what it had in memory is gone.
Halt(status) ==
    /\ up' = status
    /\ chainstates' = <<>> /\ requested' = {}
    /\ ibd' = TRUE /\ mempool' = FALSE /\ activated' = None
    /\ pc' = "idle" /\ file' = None /\ kind' = None /\ replacing' = FALSE
    /\ UNCHANGED best

\* A failed assertion: the process dies where it stands.
Abort == Halt("aborted") /\ UNCHANGED <<disk, files>>

\* A block can follow the tip when the blocks under the tip are linked down to
\* the snapshot base or to genesis, and it connects when the coins it spends
\* and attests are the ones of its parent.
Linked == Current.from # None /\ snapDir # None => snapDir.base = snapDir.origin

\* ConnectTip.  A checkpoint block writes a snapshot file of its own, after a
\* forced flush.
ConnectTip ==
    /\ up = "running" /\ Current.tip < best /\ Linked
    /\ IF Current.coins = None THEN Abort
       ELSE LET h == Current.tip + 1
                next == [Current EXCEPT !.tip = h, !.coins = Utxo(h)]
                writes == h \in Checkpoint /\ files[h] = None
            IN /\ Current.coins = Utxo(Current.tip)
               /\ chainstates' = WithCurrent(next)
               /\ files' = [f \in Checkpoint |-> IF writes /\ f = h THEN "good" ELSE files[f]]
               /\ FlushStateToDisk(next) \/ (~writes /\ UNCHANGED disk)
               /\ ibd' \in (IF h = best THEN {ibd, FALSE} ELSE {ibd})
               /\ mempool' \in {mempool, FALSE}
               /\ UNCHANGED <<best, requested, activated, task, up>>

\* A transaction of a peer, of the wallet or of mempool.dat is checked against
\* the coins of the current chainstate.
AcceptToMemoryPool ==
    /\ up = "running" /\ ~mempool
    /\ IF Current.coins = None THEN Abort
       ELSE /\ mempool' = TRUE
            /\ UNCHANGED <<disk, chainstates, best, ibd, requested, activated, task, files, up>>

\* MaybeRequestSnapshot: ask for the newest checkpoint when the tip is a whole
\* interval behind.
MaybeRequestSnapshot ==
    LET target == (best \div Interval) * Interval
    IN /\ up = "running" /\ (ibd \/ HasFallenBehindPruneHorizon)
       /\ best >= Interval /\ best - Current.tip >= Interval
       /\ target \notin requested /\ files[target] = None
       /\ Current.from # None => Current.from < target
       /\ requested' = requested \cup {target}
       /\ UNCHANGED <<disk, chainstates, best, ibd, mempool, activated, task, files, up>>

\* The last chunk arrives and the download is renamed to its .dat name.
SnapshotReceived ==
    /\ up = "running"
    /\ \E h \in requested, content \in Kinds :
          /\ requested' = requested \ {h}
          /\ files' = [files EXCEPT ![h] = content]
    /\ UNCHANGED <<disk, chainstates, best, ibd, mempool, activated, task, up>>

-----------------------------------------------------------------------------
(***************************************************************************)
(* The scheduler thread: MaybeActivateAutomaticSnapshot.                   *)
(***************************************************************************)
Present == {h \in Checkpoint : files[h] # None}

\* The newest file, unless this process already activated it.
Found(h) ==
    /\ ibd \/ HasFallenBehindPruneHorizon
    /\ h \in Present /\ h = Max(Present)
    /\ h # activated

\* A snapshot chainstate is replaced only by one with a newer base block.
Newer(h) ==
    Current.from # None => (IF h <= best THEN h ELSE 0) > Current.from

\* Mutant: a failed snapshot stays where it is.
SetAside_Kept(h) == UNCHANGED files

\* The rename to .failed, or the removal.
SetAside(h) == files' = [files EXCEPT ![h] = None]

\* A file that is refused before anything is touched: wrong base block, no
\* .hash sidecar, unknown header, mempool not empty.
RefuseFile ==
    \E h \in Checkpoint :
       /\ up = "running" /\ pc = "idle" /\ Found(h)
       /\ \/ files[h] = "misnamed"
          \/ Newer(h) /\ (files[h] = "unhashed" \/ h > best \/ mempool)
       /\ SetAside(h)
       /\ UNCHANGED <<disk, node, task, up>>

\* The first locked part of ActivateSnapshot accepts the file.
CheckSnapshot ==
    \E h \in Checkpoint :
       /\ up = "running" /\ pc = "idle" /\ Found(h) /\ Newer(h)
       /\ files[h] \in {"good", "corrupt"}
       /\ h <= best /\ ~mempool
       /\ pc' = "checked" /\ file' = h /\ kind' = files[h] /\ replacing' = (Current.from # None)
       /\ UNCHANGED <<disk, node, files, up>>

\* Mutant: the replaced snapshot's coins stay in the database.
Wiped_Kept(store) == [store EXCEPT !.origin = file]

\* InitCoinsDB with should_wipe: leveldb deletes its own files, and leaves the
\* base_blockhash file in the directory.
Wiped(store) == [EmptyStore(file) EXCEPT !.base = store.base]

\* The caches of the current chainstate are shrunk, which flushes it.  A
\* replaced snapshot loses its coins views, then its database; a first snapshot
\* is loaded into whatever an earlier attempt left in the directory.
OpenSnapshotDB ==
    /\ up = "running" /\ pc = "checked"
    /\ IF Current.coins = None THEN Abort
       ELSE /\ pc' = "opened"
            /\ IF replacing
               THEN /\ chainstates' = WithCurrent([Current EXCEPT !.coins = None])
                    /\ snapDir' = Wiped(snapDir)
                    /\ UNCHANGED chainDir
               ELSE /\ chainDir' = [chainDir EXCEPT !.coins = Current.coins, !.best = Current.tip]
                    /\ snapDir' = IF snapDir = None THEN EmptyStore(file)
                                  ELSE [snapDir EXCEPT !.origin = file]
                    /\ UNCHANGED chainstates
            /\ UNCHANGED <<best, ibd, mempool, requested, activated, file, kind, replacing, files, up>>

\* cleanup_bad_snapshot, and the .failed rename of its caller.
CleanupBadSnapshot ==
    /\ snapDir' = None
    /\ SetAside(file)
    /\ pc' = "idle"
    /\ UNCHANGED <<chainDir, node, file, kind, replacing>>

\* Mutant: the comparison at the end is missing.
WorkExceeds_Stale == pc = "opened" => Current.tip < file

\* Both work comparisons: before the coins are read, and under cs_main at the end.
WorkExceeds == Current.tip < file

RejectWork ==
    /\ up = "running" /\ pc \in {"opened", "verified"} /\ ~WorkExceeds
    /\ CleanupBadSnapshot
    /\ UNCHANGED up

StartLoading ==
    /\ up = "running" /\ pc = "opened" /\ WorkExceeds
    /\ pc' = "loading"
    /\ UNCHANGED <<disk, node, file, kind, replacing, files, up>>

FileCoins == IF kind = "good" THEN Utxo(file) ELSE Utxo(file) \ {file}

\* The cache is critically large: part of the coins goes to disk under a random
\* best block hash.
FlushPartial ==
    /\ up = "running" /\ pc = "loading"
    /\ \E part \in SUBSET FileCoins \ {{}} :
          snapDir' = [snapDir EXCEPT !.coins = @ \cup part, !.best = Unknown]
    /\ UNCHANGED <<chainDir, node, task, files, up>>

FlushLoaded ==
    /\ up = "running" /\ pc = "loading"
    /\ snapDir' = [snapDir EXCEPT !.coins = @ \cup FileCoins, !.best = file]
    /\ pc' = "loaded"
    /\ UNCHANGED <<chainDir, node, file, kind, replacing, files, up>>

\* A truncated file, a coin out of range or too many coins.
ReadError ==
    /\ up = "running" /\ pc = "loading" /\ kind = "corrupt"
    /\ CleanupBadSnapshot
    /\ UNCHANGED up

\* Mutant: the coins are taken as they come.
HashMatches_Skipped == TRUE

\* The whole database is hashed and compared with the sidecar.
HashMatches == snapDir.coins = Utxo(file)

CheckHash ==
    /\ up = "running" /\ pc = "loaded"
    /\ IF HashMatches
       THEN pc' = "verified" /\ UNCHANGED <<disk, node, file, kind, replacing, files>>
       ELSE CleanupBadSnapshot
    /\ UNCHANGED up

\* WriteSnapshotBaseBlockhash fails.
BaseFileError ==
    /\ up = "running" /\ pc = "verified" /\ WorkExceeds
    /\ CleanupBadSnapshot
    /\ UNCHANGED up

\* AddChainstate: the previous chainstate becomes historical, targeting the
\* snapshot; its three assertions.
AddChainstateAsserts == Current.validated /\ Current.target = None /\ ~mempool

\* Mutant: base_blockhash is not written.
WithBaseBlockhash_Unwritten(store) == store

\* WriteSnapshotBaseBlockhash
WithBaseBlockhash(store) == [store EXCEPT !.base = file]

\* The last locked part of ActivateSnapshot.
SwitchChainstate ==
    /\ up = "running" /\ pc = "verified" /\ WorkExceeds
    /\ snapDir' = WithBaseBlockhash(snapDir)
    /\ IF ~AddChainstateAsserts
       THEN Halt("aborted") /\ UNCHANGED <<chainDir, files>>
       ELSE LET old == [Current EXCEPT !.target = file]
                new == Opened(snapDir, file, None, FALSE)
            IN /\ chainstates' = IF replacing THEN <<new>> ELSE <<old, new>>
               /\ pc' = "switched"
               /\ UNCHANGED <<chainDir, best, ibd, mempool, requested, activated,
                              file, kind, replacing, files, up>>

\* Mutant: the historical chainstate only loses its target.
Discarded_TargetCleared ==
    [i \in DOMAIN chainstates |-> [chainstates[i] EXCEPT !.target = None]]

\* Mutant: the snapshot chainstate is left unvalidated.
Discarded_Unvalidated == <<Current>>

\* DeleteChainstate of the historical chainstate; the snapshot chainstate is
\* the validated one from now on.
Discarded == <<[Current EXCEPT !.validated = TRUE]>>

\* The rest of MaybeActivateAutomaticSnapshot: other files are deleted, and the
\* historical chainstate with its directory.
DiscardHistorical ==
    /\ up = "running" /\ pc = "switched"
    /\ pc' = "idle" /\ activated' = file
    /\ files' = [h \in Checkpoint |-> IF h = file THEN files[h] ELSE None]
    /\ IF Historical # {}
       THEN /\ chainstates' = Discarded
            /\ chainDir' = None
       ELSE UNCHANGED <<chainstates, chainDir>>
    /\ UNCHANGED <<snapDir, best, ibd, mempool, requested, file, kind, replacing, up>>

-----------------------------------------------------------------------------
(* Stopping and starting.                                                  *)

Shutdown ==
    /\ up = "running" /\ pc = "idle"
    /\ IF Current.coins = None THEN UNCHANGED disk ELSE FlushStateToDisk(Current)
    /\ Halt("stopped")
    /\ UNCHANGED files

\* A shutdown request interrupts the loading or the hashing, which counts as a
\* failed activation.
Interrupt ==
    /\ up = "running" /\ pc \in {"loading", "loaded"}
    /\ snapDir' = None
    /\ chainDir' = IF replacing THEN chainDir
                   ELSE [chainDir EXCEPT !.coins = Current.coins, !.best = Current.tip]
    /\ SetAside(file)
    /\ Halt("stopped")

Crash ==
    /\ up = "running"
    /\ Halt("stopped")
    /\ UNCHANGED <<disk, files>>

\* LoadAssumeutxoChainstate finds the directory and its base_blockhash file.
SnapshotDetected == snapDir # None /\ snapDir.base # None

\* Mutant: the best block is not looked up.
LoadsChainTip_Unchecked(store) == TRUE

\* LoadChainTip finds the best block of the coins in the block index.
LoadsChainTip(store) == store.best # Unknown

\* LoadChainstate.  The pre-snapshot chainstate is deleted when there is a
\* snapshot chainstate; a best block that is not in the index stops the node.
LoadChainstate ==
    /\ up \in {"stopped", "aborted"}
    /\ LET chain == IF chainDir = None THEN EmptyStore(0) ELSE chainDir
           store == IF SnapshotDetected THEN snapDir ELSE chain
           cs == Opened(store, store.base, None, TRUE)
       IN IF ~LoadsChainTip(store)
          THEN /\ up' = "refused" /\ chainDir' = chain
               /\ UNCHANGED <<chainstates, ibd>>
          ELSE /\ up' = "running"
               /\ chainstates' = <<cs>>
               /\ chainDir' = IF SnapshotDetected THEN None ELSE chain
               /\ ibd' \in (IF cs.tip = best THEN BOOLEAN ELSE {TRUE})
    /\ UNCHANGED <<snapDir, best, mempool, requested, activated, task, files>>

\* The operator restarts with -reindex-chainstate.
ReindexChainstate ==
    /\ up = "refused"
    /\ up' = "running"
    /\ chainDir' = EmptyStore(0) /\ snapDir' = None
    /\ chainstates' = <<Opened(EmptyStore(0), None, None, TRUE)>>
    /\ ibd' = TRUE
    /\ UNCHANGED <<best, mempool, requested, activated, task, files>>

-----------------------------------------------------------------------------
MessageThread ==
    \/ AcceptHeader \/ ConnectTip \/ AcceptToMemoryPool
    \/ MaybeRequestSnapshot \/ SnapshotReceived

Scheduler ==
    \/ RefuseFile \/ CheckSnapshot \/ OpenSnapshotDB \/ RejectWork \/ StartLoading
    \/ FlushPartial \/ FlushLoaded \/ ReadError \/ CheckHash \/ BaseFileError
    \/ SwitchChainstate \/ DiscardHistorical

Operator == Shutdown \/ Interrupt \/ Crash \/ LoadChainstate \/ ReindexChainstate

Next == MessageThread \/ Scheduler \/ Operator

Spec == Init /\ [][Next]_vars

\* The task runs every 30 seconds on the scheduler thread, and every call
\* returns: a file is read to its end.
FairSpec == Spec /\ WF_vars(Scheduler)

-----------------------------------------------------------------------------
\* Types.  The tip of a chainstate is a block of the index, also after a start
\* on coins whose best block names none (LoadChainTip).
TypeOK ==
    /\ chainstates \in Seq(Chain) /\ Len(chainstates) <= 2
    /\ chainDir \in Store \cup {None} /\ snapDir \in Store \cup {None}
    /\ files \in [Checkpoint -> Kinds \cup {None}]
    /\ requested \subseteq Checkpoint
    /\ best \in Height
    /\ ibd \in BOOLEAN /\ mempool \in BOOLEAN /\ replacing \in BOOLEAN
    /\ activated \in Checkpoint \cup {None} /\ file \in Checkpoint \cup {None}
    /\ kind \in Kinds \cup {None}
    /\ pc \in {"idle", "checked", "opened", "loading", "loaded", "verified", "switched"}
    /\ up \in {"running", "stopped", "aborted", "refused"}

\* CurrentChainstate, which aborts when it finds none, always resolves, and to
\* one chainstate only once an activation has ended: the abandoned chainstate
\* is gone, not merely without a target.
CurrentResolves ==
    up = "running" =>
        /\ Candidates # {}
        /\ pc = "idle" => Cardinality(DOMAIN chainstates) = 1

\* Torn: the process died while a replacement was loading.  The old
\* base_blockhash file then stands beside the coins of the new snapshot.
Torn == snapDir # None /\ snapDir.base # None /\ snapDir.base # snapDir.origin

\* The coins behind the active tip are the coins of that tip: what a snapshot
\* file held was hashed before it became current, across failed loads, crashes
\* and restarts.  Only a replacement cut short by a crash escapes this.
ActiveCoinsVerified ==
    up = "running" /\ Current.coins # None /\ ~Torn
        => Current.coins = Utxo(Current.tip)

\* The wipe that opens a replacement's database leaves nothing of the replaced
\* snapshot, so an intact file passes its hash check.
IntactReplacementPasses ==
    pc = "loaded" /\ replacing /\ kind = "good" => HashMatches

\* What a restart would load is the chainstate that is current: the
\* base_blockhash file and the deletion of directories never get ahead of, or
\* behind, the chainstate list.
RestartLoadsCurrent ==
    up = "running" /\ Current.coins # None =>
        Current.from = (IF SnapshotDetected THEN snapDir.base ELSE None)

\* While the node runs the active tip never moves down: an activation whose
\* snapshot was overtaken by connected blocks is dropped.
TipNeverFallsBack ==
    [][up = "running" /\ up' = "running" => Current'.tip >= Current.tip]_vars

\* ValidatedChainstate, which aborts when no chainstate is validated, finds one
\* after every start and after the first activation of a session: the snapshot
\* chainstate takes the role over from the deleted one.  A replacement leaves
\* its chainstate unvalidated until the next start.
ValidatedTakesOver ==
    up = "running" /\ pc = "idle" /\ ~Current.validated => replacing

\* A snapshot the node could use does not sit in the directory unactivated:
\* the task switches to it or sets it aside, and no file is tried forever.
Pending(h) == up = "running" /\ Found(h) /\ Newer(h)
SnapshotsHandled == \A h \in Checkpoint : []<>~Pending(h)

\* A node that has written its own checkpoint snapshots does not re-load them:
\* a file whose checkpoint is not above the active tip never costs the active
\* chainstate its coins.
OwnSnapshotNotReloaded ==
    up = "running" /\ pc # "idle" /\ file <= Current.tip => Current.coins # None
=============================================================================
