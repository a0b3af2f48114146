--------------------------- MODULE SnapshotDownload ---------------------------
(***************************************************************************)
(* How a node gets a checkpoint snapshot from its peers: the scheduler's   *)
(* MaybeRequestSnapshot, the four P2P messages, the chunk requests of      *)
(* SendMessages, the files in the snapshot directory, their clean-up by    *)
(* WriteAutomaticSnapshot and by the activation task, and restarts.        *)
(*                                                                         *)
(* Checkpoints are numbered: n stands for the block at height              *)
(* n * MandatoryPruneDepth of the best header chain.  Peers run the same   *)
(* code, so all files of one checkpoint are equal.  Time is abstracted: a  *)
(* timer (10 s per chunk request, 60 s per snapshot request, 30 min        *)
(* without progress, 6 h in total) may have expired at any moment.         *)
(* received_ranges is the set of its bytes (module ReceivedRanges).        *)
(***************************************************************************)
EXTENDS Integers, FiniteSets

CONSTANTS
    Peer,
    LastCheckpoint,      \* bound on the checkpoints the network reaches
    FileSize,            \* bytes of a snapshot file
    ChunkSize,           \* SNAPSHOT_CHUNK_SIZE
    MaxMsgs,             \* bound on the messages in flight
    MaxRestart           \* bound on the restarts

ASSUME BoundAssumption ==
    /\ LastCheckpoint \in Nat \ {0} /\ FileSize \in Nat \ {0}
    /\ ChunkSize \in Nat \ {0} /\ MaxMsgs \in Nat /\ MaxRestart \in Nat

VARIABLES
    net,        \* the latest checkpoint at or below m_best_header
    own,        \* the latest checkpoint at or below the tip
    wide,       \* is the tip MandatoryPruneDepth or more behind m_best_header?
    ibd,        \* IsInitialBlockDownload()
    base,       \* checkpoint of the snapshot chainstate, 0 if there is none
    activated,  \* s_activated_snapshot_hash
    target,     \* m_snapshot_bootstrap_target
    dls,        \* the keys of m_snapshot_downloads
    got,        \* received_ranges of each download, as a set of bytes
    done,       \* the downloads with completed = true
    peers,      \* m_snapshot_peers
    tmp,        \* the .download files that exist
    tmpData,    \* the bytes written to them
    dat,        \* the .dat files that exist
    datData,    \* their bytes
    hash,       \* the .hash files that exist
    conn,       \* connected peers
    have,       \* the snapshots each peer has
    msgs,       \* messages in flight
    restarts

chain   == <<net, own, wide, ibd, base, activated>>
tracker == <<target, dls, got, done, peers>>
files   == <<tmp, tmpData, dat, datData, hash>>
network == <<conn, have, msgs>>
vars == <<chain, tracker, files, network, restarts>>

Checkpoint == 1..LastCheckpoint
Byte == 0..FileSize - 1
NoBytes == [c \in Checkpoint |-> {}]

Message ==
    [type : {"getutxosnapshot", "utxosnapshot"}, peer : Peer, cp : Checkpoint]
      \cup [type : {"getsnapshotdata"}, peer : Peer, cp : Checkpoint, offset : Byte]
      \cup [type : {"snapshotdata"}, peer : Peer, cp : Checkpoint, data : SUBSET Byte]

\* What MaybeRequestSnapshot, the UTXOSNAPSHOT handler and the activation task
\* ask first: IsInitialBlockDownload() or HasFallenBehindPruneHorizon().
NeedsSnapshot == ibd \/ wide

\* The gap between header n and tip t is at least an interval when there is a
\* whole interval between their checkpoints, and less when they share one.
GapOK(n, t, w) == (n - t >= 2 => w) /\ (n = t => ~w)

\* SendMessages asks for no blocks while a download is active or this holds:
\* in IBD and below the latest checkpoint, either by more than an interval or
\* with any snapshot and its sidecar in the directory.
AwaitingSnapshotBootstrap ==
    /\ ibd /\ own < net
    /\ own < net - 1 \/ net \in dat \/ dat \cap hash # {}

\* A node without snapshots that has synced the headers past the first
\* checkpoint: a fresh one, or one that was down for an interval.
Init ==
    /\ net = 1 /\ own = 0 /\ wide = TRUE /\ ibd \in BOOLEAN /\ base = 0 /\ activated = 0
    /\ target = 0 /\ dls = {} /\ got = NoBytes /\ done = {} /\ peers = [c \in Checkpoint |-> {}]
    /\ tmp = {} /\ tmpData = NoBytes /\ dat = {} /\ datData = NoBytes /\ hash = {}
    /\ conn = {} /\ have = [p \in Peer |-> {}] /\ msgs = {}
    /\ restarts = 0

-----------------------------------------------------------------------------
(* The chain, the peers.                                                    *)

HeadersAdvance ==
    /\ \/ net' = net
       \/ net < LastCheckpoint /\ net' = net + 1
    /\ wide' \in BOOLEAN /\ GapOK(net', own, wide') /\ (wide => wide')
    /\ UNCHANGED <<own, ibd, base, activated, tracker, files, network, restarts>>

\* Remove every file of the snapshot directory whose name does not begin with
\* checkpoint c, downloads in progress included; keep c's files, with content D.
CleanUp(c, D) ==
    /\ dat' = {c} /\ datData' = [NoBytes EXCEPT ![c] = D]
    /\ hash' = {c}
    /\ tmp' = tmp \cap {c} /\ tmpData' = [NoBytes EXCEPT ![c] = tmpData[c]]

\* Blocks connect (those in flight still arrive while a snapshot is being
\* downloaded).  At a checkpoint WriteAutomaticSnapshot writes the node's own
\* snapshot, unless it is there, and removes the others; or it fails.
TipAdvances ==
    /\ wide' \in BOOLEAN /\ (wide' => wide)
    /\ ibd' \in BOOLEAN /\ (ibd' => ibd)
    /\ own' \in {own, own + 1} /\ own' <= net
    /\ \/ UNCHANGED files
       \/ own' > own /\ own' \notin dat /\ CleanUp(own', Byte)
    /\ GapOK(net, own', wide')
    /\ UNCHANGED <<net, base, activated, tracker, network, restarts>>

\* A peer reaches the checkpoint, writes its snapshot and removes older ones.
PeerCheckpoint(p) ==
    /\ net \notin have[p]
    /\ have' = [have EXCEPT ![p] = {net}]
    /\ UNCHANGED <<chain, tracker, files, conn, msgs, restarts>>

PeerConnect(p) ==
    /\ p \notin conn
    /\ conn' = conn \cup {p}
    /\ UNCHANGED <<chain, tracker, files, have, msgs, restarts>>

FinalizeNode(p) ==
    /\ p \in conn
    /\ conn' = conn \ {p}
    /\ msgs' = {m \in msgs : m.peer # p}
    /\ peers' = [c \in Checkpoint |-> peers[c] \ {p}]
    /\ UNCHANGED <<chain, target, dls, got, done, files, have, restarts>>

-----------------------------------------------------------------------------
(* Requesting a snapshot and serving it.                                    *)

\* Mutant: entries whose rename failed are not swept up.
MaybeRequestSnapshot_KeepsDone(expired) ==
    /\ NeedsSnapshot
    /\ expired \subseteq dls \ done
    /\ dls' = dls \ expired
    /\ tmp' = tmp \ expired
    /\ got' = [c \in Checkpoint |-> IF c \in dls' THEN got[c] ELSE {}]
    /\ tmpData' = [c \in Checkpoint |-> IF c \in tmp' THEN tmpData[c] ELSE {}]
    /\ IF wide /\ net \notin dls' \cup dat /\ base < net
       THEN \E S \in SUBSET conn :
               /\ msgs' = msgs \cup [type : {"getutxosnapshot"}, peer : S, cp : {net}]
               /\ Cardinality(msgs') <= MaxMsgs
               /\ target' = net
       ELSE UNCHANGED <<msgs, target>>
    /\ UNCHANGED <<chain, done, peers, dat, datData, hash, conn, have, restarts>>

\* MaybeRequestSnapshot: discard the downloads that are completed and, with
\* their files, those that expired; then ask for the snapshot of the latest
\* checkpoint if the gap is wide, it is neither here nor being downloaded, and
\* it is newer than the snapshot in use.  Which connections are asked depends
\* on the services the peers had when they connected.
MaybeRequestSnapshot(expired) ==
    /\ NeedsSnapshot
    /\ expired \subseteq dls \ done
    /\ dls' = dls \ (done \cup expired) /\ done' = {}
    /\ tmp' = tmp \ expired
    /\ got' = [c \in Checkpoint |-> IF c \in dls' THEN got[c] ELSE {}]
    /\ tmpData' = [c \in Checkpoint |-> IF c \in tmp' THEN tmpData[c] ELSE {}]
    /\ IF wide /\ net \notin dls' \cup dat /\ base < net
       THEN \E S \in SUBSET conn :
               /\ msgs' = msgs \cup [type : {"getutxosnapshot"}, peer : S, cp : {net}]
               /\ Cardinality(msgs') <= MaxMsgs
               /\ target' = net
       ELSE UNCHANGED <<msgs, target>>
    /\ UNCHANGED <<chain, peers, dat, datData, hash, conn, have, restarts>>

\* GETUTXOSNAPSHOT at a peer: answered if it has the snapshot and its sidecar
\* and the request is not too early.
GetUtxoSnapshot(m) ==
    /\ m.type = "getutxosnapshot"
    /\ \/ msgs' = msgs \ {m}
       \/ /\ m.cp \in have[m.peer]
          /\ msgs' = (msgs \ {m}) \cup
                       [type : {"utxosnapshot"}, peer : {m.peer}, cp : {m.cp}]
    /\ UNCHANGED <<chain, tracker, files, conn, have, restarts>>

\* UTXOSNAPSHOT: note that the peer has the snapshot and, if it is the one this
\* node asked for and still needs, start a download.  Writing the sidecar and
\* creating the temporary file may fail; a file that exists is kept.  (A failed
\* write may leave an empty sidecar: hash holds the files that exist.)
UtxoSnapshot(m) ==
    /\ m.type = "utxosnapshot"
    /\ msgs' = msgs \ {m}
    /\ peers' = [peers EXCEPT ![m.cp] = @ \cup {m.peer}]
    /\ IF m.cp = target /\ NeedsSnapshot /\ m.cp \notin dls \cup dat
       THEN /\ dls' = dls \cup {m.cp}
            /\ hash' \in {hash, hash \cup {m.cp}}
            /\ tmp' \in {tmp, tmp \cup {m.cp}}
       ELSE UNCHANGED <<dls, hash, tmp>>
    /\ UNCHANGED <<chain, target, got, done, tmpData, dat, datData, conn, have,
                   restarts>>

\* SendMessages: ask a peer that advertised the snapshot for the first bytes
\* that are missing.
RequestChunk(p, c) ==
    /\ c \in dls \ done /\ p \in peers[c] \cap conn
    /\ \E offset \in Byte \ got[c] :
          /\ 0..offset - 1 \subseteq got[c]
          /\ msgs' = msgs \cup [type : {"getsnapshotdata"}, peer : {p}, cp : {c},
                                offset : {offset}]
          /\ Cardinality(msgs') <= MaxMsgs
    /\ UNCHANGED <<chain, tracker, files, conn, have, restarts>>

\* Mutant: the reply keeps its requested length at the end of the file.
GetSnapshotData_NotResized(m) ==
    /\ m.type = "getsnapshotdata"
    /\ \/ msgs' = msgs \ {m}
       \/ /\ m.cp \in have[m.peer]
          /\ msgs' = (msgs \ {m}) \cup
                [type : {"snapshotdata"}, peer : {m.peer}, cp : {m.cp},
                 data : {m.offset..m.offset + ChunkSize - 1}]
    /\ UNCHANGED <<chain, tracker, files, conn, have, restarts>>

\* GETSNAPSHOTDATA at a peer.
GetSnapshotData(m) ==
    /\ m.type = "getsnapshotdata"
    /\ \/ msgs' = msgs \ {m}
       \/ /\ m.cp \in have[m.peer]
          /\ msgs' = (msgs \ {m}) \cup
                [type : {"snapshotdata"}, peer : {m.peer}, cp : {m.cp},
                 data : {(m.offset..m.offset + ChunkSize - 1) \cap Byte}]
    /\ UNCHANGED <<chain, tracker, files, conn, have, restarts>>

\* Mutant: a temporary file that a clean-up removed is created again, while what
\* was received before still counts.
SnapshotData_CreatesFile(m) ==
    /\ m.type = "snapshotdata"
    /\ msgs' = msgs \ {m}
    /\ LET c == m.cp
           all == got[c] \cup m.data
           written == [tmpData EXCEPT ![c] = @ \cup m.data]
       IN \/ /\ c \notin dls \ done
             /\ UNCHANGED <<dls, got, tmp, tmpData, dat, datData>>
          \/ /\ c \in dls \ done /\ (all # Byte \/ c \notin hash)
             /\ got' = [got EXCEPT ![c] = all]
             /\ tmp' = tmp \cup {c} /\ tmpData' = written
             /\ UNCHANGED <<dls, dat, datData>>
          \/ /\ c \in dls \ done /\ all = Byte /\ c \in hash
             /\ tmp' = tmp \ {c} /\ tmpData' = [tmpData EXCEPT ![c] = {}]
             /\ dat' = dat \cup {c} /\ datData' = [datData EXCEPT ![c] = written[c]]
             /\ dls' = dls \ {c} /\ got' = [got EXCEPT ![c] = {}]
    /\ UNCHANGED <<chain, target, peers, done, hash, conn, have, restarts>>

\* SNAPSHOTDATA: write the chunk if the temporary file can be opened; with the
\* last byte, and if the sidecar is there, rename the file into place.
SnapshotData(m) ==
    /\ m.type = "snapshotdata"
    /\ msgs' = msgs \ {m}
    /\ LET c == m.cp
           all == got[c] \cup m.data
           written == [tmpData EXCEPT ![c] = @ \cup m.data]
           received == [got EXCEPT ![c] = all]
       IN \/ /\ c \notin (dls \ done) \cap tmp
             /\ UNCHANGED <<dls, got, done, tmp, tmpData, dat, datData>>
          \/ /\ c \in (dls \ done) \cap tmp /\ (all # Byte \/ c \notin hash)
             /\ got' = received /\ tmpData' = written
             /\ UNCHANGED <<dls, done, tmp, dat, datData>>
          \/ /\ c \in (dls \ done) \cap tmp /\ all = Byte /\ c \in hash
             /\ tmp' = tmp \ {c} /\ tmpData' = [tmpData EXCEPT ![c] = {}]
             /\ dat' = dat \cup {c} /\ datData' = [datData EXCEPT ![c] = written[c]]
             /\ dls' = dls \ {c} /\ got' = [got EXCEPT ![c] = {}]
             /\ UNCHANGED done
          \/ /\ c \in (dls \ done) \cap tmp /\ all = Byte /\ c \in hash
             /\ done' = done \cup {c}           \* the rename failed
             /\ got' = received /\ tmpData' = written
             /\ UNCHANGED <<dls, tmp, dat, datData>>
    /\ UNCHANGED <<chain, target, peers, hash, conn, have, restarts>>

-----------------------------------------------------------------------------
(* Activation, restart.                                                     *)

\* MaybeActivateAutomaticSnapshot, for the newest snapshot in the directory:
\* with a missing or an empty sidecar it is removed; ActivateSnapshot may refuse
\* it, and does when it has no more work than the tip: then it is renamed away.
MaybeActivateAutomaticSnapshot ==
    /\ NeedsSnapshot
    /\ \E c \in dat :
          /\ \A d \in dat : d <= c
          /\ c # activated /\ c > base
          /\ \/ /\ hash' = hash \ {c} \/ (c \in hash /\ UNCHANGED hash)
                /\ dat' = dat \ {c} /\ datData' = [datData EXCEPT ![c] = {}]
                /\ UNCHANGED <<own, wide, ibd, base, activated, tmp, tmpData>>
             \/ /\ c \in hash /\ own < c
                /\ base' = c /\ activated' = c /\ own' = c
                /\ wide' = (net > c)
                /\ ibd' \in BOOLEAN /\ (ibd' => ibd)
                /\ CleanUp(c, datData[c])
    /\ UNCHANGED <<net, tracker, network, restarts>>

\* A new process: what was in memory is gone.
ForgetMemory ==
    /\ restarts < MaxRestart
    /\ restarts' = restarts + 1
    /\ ibd' \in BOOLEAN /\ activated' = 0
    /\ target' = 0 /\ dls' = {} /\ got' = NoBytes /\ done' = {}
    /\ peers' = [c \in Checkpoint |-> {}]
    /\ conn' = {} /\ msgs' = {}

\* The process stops or crashes and starts again; the files stay.
Restart == ForgetMemory /\ UNCHANGED <<net, own, wide, base, files, have>>

\* The process crashes inside WriteAutomaticSnapshot: the flush and the rename
\* are done, the sidecar is not written, nothing is cleaned up.
CrashBeforeSidecar ==
    /\ ForgetMemory
    /\ own < net /\ own' = own + 1 /\ own' \notin dat
    /\ wide' = (net > own')
    /\ dat' = dat \cup {own'} /\ datData' = [datData EXCEPT ![own'] = Byte]
    /\ UNCHANGED <<net, base, tmp, tmpData, hash, have>>

Next ==
    \/ HeadersAdvance \/ TipAdvances
    \/ \E p \in Peer : PeerCheckpoint(p) \/ PeerConnect(p) \/ FinalizeNode(p)
    \/ \E expired \in SUBSET dls : MaybeRequestSnapshot(expired)
    \/ \E m \in msgs : GetUtxoSnapshot(m) \/ UtxoSnapshot(m)
    \/ \E p \in Peer, c \in Checkpoint : RequestChunk(p, c)
    \/ \E m \in msgs : GetSnapshotData(m) \/ SnapshotData(m)
    \/ MaybeActivateAutomaticSnapshot
    \/ Restart \/ CrashBeforeSidecar

Spec == Init /\ [][Next]_vars

\* The scheduler keeps calling MaybeRequestSnapshot, and a download of which
\* 6 h have passed is then expired.  Handlers run and chunks are asked for.
Fairness ==
    /\ WF_vars(\E expired \in SUBSET dls : MaybeRequestSnapshot(expired))
    /\ \A c \in Checkpoint :
          WF_vars(\E expired \in SUBSET dls : c \in expired /\ MaybeRequestSnapshot(expired))
    /\ \A p \in Peer, c \in Checkpoint : WF_vars(RequestChunk(p, c))
    /\ WF_vars(\E m \in msgs : GetUtxoSnapshot(m) \/ UtxoSnapshot(m)
                                  \/ GetSnapshotData(m) \/ SnapshotData(m))
    /\ WF_vars(MaybeActivateAutomaticSnapshot)

FairSpec == Spec /\ Fairness
-----------------------------------------------------------------------------
(* Properties.                                                              *)

\* The variables hold values of their types.
TypeOK ==
    /\ net \in Checkpoint /\ own \in 0..LastCheckpoint
    /\ wide \in BOOLEAN /\ ibd \in BOOLEAN
    /\ base \in 0..LastCheckpoint /\ activated \in 0..LastCheckpoint
    /\ target \in 0..LastCheckpoint
    /\ dls \in SUBSET Checkpoint /\ done \in SUBSET Checkpoint
    /\ got \in [Checkpoint -> SUBSET Byte]
    /\ peers \in [Checkpoint -> SUBSET Peer]
    /\ tmp \in SUBSET Checkpoint /\ tmpData \in [Checkpoint -> SUBSET Byte]
    /\ dat \in SUBSET Checkpoint /\ datData \in [Checkpoint -> SUBSET Byte]
    /\ hash \in SUBSET Checkpoint
    /\ conn \in SUBSET Peer /\ have \in [Peer -> SUBSET Checkpoint]
    /\ msgs \in SUBSET Message
    /\ restarts \in Nat

\* Every .dat file in the snapshot directory is whole and, unless the node wrote
\* it itself, has its sidecar, whatever was interrupted, discarded, cleaned up
\* or delivered late: a chunk counts as received only if the file it was written
\* to is the one that SNAPSHOTDATA renames.
SnapshotsWhole == \A c \in dat : datData[c] = Byte /\ (c \in hash \/ c <= own)

\* While the node keeps needing a snapshot no download entry, which suppresses
\* the download of blocks, stays for ever (the sweep of MaybeRequestSnapshot).
DownloadEndsWhileNeeded ==
    \A c \in Checkpoint : <>[]NeedsSnapshot => []<>(c \notin dls)

\* No download entry stays for ever: "discard stalled snapshot downloads (>30
\* min no progress) so we can retry" (MaybeRequestSnapshot).
DownloadEnds == \A c \in Checkpoint : []<>(c \notin dls)

\* "Do not block block IBD while history is still within retention"
\* (SendMessages): unless the gap is wide, the node only holds back its block
\* requests for a snapshot that it is still going to try.
BlocksWithinRetention ==
    AwaitingSnapshotBootstrap => wide \/ \E c \in dat : c > base /\ c # activated

=============================================================================
