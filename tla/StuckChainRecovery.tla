------------------------- MODULE StuckChainRecovery --------------------------
(***************************************************************************)
(* A node that has marked the chain of the network as invalid, because it  *)
(* computed another attestation than the network, and how it gets off that *)
(* verdict: the flags of the block index (validation.cpp), headers and     *)
(* blocks of a peer (net_processing.cpp), the snapshot task (init.cpp).    *)
(*                                                                         *)
(* The chain of the network is Main(0), Main(1), ...; the branch that only *)
(* the node's own rules accept leaves it after height fork.  All blocks    *)
(* have the same work.  The node has left IBD.  The one peer stands for    *)
(* the node's connection to the network; peers still have the blocks after *)
(* the fork.  Module SnapshotDownload has the download of a snapshot and   *)
(* its hold on block requests, SnapshotActivation the loading.             *)
(***************************************************************************)
EXTENDS Integers, FiniteSets, FiniteSetsExt

CONSTANTS
    Forks,           \* heights after which the node may leave the network
    MuhashHeight,    \* MuhashAttestationActivationHeight
    Interval,        \* MandatoryPruneDepth
    Threshold,       \* blocks_threshold
    MaxOwn,          \* bound on the height of the node's branch
    MaxHeight,       \* bound on the chain of the network
    MaxResets,       \* bound on restarts and lost connections
    None

VARIABLES
    fork, net,       \* the fork, and the height of the network
    right,           \* the node computes the attestations of the network
    index,           \* m_block_index
    data,            \* blocks with BLOCK_HAVE_DATA
    failed,          \* blocks with BLOCK_FAILED_VALID
    tip, base,       \* the active tip; m_from_snapshot_blockhash
    bestHeader, bestInvalid,
    known,           \* height of the peer's pindexBestKnownBlock, or None
    synced,          \* fSyncStarted
    asked,           \* first header of the answer to a getheaders, or None
    requested,       \* checkpoint being downloaded, or None
    files,           \* the .dat files, by the block in their name
    loading,         \* the file ActivateSnapshot is at, and stuck_on_invalid_chain
    resets

blocks == <<index, data, failed, tip, base, bestHeader, bestInvalid>>
peer   == <<known, synced, asked>>
task   == <<requested, files, loading>>
vars   == <<fork, net, right, blocks, peer, task, resets>>

Main(h) == <<"main", h>>
Own(h)  == <<"own", h>>
Work(b) == b[2]
Heaviest(S) == {b \in S : \A c \in S : Work(c) <= Work(b)}

\* GetAncestor
Ancestor(b, h) == IF h <= fork THEN Main(h) ELSE <<b[1], h>>
Descends(b, a) == Work(a) <= Work(b) /\ Ancestor(b, Work(a)) = a

\* LastCommonAncestor of b and the tip, by height.
ForkHeight(b) ==
    LET low == IF Work(b) < Work(tip) THEN Work(b) ELSE Work(tip)
    IN IF Ancestor(b, low) = Ancestor(tip, low) THEN low ELSE fork

Path(b) == {Ancestor(b, h) : h \in ForkHeight(b) + 1 .. Work(b)}

Init ==
    /\ fork \in Forks /\ net = fork /\ right = FALSE
    /\ index = {Main(h) : h \in 0..fork} /\ data = index /\ failed = {}
    /\ tip = Main(fork) /\ base = None
    /\ bestHeader = tip /\ bestInvalid = None
    /\ known = None /\ synced = FALSE /\ asked = None
    /\ requested = None /\ loading = None
    /\ files \in SUBSET ({Main((fork \div Interval) * Interval)} \ {Main(0)})
    /\ resets = 0

-----------------------------------------------------------------------------
(* The block index and the active chain.                                    *)

\* RecalculateBestHeader: the tip, or a heavier header without the flag.
BestHeaders(flagged) == Heaviest({tip} \cup (index \ flagged))

\* AddToBlockIndex of a header: first come, first served among equals.
Improved(header, b) == IF Work(header) < Work(b) THEN b ELSE header

\* What ConnectBlock rejects: a block whose attestation the node does not
\* compute itself.
Rejects(b) == Work(b) > fork /\ (b[1] = "main") = ~right

\* setBlockIndexCandidates, the tip left out.  In a tie of work the tip stays, as
\* the block that was there first.
Candidates ==
    {b \in data \ failed : Work(b) > Work(tip) /\ Path(b) \subseteq data}

\* Of the files S, only the one of f is kept; a download of another one ends.
CleanUp(S, f) ==
    /\ files' = S \cap {f}
    /\ requested' = IF requested = f THEN f ELSE None

\* WriteAutomaticSnapshot for each of the blocks S, lowest first: a checkpoint
\* without a file gets one, and the files of others are removed.
WriteAutomaticSnapshots(S) ==
    LET checkpoints == {b \in S : Work(b) % Interval = 0}
    IN IF checkpoints \subseteq files
       THEN UNCHANGED <<files, requested>>
       ELSE \E f \in Heaviest(checkpoints) : CleanUp({f}, f)

\* ActivateBestChain: the heaviest candidate becomes the tip, or its first
\* invalid block and all that is built on it get the flag (InvalidBlockFound,
\* InvalidChainFound), FindMostWorkChain drops it, and the blocks of the tip
\* that were disconnected for it are connected again.  It is called for every
\* block that arrives.
ActivateBestChain ==
    /\ \E c \in Heaviest(Candidates) :
       LET bad == {b \in Path(c) : Rejects(b)}
           first == CHOOSE b \in bad : \A d \in bad : Work(b) <= Work(d)
       IN IF bad = {}
          THEN /\ tip' = c
               /\ WriteAutomaticSnapshots(Path(c))
               /\ UNCHANGED <<failed, bestHeader, bestInvalid>>
          ELSE /\ failed' = failed \cup {b \in index : Descends(b, first)}
               /\ bestInvalid' = IF bestInvalid = None THEN c ELSE Improved(bestInvalid, c)
               /\ bestHeader' \in (IF Descends(bestHeader, first) THEN BestHeaders(failed')
                                   ELSE {bestHeader})
               /\ WriteAutomaticSnapshots(
                      {Ancestor(tip, h) : h \in ForkHeight(c) + 1 .. Work(tip)})
               /\ UNCHANGED tip
    /\ UNCHANGED <<fork, net, right, index, data, base, peer, loading, resets>>

\* A block of the node's own branch: from a miner with the same rules.
OwnBlock ==
    LET b == Own(Work(tip) + 1)
    IN /\ ~right /\ base = None
       /\ Work(b) <= MaxOwn
       /\ tip = Ancestor(b, Work(tip)) /\ b \notin index
       /\ index' = index \cup {b} /\ data' = data \cup {b}
       /\ bestHeader' = Improved(bestHeader, b)
       /\ UNCHANGED <<fork, net, right, failed, tip, base, bestInvalid, peer, task, resets>>

HasSustainedInvalidChainWithMoreWork ==
    /\ bestInvalid # None
    /\ Work(bestInvalid) >= MuhashHeight
    /\ Work(bestInvalid) > Work(tip) + Threshold

HasFallenBehindPruneHorizon ==
    Work(bestHeader) >= Interval /\ Work(bestHeader) - Work(tip) >= Interval

NeedsSnapshot == HasSustainedInvalidChainWithMoreWork \/ HasFallenBehindPruneHorizon

-----------------------------------------------------------------------------
(* Headers and blocks of the peer.                                          *)

NetworkMines ==
    /\ net < MaxHeight /\ net' = net + 1
    /\ UNCHANGED <<fork, right, blocks, peer, task, resets>>

\* The first header of the peer's answer to a locator of header b.
AnswerAfter(b) == (IF b[1] = "own" THEN fork ELSE Work(b)) + 1

\* SendMessages: the one headers synchronisation of a connection, from the
\* block before the best header.
StartSync ==
    /\ ~synced /\ asked = None
    /\ synced' = TRUE
    /\ asked' = AnswerAfter(Ancestor(bestHeader, Work(bestHeader) - 1))
    /\ UNCHANGED <<fork, net, right, blocks, known, task, resets>>

\* AcceptBlockHeader refuses "duplicate-invalid" and "bad-prevblk".
Refuses(h) == Main(h) \in failed \/ (Main(h) \notin index /\ Main(h - 1) \in failed)

\* ProcessHeadersMessage with the headers from height s to the peer's tip: a
\* header that is refused ends it, and the peer's best block stays unknown.
ProcessHeaders(s) ==
    LET refused == {h \in s..net : Refuses(h)}
        last == IF refused = {} THEN net ELSE Min(refused) - 1
    IN /\ index' = index \cup {Main(h) : h \in s..last}
       /\ bestHeader' = IF s <= last THEN Improved(bestHeader, Main(last)) ELSE bestHeader
       /\ known' = IF refused = {} /\ s <= net THEN net ELSE known

Headers ==
    /\ asked # None
    /\ ProcessHeaders(asked) /\ asked' = None
    /\ UNCHANGED <<fork, net, right, data, failed, tip, base, bestInvalid, synced, task, resets>>

\* The peer announces its tip; HandleUnconnectingHeaders asks for what is missing.
Announce ==
    /\ IF Main(net - 1) \in index
       THEN ProcessHeaders(net) /\ UNCHANGED asked
       ELSE /\ asked' = IF asked = None THEN AnswerAfter(bestHeader) ELSE asked
            /\ UNCHANGED <<index, bestHeader, known>>
    /\ UNCHANGED <<fork, net, right, data, failed, tip, base, bestInvalid, synced, task, resets>>

\* FindNextBlocksToDownload and the answer, in any order.  A block may be on its
\* way while a snapshot is downloaded.
ReceiveBlock(h) ==
    /\ known # None /\ h <= known /\ known >= Work(tip)
    /\ Main(h) \in Path(Main(known)) \ data
    /\ \A b \in Path(Main(known)) : Work(b) <= h => b \notin failed
    /\ data' = data \cup {Main(h)}
    /\ UNCHANGED <<fork, net, right, index, failed, tip, base, bestHeader, bestInvalid,
                   peer, task, resets>>

-----------------------------------------------------------------------------
(* Snapshots.                                                               *)

\* MaybeRequestSnapshot: the checkpoint is that of the rejected chain when the
\* node is stuck.  Peers have only those of the network.  One at a time.
MaybeRequestSnapshot ==
    LET ref == IF HasSustainedInvalidChainWithMoreWork THEN bestInvalid ELSE bestHeader
        checkpoint == Ancestor(ref, (Work(ref) \div Interval) * Interval)
    IN /\ NeedsSnapshot /\ Work(ref) >= Interval
       /\ requested = None /\ checkpoint \notin files /\ checkpoint[1] = "main"
       /\ base # None => Work(base) < Work(checkpoint)
       /\ requested' = checkpoint
       /\ UNCHANGED <<fork, net, right, blocks, peer, files, loading, resets>>

\* The file is there; or the node needed none when it was offered.
SnapshotReceived ==
    /\ requested # None /\ requested' = None
    /\ \/ files' = files \cup {requested}
       \/ ~NeedsSnapshot /\ UNCHANGED files
    /\ UNCHANGED <<fork, net, right, blocks, peer, loading, resets>>

\* Mutant: nothing is done when the checkpoint itself has no flag.
Cleared_OnlyFailed(f) ==
    {b \in failed : f \in failed /\ (Descends(b, f) \/ Descends(f, b))}

\* ResetBlockFailureFlags: the blocks that lose the flag.
Cleared(f) == {b \in failed : Descends(b, f) \/ Descends(f, b)}

\* ResetBlockFailureFlags, m_best_invalid.
InvalidAfter(cleared) == IF bestInvalid \in cleared THEN None ELSE bestInvalid

\* Mutant: the best header stays where the flags had pinned it.
HeadersAfter_Kept(flagged) == {bestHeader}

\* RecalculateBestHeader, after the flags were cleared.
HeadersAfter(flagged) == BestHeaders(flagged)

\* MaybeActivateAutomaticSnapshot up to the first locked part of
\* ActivateSnapshot: when the node is stuck, the verdict on the checkpoint is
\* taken back; then the file is accepted or set aside.
CheckSnapshot ==
    /\ \E f \in Heaviest(files) :
       LET stuck == HasSustainedInvalidChainWithMoreWork
           cleared == IF stuck /\ f \in index THEN Cleared(f) ELSE {}
       IN /\ loading = None /\ NeedsSnapshot
          /\ base # None => f \in index /\ Work(f) > Work(base)
          /\ failed' = failed \ cleared
          /\ bestInvalid' = InvalidAfter(cleared)
          /\ bestHeader' \in (IF stuck /\ f \in index THEN HeadersAfter(failed') ELSE {bestHeader})
          /\ \/ /\ f \in index \ failed' /\ Descends(bestHeader', f)
                /\ loading' = [file |-> f, stuck |-> stuck]
                /\ UNCHANGED files
             \/ /\ files' = files \ {f}
                /\ UNCHANGED loading
    /\ UNCHANGED <<fork, net, right, index, data, tip, base, peer, requested, resets>>

\* The last locked part of ActivateSnapshot, the removal of other files and
\* ResyncHeadersAfterRecovery.  The accumulator is computed from the coins.  A
\* tie of work is decided by nSequenceId.
ActivateSnapshot ==
    /\ loading # None /\ loading.file # tip /\ Work(tip) <= Work(loading.file)
    /\ tip' = loading.file /\ base' = loading.file /\ right' = TRUE
    /\ CleanUp(files, loading.file) /\ loading' = None
    /\ synced' = (synced /\ ~loading.stuck)
    /\ UNCHANGED <<fork, net, index, data, failed, bestHeader, bestInvalid, known, asked,
                   resets>>

\* An error while the coins are loaded, or the work does not exceed.
ActivationFails ==
    /\ loading # None
    /\ files' = files \ {loading.file} /\ loading' = None
    /\ UNCHANGED <<fork, net, right, blocks, peer, requested, resets>>

-----------------------------------------------------------------------------
(* Connections and restarts.                                                *)

\* The peer is gone (a refused header is a reason) and another one is there.
Reconnect ==
    /\ resets < MaxResets /\ resets' = resets + 1
    /\ known' = None /\ synced' = FALSE /\ asked' = None
    /\ UNCHANGED <<fork, net, right, blocks, task>>

\* A shutdown and a start (LoadBlockIndex), with the same software or one that
\* has the rules of the network.
Restart ==
    /\ resets < MaxResets /\ resets' = resets + 1
    /\ right' \in {right, TRUE}
    /\ known' = None /\ synced' = FALSE /\ asked' = None
    /\ requested' = None /\ loading' = None
    /\ bestHeader' \in Heaviest(index \ failed)
    /\ bestInvalid' \in (IF failed = {} THEN {None} ELSE Heaviest(failed))
    /\ UNCHANGED <<fork, net, index, data, failed, tip, base, files>>

HeaderSync == StartSync \/ Headers \/ Announce

Blocks == \E h \in 1..MaxHeight : ReceiveBlock(h)

Snapshots ==
    \/ MaybeRequestSnapshot \/ SnapshotReceived
    \/ CheckSnapshot \/ ActivateSnapshot \/ ActivationFails

Next ==
    \/ ActivateBestChain \/ OwnBlock \/ NetworkMines
    \/ HeaderSync \/ Blocks \/ Snapshots
    \/ Reconnect \/ Restart

\* Headers are exchanged as long as there are any, a download that was started
\* ends, the task runs, and with every block the node looks for a better chain.
\* Blocks are asked for while no snapshot is downloaded, and two requests for a
\* snapshot are a minute apart (m_last_snapshot_request): hence the strong
\* fairness.  Nothing is assumed of the outcome of an activation.
Fairness ==
    /\ WF_vars(HeaderSync) /\ SF_vars(requested = None /\ Blocks)
    /\ WF_vars(Snapshots) /\ WF_vars(ActivateBestChain)

Spec == Init /\ [][Next]_vars /\ Fairness
-----------------------------------------------------------------------------
(* Properties.                                                              *)

\* Across rejections, recoveries and restarts the three records of a verdict
\* agree.  What is built on an invalid block is invalid, no other header is
\* heavier than the best one (both asserted by CheckBlockIndex), and the best
\* invalid block, which decides whether the node is stuck and which checkpoint
\* it asks for, is one it still rejects (ResetBlockFailureFlags).
VerdictConsistent ==
    /\ \A b \in failed, c \in index : Descends(c, b) => c \in failed
    /\ \A b \in index \ failed : Work(b) <= Work(bestHeader)
    /\ bestInvalid # None => bestInvalid \in failed

\* The node rejects the chain of the network.
Rejecting == \E h \in 1..MaxHeight : Main(h) \in failed

\* A node with the rules of the network is again and again level with it,
\* whatever it rejected before and whether or not the snapshot it fetches can
\* be activated (ResetBlockFailureFlags, RecalculateBestHeader).  Two cases stay
\* rejected: the node already runs on a snapshot of that checkpoint
\* (MaybeRequestSnapshot has nothing newer to ask for), and the rejected headers
\* it knows do not exceed the threshold.  The second one is for good, however
\* long the chain of the network gets: AcceptBlockHeader refuses the headers
\* after a rejected block, so the best invalid block never advances.
RejectionEnds ==
    []<>(right => \/ Work(tip) >= net
                  \/ Rejecting /\ base # None
                  \/ Rejecting /\ ~HasSustainedInvalidChainWithMoreWork)
==============================================================================
