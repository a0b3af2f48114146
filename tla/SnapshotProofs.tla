---------------------------- MODULE SnapshotProofs ----------------------------
(***************************************************************************)
(* Type correctness of SnapshotDownload, and that a .dat file in the       *)
(* snapshot directory is always whole, for any number of peers and         *)
(* checkpoints and any file and chunk size; and that the byte ranges of a  *)
(* download, ReceivedRanges, are exact, whatever the order of its chunks.  *)
(***************************************************************************)
EXTENDS SnapshotDownload, FiniteSetTheorems, WellFoundedInduction, TLAPS

\* What a message handler may assume about its message: the fields that its
\* type has, and their types.
LEMMA MessageFields ==
    ASSUME NEW m \in Message
    PROVE  /\ m.peer \in Peer /\ m.cp \in Checkpoint
           /\ m.type = "getsnapshotdata" => m.offset \in Byte
           /\ m.type = "snapshotdata" => m.data \in SUBSET Byte
  BY DEF Message

\* The messages that the actions send are messages.
LEMMA SentMessages ==
    ASSUME NEW S \in SUBSET Peer, NEW c \in Checkpoint
    PROVE  /\ [type : {"getutxosnapshot"}, peer : S, cp : {c}] \subseteq Message
           /\ [type : {"utxosnapshot"}, peer : S, cp : {c}] \subseteq Message
           /\ \A o \in Byte : [type : {"getsnapshotdata"}, peer : S, cp : {c},
                               offset : {o}] \subseteq Message
           /\ \A D \in SUBSET Byte : [type : {"snapshotdata"}, peer : S, cp : {c},
                                      data : {D}] \subseteq Message
  BY DEF Message

\* The initial state has the types.
LEMMA TypeInit == Init => TypeOK
  BY BoundAssumption DEF Init, TypeOK, Checkpoint, Byte, NoBytes, Message

\* New headers, new blocks and WriteAutomaticSnapshot keep the types.
LEMMA TypeChain ==
    ASSUME TypeOK, HeadersAdvance \/ TipAdvances PROVE TypeOK'
  <1>1. CASE HeadersAdvance
    BY <1>1, BoundAssumption DEF HeadersAdvance, TypeOK, Checkpoint, tracker, files, network
  <1>2. CASE TipAdvances
    <2>1. own' \in 0..LastCheckpoint /\ wide' \in BOOLEAN /\ ibd' \in BOOLEAN
      BY <1>2, BoundAssumption DEF TipAdvances, TypeOK, Checkpoint
    <2>2. CASE UNCHANGED files
      BY <1>2, <2>1, <2>2 DEF TipAdvances, TypeOK, tracker, files, network
    <2>3. CASE own' > own /\ CleanUp(own', Byte)
      <3>1. own' \in Checkpoint
        BY <1>2, <2>1, <2>3, BoundAssumption DEF TypeOK, Checkpoint
      <3>2. /\ tmp' \in SUBSET Checkpoint /\ tmpData' \in [Checkpoint -> SUBSET Byte]
            /\ dat' \in SUBSET Checkpoint /\ datData' \in [Checkpoint -> SUBSET Byte]
            /\ hash' \in SUBSET Checkpoint
        BY <2>3, <3>1 DEF CleanUp, TypeOK, NoBytes
      <3> QED BY <1>2, <2>1, <3>2 DEF TipAdvances, TypeOK, tracker, network
    <2> QED BY <1>2, <2>2, <2>3 DEF TipAdvances
  <1> QED BY <1>1, <1>2

\* Peers that come, go and reach checkpoints keep the types.
LEMMA TypePeer ==
    ASSUME TypeOK, NEW p \in Peer, PeerCheckpoint(p) \/ PeerConnect(p) \/ FinalizeNode(p)
    PROVE  TypeOK'
  <1>1. CASE PeerCheckpoint(p)
    BY <1>1 DEF PeerCheckpoint, TypeOK, chain, tracker, files
  <1>2. CASE PeerConnect(p)
    BY <1>2 DEF PeerConnect, TypeOK, chain, tracker, files
  <1>3. CASE FinalizeNode(p)
    BY <1>3 DEF FinalizeNode, TypeOK, chain, files
  <1> QED BY <1>1, <1>2, <1>3

\* MaybeRequestSnapshot keeps the types.
LEMMA TypeRequest ==
    ASSUME TypeOK, NEW expired, MaybeRequestSnapshot(expired) PROVE TypeOK'
  <1>1. msgs' \in SUBSET Message /\ target' \in 0..LastCheckpoint
    <2>1. CASE UNCHANGED <<msgs, target>>
      BY <2>1 DEF TypeOK
    <2>2. ASSUME NEW S \in SUBSET conn,
                 msgs' = msgs \cup [type : {"getutxosnapshot"}, peer : S, cp : {net}],
                 target' = net
          PROVE  msgs' \in SUBSET Message /\ target' \in 0..LastCheckpoint
      <3>1. S \in SUBSET Peer /\ net \in Checkpoint
        BY DEF TypeOK
      <3>2. [type : {"getutxosnapshot"}, peer : S, cp : {net}] \subseteq Message
        BY <3>1, SentMessages
      <3> QED BY <2>2, <3>1, <3>2 DEF TypeOK, Checkpoint
    <2> QED BY <2>1, <2>2 DEF MaybeRequestSnapshot
  <1>2. /\ dls' \in SUBSET Checkpoint /\ done' \in SUBSET Checkpoint
        /\ tmp' \in SUBSET Checkpoint
        /\ got' \in [Checkpoint -> SUBSET Byte]
        /\ tmpData' \in [Checkpoint -> SUBSET Byte]
    BY DEF MaybeRequestSnapshot, TypeOK
  <1> QED BY <1>1, <1>2 DEF MaybeRequestSnapshot, TypeOK, chain

\* The two handlers of the serving peer keep the types.
LEMMA TypeServe ==
    ASSUME TypeOK, NEW m \in msgs, GetUtxoSnapshot(m) \/ GetSnapshotData(m)
    PROVE  TypeOK'
  <1>1. m \in Message /\ m.peer \in Peer /\ m.cp \in Checkpoint
    BY MessageFields DEF TypeOK
  <1>2. CASE GetUtxoSnapshot(m)
    <2>1. [type : {"utxosnapshot"}, peer : {m.peer}, cp : {m.cp}] \subseteq Message
      BY <1>1, SentMessages
    <2>2. msgs' \in SUBSET Message
      BY <1>2, <2>1 DEF GetUtxoSnapshot, TypeOK
    <2> QED BY <1>2, <2>2 DEF GetUtxoSnapshot, TypeOK, chain, tracker, files
  <1>3. CASE GetSnapshotData(m)
    <2> DEFINE D == (m.offset..m.offset + ChunkSize - 1) \cap Byte
    <2>1. [type : {"snapshotdata"}, peer : {m.peer}, cp : {m.cp}, data : {D}] \subseteq Message
      <3> HIDE DEF D
      <3>1. D \in SUBSET Byte
        BY DEF D
      <3> QED BY <1>1, <3>1, SentMessages
    <2>2. msgs' \in SUBSET Message
      BY <1>3, <2>1 DEF GetSnapshotData, TypeOK
    <2> QED BY <1>3, <2>2 DEF GetSnapshotData, TypeOK, chain, tracker, files
  <1> QED BY <1>2, <1>3

\* Asking for a chunk keeps the types.
LEMMA TypeChunk ==
    ASSUME TypeOK, NEW p \in Peer, NEW c \in Checkpoint, RequestChunk(p, c)
    PROVE  TypeOK'
  <1>1. PICK o \in Byte : msgs' = msgs \cup [type : {"getsnapshotdata"}, peer : {p},
                                              cp : {c}, offset : {o}]
    BY DEF RequestChunk
  <1>2. [type : {"getsnapshotdata"}, peer : {p}, cp : {c}, offset : {o}] \subseteq Message
    BY SentMessages
  <1> QED BY <1>1, <1>2 DEF RequestChunk, TypeOK, chain, tracker, files

\* Starting a download keeps the types.
LEMMA TypeUtxoSnapshot ==
    ASSUME TypeOK, NEW m \in msgs, UtxoSnapshot(m) PROVE TypeOK'
  <1>1. m.peer \in Peer /\ m.cp \in Checkpoint
    BY MessageFields DEF TypeOK
  <1>2. /\ dls' \in SUBSET Checkpoint /\ hash' \in SUBSET Checkpoint
        /\ tmp' \in SUBSET Checkpoint
        /\ peers' \in [Checkpoint -> SUBSET Peer]
        /\ msgs' \in SUBSET Message
    BY <1>1 DEF UtxoSnapshot, TypeOK
  <1> QED BY <1>2 DEF UtxoSnapshot, TypeOK, chain

\* Receiving a chunk keeps the types.
LEMMA TypeSnapshotData ==
    ASSUME TypeOK, NEW m \in msgs, SnapshotData(m) PROVE TypeOK'
  <1>1. m.cp \in Checkpoint /\ m.data \in SUBSET Byte
    BY MessageFields DEF TypeOK, SnapshotData
  <1>2. /\ dls' \in SUBSET Checkpoint /\ done' \in SUBSET Checkpoint
        /\ tmp' \in SUBSET Checkpoint /\ dat' \in SUBSET Checkpoint
        /\ msgs' \in SUBSET Message
    BY <1>1 DEF SnapshotData, TypeOK
  <1>3. got' \in [Checkpoint -> SUBSET Byte] /\ tmpData' \in [Checkpoint -> SUBSET Byte]
    BY <1>1 DEF SnapshotData, TypeOK
  <1>4. datData' \in [Checkpoint -> SUBSET Byte]
    <2> DEFINE c == m.cp
               written == [tmpData EXCEPT ![c] = @ \cup m.data]
    <2>1. datData' = datData \/ datData' = [datData EXCEPT ![c] = written[c]]
      BY DEF SnapshotData
    <2>2. written[c] \in SUBSET Byte /\ datData \in [Checkpoint -> SUBSET Byte]
      BY <1>1 DEF TypeOK
    <2> HIDE DEF written
    <2> QED BY <1>1, <2>1, <2>2
  <1> QED BY <1>2, <1>3, <1>4 DEF SnapshotData, TypeOK, chain

\* The activation task keeps the types.
LEMMA TypeActivate ==
    ASSUME TypeOK, MaybeActivateAutomaticSnapshot PROVE TypeOK'
  <1>1. PICK c \in dat :
          \/ /\ hash' = hash \ {c} \/ (c \in hash /\ UNCHANGED hash)
             /\ dat' = dat \ {c} /\ datData' = [datData EXCEPT ![c] = {}]
             /\ UNCHANGED <<own, wide, ibd, base, activated, tmp, tmpData>>
          \/ /\ base' = c /\ activated' = c /\ own' = c
             /\ wide' = (net > c) /\ ibd' \in BOOLEAN
             /\ CleanUp(c, datData[c])
    BY DEF MaybeActivateAutomaticSnapshot
  <1>2. c \in Checkpoint /\ c \in 0..LastCheckpoint
    BY DEF TypeOK, Checkpoint
  <1>3. /\ tmp' \in SUBSET Checkpoint /\ tmpData' \in [Checkpoint -> SUBSET Byte]
        /\ dat' \in SUBSET Checkpoint /\ datData' \in [Checkpoint -> SUBSET Byte]
        /\ hash' \in SUBSET Checkpoint
    <2>1. tmp' \in SUBSET Checkpoint /\ dat' \in SUBSET Checkpoint
      <3>1. /\ tmp' = tmp \/ tmp' = tmp \cap {c}
            /\ dat' = dat \ {c} \/ dat' = {c}
        BY <1>1 DEF CleanUp
      <3> QED BY <1>2, <3>1 DEF TypeOK
    <2>2. hash' \in SUBSET Checkpoint
      <3>1. hash' = hash \ {c} \/ hash' = hash \/ hash' = {c}
        BY <1>1 DEF CleanUp
      <3> QED BY <1>2, <3>1 DEF TypeOK
    <2>3. tmpData' \in [Checkpoint -> SUBSET Byte]
      BY <1>1, <1>2 DEF CleanUp, TypeOK, NoBytes
    <2>4. datData' \in [Checkpoint -> SUBSET Byte]
      BY <1>1, <1>2 DEF CleanUp, TypeOK, NoBytes
    <2> QED BY <2>1, <2>2, <2>3, <2>4
  <1>4. /\ own' \in 0..LastCheckpoint /\ base' \in 0..LastCheckpoint
        /\ activated' \in 0..LastCheckpoint
    BY <1>1, <1>2 DEF TypeOK
  <1>5. wide' \in BOOLEAN /\ ibd' \in BOOLEAN
    <2>1. (net > c) \in BOOLEAN
      OBVIOUS
    <2> QED BY <1>1, <2>1, Zenon DEF TypeOK
  <1> QED BY <1>3, <1>4, <1>5 DEF MaybeActivateAutomaticSnapshot, TypeOK, tracker, network

\* Restarts and crashes keep the types.
LEMMA TypeRestart ==
    ASSUME TypeOK, Restart \/ CrashBeforeSidecar PROVE TypeOK'
  <1>1. ForgetMemory /\ UNCHANGED <<net, base, have>>
    BY DEF Restart, CrashBeforeSidecar
  <1>2. /\ ibd' \in BOOLEAN /\ activated' \in 0..LastCheckpoint
        /\ target' \in 0..LastCheckpoint /\ dls' \in SUBSET Checkpoint
        /\ got' \in [Checkpoint -> SUBSET Byte] /\ done' \in SUBSET Checkpoint
        /\ peers' \in [Checkpoint -> SUBSET Peer]
        /\ conn' \in SUBSET Peer /\ msgs' \in SUBSET Message /\ restarts' \in Nat
    BY <1>1, BoundAssumption DEF ForgetMemory, TypeOK, NoBytes
  <1>3. /\ own' \in 0..LastCheckpoint /\ wide' \in BOOLEAN
        /\ tmp' \in SUBSET Checkpoint /\ tmpData' \in [Checkpoint -> SUBSET Byte]
        /\ dat' \in SUBSET Checkpoint /\ datData' \in [Checkpoint -> SUBSET Byte]
        /\ hash' \in SUBSET Checkpoint
    <2>1. CASE Restart
      BY <2>1 DEF Restart, files, TypeOK
    <2>2. CASE CrashBeforeSidecar
      <3>1. own' \in Checkpoint /\ own' \in 0..LastCheckpoint
        BY <2>2, BoundAssumption DEF CrashBeforeSidecar, TypeOK, Checkpoint
      <3> QED BY <2>2, <3>1 DEF CrashBeforeSidecar, TypeOK
    <2> QED BY <2>1, <2>2
  <1> QED BY <1>1, <1>2, <1>3 DEF TypeOK

\* The variables of the snapshot download hold values of their types, whatever
\* the peers send, the disk refuses and the process forgets.
THEOREM DownloadTypes == Spec => []TypeOK
  <1>1. ASSUME TypeOK, [Next]_vars PROVE TypeOK'
    <2>1. CASE UNCHANGED vars
      BY <1>1, <2>1 DEF vars, chain, tracker, files, network, TypeOK
    <2>2. CASE Next
      BY <1>1, <2>2, TypeChain, TypePeer, TypeRequest, TypeServe, TypeChunk,
         TypeUtxoSnapshot, TypeSnapshotData, TypeActivate, TypeRestart DEF Next
    <2> QED BY <1>1, <2>1, <2>2
  <1> QED BY <1>1, TypeInit, PTL DEF Spec

-----------------------------------------------------------------------------
\* What a download has received is in its temporary file, as long as the file
\* is there, and a checkpoint that is not being downloaded has received nothing.
ReceivedInv ==
    \A c \in Checkpoint : /\ c \in dls /\ c \in tmp => got[c] \subseteq tmpData[c]
                          /\ c \notin dls => got[c] = {}

FilesInv == SnapshotsWhole /\ ReceivedInv

\* An empty snapshot directory satisfies FilesInv.
LEMMA FilesInit == Init => FilesInv
  BY DEF Init, FilesInv, SnapshotsWhole, ReceivedInv, NoBytes

\* The actions that leave the files and the download entries alone.
LEMMA FilesNetwork ==
    ASSUME TypeOK, FilesInv,
           UNCHANGED <<own, dls, got, tmp, tmpData, dat, datData, hash>>
    PROVE  FilesInv'
  BY DEF FilesInv, SnapshotsWhole, ReceivedInv

\* WriteAutomaticSnapshot writes a whole file and removes the others.
LEMMA FilesTip ==
    ASSUME TypeOK, TypeOK', FilesInv, TipAdvances PROVE FilesInv'
  <1>1. own \in Int /\ own' \in Int /\ own <= own' /\ UNCHANGED <<dls, got>>
    BY DEF TipAdvances, TypeOK, tracker
  <1>2. CASE UNCHANGED files
    <2>1. UNCHANGED <<tmp, tmpData, dat, datData, hash>>
      BY <1>2 DEF files
    <2>2. dat \subseteq Int
      BY DEF TypeOK, Checkpoint
    <2>3. SnapshotsWhole'
      BY <1>1, <2>1, <2>2 DEF FilesInv, SnapshotsWhole
    <2>4. ReceivedInv'
      BY <1>1, <2>1 DEF FilesInv, ReceivedInv
    <2> QED BY <2>3, <2>4 DEF FilesInv
  <1>3. CASE own' > own /\ CleanUp(own', Byte)
    <2>1. own' \in Checkpoint
      BY <1>1, <1>3 DEF TypeOK, Checkpoint
    <2>2. SnapshotsWhole'
      BY <1>3, <2>1 DEF CleanUp, SnapshotsWhole, NoBytes
    <2>3. ReceivedInv'
      BY <1>1, <1>3, <2>1 DEF CleanUp, FilesInv, ReceivedInv, NoBytes
    <2> QED BY <2>2, <2>3 DEF FilesInv
  <1> QED BY <1>2, <1>3 DEF TipAdvances

\* The sweep removes an expired file together with its entry.
LEMMA FilesRequest ==
    ASSUME TypeOK, FilesInv, NEW expired, MaybeRequestSnapshot(expired)
    PROVE  FilesInv'
  <1>1. SnapshotsWhole'
    BY DEF MaybeRequestSnapshot, FilesInv, SnapshotsWhole, chain
  <1>2. ReceivedInv'
    BY DEF MaybeRequestSnapshot, FilesInv, ReceivedInv, TypeOK
  <1> QED BY <1>1, <1>2 DEF FilesInv

\* A new download has received nothing, whatever is in a kept file.
LEMMA FilesUtxoSnapshot ==
    ASSUME TypeOK, FilesInv, NEW m \in msgs, UtxoSnapshot(m) PROVE FilesInv'
  <1>1. SnapshotsWhole'
    BY DEF UtxoSnapshot, FilesInv, SnapshotsWhole, chain
  <1>2. ReceivedInv'
    BY DEF UtxoSnapshot, FilesInv, ReceivedInv, TypeOK
  <1> QED BY <1>1, <1>2 DEF FilesInv

\* A chunk is written before it counts: the file renamed is whole.
LEMMA FilesSnapshotData ==
    ASSUME TypeOK, FilesInv, NEW m \in msgs, SnapshotData(m) PROVE FilesInv'
  <1>1. m.cp \in Checkpoint /\ m.data \in SUBSET Byte
    BY MessageFields DEF TypeOK, SnapshotData
  <1> DEFINE c == m.cp
  <1>2. SnapshotsWhole'
    <2>1. CASE UNCHANGED <<dat, datData>>
      BY <2>1 DEF SnapshotData, FilesInv, SnapshotsWhole, chain
    <2>2. CASE /\ c \in (dls \ done) \cap tmp /\ c \in hash
               /\ got[c] \cup m.data = Byte
               /\ dat' = dat \cup {c}
               /\ datData' = [datData EXCEPT ![c] = tmpData[c] \cup m.data]
      <3>1. got[c] \subseteq tmpData[c]
        BY <1>1, <2>2 DEF FilesInv, ReceivedInv
      <3>2. tmpData[c] \cup m.data = Byte
        BY <1>1, <2>2, <3>1 DEF TypeOK
      <3>3. UNCHANGED <<hash, own>>
        BY DEF SnapshotData, chain
      <3>4. datData'[c] = Byte /\ \A d \in dat : d # c => datData'[d] = datData[d]
        BY <1>1, <2>2, <3>2 DEF TypeOK
      <3> QED BY <2>2, <3>3, <3>4 DEF FilesInv, SnapshotsWhole
    <2> QED BY <1>1, <2>1, <2>2 DEF SnapshotData, TypeOK
  <1>3. ReceivedInv'
    <2>1. \/ UNCHANGED <<dls, tmp, got, tmpData>>
          \/ /\ UNCHANGED <<dls, tmp>> /\ c \in dls
             /\ got' = [got EXCEPT ![c] = got[c] \cup m.data]
             /\ tmpData' = [tmpData EXCEPT ![c] = @ \cup m.data]
          \/ /\ dls' = dls \ {c} /\ tmp' = tmp \ {c}
             /\ got' = [got EXCEPT ![c] = {}]
             /\ tmpData' = [tmpData EXCEPT ![c] = {}]
      BY DEF SnapshotData
    <2>2. got \in [Checkpoint -> SUBSET Byte] /\ tmpData \in [Checkpoint -> SUBSET Byte]
      BY DEF TypeOK
    <2>3. ReceivedInv
      BY DEF FilesInv
    <2>4. CASE UNCHANGED <<dls, tmp, got, tmpData>>
      BY <2>3, <2>4 DEF ReceivedInv
    <2>5. CASE /\ UNCHANGED <<dls, tmp>> /\ c \in dls
               /\ got' = [got EXCEPT ![c] = got[c] \cup m.data]
               /\ tmpData' = [tmpData EXCEPT ![c] = @ \cup m.data]
      BY <1>1, <2>2, <2>3, <2>5 DEF ReceivedInv
    <2>6. CASE /\ dls' = dls \ {c} /\ tmp' = tmp \ {c}
               /\ got' = [got EXCEPT ![c] = {}]
               /\ tmpData' = [tmpData EXCEPT ![c] = {}]
      BY <1>1, <2>2, <2>3, <2>6 DEF ReceivedInv
    <2> QED BY <2>1, <2>4, <2>5, <2>6
  <1> QED BY <1>2, <1>3 DEF FilesInv

\* The activation task removes files but changes none.
LEMMA FilesActivate ==
    ASSUME TypeOK, FilesInv, MaybeActivateAutomaticSnapshot PROVE FilesInv'
  <1>1. PICK c \in dat :
          \/ /\ hash' = hash \ {c} \/ (c \in hash /\ UNCHANGED hash)
             /\ dat' = dat \ {c} /\ datData' = [datData EXCEPT ![c] = {}]
             /\ UNCHANGED <<own, tmp, tmpData>>
          \/ own' = c /\ CleanUp(c, datData[c])
    BY DEF MaybeActivateAutomaticSnapshot
  <1>2. c \in Checkpoint /\ UNCHANGED <<dls, got>>
    BY DEF TypeOK, MaybeActivateAutomaticSnapshot, tracker
  <1>3. SnapshotsWhole'
    BY <1>1, <1>2 DEF FilesInv, SnapshotsWhole, CleanUp, NoBytes, TypeOK
  <1>4. ReceivedInv'
    BY <1>1, <1>2 DEF FilesInv, ReceivedInv, CleanUp, NoBytes, TypeOK
  <1> QED BY <1>3, <1>4 DEF FilesInv

\* A restart forgets all that was received; the files stay.
LEMMA FilesRestart ==
    ASSUME TypeOK, TypeOK', FilesInv, Restart \/ CrashBeforeSidecar PROVE FilesInv'
  <1>1. ReceivedInv'
    BY DEF Restart, CrashBeforeSidecar, ForgetMemory, ReceivedInv, NoBytes
  <1>2. CASE Restart
    BY <1>1, <1>2 DEF Restart, files, FilesInv, SnapshotsWhole
  <1>3. CASE CrashBeforeSidecar
    <2>1. own' = own + 1 /\ own' \in Checkpoint
      BY <1>3, BoundAssumption DEF CrashBeforeSidecar, TypeOK, Checkpoint
    <2>2. SnapshotsWhole'
      BY <1>3, <2>1 DEF CrashBeforeSidecar, FilesInv, SnapshotsWhole, TypeOK, Checkpoint
    <2> QED BY <1>1, <2>2 DEF FilesInv
  <1> QED BY <1>2, <1>3

\* Every .dat file in the snapshot directory is whole and, unless the node wrote
\* it itself, has its sidecar: for all file and chunk sizes, peers, clean-ups,
\* late chunks and restarts (UTXOSNAPSHOT, SNAPSHOTDATA, the sweep of
\* MaybeRequestSnapshot, WriteAutomaticSnapshot, the activation task).
THEOREM DownloadedSnapshotsWhole == Spec => []SnapshotsWhole
  <1>1. ASSUME TypeOK, TypeOK', FilesInv, [Next]_vars PROVE FilesInv'
    <2>1. CASE UNCHANGED vars
      BY <1>1, <2>1, FilesNetwork DEF vars, chain, tracker, files
    <2>2. CASE HeadersAdvance
      BY <1>1, <2>2, FilesNetwork DEF HeadersAdvance, tracker, files
    <2>3. ASSUME NEW p \in Peer, PeerCheckpoint(p) \/ PeerConnect(p) \/ FinalizeNode(p)
          PROVE  FilesInv'
      BY <1>1, <2>3, FilesNetwork
         DEF PeerCheckpoint, PeerConnect, FinalizeNode, chain, tracker, files
    <2>4. ASSUME NEW m \in msgs, GetUtxoSnapshot(m) \/ GetSnapshotData(m)
          PROVE  FilesInv'
      BY <1>1, <2>4, FilesNetwork DEF GetUtxoSnapshot, GetSnapshotData, chain, tracker, files
    <2>5. ASSUME NEW p \in Peer, NEW c \in Checkpoint, RequestChunk(p, c)
          PROVE  FilesInv'
      BY <1>1, <2>5, FilesNetwork DEF RequestChunk, chain, tracker, files
    <2> QED BY <1>1, <2>1, <2>2, <2>3, <2>4, <2>5, FilesTip, FilesRequest,
               FilesUtxoSnapshot, FilesSnapshotData, FilesActivate, FilesRestart DEF Next
  <1>2. FilesInv => SnapshotsWhole
    BY DEF FilesInv
  <1> QED BY <1>1, <1>2, FilesInit, DownloadTypes, PTL DEF Spec
-----------------------------------------------------------------------------
(* The ranges in which a download keeps the bytes it has (got, above): they *)
(* are exact for a file of every size and chunks in every order.            *)

VARIABLES ranges, received

Ranges == INSTANCE ReceivedRanges

IsRange(r) == r \in (0..FileSize) \X (0..FileSize) /\ r[1] < r[2]
Bytes(R)   == UNION {Ranges!Span(r[1], r[2] - r[1]) : r \in R}
Apart(R)   == \A r, q \in R : r # q => r[2] < q[1] \/ q[2] < r[1]

\* What received_ranges always is.
RangesOK(R) == IsFiniteSet(R) /\ (\A r \in R : IsRange(r)) /\ Apart(R)

-----------------------------------------------------------------------------
(* Ranges.                                                                  *)

\* A set of natural numbers that is not empty has a least element.
LEMMA LeastNumber ==
    ASSUME NEW S \in SUBSET Nat, S # {} PROVE \E x \in S : \A y \in S : x <= y
<1> DEFINE R == OpToRel(<, Nat)
<1>1. IsWellFoundedOn(R, Nat)
  BY NatLessThanWellFounded
<1> HIDE DEF R
<1>2. PICK x \in S : \A y \in S : ~ (<<y, x>> \in R)
  BY <1>1, WFMin
<1>3. \A y \in Nat : y < x => <<y, x>> \in R
  BY DEF R, OpToRel
<1>4. \A y \in S : ~(y < x)
  BY <1>2, <1>3
<1>5. \A y \in S : x <= y
  BY <1>4
<1> QED BY <1>5

\* What holds before a loop and is kept by each of its turns holds after it.
LEMMA LoopInduction ==
    ASSUME NEW n \in Nat, NEW S, 0 \in S, \A i \in 1..n : i - 1 \in S => i \in S
    PROVE  0..n \subseteq S
<1> SUFFICES ASSUME (0..n) \ S # {} PROVE FALSE
  OBVIOUS
<1> DEFINE W == (0..n) \ S
<1>1. W \in SUBSET Nat /\ W # {}
  OBVIOUS
<1> HIDE DEF W
<1>2. PICK x \in W : \A y \in W : x <= y
  BY <1>1, LeastNumber, Zenon
<1>3. x \in 1..n /\ x \notin S
  BY <1>2 DEF W
<1>4. x - 1 \in S
  BY <1>2, <1>3 DEF W
<1> QED BY <1>3, <1>4

\* The greater one of two numbers.
LEMMA MaxOfTwo ==
    ASSUME NEW a \in Int, NEW b \in Int PROVE Ranges!Max({a, b}) = IF a >= b THEN a ELSE b
<1>1. \E x \in {a, b} : \A y \in {a, b} : x >= y
  OBVIOUS
<1>2. Ranges!Max({a, b}) \in {a, b} /\ \A y \in {a, b} : Ranges!Max({a, b}) >= y
  BY <1>1 DEF Ranges!Max
<1> QED BY <1>2

\* The bytes of a set of ranges.
LEMMA InBytes ==
    ASSUME FileSize \in Nat, NEW R, \A r \in R : IsRange(r), NEW x
    PROVE  x \in Bytes(R) <=> \E r \in R : x \in Int /\ r[1] <= x /\ x < r[2]
<1>1. \A r \in R : r[1] \in Int /\ r[2] \in Int
  BY DEF IsRange
<1>2. \A r \in R : x \in Ranges!Span(r[1], r[2] - r[1]) <=> x \in Int /\ r[1] <= x /\ x < r[2]
  BY <1>1 DEF Ranges!Span
<1>3. x \in Bytes(R) <=> \E r \in R : x \in Ranges!Span(r[1], r[2] - r[1])
  BY DEF Bytes
<1> QED BY <1>2, <1>3

\* begin() of the map.
LEMMA FirstIs ==
    ASSUME FileSize \in Nat, NEW R, R # {}, \A r \in R : IsRange(r)
    PROVE  Ranges!First(R) \in R /\ \A q \in R : Ranges!First(R)[1] <= q[1]
<1> DEFINE S == {r[1] : r \in R}
<1>1. S \in SUBSET Nat /\ S # {}
  BY DEF IsRange
<1>2. \E x \in S : \A y \in S : x <= y
  <2> HIDE DEF S
  <2> QED BY <1>1, LeastNumber, Zenon
<1>3. \E r \in R : \A q \in R : r[1] <= q[1]
  BY <1>2
<1> QED BY <1>3, Zenon DEF Ranges!First

\* The range before lower_bound.
LEMMA LastIs ==
    ASSUME FileSize \in Nat, NEW R, R # {}, \A r \in R : IsRange(r)
    PROVE  Ranges!Last(R) \in R /\ \A q \in R : Ranges!Last(R)[1] >= q[1]
<1> DEFINE S == {FileSize - r[1] : r \in R}
<1>1. S \in SUBSET Nat /\ S # {}
  BY DEF IsRange
<1>2. \E x \in S : \A y \in S : x <= y
  <2> HIDE DEF S
  <2> QED BY <1>1, LeastNumber, Zenon
<1>3. PICK r \in R : \A q \in R : FileSize - r[1] <= FileSize - q[1]
  BY <1>2
<1>4. \A q \in R : r[1] >= q[1]
  BY <1>3 DEF IsRange
<1> QED BY <1>4, Zenon DEF Ranges!Last

-----------------------------------------------------------------------------
(* The loop of AddRange.                                                    *)

\* The state of the loop for a range that begins at start and ended at end: with
\* what is still ahead it covers the same bytes as before.
TurnOK(turn, start, end, A) ==
    /\ turn.ahead \in SUBSET A /\ turn.end \in end..FileSize
    /\ \A x \in Int : (start <= x /\ x < turn.end) \/ x \in Bytes(turn.ahead)
                  <=> (start <= x /\ x < end) \/ x \in Bytes(A)

Done(turn) == turn.ahead = {} \/ Ranges!First(turn.ahead)[1] > turn.end

\* One turn of the loop.
LEMMA SwallowKeeps ==
    ASSUME FileSize \in Nat, NEW A, RangesOK(A), NEW start \in 0..FileSize,
           NEW end \in 0..FileSize, start < end, \A r \in A : start <= r[1],
           NEW turn, TurnOK(turn, start, end, A)
    PROVE  /\ TurnOK(Ranges!Swallow(turn), start, end, A)
           /\ Done(turn) => Ranges!Swallow(turn) = turn
           /\ ~ Done(turn) =>
                 Cardinality(Ranges!Swallow(turn).ahead) = Cardinality(turn.ahead) - 1
<1> DEFINE next == Ranges!First(turn.ahead)
           rest == turn.ahead \ {next}
<1>1. CASE Done(turn)
  <2>1. Ranges!Swallow(turn) = turn
    BY <1>1 DEF Done, Ranges!Swallow
  <2> QED BY <1>1, <2>1
<1>2. CASE ~ Done(turn)
  <2>1. turn.ahead # {} /\ ~ (next[1] > turn.end)
    BY <1>2 DEF Done
  <2>2. turn.ahead \in SUBSET A /\ IsFiniteSet(turn.ahead) /\ \A r \in turn.ahead : IsRange(r)
    BY FS_Subset DEF TurnOK, RangesOK
  <2>3. next \in turn.ahead
    BY <2>1, <2>2, FirstIs
  <2> HIDE DEF next
  <2>4. /\ next[1] \in Int /\ next[2] \in Int /\ turn.end \in Int /\ start <= next[1]
        /\ next[1] < next[2] /\ next[2] <= FileSize /\ next[1] <= turn.end
        /\ turn.end <= FileSize /\ end <= turn.end
    BY <2>1, <2>2, <2>3 DEF IsRange, TurnOK
  <2>5. PICK e \in Int : e = Ranges!Max({turn.end, next[2]})
    BY <2>4, MaxOfTwo
  <2>6. e = IF turn.end >= next[2] THEN turn.end ELSE next[2]
    BY <2>4, <2>5, MaxOfTwo
  <2>7. Ranges!Swallow(turn) = [end |-> e, ahead |-> rest]
    BY <2>1, <2>5 DEF Ranges!Swallow, next
  <2>8. Ranges!Swallow(turn).end = e /\ Ranges!Swallow(turn).ahead = rest
    BY <2>7
  <2>9. Cardinality(rest) = Cardinality(turn.ahead) - 1
    BY <2>2, <2>3, FS_RemoveElement
  <2>10. rest \in SUBSET A /\ e \in end..FileSize
    <3>1. e \in end..FileSize
      BY <2>4, <2>6
    <3> QED BY <2>2, <3>1, Zenon
  <2>11. ASSUME NEW x \in Int
         PROVE  (start <= x /\ x < e) \/ x \in Bytes(rest)
                <=> (start <= x /\ x < turn.end) \/ x \in Bytes(turn.ahead)
    <3>1. x \in Bytes(turn.ahead) <=> (next[1] <= x /\ x < next[2]) \/ x \in Bytes(rest)
      <4>1. \A r \in rest : IsRange(r)
        BY <2>2
      <4>2. x \in Bytes(rest) <=> \E r \in rest : x \in Int /\ r[1] <= x /\ x < r[2]
        BY <4>1, InBytes
      <4>3. x \in Bytes(turn.ahead) <=> \E r \in turn.ahead : x \in Int /\ r[1] <= x /\ x < r[2]
        BY <2>2, InBytes
      <4> QED BY <2>3, <4>2, <4>3
    <3>2. (start <= x /\ x < e) <=> (start <= x /\ x < turn.end) \/ (next[1] <= x /\ x < next[2])
      BY <2>4, <2>6
    <3> QED BY <3>1, <3>2
  <2>12. TurnOK(Ranges!Swallow(turn), start, end, A)
    <3>1. \A x \in Int : (start <= x /\ x < e) \/ x \in Bytes(rest)
                     <=> (start <= x /\ x < end) \/ x \in Bytes(A)
      BY <2>11 DEF TurnOK
    <3> HIDE DEF rest
    <3> QED BY <2>8, <2>10, <3>1 DEF TurnOK
  <2> QED BY <1>2, <2>8, <2>9, <2>12
<1> QED BY <1>1, <1>2

\* The turns of the loop, as Merge defines them.
IsTurns(f, end, A, n) ==
    f = [k \in 0..n |-> IF k = 0 THEN [end |-> end, ahead |-> A] ELSE Ranges!Swallow(f[k-1])]

\* There are such turns.
LEMMA TurnsExist ==
    ASSUME NEW end, NEW A, NEW n \in Nat PROVE \E f : IsTurns(f, end, A, n)
<1> DEFINE Has(m) == \E f : IsTurns(f, end, A, m)
           S == {m \in 0..n : Has(m)}
<1>1. 0 \in S
  <2> DEFINE g == [k \in 0..0 |-> [end |-> end, ahead |-> A]]
  <2>1. g = [k \in 0..0 |-> IF k = 0 THEN [end |-> end, ahead |-> A] ELSE Ranges!Swallow(g[k-1])]
    OBVIOUS
  <2> HIDE DEF g
  <2>2. Has(0)
    BY <2>1 DEF IsTurns
  <2> QED BY <2>2
<1>2. ASSUME NEW m \in 1..n, m - 1 \in S PROVE m \in S
  <2>1. PICK f : IsTurns(f, end, A, m - 1)
    BY <1>2
  <2> DEFINE g == [k \in 0..m |-> IF k = m THEN Ranges!Swallow(f[m-1]) ELSE f[k]]
  <2>2. \A k \in 0..m : g[k] = IF k = 0 THEN [end |-> end, ahead |-> A] ELSE Ranges!Swallow(g[k-1])
    BY <2>1 DEF IsTurns
  <2>3. g = [k \in 0..m |-> IF k = 0 THEN [end |-> end, ahead |-> A] ELSE Ranges!Swallow(g[k-1])]
    BY <2>2
  <2> HIDE DEF g
  <2>4. Has(m)
    BY <2>3 DEF IsTurns
  <2> QED BY <2>4
<1> HIDE DEF S
<1>3. 0..n \subseteq S
  BY <1>1, <1>2, LoopInduction
<1> QED BY <1>3 DEF S

\* The instance has the number of elements under a name of its own.
LEMMA RangesCardinality == \A S : Ranges!Cardinality(S) = Cardinality(S)
  BY DEF Ranges!Cardinality, Cardinality

\* The loop leaves the ranges L ahead and ends the new range at e: what is left
\* begins behind the new range, and nothing is lost or gained.
MergeLeaves(L, e, start, end, A, B) ==
    /\ Ranges!Merge(start, end, A, B) = B \cup L \cup {<<start, e>>}
    /\ \A r \in L : r[1] > e
    /\ \A x \in Int : (start <= x /\ x < e) \/ x \in Bytes(L)
                  <=> (start <= x /\ x < end) \/ x \in Bytes(A)

\* The loop does that.
LEMMA MergeIs ==
    ASSUME FileSize \in Nat, NEW A, RangesOK(A), NEW start \in 0..FileSize,
           NEW end \in 0..FileSize, start < end, \A r \in A : start <= r[1], NEW B
    PROVE  \E L \in SUBSET A, e \in end..FileSize : MergeLeaves(L, e, start, end, A, B)
<1> DEFINE n == Cardinality(A)
           f == CHOOSE g : IsTurns(g, end, A, n)
<1>1. n \in Nat
  BY FS_CardinalityType DEF RangesOK
<1>2. IsTurns(f, end, A, n)
  <2> HIDE DEF n
  <2> QED BY <1>1, TurnsExist, Zenon
<1>3. Ranges!Merge(start, end, A, B) = B \cup f[n].ahead \cup {<<start, f[n].end>>}
  BY RangesCardinality DEF Ranges!Merge, IsTurns
<1> HIDE DEF f
<1>4. f[0] = [end |-> end, ahead |-> A] /\ \A k \in 1..n : f[k] = Ranges!Swallow(f[k-1])
  <2> HIDE DEF n
  <2> QED BY <1>1, <1>2 DEF IsTurns
<1> DEFINE S == {k \in 0..n : /\ TurnOK(f[k], start, end, A)
                              /\ Done(f[k]) \/ Cardinality(f[k].ahead) <= n - k}
<1>5. 0 \in S
  <2>1. f[0].end = end /\ f[0].ahead = A
    BY <1>4
  <2>2. TurnOK(f[0], start, end, A)
    BY <2>1 DEF TurnOK
  <2>3. Cardinality(f[0].ahead) <= n - 0
    BY <1>1, <2>1
  <2> QED BY <1>1, <2>2, <2>3
<1>6. ASSUME NEW k \in 1..n, k - 1 \in S PROVE k \in S
  <2>1. TurnOK(f[k-1], start, end, A) /\ (Done(f[k-1]) \/ Cardinality(f[k-1].ahead) <= n - (k - 1))
    BY <1>6
  <2>2. f[k] = Ranges!Swallow(f[k-1])
    BY <1>4
  <2>3. /\ TurnOK(f[k], start, end, A)
        /\ Done(f[k-1]) => f[k] = f[k-1]
        /\ ~ Done(f[k-1]) => Cardinality(f[k].ahead) = Cardinality(f[k-1].ahead) - 1
    <3>1. /\ TurnOK(Ranges!Swallow(f[k-1]), start, end, A)
          /\ Done(f[k-1]) => Ranges!Swallow(f[k-1]) = f[k-1]
          /\ ~ Done(f[k-1]) =>
                Cardinality(Ranges!Swallow(f[k-1]).ahead) = Cardinality(f[k-1].ahead) - 1
      BY <2>1, SwallowKeeps, Zenon
    <3> QED BY <2>2, <3>1, Zenon
  <2>4. Cardinality(f[k-1].ahead) \in Nat
    BY <2>1, FS_Subset, FS_CardinalityType DEF TurnOK, RangesOK
  <2>5. CASE Done(f[k-1])
    <3>1. TurnOK(f[k], start, end, A) /\ Done(f[k])
      BY <2>3, <2>5, Zenon
    <3>2. k \in 0..n
      BY <1>1
    <3> QED BY <3>1, <3>2, Zenon
  <2>6. CASE ~ Done(f[k-1])
    <3>1. Cardinality(f[k].ahead) = Cardinality(f[k-1].ahead) - 1
      BY <2>3, <2>6
    <3>2. Cardinality(f[k-1].ahead) <= n - (k - 1)
      BY <2>1, <2>6
    <3>3. Cardinality(f[k].ahead) <= n - k
      BY <1>1, <2>4, <3>1, <3>2
    <3> QED BY <2>3, <3>3
  <2> QED BY <2>5, <2>6
<1>7. n \in S
  <2>1. 0..n \subseteq S
    <3> HIDE DEF S, n
    <3> QED BY <1>1, <1>5, <1>6, LoopInduction
  <2> HIDE DEF S, n
  <2>2. n \in 0..n
    BY <1>1
  <2> QED BY <2>1, <2>2, Zenon
<1>8. TurnOK(f[n], start, end, A)
  BY <1>7
<1>9. /\ f[n].ahead \in SUBSET A /\ f[n].end \in end..FileSize
      /\ \A x \in Int : (start <= x /\ x < f[n].end) \/ x \in Bytes(f[n].ahead)
                    <=> (start <= x /\ x < end) \/ x \in Bytes(A)
  BY <1>8 DEF TurnOK
<1>10. Done(f[n])
  <2> SUFFICES ASSUME Cardinality(f[n].ahead) <= n - n PROVE f[n].ahead = {}
    BY <1>7 DEF Done
  <2>1. IsFiniteSet(f[n].ahead)
    BY <1>9, FS_Subset DEF RangesOK
  <2>2. Cardinality(f[n].ahead) = 0
    <3>1. Cardinality(f[n].ahead) \in Nat
      BY <2>1, FS_CardinalityType
    <3> HIDE DEF n
    <3> QED BY <1>1, <3>1
  <2> QED BY <2>1, <2>2, FS_EmptySet
<1>11. \A r \in f[n].ahead : r[1] > f[n].end
  <2> SUFFICES ASSUME NEW r \in f[n].ahead PROVE r[1] > f[n].end
    OBVIOUS
  <2>1. Ranges!First(f[n].ahead)[1] > f[n].end
    BY <1>10 DEF Done
  <2>2. \A q \in f[n].ahead : IsRange(q)
    BY <1>9 DEF RangesOK
  <2>3. Ranges!First(f[n].ahead) \in f[n].ahead /\ Ranges!First(f[n].ahead)[1] <= r[1]
    BY <2>2, FirstIs
  <2>4. Ranges!First(f[n].ahead)[1] \in Int /\ r[1] \in Int /\ f[n].end \in Int
    BY <1>9, <2>2, <2>3 DEF IsRange
  <2> QED BY <2>1, <2>3, <2>4
<1> HIDE DEF n, S
<1>12. MergeLeaves(f[n].ahead, f[n].end, start, end, A, B)
  BY <1>3, <1>9, <1>11, Zenon DEF MergeLeaves
<1> QED BY <1>9, <1>12, Zenon

\* The map with a new range from start on in place of what the loop swallowed.
LEMMA MergedOK ==
    ASSUME FileSize \in Nat, NEW A, NEW B, RangesOK(A \cup B), NEW start \in 0..FileSize,
           NEW end \in 0..FileSize, start < end,
           \A r \in A : start <= r[1], \A r \in B : r[2] < start
    PROVE  /\ RangesOK(Ranges!Merge(start, end, A, B))
           /\ \A x \in Int : x \in Bytes(Ranges!Merge(start, end, A, B))
                         <=> (start <= x /\ x < end) \/ x \in Bytes(A \cup B)
<1>1. RangesOK(A) /\ IsFiniteSet(B) /\ \A r \in B : IsRange(r)
  BY FS_Subset DEF RangesOK, Apart
<1> PICK L \in SUBSET A, e \in end..FileSize : MergeLeaves(L, e, start, end, A, B)
  BY <1>1, MergeIs, Zenon
<1>2. /\ Ranges!Merge(start, end, A, B) = B \cup L \cup {<<start, e>>}
      /\ \A r \in L : r[1] > e
      /\ \A x \in Int : (start <= x /\ x < e) \/ x \in Bytes(L)
                    <=> (start <= x /\ x < end) \/ x \in Bytes(A)
  BY DEF MergeLeaves
<1> DEFINE new == <<start, e>>
           M == B \cup L \cup {new}
<1>3. e \in Int /\ e <= FileSize /\ start < e /\ IsRange(new) /\ new[1] = start /\ new[2] = e
  BY DEF IsRange
<1> HIDE DEF new
<1>4. IsFiniteSet(M)
  <2>1. IsFiniteSet(L)
    BY <1>1, FS_Subset DEF RangesOK
  <2>2. IsFiniteSet(B \cup L)
    BY <1>1, <2>1, FS_Union
  <2> QED BY <2>2, FS_AddElement
<1>5. \A r \in M : IsRange(r)
  BY <1>1, <1>3 DEF RangesOK
<1>6. Apart(M)
  <2> SUFFICES ASSUME NEW r \in M, NEW q \in M, r # q PROVE r[2] < q[1] \/ q[2] < r[1]
    BY DEF Apart
  <2>1. CASE r \in A \cup B /\ q \in A \cup B
    BY <2>1 DEF RangesOK, Apart
  <2>2. \A p \in B \cup L : p[2] < new[1] \/ new[2] < p[1]
    BY <1>2, <1>3
  <2> QED BY <2>1, <2>2
<1>7. ASSUME NEW x \in Int
      PROVE  x \in Bytes(M) <=> (start <= x /\ x < end) \/ x \in Bytes(A \cup B)
  <2>1. x \in Bytes(M) <=> x \in Bytes(B) \/ x \in Bytes(L) \/ (start <= x /\ x < e)
    <3>1. x \in Bytes(M) <=> x \in Bytes(B) \/ x \in Bytes(L) \/ x \in Bytes({new})
      BY DEF Bytes
    <3>2. x \in Bytes({new}) <=> \E r \in {new} : x \in Int /\ r[1] <= x /\ x < r[2]
      <4>1. \A r \in {new} : IsRange(r)
        BY <1>3
      <4> QED BY <4>1, InBytes
    <3> QED BY <1>3, <3>1, <3>2
  <2>2. x \in Bytes(A \cup B) <=> x \in Bytes(A) \/ x \in Bytes(B)
    BY DEF Bytes
  <2> QED BY <1>2, <2>1, <2>2
<1> QED BY <1>2, <1>4, <1>5, <1>6, <1>7 DEF RangesOK, new

\* AddRange adds the bytes of the chunk, and keeps the ranges apart.
LEMMA AddRangeIs ==
    ASSUME FileSize \in Nat, NEW R, RangesOK(R), NEW offset \in Nat, NEW length \in Nat,
           length > 0, offset + length <= FileSize
    PROVE  /\ RangesOK(Ranges!AddRange(R, offset, length))
           /\ \A x \in Int : x \in Bytes(Ranges!AddRange(R, offset, length))
                         <=> (offset <= x /\ x < offset + length) \/ x \in Bytes(R)
<1> DEFINE ahead  == {r \in R : r[1] >= offset}
           before == R \ ahead
           prev   == Ranges!Last(before)
           end    == offset + length
<1>1. \A r \in R : IsRange(r) /\ r[1] \in Int /\ r[2] \in Int /\ 0 <= r[1] /\ r[1] < r[2]
                   /\ r[2] <= FileSize
  BY DEF RangesOK, IsRange
<1>2. /\ ahead \cup before = R
      /\ \A r \in ahead : r \in R /\ offset <= r[1]
      /\ \A r \in before : r \in R /\ r[1] < offset
  BY <1>1
<1>3. end \in 0..FileSize /\ offset \in 0..FileSize /\ offset < end
  OBVIOUS
<1>4. Ranges!AddRange(R, offset, length) =
          IF before # {} /\ prev[2] >= offset
          THEN Ranges!Merge(prev[1], Ranges!Max({end, prev[2]}), ahead \cup {prev}, before \ {prev})
          ELSE Ranges!Merge(offset, end, ahead, before)
  BY DEF Ranges!AddRange
<1>5. before # {} => prev \in before /\ \A r \in before : r # prev => r[2] < prev[1]
  <2> SUFFICES ASSUME before # {} PROVE prev \in before /\ \A r \in before : r # prev => r[2] < prev[1]
    OBVIOUS
  <2>1. \A r \in before : IsRange(r)
    BY <1>1, <1>2
  <2>2. prev \in before /\ \A r \in before : prev[1] >= r[1]
    <3> HIDE DEF before
    <3> QED BY <2>1, LastIs
  <2> HIDE DEF prev, before, ahead
  <2>3. \A r \in before : r # prev => r[2] < prev[1] \/ prev[2] < r[1]
    BY <1>2, <2>2 DEF RangesOK, Apart
  <2> QED BY <1>1, <1>2, <2>2, <2>3
<1> HIDE DEF ahead, before, prev
<1>6. CASE before # {} /\ prev[2] >= offset
  <2>1. prev \in before /\ prev \in R /\ prev[1] < offset
    BY <1>2, <1>5, <1>6
  <2>2. PICK most \in Int : most = Ranges!Max({end, prev[2]})
    BY <1>1, <1>3, <2>1, MaxOfTwo
  <2>3. most = IF end >= prev[2] THEN end ELSE prev[2]
    BY <1>1, <1>3, <2>1, <2>2, MaxOfTwo
  <2> DEFINE A == ahead \cup {prev}
             B == before \ {prev}
  <2>4. A \cup B = R
    BY <1>2, <2>1
  <2>5. most \in 0..FileSize /\ prev[1] \in 0..FileSize /\ prev[1] < most
    BY <1>1, <1>3, <1>6, <2>1, <2>3
  <2>6. \A r \in A : prev[1] <= r[1]
    BY <1>1, <1>2, <2>1
  <2>7. \A r \in B : r[2] < prev[1]
    BY <1>5, <2>1
  <2>8. Ranges!AddRange(R, offset, length) = Ranges!Merge(prev[1], most, A, B)
    BY <1>4, <1>6, <2>2
  <2> HIDE DEF A, B
  <2>9. /\ RangesOK(Ranges!Merge(prev[1], most, A, B))
        /\ \A x \in Int : x \in Bytes(Ranges!Merge(prev[1], most, A, B))
                      <=> (prev[1] <= x /\ x < most) \/ x \in Bytes(R)
    BY <2>4, <2>5, <2>6, <2>7, MergedOK
  <2>10. ASSUME NEW x \in Int
         PROVE  (prev[1] <= x /\ x < most) \/ x \in Bytes(R)
                <=> (offset <= x /\ x < end) \/ x \in Bytes(R)
    <3>1. prev[1] <= x /\ x < prev[2] => x \in Bytes(R)
      BY <1>1, <2>1, InBytes
    <3>2. prev[1] <= x /\ x < most => (prev[1] <= x /\ x < prev[2]) \/ (offset <= x /\ x < end)
      BY <1>1, <1>3, <1>6, <2>1, <2>3
    <3>3. offset <= x /\ x < end => prev[1] <= x /\ x < most
      BY <1>1, <1>3, <2>1, <2>3
    <3> QED BY <3>1, <3>2, <3>3
  <2> QED BY <2>8, <2>9, <2>10
<1>7. CASE ~ (before # {} /\ prev[2] >= offset)
  <2>1. \A r \in before : r[2] < offset
    BY <1>1, <1>2, <1>5, <1>7
  <2>2. Ranges!AddRange(R, offset, length) = Ranges!Merge(offset, end, ahead, before)
    BY <1>4, <1>7
  <2>3. /\ RangesOK(Ranges!Merge(offset, end, ahead, before))
        /\ \A x \in Int : x \in Bytes(Ranges!Merge(offset, end, ahead, before))
                      <=> (offset <= x /\ x < end) \/ x \in Bytes(ahead \cup before)
    BY <1>2, <1>3, <2>1, MergedOK
  <2> QED BY <1>2, <2>2, <2>3
<1> QED BY <1>6, <1>7

-----------------------------------------------------------------------------
(* The theorems.                                                            *)

\* The inductive invariant: the ranges are apart and cover what was received.
RangesInv == RangesOK(ranges) /\ Bytes(ranges) = received

\* A chunk keeps the invariant.
LEMMA ReceiveKeeps ==
    ASSUME FileSize \in Nat, RangesInv, NEW offset \in Ranges!Byte, NEW length \in 1..FileSize,
           Ranges!Receive(offset, length)
    PROVE  RangesInv'
<1>1. /\ length > 0 /\ offset + length <= FileSize /\ offset \in Nat /\ length \in Nat
      /\ ranges' = Ranges!AddRange(ranges, offset, length)
      /\ received' = received \cup Ranges!Span(offset, length)
  BY DEF Ranges!Receive, Ranges!Byte
<1>2. /\ RangesOK(ranges')
      /\ \A x \in Int : x \in Bytes(ranges')
                    <=> (offset <= x /\ x < offset + length) \/ x \in Bytes(ranges)
  BY <1>1, AddRangeIs DEF RangesInv
<1>3. \A x : x \in Ranges!Span(offset, length) <=> x \in Int /\ offset <= x /\ x < offset + length
  BY <1>1 DEF Ranges!Span
<1>4. \A x \in Bytes(ranges) : x \in Int
  BY InBytes DEF RangesInv, RangesOK
<1>5. \A x \in Bytes(ranges') : x \in Int
  BY <1>2, InBytes DEF RangesOK
<1>6. Bytes(ranges') = Bytes(ranges) \cup Ranges!Span(offset, length)
  BY <1>2, <1>3, <1>4, <1>5
<1>7. Bytes(ranges') = received'
  BY <1>1, <1>6 DEF RangesInv
<1> QED BY <1>2, <1>7, Zenon DEF RangesInv

\* The invariant always holds.
LEMMA AlwaysRanges ==
    ASSUME FileSize \in Nat PROVE Ranges!Spec => []RangesInv
<1>1. Ranges!Init => RangesInv
  BY FS_EmptySet DEF Ranges!Init, RangesInv, RangesOK, Bytes, Apart
<1>2. RangesInv /\ [Ranges!Next]_Ranges!vars => RangesInv'
  <2> SUFFICES ASSUME RangesInv, [Ranges!Next]_Ranges!vars PROVE RangesInv'
    OBVIOUS
  <2>1. ASSUME NEW offset \in Ranges!Byte, NEW length \in 1..FileSize,
               Ranges!Receive(offset, length)
        PROVE  RangesInv'
    BY <2>1, ReceiveKeeps
  <2>2. CASE UNCHANGED Ranges!vars
    BY <2>2 DEF Ranges!vars, RangesInv, RangesOK, Bytes, Apart
  <2> QED BY <2>1, <2>2, Zenon DEF Ranges!Next
<1> QED BY <1>1, <1>2, PTL DEF Ranges!Spec

\* The ranges cover exactly the bytes that were received, and no two of them
\* overlap or touch (AddRange).
THEOREM RangesAreExact == Ranges!Spec => []Ranges!CoverageExact
<1>1. RangesInv => Ranges!CoverageExact
  BY DEF RangesInv, Ranges!CoverageExact, RangesOK, Apart, Bytes, Ranges!Span
<1>2. FileSize \in Nat
  BY BoundAssumption
<1> QED BY <1>1, <1>2, AlwaysRanges, PTL

\* What is next and whether the file is complete, from the invariant.
LEMMA ProgressIs ==
    ASSUME FileSize \in Nat \ {0}, RangesInv PROVE Ranges!ProgressExact
<1> DEFINE first == Ranges!First(ranges)
           missing == (Ranges!Byte \ received) \cup {FileSize}
<1>1. /\ \A r \in ranges : /\ IsRange(r) /\ r[1] \in Int /\ r[2] \in Int /\ 0 <= r[1]
                           /\ r[1] < r[2] /\ r[2] <= FileSize
      /\ \A r, q \in ranges : r # q => r[2] < q[1] \/ q[2] < r[1]
  BY DEF RangesInv, RangesOK, IsRange, Apart
<1>2. \A x : x \in received <=> \E r \in ranges : x \in Int /\ r[1] <= x /\ x < r[2]
  BY <1>1, InBytes DEF RangesInv
<1>3. \A x : x \in Ranges!Byte <=> x \in Int /\ 0 <= x /\ x < FileSize
  BY DEF Ranges!Byte
<1>4. received \in SUBSET Ranges!Byte
  BY <1>1, <1>2, <1>3
<1>5. ASSUME NEW m \in missing, \A x \in missing : m <= x PROVE Ranges!Min(missing) = m
  <2>1. \A x \in missing : x \in Int
    BY <1>3
  <2> HIDE DEF missing
  <2>2. Ranges!Min(missing) \in missing /\ \A y \in missing : Ranges!Min(missing) <= y
    BY <1>5, Zenon DEF Ranges!Min
  <2> QED BY <1>5, <2>1, <2>2
<1>6. ranges # {} => first \in ranges /\ \A q \in ranges : first[1] <= q[1]
  BY <1>1, FirstIs
<1> HIDE DEF first
<1>7. CASE ranges = {} \/ first[1] > 0
  <2>1. 0 \notin received
    BY <1>1, <1>2, <1>6, <1>7
  <2>2. 0 \in missing /\ 0 \in Ranges!Byte /\ \A x \in missing : 0 <= x
    BY <1>3, <2>1
  <2>3. Ranges!Min(missing) = 0
    <3> HIDE DEF missing
    <3> QED BY <1>5, <2>2
  <2>4. Ranges!GetNextMissingOffset(ranges) = 0
    BY <1>7 DEF Ranges!GetNextMissingOffset, first
  <2>5. ~ Ranges!IsComplete(ranges)
    BY <1>1, <1>6, <1>7 DEF Ranges!IsComplete, first
  <2> QED BY <2>1, <2>2, <2>3, <2>4, <2>5 DEF Ranges!ProgressExact
<1>8. CASE ranges # {} /\ ~ (first[1] > 0)
  <2>1. first \in ranges /\ first[1] = 0 /\ first[2] \in Int /\ 0 < first[2] /\ first[2] <= FileSize
    BY <1>1, <1>6, <1>8
  <2>2. \A x \in Int : 0 <= x /\ x < first[2] => x \in received
    BY <1>2, <2>1
  <2>3. first[2] \notin received
    <3> SUFFICES ASSUME NEW r \in ranges, r[1] <= first[2], first[2] < r[2] PROVE FALSE
      BY <1>2
    <3>1. r # first
      BY <2>1
    <3> QED BY <1>1, <2>1, <3>1
  <2>4. Ranges!GetNextMissingOffset(ranges) = first[2]
    BY <1>8 DEF Ranges!GetNextMissingOffset, first
  <2>5. Ranges!IsComplete(ranges) <=> first[2] >= FileSize
    BY <1>8, <2>1 DEF Ranges!IsComplete, first
  <2>6. first[2] \in missing /\ \A x \in missing : first[2] <= x
    <3>1. first[2] \in missing
      BY <1>3, <2>1, <2>3
    <3>2. ASSUME NEW x \in missing PROVE first[2] <= x
      BY <1>3, <2>1, <2>2
    <3> QED BY <3>1, <3>2
  <2>7. Ranges!Min(missing) = first[2]
    <3> HIDE DEF missing
    <3> QED BY <1>5, <2>6
  <2>8. first[2] >= FileSize <=> received = Ranges!Byte
    <3>1. first[2] >= FileSize => Ranges!Byte \in SUBSET received
      BY <1>3, <2>1, <2>2
    <3>2. first[2] < FileSize => first[2] \in Ranges!Byte
      BY <1>3, <2>1
    <3> QED BY <1>4, <2>1, <2>3, <3>1, <3>2
  <2> QED BY <2>4, <2>5, <2>7, <2>8, Zenon DEF Ranges!ProgressExact
<1> QED BY <1>7, <1>8

\* The file counts as complete exactly when every byte was received (IsComplete),
\* and the byte asked for next is the first missing one (GetNextMissingOffset).
THEOREM ProgressIsExact == Ranges!Spec => []Ranges!ProgressExact
<1>1. FileSize \in Nat \ {0} /\ FileSize \in Nat
  BY BoundAssumption
<1>2. RangesInv => Ranges!ProgressExact
  BY <1>1, ProgressIs
<1> QED BY <1>1, <1>2, AlwaysRanges, PTL
=============================================================================
