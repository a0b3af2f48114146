--------------------------- MODULE ChainstateProofs ---------------------------
(***************************************************************************)
(* Theorems about Chainstate, for every block tree and every set of coins: *)
(* the coins and the block index, and the UTXO MuHash accumulator, which   *)
(* follows the UTXO set under two conditions that the violation runs show  *)
(* to be needed: dumptxoutset does not roll back (MaxDump = 0), and no     *)
(* crash interrupts the flush of a reorg.                                  *)
(***************************************************************************)
EXTENDS Chainstate, WellFoundedInduction, TLAPS

-----------------------------------------------------------------------------
(* The block tree.                                                          *)

\* A set of natural numbers that is not empty has a least element.
LEMMA LeastNumber ==
    ASSUME NEW S \in SUBSET Nat, S # {} PROVE \E x \in S : \A y \in S : x <= y
<1> DEFINE R == OpToRel(<, Nat)
<1>1. IsWellFoundedOn(R, Nat)
  BY NatLessThanWellFounded
<1> HIDE DEF R
<1>2. PICK x \in S : \A y \in S : ~ (<<y, x>> \in R)
  BY <1>1, WFMin
<1>3. \A y \in Nat : y < x => <<y, x>> \in R
  BY DEF R, OpToRel
<1>4. \A y \in S : ~(y < x)
  BY <1>2, <1>3
<1>5. \A y \in S : x <= y
  BY <1>4
<1> QED BY <1>5

\* A set that holds the genesis block, and every block whose parent it holds,
\* holds all blocks.
LEMMA TreeInduction ==
    ASSUME NEW S \in SUBSET Block, Genesis \in S,
           \A b \in Block \ {Genesis} : Prev[b] \in S => b \in S
    PROVE  S = Block
<1> SUFFICES ASSUME S # Block PROVE FALSE
  OBVIOUS
<1> DEFINE N == {Height[b] : b \in Block \ S}
<1>1. N \in SUBSET Nat /\ N # {}
  <2>1. \A b \in Block : Height[b] \in Nat
    BY BlockAssumption
  <2>2. Block \ S # {}
    OBVIOUS
  <2> QED BY <2>1, <2>2
<1>2. PICK n \in N : \A m \in N : n <= m
  BY <1>1, LeastNumber
<1>3. PICK b \in Block \ S : Height[b] = n
  OBVIOUS
<1>4. b # Genesis /\ Prev[b] \in Block \ S
  BY BlockAssumption
<1>5. Height[Prev[b]] \in N /\ Height[b] = Height[Prev[b]] + 1 /\ Height[Prev[b]] \in Nat
  BY <1>4, BlockAssumption
<1>6. n <= Height[Prev[b]]
  BY <1>2, <1>5
<1> HIDE DEF N
<1> QED BY <1>3, <1>5, <1>6

\* The ancestors of a block are the block and those of its parent: the least
\* sets closed under Prev satisfy the recursive definition.
LEMMA AncestorsUnfold ==
    /\ Ancestors[Genesis] = {Genesis}
    /\ \A b \in Block \ {Genesis} : Ancestors[b] = {b} \cup Ancestors[Prev[b]]
<1> DEFINE Closed == {T \in SUBSET Block : \A x \in T \ {Genesis} : Prev[x] \in T}
           C(b) == {a \in Block : \A T \in Closed : b \in T => a \in T}
           f == [b \in Block |-> C(b)]
<1>1. C(Genesis) = {Genesis}
  <2>1. {Genesis} \in Closed
    BY BlockAssumption
  <2> QED BY <2>1, BlockAssumption
<1>2. ASSUME NEW b \in Block \ {Genesis} PROVE C(b) = {b} \cup C(Prev[b])
  <2>1. Prev[b] \in Block
    BY BlockAssumption
  <2>2. b \in C(b)
    OBVIOUS
  <2>3. C(Prev[b]) \subseteq C(b)
    OBVIOUS
  <2> DEFINE T0 == {b} \cup C(Prev[b])
  <2>4. T0 \in Closed
    <3>1. T0 \in SUBSET Block
      OBVIOUS
    <3>2. Prev[b] \in C(Prev[b])
      BY <2>1
    <3>3. ASSUME NEW x \in C(Prev[b]) \ {Genesis} PROVE Prev[x] \in C(Prev[b])
      <4>1. Prev[x] \in Block
        BY BlockAssumption
      <4> QED BY <4>1
    <3> QED BY <3>1, <3>2, <3>3
  <2>5. C(b) \subseteq T0
    BY <2>4
  <2> QED BY <2>2, <2>3, <2>5
<1> HIDE DEF C
<1>3. f = [b \in Block |-> IF b = Genesis THEN {b} ELSE {b} \cup f[Prev[b]]]
  BY <1>1, <1>2, BlockAssumption
<1> HIDE DEF f
<1> DEFINE g == CHOOSE h : h = [b \in Block |-> IF b = Genesis THEN {b} ELSE {b} \cup h[Prev[b]]]
<1>4. g = [b \in Block |-> IF b = Genesis THEN {b} ELSE {b} \cup g[Prev[b]]]
  BY <1>3
<1>5. Ancestors = g
  BY DEF Ancestors
<1> HIDE DEF g
<1> QED BY <1>4, <1>5, BlockAssumption

\* Ancestors are blocks; those of an ancestor are ancestors, and all but the block
\* itself are lower.
LEMMA AncestorsAre ==
    ASSUME NEW b \in Block
    PROVE  /\ Ancestors[b] \subseteq Block /\ b \in Ancestors[b] /\ Genesis \in Ancestors[b]
           /\ \A a \in Ancestors[b] : Ancestors[a] \subseteq Ancestors[b]
           /\ \A a \in Ancestors[b] : a = b \/ Height[a] < Height[b]
<1> DEFINE S == {x \in Block : /\ Ancestors[x] \subseteq Block /\ x \in Ancestors[x]
                               /\ Genesis \in Ancestors[x]
                               /\ \A a \in Ancestors[x] : Ancestors[a] \subseteq Ancestors[x]
                               /\ \A a \in Ancestors[x] : a = x \/ Height[a] < Height[x]}
<1>1. Genesis \in S
  BY AncestorsUnfold, BlockAssumption
<1>2. ASSUME NEW x \in Block \ {Genesis}, Prev[x] \in S PROVE x \in S
  <2>1. Ancestors[x] = {x} \cup Ancestors[Prev[x]]
    BY AncestorsUnfold
  <2>2. /\ Height[x] = Height[Prev[x]] + 1 /\ Height[Prev[x]] \in Nat
        /\ \A a \in Block : Height[a] \in Nat
    BY BlockAssumption
  <2>3. Ancestors[x] \subseteq Block /\ x \in Ancestors[x] /\ Genesis \in Ancestors[x]
    BY <1>2, <2>1
  <2>4. \A a \in Ancestors[x] : Ancestors[a] \subseteq Ancestors[x]
    BY <1>2, <2>1
  <2>5. \A a \in Ancestors[x] : a = x \/ Height[a] < Height[x]
    <3> SUFFICES ASSUME NEW a \in Ancestors[Prev[x]] PROVE Height[a] < Height[x]
      BY <2>1
    <3>1. a = Prev[x] \/ Height[a] < Height[Prev[x]]
      BY <1>2
    <3>2. Height[a] \in Nat
      BY <2>1, <2>2, <2>3
    <3> QED BY <2>2, <3>1, <3>2
  <2> QED BY <2>3, <2>4, <2>5
<1> HIDE DEF S
<1>3. S = Block
  <2>1. S \in SUBSET Block
    BY DEF S
  <2> QED BY <1>1, <1>2, <2>1, TreeInduction
<1> QED BY <1>3 DEF S

\* A block's parent is an ancestor of whatever the block is an ancestor of.
LEMMA ParentIs ==
    ASSUME NEW b \in Block, NEW a \in Ancestors[b] \ {Genesis}
    PROVE  Prev[a] \in Ancestors[b] /\ Prev[a] \in Block /\ Height[a] = Height[Prev[a]] + 1
<1>1. a \in Block /\ Ancestors[a] \subseteq Ancestors[b]
  BY AncestorsAre
<1>2. Prev[a] \in Block /\ Height[a] = Height[Prev[a]] + 1
  BY <1>1, BlockAssumption
<1>3. Prev[a] \in Ancestors[a]
  BY <1>1, <1>2, AncestorsUnfold, AncestorsAre
<1> QED BY <1>1, <1>2, <1>3

\* A block is not among the ancestors of its parent.
LEMMA NotItsParents ==
    ASSUME NEW b \in Block \ {Genesis} PROVE b \notin Ancestors[Prev[b]]
<1>1. Prev[b] \in Block /\ Height[b] = Height[Prev[b]] + 1 /\ Height[Prev[b]] \in Nat
  BY BlockAssumption
<1>2. \A a \in Ancestors[Prev[b]] : a = Prev[b] \/ Height[a] < Height[Prev[b]]
  BY <1>1, AncestorsAre
<1>3. Height[b] # Height[Prev[b]] /\ ~(Height[b] < Height[Prev[b]])
  BY <1>1
<1> QED BY <1>2, <1>3

\* On a chain there is one block of a height, and a block above every block but
\* the last.
LEMMA ChainIs ==
    ASSUME NEW b \in Block
    PROVE  /\ \A x, y \in Ancestors[b] : Height[x] = Height[y] => x = y
           /\ \A a \in Ancestors[b] \ {b} : \E x \in Ancestors[b] \ {Genesis} : Prev[x] = a
<1> DEFINE S == {c \in Block :
                   /\ \A x, y \in Ancestors[c] : Height[x] = Height[y] => x = y
                   /\ \A a \in Ancestors[c] \ {c} : \E x \in Ancestors[c] \ {Genesis} : Prev[x] = a}
<1>1. Genesis \in S
  BY AncestorsUnfold, BlockAssumption
<1>2. ASSUME NEW c \in Block \ {Genesis}, Prev[c] \in S PROVE c \in S
  <2>1. Ancestors[c] = {c} \cup Ancestors[Prev[c]] /\ Ancestors[c] \subseteq Block
    BY AncestorsUnfold, AncestorsAre
  <2>2. Height[c] \in Nat /\ \A x \in Ancestors[c] : x = c \/ Height[x] < Height[c]
    BY AncestorsAre, BlockAssumption
  <2>3. \A x \in Ancestors[c] : Height[x] = Height[c] => x = c
    BY <2>2
  <2>4. ASSUME NEW x \in Ancestors[c], NEW y \in Ancestors[c], Height[x] = Height[y] PROVE x = y
    <3>1. CASE x = c \/ y = c
      BY <2>3, <2>4, <3>1
    <3>2. CASE x # c /\ y # c
      BY <1>2, <2>1, <2>4, <3>2
    <3> QED BY <3>1, <3>2
  <2>5. ASSUME NEW a \in Ancestors[c] \ {c} PROVE \E x \in Ancestors[c] \ {Genesis} : Prev[x] = a
    <3>1. a \in Ancestors[Prev[c]]
      BY <2>1
    <3>2. CASE a = Prev[c]
      BY <2>1, <3>2
    <3>3. CASE a # Prev[c]
      BY <1>2, <2>1, <3>1, <3>3
    <3> QED BY <3>2, <3>3
  <2> QED BY <2>4, <2>5
<1> HIDE DEF S
<1>3. S = Block
  <2>1. S \in SUBSET Block
    BY DEF S
  <2> QED BY <1>1, <1>2, <2>1, TreeInduction
<1> QED BY <1>3 DEF S

-----------------------------------------------------------------------------
(* Accumulators.                                                            *)

\* Adding coins to and removing coins from an accumulator gives an accumulator.
LEMMA UpdateType ==
    ASSUME NEW a \in [Coin -> Int], NEW S, NEW T
    PROVE  Update(a, S, T) \in [Coin -> Int]
BY DEF Update, Delta

\* A full scan gives an accumulator.
LEMMA AccumulateType == ASSUME NEW S PROVE Accumulate(S) \in [Coin -> Int]
BY DEF Accumulate, Delta

\* What EnsureUTXOMuHashLoaded leaves in memory is an accumulator.
LEMMA LoadedType == TypeOK => LoadedMuHash \in [Coin -> Int]
BY AccumulateType DEF TypeOK, LoadedMuHash

\* What EnsureUTXOMuHashLoaded leaves on record is an accumulator.
LEMMA EnsureType ==
    TypeOK /\ EnsureUTXOMuHashLoaded
      => recTip' \in Block \cup {NoBlock} /\ recAcc' \in [Coin -> Int]
BY LoadedType DEF TypeOK, EnsureUTXOMuHashLoaded, record

\* A coin is counted as often as it was counted, plus one if it was added,
\* minus one if it was removed.
LEMMA UpdateAccumulate ==
    ASSUME NEW S, NEW added, NEW removed,
           removed \subseteq S, added \cap S = {}
    PROVE  Update(Accumulate(S), added, removed)
             = Accumulate((S \ removed) \cup added)
BY DEF Update, Accumulate, Delta

-----------------------------------------------------------------------------
(* Type correctness.                                                        *)

\* The initial state has the types.
LEMMA TypeInit == Init => TypeOK
BY AccumulateType, BlockAssumption
DEF Init, TypeOK, PC, NoIndex, IndexType

\* AcceptBlock, ConnectTip and RejectBlock keep the types.
LEMMA TypeConnect ==
    ASSUME TypeOK, NEW b \in Block,
           AcceptBlock(b) \/ ConnectTip(b) \/ RejectBlock(b)
    PROVE  TypeOK'
<1> USE DEF coinsdb, record, files, rpc, memory, IndexType
<1>1. CASE AcceptBlock(b)
  <2>1. pc' \in PC /\ ret' \in {"ready", "snapDump"} /\ chain' \in Block
    BY <1>1 DEF AcceptBlock, FlushIfNeeded, TypeOK, PC, Flushing
  <2> QED BY <1>1, <2>1 DEF TypeOK, AcceptBlock
<1>2. CASE ConnectTip(b)
  <2>1. /\ recTip' \in Block \cup {NoBlock} /\ recAcc' \in [Coin -> Int]
        /\ acc' \in [Coin -> Int]
    BY <1>2, EnsureType, LoadedType, UpdateType DEF ConnectTip, ConnectMuHash
  <2>2. cache' \in SUBSET Coin
    BY <1>2, CoinAssumption DEF ConnectTip, ApplyBlock, TypeOK
  <2>3. pc' \in PC /\ ret' \in {"ready", "snapDump"} /\ chain' \in Block
    BY <1>2 DEF ConnectTip, FlushIfNeeded, TypeOK, PC, Flushing
  <2> QED BY <1>2, <2>1, <2>2, <2>3 DEF TypeOK, ConnectTip
<1>3. CASE RejectBlock(b)
  BY <1>3, EnsureType, LoadedType DEF TypeOK, RejectBlock
<1> QED BY <1>1, <1>2, <1>3

\* DisconnectTip and a template's load of the accumulator keep the types.
LEMMA TypeDisconnect == TypeOK /\ (UTXOMuHash \/ DisconnectTip) => TypeOK'
<1> SUFFICES ASSUME TypeOK, UTXOMuHash \/ DisconnectTip PROVE TypeOK'
  OBVIOUS
<1> USE DEF coinsdb, record, files, rpc, memory, IndexType
<1>1. CASE UTXOMuHash
  BY <1>1, EnsureType, LoadedType DEF TypeOK, UTXOMuHash
<1>2. CASE DisconnectTip
  <2>1. /\ recTip' \in Block \cup {NoBlock} /\ recAcc' \in [Coin -> Int]
        /\ acc' \in [Coin -> Int]
    BY <1>2, EnsureType, LoadedType, UpdateType DEF DisconnectTip, DisconnectMuHash
  <2>2. cache' \in SUBSET Coin /\ Prev[tip] \in Block
    BY <1>2, CoinAssumption, BlockAssumption DEF DisconnectTip, UndoBlock, TypeOK
  <2>3. pc' \in PC /\ ret' \in {"ready", "snapDump"} /\ chain' \in Block
    BY <1>2, <2>2 DEF DisconnectTip, FlushIfNeeded, TypeOK, PC, Flushing
  <2> QED BY <1>2, <2>1, <2>2, <2>3 DEF TypeOK, DisconnectTip
<1> QED BY <1>1, <1>2

\* FlushStateToDisk and its writes keep the types.
LEMMA TypeFlush == TypeOK /\ (FlushStateToDisk \/ Flush) => TypeOK'
<1> SUFFICES ASSUME TypeOK, FlushStateToDisk \/ Flush PROVE TypeOK'
  OBVIOUS
<1> USE DEF coinsdb, record, files, rpc, memory
<1>1. CASE FlushStateToDisk
  BY <1>1 DEF TypeOK, FlushStateToDisk, PC, Flushing
<1>2. CASE FlushIndex
  <2>1. PICK pruned \in SUBSET Prunable :
          index' = [index EXCEPT !.data = @ \ pruned, !.undo = @ \ pruned]
    BY <1>2 DEF FlushIndex
  <2>2. index' \in IndexType
    BY <2>1 DEF TypeOK, IndexType
  <2> QED BY <1>2, <2>2 DEF TypeOK, FlushIndex, PC, Flushing
<1>3. CASE BatchWritePartial
  BY <1>3 DEF TypeOK, BatchWritePartial
<1>4. CASE BatchWriteLast
  BY <1>4 DEF TypeOK, BatchWriteLast, PC, Flushing
<1>5. CASE FlushRecord
  BY <1>5 DEF TypeOK, FlushRecord, PC, Snapshotting
<1> QED BY <1>1, <1>2, <1>3, <1>4, <1>5 DEF Flush

\* WriteAutomaticSnapshot keeps the types.
LEMMA TypeSnapshot == TypeOK /\ Snapshot => TypeOK'
<1> SUFFICES ASSUME TypeOK, Snapshot PROVE TypeOK'
  OBVIOUS
<1> USE DEF coinsdb, record, rpc
<1>1. CASE SnapshotDump
  <2>1. [base |-> tip, coins |-> db] \in [base : Block, coins : SUBSET Coin]
    BY DEF TypeOK
  <2>2. dat' \in SUBSET [base : Block, coins : SUBSET Coin]
    BY <1>1, <2>1 DEF SnapshotDump, TypeOK
  <2>3. pc' \in PC /\ ret' \in {"ready", "snapDump"} /\ chain' \in Block
    BY <1>1 DEF SnapshotDump, FlushIfNeeded, TypeOK, PC, Flushing, Snapshotting
  <2> QED BY <1>1, <2>2, <2>3 DEF SnapshotDump, TypeOK
<1>2. CASE SnapshotHash
  <2>1. SnapshotMuHash \in [Coin -> Int]
    BY AccumulateType DEF SnapshotMuHash, TypeOK
  <2>2. [base |-> tip, hash |-> SnapshotMuHash] \in [base : Block, hash : [Coin -> Int]]
    BY <2>1 DEF TypeOK
  <2>3. sidecar' \in SUBSET [base : Block, hash : [Coin -> Int]]
    BY <1>2, <2>2 DEF SnapshotHash, TypeOK
  <2>4. dat' \in SUBSET [base : Block, coins : SUBSET Coin]
    BY <1>2 DEF SnapshotHash, TypeOK
  <2>5. pc' \in PC /\ ret' \in {"ready", "snapDump"} /\ chain' \in Block
    BY <1>2 DEF SnapshotHash, FlushIfNeeded, TypeOK, PC, Flushing, Snapshotting
  <2> QED BY <1>2, <2>3, <2>4, <2>5 DEF SnapshotHash, TypeOK
<1>3. CASE SnapshotClean
  <2>1. /\ dat' \in SUBSET [base : Block, coins : SUBSET Coin]
        /\ sidecar' \in SUBSET [base : Block, hash : [Coin -> Int]]
    BY <1>3 DEF SnapshotClean, TypeOK
  <2>2. pc' \in PC /\ ret' \in {"ready", "snapDump"} /\ chain' \in Block
    BY <1>3 DEF SnapshotClean, FlushIfNeeded, TypeOK, PC, Flushing
  <2> QED BY <1>3, <2>1, <2>2 DEF SnapshotClean, TypeOK
<1> QED BY <1>1, <1>2, <1>3 DEF Snapshot

\* VerifyDB keeps the types.
LEMMA TypeVerify ==
    ASSUME TypeOK, NEW level, NEW n, VerifyDB(level, n) PROVE TypeOK'
<1> USE DEF coinsdb, record, files, rpc
<1>1. /\ recTip' \in Block \cup {NoBlock} /\ recAcc' \in [Coin -> Int]
      /\ acc' \in [Coin -> Int] /\ loaded' \in BOOLEAN
  BY EnsureType, LoadedType DEF VerifyDB, TypeOK
<1>2. verdict' \in {"SUCCESS", "CORRUPTED"}
  BY DEF VerifyDB, VerifyResult
<1> QED BY <1>1, <1>2 DEF VerifyDB, TypeOK

\* The dumptxoutset rollback keeps the types.
LEMMA TypeDump == TypeOK /\ Dump => TypeOK'
<1> SUFFICES ASSUME TypeOK, Dump PROVE TypeOK'
  OBVIOUS
<1> USE DEF coinsdb, record, files, memory
<1>1. CASE DumpBegin
  BY <1>1 DEF DumpBegin, TypeOK, PC, Flushing
<1>2. CASE DumpRollback
  <2>1. /\ recTip' \in Block \cup {NoBlock} /\ recAcc' \in [Coin -> Int]
        /\ acc' \in [Coin -> Int]
    BY <1>2, EnsureType, LoadedType, UpdateType DEF DumpRollback, DisconnectMuHash
  <2>2. roll \in Block \ {Genesis}
    BY <1>2 DEF DumpRollback, TypeOK, IndexType
  <2>3. Prev[roll] \in Block /\ scratch' \in SUBSET Coin
    BY <1>2, <2>2, BlockAssumption, CoinAssumption DEF DumpRollback, UndoBlock, TypeOK
  <2> QED BY <1>2, <2>1, <2>3 DEF DumpRollback, TypeOK
<1>3. CASE DumpEnd
  BY <1>3 DEF DumpEnd, TypeOK
<1> QED BY <1>1, <1>2, <1>3 DEF Dump

\* A crash, the restart and ReplayBlocks keep the types.
LEMMA TypeRestart == TypeOK /\ (Crash \/ LoadChainstate \/ Replay) => TypeOK'
<1> SUFFICES ASSUME TypeOK, Crash \/ LoadChainstate \/ Replay PROVE TypeOK'
  OBVIOUS
<1> USE DEF coinsdb, record, files, rpc, memory
<1>1. CASE Crash
  <2>1. index' \in IndexType
    BY <1>1 DEF Crash, NoIndex, IndexType
  <2>2. acc' \in [Coin -> Int]
    BY <1>1, AccumulateType DEF Crash
  <2>3. /\ pc' \in PC /\ ret' \in {"ready", "snapDump"} /\ loaded' \in BOOLEAN
        /\ chain' \in Block /\ tip' \in Block
    BY <1>1, BlockAssumption DEF Crash, PC
  <2>4. /\ roll' \in Block \cup {NoBlock} /\ verdict' \in {"SUCCESS", "CORRUPTED"}
        /\ crashes' \in Nat /\ cache' \in SUBSET Coin /\ scratch' \in SUBSET Coin
    BY <1>1 DEF Crash, TypeOK
  <2> QED BY <1>1, <2>1, <2>2, <2>3, <2>4 DEF Crash, TypeOK
<1>2. CASE LoadChainstate
  <2>1. index' \in IndexType
    BY <1>2, BlockAssumption DEF LoadChainstate, TypeOK, IndexType
  <2>2. tip' \in Block /\ chain' \in Block /\ loaded' \in BOOLEAN /\ pc' \in PC
    BY <1>2, BlockAssumption DEF LoadChainstate, TypeOK, PC, Replaying
  <2> QED BY <1>2, <2>1, <2>2 DEF LoadChainstate, TypeOK
<1>3. CASE RollbackBlock
  <2>1. /\ recTip' \in Block \cup {NoBlock} /\ recAcc' \in [Coin -> Int]
        /\ acc' \in [Coin -> Int]
    BY <1>3, EnsureType, LoadedType, UpdateType DEF RollbackBlock, DisconnectMuHash, TypeOK
  <2>2. tip' \in Block
    BY <1>3, BlockAssumption DEF RollbackBlock, TypeOK
  <2>3. cache' \in SUBSET Coin
    <3>1. UndoBlock(cache, tip) \in SUBSET Coin
      BY CoinAssumption DEF UndoBlock, TypeOK
    <3> QED BY <3>1, <1>3 DEF RollbackBlock, TypeOK
  <2>4. loaded' \in BOOLEAN
    BY <1>3 DEF RollbackBlock, TypeOK
  <2>5. pc' \in PC
    BY <1>3 DEF RollbackBlock, TypeOK, PC
  <2> QED BY <1>3, <2>1, <2>2, <2>3, <2>4, <2>5 DEF RollbackBlock, TypeOK
<1>4. CASE RollbackDone \/ ReplayDone
  BY <1>4 DEF RollbackDone, ReplayDone, TypeOK, PC, Replaying
<1>5. ASSUME NEW b \in Block, RollforwardBlock(b) PROVE TypeOK'
  <2>1. cache' \in SUBSET Coin /\ pc' \in PC
    BY <1>5, CoinAssumption DEF RollforwardBlock, ApplyBlock, TypeOK, PC
  <2> QED BY <1>5, <2>1 DEF RollforwardBlock, TypeOK
<1> QED BY <1>1, <1>2, <1>3, <1>4, <1>5 DEF Replay

\* Every step keeps the types.
LEMMA TypeStep == TypeOK /\ [Next]_vars => TypeOK'
<1> SUFFICES ASSUME TypeOK, [Next]_vars PROVE TypeOK'
  OBVIOUS
<1>1. CASE UNCHANGED vars
  BY <1>1 DEF TypeOK, vars, memory, coinsdb, record, files, rpc
<1>2. CASE Next
  BY <1>2, TypeConnect, TypeDisconnect, TypeFlush, TypeSnapshot, TypeVerify,
     TypeDump, TypeRestart DEF Next
<1> QED BY <1>1, <1>2

\* The variables keep their types, whatever the thread holding cs_main, the
\* dumptxoutset RPC and crashes do.
THEOREM TypeCorrect == Spec => []TypeOK
<1>1. Init => TypeOK
  BY TypeInit
<1>2. TypeOK /\ [Next]_vars => TypeOK'
  BY TypeStep
<1> QED BY <1>1, <1>2, PTL DEF Spec

-----------------------------------------------------------------------------
(* The coins view and the coins database.                                   *)

\* Connecting a block to its parent's UTXO set gives its own, and
\* disconnecting it takes that back.
LEMMA BlockEffect ==
    ASSUME NEW b \in Block \ {Genesis}
    PROVE  /\ ApplyBlock(UTXO[Prev[b]], b) = UTXO[b]
           /\ UndoBlock(UTXO[b], b) = UTXO[Prev[b]]
BY CoinAssumption DEF ApplyBlock, UndoBlock

\* Undoing a block that was perhaps only partly applied: ReplayBlocks'
\* "both writing a UTXO and deleting a UTXO are idempotent operations".
LEMMA UndoBetween ==
    ASSUME NEW b \in Block \ {Genesis}, NEW S, NEW U, Between(S, UTXO[b], U)
    PROVE  Between(UndoBlock(S, b), UTXO[Prev[b]], U)
BY CoinAssumption DEF Between, UndoBlock

\* Rolling forward a block that was perhaps already partly applied.
LEMMA ApplyBetween ==
    ASSUME NEW b \in Block \ {Genesis}, NEW S, NEW U, Between(S, UTXO[Prev[b]], U)
    PROVE  Between(ApplyBlock(S, b), UTXO[b], U)
BY CoinAssumption DEF Between, ApplyBlock

\* A set on the way from U to U is U.
LEMMA BetweenSame == ASSUME NEW S, NEW U, Between(S, U, U) PROVE S = U
BY DEF Between

\* A batch takes some coins W from their old to their new state.
LEMMA BatchBetween ==
    ASSUME NEW S, NEW A, NEW B, NEW W, Between(S, A, B)
    PROVE  Between((S \ W) \cup (W \cap B), A, B)
BY DEF Between

\* A step that touches neither coins nor heads keeps CoinsInv.
LEMMA CoinsQuiet ==
    ASSUME CoinsInv, UNCHANGED <<pc, tip, cache, db, best, headNew, headOld>>
    PROVE  CoinsInv'
BY DEF CoinsInv, DbInv, ViewInv, OldTip, InMemory, Between

\* A fresh node satisfies CoinsInv.
LEMMA CoinsInit == Init => CoinsInv
BY CoinAssumption, BlockAssumption
DEF Init, CoinsInv, DbInv, ViewInv, InMemory, Replaying, Snapshotting, Flushing

\* Steps of a running node that touch no database: the view follows the tip.
LEMMA CoinsMove ==
    ASSUME CoinsInv, UNCHANGED coinsdb,
           pc = "ready", pc' \in {"ready", "flushIndex"}, cache' = UTXO[tip']
    PROVE  CoinsInv'
BY DEF CoinsInv, DbInv, ViewInv, OldTip, InMemory, Replaying, Snapshotting,
       Flushing, Between, coinsdb

\* Accepting, connecting and rejecting blocks keeps CoinsInv.
LEMMA CoinsConnect ==
    ASSUME TypeOK, CoinsInv, NEW b \in Block,
           AcceptBlock(b) \/ ConnectTip(b) \/ RejectBlock(b)
    PROVE  CoinsInv'
<1>1. CASE AcceptBlock(b) \/ RejectBlock(b)
  <2>1. pc = "ready" /\ pc' \in {"ready", "flushIndex"} /\ UNCHANGED <<tip, cache, coinsdb>>
    BY <1>1 DEF AcceptBlock, RejectBlock, FlushIfNeeded
  <2>2. cache = UTXO[tip]
    BY <2>1 DEF CoinsInv, ViewInv, InMemory
  <2> QED BY <2>1, <2>2, CoinsMove
<1>2. CASE ConnectTip(b)
  <2>1. cache = UTXO[tip]
    BY <1>2 DEF ConnectTip, CoinsInv, ViewInv, InMemory
  <2>2. cache' = UTXO[tip']
    BY <1>2, <2>1, BlockEffect DEF ConnectTip
  <2>3. pc = "ready" /\ pc' \in {"ready", "flushIndex"} /\ UNCHANGED coinsdb
    BY <1>2 DEF ConnectTip, FlushIfNeeded
  <2> QED BY <2>2, <2>3, CoinsMove
<1> QED BY <1>1, <1>2

\* DisconnectTip keeps CoinsInv: undoing a block gives its parent's coins.
LEMMA CoinsDisconnect ==
    ASSUME TypeOK, CoinsInv, UTXOMuHash \/ DisconnectTip PROVE CoinsInv'
<1>1. CASE UTXOMuHash
  BY <1>1, CoinsQuiet DEF UTXOMuHash, coinsdb
<1>2. CASE DisconnectTip
  <2>1. cache = UTXO[tip] /\ tip \in Block \ {Genesis}
    BY <1>2 DEF DisconnectTip, CoinsInv, ViewInv, InMemory, TypeOK
  <2>2. cache' = UTXO[tip']
    BY <1>2, <2>1, BlockEffect DEF DisconnectTip
  <2>3. pc = "ready" /\ pc' \in {"ready", "flushIndex"} /\ UNCHANGED coinsdb
    BY <1>2 DEF DisconnectTip, FlushIfNeeded
  <2> QED BY <2>2, <2>3, CoinsMove
<1> QED BY <1>1, <1>2

\* Each batch of a flush leaves the database between the two heads.
LEMMA CoinsFlush ==
    ASSUME TypeOK, CoinsInv, FlushStateToDisk \/ Flush PROVE CoinsInv'
<1> USE DEF InMemory, Replaying, Snapshotting, Flushing
<1>1. CASE FlushStateToDisk
  BY <1>1 DEF FlushStateToDisk, CoinsInv, DbInv, ViewInv, OldTip, Between, coinsdb
<1>2. CASE FlushIndex
  BY <1>2 DEF FlushIndex, CoinsInv, DbInv, ViewInv, OldTip, Between, coinsdb
<1>3. CASE BatchWritePartial
  <2>1. /\ cache = UTXO[tip] /\ tip \in Block /\ tip # NoBlock
        /\ headNew # NoBlock => headNew = tip
    BY <1>3, BlockAssumption DEF BatchWritePartial, CoinsInv, ViewInv, TypeOK
  <2>2. Between(db, UTXO[OldTip'], UTXO[tip])
    <3>1. CASE headNew = NoBlock /\ best = NoBlock
      <4>1. db = {} /\ OldTip' = Genesis
        BY <1>3, <3>1 DEF BatchWritePartial, OldTip, CoinsInv, DbInv
      <4> QED BY <4>1, CoinAssumption DEF Between
    <3>2. CASE headNew = NoBlock /\ best # NoBlock
      <4>1. db = UTXO[best] /\ OldTip' = best
        BY <1>3, <3>2 DEF BatchWritePartial, OldTip, CoinsInv, DbInv
      <4> QED BY <4>1 DEF Between
    <3>3. CASE headNew # NoBlock
      <4>1. OldTip' = OldTip
        BY <1>3, <3>3 DEF BatchWritePartial, OldTip
      <4> QED BY <3>3, <2>1, <4>1 DEF CoinsInv, DbInv
    <3> QED BY <3>1, <3>2, <3>3
  <2>3. PICK W : db' = (db \ W) \cup (W \cap cache)
    BY <1>3 DEF BatchWritePartial
  <2>4. Between(db', UTXO[OldTip'], UTXO[tip])
    BY <2>1, <2>2, <2>3, BatchBetween
  <2>5. DbInv'
    BY <1>3, <2>1, <2>4 DEF BatchWritePartial, DbInv, memory
  <2>6. ViewInv'
    BY <1>3, <2>1 DEF BatchWritePartial, CoinsInv, ViewInv, memory
  <2> QED BY <2>5, <2>6 DEF CoinsInv
<1>4. CASE BatchWriteLast
  <2>1. cache = UTXO[tip] /\ tip \in Block /\ tip # NoBlock
    BY <1>4, BlockAssumption DEF BatchWriteLast, CoinsInv, ViewInv, TypeOK
  <2> QED BY <1>4, <2>1 DEF BatchWriteLast, CoinsInv, DbInv, ViewInv
<1>5. CASE FlushRecord
  <2>1. best = tip /\ headNew = NoBlock /\ cache = UTXO[tip]
    BY <1>5 DEF FlushRecord, CoinsInv, DbInv, ViewInv
  <2>2. pc' \in {"ready", "snapDump"} /\ UNCHANGED <<tip, cache, coinsdb>>
    BY <1>5 DEF FlushRecord, TypeOK
  <2> QED BY <2>1, <2>2 DEF CoinsInv, DbInv, ViewInv, coinsdb
<1> QED BY <1>1, <1>2, <1>3, <1>4, <1>5 DEF Flush

\* WriteAutomaticSnapshot keeps CoinsInv.
LEMMA CoinsSnapshot == ASSUME TypeOK, CoinsInv, Snapshot PROVE CoinsInv'
<1>1. pc \in Snapshotting /\ pc' \in {"ready", "flushIndex"} \cup Snapshotting
  BY DEF Snapshot, SnapshotDump, SnapshotHash, SnapshotClean, FlushIfNeeded,
         Snapshotting
<1>2. UNCHANGED <<tip, cache, coinsdb>>
  BY DEF Snapshot, SnapshotDump, SnapshotHash, SnapshotClean
<1>3. best = tip /\ headNew = NoBlock /\ cache = UTXO[tip]
  BY <1>1 DEF CoinsInv, DbInv, ViewInv, Snapshotting, InMemory
<1> QED
  BY <1>1, <1>2, <1>3 DEF CoinsInv, DbInv, ViewInv, coinsdb, Snapshotting,
     Replaying, Flushing, InMemory

\* The dumptxoutset rollback keeps CoinsInv: it works on a copy.
LEMMA CoinsDump == ASSUME TypeOK, CoinsInv, Dump PROVE CoinsInv'
<1>1. CASE DumpBegin
  <2>1. cache' = UTXO[tip'] /\ pc = "ready" /\ pc' = "flushIndex" /\ UNCHANGED coinsdb
    BY <1>1 DEF DumpBegin, CoinsInv, ViewInv, InMemory
  <2> QED BY <2>1, CoinsMove
<1>2. CASE DumpRollback \/ DumpEnd
  BY <1>2, CoinsQuiet DEF DumpRollback, DumpEnd, memory, coinsdb
<1> QED BY <1>1, <1>2 DEF Dump

\* A crash and each step of ReplayBlocks keep CoinsInv, whatever part of
\* the interrupted flush had reached the disk.
LEMMA CoinsRestart ==
    ASSUME TypeOK, CoinsInv, Crash \/ LoadChainstate \/ Replay PROVE CoinsInv'
<1> USE DEF InMemory, Replaying, Snapshotting, Flushing
<1>1. CASE Crash
  BY <1>1 DEF Crash, CoinsInv, DbInv, ViewInv, OldTip, Between, coinsdb
<1>2. CASE LoadChainstate
  <2>1. UNCHANGED coinsdb /\ cache' = db
    BY <1>2 DEF LoadChainstate
  <2>2. DbInv'
    BY <2>1 DEF CoinsInv, DbInv, OldTip, Between, coinsdb
  <2>3. ViewInv'
    <3>1. CASE headNew # NoBlock
      <4>1. pc' = "back" /\ tip' = OldTip
        BY <1>2, <3>1 DEF LoadChainstate, OldTip
      <4> QED BY <2>1, <3>1, <4>1 DEF CoinsInv, DbInv, ViewInv, coinsdb
    <3>2. CASE headNew = NoBlock
      <4>1. pc' = "ready" /\ tip' = IF best # NoBlock THEN best ELSE Genesis
        BY <1>2, <3>2 DEF LoadChainstate
      <4>2. db = UTXO[tip']
        BY <3>2, <4>1, CoinAssumption DEF CoinsInv, DbInv
      <4> QED BY <2>1, <3>2, <4>1, <4>2 DEF ViewInv, coinsdb
    <3> QED BY <3>1, <3>2
  <2> QED BY <2>2, <2>3 DEF CoinsInv
<1>3. CASE RollbackBlock
  <2>1. tip \in Block \ {Genesis} /\ Between(cache, UTXO[tip], UTXO[headNew])
    BY <1>3 DEF RollbackBlock, CoinsInv, ViewInv, TypeOK
  <2>2. Between(UndoBlock(cache, tip), UTXO[Prev[tip]], UTXO[headNew])
    BY <2>1, UndoBetween
  <2>3. DbInv'
    BY <1>3 DEF RollbackBlock, CoinsInv, DbInv, OldTip, Between, coinsdb
  <2>4. ViewInv'
    BY <1>3, <2>2 DEF RollbackBlock, CoinsInv, ViewInv, coinsdb
  <2> QED BY <2>3, <2>4 DEF CoinsInv
<1>4. CASE RollbackDone
  BY <1>4 DEF RollbackDone, CoinsInv, DbInv, ViewInv, OldTip, Between, coinsdb, memory
<1>5. CASE ReplayDone
  <2>1. cache = UTXO[tip] /\ tip = headNew
    BY <1>5, BetweenSame DEF ReplayDone, CoinsInv, ViewInv
  <2> QED BY <1>5, <2>1 DEF ReplayDone, CoinsInv, DbInv, ViewInv, OldTip, Between,
             coinsdb, memory
<1>6. ASSUME NEW b \in Block, RollforwardBlock(b) PROVE CoinsInv'
  <2>1. /\ b \in Block \ {Genesis} /\ Prev[b] = tip
        /\ Between(cache, UTXO[tip], UTXO[headNew])
    BY <1>6 DEF RollforwardBlock, CoinsInv, ViewInv
  <2>2. Between(ApplyBlock(cache, b), UTXO[b], UTXO[headNew])
    BY <2>1, ApplyBetween
  <2>3. DbInv'
    BY <1>6 DEF RollforwardBlock, CoinsInv, DbInv, OldTip, Between, coinsdb
  <2>4. ViewInv'
    BY <1>6, <2>2 DEF RollforwardBlock, CoinsInv, ViewInv, coinsdb
  <2> QED BY <2>3, <2>4 DEF CoinsInv
<1> QED BY <1>1, <1>2, <1>3, <1>4, <1>5, <1>6 DEF Replay

\* Every step keeps CoinsInv.
LEMMA CoinsStep == TypeOK /\ CoinsInv /\ [Next]_vars => CoinsInv'
<1> SUFFICES ASSUME TypeOK, CoinsInv, [Next]_vars PROVE CoinsInv'
  OBVIOUS
<1>1. CASE UNCHANGED vars
  BY <1>1, CoinsQuiet DEF vars, memory, coinsdb
<1>2. ASSUME NEW level, NEW n, VerifyDB(level, n) PROVE CoinsInv'
  BY <1>2, CoinsQuiet DEF VerifyDB, coinsdb
<1>3. CASE Next
  BY <1>2, <1>3, CoinsConnect, CoinsDisconnect, CoinsFlush, CoinsSnapshot,
     CoinsDump, CoinsRestart DEF Next
<1> QED BY <1>1, <1>3

\* Crash consistency of the coins: whatever flush, reorg or replay a crash
\* interrupts, a running node's view is the UTXO set of its best block, and a
\* database that names a best block holds that block's UTXO set.
THEOREM CoinsCorrect == Spec => []CoinsConsistent
<1>1. Init => TypeOK /\ CoinsInv
  BY TypeInit, CoinsInit
<1>2. TypeOK /\ CoinsInv /\ [Next]_vars => TypeOK' /\ CoinsInv'
  BY TypeStep, CoinsStep
<1>3. CoinsInv => CoinsConsistent
  BY DEF CoinsInv, DbInv, ViewInv, CoinsConsistent
<1> QED BY <1>1, <1>2, <1>3, PTL DEF Spec

-----------------------------------------------------------------------------
(* The accumulator.                                                         *)

\* The inductive invariant of the accumulator.
AccInv == TypeOK /\ CoinsInv /\ MuHashInv /\ ExtendingInv /\ roll = NoBlock

\* EnsureUTXOMuHashLoaded, when it is called on a running node, yields the
\* accumulator of the view, from memory, from the record or from a scan.
LEMMA LoadedCorrect ==
    ASSUME AccInv, pc = "ready" PROVE LoadedMuHash = Accumulate(cache)
<1>1. InMemory
  BY DEF InMemory
<1>2. CASE loaded
  BY <1>1, <1>2 DEF LoadedMuHash, AccInv, MuHashInv
<1>3. CASE ~loaded /\ recTip # NoBlock /\ recTip = best
  <2>1. db = cache /\ recAcc = Accumulate(UTXO[best])
    BY <1>1, <1>3 DEF AccInv, MuHashInv
  <2>2. db = UTXO[best]
    BY <1>3 DEF AccInv, CoinsInv, DbInv
  <2> QED BY <1>3, <2>1, <2>2 DEF LoadedMuHash
<1>4. CASE ~loaded /\ ~(recTip # NoBlock /\ recTip = best)
  BY <1>1, <1>4 DEF LoadedMuHash, AccInv, MuHashInv
<1> QED BY <1>2, <1>3, <1>4

\* ... and the record it may write is the accumulator of the block it names.
LEMMA EnsureCorrect ==
    ASSUME AccInv, pc = "ready", EnsureUTXOMuHashLoaded
    PROVE  recTip' # NoBlock => recAcc' = Accumulate(UTXO[recTip'])
<1>1. CASE UNCHANGED record
  BY <1>1 DEF AccInv, MuHashInv, record
<1>2. CASE /\ ~loaded /\ best # NoBlock
           /\ recTip' = best /\ recAcc' = LoadedMuHash
  <2>1. db = cache /\ db = UTXO[best]
    BY <1>2 DEF AccInv, MuHashInv, InMemory, CoinsInv, DbInv
  <2> QED BY <1>2, <2>1, LoadedCorrect
<1> QED BY <1>1, <1>2 DEF EnsureUTXOMuHashLoaded

\* ConnectBlock's commit follows the view.
LEMMA ConnectAccumulate ==
    ASSUME NEW b \in Block \ {Genesis}
    PROVE  ConnectMuHash(Accumulate(UTXO[Prev[b]]), b) = Accumulate(UTXO[b])
BY UpdateAccumulate, CoinAssumption DEF ConnectMuHash

\* DisconnectBlock's updates follow the view.
LEMMA DisconnectAccumulate ==
    ASSUME NEW b \in Block \ {Genesis}
    PROVE  DisconnectMuHash(Accumulate(UTXO[b]), UTXO[b], b)
             = Accumulate(UTXO[Prev[b]])
<1>1. Ins[b] \cap UTXO[b] = {}
  BY CoinAssumption
<1>2. (UTXO[b] \ (Outs[b] \cap UTXO[b])) \cup Ins[b] = UTXO[Prev[b]]
  BY CoinAssumption
<1> QED BY <1>1, <1>2, UpdateAccumulate DEF DisconnectMuHash

\* A fresh node satisfies AccInv.
LEMMA AccInit == Init => AccInv
<1> SUFFICES ASSUME Init PROVE AccInv
  OBVIOUS
<1>1. TypeOK /\ CoinsInv
  BY TypeInit, CoinsInit
<1>2. MuHashInv /\ ExtendingInv
  BY DEF Init, MuHashInv, ExtendingInv, InMemory, Snapshotting, Replaying, Flushing
<1> QED BY <1>1, <1>2 DEF Init, AccInv

\* What a step of a running node does when it leaves the accumulator loaded.
LEMMA AccLoaded ==
    ASSUME AccInv, pc = "ready", EnsureUTXOMuHashLoaded, loaded' = TRUE,
           pc' \in {"ready", "flushIndex"}, acc' = Accumulate(cache')
    PROVE  MuHashInv' /\ ExtendingInv'
<1>1. recTip' # NoBlock => recAcc' = Accumulate(UTXO[recTip'])
  BY EnsureCorrect
<1>2. MuHashInv'
  BY <1>1 DEF MuHashInv, Snapshotting
<1>3. ExtendingInv'
  BY DEF ExtendingInv, Replaying
<1> QED BY <1>2, <1>3

\* What a step does that leaves accumulator, record, view and database alone.
LEMMA AccQuiet ==
    ASSUME AccInv, UNCHANGED <<cache, acc, loaded, record, coinsdb>>,
           \/ UNCHANGED <<pc, ret, tip>>
           \/ /\ pc \in {"ready"} \cup Flushing \cup Snapshotting
              /\ pc' \in {"ready"} \cup Flushing
              /\ ret' \in {"ready", ret}
    PROVE  MuHashInv' /\ ExtendingInv'
BY DEF AccInv, MuHashInv, ExtendingInv, ExtendingFlush, InMemory, Snapshotting,
       Flushing, Replaying, record, coinsdb

\* Connecting and rejecting blocks keeps the accumulator in step.
LEMMA AccConnect ==
    ASSUME AccInv, NEW b \in Block,
           AcceptBlock(b) \/ ConnectTip(b) \/ RejectBlock(b)
    PROVE  MuHashInv' /\ ExtendingInv'
<1>1. CASE AcceptBlock(b)
  BY <1>1, AccQuiet DEF AcceptBlock, FlushIfNeeded, Flushing
<1>2. CASE RejectBlock(b)
  <2>1. acc' = Accumulate(cache')
    BY <1>2, LoadedCorrect DEF RejectBlock
  <2> QED BY <1>2, <2>1, AccLoaded DEF RejectBlock
<1>3. CASE ConnectTip(b)
  <2>1. cache = UTXO[Prev[b]] /\ b \in Block \ {Genesis}
    BY <1>3 DEF ConnectTip, AccInv, CoinsInv, ViewInv, InMemory
  <2>2. acc' = Accumulate(cache')
    BY <1>3, <2>1, LoadedCorrect, ConnectAccumulate, BlockEffect DEF ConnectTip
  <2>3. pc' \in {"ready", "flushIndex"}
    BY <1>3 DEF ConnectTip, FlushIfNeeded
  <2> QED BY <1>3, <2>2, <2>3, AccLoaded DEF ConnectTip
<1> QED BY <1>1, <1>2, <1>3

\* DisconnectTip keeps the accumulator in step.
LEMMA AccDisconnect ==
    ASSUME AccInv, UTXOMuHash \/ DisconnectTip PROVE MuHashInv' /\ ExtendingInv'
<1>1. CASE UTXOMuHash
  <2>1. acc' = Accumulate(cache')
    BY <1>1, LoadedCorrect DEF UTXOMuHash
  <2> QED BY <1>1, <2>1, AccLoaded DEF UTXOMuHash
<1>2. CASE DisconnectTip
  <2>1. cache = UTXO[tip] /\ tip \in Block \ {Genesis}
    BY <1>2 DEF DisconnectTip, AccInv, CoinsInv, ViewInv, InMemory, TypeOK
  <2>2. acc' = Accumulate(cache')
    BY <1>2, <2>1, LoadedCorrect, DisconnectAccumulate, BlockEffect DEF DisconnectTip
  <2>3. pc' \in {"ready", "flushIndex"}
    BY <1>2 DEF DisconnectTip, FlushIfNeeded
  <2> QED BY <1>2, <2>2, <2>3, AccLoaded DEF DisconnectTip
<1> QED BY <1>1, <1>2

\* A flush keeps the accumulator in step; its record is of the tip it names.
LEMMA AccFlush ==
    ASSUME AccInv, FlushStateToDisk \/ Flush PROVE MuHashInv' /\ ExtendingInv'
<1> USE DEF InMemory, Snapshotting, Flushing, Replaying
<1>1. CASE FlushStateToDisk
  BY <1>1, AccQuiet DEF FlushStateToDisk
<1>2. CASE FlushIndex
  BY <1>2, AccQuiet DEF FlushIndex
<1>3. CASE BatchWritePartial
  <2>1. PICK W : db' = (db \ W) \cup (W \cap cache)
    BY <1>3 DEF BatchWritePartial
  <2>2. db = cache => db' = cache
    BY <2>1
  <2>3. MuHashInv'
    BY <1>3, <2>2 DEF BatchWritePartial, AccInv, MuHashInv, memory, record
  <2>4. pc = "replayed" => headNew = tip /\ headNew # NoBlock
    BY DEF AccInv, CoinsInv, ViewInv
  <2>5. ExtendingInv'
    BY <1>3, <2>4 DEF BatchWritePartial, AccInv, ExtendingInv, ExtendingFlush, memory
  <2> QED BY <2>3, <2>5
<1>4. CASE BatchWriteLast
  <2>1. pc = "replayed" => ~loaded
    BY DEF AccInv, ExtendingInv
  <2>2. ret = "snapDump" => loaded
    BY DEF AccInv, MuHashInv
  <2>3. MuHashInv'
    BY <1>4, <2>1, <2>2 DEF BatchWriteLast, AccInv, MuHashInv, record
  <2>4. ExtendingInv'
    BY <1>4 DEF BatchWriteLast, ExtendingInv
  <2> QED BY <2>3, <2>4
<1>5. CASE FlushRecord
  <2>1. cache = UTXO[tip] /\ (ret = "snapDump" => loaded)
    BY <1>5 DEF FlushRecord, AccInv, CoinsInv, ViewInv, MuHashInv
  <2>2. pc' = ret /\ ret' = "ready" /\ ret \in {"ready", "snapDump"}
    BY <1>5 DEF FlushRecord, AccInv, TypeOK
  <2>3. recTip' # NoBlock => recAcc' = Accumulate(UTXO[recTip'])
    BY <1>5, <2>1 DEF FlushRecord, AccInv, MuHashInv
  <2>4. MuHashInv'
    BY <1>5, <2>1, <2>2, <2>3 DEF FlushRecord, AccInv, MuHashInv, coinsdb
  <2>5. ExtendingInv'
    BY <2>2 DEF ExtendingInv
  <2> QED BY <2>4, <2>5
<1> QED BY <1>1, <1>2, <1>3, <1>4, <1>5 DEF Flush

\* WriteAutomaticSnapshot does not touch the accumulator.
LEMMA AccSnapshot == ASSUME AccInv, Snapshot PROVE MuHashInv' /\ ExtendingInv'
<1> USE DEF InMemory, Snapshotting, Flushing, Replaying
<1>1. /\ pc \in Snapshotting /\ pc' \in {"ready", "flushIndex"} \cup Snapshotting
      /\ ret' \in {"ready", ret}
  BY DEF Snapshot, SnapshotDump, SnapshotHash, SnapshotClean, FlushIfNeeded
<1>2. UNCHANGED <<cache, acc, loaded, record, coinsdb>>
  BY DEF Snapshot, SnapshotDump, SnapshotHash, SnapshotClean
<1> QED BY <1>1, <1>2 DEF AccInv, MuHashInv, ExtendingInv, record, coinsdb

\* VerifyDB at most loads the accumulator.
LEMMA AccVerify ==
    ASSUME AccInv, NEW level, NEW n, VerifyDB(level, n)
    PROVE  MuHashInv' /\ ExtendingInv'
<1>1. CASE UNCHANGED <<record, acc, loaded>>
  BY <1>1, AccQuiet DEF VerifyDB
<1>2. CASE EnsureUTXOMuHashLoaded /\ acc' = LoadedMuHash /\ loaded' = TRUE
  <2>1. acc' = Accumulate(cache')
    BY <1>2, LoadedCorrect DEF VerifyDB
  <2> QED BY <1>2, <2>1, AccLoaded DEF VerifyDB
<1> QED BY <1>1, <1>2 DEF VerifyDB

\* A restart leaves the accumulator unloaded, and the replay of a flush that
\* only extends the chain disconnects nothing.
LEMMA AccRestart ==
    ASSUME CrashInReorgFlush = FALSE, AccInv, Crash \/ LoadChainstate \/ Replay
    PROVE  MuHashInv' /\ ExtendingInv'
<1> USE DEF InMemory, Snapshotting, Flushing, Replaying
<1>1. CASE Crash
  <2>1. MuHashInv'
    BY <1>1 DEF Crash, AccInv, MuHashInv, record
  <2>2. headNew # NoBlock => ExtendingFlush
    BY <1>1 DEF Crash
  <2>3. ExtendingInv'
    BY <1>1, <2>2 DEF Crash, ExtendingInv, ExtendingFlush, coinsdb
  <2> QED BY <2>1, <2>3
<1>2. CASE LoadChainstate
  <2>1. ~loaded /\ acc = Accumulate({}) /\ (ret = "snapDump" => loaded)
    BY <1>2 DEF LoadChainstate, AccInv, MuHashInv, ExtendingInv
  <2>2. CASE headNew # NoBlock
    <3>1. pc' = "back" /\ loaded' = loaded /\ UNCHANGED <<ret, acc, record, coinsdb>>
      BY <1>2, <2>2 DEF LoadChainstate
    <3>2. tip' \in Ancestors[headNew]
      BY <1>2, <2>2, AncestorsAre
      DEF LoadChainstate, AccInv, ExtendingInv, ExtendingFlush, TypeOK
    <3>3. ExtendingFlush
      BY <1>2, <2>2 DEF LoadChainstate, AccInv, ExtendingInv
    <3> QED BY <2>1, <2>2, <3>1, <3>2, <3>3
            DEF AccInv, MuHashInv, ExtendingInv, ExtendingFlush, record, coinsdb
  <2>3. CASE headNew = NoBlock /\ best # NoBlock
    <3>1. pc' = "ready" /\ cache' = db /\ UNCHANGED <<ret, acc, loaded, record, coinsdb>>
      BY <1>2, <2>3 DEF LoadChainstate
    <3> QED BY <2>1, <3>1 DEF AccInv, MuHashInv, ExtendingInv, record, coinsdb
  <2>4. CASE headNew = NoBlock /\ best = NoBlock
    <3>1. pc' = "ready" /\ cache' = db /\ UNCHANGED <<ret, acc, record, coinsdb>>
      BY <1>2, <2>4 DEF LoadChainstate
    <3>2. db = {} /\ loaded' = TRUE
      BY <1>2, <2>4 DEF LoadChainstate, AccInv, CoinsInv, DbInv
    <3> QED BY <2>1, <3>1, <3>2 DEF AccInv, MuHashInv, ExtendingInv, record, coinsdb
  <2> QED BY <2>2, <2>3, <2>4
<1>3. CASE RollbackBlock
  BY <1>3 DEF RollbackBlock, AccInv, ExtendingInv
<1>4. ASSUME UNCHANGED <<ret, acc, loaded, record, coinsdb>>, pc \in {"back", "fwd"},
             pc' \in {"fwd", "replayed", "broken"}
      PROVE  MuHashInv' /\ ExtendingInv'
  BY <1>4 DEF AccInv, MuHashInv, ExtendingInv, ExtendingFlush, record, coinsdb
<1>5. CASE RollbackDone \/ ReplayDone
  BY <1>4, <1>5 DEF RollbackDone, ReplayDone, memory
<1>6. ASSUME NEW b \in Block, RollforwardBlock(b) PROVE MuHashInv' /\ ExtendingInv'
  BY <1>4, <1>6 DEF RollforwardBlock
<1> QED BY <1>1, <1>2, <1>3, <1>5, <1>6 DEF Replay

\* Every step keeps AccInv.
LEMMA AccStep ==
    ASSUME MaxDump = 0, CrashInReorgFlush = FALSE
    PROVE  AccInv /\ [Next]_vars => AccInv'
<1> SUFFICES ASSUME AccInv, [Next]_vars PROVE AccInv'
  OBVIOUS
<1>1. TypeOK' /\ CoinsInv'
  BY TypeStep, CoinsStep DEF AccInv
<1>2. ~Dump
  <2>1. ~DumpBegin
    BY DEF DumpBegin, AccInv, TypeOK
  <2>2. roll \notin index.data
    BY BlockAssumption DEF AccInv, TypeOK, IndexType
  <2> QED BY <2>1, <2>2 DEF Dump, DumpRollback, DumpEnd, AccInv
<1>3. roll' = NoBlock
  BY <1>2 DEF AccInv, Next, vars, rpc, Flush, Snapshot, Replay, UTXOMuHash,
     AcceptBlock, ConnectTip, RejectBlock, DisconnectTip, FlushStateToDisk,
     FlushIndex, BatchWritePartial, BatchWriteLast, FlushRecord, SnapshotDump,
     SnapshotHash, SnapshotClean, VerifyDB, Crash, LoadChainstate,
     RollbackBlock, RollbackDone, ReplayDone, RollforwardBlock
<1>4. MuHashInv' /\ ExtendingInv'
  <2>1. CASE UNCHANGED vars
    BY <2>1, AccQuiet DEF vars, memory
  <2>2. CASE Next
    BY <2>2, <1>2, AccConnect, AccDisconnect, AccFlush, AccSnapshot, AccVerify,
       AccRestart DEF Next
  <2> QED BY <2>1, <2>2
<1> QED BY <1>1, <1>3, <1>4 DEF AccInv

\* The accumulator that ConnectTip, DisconnectTip and a restart maintain is
\* the one of the coins view (Chainstate::UTXOMuHash).
THEOREM MuHashCorrect ==
    ASSUME MaxDump = 0, CrashInReorgFlush = FALSE
    PROVE  Spec => []MuHashLockstep
<1>1. AccInv => MuHashLockstep
  BY DEF AccInv, MuHashInv, MuHashLockstep
<1> QED BY AccInit, AccStep, <1>1, PTL DEF Spec

\* The record written by FlushStateToDisk and EnsureUTXOMuHashLoaded is the
\* accumulator of the block it names.
THEOREM MuHashRecordCorrect ==
    ASSUME MaxDump = 0, CrashInReorgFlush = FALSE
    PROVE  Spec => []MuHashRecordFaithful
<1>1. AccInv => MuHashRecordFaithful
  BY DEF AccInv, MuHashInv, MuHashRecordFaithful
<1> QED BY AccInit, AccStep, <1>1, PTL DEF Spec

-----------------------------------------------------------------------------
(* Attestations.                                                            *)

\* On the parent's UTXO set and its accumulator, both forms of the
\* attestation hash are the one that consensus asks for.
LEMMA ComputedAttestation ==
    ASSUME NEW b \in Block \ {Genesis}
    PROVE  ComputeBlockUTXOAttestationHash(b, UTXO[Prev[b]], Accumulate(UTXO[Prev[b]]))
             = {HonestAttestation(b)}
<1>1. /\ Ins[b] \subseteq UTXO[Prev[b]]
      /\ AttOuts[b] \cap UTXO[Prev[b]] = {}
  BY CoinAssumption, AttestationAssumption
<1>2. HonestAttestation(b) = Accumulate((UTXO[Prev[b]] \ Ins[b]) \cup AttOuts[b])
  BY <1>1, UpdateAccumulate DEF HonestAttestation
<1> QED BY <1>1, <1>2 DEF ComputeBlockUTXOAttestationHash, HonestAttestation

\* The inductive invariant of HonestBlocksAccepted.
HonestInv == AccInv /\ HonestBlocksAccepted

\* ValidateUTXOCheckpoint on the tip's view decides whether a child of the tip
\* carries the attestation of the real UTXO set.
LEMMA ValidateDecides ==
    ASSUME AccInv, pc = "ready", NEW b \in Block \ {Genesis}, Prev[b] = tip
    PROVE  ValidateUTXOCheckpoint(b, cache, LoadedMuHash) <=> IsHonest(b)
<1>1. cache = UTXO[Prev[b]]
  BY DEF AccInv, CoinsInv, ViewInv, InMemory
<1>2. LoadedMuHash = Accumulate(UTXO[Prev[b]])
  BY <1>1, LoadedCorrect
<1>3. ValidateUTXOCheckpoint(b, cache, LoadedMuHash) <=> Att[b] = HonestAttestation(b)
  <2>1. Height[b] > 0 /\ Height[b] \in Nat
    BY AttestationAssumption, BlockAssumption
  <2> QED BY <1>1, <1>2, <2>1, ComputedAttestation DEF ValidateUTXOCheckpoint
<1> QED BY <1>3 DEF IsHonest

\* Failed blocks come from RejectBlock alone.
LEMMA HonestStep ==
    ASSUME MaxDump = 0, CrashInReorgFlush = FALSE
    PROVE  HonestInv /\ [Next]_vars => HonestInv'
<1> SUFFICES ASSUME HonestInv, [Next]_vars PROVE HonestInv'
  OBVIOUS
<1>1. AccInv'
  BY AccStep DEF HonestInv
<1>2. CASE \E b \in Block : RejectBlock(b)
  <2>1. PICK b \in Block : RejectBlock(b)
    BY <1>2
  <2>2. ~IsHonest(b)
    BY <2>1, ValidateDecides DEF RejectBlock, HonestInv
  <2>3. index'.failed = index.failed \cup {b} /\ dindex' = dindex
    BY <2>1 DEF RejectBlock, HonestInv, AccInv, TypeOK, IndexType
  <2> QED BY <1>1, <2>2, <2>3 DEF HonestInv, HonestBlocksAccepted
<1>3. ASSUME index'.failed \cup dindex'.failed \subseteq index.failed \cup dindex.failed
      PROVE  HonestInv'
  BY <1>1, <1>3 DEF HonestInv, HonestBlocksAccepted
<1>4. CASE UNCHANGED <<index, dindex>>
  BY <1>3, <1>4
<1>5. CASE (\E b \in Block : AcceptBlock(b) \/ ConnectTip(b)) \/ FlushIndex \/ LoadChainstate
  BY <1>3, <1>5 DEF AcceptBlock, ConnectTip, FlushIndex, LoadChainstate, HonestInv,
     AccInv, TypeOK, IndexType
<1>6. CASE Crash
  BY <1>3, <1>6 DEF Crash, NoIndex
<1>7. CASE UNCHANGED vars
  BY <1>4, <1>7 DEF vars, memory
<1>8. CASE Next
  BY <1>2, <1>4, <1>5, <1>6, <1>8 DEF Next, memory, Flush, Snapshot, Replay, Dump,
     UTXOMuHash, DisconnectTip, FlushStateToDisk, BatchWritePartial,
     BatchWriteLast, FlushRecord, SnapshotDump, SnapshotHash, SnapshotClean,
     VerifyDB, DumpBegin, DumpRollback, DumpEnd, RollbackBlock, RollbackDone,
     ReplayDone, RollforwardBlock
<1> QED BY <1>7, <1>8

\* No honest block is ever marked BLOCK_FAILED by the attestation check.
THEOREM HonestCorrect ==
    ASSUME MaxDump = 0, CrashInReorgFlush = FALSE
    PROVE  Spec => []HonestBlocksAccepted
<1>1. Init => HonestInv
  BY AccInit DEF Init, HonestInv, HonestBlocksAccepted, NoIndex
<1>2. HonestInv => HonestBlocksAccepted
  BY DEF HonestInv
<1> QED BY <1>1, <1>2, HonestStep, PTL DEF Spec

-----------------------------------------------------------------------------
(* Snapshots.                                                               *)

\* The inductive invariant of SnapshotsFaithful.
SnapInv == AccInv /\ FilesInv

\* WriteAutomaticSnapshot writes the database after its forced flush, and the
\* hash of the accumulator or of a scan: both are of the tip's UTXO set.
LEMMA SnapStep ==
    ASSUME MaxDump = 0, CrashInReorgFlush = FALSE
    PROVE  SnapInv /\ [Next]_vars => SnapInv'
<1> SUFFICES ASSUME SnapInv, [Next]_vars PROVE SnapInv'
  OBVIOUS
<1>1. AccInv'
  BY AccStep DEF SnapInv
<1>2. pc \in Snapshotting => db = UTXO[tip] /\ SnapshotMuHash = Accumulate(UTXO[tip])
  <2> SUFFICES ASSUME pc \in Snapshotting
               PROVE  db = UTXO[tip] /\ SnapshotMuHash = Accumulate(UTXO[tip])
    OBVIOUS
  <2>1. InMemory /\ loaded /\ best = tip
    BY DEF SnapInv, AccInv, MuHashInv, InMemory, CoinsInv, ViewInv
  <2>2. best # NoBlock /\ headNew = NoBlock
    BY <2>1, BlockAssumption DEF SnapInv, AccInv, TypeOK, CoinsInv, ViewInv, InMemory,
       Snapshotting
  <2>3. db = UTXO[tip] /\ cache = UTXO[tip]
    BY <2>1, <2>2 DEF SnapInv, AccInv, CoinsInv, DbInv, ViewInv
  <2>4. acc = Accumulate(UTXO[tip])
    BY <2>1, <2>3 DEF SnapInv, AccInv, MuHashInv
  <2> QED BY <2>3, <2>4 DEF SnapshotMuHash
<1>3. CASE UNCHANGED files
  BY <1>1, <1>3 DEF SnapInv, FilesInv, files
<1>4. CASE SnapshotDump
  <2>1. dat' \subseteq dat \cup {[base |-> tip, coins |-> UTXO[tip]]} /\ sidecar' = sidecar
    BY <1>2, <1>4 DEF SnapshotDump, Snapshotting
  <2> QED BY <1>1, <2>1 DEF SnapInv, FilesInv
<1>5. CASE SnapshotHash
  <2>1. /\ dat' \subseteq dat
        /\ sidecar' \subseteq sidecar \cup {[base |-> tip, hash |-> Accumulate(UTXO[tip])]}
    BY <1>2, <1>5 DEF SnapshotHash, Snapshotting
  <2> QED BY <1>1, <2>1 DEF SnapInv, FilesInv
<1>6. CASE SnapshotClean
  <2>1. dat' \subseteq dat /\ sidecar' \subseteq sidecar
    BY <1>6 DEF SnapshotClean
  <2> QED BY <1>1, <2>1 DEF SnapInv, FilesInv
<1>7. CASE UNCHANGED vars
  BY <1>3, <1>7 DEF vars
<1>8. CASE Next
  BY <1>3, <1>4, <1>5, <1>6, <1>8 DEF Next, Flush, Snapshot, Replay, Dump,
     UTXOMuHash, AcceptBlock, ConnectTip, RejectBlock, DisconnectTip,
     FlushStateToDisk, FlushIndex, BatchWritePartial, BatchWriteLast,
     FlushRecord, VerifyDB, DumpBegin, DumpRollback, DumpEnd, Crash,
     LoadChainstate, RollbackBlock, RollbackDone, ReplayDone, RollforwardBlock
<1> QED BY <1>7, <1>8

\* Every snapshot with a sidecar holds its block's UTXO set and its hash.
THEOREM SnapshotsCorrect ==
    ASSUME MaxDump = 0, CrashInReorgFlush = FALSE
    PROVE  Spec => []SnapshotsFaithful
<1>1. Init => SnapInv
  BY AccInit DEF Init, SnapInv, FilesInv
<1>2. SnapInv => SnapshotsFaithful
  BY DEF SnapInv, FilesInv, SnapshotsFaithful
<1> QED BY <1>1, <1>2, SnapStep, PTL DEF Spec
===============================================================================
