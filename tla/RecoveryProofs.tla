---------------------------- MODULE RecoveryProofs ----------------------------
(***************************************************************************)
(* That the three records of a verdict (the flags, the best header and the *)
(* best invalid block) agree in every state of StuckChainRecovery, for any *)
(* fork, any length of the two branches and any number of restarts.        *)
(***************************************************************************)
EXTENDS StuckChainRecovery, WellFoundedInduction, TLAPS

\* A block of one of the two branches; below the fork there is only one.
IsBlock(b) == b \in {"main", "own"} \X Nat /\ (b[1] = "own" => b[2] > fork)

\* What the block index and the node's pointers into it satisfy.
IndexInv ==
    /\ fork \in Nat /\ net \in Nat
    /\ \A b \in index : IsBlock(b)
    /\ \A b \in index : \A h \in 0..Work(b) : Ancestor(b, h) \in index
    /\ data \subseteq index /\ failed \subseteq index
    /\ tip \in index /\ Work(tip) >= fork /\ bestHeader \in index

\* What is known of the peer, and what is being loaded, is in the index.  A tip
\* that is no snapshot's was connected, and keeps its good verdict.
PeerInv ==
    /\ known # None => known \in Nat /\ Main(known) \in index
    /\ asked # None => asked \in Nat /\ (asked > 0 => Main(asked - 1) \in index)
    /\ loading # None => loading.file \in index
    /\ base = None => tip \notin failed

RecoveryInv == IndexInv /\ PeerInv /\ VerdictConsistent

-----------------------------------------------------------------------------
(* Numbers and branches.                                                   *)

\* A set of natural numbers that is not empty has a least element.
LEMMA LeastNatural ==
    ASSUME NEW S \in SUBSET Nat, S # {} PROVE \E x \in S : \A y \in S : x <= y
  <1> DEFINE R == OpToRel(<, Nat)
  <1>1. IsWellFoundedOn(R, Nat)
    BY NatLessThanWellFounded
  <1> HIDE DEF R
  <1>2. PICK x \in S : \A y \in S : ~ (<<y, x>> \in R)
    BY <1>1, WFMin
  <1>3. \A y \in Nat : y < x => <<y, x>> \in R
    BY DEF R, OpToRel
  <1>4. \A y \in S : ~(y < x)
    BY <1>2, <1>3
  <1>5. \A y \in S : x <= y
    BY <1>4
  <1> QED BY <1>5

\* A block is its branch and its height, and its own ancestor.
LEMMA BlockIs ==
    ASSUME fork \in Nat, NEW b, IsBlock(b)
    PROVE  /\ Work(b) \in Nat /\ b = <<b[1], Work(b)>> /\ b[1] \in {"main", "own"}
           /\ b[1] = "own" => Work(b) > fork
           /\ Ancestor(b, Work(b)) = b
  <1>1. /\ Work(b) \in Nat /\ b = <<b[1], Work(b)>> /\ b[1] \in {"main", "own"}
        /\ b[1] = "own" => Work(b) > fork
    BY DEF IsBlock, Work
  <1>2. Ancestor(b, Work(b)) = b
    BY <1>1 DEF Ancestor, Main
  <1> QED BY <1>1, <1>2

\* A block of the network's branch.
LEMMA MainIs ==
    ASSUME fork \in Nat, NEW h \in Nat
    PROVE  IsBlock(Main(h)) /\ Work(Main(h)) = h /\ \A j \in 0..h : Ancestor(Main(h), j) = Main(j)
  BY DEF IsBlock, Work, Main, Ancestor

\* The ancestors of a block, and theirs.
LEMMA AncestorIs ==
    ASSUME fork \in Nat, NEW b, IsBlock(b), NEW h \in 0..Work(b)
    PROVE  /\ IsBlock(Ancestor(b, h)) /\ Work(Ancestor(b, h)) = h
           /\ \A j \in 0..h : Ancestor(Ancestor(b, h), j) = Ancestor(b, j)
           /\ h > fork => Ancestor(b, h) = <<b[1], h>>
           /\ h <= fork => Ancestor(b, h) = Main(h)
  <1>1. b[1] \in {"main", "own"} /\ Work(b) \in Nat /\ h \in Nat
    BY BlockIs
  <1>2. CASE h <= fork
    BY <1>1, <1>2 DEF Ancestor, Main, IsBlock, Work
  <1>3. CASE h > fork
    <2>1. Ancestor(b, h) = <<b[1], h>>
      BY <1>1, <1>3 DEF Ancestor
    <2>2. IsBlock(<<b[1], h>>) /\ Work(<<b[1], h>>) = h
      BY <1>1, <1>3 DEF IsBlock, Work
    <2>3. \A j \in 0..h : Ancestor(<<b[1], h>>, j) = Ancestor(b, j)
      BY DEF Ancestor
    <2> QED BY <1>1, <1>3, <2>1, <2>2, <2>3
  <1> QED BY <1>1, <1>2, <1>3

\* A block descends from each of its ancestors.
LEMMA DescendsFromAncestor ==
    ASSUME fork \in Nat, NEW b, IsBlock(b), NEW h \in 0..Work(b)
    PROVE  Descends(b, Ancestor(b, h))
  BY AncestorIs, BlockIs DEF Descends

\* Descent is transitive.
LEMMA DescendsTransitive ==
    ASSUME fork \in Nat, NEW a, NEW b, NEW c, IsBlock(a), IsBlock(b), IsBlock(c),
           Descends(c, b), Descends(b, a)
    PROVE  Descends(c, a)
  <1>1. /\ Work(a) \in Nat /\ Work(b) \in Nat /\ Work(c) \in Nat
        /\ Work(a) <= Work(b) /\ Work(b) <= Work(c)
        /\ Ancestor(b, Work(a)) = a /\ Ancestor(c, Work(b)) = b
    BY BlockIs DEF Descends
  <1>2. Ancestor(Ancestor(c, Work(b)), Work(a)) = Ancestor(c, Work(a))
    BY <1>1, AncestorIs
  <1>3. \A x, y, z \in Nat : x <= y /\ y <= z => x <= z
    OBVIOUS
  <1>4. Work(a) <= Work(c)
    BY <1>1, <1>3, Zenon
  <1>5. Ancestor(c, Work(a)) = a
    BY <1>1, <1>2, Zenon
  <1> QED BY <1>4, <1>5, Zenon DEF Descends

\* Of two ancestors of a block, one descends from the other.
LEMMA DescendsLinear ==
    ASSUME fork \in Nat, NEW a, NEW b, NEW c, IsBlock(a), IsBlock(b), IsBlock(c),
           Descends(c, a), Descends(c, b), Work(a) <= Work(b)
    PROVE  Descends(b, a)
  <1>1. /\ Work(a) \in Nat /\ Work(b) \in Nat /\ Work(c) \in Nat /\ Work(b) <= Work(c)
        /\ Ancestor(c, Work(a)) = a /\ Ancestor(c, Work(b)) = b
    BY BlockIs DEF Descends
  <1>2. Ancestor(Ancestor(c, Work(b)), Work(a)) = Ancestor(c, Work(a))
    BY <1>1, AncestorIs
  <1> QED BY <1>1, <1>2 DEF Descends

-----------------------------------------------------------------------------
(* The initial state, and the steps that leave the verdicts alone.         *)

\* A node on the chain of the network, with no verdict.
LEMMA RecoveryInit ==
    ASSUME Forks \subseteq Nat, Init PROVE RecoveryInv
  <1>1. /\ fork \in Nat /\ net = fork /\ index = {Main(h) : h \in 0..fork} /\ data = index
        /\ failed = {} /\ tip = Main(fork) /\ bestHeader = tip /\ bestInvalid = None
        /\ known = None /\ asked = None /\ loading = None
    BY DEF Init
  <1>2. \A b \in index : \E h \in 0..fork : b = Main(h) /\ h \in Nat
    BY <1>1
  <1>3. \A b \in index : IsBlock(b) /\ Work(b) <= fork
    BY <1>1, <1>2, MainIs
  <1>4. \A b \in index : \A h \in 0..Work(b) : Ancestor(b, h) \in index
    BY <1>1, <1>2, MainIs
  <1>5. tip \in index /\ Work(tip) = fork
    BY <1>1, MainIs
  <1>6. IndexInv
    BY <1>1, <1>3, <1>4, <1>5 DEF IndexInv
  <1>7. PeerInv /\ VerdictConsistent
    BY <1>1, <1>3, <1>5 DEF PeerInv, VerdictConsistent
  <1> QED BY <1>6, <1>7 DEF RecoveryInv

\* A step that changes neither the index, the verdicts nor the tip.
LEMMA Framed ==
    ASSUME RecoveryInv, net' \in Nat, UNCHANGED <<fork, blocks>>,
           known' \in {known, None},
           asked' # None => asked' \in Nat /\ (asked' > 0 => Main(asked' - 1) \in index),
           loading' \in {loading, None}
    PROVE  RecoveryInv'
  <1>1. /\ fork' = fork /\ index' = index /\ data' = data /\ failed' = failed /\ tip' = tip
        /\ base' = base /\ bestHeader' = bestHeader /\ bestInvalid' = bestInvalid
    BY DEF blocks
  <1>2. IndexInv'
    BY <1>1 DEF RecoveryInv, IndexInv, IsBlock, Ancestor
  <1>3. PeerInv'
    BY <1>1 DEF RecoveryInv, PeerInv
  <1>4. VerdictConsistent'
    BY <1>1 DEF RecoveryInv, VerdictConsistent, Descends, Ancestor
  <1> QED BY <1>2, <1>3, <1>4 DEF RecoveryInv

\* The first header of an answer to a locator of a block of the index follows
\* a block of the index.
LEMMA AnswerFollows ==
    ASSUME IndexInv, NEW b \in index
    PROVE  AnswerAfter(b) \in Nat /\ AnswerAfter(b) > 0 /\ Main(AnswerAfter(b) - 1) \in index
  <1>1. fork \in Nat /\ IsBlock(b) /\ IsBlock(tip) /\ Work(tip) >= fork /\ tip \in index
    BY DEF IndexInv
  <1>2. Work(b) \in Nat /\ b = <<b[1], Work(b)>> /\ b[1] \in {"main", "own"}
    BY <1>1, BlockIs
  <1>3. CASE b[1] = "own"
    <2>1. Main(fork) \in index
      <3>1. fork \in 0..Work(tip)
        BY <1>1, BlockIs
      <3>2. Ancestor(tip, fork) \in index
        BY <1>1, <3>1 DEF IndexInv
      <3> QED BY <1>1, <3>1, <3>2, AncestorIs
    <2>2. AnswerAfter(b) = fork + 1
      BY <1>3 DEF AnswerAfter
    <2> QED BY <1>1, <2>1, <2>2
  <1>4. CASE b[1] # "own"
    <2>1. b = Main(Work(b)) /\ AnswerAfter(b) = Work(b) + 1
      BY <1>2, <1>4 DEF Main, AnswerAfter
    <2> QED BY <1>2, <2>1
  <1> QED BY <1>3, <1>4

\* The network, requests for headers and snapshots, failures and lost peers.
LEMMA FrameStep ==
    ASSUME RecoveryInv,
           \/ NetworkMines \/ StartSync \/ MaybeRequestSnapshot \/ SnapshotReceived
           \/ ActivationFails \/ Reconnect
    PROVE  RecoveryInv'
  <1>1. IndexInv /\ PeerInv /\ net \in Nat /\ fork \in Nat
    BY DEF RecoveryInv, IndexInv
  <1>2. CASE NetworkMines
    <2>1. /\ net' = net + 1 /\ UNCHANGED <<fork, blocks>> /\ known' = known /\ asked' = asked
          /\ loading' = loading
      BY <1>2 DEF NetworkMines, peer, task
    <2> QED BY <1>1, <2>1, Framed DEF PeerInv
  <1>3. CASE StartSync
    <2> DEFINE b == Ancestor(bestHeader, Work(bestHeader) - 1)
    <2>1. /\ net' = net /\ UNCHANGED <<fork, blocks>> /\ known' = known /\ asked' = AnswerAfter(b)
          /\ loading' = loading
      BY <1>3 DEF StartSync, task
    <2>2. IsBlock(bestHeader) /\ bestHeader \in index /\ Work(bestHeader) \in Nat
      BY <1>1, BlockIs DEF IndexInv
    <2>3. AnswerAfter(b) \in Nat /\ (AnswerAfter(b) > 0 => Main(AnswerAfter(b) - 1) \in index)
      <3>1. CASE Work(bestHeader) = 0
        <4>1. b = Main(-1)
          BY <1>1, <3>1 DEF Ancestor
        <4>2. AnswerAfter(b) = 0
          BY <4>1 DEF AnswerAfter, Main, Work
        <4> QED BY <4>2
      <3>2. CASE Work(bestHeader) # 0
        <4>1. Work(bestHeader) - 1 \in 0..Work(bestHeader)
          BY <2>2, <3>2
        <4>2. b \in index
          BY <1>1, <2>2, <4>1 DEF IndexInv
        <4> HIDE DEF b
        <4> QED BY <1>1, <4>2, AnswerFollows
      <3> QED BY <3>1, <3>2
    <2> QED BY <1>1, <2>1, <2>3, Framed
  <1>4. CASE MaybeRequestSnapshot \/ SnapshotReceived \/ ActivationFails
    <2>1. /\ net' = net /\ UNCHANGED <<fork, blocks>> /\ known' = known /\ asked' = asked
          /\ loading' \in {loading, None}
      BY <1>4 DEF MaybeRequestSnapshot, SnapshotReceived, ActivationFails, peer
    <2> QED BY <1>1, <2>1, Framed DEF PeerInv
  <1>5. CASE Reconnect
    <2>1. /\ net' = net /\ UNCHANGED <<fork, blocks>> /\ known' = None /\ asked' = None
          /\ loading' = loading
      BY <1>5 DEF Reconnect, task
    <2> QED BY <1>1, <2>1, Framed
  <1> QED BY <1>2, <1>3, <1>4, <1>5

-----------------------------------------------------------------------------
(* New blocks.                                                             *)

\* The index grows by blocks that descend from no invalid one.
LEMMA IndexGrows ==
    ASSUME RecoveryInv, net' = net, UNCHANGED <<fork, failed, tip, base, bestInvalid, loading>>,
           NEW new, \A b \in new : IsBlock(b), index' = index \cup new,
           \A b \in new : \A h \in 0..Work(b) : Ancestor(b, h) \in index \cup new,
           \A b \in new \ index, a \in failed : ~Descends(b, a),
           data' \subseteq index', bestHeader' \in index',
           \A b \in new \cup {bestHeader} : Work(b) <= Work(bestHeader'),
           known' # None => known' \in Nat /\ Main(known') \in index',
           asked' # None => asked' \in Nat /\ (asked' > 0 => Main(asked' - 1) \in index')
    PROVE  RecoveryInv'
  <1>1. IndexInv /\ PeerInv /\ VerdictConsistent /\ fork' = fork /\ failed' = failed
        /\ tip' = tip /\ base' = base /\ bestInvalid' = bestInvalid /\ loading' = loading
        /\ fork \in Nat
    BY DEF RecoveryInv, IndexInv
  <1>2. \A b \in index' : IsBlock(b)
    BY <1>1 DEF IndexInv
  <1>3. IndexInv'
    <2>1. (\A b \in index : IsBlock(b))'
      BY <1>1, <1>2 DEF IsBlock
    <2>2. (\A b \in index : \A h \in 0..Work(b) : Ancestor(b, h) \in index)'
      <3>1. \A b \in index' : \A h \in 0..Work(b) : Ancestor(b, h) \in index'
        BY <1>1 DEF IndexInv
      <3> QED BY <1>1, <3>1 DEF Ancestor
    <2>3. failed' \subseteq index' /\ tip' \in index' /\ Work(tip') >= fork'
      BY <1>1 DEF IndexInv
    <2> QED BY <1>1, <2>1, <2>2, <2>3 DEF IndexInv
  <1>4. PeerInv'
    BY <1>1 DEF PeerInv
  <1>5. VerdictConsistent'
    <2>1. ASSUME NEW a \in failed, NEW c \in index', Descends(c, a) PROVE c \in failed
      BY <1>1, <2>1 DEF VerdictConsistent
    <2>2. ASSUME NEW b \in index' \ failed PROVE Work(b) <= Work(bestHeader')
      <3>1. CASE b \in new
        BY <3>1
      <3>2. CASE b \in index
        <4>1. Work(b) <= Work(bestHeader) /\ Work(bestHeader) <= Work(bestHeader')
          BY <1>1, <2>2, <3>2 DEF VerdictConsistent
        <4>2. Work(b) \in Nat /\ Work(bestHeader) \in Nat /\ Work(bestHeader') \in Nat
          BY <1>1, <1>2, <2>2, BlockIs DEF IndexInv
        <4> QED BY <4>1, <4>2
      <3> QED BY <2>2, <3>1, <3>2
    <2>3. (\A b \in failed, c \in index : Descends(c, b) => c \in failed)'
      BY <1>1, <2>1 DEF Descends, Ancestor
    <2> QED BY <1>1, <2>2, <2>3 DEF VerdictConsistent
  <1> QED BY <1>3, <1>4, <1>5 DEF RecoveryInv

\* Of two headers the heavier one is kept.
LEMMA ImprovedIs ==
    ASSUME NEW a, NEW b, Work(a) \in Nat, Work(b) \in Nat
    PROVE  /\ Improved(a, b) \in {a, b}
           /\ Work(a) <= Work(Improved(a, b)) /\ Work(b) <= Work(Improved(a, b))
  <1>1. CASE Work(a) < Work(b)
    BY <1>1 DEF Improved
  <1>2. CASE ~(Work(a) < Work(b))
    BY <1>2 DEF Improved
  <1> QED BY <1>1, <1>2

\* A block of the node's own branch follows the tip, which is not invalid.
LEMMA OwnStep ==
    ASSUME RecoveryInv, OwnBlock PROVE RecoveryInv'
  <1> DEFINE b == Own(Work(tip) + 1)
  <1>1. /\ base = None /\ tip = Ancestor(b, Work(tip)) /\ b \notin index
        /\ index' = index \cup {b} /\ data' = data \cup {b}
        /\ bestHeader' = Improved(bestHeader, b)
        /\ net' = net /\ UNCHANGED <<fork, failed, tip, base, bestInvalid, loading>>
        /\ known' = known /\ asked' = asked
    BY DEF OwnBlock, peer, task
  <1>2. /\ IndexInv /\ PeerInv /\ VerdictConsistent /\ fork \in Nat /\ tip \in index
        /\ IsBlock(tip) /\ Work(tip) >= fork /\ Work(tip) \in Nat
        /\ IsBlock(bestHeader) /\ Work(bestHeader) \in Nat /\ bestHeader \in index
    BY BlockIs DEF RecoveryInv, IndexInv
  <1>3. IsBlock(b) /\ Work(b) = Work(tip) + 1
    BY <1>2 DEF IsBlock, Own, Work
  <1> HIDE DEF b
  <1>4. Work(b) \in Nat /\ Ancestor(b, Work(b)) = b
    BY <1>2, <1>3, BlockIs
  <1>5. \A h \in 0..Work(b) : h = Work(b) \/ (h \in 0..Work(tip) /\ Ancestor(b, h) = Ancestor(tip, h))
    BY <1>1, <1>2, <1>3, <1>4, AncestorIs
  <1>6. \A h \in 0..Work(b) : Ancestor(b, h) \in index \cup {b}
    BY <1>2, <1>4, <1>5 DEF IndexInv
  <1>7. \A a \in failed : ~Descends(b, a)
    <2> SUFFICES ASSUME NEW a \in failed, Descends(b, a) PROVE FALSE
      OBVIOUS
    <2>1. a \in index /\ IsBlock(a) /\ Work(a) \in Nat /\ Work(a) <= Work(b)
          /\ Ancestor(b, Work(a)) = a
      BY <1>2, BlockIs DEF IndexInv, Descends
    <2>2. Work(a) # Work(b)
      BY <1>1, <1>4, <2>1
    <2>3. Work(a) \in 0..Work(tip) /\ Ancestor(tip, Work(a)) = a
      BY <1>4, <1>5, <2>1, <2>2
    <2>4. Descends(tip, a)
      BY <1>2, <2>3 DEF Descends
    <2> QED BY <1>1, <1>2, <2>4 DEF VerdictConsistent, PeerInv
  <1>8. /\ bestHeader' \in {bestHeader, b} /\ Work(bestHeader) <= Work(bestHeader')
        /\ Work(b) <= Work(bestHeader')
    BY <1>1, <1>2, <1>4, ImprovedIs
  <1>9. data' \subseteq index' /\ bestHeader' \in index'
    BY <1>1, <1>2, <1>8 DEF IndexInv
  <1>10. /\ \A x \in {b} : IsBlock(x)
         /\ \A x \in {b} : \A h \in 0..Work(x) : Ancestor(x, h) \in index \cup {b}
         /\ \A x \in {b} \ index, a \in failed : ~Descends(x, a)
    BY <1>3, <1>6, <1>7
  <1>11. \A x \in {b} \cup {bestHeader} : Work(x) <= Work(bestHeader')
    BY <1>8
  <1>12. /\ known' # None => known' \in Nat /\ Main(known') \in index'
         /\ asked' # None => asked' \in Nat /\ (asked' > 0 => Main(asked' - 1) \in index')
    BY <1>1, <1>2 DEF PeerInv
  <1> QED BY <1>1, <1>9, <1>10, <1>11, <1>12, IndexGrows, Zenon

\* Headers that follow a block of the index: up to the first that is refused, none
\* descends from an invalid block.
LEMMA ProcessHeadersStep ==
    ASSUME RecoveryInv, NEW s \in Nat, s > 0 => Main(s - 1) \in index, ProcessHeaders(s),
           net' = net, UNCHANGED <<fork, data, failed, tip, base, bestInvalid, loading>>,
           asked' # None => asked' \in Nat /\ (asked' > 0 => Main(asked' - 1) \in index)
    PROVE  RecoveryInv'
  <1> DEFINE refused == {h \in s..net : Refuses(h)}
             last == IF refused = {} THEN net ELSE Min(refused) - 1
             new == {Main(h) : h \in s..last}
  <1>1. /\ index' = index \cup new
        /\ bestHeader' = (IF s <= last THEN Improved(bestHeader, Main(last)) ELSE bestHeader)
        /\ known' = (IF refused = {} /\ s <= net THEN net ELSE known)
    BY DEF ProcessHeaders
  <1>2. /\ IndexInv /\ PeerInv /\ VerdictConsistent /\ fork \in Nat /\ net \in Nat
        /\ bestHeader \in index /\ IsBlock(bestHeader) /\ Work(bestHeader) \in Nat
    BY BlockIs DEF RecoveryInv, IndexInv
  <1>3. /\ last \in Int /\ last <= net /\ (refused = {} => last = net)
        /\ \A h \in s..last : h \in Nat /\ ~Refuses(h)
    <2>1. CASE refused = {}
      BY <1>2, <2>1
    <2>2. CASE refused # {}
      <3>1. refused \in SUBSET Nat
        BY <1>2
      <3>2. \E x \in refused : \A y \in refused : x <= y
        BY <2>2, <3>1, LeastNatural
      <3>3. Min(refused) \in refused /\ \A y \in refused : Min(refused) <= y
        BY <3>2 DEF Min
      <3>4. Min(refused) \in Nat /\ Min(refused) <= net /\ last = Min(refused) - 1
        BY <1>2, <2>2, <3>3
      <3>5. \A h \in s..last : h \in s..net /\ h \in Nat /\ ~(Min(refused) <= h)
        BY <1>2, <3>4
      <3>6. \A h \in s..last : ~Refuses(h)
        BY <3>3, <3>5
      <3> QED BY <1>2, <2>2, <3>4, <3>5, <3>6
    <2> QED BY <2>1, <2>2
  <1> HIDE DEF refused, last
  <1>4. \A b \in new : IsBlock(b) /\ Work(b) \in s..last
    BY <1>2, <1>3, MainIs
  <1>5. \A j \in 0..(s - 1) : Main(j) \in index /\ Descends(Main(s - 1), Main(j))
    <2> SUFFICES ASSUME NEW j \in 0..(s - 1)
                 PROVE  Main(j) \in index /\ Descends(Main(s - 1), Main(j))
      OBVIOUS
    <2>1. s - 1 \in Nat /\ s > 0 /\ j \in Nat
      OBVIOUS
    <2>2. Work(Main(s - 1)) = s - 1 /\ IsBlock(Main(s - 1)) /\ Ancestor(Main(s - 1), j) = Main(j)
      BY <1>2, <2>1, MainIs
    <2> QED BY <1>2, <2>1, <2>2, DescendsFromAncestor DEF IndexInv
  <1>6. \A b \in new : \A h \in 0..Work(b) : Ancestor(b, h) \in index \cup new
    <2> SUFFICES ASSUME NEW k \in s..last, NEW h \in 0..Work(Main(k))
                 PROVE  Ancestor(Main(k), h) \in index \cup new
      OBVIOUS
    <2>1. k \in Nat /\ h \in 0..k /\ Ancestor(Main(k), h) = Main(h)
      BY <1>2, <1>3, MainIs
    <2>2. CASE h < s
      BY <1>5, <2>1, <2>2
    <2>3. CASE h >= s
      <3>1. h \in s..last
        BY <1>3, <2>1, <2>3
      <3> QED BY <2>1, <3>1
    <2> QED BY <2>1, <2>2, <2>3
  <1>7. \A b \in new \ index, a \in failed : ~Descends(b, a)
    <2> SUFFICES ASSUME NEW k \in s..last, NEW a \in failed, Descends(Main(k), a) PROVE FALSE
      OBVIOUS
    <2> DEFINE j == Work(a)
    <2>1. IsBlock(a) /\ a \in index /\ j \in Nat
      BY <1>2, BlockIs DEF IndexInv
    <2>2. k \in Nat /\ Work(Main(k)) = k
      BY <1>2, <1>3, MainIs
    <2>3. j <= k /\ a = Main(j)
      <3>1. j <= k /\ a = Ancestor(Main(k), j)
        BY <2>2 DEF Descends
      <3> QED BY <1>2, <2>1, <2>2, <3>1, MainIs
    <2> HIDE DEF j
    <2>4. CASE j >= s
      <3>1. j \in s..last
        BY <1>3, <2>1, <2>2, <2>3, <2>4
      <3> QED BY <1>3, <2>3, <3>1 DEF Refuses
    <2>5. CASE j < s
      <3>1. j \in 0..(s - 1) /\ s \in s..last /\ s > 0
        BY <1>3, <2>1, <2>2, <2>5
      <3>2. Main(s - 1) \in failed
        BY <1>2, <1>5, <2>3, <3>1 DEF VerdictConsistent
      <3>3. CASE Main(s) \in index
        <4>1. j \in 0..s /\ Work(Main(s)) = s /\ IsBlock(Main(s)) /\ Ancestor(Main(s), j) = Main(j)
          BY <1>2, <2>1, <2>5, MainIs
        <4>2. Descends(Main(s), Main(j))
          BY <1>2, <4>1, DescendsFromAncestor
        <4>3. Main(s) \in failed
          BY <1>2, <2>3, <3>3, <4>2 DEF VerdictConsistent
        <4> QED BY <1>3, <3>1, <4>3 DEF Refuses
      <3> QED BY <1>3, <3>1, <3>2, <3>3 DEF Refuses
    <2> QED BY <2>1, <2>4, <2>5
  <1>8. /\ bestHeader' \in index \cup new /\ Work(bestHeader) <= Work(bestHeader')
        /\ \A b \in new : Work(b) <= Work(bestHeader')
    <2>1. CASE s <= last
      <3>1. last \in s..last /\ last \in Nat /\ Main(last) \in new /\ Work(Main(last)) = last
        BY <1>2, <1>3, <2>1, MainIs
      <3>2. /\ bestHeader' \in {bestHeader, Main(last)} /\ Work(bestHeader) <= Work(bestHeader')
            /\ last <= Work(bestHeader') /\ Work(bestHeader') \in Nat
        BY <1>1, <1>2, <2>1, <3>1, ImprovedIs
      <3>3. \A b \in new : Work(b) <= Work(bestHeader')
        BY <1>3, <1>4, <3>2
      <3> QED BY <1>2, <3>1, <3>2, <3>3
    <2>2. CASE ~(s <= last)
      <3>1. new = {}
        BY <1>3, <2>2
      <3> QED BY <1>1, <1>2, <2>2, <3>1
    <2> QED BY <2>1, <2>2
  <1>9. known' # None => known' \in Nat /\ Main(known') \in index'
    <2>1. CASE refused = {} /\ s <= net
      <3>1. known' = net /\ last = net /\ net \in s..last
        BY <1>1, <1>2, <1>3, <2>1
      <3> QED BY <1>1, <1>2, <3>1
    <2>2. CASE ~(refused = {} /\ s <= net)
      <3>1. known' = known
        BY <1>1, <2>2
      <3> QED BY <1>1, <1>2, <3>1 DEF PeerInv
    <2> QED BY <2>1, <2>2
  <1> HIDE DEF new
  <1>10. data' \subseteq index' /\ bestHeader' \in index'
    BY <1>1, <1>2, <1>8 DEF IndexInv
  <1>11. \A b \in new \cup {bestHeader} : Work(b) <= Work(bestHeader')
    BY <1>8
  <1>12. asked' # None => asked' \in Nat /\ (asked' > 0 => Main(asked' - 1) \in index')
    BY <1>1
  <1>13. \A b \in new : IsBlock(b)
    BY <1>4
  <1>14. UNCHANGED <<fork, failed, tip, base, bestInvalid, loading>>
    OBVIOUS
  <1> QED BY <1>1, <1>6, <1>7, <1>9, <1>10, <1>11, <1>12, <1>13, <1>14, IndexGrows, Zenon

\* The peer's answer to a request for headers, and its announcements.
LEMMA HeadersStep ==
    ASSUME RecoveryInv, Headers \/ Announce PROVE RecoveryInv'
  <1>1. IndexInv /\ PeerInv /\ net \in Nat /\ fork \in Nat /\ bestHeader \in index
    BY DEF RecoveryInv, IndexInv
  <1>2. CASE Headers
    <2>1. /\ asked # None /\ ProcessHeaders(asked) /\ asked' = None /\ net' = net
          /\ UNCHANGED <<fork, data, failed, tip, base, bestInvalid, loading>>
      BY <1>2 DEF Headers, task
    <2> QED BY <1>1, <2>1, ProcessHeadersStep DEF PeerInv
  <1>3. CASE Announce /\ Main(net - 1) \in index
    <2>1. /\ ProcessHeaders(net) /\ asked' = asked /\ net' = net
          /\ UNCHANGED <<fork, data, failed, tip, base, bestInvalid, loading>>
      BY <1>3 DEF Announce, task
    <2> QED BY <1>1, <1>3, <2>1, ProcessHeadersStep DEF PeerInv
  <1>4. CASE Announce /\ Main(net - 1) \notin index
    <2>1. /\ asked' = (IF asked = None THEN AnswerAfter(bestHeader) ELSE asked) /\ net' = net
          /\ UNCHANGED <<fork, blocks>> /\ known' = known /\ loading' = loading
      BY <1>4 DEF Announce, task, blocks
    <2>2. asked' # None => asked' \in Nat /\ (asked' > 0 => Main(asked' - 1) \in index)
      BY <1>1, <2>1, AnswerFollows DEF PeerInv
    <2> QED BY <1>1, <2>1, <2>2, Framed
  <1> QED BY <1>2, <1>3, <1>4

-----------------------------------------------------------------------------
(* Verdicts.                                                               *)

\* The index stays; what points into it still does.
LEMMA IndexKept ==
    ASSUME IndexInv, UNCHANGED <<fork, net, index>>, data' \subseteq index, failed' \subseteq index,
           tip' \in index, Work(tip') >= fork, bestHeader' \in index
    PROVE  IndexInv'
  <1>1. fork' = fork /\ net' = net /\ index' = index
    OBVIOUS
  <1> QED BY <1>1 DEF IndexInv, IsBlock, Ancestor

\* The index stays, and the records of the new verdict agree.
LEMMA VerdictIs ==
    ASSUME UNCHANGED <<fork, index>>,
           \A b \in failed', c \in index : Descends(c, b) => c \in failed',
           \A b \in index \ failed' : Work(b) <= Work(bestHeader'),
           bestInvalid' # None => bestInvalid' \in failed'
    PROVE  VerdictConsistent'
  <1>1. fork' = fork /\ index' = index
    OBVIOUS
  <1>2. (\A b \in failed, c \in index : Descends(c, b) => c \in failed)'
    BY <1>1 DEF Descends, Ancestor
  <1> QED BY <1>1, <1>2 DEF VerdictConsistent

\* A block that arrives was in the index.
LEMMA BlockStep ==
    ASSUME RecoveryInv, NEW h, ReceiveBlock(h) PROVE RecoveryInv'
  <1>1. /\ IndexInv /\ PeerInv /\ VerdictConsistent /\ fork \in Nat
        /\ IsBlock(tip) /\ Work(tip) \in Nat /\ Work(tip) >= fork
    BY BlockIs DEF RecoveryInv, IndexInv
  <1>2. /\ known # None /\ Main(h) \in Path(Main(known)) /\ data' = data \cup {Main(h)}
        /\ UNCHANGED <<fork, net, index, failed, tip, base, bestHeader, bestInvalid, loading>>
        /\ known' = known /\ asked' = asked
    BY DEF ReceiveBlock, peer, task
  <1>3. known \in Nat /\ Main(known) \in index /\ IsBlock(Main(known)) /\ Work(Main(known)) = known
    BY <1>1, <1>2, MainIs DEF PeerInv
  <1>4. PICK k \in ForkHeight(Main(known)) + 1 .. known : Main(h) = Ancestor(Main(known), k)
    BY <1>2, <1>3 DEF Path
  <1>5. ForkHeight(Main(known)) \in Nat
    BY <1>1, <1>3 DEF ForkHeight
  <1>6. k \in 0..Work(Main(known))
    BY <1>3, <1>4, <1>5
  <1>7. Main(h) \in index
    BY <1>1, <1>3, <1>4, <1>6 DEF IndexInv
  <1>8. IndexInv'
    BY <1>1, <1>2, <1>7, IndexKept DEF IndexInv
  <1>9. VerdictConsistent'
    BY <1>1, <1>2, VerdictIs DEF VerdictConsistent
  <1>10. PeerInv'
    BY <1>1, <1>2 DEF PeerInv
  <1> QED BY <1>8, <1>9, <1>10 DEF RecoveryInv

\* LoadBlockIndex computes the best header and the best invalid block anew.
LEMMA RestartStep ==
    ASSUME RecoveryInv, Restart PROVE RecoveryInv'
  <1>1. IndexInv /\ PeerInv /\ VerdictConsistent
    BY DEF RecoveryInv
  <1>2. /\ known' = None /\ asked' = None /\ loading' = None
        /\ bestHeader' \in Heaviest(index \ failed)
        /\ bestInvalid' \in (IF failed = {} THEN {None} ELSE Heaviest(failed))
        /\ UNCHANGED <<fork, net, index, data, failed, tip, base>>
    BY DEF Restart
  <1>3. bestHeader' \in index /\ \A b \in index \ failed : Work(b) <= Work(bestHeader')
    BY <1>2 DEF Heaviest
  <1>4. bestInvalid' # None => bestInvalid' \in failed
    BY <1>2 DEF Heaviest
  <1>5. IndexInv'
    BY <1>1, <1>2, <1>3, IndexKept DEF IndexInv
  <1>6. VerdictConsistent'
    BY <1>1, <1>2, <1>3, <1>4, VerdictIs DEF VerdictConsistent
  <1>7. PeerInv'
    BY <1>1, <1>2 DEF PeerInv
  <1> QED BY <1>5, <1>6, <1>7 DEF RecoveryInv

\* The tip becomes the block of a snapshot, which is in the index.
LEMMA ActivateSnapshotStep ==
    ASSUME RecoveryInv, None \notin {"main", "own"} \X Nat, ActivateSnapshot PROVE RecoveryInv'
  <1>1. /\ IndexInv /\ PeerInv /\ VerdictConsistent /\ fork \in Nat
        /\ Work(tip) \in Nat /\ Work(tip) >= fork
    BY BlockIs DEF RecoveryInv, IndexInv
  <1>2. /\ loading # None /\ Work(tip) <= Work(loading.file)
        /\ tip' = loading.file /\ base' = loading.file /\ loading' = None
        /\ UNCHANGED <<fork, net, index, data, failed, bestHeader, bestInvalid, known, asked>>
    BY DEF ActivateSnapshot
  <1>3. loading.file \in index /\ IsBlock(loading.file) /\ Work(loading.file) \in Nat
    BY <1>1, <1>2, BlockIs DEF PeerInv, IndexInv
  <1>4. base' # None
    BY <1>2, <1>3 DEF IsBlock
  <1>5. Work(tip') >= fork
    BY <1>1, <1>2, <1>3
  <1>6. IndexInv'
    BY <1>1, <1>2, <1>3, <1>5, IndexKept DEF IndexInv
  <1>7. VerdictConsistent'
    BY <1>1, <1>2, VerdictIs DEF VerdictConsistent
  <1>8. PeerInv'
    BY <1>1, <1>2, <1>4 DEF PeerInv
  <1> QED BY <1>6, <1>7, <1>8 DEF RecoveryInv

\* Blocks below and above a checkpoint lose the flag together: what keeps it has
\* no descendant without it.
LEMMA ClearedClosed ==
    ASSUME IndexInv, VerdictConsistent, NEW f \in index,
           NEW b \in failed \ Cleared(f), NEW c \in index, Descends(c, b)
    PROVE  c \in failed \ Cleared(f)
  <1>1. /\ fork \in Nat /\ IsBlock(f) /\ IsBlock(b) /\ IsBlock(c)
        /\ Work(f) \in Nat /\ Work(b) \in Nat
    BY BlockIs DEF IndexInv
  <1>2. c \in failed
    BY DEF VerdictConsistent
  <1>3. ~Descends(b, f) /\ ~Descends(f, b)
    BY DEF Cleared
  <1>4. ~Descends(f, c)
    BY <1>1, <1>3, DescendsTransitive
  <1>5. ~Descends(c, f)
    <2>1. Work(b) <= Work(f) \/ Work(f) <= Work(b)
      BY <1>1
    <2> QED BY <1>1, <1>3, <2>1, DescendsLinear
  <1> QED BY <1>2, <1>4, <1>5 DEF Cleared

\* The verdict on a checkpoint is taken back: from all blocks of its chain, and
\* from the records.
LEMMA CheckSnapshotStep ==
    ASSUME RecoveryInv, CheckSnapshot PROVE RecoveryInv'
  <1>1. IndexInv /\ PeerInv /\ VerdictConsistent /\ tip \in index /\ bestHeader \in index
    BY DEF RecoveryInv, IndexInv
  <1> DEFINE stuck == HasSustainedInvalidChainWithMoreWork
             clearedFor(f) == IF stuck /\ f \in index THEN Cleared(f) ELSE {}
  <1>2. /\ UNCHANGED <<fork, net, index, data, tip, base>> /\ known' = known /\ asked' = asked
        /\ \E f \in Heaviest(files) :
              /\ failed' = failed \ clearedFor(f)
              /\ bestInvalid' = InvalidAfter(clearedFor(f))
              /\ bestHeader' \in (IF stuck /\ f \in index THEN HeadersAfter(failed')
                                  ELSE {bestHeader})
              /\ \/ f \in index /\ loading' = [file |-> f, stuck |-> stuck]
                 \/ loading' = loading
    BY DEF CheckSnapshot, peer
  <1> HIDE DEF stuck
  <1>3. PICK f \in Heaviest(files) :
              /\ failed' = failed \ clearedFor(f)
              /\ bestInvalid' = InvalidAfter(clearedFor(f))
              /\ bestHeader' \in (IF stuck /\ f \in index THEN HeadersAfter(failed')
                                  ELSE {bestHeader})
              /\ \/ f \in index /\ loading' = [file |-> f, stuck |-> stuck]
                 \/ loading' = loading
    BY <1>2
  <1>4. loading' # None => loading'.file \in index
    BY <1>1, <1>3 DEF PeerInv
  <1>5. bestInvalid' # None => bestInvalid' \in failed'
    BY <1>1, <1>3 DEF InvalidAfter, VerdictConsistent
  <1>6. \A b \in failed', c \in index : Descends(c, b) => c \in failed'
    BY <1>1, <1>3, ClearedClosed DEF VerdictConsistent
  <1>7. bestHeader' \in index /\ \A b \in index \ failed' : Work(b) <= Work(bestHeader')
    <2>1. CASE stuck /\ f \in index
      BY <1>1, <1>3, <2>1 DEF HeadersAfter, BestHeaders, Heaviest
    <2>2. CASE ~(stuck /\ f \in index)
      BY <1>1, <1>3, <2>2 DEF VerdictConsistent
    <2> QED BY <2>1, <2>2
  <1>8. failed' \subseteq failed
    BY <1>3
  <1>9. IndexInv'
    BY <1>1, <1>2, <1>7, <1>8, IndexKept DEF IndexInv
  <1>10. VerdictConsistent'
    BY <1>2, <1>5, <1>6, <1>7, VerdictIs
  <1>11. PeerInv'
    BY <1>1, <1>2, <1>4, <1>8 DEF PeerInv
  <1> QED BY <1>9, <1>10, <1>11 DEF RecoveryInv

\* The blocks to connect for a candidate: above the fork with the tip's chain, and
\* none of them is an ancestor of the tip.
LEMMA PathIs ==
    ASSUME IndexInv, NEW c \in index, Work(tip) < Work(c), NEW b \in Path(c)
    PROVE  /\ IsBlock(b) /\ Work(b) \in Nat /\ b \in index
           /\ Descends(c, b) /\ ~Descends(tip, b)
  <1>1. /\ fork \in Nat /\ IsBlock(c) /\ IsBlock(tip) /\ Work(c) \in Nat /\ Work(tip) \in Nat
        /\ Work(tip) >= fork /\ Ancestor(tip, Work(tip)) = tip
        /\ tip = <<tip[1], Work(tip)>>
    BY BlockIs DEF IndexInv
  <1> DEFINE joins == Ancestor(c, Work(tip)) = tip
  <1>2. ForkHeight(c) = IF joins THEN Work(tip) ELSE fork
    BY <1>1 DEF ForkHeight
  <1>3. PICK h \in ForkHeight(c) + 1 .. Work(c) : b = Ancestor(c, h)
    BY DEF Path
  <1>4. ForkHeight(c) \in Nat /\ ForkHeight(c) >= fork
    BY <1>1, <1>2
  <1>5. h \in 0..Work(c) /\ h \in Nat /\ h > fork /\ h > ForkHeight(c)
    BY <1>1, <1>3, <1>4
  <1>6. IsBlock(b) /\ Work(b) = h /\ b = <<c[1], h>> /\ Descends(c, b) /\ b \in index
    BY <1>1, <1>3, <1>5, AncestorIs, DescendsFromAncestor DEF IndexInv
  <1>7. ~Descends(tip, b)
    <2> SUFFICES ASSUME Descends(tip, b) PROVE FALSE
      OBVIOUS
    <2>1. h <= Work(tip) /\ Ancestor(tip, h) = b
      BY <1>6 DEF Descends
    <2>2. ~joins
      BY <1>1, <1>2, <1>5, <2>1
    <2>3. Ancestor(tip, h) = <<tip[1], h>>
      BY <1>1, <1>5, <2>1, AncestorIs
    <2>4. tip[1] = c[1]
      BY <1>6, <2>1, <2>3
    <2>5. Ancestor(c, Work(tip)) = <<c[1], Work(tip)>>
      BY <1>1, <1>5, <2>1, AncestorIs
    <2> QED BY <1>1, <2>2, <2>4, <2>5
  <1> QED BY <1>5, <1>6, <1>7

\* A candidate is connected, or its first invalid block and all that is built on it
\* get the flag; the tip, which is not built on it, does not.
LEMMA BestChainStep ==
    ASSUME RecoveryInv, ActivateBestChain PROVE RecoveryInv'
  <1>1. /\ IndexInv /\ PeerInv /\ VerdictConsistent /\ fork \in Nat /\ tip \in index
        /\ bestHeader \in index /\ Work(tip) \in Nat /\ Work(tip) >= fork
    BY BlockIs DEF RecoveryInv, IndexInv
  <1> DEFINE bad(c) == {b \in Path(c) : Rejects(b)}
             first(c) == CHOOSE b \in bad(c) : \A d \in bad(c) : Work(b) <= Work(d)
  <1>2. /\ UNCHANGED <<fork, net, index, data, base, loading>> /\ known' = known /\ asked' = asked
        /\ \E c \in Heaviest(Candidates) :
              IF bad(c) = {}
              THEN tip' = c /\ UNCHANGED <<failed, bestHeader, bestInvalid>>
              ELSE /\ failed' = failed \cup {b \in index : Descends(b, first(c))}
                   /\ bestInvalid' = IF bestInvalid = None THEN c ELSE Improved(bestInvalid, c)
                   /\ bestHeader' \in (IF Descends(bestHeader, first(c)) THEN BestHeaders(failed')
                                       ELSE {bestHeader})
                   /\ tip' = tip
    BY DEF ActivateBestChain, peer
  <1>3. PICK c \in Heaviest(Candidates) :
              IF bad(c) = {}
              THEN tip' = c /\ UNCHANGED <<failed, bestHeader, bestInvalid>>
              ELSE /\ failed' = failed \cup {b \in index : Descends(b, first(c))}
                   /\ bestInvalid' = IF bestInvalid = None THEN c ELSE Improved(bestInvalid, c)
                   /\ bestHeader' \in (IF Descends(bestHeader, first(c)) THEN BestHeaders(failed')
                                       ELSE {bestHeader})
                   /\ tip' = tip
    BY <1>2
  <1>4. c \in index /\ c \notin failed /\ Work(tip) < Work(c) /\ IsBlock(c) /\ Work(c) \in Nat
    BY <1>1, <1>3, BlockIs DEF Heaviest, Candidates, IndexInv
  <1>5. CASE bad(c) = {}
    <2>1. tip' = c /\ UNCHANGED <<failed, bestHeader, bestInvalid>>
      BY <1>3, <1>5
    <2>2. Work(tip') >= fork
      BY <1>1, <1>4, <2>1
    <2>3. IndexInv'
      BY <1>1, <1>2, <1>4, <2>1, <2>2, IndexKept DEF IndexInv
    <2>4. VerdictConsistent'
      BY <1>1, <1>2, <2>1, VerdictIs DEF VerdictConsistent
    <2>5. PeerInv'
      BY <1>1, <1>2, <1>4, <2>1 DEF PeerInv
    <2> QED BY <2>3, <2>4, <2>5 DEF RecoveryInv
  <1>6. CASE bad(c) # {}
    <2>1. first(c) \in bad(c)
      <3> DEFINE W == {Work(b) : b \in bad(c)}
      <3>1. W \in SUBSET Nat /\ W # {}
        BY <1>1, <1>4, <1>6, PathIs
      <3>2. \E x \in W : \A y \in W : x <= y
        BY <3>1, LeastNatural
      <3>3. \E b \in bad(c) : \A d \in bad(c) : Work(b) <= Work(d)
        BY <3>2
      <3> QED BY <3>3
    <2> DEFINE a == first(c)
    <2>2. IsBlock(a) /\ a \in index /\ Descends(c, a) /\ ~Descends(tip, a)
      BY <1>1, <1>4, <2>1, PathIs
    <2>3. /\ failed' = failed \cup {b \in index : Descends(b, a)}
          /\ bestInvalid' = IF bestInvalid = None THEN c ELSE Improved(bestInvalid, c)
          /\ bestHeader' \in (IF Descends(bestHeader, a) THEN BestHeaders(failed')
                              ELSE {bestHeader})
          /\ tip' = tip
      BY <1>3, <1>6
    <2> HIDE DEF a
    <2>4. ASSUME NEW b \in failed', NEW x \in index, Descends(x, b) PROVE x \in failed'
      <3>1. CASE b \in failed
        BY <1>1, <2>3, <2>4, <3>1 DEF VerdictConsistent
      <3>2. CASE b \in index /\ Descends(b, a)
        <4>1. IsBlock(b) /\ IsBlock(x)
          BY <1>1, <3>2 DEF IndexInv
        <4>2. Descends(x, a)
          BY <1>1, <2>2, <2>4, <3>2, <4>1, DescendsTransitive
        <4> QED BY <2>3, <4>2
      <3> QED BY <2>3, <2>4, <3>1, <3>2
    <2>5. bestInvalid' # None => bestInvalid' \in failed'
      BY <1>1, <1>4, <2>2, <2>3 DEF VerdictConsistent, Improved
    <2>6. bestHeader' \in index /\ \A b \in index \ failed' : Work(b) <= Work(bestHeader')
      <3>1. CASE Descends(bestHeader, a)
        BY <1>1, <2>3, <3>1 DEF BestHeaders, Heaviest
      <3>2. CASE ~Descends(bestHeader, a)
        BY <1>1, <2>3, <3>2 DEF VerdictConsistent
      <3> QED BY <3>1, <3>2
    <2>7. failed' \subseteq index
      BY <1>1, <2>3 DEF IndexInv
    <2>8. IndexInv'
      BY <1>1, <1>2, <2>3, <2>6, <2>7, IndexKept DEF IndexInv
    <2>9. VerdictConsistent'
      BY <1>2, <2>4, <2>5, <2>6, VerdictIs
    <2>10. PeerInv'
      BY <1>1, <1>2, <2>2, <2>3 DEF PeerInv
    <2> QED BY <2>8, <2>9, <2>10 DEF RecoveryInv
  <1> QED BY <1>5, <1>6

-----------------------------------------------------------------------------
(* The theorem.                                                            *)

\* Every step keeps the invariant.
LEMMA RecoveryNext ==
    ASSUME RecoveryInv, None \notin {"main", "own"} \X Nat, [Next]_vars PROVE RecoveryInv'
  <1>1. CASE UNCHANGED vars
    <2>1. /\ net' = net /\ UNCHANGED <<fork, blocks>> /\ known' = known /\ asked' = asked
          /\ loading' = loading
      BY <1>1 DEF vars, peer, task
    <2> QED BY <2>1, Framed DEF RecoveryInv, IndexInv, PeerInv
  <1>2. CASE Blocks
    BY <1>2, BlockStep DEF Blocks
  <1>3. CASE HeaderSync
    BY <1>3, FrameStep, HeadersStep DEF HeaderSync
  <1>4. CASE Snapshots
    BY <1>4, FrameStep, CheckSnapshotStep, ActivateSnapshotStep DEF Snapshots
  <1> QED BY <1>1, <1>2, <1>3, <1>4, BestChainStep, OwnStep, FrameStep, RestartStep DEF Next

\* For every fork, every length of the network's chain and of the node's branch and
\* any number of restarts and lost connections, the records of a verdict agree:
\* what is built on an invalid block is invalid, no other header is heavier than
\* the best one, and the best invalid block is one the node still rejects
\* (InvalidChainFound, ResetBlockFailureFlags, RecalculateBestHeader,
\* LoadBlockIndex).
THEOREM VerdictAlwaysConsistent ==
    ASSUME Forks \subseteq Nat, None \notin {"main", "own"} \X Nat
    PROVE  Spec => []VerdictConsistent
  <1>1. Init => RecoveryInv
    BY RecoveryInit
  <1>2. RecoveryInv /\ [Next]_vars => RecoveryInv'
    BY RecoveryNext
  <1>3. RecoveryInv => VerdictConsistent
    BY DEF RecoveryInv
  <1> QED BY <1>1, <1>2, <1>3, PTL DEF Spec
=============================================================================
