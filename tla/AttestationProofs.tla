-------------------------- MODULE AttestationProofs --------------------------
(***************************************************************************)
(* Theorems about BlockAttestation, for every number of coins, transactions *)
(* and blocks, every activation height and every fee.                      *)
(***************************************************************************)
EXTENDS BlockAttestation, SequenceTheorems, WellFoundedInduction, TLAPS

-----------------------------------------------------------------------------
(* Numbers and loops.                                                       *)

\* A set of natural numbers that is not empty has a least element.
LEMMA LeastNumber ==
    ASSUME NEW S \in SUBSET Nat, S # {} PROVE \E x \in S : \A y \in S : x <= y
<1> DEFINE R == OpToRel(<, Nat)
<1>1. IsWellFoundedOn(R, Nat)
  BY NatLessThanWellFounded
<1> HIDE DEF R
<1>2. PICK x \in S : \A y \in S : ~ (<<y, x>> \in R)
  BY <1>1, WFMin
<1>3. \A y \in Nat : y < x => <<y, x>> \in R
  BY DEF R, OpToRel
<1>4. \A y \in S : ~(y < x)
  BY <1>2, <1>3
<1>5. \A y \in S : x <= y
  BY <1>4
<1> QED BY <1>5

\* What holds before a loop and is kept by each of its turns holds after it.
LEMMA LoopInduction ==
    ASSUME NEW n \in Nat, NEW S, 0 \in S, \A i \in 1..n : i - 1 \in S => i \in S
    PROVE  0..n \subseteq S
<1> SUFFICES ASSUME (0..n) \ S # {} PROVE FALSE
  OBVIOUS
<1> DEFINE W == (0..n) \ S
<1>1. W \in SUBSET Nat /\ W # {}
  OBVIOUS
<1> HIDE DEF W
<1>2. PICK x \in W : \A y \in W : x <= y
  BY <1>1, LeastNumber, Zenon
<1>3. x \in 1..n /\ x \notin S
  BY <1>2 DEF W
<1>4. x - 1 \in S
  BY <1>2, <1>3 DEF W
<1> QED BY <1>3, <1>4

-----------------------------------------------------------------------------
(* The transactions of a block one after the other.                         *)

\* What the first i transactions make and spend, whether each of them finds its
\* inputs in V or among the outputs before it, and what is there after them.
Outs(txs, i)       == {TxOut(txs[j]) : j \in 1..i}
Ins(txs, i)        == UNION {txs[j].ins : j \in 1..i}
Ordered(V, txs, i) == \A j \in 1..i : txs[j].ins \subseteq V \cup Outs(txs, j - 1)
After(V, txs, i)   == (V \cup Outs(txs, i)) \ Ins(txs, i)

\* Different transactions that spend different coins and make new ones.
Fresh(V, txs) ==
    /\ V \in SUBSET Outpoints /\ txs \in Seq(Tx)
    /\ \A i \in 1..Len(txs) : TxOut(txs[i]) \notin V
    /\ \A i, j \in 1..Len(txs) : i # j =>
           /\ TxOut(txs[i]) # TxOut(txs[j])
           /\ txs[i].ins \cap txs[j].ins = {}

\* One transaction, in terms of what is there before and after it.
LEMMA AfterStep ==
    ASSUME NEW V, NEW txs, Fresh(V, txs), NEW i \in 1..Len(txs), Ordered(V, txs, i - 1)
    PROVE  /\ txs[i].ins \subseteq After(V, txs, i - 1) <=> Ordered(V, txs, i)
           /\ Ordered(V, txs, i) =>
                 /\ TxOut(txs[i]) \notin After(V, txs, i - 1) \ txs[i].ins
                 /\ (After(V, txs, i - 1) \ txs[i].ins) \cup {TxOut(txs[i])}
                        = After(V, txs, i)
<1>0. Len(txs) \in Nat /\ i \in Nat /\ i - 1 \in Nat
  BY LenProperties DEF Fresh
<1>1. 1..i = (1..i-1) \cup {i} /\ i \notin 1..i-1 /\ 1..i-1 \subseteq 1..Len(txs)
  BY <1>0
<1>2. Outs(txs, i) = Outs(txs, i-1) \cup {TxOut(txs[i])} /\ Ins(txs, i) = Ins(txs, i-1) \cup txs[i].ins
  BY <1>1 DEF Outs, Ins
<1>3. txs[i].ins \cap Ins(txs, i-1) = {}
  BY <1>1 DEF Fresh, Ins
<1>4. TxOut(txs[i]) \notin V \cup Outs(txs, i-1)
  BY <1>1 DEF Fresh, Outs
<1>5. Ins(txs, i-1) \subseteq V \cup Outs(txs, i-1)
  <2> SUFFICES ASSUME NEW j \in 1..i-1 PROVE txs[j].ins \subseteq V \cup Outs(txs, i-1)
    BY DEF Ins
  <2>1. Outs(txs, j-1) \subseteq Outs(txs, i-1)
    <3>1. 1..j-1 \subseteq 1..i-1
      BY <1>0
    <3> QED BY <3>1 DEF Outs
  <2> QED BY <2>1 DEF Ordered
<1>6. Ordered(V, txs, i) <=> txs[i].ins \subseteq V \cup Outs(txs, i-1)
  BY <1>1 DEF Ordered
<1>7. txs[i].ins \subseteq After(V, txs, i - 1) <=> Ordered(V, txs, i)
  BY <1>3, <1>6 DEF After
<1>8. TxOut(txs[i]) \notin After(V, txs, i - 1)
  BY <1>4 DEF After
<1>9. ASSUME Ordered(V, txs, i)
      PROVE  (After(V, txs, i - 1) \ txs[i].ins) \cup {TxOut(txs[i])} = After(V, txs, i)
  <2>1. TxOut(txs[i]) \notin Ins(txs, i)
    BY <1>2, <1>4, <1>5, <1>6, <1>9
  <2> QED BY <1>2, <2>1 DEF After
<1> QED BY <1>7, <1>8, <1>9

\* f gives the coins after each turn of a loop that applies UpdateCoins.
ReplayTurns(f, V, txs, n) ==
    f = [i \in 0..n |-> IF i = 0 THEN V ELSE UpdateCoins(f[i-1], txs[i])]

\* A loop over the transactions that applies UpdateCoins has a function of turns.
LEMMA ReplayedExists ==
    ASSUME NEW V, NEW txs, NEW n \in Nat PROVE \E f : ReplayTurns(f, V, txs, n)
<1> DEFINE Has(m) == \E f : f = [i \in 0..m |-> IF i = 0 THEN V ELSE UpdateCoins(f[i-1], txs[i])]
           S == {m \in 0..n : Has(m)}
<1>1. 0 \in S
  <2> DEFINE g == [i \in 0..0 |-> V]
  <2>1. g = [i \in 0..0 |-> IF i = 0 THEN V ELSE UpdateCoins(g[i-1], txs[i])]
    OBVIOUS
  <2> HIDE DEF g
  <2>2. Has(0)
    BY <2>1
  <2> QED BY <2>2
<1>2. ASSUME NEW m \in 1..n, m - 1 \in S PROVE m \in S
  <2>1. PICK f : f = [i \in 0..m-1 |-> IF i = 0 THEN V ELSE UpdateCoins(f[i-1], txs[i])]
    BY <1>2
  <2> DEFINE g == [i \in 0..m |-> IF i = m THEN UpdateCoins(f[m-1], txs[m]) ELSE f[i]]
  <2>2. \A i \in 0..m : g[i] = IF i = 0 THEN V ELSE UpdateCoins(g[i-1], txs[i])
    BY <2>1
  <2>3. g = [i \in 0..m |-> IF i = 0 THEN V ELSE UpdateCoins(g[i-1], txs[i])]
    BY <2>2
  <2> HIDE DEF g
  <2>4. Has(m)
    BY <2>3
  <2> QED BY <2>4
<1> HIDE DEF S
<1>3. 0..n \subseteq S
  BY <1>1, <1>2, LoopInduction
<1>4. Has(n)
  BY <1>3 DEF S
<1> QED BY <1>4 DEF ReplayTurns

\* Replaying a block on V: its coins, or nothing once an input is missing.
LEMMA ReplayedIs ==
    ASSUME ConstantsFit, NEW V, NEW txs, Fresh(V, txs)
    PROVE  /\ Ordered(V, txs, Len(txs)) =>
                 Replayed(V, txs) = After(V, txs, Len(txs)) /\ Replayed(V, txs) # None
           /\ ~ Ordered(V, txs, Len(txs)) => Replayed(V, txs) = None
<1> DEFINE n == Len(txs)
           f == CHOOSE g : g = [i \in 0..n |-> IF i = 0 THEN V ELSE UpdateCoins(g[i-1], txs[i])]
<1>0. n \in Nat
  BY LenProperties DEF Fresh
<1>1. f = [i \in 0..n |-> IF i = 0 THEN V ELSE UpdateCoins(f[i-1], txs[i])]
  <2> HIDE DEF n
  <2>1. \E g : g = [i \in 0..n |-> IF i = 0 THEN V ELSE UpdateCoins(g[i-1], txs[i])]
    <3> HIDE DEF f
    <3>1. \E g : ReplayTurns(g, V, txs, n)
      BY <1>0, ReplayedExists, Zenon
    <3> QED BY <3>1 DEF ReplayTurns
  <2> QED BY <2>1
<1>2. Replayed(V, txs) = f[n]
  BY DEF Replayed
<1> HIDE DEF f
<1> DEFINE S == {i \in 0..n : f[i] = IF Ordered(V, txs, i) THEN After(V, txs, i) ELSE None}
<1>3. 0 \in S
  BY <1>0, <1>1 DEF Ordered, After, Outs, Ins
<1>4. ASSUME NEW V_, V_ = V, NEW i \in 0..n PROVE After(V, txs, i) \in SUBSET Outpoints
  <2>1. 1..i \subseteq 1..n /\ \A j \in 1..n : txs[j] \in Tx
    BY <1>0, ElementOfSeq DEF Fresh
  <2>2. \A j \in 1..n : TxOut(txs[j]) \in Outpoints
    BY <2>1 DEF Tx, TxOut, Outpoints
  <2> QED BY <2>1, <2>2 DEF After, Outs, Fresh
<1>5. ASSUME NEW i \in 1..n, i - 1 \in S PROVE i \in S
  <2>1. f[i] = UpdateCoins(f[i-1], txs[i]) /\ i \in 0..n /\ i - 1 \in 0..n
    BY <1>0, <1>1
  <2>2. f[i-1] = IF Ordered(V, txs, i-1) THEN After(V, txs, i-1) ELSE None
    BY <1>5
  <2>3. CASE ~ Ordered(V, txs, i-1)
    <3>1. ~ Ordered(V, txs, i)
      BY <1>0, <2>3 DEF Ordered
    <3> QED BY <2>1, <2>2, <2>3, <3>1 DEF UpdateCoins
  <2>4. CASE Ordered(V, txs, i-1)
    <3>1. f[i-1] = After(V, txs, i-1) /\ f[i-1] # None
      BY <1>4, <2>1, <2>2, <2>4 DEF ConstantsFit
    <3>2. /\ txs[i].ins \subseteq After(V, txs, i - 1) <=> Ordered(V, txs, i)
          /\ Ordered(V, txs, i) =>
                 (After(V, txs, i - 1) \ txs[i].ins) \cup {TxOut(txs[i])} = After(V, txs, i)
      BY <2>4, AfterStep
    <3>3. f[i] = IF txs[i].ins \subseteq After(V, txs, i - 1)
                 THEN (After(V, txs, i - 1) \ txs[i].ins) \cup {TxOut(txs[i])} ELSE None
      BY <2>1, <3>1, Zenon DEF UpdateCoins
    <3>4. f[i] = IF Ordered(V, txs, i) THEN After(V, txs, i) ELSE None
      BY <3>2, <3>3
    <3> QED BY <2>1, <3>4
  <2> QED BY <2>3, <2>4
<1> HIDE DEF S
<1> HIDE DEF n
<1>6. 0..n \subseteq S
  BY <1>0, <1>3, <1>5, LoopInduction
<1>7. f[n] = IF Ordered(V, txs, n) THEN After(V, txs, n) ELSE None
  BY <1>0, <1>6 DEF S
<1>8. After(V, txs, n) # None
  BY <1>0, <1>4 DEF ConstantsFit
<1> QED BY <1>2, <1>7, <1>8 DEF n

-----------------------------------------------------------------------------
(* The accumulators.                                                        *)

\* One more coin in the accumulator of a set of coins.
LEMMA AccumulatorStart ==
    ASSUME NEW S \in SUBSET Outpoints, NEW c \in Outpoints \ S
    PROVE  AddCoin(OfSet(S), c) = OfSet(S \cup {c})
<1>1. AddCoin(OfSet(S), c) = [x \in Outpoints |-> IF x = c THEN OfSet(S)[c] + 1 ELSE OfSet(S)[x]]
  BY DEF AddCoin, OfSet
<1>2. \A x \in Outpoints : OfSet(S)[x] = IF x \in S THEN 1 ELSE 0
  BY DEF OfSet
<1>3. \A x \in Outpoints : (IF x = c THEN OfSet(S)[c] + 1 ELSE OfSet(S)[x])
                              = IF x \in S \cup {c} THEN 1 ELSE 0
  BY <1>2
<1> QED BY <1>1, <1>3 DEF OfSet

\* One transaction in the accumulator of a set of coins.
LEMMA AccumulatorStep ==
    ASSUME NEW S \in SUBSET Outpoints, NEW I, I \subseteq S, NEW c \in Outpoints, c \notin S \ I
    PROVE  AddCoin(RemoveCoins(OfSet(S), I), c) = OfSet((S \ I) \cup {c})
<1>1. RemoveCoins(OfSet(S), I) = OfSet(S \ I)
  BY DEF RemoveCoins, OfSet
<1> QED BY <1>1, AccumulatorStart

\* What is there after i transactions are outpoints.
LEMMA AfterType ==
    ASSUME NEW V, NEW txs, Fresh(V, txs), NEW i \in 0..Len(txs)
    PROVE  /\ After(V, txs, i) \in SUBSET Outpoints
           /\ \A j \in 1..Len(txs) : TxOut(txs[j]) \in Outpoints /\ txs[j] \in Tx
<1>0. Len(txs) \in Nat
  BY LenProperties DEF Fresh
<1>1. 1..i \subseteq 1..Len(txs) /\ \A j \in 1..Len(txs) : txs[j] \in Tx
  BY <1>0, ElementOfSeq DEF Fresh
<1>2. \A j \in 1..Len(txs) : TxOut(txs[j]) \in Outpoints
  BY <1>1 DEF Tx, TxOut, Outpoints
<1> QED BY <1>1, <1>2 DEF After, Outs, Fresh

\* One transaction in the accumulator of what is there before it.
LEMMA AccumulatorAfter ==
    ASSUME NEW V, NEW txs, Fresh(V, txs), NEW i \in 1..Len(txs),
           Ordered(V, txs, i - 1), Ordered(V, txs, i)
    PROVE  Applied(OfSet(After(V, txs, i - 1)), txs[i]) = OfSet(After(V, txs, i))
<1>0. Len(txs) \in Nat
  BY LenProperties DEF Fresh
<1>1. After(V, txs, i - 1) \in SUBSET Outpoints /\ TxOut(txs[i]) \in Outpoints
  BY <1>0, AfterType
<1>2. /\ txs[i].ins \subseteq After(V, txs, i - 1)
      /\ TxOut(txs[i]) \notin After(V, txs, i - 1) \ txs[i].ins
      /\ (After(V, txs, i - 1) \ txs[i].ins) \cup {TxOut(txs[i])} = After(V, txs, i)
  BY AfterStep
<1> QED BY <1>1, <1>2, AccumulatorStep DEF Applied

\* An order that holds for i transactions holds for fewer.
LEMMA OrderedBefore ==
    ASSUME NEW V, NEW txs, NEW n \in Nat, Ordered(V, txs, n), NEW i \in 0..n
    PROVE  Ordered(V, txs, i)
BY DEF Ordered

\* f gives the accumulator after each turn of the loop of the commit.
CommitTurns(f, a, txs, n) ==
    f = [i \in 0..n |-> IF i = 0 THEN a ELSE Applied(f[i-1], txs[i])]

\* The loop of the commit has a function of turns.
LEMMA CommittedExists ==
    ASSUME NEW a, NEW txs, NEW n \in Nat
    PROVE  \E f : CommitTurns(f, a, txs, n)
<1> DEFINE Has(m) == \E f : f = [i \in 0..m |-> IF i = 0 THEN a ELSE Applied(f[i-1], txs[i])]
           S == {m \in 0..n : Has(m)}
<1>1. 0 \in S
  <2> DEFINE g == [i \in 0..0 |-> a]
  <2>1. g = [i \in 0..0 |-> IF i = 0 THEN a ELSE Applied(g[i-1], txs[i])]
    OBVIOUS
  <2> HIDE DEF g
  <2>2. Has(0)
    BY <2>1
  <2> QED BY <2>2
<1>2. ASSUME NEW m \in 1..n, m - 1 \in S PROVE m \in S
  <2>1. PICK f : f = [i \in 0..m-1 |-> IF i = 0 THEN a ELSE Applied(f[i-1], txs[i])]
    BY <1>2
  <2> DEFINE g == [i \in 0..m |-> IF i = m THEN Applied(f[m-1], txs[m]) ELSE f[i]]
  <2>2. \A i \in 0..m : g[i] = IF i = 0 THEN a ELSE Applied(g[i-1], txs[i])
    BY <2>1
  <2>3. g = [i \in 0..m |-> IF i = 0 THEN a ELSE Applied(g[i-1], txs[i])]
    BY <2>2
  <2> HIDE DEF g
  <2>4. Has(m)
    BY <2>3
  <2> QED BY <2>4
<1> HIDE DEF S
<1>3. 0..n \subseteq S
  BY <1>1, <1>2, LoopInduction
<1>4. Has(n)
  BY <1>3 DEF S
<1> QED BY <1>4 DEF CommitTurns

\* What the commit at the end of ConnectBlock makes of the accumulator.
LEMMA CommittedIs ==
    ASSUME NEW txs, Fresh(coins \cup {Coinbase(height + 1)}, txs), muhash = OfSet(coins),
           Coinbase(height + 1) \in Outpoints \ coins,
           Ordered(coins \cup {Coinbase(height + 1)}, txs, Len(txs))
    PROVE  Committed(txs) = OfSet(After(coins \cup {Coinbase(height + 1)}, txs, Len(txs)))
<1> DEFINE n == Len(txs)
           V == coins \cup {Coinbase(height + 1)}
           a == AddCoin(muhash, Coinbase(height + 1))
           f == CHOOSE g : g = [i \in 0..n |-> IF i = 0 THEN a ELSE Applied(g[i-1], txs[i])]
<1>0. n \in Nat
  BY LenProperties DEF Fresh
<1>1. f = [i \in 0..n |-> IF i = 0 THEN a ELSE Applied(f[i-1], txs[i])]
  <2> HIDE DEF a, n
  <2>1. \E g : g = [i \in 0..n |-> IF i = 0 THEN a ELSE Applied(g[i-1], txs[i])]
    <3> HIDE DEF f
    <3>1. \E g : CommitTurns(g, a, txs, n)
      BY <1>0, CommittedExists, Zenon
    <3> QED BY <3>1 DEF CommitTurns
  <2> QED BY <2>1
<1>2. Committed(txs) = f[n]
  BY DEF Committed
<1>3. a = OfSet(V)
  BY AccumulatorStart DEF Fresh
<1> HIDE DEF f, a
<1>4. V = After(V, txs, 0)
  BY DEF After, Outs, Ins
<1>5. Fresh(V, txs) /\ Ordered(V, txs, n)
  OBVIOUS
<1> HIDE DEF V
<1> DEFINE S == {i \in 0..n : f[i] = OfSet(After(V, txs, i))}
<1>6. 0 \in S
  BY <1>0, <1>1, <1>3, <1>4
<1>7. ASSUME NEW i \in 1..n, i - 1 \in S PROVE i \in S
  <2>1. i \in 0..n /\ i - 1 \in 0..n
    BY <1>0
  <2>2. Ordered(V, txs, i) /\ Ordered(V, txs, i - 1)
    BY <1>0, <1>5, <2>1, OrderedBefore
  <2>3. f[i] = Applied(f[i-1], txs[i])
    BY <1>1, <2>1
  <2>4. f[i-1] = OfSet(After(V, txs, i - 1))
    BY <1>7
  <2>5. f[i] = OfSet(After(V, txs, i))
    BY <1>5, <2>2, <2>3, <2>4, AccumulatorAfter
  <2> QED BY <2>1, <2>5
<1> HIDE DEF S, n
<1>8. 0..n \subseteq S
  BY <1>0, <1>6, <1>7, LoopInduction
<1>9. f[n] = OfSet(After(V, txs, n))
  BY <1>0, <1>8 DEF S
<1> QED BY <1>2, <1>9 DEF n, V

-----------------------------------------------------------------------------
(* The attestation.                                                         *)

\* f gives the state after each turn of the loop of the incremental path.
IncrementalTurns(f, a, fix, txs, n) ==
    f = [i \in 0..n |-> IF i = 0 THEN a ELSE Incremental(fix, f[i-1], txs[i])]

\* The loop of the incremental path has a function of turns.
LEMMA IncrementalExists ==
    ASSUME NEW a, NEW fix, NEW txs, NEW n \in Nat
    PROVE  \E f : IncrementalTurns(f, a, fix, txs, n)
<1> DEFINE Has(m) == \E f : f = [i \in 0..m |-> IF i = 0 THEN a ELSE Incremental(fix, f[i-1], txs[i])]
           S == {m \in 0..n : Has(m)}
<1>1. 0 \in S
  <2> DEFINE g == [i \in 0..0 |-> a]
  <2>1. g = [i \in 0..0 |-> IF i = 0 THEN a ELSE Incremental(fix, g[i-1], txs[i])]
    OBVIOUS
  <2> HIDE DEF g
  <2>2. Has(0)
    BY <2>1
  <2> QED BY <2>2
<1>2. ASSUME NEW m \in 1..n, m - 1 \in S PROVE m \in S
  <2>1. PICK f : f = [i \in 0..m-1 |-> IF i = 0 THEN a ELSE Incremental(fix, f[i-1], txs[i])]
    BY <1>2
  <2> DEFINE g == [i \in 0..m |-> IF i = m THEN Incremental(fix, f[m-1], txs[m]) ELSE f[i]]
  <2>2. \A i \in 0..m : g[i] = IF i = 0 THEN a ELSE Incremental(fix, g[i-1], txs[i])
    BY <2>1
  <2>3. g = [i \in 0..m |-> IF i = 0 THEN a ELSE Incremental(fix, g[i-1], txs[i])]
    BY <2>2
  <2> HIDE DEF g
  <2>4. Has(m)
    BY <2>3
  <2> QED BY <2>4
<1> HIDE DEF S
<1>3. 0..n \subseteq S
  BY <1>1, <1>2, LoopInduction
<1>4. Has(n)
  BY <1>3 DEF S
<1> QED BY <1>4 DEF IncrementalTurns

\* Whether the incremental path finds the inputs of the first i transactions.
\* Before the fix it looks only at the coins W of the tip.
Found(fix, W, V, txs, i) ==
    IF fix THEN Ordered(V, txs, i) ELSE \A j \in 1..i : txs[j].ins \subseteq W

\* The clone of the accumulator and the lookup view after i transactions.
IncrementalState(fix, W, V, txs, i) ==
    [acc |-> OfSet(After(V, txs, i)), view |-> IF fix THEN After(V, txs, i) ELSE W]

\* What is found before the fix would also be found after it.
LEMMA FoundIsOrdered ==
    ASSUME NEW fix \in BOOLEAN, NEW V, NEW W \in SUBSET V, NEW txs, NEW n \in Nat,
           Found(fix, W, V, txs, n)
    PROVE  Ordered(V, txs, n)
BY DEF Found, Ordered

\* One transaction of the incremental path.
LEMMA IncrementalStep ==
    ASSUME ConstantsFit, NEW fix \in BOOLEAN, NEW V, NEW W \in SUBSET V, NEW txs, Fresh(V, txs),
           NEW i \in 1..Len(txs), NEW state,
           state = IF Found(fix, W, V, txs, i - 1) THEN IncrementalState(fix, W, V, txs, i - 1)
                   ELSE None
    PROVE  Incremental(fix, state, txs[i]) =
               IF Found(fix, W, V, txs, i) THEN IncrementalState(fix, W, V, txs, i) ELSE None
<1>0. Len(txs) \in Nat /\ i - 1 \in 0..Len(txs) /\ i \in 0..Len(txs) /\ i \in Nat /\ i - 1 \in Nat
  BY LenProperties DEF Fresh
<1>1. 1..i = (1..i-1) \cup {i}
  BY <1>0
<1>2. CASE ~ Found(fix, W, V, txs, i - 1)
  <2>1. ~ Found(fix, W, V, txs, i)
    BY <1>1, <1>2 DEF Found, Ordered
  <2> QED BY <1>2, <2>1 DEF Incremental
<1>3. CASE Found(fix, W, V, txs, i - 1)
  <2>1. Ordered(V, txs, i - 1)
    BY <1>0, <1>3, FoundIsOrdered
  <2>2. /\ txs[i].ins \subseteq After(V, txs, i - 1) <=> Ordered(V, txs, i)
        /\ Ordered(V, txs, i) =>
               (After(V, txs, i - 1) \ txs[i].ins) \cup {TxOut(txs[i])} = After(V, txs, i)
    BY <2>1, AfterStep
  <2>3. state = IncrementalState(fix, W, V, txs, i - 1)
    BY <1>3
  <2>4. /\ state.acc = OfSet(After(V, txs, i - 1))
        /\ state.view = IF fix THEN After(V, txs, i - 1) ELSE W
    BY <2>3 DEF IncrementalState
  <2>5. state # None
    <3>1. After(V, txs, i - 1) \in SUBSET Outpoints /\ W \in SUBSET Outpoints
      BY <1>0, AfterType DEF Fresh
    <3>2. OfSet(After(V, txs, i - 1)) \in [Outpoints -> Int]
      BY DEF OfSet
    <3>3. state \in [acc : [Outpoints -> Int], view : SUBSET Outpoints]
      BY <2>3, <3>1, <3>2 DEF IncrementalState
    <3> QED BY <3>3 DEF ConstantsFit
  <2>6. txs[i].ins \subseteq state.view <=> Found(fix, W, V, txs, i)
    <3>1. CASE fix
      BY <2>2, <2>4, <3>1 DEF Found
    <3>2. CASE ~ fix
      BY <1>1, <1>3, <2>4, <3>2 DEF Found
    <3> QED BY <3>1, <3>2
  <2>7. CASE ~ Found(fix, W, V, txs, i)
    BY <2>6, <2>7 DEF Incremental
  <2>8. CASE Found(fix, W, V, txs, i)
    <3>1. Ordered(V, txs, i)
      BY <1>0, <2>8, FoundIsOrdered
    <3>2. Applied(state.acc, txs[i]) = OfSet(After(V, txs, i))
      BY <2>1, <2>4, <3>1, AccumulatorAfter
    <3>3. (IF fix THEN (state.view \ txs[i].ins) \cup {TxOut(txs[i])} ELSE state.view)
              = IF fix THEN After(V, txs, i) ELSE W
      BY <2>2, <2>4, <3>1
    <3>4. Incremental(fix, state, txs[i]) =
              [acc  |-> Applied(state.acc, txs[i]),
               view |-> IF fix THEN (state.view \ txs[i].ins) \cup {TxOut(txs[i])} ELSE state.view]
      BY <2>5, <2>6, <2>8, Zenon DEF Incremental
    <3>5. Incremental(fix, state, txs[i]) = IncrementalState(fix, W, V, txs, i)
      BY <3>2, <3>3, <3>4, Zenon DEF IncrementalState
    <3> QED BY <2>8, <3>5
  <2> QED BY <2>7, <2>8
<1> QED BY <1>2, <1>3

\* The hash of the incremental path.
LEMMA MuHashedIs ==
    ASSUME ConstantsFit, NEW h, NEW txs, Fresh(coins \cup {Stripped(h)}, txs),
           muhash = OfSet(coins), Stripped(h) \in Outpoints \ coins
    PROVE  LET fix == IsIntraBlockAttestationFixActive(h)
               V   == coins \cup {Stripped(h)}
               n   == Len(txs)
           IN  /\ Found(fix, coins, V, txs, n) =>
                     /\ MuHashed(h, txs) = <<"muhash", OfSet(After(V, txs, n))>>
                     /\ MuHashed(h, txs) # None
               /\ ~ Found(fix, coins, V, txs, n) => MuHashed(h, txs) = None
<1> DEFINE fix == IsIntraBlockAttestationFixActive(h)
           V == coins \cup {Stripped(h)}
           n == Len(txs)
           start == [acc |-> AddCoin(muhash, Stripped(h)), view |-> IF fix THEN V ELSE coins]
           f == CHOOSE g : g = [i \in 0..n |-> IF i = 0 THEN start
                                               ELSE Incremental(fix, g[i-1], txs[i])]
<1>0. n \in Nat /\ fix \in BOOLEAN /\ coins \in SUBSET V /\ Fresh(V, txs)
  BY LenProperties DEF Fresh, IsIntraBlockAttestationFixActive
<1>1. f = [i \in 0..n |-> IF i = 0 THEN start ELSE Incremental(fix, f[i-1], txs[i])]
  <2> HIDE DEF start, n, fix
  <2>1. \E g : g = [i \in 0..n |-> IF i = 0 THEN start ELSE Incremental(fix, g[i-1], txs[i])]
    <3> HIDE DEF f
    <3>1. \E g : IncrementalTurns(g, start, fix, txs, n)
      BY <1>0, IncrementalExists, Zenon
    <3> QED BY <3>1 DEF IncrementalTurns
  <2> QED BY <2>1
<1>2. MuHashed(h, txs) = IF f[n] = None THEN None ELSE <<"muhash", f[n].acc>>
  BY DEF MuHashed
<1>3. start = IncrementalState(fix, coins, V, txs, 0)
  <2>1. AddCoin(muhash, Stripped(h)) = OfSet(V)
    BY AccumulatorStart DEF Fresh
  <2>2. After(V, txs, 0) = V
    BY DEF After, Outs, Ins
  <2> HIDE DEF fix, V
  <2> QED BY <2>1, <2>2 DEF IncrementalState
<1>4. Found(fix, coins, V, txs, 0)
  BY DEF Found, Ordered
<1> HIDE DEF f, start, fix, V, n
<1> DEFINE S == {i \in 0..n : f[i] = IF Found(fix, coins, V, txs, i)
                                     THEN IncrementalState(fix, coins, V, txs, i) ELSE None}
<1>5. 0 \in S
  BY <1>0, <1>1, <1>3, <1>4
<1>6. ASSUME NEW i \in 1..n, i - 1 \in S PROVE i \in S
  <2>1. i \in 0..n
    BY <1>0
  <2>2. f[i] = Incremental(fix, f[i-1], txs[i])
    BY <1>0, <1>1
  <2>3. f[i-1] = IF Found(fix, coins, V, txs, i-1)
                 THEN IncrementalState(fix, coins, V, txs, i-1) ELSE None
    BY <1>6
  <2>4. Incremental(fix, f[i-1], txs[i]) =
            IF Found(fix, coins, V, txs, i) THEN IncrementalState(fix, coins, V, txs, i) ELSE None
    BY <1>0, <2>3, IncrementalStep DEF n
  <2> QED BY <2>1, <2>2, <2>4
<1> HIDE DEF S
<1>7. 0..n \subseteq S
  BY <1>0, <1>5, <1>6, LoopInduction
<1>8. f[n] = IF Found(fix, coins, V, txs, n) THEN IncrementalState(fix, coins, V, txs, n) ELSE None
  BY <1>0, <1>7 DEF S
<1>9. OfSet(After(V, txs, n)) \in [Outpoints -> Int] /\ After(V, txs, n) \in SUBSET Outpoints
  BY <1>0, AfterType DEF OfSet, n
<1>10. ASSUME Found(fix, coins, V, txs, n)
       PROVE  /\ MuHashed(h, txs) = <<"muhash", OfSet(After(V, txs, n))>>
              /\ MuHashed(h, txs) # None
  <2>1. f[n] = IncrementalState(fix, coins, V, txs, n)
    BY <1>8, <1>10
  <2>2. f[n].acc = OfSet(After(V, txs, n))
    BY <2>1 DEF IncrementalState
  <2>3. f[n] # None
    <3>1. coins \in SUBSET Outpoints
      BY <1>0 DEF Fresh
    <3>2. f[n] \in [acc : [Outpoints -> Int], view : SUBSET Outpoints]
      BY <1>9, <2>1, <3>1 DEF IncrementalState
    <3> QED BY <3>2 DEF ConstantsFit
  <2>4. MuHashed(h, txs) = <<"muhash", OfSet(After(V, txs, n))>>
    BY <1>2, <2>2, <2>3
  <2>5. <<"muhash", OfSet(After(V, txs, n))>> \in {"muhash"} \X [Outpoints -> Int]
    BY <1>9
  <2> QED BY <2>4, <2>5 DEF ConstantsFit
<1>11. ASSUME ~ Found(fix, coins, V, txs, n) PROVE MuHashed(h, txs) = None
  BY <1>2, <1>8, <1>11
<1> QED BY <1>10, <1>11 DEF fix, V, n

-----------------------------------------------------------------------------
(* The inductive invariant.                                                 *)

\* The sequences of different elements of P.
Orders(P) == {s \in Seq(P) : \A i, j \in 1..Len(s) : i # j => s[i] # s[j]}

\* The coins: no attestation's stand-in for a coinbase is among them, and nothing
\* of the future.
CoinsInv ==
    /\ height \in 0..MaxHeight /\ made \in 0..TxCount
    /\ coins \in SUBSET Outpoints
    /\ AccumulatorExact
    /\ \A h \in 1..MaxHeight : Stripped(h) \notin coins /\ (h > height => Coinbase(h) \notin coins)
    /\ \A i \in 1..TxCount : i > made => <<i, "tx">> \notin coins

\* The mempool: every input is there, none is spent twice.
PoolInv ==
    /\ pool \in SUBSET Tx
    /\ \A t \in pool : /\ t.id <= made /\ TxOut(t) \notin coins
                       /\ t.ins \subseteq coins \cup {TxOut(u) : u \in pool}
    /\ \A t, u \in pool : t # u => t.id # u.id /\ t.ins \cap u.ins = {}

\* A template is a valid block on the tip with transactions of the mempool.
TemplateInv ==
    template # None => /\ height < MaxHeight /\ template.txs \in Orders(pool)
                       /\ Valid(template)

\* A cluster under way, all of whose transactions before pos are in block.
ClusterInv(P, block, c) ==
    /\ c = [order |-> c.order, starts |-> c.starts, pos |-> c.pos]
    /\ c.order \in Orders(P) /\ c.pos \in 1..Len(c.order)
    /\ Topological(c.order)
    /\ \A i \in 1..Len(c.order), u \in P : Spends(c.order[i], u) =>
           \E j \in 1..Len(c.order) : c.order[j] = u
    /\ \A i \in 1..Len(c.order) : i < c.pos <=> \E k \in 1..Len(block) : block[k] = c.order[i]

\* The block under way has no transaction before its parents.
BuilderInv ==
    builder # None =>
        /\ builder = [left |-> builder.left, block |-> builder.block, failed |-> builder.failed]
        /\ height < MaxHeight /\ builder.block \in Orders(pool)
        /\ Ordered(coins, builder.block, Len(builder.block))
        /\ \A c \in builder.left : ClusterInv(pool, builder.block, c)
        /\ \A c, d \in builder.left : c # d =>
               \A i \in 1..Len(c.order), j \in 1..Len(d.order) : c.order[i] # d.order[j]

Inv ==
    /\ CoinsInv /\ PoolInv /\ TemplateInv /\ BuilderInv
    /\ AttestationTrue /\ TemplateOutsideGap /\ outcome # "invalid"

\* An arrangement is a sequence of different members.
LEMMA ArrangementIsOrder ==
    ASSUME NEW P, NEW n \in Nat, NEW s \in Arrangements(P, n) PROVE s \in Orders(P)
<1>1. PICK k \in 0..n : s \in Injection(1..k, P)
  BY DEF Arrangements
<1>2. k \in Nat /\ s \in [1..k -> P] /\ \A i, j \in 1..k : i # j => s[i] # s[j]
  BY <1>1 DEF Injection, IsInjective
<1>3. s \in Seq(P)
  BY <1>2, SeqDef
<1>4. 1..Len(s) = 1..k
  BY <1>2, <1>3, LenProperties
<1>5. \A i, j \in 1..Len(s) : i # j => s[i] # s[j]
  BY <1>2, <1>4, Zenon
<1> QED BY <1>3, <1>5 DEF Orders

\* The transactions of a block of the mempool, on the coins and a new coinbase.
LEMMA OrderIsFresh ==
    ASSUME CoinsInv, PoolInv, NEW txs \in Orders(pool), NEW c \in Outpoints \ coins,
           c[2] \in {"attested", "stripped"}
    PROVE  /\ Fresh(coins \cup {c}, txs) /\ Fresh(coins, txs)
           /\ \A i \in 1..Len(txs) : txs[i] \in pool /\ c \notin txs[i].ins
<1>1. txs \in Seq(pool) /\ \A i, j \in 1..Len(txs) : i # j => txs[i] # txs[j]
  BY DEF Orders
<1>2. \A i \in 1..Len(txs) : txs[i] \in pool
  BY <1>1, ElementOfSeq
<1>3. txs \in Seq(Tx)
  BY <1>1, SeqMonotonic DEF PoolInv
<1>4. \A t \in pool : c # TxOut(t)
  BY DEF TxOut
<1>5. \A t \in pool : c \notin t.ins /\ TxOut(t) \notin coins \cup {c}
  BY <1>4 DEF PoolInv
<1>6. \A t, u \in pool : t # u => TxOut(t) # TxOut(u) /\ t.ins \cap u.ins = {}
  BY DEF PoolInv, TxOut
<1>7. coins \in SUBSET Outpoints
  BY DEF CoinsInv
<1> QED BY <1>1, <1>2, <1>3, <1>5, <1>6, <1>7 DEF Fresh

\* A coin that no transaction spends changes nothing about their order.
LEMMA OrderedWithout ==
    ASSUME NEW V, NEW c, NEW txs, NEW n \in Nat, \A i \in 1..n : c \notin txs[i].ins
    PROVE  Ordered(V \cup {c}, txs, n) <=> Ordered(V, txs, n)
BY DEF Ordered

\* What ComputeBlockUTXOAttestationHash gives for transactions of the mempool, and
\* what connecting them does.
LEMMA BlockEffect ==
    ASSUME ConstantsFit, CoinsInv, PoolInv, height < MaxHeight, NEW txs \in Orders(pool)
    PROVE  LET h    == height + 1
               n    == Len(txs)
               hash == ComputeBlockUTXOAttestationHash(h, txs)
               V    == coins \cup {Coinbase(h)}
               W    == coins \cup {Stripped(h)}
           IN  /\ hash # None =>
                     /\ Ordered(coins, txs, n)
                     /\ hash = IF IsMuhashAttestationActive(h)
                               THEN <<"muhash", OfSet(After(W, txs, n))>>
                               ELSE <<"serialized", After(W, txs, n)>>
               /\ Ordered(coins, txs, n) =>
                     /\ hash = None => /\ IsMuhashAttestationActive(h)
                                       /\ ~ IsIntraBlockAttestationFixActive(h)
                     /\ Replayed(V, txs) # None
                     /\ Replayed(V, txs) = After(V, txs, n)
                     /\ Committed(txs) = OfSet(After(V, txs, n))
               /\ After(W, txs, n) = (After(V, txs, n) \ {Coinbase(h)}) \cup {Stripped(h)}
               /\ Fresh(coins, txs) /\ Fresh(V, txs)
               /\ \A i \in 1..n : txs[i] \in pool
<1> DEFINE h    == height + 1
           n    == Len(txs)
           hash == ComputeBlockUTXOAttestationHash(h, txs)
           V    == coins \cup {Coinbase(h)}
           W    == coins \cup {Stripped(h)}
<1>0. n \in Nat /\ h \in 1..MaxHeight /\ h > height
  BY LenProperties DEF Orders, CoinsInv, ConstantsFit
<1> HIDE DEF h
<1>1. /\ Coinbase(h) \in Outpoints \ coins /\ Coinbase(h)[2] \in {"attested", "stripped"}
      /\ Stripped(h) \in Outpoints \ coins /\ Stripped(h)[2] \in {"attested", "stripped"}
  <2>1. Coinbase(h) \notin coins /\ Stripped(h) \notin coins
    BY <1>0 DEF CoinsInv
  <2>2. Coinbase(h) \in Outpoints /\ Stripped(h) \in Outpoints
    BY <1>0 DEF Outpoints
  <2> QED BY <2>1, <2>2 DEF Coinbase, Stripped
<1>2. /\ Fresh(V, txs) /\ Fresh(W, txs) /\ Fresh(coins, txs)
      /\ \A i \in 1..n : /\ txs[i] \in pool
                         /\ Coinbase(h) \notin txs[i].ins /\ Stripped(h) \notin txs[i].ins
  <2>1. /\ Fresh(V, txs) /\ Fresh(coins, txs)
        /\ \A i \in 1..n : txs[i] \in pool /\ Coinbase(h) \notin txs[i].ins
    BY <1>1, OrderIsFresh, Zenon
  <2>2. Fresh(W, txs) /\ \A i \in 1..n : Stripped(h) \notin txs[i].ins
    BY <1>1, OrderIsFresh, Zenon
  <2> HIDE DEF V, W, n
  <2> QED BY <2>1, <2>2
<1>3. /\ Ordered(V, txs, n) <=> Ordered(coins, txs, n)
      /\ Ordered(W, txs, n) <=> Ordered(coins, txs, n)
  <2> HIDE DEF n
  <2>1. Ordered(V, txs, n) <=> Ordered(coins, txs, n)
    BY <1>0, <1>2, OrderedWithout, Zenon
  <2>2. Ordered(W, txs, n) <=> Ordered(coins, txs, n)
    BY <1>0, <1>2, OrderedWithout, Zenon
  <2> QED BY <2>1, <2>2
<1>4. After(W, txs, n) = (After(V, txs, n) \ {Coinbase(h)}) \cup {Stripped(h)}
  <2>1. Coinbase(h) # Stripped(h) /\ \A i \in 1..n : TxOut(txs[i]) \notin {Coinbase(h), Stripped(h)}
    BY DEF Coinbase, Stripped, TxOut
  <2>2. Coinbase(h) \notin Ins(txs, n) /\ Stripped(h) \notin Ins(txs, n)
    BY <1>2 DEF Ins
  <2>3. Coinbase(h) \notin Outs(txs, n) /\ Stripped(h) \notin Outs(txs, n)
    BY <2>1 DEF Outs
  <2>4. Coinbase(h) \notin coins /\ Stripped(h) \notin coins
    BY <1>1
  <2> HIDE DEF n
  <2> QED BY <2>1, <2>2, <2>3, <2>4 DEF After
<1>5. muhash = OfSet(coins)
  BY DEF CoinsInv, AccumulatorExact
<1>6. ASSUME Ordered(coins, txs, n)
      PROVE  /\ Replayed(V, txs) # None /\ Replayed(V, txs) = After(V, txs, n)
             /\ Committed(txs) = OfSet(After(V, txs, n))
  <2>1. Replayed(V, txs) # None /\ Replayed(V, txs) = After(V, txs, n)
    BY <1>2, <1>3, <1>6, ReplayedIs
  <2>2. Committed(txs) = OfSet(After(V, txs, n))
    <3>1. Ordered(V, txs, n)
      BY <1>3, <1>6
    <3> QED BY <1>1, <1>2, <1>5, <3>1, CommittedIs, Zenon DEF h
  <2> QED BY <2>1, <2>2
<1>7. CASE IsMuhashAttestationActive(h)
  <2> DEFINE fix == IsIntraBlockAttestationFixActive(h)
  <2>1. hash = MuHashed(h, txs)
    BY <1>7 DEF ComputeBlockUTXOAttestationHash
  <2>2. /\ Found(fix, coins, W, txs, n) =>
              /\ hash = <<"muhash", OfSet(After(W, txs, n))>>
              /\ hash # None
        /\ ~ Found(fix, coins, W, txs, n) => hash = None
    <3> HIDE DEF hash
    <3> QED BY <1>1, <1>2, <1>5, <2>1, MuHashedIs
  <2>3. fix \in BOOLEAN /\ coins \in SUBSET W
    BY DEF IsIntraBlockAttestationFixActive
  <2>4. Found(fix, coins, W, txs, n) => Ordered(W, txs, n)
    <3> HIDE DEF fix, W, n
    <3> QED BY <1>0, <2>3, FoundIsOrdered
  <2>5. fix /\ Ordered(W, txs, n) => Found(fix, coins, W, txs, n)
    BY DEF Found
  <2> HIDE DEF hash, fix, W, V, n
  <2>6. hash # None =>
            /\ Ordered(coins, txs, n)
            /\ hash = IF IsMuhashAttestationActive(h)
                      THEN <<"muhash", OfSet(After(W, txs, n))>>
                      ELSE <<"serialized", After(W, txs, n)>>
    BY <1>3, <1>7, <2>2, <2>4
  <2>7. Ordered(coins, txs, n) /\ hash = None => IsMuhashAttestationActive(h) /\ ~ fix
    BY <1>3, <1>7, <2>2, <2>5
  <2> QED BY <1>2, <1>4, <1>6, <2>6, <2>7, Zenon DEF hash, fix, W, V, n, h
<1>8. CASE ~ IsMuhashAttestationActive(h)
  <2>1. hash = Serialized(h, txs)
    BY <1>8 DEF ComputeBlockUTXOAttestationHash
  <2>2. Serialized(h, txs) = IF Replayed(W, txs) = None THEN None
                             ELSE <<"serialized", Replayed(W, txs)>>
    BY DEF Serialized
  <2>3. /\ Ordered(W, txs, n) => Replayed(W, txs) = After(W, txs, n) /\ Replayed(W, txs) # None
        /\ ~ Ordered(W, txs, n) => Replayed(W, txs) = None
    BY <1>2, ReplayedIs
  <2>4. <<"serialized", After(W, txs, n)>> # None
    <3>1. After(W, txs, n) \in SUBSET Outpoints
      BY <1>0, <1>2, AfterType
    <3>2. <<"serialized", After(W, txs, n)>> \in {"serialized"} \X SUBSET Outpoints
      BY <3>1
    <3> QED BY <3>2 DEF ConstantsFit
  <2> HIDE DEF hash, W, V, n
  <2>5. hash # None =>
            /\ Ordered(coins, txs, n)
            /\ hash = IF IsMuhashAttestationActive(h)
                      THEN <<"muhash", OfSet(After(W, txs, n))>>
                      ELSE <<"serialized", After(W, txs, n)>>
    BY <1>3, <1>8, <2>1, <2>2, <2>3
  <2>6. Ordered(coins, txs, n) => hash # None
    BY <1>3, <2>1, <2>2, <2>3, <2>4
  <2> QED BY <1>2, <1>4, <1>6, <2>5, <2>6, Zenon DEF hash, W, V, n, h
<1> QED BY <1>7, <1>8, Zenon

-----------------------------------------------------------------------------
(* The steps.                                                               *)

\* The attestation depends on nothing but the tip.
LEMMA HashStays ==
    ASSUME NEW h, NEW txs, UNCHANGED <<height, coins, muhash>>
    PROVE  ComputeBlockUTXOAttestationHash(h, txs)' = ComputeBlockUTXOAttestationHash(h, txs)
<1>1. MuHashed(h, txs)' = MuHashed(h, txs)
  BY DEF MuHashed
<1>2. Serialized(h, txs)' = Serialized(h, txs)
  BY DEF Serialized
<1> QED BY <1>1, <1>2 DEF ComputeBlockUTXOAttestationHash

\* A block that is valid on the tip stays so while the tip is the same.
LEMMA ValidStays ==
    ASSUME NEW b, UNCHANGED <<height, coins, muhash>>, Valid(b), template' = b
    PROVE  Valid(template)'
<1>1. Valid(b)'
  BY HashStays DEF Valid
<1> QED BY <1>1

\* A block with its own attestation is valid.
LEMMA OwnIsValid ==
    ASSUME ConstantsFit, CoinsInv, PoolInv, height < MaxHeight, NEW txs \in Orders(pool),
           NEW hash, hash = ComputeBlockUTXOAttestationHash(height + 1, txs), hash # None
    PROVE  Valid([txs |-> txs, atts |-> <<hash>>])
<1> DEFINE block == [txs |-> txs, atts |-> <<hash>>]
<1>1. Replayed(coins \cup {Coinbase(height + 1)}, txs) # None
  BY BlockEffect, Zenon
<1>2. block.txs = txs /\ block.atts # <<>> /\ block.atts[1] = hash
  OBVIOUS
<1> HIDE DEF block
<1>3. Valid(block)
  BY <1>1, <1>2, Zenon DEF Valid
<1> QED BY <1>3 DEF block

\* What a step may leave alone in the invariant.
LEMMA TipStays ==
    ASSUME CoinsInv, AttestationTrue, UNCHANGED <<height, coins, muhash, made, attested>>
    PROVE  CoinsInv' /\ AttestationTrue'
<1>1. CoinsInv'
  BY DEF CoinsInv, AccumulatorExact
<1>2. AttestationTrue'
  BY DEF AttestationTrue
<1> QED BY <1>1, <1>2

\* generateblock keeps the invariant.
LEMMA GenerateKeeps ==
    ASSUME ConstantsFit, Inv, NEW txs \in Arrangements(pool, TxCount), GenerateBlock(txs)
    PROVE  Inv'
<1> DEFINE hash == ComputeBlockUTXOAttestationHash(height + 1, txs)
           block == RegenerateUTXOAttestation(txs)
<1>1. /\ Idle /\ height < MaxHeight
      /\ UNCHANGED <<height, coins, muhash, made, builder, attested>>
  BY DEF GenerateBlock
<1>2. CoinsInv /\ PoolInv /\ TemplateInv /\ AttestationTrue /\ CoinsInv' /\ AttestationTrue'
  BY <1>1, TipStays DEF Inv
<1>3. txs \in Orders(pool)
  BY ArrangementIsOrder DEF ConstantsFit
<1>4. BuilderInv'
  BY <1>1 DEF BuilderInv, Idle
<1>5. CASE block # None /\ UNCHANGED pool /\ outcome' = (IF Valid(block) THEN "ok" ELSE "invalid")
           /\ template' = IF Valid(block) THEN block ELSE template
  <2>1. hash # None /\ block = [txs |-> txs, atts |-> <<hash>>]
    BY <1>5 DEF RegenerateUTXOAttestation
  <2>2. Valid(block)
    <3> HIDE DEF hash, block
    <3>1. hash = ComputeBlockUTXOAttestationHash(height + 1, txs)
      BY DEF hash
    <3> QED BY <1>1, <1>2, <1>3, <2>1, <3>1, OwnIsValid
  <2>3. PoolInv'
    BY <1>1, <1>2, <1>5 DEF PoolInv
  <2>4. template' = block /\ outcome' = "ok"
    BY <1>5, <2>2
  <2>5. TemplateInv'
    <3>1. Valid(template)'
      <4> HIDE DEF block
      <4> QED BY <1>1, <2>2, <2>4, ValidStays
    <3>2. template'.txs \in Orders(pool')
      BY <1>3, <1>5, <2>1, <2>4
    <3> HIDE DEF block
    <3> QED BY <1>1, <3>1, <3>2 DEF TemplateInv
  <2>6. TemplateOutsideGap' /\ outcome' # "invalid"
    BY <2>4 DEF TemplateOutsideGap
  <2> QED BY <1>2, <1>4, <2>3, <2>5, <2>6, Zenon DEF Inv
<1>6. CASE outcome' = "ok" /\ UNCHANGED <<template, pool>>
  <2>1. PoolInv'
    BY <1>1, <1>2, <1>6 DEF PoolInv
  <2>2. TemplateInv'
    <3> SUFFICES ASSUME template' # None
                 PROVE  (height < MaxHeight)' /\ (template.txs \in Orders(pool))' /\ Valid(template)'
      BY DEF TemplateInv
    <3>1. template.txs \in Orders(pool) /\ Valid(template)
      BY <1>2, <1>6 DEF TemplateInv
    <3>2. Valid(template)'
      BY <1>1, <1>6, <3>1, ValidStays
    <3> QED BY <1>1, <1>6, <3>1, <3>2
  <2>3. TemplateOutsideGap' /\ outcome' # "invalid"
    BY <1>6 DEF TemplateOutsideGap
  <2> QED BY <1>2, <1>4, <2>1, <2>2, <2>3, Zenon DEF Inv
<1>7. CASE outcome' = "ok" /\ template' = None /\ pool' = {}
  <2>1. PoolInv'
    BY <1>7 DEF PoolInv
  <2>2. TemplateInv' /\ TemplateOutsideGap' /\ outcome' # "invalid"
    BY <1>7 DEF TemplateInv, TemplateOutsideGap
  <2> QED BY <1>2, <1>4, <2>1, <2>2, Zenon DEF Inv
<1> QED BY <1>5, <1>6, <1>7 DEF GenerateBlock

\* Connecting a valid block with transactions of the mempool keeps the invariant.
LEMMA ConnectKeeps ==
    ASSUME ConstantsFit, Inv, NEW block, Idle, height < MaxHeight, block.txs \in Orders(pool),
           Valid(block), Connect(block)
    PROVE  Inv'
<1> DEFINE txs == block.txs
           n == Len(txs)
           h == height + 1
           V == coins \cup {Coinbase(h)}
           W == coins \cup {Stripped(h)}
           hash == ComputeBlockUTXOAttestationHash(h, txs)
<1>1. CoinsInv /\ PoolInv
  BY DEF Inv
<1>2. hash # None /\ block.atts[1] = hash
  BY DEF Valid
<1>3. /\ height' = h /\ pool' = pool \ Range(txs) /\ attested' = hash
      /\ template' = None /\ outcome' = "ok" /\ made' = made /\ builder' = builder
      /\ coins' = Replayed(V, txs) /\ muhash' = Committed(txs)
  BY <1>2 DEF Connect
<1>4. /\ hash = IF IsMuhashAttestationActive(h)
                THEN <<"muhash", OfSet(After(W, txs, n))>> ELSE <<"serialized", After(W, txs, n)>>
      /\ Ordered(coins, txs, n)
      /\ Replayed(V, txs) = After(V, txs, n)
      /\ Committed(txs) = OfSet(After(V, txs, n))
      /\ After(W, txs, n) = (After(V, txs, n) \ {Coinbase(h)}) \cup {Stripped(h)}
      /\ Fresh(V, txs) /\ \A i \in 1..n : txs[i] \in pool
  BY <1>1, <1>2, BlockEffect, Zenon
<1>5. coins' = After(V, txs, n) /\ muhash' = OfSet(coins')
  BY <1>3, <1>4
<1>6. n \in Nat /\ Range(txs) = {txs[i] : i \in 1..n}
  <2>1. txs \in Seq(pool)
    BY DEF Orders
  <2> QED BY <2>1, LenProperties, RangeEquality
<1>7. AttestationTrue'
  <2>1. coins' = After(V, txs, n) /\ height' = h
    BY <1>3, <1>5
  <2> HIDE DEF hash, V, W, n, h
  <2>2. After(W, txs, n) = (coins' \ {Coinbase(height')}) \cup {Stripped(height')}
    BY <1>4, <2>1
  <2> QED BY <1>3, <1>4, <2>1, <2>2, Zenon DEF AttestationTrue
<1>8. coins' \in SUBSET Outpoints /\ coins' \subseteq V \cup Outs(txs, n)
  <2>1. After(V, txs, n) \in SUBSET Outpoints
    <3> HIDE DEF V, n, txs
    <3>1. Fresh(V, txs) /\ n \in Nat
      BY <1>4, <1>6, Zenon
    <3>2. n \in 0..Len(txs)
      BY <3>1 DEF n
    <3> QED BY <3>1, <3>2, AfterType, Zenon
  <2> QED BY <1>5, <2>1 DEF After
<1> HIDE DEF n, txs
<1>9. CoinsInv'
  <2>1. \A k \in 1..MaxHeight : Stripped(k) \notin coins' /\ (k > height' => Coinbase(k) \notin coins')
    <3> SUFFICES ASSUME NEW k \in 1..MaxHeight
                 PROVE  Stripped(k) \notin coins' /\ (k > height' => Coinbase(k) \notin coins')
      OBVIOUS
    <3>1. Stripped(k) \notin coins /\ (k > height => Coinbase(k) \notin coins)
      BY <1>1 DEF CoinsInv
    <3>2. Stripped(k) \notin Outs(txs, n) /\ Coinbase(k) \notin Outs(txs, n)
      BY DEF Outs, TxOut, Stripped, Coinbase
    <3>3. Stripped(k) # Coinbase(h) /\ (k # h => Coinbase(k) # Coinbase(h))
      BY DEF Stripped, Coinbase
    <3>4. k > height' => k > height /\ k # h
      BY <1>1, <1>3 DEF CoinsInv
    <3> QED BY <1>8, <3>1, <3>2, <3>3, <3>4
  <2>2. \A i \in 1..TxCount : i > made => <<i, "tx">> \notin coins'
    <3> SUFFICES ASSUME NEW i \in 1..TxCount, i > made PROVE <<i, "tx">> \notin coins'
      OBVIOUS
    <3>1. <<i, "tx">> \notin coins
      BY <1>1 DEF CoinsInv
    <3>2. <<i, "tx">> # Coinbase(h)
      BY DEF Coinbase
    <3>3. \A t \in pool : t.id # i
      BY <1>1 DEF PoolInv, CoinsInv, Tx
    <3>4. <<i, "tx">> \notin Outs(txs, n)
      BY <1>4, <3>3 DEF Outs, TxOut
    <3> QED BY <1>8, <3>1, <3>2, <3>4
  <2>3. height' \in 0..MaxHeight /\ made' \in 0..TxCount
    <3>1. height \in 0..MaxHeight /\ made \in 0..TxCount /\ MaxHeight \in Nat /\ TxCount \in Nat
      BY <1>1, Zenon DEF CoinsInv, ConstantsFit
    <3>2. height' = height + 1 /\ made' = made
      BY <1>3
    <3> QED BY <3>1, <3>2
  <2>4. AccumulatorExact'
    BY <1>5 DEF AccumulatorExact
  <2>5. \A i \in 1..TxCount : i > made' => <<i, "tx">> \notin coins'
    BY <1>3, <2>2, Zenon
  <2> QED BY <1>8, <2>1, <2>3, <2>4, <2>5, Zenon DEF CoinsInv
<1>10. PoolInv'
  <2>1. pool' \subseteq pool /\ \A t \in pool' : t \notin Range(txs)
    BY <1>3
  <2>3. ASSUME NEW t \in pool'
        PROVE  TxOut(t) \notin coins' /\ t.ins \subseteq coins' \cup {TxOut(u) : u \in pool'}
    <3>1. \A i \in 1..n : txs[i] # t /\ txs[i] \in pool
      BY <1>4, <1>6, <2>1
    <3>2. \A i \in 1..n : TxOut(txs[i]) # TxOut(t) /\ txs[i].ins \cap t.ins = {}
      BY <1>1, <2>1, <3>1 DEF PoolInv, TxOut
    <3>3. TxOut(t) \notin V \cup Outs(txs, n)
      <4>1. TxOut(t) \notin coins
        BY <1>1, <2>1 DEF PoolInv
      <4>2. TxOut(t) # Coinbase(h)
        BY DEF TxOut, Coinbase
      <4> QED BY <3>2, <4>1, <4>2 DEF Outs
    <3>4. t.ins \cap Ins(txs, n) = {}
      BY <3>2 DEF Ins
    <3>5. t.ins \subseteq coins \cup Outs(txs, n) \cup {TxOut(u) : u \in pool'}
      <4> SUFFICES ASSUME NEW u \in pool, u \notin pool' PROVE TxOut(u) \in Outs(txs, n)
        BY <1>1, <2>1 DEF PoolInv
      <4>1. u \in Range(txs)
        BY <1>3
      <4>2. PICK i \in 1..n : u = txs[i]
        BY <1>6, <4>1
      <4> QED BY <4>2 DEF Outs
    <3> QED BY <1>5, <1>8, <3>3, <3>4, <3>5 DEF After
  <2>4. pool' \in SUBSET Tx /\ \A t \in pool' : t.id <= made'
    BY <1>1, <1>3, <2>1 DEF PoolInv
  <2>5. \A t, u \in pool' : t # u => t.id # u.id /\ t.ins \cap u.ins = {}
    BY <1>1, <2>1 DEF PoolInv
  <2> QED BY <2>3, <2>4, <2>5, Zenon DEF PoolInv
<1>11. TemplateInv' /\ BuilderInv'
  BY <1>3 DEF TemplateInv, BuilderInv, Idle
<1>12. TemplateOutsideGap' /\ outcome' # "invalid"
  BY <1>3 DEF TemplateOutsideGap
<1> QED BY <1>7, <1>9, <1>10, <1>11, <1>12, Zenon DEF Inv

\* A growing mempool leaves the template alone.
LEMMA TemplateKept ==
    ASSUME TemplateInv, UNCHANGED <<height, coins, muhash, template>>, pool \subseteq pool'
    PROVE  TemplateInv'
<1> SUFFICES ASSUME template' # None
             PROVE  (height < MaxHeight)' /\ (template.txs \in Orders(pool))' /\ Valid(template)'
  BY DEF TemplateInv
<1>1. height < MaxHeight /\ template.txs \in Orders(pool) /\ Valid(template)
  BY DEF TemplateInv
<1>2. Valid(template)'
  BY <1>1, ValidStays
<1>3. template.txs \in Orders(pool')
  BY <1>1, SeqMonotonic DEF Orders
<1> QED BY <1>1, <1>2, <1>3

\* AcceptToMemoryPool keeps the invariant.
LEMMA AcceptKeeps ==
    ASSUME ConstantsFit, Inv, AcceptToMemoryPool PROVE Inv'
<1> DEFINE spent == UNION {t.ins : t \in pool}
           spendable == {c \in coins : Mature(c)} \cup {TxOut(t) : t \in pool}
<1>1. CoinsInv /\ PoolInv /\ TemplateInv /\ AttestationTrue
  BY DEF Inv
<1>2. PICK ins \in (SUBSET (spendable \ spent)) \ {{}}, fee \in Fees :
         pool' = pool \cup {[id |-> made + 1, ins |-> ins, fee |-> fee]}
  BY DEF AcceptToMemoryPool
<1>3. /\ Idle /\ made < TxCount /\ made' = made + 1 /\ outcome' = "ok"
      /\ UNCHANGED <<height, coins, muhash, builder, template, attested>>
  BY DEF AcceptToMemoryPool
<1> DEFINE new == [id |-> made + 1, ins |-> ins, fee |-> fee]
<1>4. made + 1 \in 1..TxCount /\ made \in Nat
  BY <1>1, <1>3 DEF CoinsInv, ConstantsFit
<1>5. \A t \in pool : TxOut(t) \in Outpoints
  BY <1>1 DEF PoolInv, Tx, TxOut, Outpoints
<1>6. ins \subseteq coins \cup {TxOut(t) : t \in pool} /\ \A t \in pool : ins \cap t.ins = {}
  BY <1>2
<1>7. new \in Tx
  <2>1. ins \in SUBSET Outpoints
    BY <1>1, <1>5, <1>6 DEF CoinsInv
  <2> QED BY <1>4, <2>1 DEF Tx
<1>8. new.id = made + 1 /\ new.ins = ins /\ TxOut(new) \notin coins
  <2>1. TxOut(new) = <<made + 1, "tx">>
    BY DEF TxOut
  <2> QED BY <1>1, <1>4, <2>1 DEF CoinsInv
<1>9. pool' = pool \cup {new}
  BY <1>2
<1>10. CoinsInv'
  <2>1. made' \in 0..TxCount
    <3>1. made' = made + 1 /\ TxCount \in Nat
      BY <1>3, Zenon DEF ConstantsFit
    <3> QED BY <1>4, <3>1
  <2>2. \A i \in 1..TxCount : i > made' => <<i, "tx">> \notin coins'
    BY <1>1, <1>3, <1>4 DEF CoinsInv
  <2> QED BY <1>1, <1>3, <2>1, <2>2 DEF CoinsInv, AccumulatorExact
<1> HIDE DEF new
<1>11. PoolInv'
  <2>1. pool' \in SUBSET Tx
    BY <1>1, <1>7, <1>9 DEF PoolInv
  <2>2. \A t \in pool' : t.id <= made'
    BY <1>1, <1>3, <1>4, <1>8, <1>9 DEF PoolInv, Tx
  <2>3. \A t \in pool' : TxOut(t) \notin coins' /\ t.ins \subseteq coins' \cup {TxOut(u) : u \in pool'}
    BY <1>1, <1>3, <1>6, <1>8, <1>9 DEF PoolInv
  <2>4. \A t, u \in pool' : t # u => t.id # u.id /\ t.ins \cap u.ins = {}
    <3>1. \A t \in pool : t.id # new.id
      BY <1>1, <1>4, <1>8 DEF PoolInv, Tx
    <3>2. \A t \in pool : t.ins \cap new.ins = {}
      BY <1>6, <1>8
    <3> QED BY <1>1, <1>9, <3>1, <3>2 DEF PoolInv
  <2> QED BY <2>1, <2>2, <2>3, <2>4, Zenon DEF PoolInv
<1>12. TemplateInv'
  BY <1>1, <1>3, <1>9, TemplateKept
<1>13. BuilderInv' /\ AttestationTrue' /\ TemplateOutsideGap' /\ outcome' # "invalid"
  <2>1. BuilderInv'
    BY <1>3 DEF BuilderInv, Idle
  <2>2. AttestationTrue'
    BY <1>1, <1>3 DEF AttestationTrue
  <2>3. TemplateOutsideGap' /\ outcome' # "invalid"
    BY <1>3 DEF TemplateOutsideGap
  <2> QED BY <2>1, <2>2, <2>3
<1> QED BY <1>10, <1>11, <1>12, <1>13, Zenon DEF Inv

\* The end of CreateNewBlock keeps the invariant.
LEMMA FinishKeeps ==
    ASSUME ConstantsFit, Inv, FinishBlock PROVE Inv'
<1> DEFINE txs == builder.block
           hash == ComputeBlockUTXOAttestationHash(height + 1, txs)
           block == [txs |-> txs, atts |-> <<hash>>]
<1>1. CoinsInv /\ PoolInv /\ AttestationTrue /\ BuilderInv
  BY DEF Inv
<1>2. /\ builder # None /\ builder' = None
      /\ UNCHANGED <<height, coins, muhash, pool, made, attested>>
  BY Zenon DEF FinishBlock, Idle
<1>3. height < MaxHeight /\ txs \in Orders(pool) /\ Ordered(coins, txs, Len(txs))
  BY <1>1, <1>2 DEF BuilderInv
<1>4. CoinsInv' /\ AttestationTrue'
  BY <1>1, <1>2, TipStays
<1>5. PoolInv'
  BY <1>1, <1>2 DEF PoolInv
<1>6. BuilderInv'
  BY <1>2 DEF BuilderInv
<1>7. CASE hash = None /\ outcome' = "no_template" /\ template' = None
  <2>1. IsMuhashAttestationActive(height + 1) /\ ~ IsIntraBlockAttestationFixActive(height + 1)
    BY <1>1, <1>3, <1>7, BlockEffect, Zenon
  <2> HIDE DEF hash, block, txs
  <2>2. template' = None /\ outcome' # "invalid"
    BY <1>7
  <2>3. TemplateOutsideGap'
    <3>1. IsMuhashAttestationActive(height + 1)'
      BY <1>2, <2>1 DEF IsMuhashAttestationActive
    <3>2. ~ IsIntraBlockAttestationFixActive(height + 1)'
      BY <1>2, <2>1 DEF IsIntraBlockAttestationFixActive
    <3> QED BY <3>1, <3>2, Zenon DEF TemplateOutsideGap
  <2>4. TemplateInv'
    BY <2>2, Zenon DEF TemplateInv
  <2> QED BY <1>4, <1>5, <1>6, <2>2, <2>3, <2>4, Zenon DEF Inv
<1>8. CASE hash # None /\ outcome' = (IF Valid(block) THEN "ok" ELSE "invalid")
           /\ template' = IF Valid(block) THEN block ELSE None
  <2>1. Valid(block)
    <3> HIDE DEF hash, txs
    <3>1. hash = ComputeBlockUTXOAttestationHash(height + 1, txs)
      BY DEF hash
    <3> QED BY <1>1, <1>3, <1>8, <3>1, OwnIsValid
  <2>2. template' = block /\ outcome' = "ok"
    BY <1>8, <2>1
  <2>3. block.txs = txs
    OBVIOUS
  <2> HIDE DEF block, txs
  <2>4. TemplateInv'
    <3>1. Valid(template)'
      BY <1>2, <2>1, <2>2, ValidStays
    <3>2. template'.txs \in Orders(pool')
      BY <1>2, <1>3, <2>2, <2>3
    <3> QED BY <1>2, <1>3, <3>1, <3>2 DEF TemplateInv
  <2>5. TemplateOutsideGap' /\ outcome' # "invalid"
    BY <2>2 DEF TemplateOutsideGap
  <2> QED BY <1>4, <1>5, <1>6, <2>4, <2>5, Zenon DEF Inv
<1> QED BY <1>7, <1>8, Zenon DEF FinishBlock

\* A block from this node or from another one keeps the invariant.
LEMMA ProcessKeeps ==
    ASSUME ConstantsFit, Inv, NEW block, Idle, height < MaxHeight, block.txs \in Orders(pool),
           ProcessNewBlock(block)
    PROVE  Inv'
<1>1. CASE Valid(block)
  <2>1. Connect(block)
    BY <1>1 DEF ProcessNewBlock
  <2> QED BY <1>1, <2>1, ConnectKeeps
<1>2. CASE ~ Valid(block)
  <2>1. /\ outcome' = "ok"
        /\ UNCHANGED <<height, coins, muhash, pool, made, builder, template, attested>>
    BY <1>2 DEF ProcessNewBlock
  <2>2. CoinsInv /\ PoolInv /\ TemplateInv /\ AttestationTrue
    BY DEF Inv
  <2>3. CoinsInv' /\ AttestationTrue'
    BY <2>1, <2>2, TipStays
  <2>4. PoolInv'
    BY <2>1, <2>2 DEF PoolInv
  <2>5. TemplateInv'
    BY <2>1, <2>2, TemplateKept
  <2>6. BuilderInv'
    BY <2>1 DEF BuilderInv, Idle
  <2>7. TemplateOutsideGap' /\ outcome' # "invalid"
    BY <2>1 DEF TemplateOutsideGap
  <2> QED BY <2>3, <2>4, <2>5, <2>6, <2>7, Zenon DEF Inv
<1> QED BY <1>1, <1>2

\* submitblock and a block of another miner keep the invariant.
LEMMA BlockKeeps ==
    ASSUME ConstantsFit, Inv, SubmitBlock \/ ReceiveBlock PROVE Inv'
<1>1. CASE SubmitBlock
  <2>1. Idle /\ template # None /\ ProcessNewBlock(template)
    BY <1>1 DEF SubmitBlock
  <2>2. height < MaxHeight /\ template.txs \in Orders(pool)
    BY <2>1 DEF Inv, TemplateInv
  <2> QED BY <2>1, <2>2, ProcessKeeps
<1>2. CASE ReceiveBlock
  <2>1. Idle /\ height < MaxHeight
    BY <1>2 DEF ReceiveBlock
  <2>2. PICK txs \in Arrangements(pool, TxCount) :
            \E atts : ProcessNewBlock([txs |-> txs, atts |-> atts])
    BY <1>2, Zenon DEF ReceiveBlock
  <2> PICK atts : ProcessNewBlock([txs |-> txs, atts |-> atts])
    BY <2>2
  <2>3. txs \in Orders(pool)
    BY ArrangementIsOrder DEF ConstantsFit
  <2>4. [txs |-> txs, atts |-> atts].txs = txs
    OBVIOUS
  <2> QED BY <2>1, <2>3, <2>4, ProcessKeeps
<1> QED BY <1>1, <1>2

-----------------------------------------------------------------------------
(* Block assembly.                                                          *)

\* Two clusters of the mempool have no transaction in common.
LEMMA ClustersApart ==
    ASSUME NEW C \in Clusters, NEW D \in Clusters, C \cap D # {} PROVE C = D
<1> DEFINE groups == {S \in SUBSET pool : S # {} /\ Closed(S)}
<1>1. /\ C \in groups /\ \A S \in groups : S \subseteq C => S = C
      /\ D \in groups /\ \A S \in groups : S \subseteq D => S = D
  BY DEF Clusters
<1>2. Closed(C \cap D)
  BY <1>1 DEF Closed
<1>3. C \cap D \in groups
  BY <1>1, <1>2
<1> HIDE DEF groups
<1> QED BY <1>1, <1>3

\* A choice from a set of sets takes one element of each.
LEMMA ChoicesAre ==
    ASSUME NEW S, NEW L \in Choices(S)
    PROVE  \E f : L = {f[T] : T \in S} /\ \A T \in S : f[T] \in T
<1>1. PICK f \in [S -> UNION S] : L = Range(f) /\ \A T \in S : f[T] \in T
  BY DEF Choices
<1>2. L = {f[T] : T \in S}
  BY <1>1 DEF Range
<1> QED BY <1>1, <1>2

\* What CreateNewBlock starts from for one cluster.
LEMMA LinearizedIs ==
    ASSUME ConstantsFit, PoolInv, NEW C \in Clusters, NEW c \in Linearized(C)
    PROVE  /\ ClusterInv(pool, <<>>, c)
           /\ \A i \in 1..Len(c.order) : c.order[i] \in C
<1>1. C \in SUBSET pool /\ C # {} /\ Closed(C)
  BY DEF Clusters
<1>2. PICK o \in Arrangements(C, TxCount) :
          /\ Range(o) = C /\ Topological(o)
          /\ c = [order |-> o, starts |-> ChunkLinearization(o), pos |-> 1]
  BY Zenon DEF Linearized
<1>3. o \in Orders(C) /\ o \in Seq(C)
  BY ArrangementIsOrder DEF ConstantsFit, Orders
<1>4. o \in Orders(C) /\ \A t \in C : \E i \in 1..Len(o) : o[i] = t
  BY <1>2, <1>3, LenProperties DEF Range
<1>5. c.order = o /\ c.pos = 1 /\ c = [order |-> c.order, starts |-> c.starts, pos |-> c.pos]
  BY <1>2
<1>6. o \in Seq(C) /\ Len(o) \in Nat /\ \A i \in 1..Len(o) : o[i] \in C
  BY <1>4, LenProperties, ElementOfSeq DEF Orders
<1>7. o \in Orders(pool)
  BY <1>1, <1>4, <1>6, SeqMonotonic DEF Orders
<1>8. 1 \in 1..Len(o)
  BY <1>1, <1>4, <1>6
<1>9. \A i \in 1..Len(o), u \in pool : Spends(o[i], u) => \E j \in 1..Len(o) : o[j] = u
  <2> SUFFICES ASSUME NEW i \in 1..Len(o), NEW u \in pool, Spends(o[i], u)
               PROVE  \E j \in 1..Len(o) : o[j] = u
    OBVIOUS
  <2>1. o[i] \in C
    BY <1>6
  <2>2. u \in C
    BY <1>1, <2>1, Zenon DEF Closed
  <2> QED BY <1>4, <2>2
<1>10. \A i \in 1..Len(o) : i < 1 <=> \E k \in 1..Len(<<>>) : <<>>[k] = o[i]
  BY <1>6
<1>11. ClusterInv(pool, <<>>, c)
  BY <1>2, <1>5, <1>7, <1>8, <1>9, <1>10 DEF ClusterInv
<1> QED BY <1>5, <1>6, <1>11

\* The start of CreateNewBlock keeps the invariant.
LEMMA CreateKeeps ==
    ASSUME ConstantsFit, Inv, CreateNewBlock PROVE Inv'
<1>1. CoinsInv /\ PoolInv /\ TemplateInv /\ AttestationTrue
  BY DEF Inv
<1>2. PICK left \in Choices({Linearized(C) : C \in Clusters}) :
          builder' = [left |-> left, block |-> <<>>, failed |-> 0]
  BY Zenon DEF CreateNewBlock
<1>3. /\ height < MaxHeight /\ outcome' = "ok"
      /\ UNCHANGED <<height, coins, muhash, pool, made, template, attested>>
  BY Zenon DEF CreateNewBlock
<1>4. PICK f : /\ left = {f[T] : T \in {Linearized(C) : C \in Clusters}}
               /\ \A T \in {Linearized(C) : C \in Clusters} : f[T] \in T
  BY ChoicesAre
<1>5. \A c \in left : \E C \in Clusters : c = f[Linearized(C)] /\ c \in Linearized(C)
  BY <1>4
<1>6. \A c \in left : ClusterInv(pool, <<>>, c)
  BY <1>1, <1>5, LinearizedIs
<1>7. \A c, d \in left : c # d =>
          \A i \in 1..Len(c.order), j \in 1..Len(d.order) : c.order[i] # d.order[j]
  <2> SUFFICES ASSUME NEW c \in left, NEW d \in left, c # d,
                      NEW i \in 1..Len(c.order), NEW j \in 1..Len(d.order)
               PROVE  c.order[i] # d.order[j]
    OBVIOUS
  <2>1. PICK C \in Clusters : c = f[Linearized(C)] /\ c \in Linearized(C)
    BY <1>5
  <2>2. PICK D \in Clusters : d = f[Linearized(D)] /\ d \in Linearized(D)
    BY <1>5
  <2>3. c.order[i] \in C /\ d.order[j] \in D
    BY <1>1, <2>1, <2>2, LinearizedIs
  <2>4. C # D
    BY <2>1, <2>2
  <2> QED BY <2>3, <2>4, ClustersApart
<1>8. BuilderInv'
  <2>1. /\ builder' = [left |-> builder'.left, block |-> builder'.block, failed |-> builder'.failed]
        /\ builder'.left = left /\ builder'.block = <<>>
    BY <1>2
  <2>2. <<>> \in Orders(pool) /\ Len(<<>>) = 0
    BY EmptySeq DEF Orders
  <2>3. Ordered(coins, <<>>, Len(<<>>))
    BY <2>2 DEF Ordered
  <2>4. height' < MaxHeight /\ builder'.block \in Orders(pool')
    BY <1>3, <2>1, <2>2
  <2>5. Ordered(coins', builder'.block, Len(builder'.block))
    BY <1>3, <2>1, <2>3
  <2>6. \A c \in builder'.left : ClusterInv(pool', builder'.block, c)
    BY <1>3, <1>6, <2>1
  <2>7. \A c, d \in builder'.left : c # d =>
            \A i \in 1..Len(c.order), j \in 1..Len(d.order) : c.order[i] # d.order[j]
    BY <1>7, <2>1
  <2> QED BY <2>1, <2>4, <2>5, <2>6, <2>7, Zenon DEF BuilderInv
<1>9. CoinsInv' /\ AttestationTrue'
  BY <1>1, <1>3, TipStays
<1>10. PoolInv'
  BY <1>1, <1>3 DEF PoolInv
<1>11. TemplateInv'
  BY <1>1, <1>3, TemplateKept
<1>12. TemplateOutsideGap' /\ outcome' # "invalid"
  BY <1>3 DEF TemplateOutsideGap
<1> QED BY <1>8, <1>9, <1>10, <1>11, <1>12, Zenon DEF Inv

\* A chunk ends in the part of its cluster that is left.
LEMMA ChunkEndIs ==
    ASSUME NEW c, Len(c.order) \in Nat, c.pos \in 1..Len(c.order)
    PROVE  ChunkEnd(c) \in c.pos..Len(c.order)
<1> DEFINE S == {i \in c.pos..Len(c.order) : i = Len(c.order) \/ i + 1 \in c.starts}
<1>1. S \in SUBSET Nat /\ S # {}
  <2>1. Len(c.order) \in S
    OBVIOUS
  <2> QED BY <2>1
<1>2. \A i \in S : i \in c.pos..Len(c.order)
  OBVIOUS
<1>3. ChunkEnd(c) = Min(S)
  BY DEF ChunkEnd
<1> HIDE DEF S
<1>4. \E x \in S : \A y \in S : x <= y
  BY <1>1, LeastNumber, Zenon
<1>5. Min(S) \in S
  BY <1>4, Zenon DEF Min
<1> QED BY <1>2, <1>3, <1>5

\* The block with a chunk of one of the clusters behind it.
LEMMA ChunkAdded ==
    ASSUME NEW P, NEW V, \A t \in P : t.ins \subseteq V \cup {TxOut(u) : u \in P},
           NEW block \in Orders(P), Ordered(V, block, Len(block)),
           NEW c, ClusterInv(P, block, c), NEW e \in c.pos..Len(c.order)
    PROVE  LET b == block \o SubSeq(c.order, c.pos, e)
           IN  /\ b \in Orders(P) /\ Ordered(V, b, Len(b))
               /\ e < Len(c.order) => ClusterInv(P, b, [c EXCEPT !.pos = e + 1])
               /\ \A d : /\ ClusterInv(P, block, d)
                         /\ \A i \in 1..Len(c.order), j \in 1..Len(d.order) :
                                c.order[i] # d.order[j]
                         => ClusterInv(P, b, d)
<1> DEFINE o == c.order
           p == c.pos
           n == Len(block)
           b == block \o SubSeq(o, p, e)
<1>1. /\ block \in Seq(P) /\ \A i, j \in 1..n : i # j => block[i] # block[j]
      /\ o \in Seq(P) /\ \A i, j \in 1..Len(o) : i # j => o[i] # o[j]
      /\ p \in 1..Len(o) /\ Topological(o)
      /\ \A i \in 1..Len(o), u \in P : Spends(o[i], u) => \E j \in 1..Len(o) : o[j] = u
      /\ \A i \in 1..Len(o) : i < p <=> \E k \in 1..n : block[k] = o[i]
      /\ c = [order |-> o, starts |-> c.starts, pos |-> p]
  BY Zenon DEF ClusterInv, Orders
<1>2. n \in Nat /\ Len(o) \in Nat /\ p \in Nat /\ e \in Nat /\ 1 <= p /\ p <= e /\ e <= Len(o)
  BY <1>1, LenProperties
<1>3. \A i \in 1..Len(o) : o[i] \in P
  BY <1>1, ElementOfSeq
<1>4. /\ SubSeq(o, p, e) \in Seq(P) /\ Len(SubSeq(o, p, e)) = e - p + 1
      /\ \A i \in 1..(e - p + 1) : SubSeq(o, p, e)[i] = o[p + i - 1]
  <2> HIDE DEF o, p, n
  <2>1. ASSUME NEW i \in p..e PROVE o[i] \in P
    <3>1. i \in 1..Len(o)
      BY <1>2
    <3> QED BY <1>3, <3>1
  <2> QED BY <1>2, <2>1, SubSeqProperties
<1>5. /\ b \in Seq(P) /\ Len(b) = n + (e - p + 1)
      /\ \A k \in 1..n : b[k] = block[k]
      /\ \A k \in (n + 1)..(n + (e - p + 1)) : b[k] = o[p + (k - n) - 1]
  <2> DEFINE q == SubSeq(o, p, e)
  <2> HIDE DEF q, o, p
  <2>1. /\ block \o q \in Seq(P) /\ Len(block \o q) = Len(block) + Len(q)
        /\ \A k \in 1..(Len(block) + Len(q)) :
               (block \o q)[k] = IF k <= Len(block) THEN block[k] ELSE q[k - Len(block)]
    BY <1>1, <1>4, ConcatProperties DEF q
  <2>2. b = block \o q
    BY DEF q
  <2> HIDE DEF b, n
  <2>3. /\ b \in Seq(P) /\ Len(b) = n + (e - p + 1)
        /\ \A k \in 1..(n + (e - p + 1)) : b[k] = IF k <= n THEN block[k] ELSE q[k - n]
    BY <1>4, <2>1, <2>2 DEF n, q
  <2>4. ASSUME NEW k \in (n + 1)..(n + (e - p + 1)) PROVE b[k] = o[p + (k - n) - 1]
    <3>1. k \in 1..(n + (e - p + 1)) /\ ~ (k <= n) /\ k - n \in 1..(e - p + 1)
      BY <1>2
    <3>2. b[k] = q[k - n]
      BY <2>3, <3>1
    <3>3. q[k - n] = o[p + (k - n) - 1]
      BY <1>4, <3>1 DEF q
    <3> QED BY <3>2, <3>3
  <2>5. ASSUME NEW k \in 1..n PROVE b[k] = block[k]
    <3>1. k \in 1..(n + (e - p + 1)) /\ k <= n
      BY <1>2
    <3> QED BY <2>3, <3>1
  <2> QED BY <2>3, <2>4, <2>5
<1> HIDE DEF b, o, p, n
<1>6. \A k \in (n + 1)..Len(b) : /\ p + (k - n) - 1 \in p..e /\ p + (k - n) - 1 \in 1..Len(o)
                                 /\ b[k] = o[p + (k - n) - 1]
  <2> TAKE k \in (n + 1)..Len(b)
  <2>1. k \in (n + 1)..(n + (e - p + 1))
    BY <1>5
  <2>2. p + (k - n) - 1 \in p..e /\ p + (k - n) - 1 \in 1..Len(o)
    BY <1>2, <2>1
  <2> QED BY <1>5, <2>1, <2>2
<1>7. \A k \in 1..n : b[k] = block[k]
  BY <1>5
<1>8. \A i \in p..e : n + (i - p) + 1 \in (n + 1)..Len(b) /\ b[n + (i - p) + 1] = o[i]
  <2> TAKE i \in p..e
  <2>1. n + (i - p) + 1 \in (n + 1)..(n + (e - p + 1)) /\ p + ((n + (i - p) + 1) - n) - 1 = i
    BY <1>2
  <2> QED BY <1>5, <2>1
<1>9. Len(b) \in Nat /\ Len(b) >= n
  BY <1>2, <1>5
<1>10. b \in Orders(P)
  <2> SUFFICES ASSUME NEW k \in 1..Len(b), NEW l \in 1..Len(b), k < l PROVE b[k] # b[l]
    BY <1>5, <1>9 DEF Orders
  <2>1. CASE l <= n
    BY <1>1, <1>2, <1>7, <2>1
  <2>2. CASE k <= n /\ l > n
    <3>1. l \in (n + 1)..Len(b) /\ k \in 1..n
      BY <1>2, <1>9, <2>2
    <3> DEFINE i == p + (l - n) - 1
    <3>2. i \in p..e /\ i \in 1..Len(o) /\ b[l] = o[i]
      BY <1>6, <3>1
    <3>3. b[k] = block[k]
      BY <1>7, <3>1
    <3> HIDE DEF i
    <3>4. ~ (i < p)
      BY <1>2, <3>2
    <3> QED BY <1>1, <3>1, <3>2, <3>3, <3>4
  <2>3. CASE k > n
    <3>1. l \in (n + 1)..Len(b) /\ k \in (n + 1)..Len(b)
      BY <1>2, <1>9, <2>3
    <3> DEFINE i == p + (k - n) - 1
               j == p + (l - n) - 1
    <3>2. /\ i \in 1..Len(o) /\ b[k] = o[i]
          /\ j \in 1..Len(o) /\ b[l] = o[j]
      BY <1>6, <3>1
    <3>3. i # j
      BY <1>2, <3>1
    <3> HIDE DEF i, j
    <3> QED BY <1>1, <3>2, <3>3
  <2> QED BY <1>2, <1>9, <2>1, <2>2, <2>3
<1>11. Ordered(V, b, Len(b))
  <2> SUFFICES ASSUME NEW k \in 1..Len(b), NEW x \in b[k].ins PROVE x \in V \cup Outs(b, k - 1)
    BY DEF Ordered
  <2>1. CASE k <= n
    <3>1. k \in 1..n /\ 1..(k - 1) \subseteq 1..n
      BY <1>2, <1>9, <2>1
    <3>2. Outs(b, k - 1) = Outs(block, k - 1)
      BY <1>7, <3>1 DEF Outs
    <3>3. block[k].ins \subseteq V \cup Outs(block, k - 1)
      BY <3>1 DEF Ordered, n
    <3> QED BY <1>7, <3>1, <3>2, <3>3
  <2>2. CASE k > n
    <3> DEFINE i == p + (k - n) - 1
    <3>1. i \in p..e /\ i \in 1..Len(o) /\ b[k] = o[i]
      <4>1. k \in (n + 1)..Len(b)
        BY <1>2, <1>9, <2>2
      <4> QED BY <1>6, <4>1
    <3>2. x \in V \cup {TxOut(u) : u \in P}
      BY <1>3, <3>1
    <3>3. ASSUME NEW u \in P, x = TxOut(u) PROVE x \in Outs(b, k - 1)
      <4>1. Spends(o[i], u)
        BY <3>1, <3>3 DEF Spends
      <4> HIDE DEF i
      <4>2. PICK j \in 1..Len(o) : o[j] = u
        BY <1>1, <3>1, <4>1
      <4>3. j < i
        BY <1>1, <3>1, <4>1, <4>2 DEF Topological
      <4>4. \E m \in 1..(k - 1) : b[m] = u
        <5>1. CASE j < p
          <6>1. PICK m \in 1..n : block[m] = o[j]
            BY <1>1, <5>1
          <6>2. m \in 1..(k - 1)
            BY <1>2, <2>2
          <6> QED BY <1>7, <4>2, <6>1, <6>2
        <5>2. CASE p <= j
          <6> DEFINE m == n + (j - p) + 1
          <6>1. j \in p..e
            BY <1>2, <3>1, <4>3, <5>2
          <6>2. b[m] = u
            BY <1>8, <4>2, <6>1
          <6>3. m \in 1..(k - 1)
            BY <1>2, <2>2, <4>3, <6>1 DEF i
          <6> HIDE DEF m
          <6> QED BY <6>2, <6>3
        <5> QED BY <1>2, <5>1, <5>2
      <4> QED BY <3>3, <4>4 DEF Outs
    <3> QED BY <3>2, <3>3
  <2> QED BY <1>2, <1>9, <2>1, <2>2
<1>12. ASSUME e < Len(o) PROVE ClusterInv(P, b, [c EXCEPT !.pos = e + 1])
  <2> DEFINE a == [order |-> o, starts |-> c.starts, pos |-> e + 1]
  <2>1. [c EXCEPT !.pos = e + 1] = a /\ a.order = o /\ a.starts = c.starts /\ a.pos = e + 1
    BY <1>1
  <2>2. ASSUME NEW i \in 1..Len(o) PROVE i < e + 1 <=> \E k \in 1..Len(b) : b[k] = o[i]
    <3>1. ASSUME i < p PROVE \E k \in 1..Len(b) : b[k] = o[i]
      <4>1. PICK k \in 1..n : block[k] = o[i]
        BY <1>1, <3>1
      <4>2. k \in 1..Len(b)
        BY <1>2, <1>9
      <4> QED BY <1>7, <4>1, <4>2
    <3>2. ASSUME p <= i, i < e + 1 PROVE \E k \in 1..Len(b) : b[k] = o[i]
      <4>1. i \in p..e
        BY <1>2, <3>2
      <4>2. n + (i - p) + 1 \in (n + 1)..Len(b) /\ b[n + (i - p) + 1] = o[i]
        BY <1>8, <4>1
      <4>3. n + (i - p) + 1 \in 1..Len(b)
        BY <1>2, <1>9, <4>2
      <4> QED BY <4>2, <4>3
    <3>3. ASSUME NEW k \in 1..Len(b), b[k] = o[i] PROVE i < e + 1
      <4>1. CASE k <= n
        <5>1. k \in 1..n
          BY <1>2, <4>1
        <5>2. i < p
          BY <1>1, <1>7, <3>3, <5>1
        <5> QED BY <1>2, <5>2
      <4>2. CASE k > n
        <5>1. k \in (n + 1)..Len(b)
          BY <1>2, <1>9, <4>2
        <5>2. p + (k - n) - 1 = i
          BY <1>1, <1>6, <3>3, <5>1
        <5>3. k \in Int /\ n < k /\ k <= Len(b) /\ Len(b) = n + (e - p + 1)
          BY <1>2, <1>5, <5>1
        <5> QED BY ONLY <1>2, <5>2, <5>3, i \in 1..Len(o)
      <4> QED BY <1>2, <1>9, <4>1, <4>2
    <3> QED BY <1>2, <3>1, <3>2, <3>3
  <2>3. e + 1 \in 1..Len(o)
    BY <1>2, <1>12
  <2>4. o \in Orders(P)
    BY <1>1 DEF Orders
  <2> HIDE DEF a
  <2>5. ClusterInv(P, b, a)
    BY <1>1, <2>1, <2>2, <2>3, <2>4, Zenon DEF ClusterInv, a
  <2> QED BY <2>1, <2>5
<1>13. ASSUME NEW d, ClusterInv(P, block, d),
              \A i \in 1..Len(o), j \in 1..Len(d.order) : o[i] # d.order[j]
       PROVE  ClusterInv(P, b, d)
  <2>1. ASSUME NEW i \in 1..Len(d.order)
        PROVE  (\E k \in 1..Len(b) : b[k] = d.order[i]) <=> \E k \in 1..n : block[k] = d.order[i]
    <3>1. ASSUME NEW k \in 1..n, block[k] = d.order[i] PROVE \E l \in 1..Len(b) : b[l] = d.order[i]
      <4>1. k \in 1..Len(b)
        BY <1>2, <1>9
      <4> QED BY <1>7, <3>1, <4>1
    <3>2. ASSUME NEW k \in 1..Len(b), b[k] = d.order[i] PROVE \E l \in 1..n : block[l] = d.order[i]
      <4>1. CASE k <= n
        <5>1. k \in 1..n
          BY <1>2, <4>1
        <5> QED BY <1>7, <3>2, <5>1
      <4>2. CASE k > n
        <5>1. k \in (n + 1)..Len(b)
          BY <1>2, <1>9, <4>2
        <5> QED BY <1>6, <1>13, <3>2, <5>1
      <4> QED BY <1>2, <1>9, <4>1, <4>2
    <3> QED BY <3>1, <3>2
  <2> QED BY <1>13, <2>1, Zenon DEF ClusterInv, n
<1> QED BY <1>10, <1>11, <1>12, <1>13, Zenon DEF b, o, p

\* A builder that goes on with fewer clusters.
LEMMA ClustersLeft ==
    ASSUME BuilderInv, builder # None, UNCHANGED <<height, coins, pool>>,
           NEW L \in SUBSET builder.left, NEW x,
           builder' = [left |-> L, block |-> builder.block, failed |-> x]
    PROVE  BuilderInv'
<1>1. /\ builder' = [left |-> builder'.left, block |-> builder'.block, failed |-> builder'.failed]
      /\ builder'.left \in SUBSET builder.left /\ builder'.block = builder.block
  OBVIOUS
<1>2. /\ height < MaxHeight /\ builder.block \in Orders(pool)
      /\ Ordered(coins, builder.block, Len(builder.block))
      /\ \A c \in builder.left : ClusterInv(pool, builder.block, c)
      /\ \A c, d \in builder.left : c # d =>
             \A i \in 1..Len(c.order), j \in 1..Len(d.order) : c.order[i] # d.order[j]
  BY Zenon DEF BuilderInv
<1>3. height' < MaxHeight /\ builder'.block \in Orders(pool')
  BY <1>1, <1>2
<1>4. Ordered(coins', builder'.block, Len(builder'.block))
  BY <1>1, <1>2
<1>5. \A c \in builder'.left : ClusterInv(pool', builder'.block, c)
  BY <1>1, <1>2
<1>6. \A c, d \in builder'.left : c # d =>
          \A i \in 1..Len(c.order), j \in 1..Len(d.order) : c.order[i] # d.order[j]
  <2> SUFFICES ASSUME NEW c \in builder'.left, NEW d \in builder'.left, c # d
               PROVE  \A i \in 1..Len(c.order), j \in 1..Len(d.order) : c.order[i] # d.order[j]
    BY Zenon
  <2>1. c \in builder.left /\ d \in builder.left
    BY <1>1, Zenon
  <2> QED BY <1>2, <2>1, Zenon
<1> QED BY <1>1, <1>3, <1>4, <1>5, <1>6, Zenon DEF BuilderInv

\* A builder that takes the current chunk of c.
LEMMA ChunkTaken ==
    ASSUME PoolInv, BuilderInv, builder # None, UNCHANGED <<height, coins, pool>>,
           NEW c \in builder.left,
           builder' = [left   |-> (builder.left \ {c}) \cup Advanced(c),
                       block  |-> builder.block \o GetCurrentChunk(c),
                       failed |-> 0]
    PROVE  BuilderInv'
<1> DEFINE e == ChunkEnd(c)
           b == builder.block \o GetCurrentChunk(c)
           a == [c EXCEPT !.pos = e + 1]
<1>1. /\ height < MaxHeight /\ builder.block \in Orders(pool)
      /\ Ordered(coins, builder.block, Len(builder.block))
      /\ \A d \in builder.left : ClusterInv(pool, builder.block, d)
      /\ \A d, f \in builder.left : d # f =>
             \A i \in 1..Len(d.order), j \in 1..Len(f.order) : d.order[i] # f.order[j]
  BY Zenon DEF BuilderInv
<1>2. ClusterInv(pool, builder.block, c)
  BY <1>1
<1>3. /\ Len(c.order) \in Nat /\ c.pos \in 1..Len(c.order)
      /\ c = [order |-> c.order, starts |-> c.starts, pos |-> c.pos]
  BY <1>2, LenProperties DEF ClusterInv, Orders
<1>4. e \in c.pos..Len(c.order) /\ e <= Len(c.order) /\ e \in Nat
  <2>1. e \in c.pos..Len(c.order)
    BY <1>3, ChunkEndIs
  <2> HIDE DEF e
  <2> QED BY <1>3, <2>1
<1>5. b = builder.block \o SubSeq(c.order, c.pos, e)
  BY DEF GetCurrentChunk
<1>6. \A t \in pool : t.ins \subseteq coins \cup {TxOut(u) : u \in pool}
  BY DEF PoolInv
<1>7. Advanced(c) = IF e = Len(c.order) THEN {} ELSE {a}
  BY DEF Advanced
<1>8. a.order = c.order
  BY <1>3
<1>9. /\ b \in Orders(pool) /\ Ordered(coins, b, Len(b))
      /\ e < Len(c.order) => ClusterInv(pool, b, a)
      /\ \A d : /\ ClusterInv(pool, builder.block, d)
                /\ \A i \in 1..Len(c.order), j \in 1..Len(d.order) : c.order[i] # d.order[j]
                => ClusterInv(pool, b, d)
  <2> HIDE DEF e, b
  <2> QED BY <1>1, <1>2, <1>4, <1>5, <1>6, ChunkAdded, Zenon
<1>10. /\ builder' = [left |-> builder'.left, block |-> builder'.block, failed |-> builder'.failed]
       /\ builder'.left = (builder.left \ {c}) \cup Advanced(c) /\ builder'.block = b
  OBVIOUS
<1> HIDE DEF e, b, a
<1>11. \A d \in builder'.left :
           \/ d \in builder.left /\ d # c
           \/ d = a /\ e < Len(c.order)
  <2>1. e # Len(c.order) => e < Len(c.order)
    BY <1>3, <1>4
  <2> QED BY <1>7, <1>10, <2>1
<1>12. \A d \in builder'.left : ClusterInv(pool, b, d)
  BY <1>1, <1>9, <1>11
<1>13. \A d, f \in builder'.left : d # f =>
           \A i \in 1..Len(d.order), j \in 1..Len(f.order) : d.order[i] # f.order[j]
  <2> SUFFICES ASSUME NEW d \in builder'.left, NEW f \in builder'.left, d # f
               PROVE  \A i \in 1..Len(d.order), j \in 1..Len(f.order) : d.order[i] # f.order[j]
    OBVIOUS
  <2>1. CASE d \in builder.left /\ f \in builder.left
    BY <1>1, <2>1, Zenon
  <2>2. CASE d = a /\ f \in builder.left /\ f # c
    <3>1. \A i \in 1..Len(c.order), j \in 1..Len(f.order) : c.order[i] # f.order[j]
      BY <1>1, <2>2, Zenon
    <3> QED BY <1>8, <2>2, <3>1, Zenon
  <2>3. CASE f = a /\ d \in builder.left /\ d # c
    <3>1. \A i \in 1..Len(d.order), j \in 1..Len(c.order) : d.order[i] # c.order[j]
      BY <1>1, <2>3, Zenon
    <3> QED BY <1>8, <2>3, <3>1, Zenon
  <2> QED BY <1>11, <2>1, <2>2, <2>3
<1>14. height' = height /\ coins' = coins /\ pool' = pool
  OBVIOUS
<1>15. /\ height' < MaxHeight /\ builder'.block \in Orders(pool')
       /\ Ordered(coins', builder'.block, Len(builder'.block))
       /\ \A d \in builder'.left : ClusterInv(pool', builder'.block, d)
  <2>1. height < MaxHeight /\ b \in Orders(pool) /\ Ordered(coins, b, Len(b))
    BY <1>1, <1>9, Zenon
  <2>2. builder'.block = b
    BY <1>10, Zenon
  <2> QED BY ONLY <1>12, <1>14, <2>1, <2>2, Zenon
<1> QED BY <1>10, <1>13, <1>15, Zenon DEF BuilderInv

\* A round of addChunks keeps the invariant.
LEMMA AddKeeps ==
    ASSUME ConstantsFit, Inv, AddChunks PROVE Inv'
<1>1. CoinsInv /\ PoolInv /\ TemplateInv /\ AttestationTrue /\ BuilderInv
  BY DEF Inv
<1>2. /\ builder # None
      /\ UNCHANGED <<height, coins, muhash, pool, made, template, outcome, attested>>
  BY Zenon DEF AddChunks, Idle
<1>3. builder = [left |-> builder.left, block |-> builder.block, failed |-> builder.failed]
  BY <1>1, <1>2, Zenon DEF BuilderInv
<1>4. PICK c \in NextOf(builder.left) :
          \/ builder' = [builder EXCEPT !.left = {}]
          \/ builder' = [left   |-> IF builder.failed + 1 > MaxFailures /\ FullEnough
                                   THEN {} ELSE builder.left \ {c},
                         block  |-> builder.block,
                         failed |-> builder.failed + 1]
          \/ builder' = [left   |-> (builder.left \ {c}) \cup Advanced(c),
                         block  |-> builder.block \o GetCurrentChunk(c),
                         failed |-> 0]
  BY Zenon DEF AddChunks
<1>5. c \in builder.left
  BY DEF NextOf
<1>6. BuilderInv'
  <2>1. CASE builder' = [builder EXCEPT !.left = {}]
    <3>1. builder' = [left |-> {}, block |-> builder.block, failed |-> builder.failed]
      BY <1>3, <2>1
    <3>2. {} \in SUBSET builder.left
      OBVIOUS
    <3> QED BY <1>1, <1>2, <3>1, <3>2, ClustersLeft, Zenon
  <2>2. CASE builder' = [left   |-> IF builder.failed + 1 > MaxFailures /\ FullEnough
                                   THEN {} ELSE builder.left \ {c},
                         block  |-> builder.block,
                         failed |-> builder.failed + 1]
    <3> DEFINE L == IF builder.failed + 1 > MaxFailures /\ FullEnough THEN {}
                    ELSE builder.left \ {c}
    <3>1. L \in SUBSET builder.left
      OBVIOUS
    <3>2. builder' = [left |-> L, block |-> builder.block, failed |-> builder.failed + 1]
      BY <2>2, Zenon
    <3> HIDE DEF L
    <3> QED BY <1>1, <1>2, <3>1, <3>2, ClustersLeft, Zenon
  <2>3. CASE builder' = [left   |-> (builder.left \ {c}) \cup Advanced(c),
                         block  |-> builder.block \o GetCurrentChunk(c),
                         failed |-> 0]
    BY <1>1, <1>2, <1>5, <2>3, ChunkTaken, Zenon
  <2> QED BY <1>4, <2>1, <2>2, <2>3, Zenon
<1>7. CoinsInv' /\ AttestationTrue'
  BY <1>1, <1>2, TipStays
<1>8. PoolInv'
  BY <1>1, <1>2 DEF PoolInv
<1>9. TemplateInv'
  BY <1>1, <1>2, TemplateKept
<1>10. TemplateOutsideGap' /\ outcome' # "invalid"
  BY <1>2 DEF Inv, TemplateOutsideGap, IsMuhashAttestationActive,
              IsIntraBlockAttestationFixActive
<1> QED BY <1>6, <1>7, <1>8, <1>9, <1>10, Zenon DEF Inv

-----------------------------------------------------------------------------
(* The theorems.                                                            *)

\* The invariant holds at the start.
LEMMA InitInv ==
    ASSUME ConstantsFit, Init PROVE Inv
<1>1. /\ height = 0 /\ coins = {Fund(i) : i \in 1..FundCount} /\ muhash = OfSet(coins)
      /\ pool = {} /\ made = 0
      /\ builder = None /\ template = None /\ outcome = "ok" /\ attested = None
  BY DEF Init
<1>2. CoinsInv
  <2>1. height \in 0..MaxHeight /\ made \in 0..TxCount
    BY <1>1 DEF ConstantsFit
  <2>2. coins \in SUBSET Outpoints /\ AccumulatorExact
    BY <1>1 DEF Outpoints, AccumulatorExact
  <2>3. \A x \in coins : \A y : x # <<y, "attested">> /\ x # <<y, "stripped">> /\ x # <<y, "tx">>
    BY <1>1 DEF Fund
  <2> QED BY <2>1, <2>2, <2>3 DEF CoinsInv, Coinbase, Stripped
<1>3. PoolInv
  BY <1>1 DEF PoolInv
<1>4. TemplateInv /\ BuilderInv /\ AttestationTrue /\ TemplateOutsideGap /\ outcome # "invalid"
  BY <1>1 DEF TemplateInv, BuilderInv, AttestationTrue, TemplateOutsideGap
<1> QED BY <1>2, <1>3, <1>4, Zenon DEF Inv

\* Every step keeps the invariant.
LEMMA NextKeeps ==
    ASSUME ConstantsFit, Inv, [Next]_vars PROVE Inv'
<1>1. CASE CreateNewBlock
  BY <1>1, CreateKeeps
<1>2. CASE AddChunks
  BY <1>2, AddKeeps
<1>3. CASE FinishBlock
  BY <1>3, FinishKeeps
<1>4. ASSUME NEW txs \in Arrangements(pool, TxCount), GenerateBlock(txs) PROVE Inv'
  BY <1>4, GenerateKeeps
<1>5. CASE SubmitBlock \/ ReceiveBlock
  BY <1>5, BlockKeeps
<1>6. CASE AcceptToMemoryPool
  BY <1>6, AcceptKeeps
<1>7. CASE UNCHANGED vars
  <2>1. UNCHANGED <<height, coins, muhash, pool, made, builder, template, outcome, attested>>
    BY <1>7 DEF vars
  <2>2. CoinsInv /\ PoolInv /\ TemplateInv /\ BuilderInv /\ AttestationTrue
        /\ TemplateOutsideGap /\ outcome # "invalid"
    BY Zenon DEF Inv
  <2>3. CoinsInv' /\ AttestationTrue'
    BY <2>1, <2>2, TipStays
  <2>4. PoolInv' /\ BuilderInv'
    BY <2>1, <2>2 DEF PoolInv, BuilderInv
  <2>5. TemplateInv'
    BY <2>1, <2>2, TemplateKept
  <2>6. TemplateOutsideGap' /\ outcome' # "invalid"
    BY <2>1, <2>2 DEF TemplateOutsideGap, IsMuhashAttestationActive,
                      IsIntraBlockAttestationFixActive
  <2> QED BY <2>3, <2>4, <2>5, <2>6, Zenon DEF Inv
<1> QED BY <1>1, <1>2, <1>3, <1>4, <1>5, <1>6, <1>7, Zenon DEF Next

\* The invariant always holds.
LEMMA AlwaysInv ==
    ASSUME ConstantsFit PROVE Spec => []Inv
<1>1. Init => Inv
  BY InitInv
<1>2. Inv /\ [Next]_vars => Inv'
  BY NextKeeps
<1> QED BY <1>1, <1>2, PTL DEF Spec

\* Whatever block is at the tip, its attestation is the hash of the coins after
\* it (ValidateUTXOCheckpoint, ComputeBlockUTXOAttestationHash).
THEOREM AttestationIsTrue ==
    ASSUME ConstantsFit PROVE Spec => []AttestationTrue
<1>1. Inv => AttestationTrue
  BY DEF Inv
<1> QED BY <1>1, AlwaysInv, PTL

\* The persistent accumulator is that of the coins at the tip (the commit at the
\* end of ConnectBlock).
THEOREM AccumulatorIsExact ==
    ASSUME ConstantsFit PROVE Spec => []AccumulatorExact
<1>1. Inv => AccumulatorExact
  BY DEF Inv, CoinsInv
<1> QED BY <1>1, AlwaysInv, PTL

\* A block that this node builds on its tip is one that it accepts
\* (CreateNewBlock, RegenerateUTXOAttestation).
THEOREM OwnBlocksAreValid ==
    ASSUME ConstantsFit PROVE Spec => []OwnBlocksValid
<1>1. Inv => OwnBlocksValid
  BY DEF Inv, TemplateInv, OwnBlocksValid
<1> QED BY <1>1, AlwaysInv, PTL

\* Outside the heights between the MuHash activation and the intra-block fix,
\* every call for a template gets one (CreateNewBlock).
THEOREM TemplateIsThereOutsideGap ==
    ASSUME ConstantsFit PROVE Spec => []TemplateOutsideGap
<1>1. Inv => TemplateOutsideGap
  BY DEF Inv
<1> QED BY <1>1, AlwaysInv, PTL
=============================================================================
