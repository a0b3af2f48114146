-------------------------- MODULE CoinsCacheProofs --------------------------
(***************************************************************************)
(* The caches of CoinsCache are coherent with what is below them, so that  *)
(* no call throws, and together they implement the plain maps of CoinsView.*)
(* Every operation works on one outpoint or on all of them alike: the      *)
(* lemmas about single entries carry the argument.                         *)
(***************************************************************************)
EXTENDS CoinsCache, FiniteSetTheorems, TLAPS

OptCoin == Coin \cup {Null}
OptEntry == Entry \cup {Absent}

-----------------------------------------------------------------------------
(* Single entries.                                                          *)

\* FetchCoin fills a miss with a clean copy and changes no answer.
LEMMA FetchedEntry ==
    ASSUME NEW e \in OptEntry, NEW b \in OptCoin, EntryOK(e, b)
    PROVE  /\ Fetched(e, b) \in OptEntry
           /\ EntryOK(Fetched(e, b), b)
           /\ Value(Fetched(e, b), b) = Value(e, b)
           /\ Fetched(e, b) = Absent => b = Null
BY AbsentAssumption DEF Fetched, EntryOK, Value, OptEntry, OptCoin, Entry, Flag

\* AddCoin of a coin that is not unspent, or with possible_overwrite.
LEMMA AddedEntry ==
    ASSUME NEW e \in OptEntry, NEW b \in OptCoin, EntryOK(e, b), NEW c \in Coin,
           NEW overwrite \in BOOLEAN, overwrite \/ Value(e, b) = Null
    PROVE  /\ Added(e, c, overwrite) \in OptEntry
           /\ EntryOK(Added(e, c, overwrite), b)
           /\ Value(Added(e, c, overwrite), b) = c
           /\ ~(~overwrite /\ IsUnspent(e))
BY AbsentAssumption, CoinsAssumption
DEF Added, EntryOK, Value, IsUnspent, IsDirty, OptEntry, OptCoin, Entry, Flag

\* SpendCoin leaves no coin behind, whether it clears the entry or erases it.
LEMMA SpentEntry ==
    ASSUME NEW e \in OptEntry, NEW b \in OptCoin, EntryOK(e, b), e = Absent => b = Null
    PROVE  /\ Spent(e) \in OptEntry
           /\ EntryOK(Spent(e), b)
           /\ Value(Spent(e), b) = Null
BY AbsentAssumption DEF Spent, EntryOK, Value, IsFresh, OptEntry, OptCoin, Entry, Flag

\* BatchWrite into a cache: the parent answers what the child answered, and
\* the FRESH flag it keeps or takes over is right for the grandparent.
LEMMA MergedEntry ==
    ASSUME NEW e \in OptEntry, NEW p \in OptEntry, NEW d \in OptCoin,
           EntryOK(p, d), EntryOK(e, Value(p, d))
    PROVE  /\ Merged(e, p) \in OptEntry
           /\ EntryOK(Merged(e, p), d)
           /\ Value(Merged(e, p), d) = Value(e, Value(p, d))
           /\ ~Misapplied(e, p)
BY AbsentAssumption
DEF Merged, Misapplied, EntryOK, Value, IsUnspent, IsDirty, IsFresh, OptEntry,
    OptCoin, Entry, Flag

\* BatchWrite into the database, with the cache emptied or kept.
LEMMA WrittenEntry ==
    ASSUME NEW e \in OptEntry, NEW b \in OptCoin, EntryOK(e, b)
    PROVE  /\ Written(e, b) \in OptCoin
           /\ Written(e, b) = Value(e, b)
           /\ Cleaned(e) \in OptEntry
           /\ EntryOK(Cleaned(e), Written(e, b))
           /\ Value(Cleaned(e), Written(e, b)) = Value(e, b)
BY AbsentAssumption
DEF Written, Cleaned, EntryOK, Value, IsDirty, OptEntry, OptCoin, Entry, Flag

-----------------------------------------------------------------------------
(* The caches.                                                              *)

\* What the invariant says about one outpoint.
LEMMA AtOutpoint ==
    ASSUME TypeOK, CacheInv, NEW o \in Outpoint
    PROVE  /\ db[o] \in OptCoin /\ tip[o] \in OptEntry /\ view[o] \in OptEntry
           /\ EntryOK(tip[o], db[o]) /\ EntryOK(view[o], TipView[o])
           /\ TipView[o] = Value(tip[o], db[o]) /\ TipView[o] \in OptCoin
           /\ WorkView[o] = Value(view[o], TipView[o]) /\ WorkView[o] \in OptCoin
<1>1. db[o] \in OptCoin /\ tip[o] \in OptEntry /\ view[o] \in OptEntry
  BY DEF TypeOK, OptCoin, OptEntry
<1>2. EntryOK(tip[o], db[o]) /\ EntryOK(view[o], TipView[o])
  BY DEF CacheInv, Coherent
<1>3. TipView[o] = Value(tip[o], db[o]) /\ TipView[o] \in OptCoin
  BY <1>1 DEF TipView, Lookup, Value, OptCoin, OptEntry, Entry
<1>4. WorkView[o] = Value(view[o], TipView[o]) /\ WorkView[o] \in OptCoin
  BY <1>1, <1>3 DEF WorkView, Lookup, Value, OptCoin, OptEntry, Entry
<1> QED BY <1>1, <1>2, <1>3, <1>4

\* The two views are determined by their values at every outpoint.
LEMMA SameViews ==
    ASSUME \A o \in Outpoint : TipView'[o] = TipView[o]
    PROVE  TipView' = TipView
BY DEF TipView, Lookup

\* One entry of the tip's cache changes and its answer does not.
LEMMA TipEntry ==
    ASSUME TypeOK, CacheInv, NEW o \in Outpoint, NEW e \in OptEntry,
           EntryOK(e, db[o]), Value(e, db[o]) = TipView[o],
           tip' = [tip EXCEPT ![o] = e], UNCHANGED db
    PROVE  /\ tip' \in [Outpoint -> OptEntry]
           /\ Coherent(tip', db')
           /\ TipView' = TipView
<1>1. tip \in [Outpoint -> OptEntry]
  BY DEF TypeOK, OptEntry
<1>2. tip' \in [Outpoint -> OptEntry]
  BY <1>1
<1>3. ASSUME NEW q \in Outpoint
      PROVE  EntryOK(tip'[q], db'[q]) /\ TipView'[q] = TipView[q]
  <2>1. TipView'[q] = Value(tip'[q], db'[q])
    BY DEF TipView, Lookup
  <2>2. CASE q = o
    BY <1>1, <2>1, <2>2
  <2>3. CASE q # o
    <3>1. tip'[q] = tip[q]
      BY <1>1, <2>3
    <3> QED BY <2>1, <3>1, AtOutpoint
  <2> QED BY <2>2, <2>3
<1> QED BY <1>2, <1>3, SameViews DEF Coherent

\* A lookup through the view may fill the tip's cache; no answer changes.
LEMMA FetchTipStep ==
    ASSUME TypeOK, CacheInv, NEW o \in Outpoint, FetchTip(o), UNCHANGED db
    PROVE  /\ tip' \in [Outpoint -> OptEntry]
           /\ Coherent(tip', db')
           /\ TipView' = TipView
<1>1. CASE op = "connect" \/ view[o] # Absent
  BY <1>1 DEF FetchTip, TipView, Lookup, CacheInv, TypeOK, OptEntry
<1>2. CASE ~(op = "connect" \/ view[o] # Absent)
  <2>1. tip' = [tip EXCEPT ![o] = Fetched(tip[o], db[o])]
    BY <1>2 DEF FetchTip, TypeOK
  <2>2. /\ Fetched(tip[o], db[o]) \in OptEntry
        /\ EntryOK(Fetched(tip[o], db[o]), db[o])
        /\ Value(Fetched(tip[o], db[o]), db[o]) = TipView[o]
    BY AtOutpoint, FetchedEntry
  <2> QED BY <2>1, <2>2, TipEntry
<1> QED BY <1>1, <1>2

\* One entry of the view changes over an unchanged tip.
LEMMA ViewEntry ==
    ASSUME TypeOK, CacheInv, NEW o \in Outpoint, NEW e \in OptEntry,
           EntryOK(e, TipView[o]), view' = [view EXCEPT ![o] = e],
           TipView' = TipView
    PROVE  /\ view' \in [Outpoint -> OptEntry]
           /\ Coherent(view', TipView')
           /\ WorkView' = [WorkView EXCEPT ![o] = Value(e, TipView[o])]
<1>1. view \in [Outpoint -> OptEntry]
  BY DEF TypeOK, OptEntry
<1>2. view' \in [Outpoint -> OptEntry]
  BY <1>1
<1>3. ASSUME NEW q \in Outpoint
      PROVE  /\ EntryOK(view'[q], TipView'[q])
             /\ Value(view'[q], TipView'[q])
                   = IF q = o THEN Value(e, TipView[o]) ELSE WorkView[q]
  <2>1. CASE q = o
    BY <1>1, <2>1
  <2>2. CASE q # o
    <3>1. view'[q] = view[q]
      BY <1>1, <2>2
    <3> QED BY <2>2, <3>1, AtOutpoint
  <2> QED BY <2>1, <2>2
<1>4. WorkView' = [q \in Outpoint |-> Value(view'[q], TipView'[q])]
  BY DEF WorkView, Lookup
<1>5. WorkView' = [q \in Outpoint |->
                     IF q = o THEN Value(e, TipView[o]) ELSE WorkView[q]]
  BY <1>3, <1>4
<1>6. WorkView = [q \in Outpoint |-> WorkView[q]]
  BY DEF WorkView, Lookup
<1> QED BY <1>2, <1>3, <1>5, <1>6 DEF Coherent

-----------------------------------------------------------------------------
(* The steps.  Each keeps the invariant and is a step of CoinsView.         *)

ViewStep == Views!VNext \/ UNCHANGED <<db, TipView, WorkView>>

\* The number of DIRTY entries, or of any outpoints, is a natural number.
LEMMA Countable ==
    ASSUME NEW S \in SUBSET Outpoint
    PROVE  Cardinality(S) \in Nat
BY CoinsAssumption, FS_Subset, FS_CardinalityType

\* A step that changes one entry of the view.
LEMMA ViewEntryStep ==
    ASSUME TypeOK, CacheInv, NEW o \in Outpoint, NEW e \in OptEntry,
           EntryOK(e, TipView[o]), view' = [view EXCEPT ![o] = e],
           TipView' = TipView, tip' \in [Outpoint -> OptEntry],
           Coherent(tip', db'), op \in {"connect", "disconnect"},
           viewDirty' \in Int, UNCHANGED <<db, tipDirty, op, thrown>>
    PROVE  TypeOK' /\ CacheInv' /\ ViewStep
<1>1. /\ view' \in [Outpoint -> OptEntry]
      /\ Coherent(view', TipView')
      /\ WorkView' = [WorkView EXCEPT ![o] = Value(e, TipView[o])]
  BY ViewEntry
<1>2. TypeOK'
  BY <1>1 DEF TypeOK, OptEntry
<1>3. CacheInv'
  BY <1>1 DEF CacheInv
<1>4. Value(e, TipView[o]) \in OptCoin
  BY AtOutpoint DEF Value, OptEntry, Entry, OptCoin
<1>5. Views!Put(o, Value(e, TipView[o]))
  BY <1>1 DEF Views!Put
<1>6. Views!VNext
  BY <1>4, <1>5 DEF Views!VNext, OptCoin
<1> QED BY <1>2, <1>3, <1>6 DEF ViewStep

\* SpendCoin.
LEMMA SpendCoinStep ==
    ASSUME TypeOK, CacheInv, NEW o \in Outpoint, SpendCoin(o)
    PROVE  TypeOK' /\ CacheInv' /\ ViewStep
<1> DEFINE e == ViewFetched(o)
<1>1. /\ e \in OptEntry /\ EntryOK(e, TipView[o])
      /\ e = Absent => TipView[o] = Null
  BY AtOutpoint, FetchedEntry DEF ViewFetched
<1> HIDE DEF e
<1>2. Spent(e) \in OptEntry /\ EntryOK(Spent(e), TipView[o])
  BY <1>1, AtOutpoint, SpentEntry
<1>3. view' = [view EXCEPT ![o] = Spent(e)] /\ FetchTip(o)
  BY DEF SpendCoin, e
<1>4. viewDirty' \in Int
  BY DEF SpendCoin, Count, TypeOK
<1>5. /\ op \in {"connect", "disconnect"}
      /\ UNCHANGED <<db, tipDirty, op, thrown>>
  BY DEF SpendCoin
<1>6. tip' \in [Outpoint -> OptEntry] /\ Coherent(tip', db') /\ TipView' = TipView
  BY <1>3, <1>5, FetchTipStep
<1> QED BY <1>2, <1>3, <1>4, <1>5, <1>6, ViewEntryStep

\* A lookup in the view.
LEMMA ReadViewStep ==
    ASSUME TypeOK, CacheInv, NEW o \in Outpoint, ReadView(o)
    PROVE  TypeOK' /\ CacheInv' /\ ViewStep
<1>1. ViewFetched(o) \in OptEntry /\ EntryOK(ViewFetched(o), TipView[o])
  BY AtOutpoint, FetchedEntry DEF ViewFetched
<1>2. /\ op \in {"connect", "disconnect"} /\ FetchTip(o)
      /\ view' = [view EXCEPT ![o] = ViewFetched(o)]
      /\ UNCHANGED <<db, tipDirty, viewDirty, op, thrown>>
  BY DEF ReadView
<1>3. tip' \in [Outpoint -> OptEntry] /\ Coherent(tip', db') /\ TipView' = TipView
  BY <1>2, FetchTipStep
<1>4. viewDirty' \in Int
  BY <1>2 DEF TypeOK
<1> QED BY <1>1, <1>2, <1>3, <1>4, ViewEntryStep

\* AddCoin on a fetched or unfetched entry, when it may not throw.
LEMMA AddCoinStep ==
    ASSUME TypeOK, CacheInv, NEW o \in Outpoint, NEW c \in Coin,
           NEW e \in OptEntry, EntryOK(e, TipView[o]),
           NEW overwrite \in BOOLEAN, overwrite \/ Value(e, TipView[o]) = Null,
           AddCoin(o, e, c, overwrite), op \in {"connect", "disconnect"},
           tip' \in [Outpoint -> OptEntry], Coherent(tip', db'),
           TipView' = TipView, UNCHANGED <<db, tipDirty, op>>
    PROVE  TypeOK' /\ CacheInv' /\ ViewStep
<1>1. /\ Added(e, c, overwrite) \in OptEntry
      /\ EntryOK(Added(e, c, overwrite), TipView[o])
      /\ ~(~overwrite /\ IsUnspent(e))
  BY AtOutpoint, AddedEntry
<1>2. /\ view' = [view EXCEPT ![o] = Added(e, c, overwrite)]
      /\ viewDirty' = viewDirty - Count(e) + 1
      /\ UNCHANGED thrown
  BY <1>1 DEF AddCoin
<1>3. viewDirty' \in Int
  BY <1>2 DEF Count, TypeOK
<1> QED BY <1>1, <1>2, <1>3, ViewEntryStep

\* An output of a block being connected.
LEMMA AddOutputStep ==
    ASSUME TypeOK, CacheInv, NEW o \in Outpoint, NEW c \in Coin,
           NEW coinbase \in BOOLEAN, AddOutput(o, c, coinbase)
    PROVE  TypeOK' /\ CacheInv' /\ ViewStep
<1>1. /\ op = "connect" /\ AddCoin(o, view[o], c, coinbase)
      /\ coinbase \/ WorkView[o] = Null
      /\ UNCHANGED <<db, tip, tipDirty, op>>
  BY DEF AddOutput
<1>2. tip' \in [Outpoint -> OptEntry] /\ Coherent(tip', db') /\ TipView' = TipView
  BY <1>1 DEF TypeOK, OptEntry, CacheInv, TipView, Lookup
<1>3. /\ view[o] \in OptEntry /\ EntryOK(view[o], TipView[o])
      /\ coinbase \/ Value(view[o], TipView[o]) = Null
  BY <1>1, AtOutpoint
<1> QED BY <1>1, <1>2, <1>3, AddCoinStep

\* An input restored while a block is disconnected.
LEMMA ApplyTxInUndoStep ==
    ASSUME TypeOK, CacheInv, NEW o \in Outpoint, NEW c \in Coin, ApplyTxInUndo(o, c)
    PROVE  TypeOK' /\ CacheInv' /\ ViewStep
<1> DEFINE e == ViewFetched(o)
           overwrite == WorkView[o] # Null
<1>1. /\ e \in OptEntry /\ EntryOK(e, TipView[o])
      /\ Value(e, TipView[o]) = WorkView[o]
  BY AtOutpoint, FetchedEntry DEF ViewFetched
<1>2. /\ op = "disconnect" /\ AddCoin(o, e, c, overwrite) /\ FetchTip(o)
      /\ UNCHANGED <<db, tipDirty, op>>
  BY DEF ApplyTxInUndo
<1>3. tip' \in [Outpoint -> OptEntry] /\ Coherent(tip', db') /\ TipView' = TipView
  BY <1>2, FetchTipStep
<1>4. overwrite \in BOOLEAN /\ (overwrite \/ Value(e, TipView[o]) = Null)
  BY <1>1
<1> HIDE DEF e, overwrite
<1> QED BY <1>1, <1>2, <1>3, <1>4, AddCoinStep

\* An empty view answers what the tip answers.
LEMMA EmptyView ==
    ASSUME view = Empty
    PROVE  WorkView = TipView
BY DEF WorkView, TipView, Lookup, Value, Empty

\* The same after the step.
LEMMA EmptyViewNext ==
    ASSUME view' = Empty
    PROVE  WorkView' = TipView' /\ Coherent(view', TipView')
BY DEF WorkView, TipView, Lookup, Value, Empty, Coherent, EntryOK

\* The view is merged into the tip: a commit.
LEMMA FlushViewStep ==
    ASSUME TypeOK, CacheInv, FlushView
    PROVE  TypeOK' /\ CacheInv' /\ ViewStep
<1>1. ASSUME NEW o \in Outpoint
      PROVE  /\ Merged(view[o], tip[o]) \in OptEntry
             /\ EntryOK(Merged(view[o], tip[o]), db[o])
             /\ Value(Merged(view[o], tip[o]), db[o]) = WorkView[o]
             /\ ~Misapplied(view[o], tip[o])
  BY AtOutpoint, MergedEntry
<1>2. /\ tip' = [o \in Outpoint |-> Merged(view[o], tip[o])]
      /\ tipDirty' = tipDirty + Cardinality(NewlyDirty) - Cardinality(ErasedDirty)
      /\ view' = Empty
      /\ viewDirty' = viewDirty - Cardinality({o \in Outpoint : IsDirty(view[o])})
      /\ op' = "idle" /\ UNCHANGED <<db, thrown>>
  BY <1>1 DEF FlushView
<1>3. tipDirty' \in Int /\ viewDirty' \in Int
  <2>1. /\ Cardinality(NewlyDirty) \in Nat /\ Cardinality(ErasedDirty) \in Nat
        /\ Cardinality({o \in Outpoint : IsDirty(view[o])}) \in Nat
    BY Countable DEF NewlyDirty, ErasedDirty
  <2> QED BY <1>2, <2>1 DEF TypeOK
<1>4. tip' \in [Outpoint -> OptEntry] /\ Coherent(tip', db')
  BY <1>1, <1>2 DEF Coherent
<1>5. TipView' = WorkView
  <2>1. TipView' = [o \in Outpoint |-> WorkView[o]]
    BY <1>1, <1>2 DEF TipView, Lookup
  <2> QED BY <2>1 DEF WorkView, Lookup
<1>6. WorkView' = WorkView /\ Coherent(view', TipView')
  BY <1>2, <1>5, EmptyViewNext
<1>7. TypeOK'
  BY <1>2, <1>3, <1>4 DEF TypeOK, OptEntry, Empty
<1>8. CacheInv'
  BY <1>2, <1>4, <1>6 DEF CacheInv
<1>9. Views!Commit
  BY <1>2, <1>5, <1>6 DEF Views!Commit
<1> QED BY <1>7, <1>8, <1>9 DEF ViewStep, Views!VNext

\* The view is thrown away.
LEMMA ResetViewStep ==
    ASSUME TypeOK, CacheInv, ResetView
    PROVE  TypeOK' /\ CacheInv' /\ ViewStep
<1>1. /\ view' = Empty /\ viewDirty' = 0 /\ op' = "idle"
      /\ UNCHANGED <<db, tip, tipDirty, thrown>>
  BY DEF ResetView
<1>2. TipView' = TipView
  BY <1>1 DEF TipView
<1>3. WorkView' = TipView /\ Coherent(view', TipView')
  BY <1>1, <1>2, EmptyViewNext
<1>4. TypeOK'
  BY <1>1 DEF TypeOK, Empty
<1>5. CacheInv'
  BY <1>1, <1>2, <1>3 DEF CacheInv
<1>6. Views!Abandon
  BY <1>1, <1>2, <1>3 DEF Views!Abandon
<1> QED BY <1>4, <1>5, <1>6 DEF ViewStep, Views!VNext

\* A coin is looked up in the tip's cache, or a clean one evicted from it.
LEMMA TipReadStep ==
    ASSUME TypeOK, CacheInv, NEW o \in Outpoint, ReadTip(o) \/ Uncache(o)
    PROVE  TypeOK' /\ CacheInv' /\ ViewStep
<1>1. op = "idle" /\ view = Empty /\ UNCHANGED <<db, view, tipDirty, viewDirty, op, thrown>>
  BY DEF ReadTip, Uncache, CacheInv
<1>2. \E e \in OptEntry : /\ EntryOK(e, db[o]) /\ Value(e, db[o]) = TipView[o]
                          /\ tip' = [tip EXCEPT ![o] = e]
  <2>1. CASE ReadTip(o)
    <3>1. tip' = [tip EXCEPT ![o] = Fetched(tip[o], db[o])]
      BY <2>1 DEF ReadTip, TypeOK
    <3> QED BY <3>1, AtOutpoint, FetchedEntry
  <2>2. CASE Uncache(o)
    <3>1. tip' = [tip EXCEPT ![o] = Absent] /\ "DIRTY" \notin tip[o].flags /\ tip[o] # Absent
      BY <2>2 DEF Uncache, IsDirty
    <3>2. db[o] = TipView[o]
      BY <3>1, AtOutpoint DEF EntryOK, Value
    <3>3. Absent \in OptEntry /\ EntryOK(Absent, db[o]) /\ Value(Absent, db[o]) = TipView[o]
      BY <3>2 DEF OptEntry, EntryOK, Value
    <3> QED BY <3>1, <3>3
  <2> QED BY <2>1, <2>2
<1>3. tip' \in [Outpoint -> OptEntry] /\ Coherent(tip', db') /\ TipView' = TipView
  BY <1>1, <1>2, TipEntry
<1>4. WorkView' = WorkView /\ Coherent(view', TipView')
  BY <1>1, <1>3, EmptyView, EmptyViewNext
<1>5. TypeOK'
  BY <1>1, <1>3 DEF TypeOK, OptEntry
<1>6. CacheInv'
  BY <1>1, <1>3, <1>4 DEF CacheInv
<1> QED BY <1>1, <1>3, <1>4, <1>5, <1>6 DEF ViewStep

\* The tip's cache is written to the database, and emptied or kept.
LEMMA FlushTipStep ==
    ASSUME TypeOK, CacheInv, NEW empty_cache \in BOOLEAN, FlushTip(empty_cache)
    PROVE  TypeOK' /\ CacheInv' /\ ViewStep
<1>1. /\ view = Empty /\ db' = [o \in Outpoint |-> Written(tip[o], db[o])]
      /\ UNCHANGED <<view, viewDirty, op, thrown>> /\ op \in {"idle", "load"}
  BY DEF FlushTip, CacheInv
<1>2. ASSUME NEW o \in Outpoint
      PROVE  /\ db'[o] \in OptCoin /\ db'[o] = TipView[o]
             /\ tip'[o] \in OptEntry /\ EntryOK(tip'[o], db'[o])
             /\ Value(tip'[o], db'[o]) = TipView[o]
  <2>1. /\ Written(tip[o], db[o]) \in OptCoin
        /\ Written(tip[o], db[o]) = TipView[o]
        /\ Cleaned(tip[o]) \in OptEntry
        /\ EntryOK(Cleaned(tip[o]), Written(tip[o], db[o]))
        /\ Value(Cleaned(tip[o]), Written(tip[o], db[o])) = TipView[o]
    BY AtOutpoint, WrittenEntry
  <2>2. db'[o] = Written(tip[o], db[o])
    BY <1>1
  <2>3. CASE empty_cache
    <3>1. tip'[o] = Absent
      BY <2>3 DEF FlushTip, Empty
    <3> QED BY <2>1, <2>2, <3>1 DEF OptEntry, EntryOK, Value
  <2>4. CASE ~empty_cache
    <3>1. tip'[o] = Cleaned(tip[o])
      BY <2>4 DEF FlushTip
    <3> QED BY <2>1, <2>2, <3>1
  <2> QED BY <2>3, <2>4
<1>3. db' \in [Outpoint -> OptCoin] /\ db' = TipView
  <2>1. db' = [o \in Outpoint |-> db'[o]]
    BY <1>1
  <2>2. TipView = [o \in Outpoint |-> TipView[o]]
    BY DEF TipView, Lookup
  <2> QED BY <1>2, <2>1, <2>2
<1>4. tip' \in [Outpoint -> OptEntry]
  <2>1. tip' = [o \in Outpoint |-> tip'[o]]
    BY DEF FlushTip, Empty
  <2> QED BY <1>2, <2>1
<1>5. TipView' = TipView
  BY <1>2, SameViews DEF TipView, Lookup
<1>6. WorkView' = WorkView /\ Coherent(view', TipView')
  BY <1>1, <1>5, EmptyView, EmptyViewNext
<1>7. tipDirty' \in Int
  <2>1. Cardinality({o \in Outpoint : IsDirty(tip[o])}) \in Nat
    BY Countable
  <2> QED BY <2>1 DEF FlushTip, TypeOK
<1>8. TypeOK'
  BY <1>1, <1>3, <1>4, <1>7 DEF TypeOK, OptEntry, OptCoin
<1>9. CacheInv'
  BY <1>1, <1>2, <1>6 DEF CacheInv, Coherent
<1>10. Views!Persist
  BY <1>3, <1>5, <1>6 DEF Views!Persist
<1> QED BY <1>8, <1>9, <1>10 DEF ViewStep, Views!VNext

\* A coin of a snapshot is put into the tip's cache.
LEMMA EmplaceStep ==
    ASSUME TypeOK, CacheInv, NEW o \in Outpoint, NEW c \in Coin, Emplace(o, c)
    PROVE  TypeOK' /\ CacheInv' /\ ViewStep
<1> DEFINE e == [coin |-> c, flags |-> {"DIRTY"}]
<1>1. /\ op = "load" /\ view = Empty /\ tip' = [tip EXCEPT ![o] = e]
      /\ tipDirty' = tipDirty + 1
      /\ UNCHANGED <<db, view, viewDirty, op, thrown>>
  BY DEF Emplace, CacheInv
<1>2. e \in OptEntry /\ EntryOK(e, db[o]) /\ Value(e, db[o]) = c
  BY AbsentAssumption DEF OptEntry, Entry, Flag, EntryOK, Value
<1>3. tip \in [Outpoint -> OptEntry]
  BY DEF TypeOK, OptEntry
<1> HIDE DEF e
<1>4. tip' \in [Outpoint -> OptEntry]
  BY <1>1, <1>2, <1>3
<1>5. ASSUME NEW q \in Outpoint
      PROVE  /\ EntryOK(tip'[q], db'[q])
             /\ Value(tip'[q], db'[q]) = IF q = o THEN c ELSE TipView[q]
  <2>1. CASE q = o
    BY <1>1, <1>2, <1>3, <2>1
  <2>2. CASE q # o
    <3>1. tip'[q] = tip[q] /\ db'[q] = db[q]
      BY <1>1, <1>3, <2>2
    <3> QED BY <2>2, <3>1, AtOutpoint
  <2> QED BY <2>1, <2>2
<1>6. TipView' = [TipView EXCEPT ![o] = c]
  <2>1. TipView' = [q \in Outpoint |-> IF q = o THEN c ELSE TipView[q]]
    BY <1>5 DEF TipView, Lookup
  <2>2. TipView = [q \in Outpoint |-> TipView[q]]
    BY DEF TipView, Lookup
  <2> QED BY <2>1, <2>2
<1>7. WorkView = TipView /\ WorkView' = TipView' /\ Coherent(view', TipView')
  BY <1>1, EmptyView, EmptyViewNext
<1>8. TypeOK'
  BY <1>1, <1>4 DEF TypeOK, OptEntry
<1>9. CacheInv'
  BY <1>1, <1>5, <1>7 DEF CacheInv, Coherent
<1>10. Views!Load(o, c)
  BY <1>1, <1>6, <1>7 DEF Views!Load
<1> QED BY <1>8, <1>9, <1>10 DEF ViewStep, Views!VNext

\* The caches are lost with the process.
LEMMA CrashStep ==
    ASSUME TypeOK, CacheInv, Crash
    PROVE  TypeOK' /\ CacheInv' /\ ViewStep
<1>1. /\ tip' = Empty /\ view' = Empty /\ tipDirty' = 0 /\ viewDirty' = 0
      /\ op' = "idle" /\ UNCHANGED <<db, thrown>>
  BY DEF Crash
<1>2. TypeOK'
  BY <1>1 DEF TypeOK, Empty
<1>3. TipView' = db /\ Coherent(tip', db')
  BY <1>1 DEF TipView, Lookup, Value, Empty, Coherent, EntryOK, TypeOK
<1>4. WorkView' = db /\ Coherent(view', TipView')
  BY <1>1, <1>3, EmptyViewNext
<1>5. CacheInv'
  BY <1>1, <1>3, <1>4 DEF CacheInv
<1>6. Views!Lose
  BY <1>1, <1>3, <1>4 DEF Views!Lose
<1> QED BY <1>2, <1>5, <1>6 DEF ViewStep, Views!VNext

\* Steps that touch neither the caches nor the database.
LEMMA IdleStep ==
    ASSUME TypeOK, CacheInv,
           (\E kind \in {"connect", "disconnect"} : Begin(kind)) \/ Loaded \/ UNCHANGED vars
    PROVE  TypeOK' /\ CacheInv' /\ ViewStep
<1>1. UNCHANGED <<db, tip, view, tipDirty, viewDirty, thrown>>
  BY DEF Begin, Loaded, vars
<1>2. /\ op' \in {"idle", "load", "connect", "disconnect"}
      /\ op' \in {"idle", "load"} => view = Empty
  BY DEF Begin, Loaded, vars, CacheInv, TypeOK
<1>3. TipView' = TipView /\ WorkView' = WorkView
  BY <1>1 DEF TipView, WorkView
<1>4. TypeOK'
  BY <1>1, <1>2 DEF TypeOK
<1>5. CacheInv'
  BY <1>1, <1>2, <1>3 DEF CacheInv
<1> QED BY <1>1, <1>3, <1>4, <1>5 DEF ViewStep

\* Every step.
LEMMA CacheStep ==
    ASSUME TypeOK, CacheInv, [Next]_vars
    PROVE  TypeOK' /\ CacheInv' /\ ViewStep
<1>1. CASE Block
  <2>1. CASE Begin("connect") \/ Begin("disconnect")
    BY <2>1, IdleStep
  <2>2. CASE FlushView \/ ResetView
    BY <2>2, FlushViewStep, ResetViewStep
  <2>3. ASSUME NEW o \in Outpoint, SpendCoin(o) \/ ReadView(o)
        PROVE  TypeOK' /\ CacheInv' /\ ViewStep
    BY <2>3, SpendCoinStep, ReadViewStep
  <2>4. ASSUME NEW o \in Outpoint, NEW c \in Coin,
               AddOutput(o, c, TRUE) \/ AddOutput(o, c, FALSE) \/ ApplyTxInUndo(o, c)
        PROVE  TypeOK' /\ CacheInv' /\ ViewStep
    BY <2>4, AddOutputStep, ApplyTxInUndoStep
  <2> QED BY <1>1, <2>1, <2>2, <2>3, <2>4 DEF Block
<1>2. CASE Tip
  <2>1. ASSUME NEW o \in Outpoint, ReadTip(o) \/ Uncache(o)
        PROVE  TypeOK' /\ CacheInv' /\ ViewStep
    BY <2>1, TipReadStep
  <2>2. CASE FlushTip(TRUE) \/ FlushTip(FALSE)
    BY <2>2, FlushTipStep
  <2>3. ASSUME NEW o \in Outpoint, NEW c \in Coin, Emplace(o, c)
        PROVE  TypeOK' /\ CacheInv' /\ ViewStep
    BY <2>3, EmplaceStep
  <2>4. CASE Loaded \/ Crash
    BY <2>4, IdleStep, CrashStep
  <2> QED BY <1>2, <2>1, <2>2, <2>3, <2>4 DEF Tip
<1>3. CASE UNCHANGED vars
  BY <1>3, IdleStep
<1> QED BY <1>1, <1>2, <1>3 DEF Next

-----------------------------------------------------------------------------
(* The theorems.                                                            *)

\* The initial state: empty caches over an empty database.
LEMMA CacheInit ==
    ASSUME Init
    PROVE  TypeOK /\ CacheInv /\ Views!VInit
<1>1. TypeOK
  <2>1. thrown \in BOOLEAN
    BY DEF Init
  <2>2. db \in [Outpoint -> Coin \cup {Null}]
    BY DEF Init
  <2>3. /\ tip \in [Outpoint -> Entry \cup {Absent}]
        /\ view \in [Outpoint -> Entry \cup {Absent}]
    BY DEF Init, Empty
  <2>4. /\ tipDirty \in Int /\ viewDirty \in Int
        /\ op \in {"idle", "load", "connect", "disconnect"}
    BY DEF Init
  <2> QED BY <2>1, <2>2, <2>3, <2>4 DEF TypeOK
<1>2. TipView = db
  BY DEF Init, TipView, Lookup, Value, Empty
<1>3. WorkView = db
  BY <1>2, EmptyView DEF Init
<1>4. CacheInv
  <2>1. Coherent(tip, db) /\ Coherent(view, TipView)
    BY DEF Init, Coherent, EntryOK, Empty
  <2> QED BY <2>1 DEF Init, CacheInv
<1>5. Views!VInit
  BY <1>2, <1>3 DEF Init, Views!VInit
<1> QED BY <1>1, <1>4, <1>5

\* The caches are always coherent with what is below them.
THEOREM CacheCoherent == Spec => [](TypeOK /\ CacheInv)
<1>1. Init => TypeOK /\ CacheInv
  BY CacheInit
<1>2. TypeOK /\ CacheInv /\ [Next]_vars => (TypeOK /\ CacheInv)'
  BY CacheStep
<1> QED BY <1>1, <1>2, PTL DEF Spec

\* Neither AddCoin nor BatchWrite ever throws its logic_error, whatever the
\* blocks, however often caches are flushed, synced, filled and evicted.
THEOREM NeverThrows == Spec => []NoLogicError
<1>1. CacheInv => NoLogicError
  BY DEF CacheInv, NoLogicError
<1> QED BY <1>1, CacheCoherent, PTL

\* FetchEffectiveUTXOs over one layer: the base's scan overlaid with the cache.
LEMMA ScanLayer ==
    ASSUME NEW cache, NEW base
    PROVE  FetchEffectiveUTXOs(cache, Cursor(base)) = Cursor(Lookup(cache, base))
<1> DEFINE Map == Lookup(cache, base)
           Kept == {u \in Cursor(base) : cache[u[1]] = Absent}
           Own == {<<o, cache[o].coin>> : o \in {o \in Outpoint : IsUnspent(cache[o])}}
<1>1. ASSUME NEW o \in Outpoint, Map[o] # Null
      PROVE  <<o, Map[o]>> \in Kept \cup Own
  <2>1. CASE cache[o] = Absent
    <3>1. Map[o] = base[o] /\ base[o] # Null
      BY <1>1, <2>1 DEF Lookup, Value
    <3>2. <<o, base[o]>> \in Cursor(base)
      BY <3>1 DEF Cursor
    <3> QED BY <2>1, <3>1, <3>2
  <2>2. CASE cache[o] # Absent
    <3>1. Map[o] = cache[o].coin /\ IsUnspent(cache[o])
      BY <1>1, <2>2 DEF Lookup, Value, IsUnspent
    <3> QED BY <3>1
  <2> QED BY <2>1, <2>2
<1>2. ASSUME NEW u \in Kept
      PROVE  u \in Cursor(Map)
  <2>1. PICK o \in Outpoint : u = <<o, base[o]>> /\ base[o] # Null
    BY DEF Cursor
  <2>2. cache[o] = Absent
    BY <2>1
  <2>3. Map[o] = base[o]
    BY <2>2 DEF Lookup, Value
  <2> QED BY <2>1, <2>3 DEF Cursor
<1>3. ASSUME NEW u \in Own
      PROVE  u \in Cursor(Map)
  <2>1. PICK o \in Outpoint : u = <<o, cache[o].coin>> /\ IsUnspent(cache[o])
    OBVIOUS
  <2>2. Map[o] = cache[o].coin /\ Map[o] # Null
    BY <2>1 DEF Lookup, Value, IsUnspent
  <2> QED BY <2>1, <2>2 DEF Cursor
<1>4. Cursor(Map) \subseteq Kept \cup Own
  BY <1>1 DEF Cursor
<1> HIDE DEF Map
<1>5. FetchEffectiveUTXOs(cache, Cursor(base)) = Kept \cup Own
  BY DEF FetchEffectiveUTXOs
<1> HIDE DEF Kept, Own
<1>6. Kept \cup Own = Cursor(Map)
  BY <1>2, <1>3, <1>4
<1> QED BY <1>5, <1>6 DEF Map

\* A scan through one cache or two sees exactly what lookups see.
THEOREM ScansExact == Spec => []ScanMatchesLookups
<1>1. ASSUME TypeOK
      PROVE  ScanMatchesLookups
  <2>1. FetchEffectiveUTXOs(tip, Cursor(db)) = Cursor(TipView)
    BY ScanLayer DEF TipView
  <2>2. FetchEffectiveUTXOs(view, Cursor(TipView)) = Cursor(WorkView)
    BY ScanLayer DEF WorkView
  <2> QED BY <2>1, <2>2 DEF ScanMatchesLookups
<1> QED BY <1>1, CacheCoherent, PTL

\* The database and its two layers of caches implement the plain maps.
THEOREM CachesImplementViews == Spec => ImplementsViews
<1>1. Init => Views!VInit
  BY CacheInit
<1>2. TypeOK /\ CacheInv /\ [Next]_vars => [Views!VNext]_(Views!viewVars)
  <2> SUFFICES ASSUME TypeOK, CacheInv, [Next]_vars
               PROVE  [Views!VNext]_(Views!viewVars)
    OBVIOUS
  <2>1. ViewStep
    BY CacheStep
  <2> QED BY <2>1 DEF ViewStep, Views!viewVars
<1> QED BY <1>1, <1>2, CacheCoherent, PTL DEF Spec, ImplementsViews, Views!VSpec

-----------------------------------------------------------------------------
(* The dirty counters.                                                      *)

\* The outpoints whose entries are DIRTY.
Dirty(cache) == {o \in Outpoint : IsDirty(cache[o])}

\* Each m_dirty_count is the number of DIRTY entries of its cache.
CountInv == tipDirty = Cardinality(Dirty(tip)) /\ viewDirty = Cardinality(Dirty(view))

\* Finitely many entries are DIRTY.
LEMMA DirtyFinite ==
    ASSUME NEW cache PROVE IsFiniteSet(Dirty(cache)) /\ Cardinality(Dirty(cache)) \in Nat
<1>1. Dirty(cache) \in SUBSET Outpoint
  BY DEF Dirty
<1>2. IsFiniteSet(Dirty(cache))
  BY <1>1, CoinsAssumption, FS_Subset
<1> QED BY <1>2, FS_CardinalityType

\* An empty cache has none.
LEMMA NoneDirty == Cardinality(Dirty(Empty)) = 0
<1>1. Dirty(Empty) = {}
  BY DEF Dirty, Empty, IsDirty
<1> QED BY <1>1, FS_EmptySet

\* When one entry changes, the count loses the old entry and gains the new one.
LEMMA EntryCount ==
    ASSUME NEW cache \in [Outpoint -> OptEntry], NEW o \in Outpoint, NEW e
    PROVE  Cardinality(Dirty([cache EXCEPT ![o] = e]))
             = Cardinality(Dirty(cache)) - Count(cache[o]) + Count(e)
<1> DEFINE D == Dirty(cache)
           E == Dirty([cache EXCEPT ![o] = e])
<1>1. IsFiniteSet(D) /\ Cardinality(D) \in Nat
  BY DirtyFinite
<1>2. o \in D <=> IsDirty(cache[o])
  BY DEF Dirty
<1>3. E = IF IsDirty(e) THEN D \cup {o} ELSE D \ {o}
  BY DEF Dirty
<1> HIDE DEF D, E
<1>4. CASE IsDirty(e)
  <2>1. E = D \cup {o} /\ Count(e) = 1
    BY <1>3, <1>4 DEF Count
  <2>2. CASE o \in D
    <3>1. Count(cache[o]) = 1 /\ Cardinality(E) = Cardinality(D)
      BY <1>1, <1>2, <2>1, <2>2, FS_AddElement DEF Count
    <3> QED BY <1>1, <2>1, <3>1 DEF D, E
  <2>3. CASE o \notin D
    <3>1. Count(cache[o]) = 0 /\ Cardinality(E) = Cardinality(D) + 1
      BY <1>1, <1>2, <2>1, <2>3, FS_AddElement DEF Count
    <3> QED BY <1>1, <2>1, <3>1 DEF D, E
  <2> QED BY <2>2, <2>3
<1>5. CASE ~IsDirty(e)
  <2>1. E = D \ {o} /\ Count(e) = 0
    BY <1>3, <1>5 DEF Count
  <2>2. CASE o \in D
    <3>1. Count(cache[o]) = 1 /\ Cardinality(E) = Cardinality(D) - 1
      BY <1>1, <1>2, <2>1, <2>2, FS_RemoveElement DEF Count
    <3> QED BY <1>1, <2>1, <3>1 DEF D, E
  <2>3. CASE o \notin D
    <3>1. Count(cache[o]) = 0 /\ Cardinality(E) = Cardinality(D)
      BY <1>1, <1>2, <2>1, <2>3, FS_RemoveElement DEF Count
    <3> QED BY <1>1, <2>1, <3>1 DEF D, E
  <2> QED BY <2>2, <2>3
<1> QED BY <1>4, <1>5

\* Replacing an entry by one that is as dirty changes no count.
LEMMA SameDirty ==
    ASSUME NEW cache \in [Outpoint -> OptEntry], NEW o \in Outpoint, NEW e,
           IsDirty(e) <=> IsDirty(cache[o])
    PROVE  Dirty([cache EXCEPT ![o] = e]) = Dirty(cache)
BY DEF Dirty

\* A fetched entry is as dirty as the one it fills.
LEMMA FetchedDirty == ASSUME NEW e, NEW c PROVE IsDirty(Fetched(e, c)) <=> IsDirty(e)
BY DEF Fetched, IsDirty

\* Counts of entries are 0 or 1.
LEMMA CountType == ASSUME NEW e PROVE Count(e) \in {0, 1}
BY DEF Count

\* A fetch through the view leaves the tip's DIRTY entries.
LEMMA FetchTipDirty ==
    ASSUME TypeOK, NEW o \in Outpoint, FetchTip(o) PROVE Dirty(tip') = Dirty(tip)
<1>1. tip \in [Outpoint -> OptEntry]
  BY DEF TypeOK, OptEntry
<1>2. CASE tip' = tip
  BY <1>2
<1>3. CASE tip' = [tip EXCEPT ![o] = Fetched(tip[o], db[o])]
  BY <1>1, <1>3, FetchedDirty, SameDirty
<1> QED BY <1>2, <1>3 DEF FetchTip

\* A step that changes one entry of the view, and the count with it.
LEMMA ViewCount ==
    ASSUME TypeOK, CountInv, NEW o \in Outpoint, NEW e, NEW e2,
           IsDirty(e) <=> IsDirty(view[o]), view' = [view EXCEPT ![o] = e2],
           viewDirty' = viewDirty - Count(e) + Count(e2), Dirty(tip') = Dirty(tip), UNCHANGED tipDirty
    PROVE  CountInv'
<1>1. view \in [Outpoint -> OptEntry]
  BY DEF TypeOK, OptEntry
<1>2. Count(e) = Count(view[o])
  BY DEF Count
<1>3. Cardinality(Dirty(view')) = Cardinality(Dirty(view)) - Count(view[o]) + Count(e2)
  BY <1>1, EntryCount
<1> QED BY <1>2, <1>3 DEF CountInv

\* AddCoin leaves a DIRTY entry.
LEMMA AddedDirty ==
    ASSUME NEW e \in OptEntry, NEW c \in Coin, NEW overwrite
    PROVE  Count(Added(e, c, overwrite)) = 1
<1>1. Added(e, c, overwrite) \in Entry
  <2>1. (IF e = Absent THEN {} ELSE e.flags) \in SUBSET Flag
    BY DEF OptEntry, Entry
  <2>2. (IF overwrite \/ IsDirty(e) THEN {} ELSE {"FRESH"}) \in SUBSET Flag
    BY DEF Flag
  <2> QED BY <2>1, <2>2 DEF Added, Entry, Flag
<1>2. Added(e, c, overwrite) # Absent
  BY <1>1, AbsentAssumption
<1>3. "DIRTY" \in Added(e, c, overwrite).flags
  BY DEF Added
<1> QED BY <1>2, <1>3 DEF Count, IsDirty

\* AddCoin keeps the view's count.
LEMMA CountAdd ==
    ASSUME TypeOK, CountInv, NEW o \in Outpoint, NEW c \in Coin, NEW overwrite, NEW e \in OptEntry,
           IsDirty(e) <=> IsDirty(view[o]), AddCoin(o, e, c, overwrite),
           Dirty(tip') = Dirty(tip), UNCHANGED tipDirty
    PROVE  CountInv'
<1>1. viewDirty \in Int /\ Count(e) \in {0, 1}
  BY CountType DEF TypeOK
<1>2. CASE ~overwrite /\ IsUnspent(e)
  <2>1. view' = [view EXCEPT ![o] = e] /\ viewDirty' = viewDirty
    BY <1>2 DEF AddCoin
  <2>2. viewDirty' = viewDirty - Count(e) + Count(e)
    BY <1>1, <2>1
  <2> QED BY <2>1, <2>2, ViewCount
<1>3. CASE ~(~overwrite /\ IsUnspent(e))
  <2>1. /\ view' = [view EXCEPT ![o] = Added(e, c, overwrite)]
        /\ viewDirty' = viewDirty - Count(e) + Count(Added(e, c, overwrite))
    BY <1>3, AddedDirty DEF AddCoin
  <2> QED BY <2>1, ViewCount
<1> QED BY <1>2, <1>3

\* The steps of a block operation on one outpoint.
LEMMA CountOutpoint ==
    ASSUME TypeOK, CacheInv, CountInv, NEW o \in Outpoint
    PROVE  /\ SpendCoin(o) \/ ReadView(o) => CountInv'
           /\ \A c \in Coin : \/ AddOutput(o, c, TRUE) \/ AddOutput(o, c, FALSE)
                              \/ ApplyTxInUndo(o, c)
                              => CountInv'
<1>1. /\ IsDirty(ViewFetched(o)) <=> IsDirty(view[o])
      /\ ViewFetched(o) \in OptEntry /\ view[o] \in OptEntry
  BY AtOutpoint, FetchedEntry, FetchedDirty DEF ViewFetched
<1>2. ASSUME SpendCoin(o) PROVE CountInv'
  <2>1. /\ view' = [view EXCEPT ![o] = Spent(ViewFetched(o))]
        /\ viewDirty' = viewDirty - Count(ViewFetched(o)) + Count(Spent(ViewFetched(o)))
        /\ FetchTip(o) /\ UNCHANGED tipDirty
    BY <1>2 DEF SpendCoin
  <2> QED BY <1>1, <2>1, FetchTipDirty, ViewCount
<1>3. ASSUME ReadView(o) PROVE CountInv'
  <2>1. /\ view' = [view EXCEPT ![o] = ViewFetched(o)]
        /\ FetchTip(o) /\ UNCHANGED <<tipDirty, viewDirty>>
    BY <1>3 DEF ReadView
  <2>2. viewDirty \in Int /\ Count(ViewFetched(o)) \in {0, 1}
    BY CountType DEF TypeOK
  <2>3. viewDirty' = viewDirty - Count(ViewFetched(o)) + Count(ViewFetched(o))
    BY <2>1, <2>2
  <2> QED BY <1>1, <2>1, <2>3, FetchTipDirty, ViewCount
<1>4. ASSUME NEW c \in Coin, NEW coinbase \in BOOLEAN, AddOutput(o, c, coinbase) PROVE CountInv'
  <2>1. AddCoin(o, view[o], c, coinbase) /\ tip' = tip /\ UNCHANGED tipDirty
    BY <1>4 DEF AddOutput
  <2> QED BY <1>1, <2>1, CountAdd
<1>5. ASSUME NEW c \in Coin, ApplyTxInUndo(o, c) PROVE CountInv'
  <2>1. AddCoin(o, ViewFetched(o), c, WorkView[o] # Null) /\ FetchTip(o) /\ UNCHANGED tipDirty
    BY <1>5 DEF ApplyTxInUndo
  <2> QED BY <1>1, <2>1, FetchTipDirty, CountAdd
<1> QED BY <1>2, <1>3, <1>4, <1>5

\* What a count becomes when some outpoints come and some go.
LEMMA MovedCount ==
    ASSUME NEW D \in SUBSET Outpoint, NEW A \in SUBSET Outpoint, NEW R \in SUBSET Outpoint,
           D \cap A = {}, R \subseteq D
    PROVE  Cardinality((D \cup A) \ R) = Cardinality(D) + Cardinality(A) - Cardinality(R)
<1>1. IsFiniteSet(D) /\ IsFiniteSet(A) /\ IsFiniteSet(R)
  BY CoinsAssumption, FS_Subset
<1>2. Cardinality(D) \in Nat /\ Cardinality(A) \in Nat /\ Cardinality(R) \in Nat
  BY Countable
<1>3. IsFiniteSet(D \cup A) /\ Cardinality(D \cup A) = Cardinality(D) + Cardinality(A) - Cardinality(D \cap A)
  BY <1>1, FS_Union
<1>4. Cardinality(D \cap A) = 0
  BY FS_EmptySet
<1>5. Cardinality((D \cup A) \ R) = Cardinality(D \cup A) - Cardinality((D \cup A) \cap R)
  BY <1>3, FS_Difference
<1>6. (D \cup A) \cap R = R
  OBVIOUS
<1>7. Cardinality((D \cup A) \ R) = Cardinality(D \cup A) - Cardinality(R)
  BY <1>5, <1>6
<1> QED BY <1>2, <1>3, <1>4, <1>7

\* The entries of the tip after a merge: one DIRTY before is DIRTY or gone.
LEMMA MergedDirty ==
    ASSUME NEW e, NEW p, IsDirty(p), Merged(e, p) # Absent PROVE IsDirty(Merged(e, p))
BY DEF Merged, IsDirty

\* A merge adds what is newly DIRTY and takes off what it erases.
LEMMA CountFlushView == ASSUME TypeOK, CacheInv, CountInv, FlushView PROVE CountInv'
<1>1. \A o \in Outpoint : ~Misapplied(view[o], tip[o])
  BY AtOutpoint, MergedEntry
<1>2. /\ tip' = [o \in Outpoint |-> Merged(view[o], tip[o])]
      /\ tipDirty' = tipDirty + Cardinality(NewlyDirty) - Cardinality(ErasedDirty)
      /\ view' = Empty
      /\ viewDirty' = viewDirty - Cardinality(Dirty(view))
  BY <1>1 DEF FlushView, Dirty
<1> DEFINE D == Dirty(tip)
<1>3. /\ D \in SUBSET Outpoint /\ NewlyDirty \in SUBSET Outpoint /\ ErasedDirty \in SUBSET Outpoint
      /\ D \cap NewlyDirty = {} /\ ErasedDirty \subseteq D /\ ErasedDirty \cap NewlyDirty = {}
  BY DEF NewlyDirty, ErasedDirty, Dirty
<1>4. Dirty(tip') = (D \cup NewlyDirty) \ ErasedDirty
  <2>1. ASSUME NEW o \in Outpoint
        PROVE  IsDirty(tip'[o]) <=> (o \in D \/ o \in NewlyDirty) /\ o \notin ErasedDirty
    <3>1. tip'[o] = Merged(view[o], tip[o])
      BY <1>2
    <3>2. CASE IsDirty(tip[o])
      <4>1. o \in D /\ (o \in ErasedDirty <=> Merged(view[o], tip[o]) = Absent)
        BY <3>2 DEF Dirty, ErasedDirty
      <4>2. IsDirty(Merged(view[o], tip[o])) <=> Merged(view[o], tip[o]) # Absent
        BY <3>2, MergedDirty DEF IsDirty
      <4> QED BY <3>1, <4>1, <4>2
    <3>3. CASE ~IsDirty(tip[o])
      BY <3>1, <3>3 DEF Dirty, ErasedDirty, NewlyDirty
    <3> QED BY <3>2, <3>3
  <2>2. \A o \in Outpoint : o \in Dirty(tip') <=> IsDirty(tip'[o])
    BY DEF Dirty
  <2>3. Dirty(tip') \subseteq Outpoint
    BY DEF Dirty
  <2> HIDE DEF D
  <2> QED BY <1>3, <2>1, <2>2, <2>3
<1>5. Cardinality(D) \in Nat /\ Cardinality(Dirty(view)) \in Nat
  BY DirtyFinite
<1> HIDE DEF D
<1>6. Cardinality((D \cup NewlyDirty) \ ErasedDirty)
        = Cardinality(D) + Cardinality(NewlyDirty) - Cardinality(ErasedDirty)
  BY <1>3, MovedCount
<1>7. tipDirty = Cardinality(D) /\ viewDirty = Cardinality(Dirty(view))
  BY DEF CountInv, D
<1>8. tipDirty' = Cardinality(Dirty(tip'))
  BY <1>2, <1>4, <1>6, <1>7
<1>9. viewDirty' = Cardinality(Dirty(view'))
  BY <1>2, <1>5, <1>7, NoneDirty
<1> QED BY <1>8, <1>9 DEF CountInv

\* The steps of the tip's cache.
LEMMA CountTip == ASSUME TypeOK, CacheInv, CountInv, Tip PROVE CountInv'
<1>1. tip \in [Outpoint -> OptEntry] /\ tipDirty \in Int
  BY DEF TypeOK, OptEntry
<1>2. ASSUME NEW o \in Outpoint, ReadTip(o) \/ Uncache(o) PROVE CountInv'
  <2>1. UNCHANGED <<view, tipDirty, viewDirty>>
    BY <1>2 DEF ReadTip, Uncache
  <2>2. CASE ReadTip(o)
    <3>1. Dirty(tip') = Dirty(tip)
      BY <1>1, <2>2, FetchedDirty, SameDirty DEF ReadTip
    <3> QED BY <2>1, <3>1 DEF CountInv
  <2>3. CASE Uncache(o)
    <3>1. tip' = [tip EXCEPT ![o] = Absent] /\ ~IsDirty(tip[o]) /\ ~IsDirty(Absent)
      BY <2>3 DEF Uncache, IsDirty
    <3>2. Dirty(tip') = Dirty(tip)
      BY <1>1, <3>1, SameDirty
    <3> QED BY <2>1, <3>2 DEF CountInv
  <2> QED BY <1>2, <2>2, <2>3
<1>3. ASSUME NEW empty_cache \in BOOLEAN, FlushTip(empty_cache) PROVE CountInv'
  <2>1. /\ tip' = IF empty_cache THEN Empty ELSE [o \in Outpoint |-> Cleaned(tip[o])]
        /\ tipDirty' = tipDirty - Cardinality(Dirty(tip))
        /\ UNCHANGED <<view, viewDirty>>
    BY <1>3 DEF FlushTip, Dirty
  <2>2. Dirty([o \in Outpoint |-> Cleaned(tip[o])]) = {}
    <3>1. ASSUME NEW o \in Outpoint PROVE ~IsDirty(Cleaned(tip[o]))
      <4>1. tip[o] \in OptEntry
        BY <1>1
      <4> QED BY <4>1 DEF Cleaned, IsDirty, OptEntry, Entry
    <3> QED BY <3>1 DEF Dirty
  <2>3. Cardinality(Dirty(tip')) = 0
    <3>1. CASE empty_cache
      BY <2>1, <3>1, NoneDirty
    <3>2. CASE ~empty_cache
      BY <2>1, <2>2, <3>2, FS_EmptySet
    <3> QED BY <3>1, <3>2
  <2>4. tipDirty' = 0
    BY <2>1, DirtyFinite DEF CountInv
  <2> QED BY <2>1, <2>3, <2>4 DEF CountInv
<1>4. ASSUME NEW o \in Outpoint, NEW c \in Coin, Emplace(o, c) PROVE CountInv'
  <2> DEFINE e == [coin |-> c, flags |-> {"DIRTY"}]
  <2>1. /\ tip' = [tip EXCEPT ![o] = e] /\ tip[o] = Absent
        /\ tipDirty' = tipDirty + 1 /\ UNCHANGED <<view, viewDirty>>
    BY <1>4 DEF Emplace
  <2>2. Count(tip[o]) = 0
    BY <2>1 DEF Count, IsDirty
  <2>3. Count(e) = 1
    <3>1. e \in Entry
      BY DEF Entry, Flag
    <3> QED BY <3>1, AbsentAssumption DEF Count, IsDirty
  <2> HIDE DEF e
  <2>4. Cardinality(Dirty(tip')) = Cardinality(Dirty(tip)) - Count(tip[o]) + Count(e)
    BY <1>1, <2>1, EntryCount
  <2>5. Cardinality(Dirty(tip)) \in Nat
    BY DirtyFinite
  <2>6. Cardinality(Dirty(tip')) = Cardinality(Dirty(tip)) + 1
    BY <2>2, <2>3, <2>4, <2>5
  <2> QED BY <2>1, <2>6 DEF CountInv
<1>5. CASE Loaded
  BY <1>5 DEF Loaded, CountInv
<1>6. CASE Crash
  BY <1>6, NoneDirty DEF Crash, CountInv
<1> QED BY <1>2, <1>3, <1>4, <1>5, <1>6 DEF Tip

\* Every step keeps the counts.
LEMMA CountStep == ASSUME TypeOK, CacheInv, CountInv, [Next]_vars PROVE CountInv'
<1>1. CASE Begin("connect") \/ Begin("disconnect") \/ UNCHANGED vars
  BY <1>1 DEF Begin, vars, CountInv
<1>2. CASE ResetView
  BY <1>2, NoneDirty DEF ResetView, CountInv
<1>3. CASE Block
  BY <1>1, <1>2, <1>3, CountFlushView, CountOutpoint DEF Block
<1> QED BY <1>1, <1>3, CountTip DEF Next

\* SanityCheck holds after every call, for every set of outpoints and coins: coherence
\* gives the flags, and the running m_dirty_count never drifts from the number of
\* DIRTY entries, so that no subtraction on it underflows.
THEOREM CachesSane == Spec => []SanityCheck
<1>1. Init => CountInv
  BY NoneDirty DEF Init, CountInv
<1>2. TypeOK /\ CacheInv /\ CountInv /\ [Next]_vars => CountInv'
  BY CountStep
<1>3. TypeOK /\ CacheInv /\ CountInv => SanityCheck
  <2> SUFFICES ASSUME TypeOK, CacheInv, CountInv PROVE SanityCheck
    OBVIOUS
  <2>1. ASSUME NEW e \in OptEntry, NEW coin, EntryOK(e, coin), e # Absent
        PROVE  IF e.coin = Null THEN e.flags = {"DIRTY"}
               ELSE "FRESH" \in e.flags => "DIRTY" \in e.flags
    BY <2>1 DEF EntryOK, OptEntry, Entry, Flag
  <2>2. Sane(tip, tipDirty) /\ Sane(view, viewDirty)
    BY <2>1, AtOutpoint DEF Sane, CountInv, Dirty
  <2> QED BY <2>2 DEF SanityCheck
<1> QED BY <1>1, <1>2, <1>3, CacheCoherent, PTL DEF Spec
=============================================================================
