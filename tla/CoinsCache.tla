----------------------------- MODULE CoinsCache ------------------------------
(***************************************************************************)
(* The coins views of a chainstate: the coins database (CCoinsViewDB), the *)
(* cache over it (m_cacheview, CoinsTip()) and the short-lived cache over  *)
(* that one in which a block is connected (CoinsViewOverlay) or            *)
(* disconnected (a plain CCoinsViewCache).  Every cache entry carries the  *)
(* flags DIRTY and FRESH, which decide what a flush writes and what a      *)
(* spend may forget.  The calls are made under cs_main, each is one step.  *)
(***************************************************************************)
EXTENDS Integers, FiniteSets

CONSTANTS
    Outpoint,
    Coin,        \* unspent coins
    Null,        \* a cleared Coin: IsSpent(), or no coin in the database
    Absent       \* no entry in a cache

ASSUME CoinsAssumption ==
    /\ Null \notin Coin
    /\ IsFiniteSet(Outpoint)

Flag == {"DIRTY", "FRESH"}
Entry == [coin : Coin \cup {Null}, flags : SUBSET Flag]

ASSUME AbsentAssumption == Absent \notin Entry

VARIABLES
    db,          \* the database: outpoint -> coin or Null
    tip,         \* cacheCoins of CoinsTip(): outpoint -> entry or Absent
    view,        \* cacheCoins of the view of the block operation
    tipDirty,    \* m_dirty_count of the two caches
    viewDirty,
    op,          \* what the views are used for
    thrown       \* a std::logic_error was thrown

vars == <<db, tip, view, tipDirty, viewDirty, op, thrown>>

Empty == [o \in Outpoint |-> Absent]

Init ==
    /\ db = [o \in Outpoint |-> Null]
    /\ tip = Empty /\ view = Empty
    /\ tipDirty = 0 /\ viewDirty = 0
    /\ op \in {"idle", "load"}
    /\ thrown = FALSE

-----------------------------------------------------------------------------
(* The cache operations on one entry.                                       *)

IsDirty(e) == e # Absent /\ "DIRTY" \in e.flags
IsFresh(e) == e # Absent /\ "FRESH" \in e.flags
IsUnspent(e) == e # Absent /\ e.coin # Null
Count(e) == IF IsDirty(e) THEN 1 ELSE 0

\* PeekCoin, GetCoin: the entry's coin, or the base's if there is no entry.
Value(e, coin) == IF e = Absent THEN coin ELSE e.coin

Lookup(cache, base) == [o \in Outpoint |-> Value(cache[o], base[o])]

TipView == Lookup(tip, db)
WorkView == Lookup(view, TipView)

\* FetchCoin: a miss is filled from the base, clean, unless the base has
\* nothing.
Fetched(e, coin) ==
    IF e = Absent /\ coin # Null THEN [coin |-> coin, flags |-> {}] ELSE e

\* Mutant: a coin that is re-added after a spend not yet flushed is FRESH.
Added_SpentIsFresh(e, c, possible_overwrite) ==
    [coin |-> c,
     flags |-> (IF e = Absent THEN {} ELSE e.flags) \cup {"DIRTY"}
               \cup (IF possible_overwrite THEN {} ELSE {"FRESH"})]

\* Mutant: possible_overwrite does not keep the coin from being FRESH.
Added_OverwriteIsFresh(e, c, possible_overwrite) ==
    [coin |-> c,
     flags |-> (IF e = Absent THEN {} ELSE e.flags) \cup {"DIRTY"}
               \cup (IF IsDirty(e) THEN {} ELSE {"FRESH"})]

\* AddCoin after its check: the new entry is DIRTY, and FRESH if the coin is
\* known to be new and no spend of it waits to be flushed.
Added(e, c, possible_overwrite) ==
    [coin |-> c,
     flags |-> (IF e = Absent THEN {} ELSE e.flags) \cup {"DIRTY"}
               \cup (IF possible_overwrite \/ IsDirty(e) THEN {} ELSE {"FRESH"})]

\* SpendCoin after its fetch: a FRESH entry is forgotten, any other is
\* cleared and must reach the parent.
Spent(e) ==
    IF e = Absent \/ IsFresh(e) THEN Absent
    ELSE [coin |-> Null, flags |-> e.flags \cup {"DIRTY"}]

\* Mutant: the parent's FRESH flag is ignored when the child spent the coin.
Merged_KeepsFresh(e, p) ==
    IF ~IsDirty(e) THEN p
    ELSE IF p = Absent
         THEN [coin |-> e.coin, flags |-> {"DIRTY"} \cup (e.flags \cap {"FRESH"})]
         ELSE [coin |-> e.coin, flags |-> p.flags \cup {"DIRTY"}]

\* CCoinsViewCache::BatchWrite: the parent's entry p after the child's e was
\* written to it.
Merged(e, p) ==
    IF ~IsDirty(e) THEN p
    ELSE IF p = Absent
         THEN IF IsFresh(e) /\ e.coin = Null THEN Absent
              ELSE [coin |-> e.coin, flags |-> {"DIRTY"} \cup (e.flags \cap {"FRESH"})]
         ELSE IF IsFresh(p) /\ e.coin = Null THEN Absent
              ELSE [coin |-> e.coin, flags |-> p.flags \cup {"DIRTY"}]

\* Mutant: the spent entries of the cache do not hide the base's coins.
FetchEffectiveUTXOs_SpentShown(cache, base) ==
    {u \in base : ~IsUnspent(cache[u[1]])}
    \cup {<<o, cache[o].coin>> : o \in {o \in Outpoint : IsUnspent(cache[o])}}

\* FetchEffectiveUTXOs, behind Cursor and ForEachUnspent of a cache: the
\* base's coins without an entry in the cache, and the cache's unspent ones.
FetchEffectiveUTXOs(cache, base) ==
    {u \in base : cache[u[1]] = Absent}
    \cup {<<o, cache[o].coin>> : o \in {o \in Outpoint : IsUnspent(cache[o])}}

\* A cursor over a map of coins, as the database has one.
Cursor(map) == {<<o, map[o]>> : o \in {o \in Outpoint : map[o] # Null}}

\* The check in BatchWrite that a FRESH coin does not exist in the parent.
Misapplied(e, p) == IsDirty(e) /\ IsFresh(e) /\ IsUnspent(p)

\* CCoinsViewDB::BatchWrite: only DIRTY entries are written.
Written(e, coin) == IF IsDirty(e) THEN e.coin ELSE coin

\* NextAndMaybeErase when the cache is kept: flagged entries are erased if
\* spent, unflagged otherwise.
Cleaned(e) ==
    IF e = Absent \/ e.flags = {} THEN e
    ELSE IF e.coin = Null THEN Absent ELSE [e EXCEPT !.flags = {}]

-----------------------------------------------------------------------------
(* A block is connected or disconnected in the view.                        *)

\* ConnectTip takes the overlay, DisconnectTip a new cache; both are empty.
Begin(kind) ==
    /\ op = "idle" /\ op' = kind
    /\ UNCHANGED <<db, tip, view, tipDirty, viewDirty, thrown>>

\* FetchCoin on the view: the overlay peeks through the tip, the plain cache
\* fills the tip as well.
FetchTip(o) ==
    tip' = IF op = "connect" \/ view[o] # Absent THEN tip
           ELSE [tip EXCEPT ![o] = Fetched(@, db[o])]

ViewFetched(o) == Fetched(view[o], TipView[o])

\* SpendCoin on the view: UpdateCoins for the inputs of a transaction,
\* DisconnectBlock for its outputs.
SpendCoin(o) ==
    /\ op \in {"connect", "disconnect"}
    /\ LET e == ViewFetched(o) IN
       /\ view' = [view EXCEPT ![o] = Spent(e)]
       /\ viewDirty' = viewDirty - Count(e) + Count(Spent(e))
    /\ FetchTip(o)
    /\ UNCHANGED <<db, tipDirty, op, thrown>>

\* AddCoin(o, c, possible_overwrite) on an entry e of the view.
AddCoin(o, e, c, possible_overwrite) ==
    IF ~possible_overwrite /\ IsUnspent(e)
    THEN /\ thrown' = TRUE
         /\ view' = [view EXCEPT ![o] = e]
         /\ UNCHANGED viewDirty
    ELSE /\ view' = [view EXCEPT ![o] = Added(e, c, possible_overwrite)]
         /\ viewDirty' = viewDirty - Count(e) + 1
         /\ UNCHANGED thrown

\* AddCoins for the outputs of a transaction of the block: only a coinbase
\* may overwrite.  Other outpoints are new: BIP30 is checked, or BIP34 gives
\* every coinbase and so every transaction its own id.
AddOutput(o, c, coinbase) ==
    /\ op = "connect"
    /\ coinbase \/ WorkView[o] = Null
    /\ AddCoin(o, view[o], c, coinbase)
    /\ UNCHANGED <<db, tip, tipDirty, op>>

\* ApplyTxInUndo: whether the coin overwrites another is read from the view.
ApplyTxInUndo(o, c) ==
    /\ op = "disconnect"
    /\ AddCoin(o, ViewFetched(o), c, WorkView[o] # Null)
    /\ FetchTip(o)
    /\ UNCHANGED <<db, tipDirty, op>>

\* HaveInputs, AccessCoin and the checks of ConnectBlock read coins.
ReadView(o) ==
    /\ op \in {"connect", "disconnect"}
    /\ view' = [view EXCEPT ![o] = ViewFetched(o)]
    /\ FetchTip(o)
    /\ UNCHANGED <<db, tipDirty, viewDirty, op, thrown>>

NewlyDirty == {o \in Outpoint : IsDirty(Merged(view[o], tip[o])) /\ ~IsDirty(tip[o])}
ErasedDirty == {o \in Outpoint : IsDirty(tip[o]) /\ Merged(view[o], tip[o]) = Absent}

\* view.Flush(): the view is merged into the tip and emptied.
FlushView ==
    /\ op \in {"connect", "disconnect"}
    /\ IF \E o \in Outpoint : Misapplied(view[o], tip[o])
       THEN thrown' = TRUE /\ UNCHANGED <<tip, view, tipDirty, viewDirty>>
       ELSE /\ tip' = [o \in Outpoint |-> Merged(view[o], tip[o])]
            /\ tipDirty' = tipDirty + Cardinality(NewlyDirty) - Cardinality(ErasedDirty)
            /\ view' = Empty
            /\ viewDirty' = viewDirty - Cardinality({o \in Outpoint : IsDirty(view[o])})
            /\ UNCHANGED thrown
    /\ op' = "idle"
    /\ UNCHANGED db

\* The block is invalid or cannot be disconnected: the reset guard clears
\* the overlay, the plain cache goes out of scope.
ResetView ==
    /\ op \in {"connect", "disconnect"}
    /\ op' = "idle"
    /\ view' = Empty /\ viewDirty' = 0
    /\ UNCHANGED <<db, tip, tipDirty, thrown>>

-----------------------------------------------------------------------------
(* The tip's cache.                                                         *)

\* The mempool and the RPCs look coins up in CoinsTip().
ReadTip(o) ==
    /\ op = "idle"
    /\ tip' = [tip EXCEPT ![o] = Fetched(@, db[o])]
    /\ UNCHANGED <<db, view, tipDirty, viewDirty, op, thrown>>

\* Uncache: what a rejected transaction brought into the cache is dropped,
\* unless it was modified.
Uncache(o) ==
    /\ op = "idle"
    /\ tip[o] # Absent /\ ~IsDirty(tip[o])
    /\ tip' = [tip EXCEPT ![o] = Absent]
    /\ UNCHANGED <<db, view, tipDirty, viewDirty, op, thrown>>

\* FlushStateToDisk: CoinsTip().Flush() if the cache is to be emptied,
\* CoinsTip().Sync() otherwise.  A snapshot being loaded is flushed.
FlushTip(empty_cache) ==
    /\ op = "idle" \/ (op = "load" /\ empty_cache)
    /\ db' = [o \in Outpoint |-> Written(tip[o], db[o])]
    /\ tip' = IF empty_cache THEN Empty ELSE [o \in Outpoint |-> Cleaned(tip[o])]
    /\ tipDirty' = tipDirty - Cardinality({o \in Outpoint : IsDirty(tip[o])})
    /\ UNCHANGED <<view, viewDirty, op, thrown>>

\* EmplaceCoinInternalDANGER: a coin of a snapshot goes into the cache of a
\* new chainstate; an entry that exists is kept.
Emplace(o, c) ==
    /\ op = "load"
    /\ tip[o] = Absent
    /\ tip' = [tip EXCEPT ![o] = [coin |-> c, flags |-> {"DIRTY"}]]
    /\ tipDirty' = tipDirty + 1
    /\ UNCHANGED <<db, view, viewDirty, op, thrown>>

\* PopulateAndValidateSnapshot ends with a flush.
Loaded ==
    /\ op = "load" /\ tip = Empty
    /\ op' = "idle"
    /\ UNCHANGED <<db, tip, view, tipDirty, viewDirty, thrown>>

\* The process dies.  (What a crash during the loading of a snapshot leaves is
\* the subject of SnapshotActivation.)
Crash ==
    /\ op # "load"
    /\ tip' = Empty /\ view' = Empty
    /\ tipDirty' = 0 /\ viewDirty' = 0
    /\ op' = "idle"
    /\ UNCHANGED <<db, thrown>>

-----------------------------------------------------------------------------
Block ==
    \/ Begin("connect") \/ Begin("disconnect")
    \/ FlushView \/ ResetView
    \/ \E o \in Outpoint : SpendCoin(o) \/ ReadView(o)
    \/ \E o \in Outpoint, c \in Coin :
          \/ AddOutput(o, c, TRUE) \/ AddOutput(o, c, FALSE)
          \/ ApplyTxInUndo(o, c)

Tip ==
    \/ \E o \in Outpoint : ReadTip(o) \/ Uncache(o)
    \/ FlushTip(TRUE) \/ FlushTip(FALSE)
    \/ \E o \in Outpoint, c \in Coin : Emplace(o, c)
    \/ Loaded \/ Crash

Next == Block \/ Tip

Spec == Init /\ [][Next]_vars

-----------------------------------------------------------------------------
(* Properties.                                                              *)

TypeOK ==
    /\ db \in [Outpoint -> Coin \cup {Null}]
    /\ tip \in [Outpoint -> Entry \cup {Absent}]
    /\ view \in [Outpoint -> Entry \cup {Absent}]
    /\ tipDirty \in Int /\ viewDirty \in Int
    /\ op \in {"idle", "load", "connect", "disconnect"}
    /\ thrown \in BOOLEAN

Sane(cache, dirty) ==
    /\ \A o \in Outpoint : cache[o] # Absent =>
          IF cache[o].coin = Null THEN cache[o].flags = {"DIRTY"}
          ELSE "FRESH" \in cache[o].flags => "DIRTY" \in cache[o].flags
    /\ dirty = Cardinality({o \in Outpoint : IsDirty(cache[o])})

\* CCoinsViewCache::SanityCheck holds of both caches after every call: a
\* spent entry is DIRTY and not FRESH, a FRESH one is DIRTY, and the running
\* m_dirty_count is the number of DIRTY entries (no subtraction underflows).
SanityCheck == Sane(tip, tipDirty) /\ Sane(view, viewDirty)

\* No sequence of calls by the node makes AddCoin or BatchWrite throw: FRESH
\* is never put on a coin that the parent cache has, across any number of
\* connects, disconnects, flushes, syncs and evictions.
NoLogicError == ~thrown

\* A scan of a cache (ForEachUnspent, the legacy attestation hash) sees the
\* coins that lookups see, through one layer of cache and through two.
ScanMatchesLookups ==
    /\ FetchEffectiveUTXOs(tip, Cursor(db)) = Cursor(TipView)
    /\ FetchEffectiveUTXOs(view, FetchEffectiveUTXOs(tip, Cursor(db))) = Cursor(WorkView)

Views == INSTANCE CoinsView WITH
    disk <- db, committed <- TipView, working <- WorkView

\* The database and the two caches implement three plain maps: no flag, fill,
\* eviction, partial or emptying flush ever changes what a lookup answers,
\* and a flush makes exactly the lookups' answers durable.
ImplementsViews == Views!VSpec

-----------------------------------------------------------------------------
(* The inductive invariant.                                                 *)

\* A clean entry is a copy of what the base has; a FRESH entry stands for a
\* coin that the base does not have.
EntryOK(e, coin) ==
    e # Absent =>
        /\ "DIRTY" \notin e.flags => e.flags = {} /\ e.coin # Null /\ e.coin = coin
        /\ "FRESH" \in e.flags => coin = Null /\ e.coin # Null

Coherent(cache, base) == \A o \in Outpoint : EntryOK(cache[o], base[o])

CacheInv ==
    /\ Coherent(tip, db)
    /\ Coherent(view, TipView)
    /\ op \in {"idle", "load"} => view = Empty
    /\ ~thrown
=============================================================================
