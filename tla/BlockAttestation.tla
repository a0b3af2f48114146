-------------------------- MODULE BlockAttestation --------------------------
(***************************************************************************)
(* The UTXO attestation of a block, transaction by transaction: how a      *)
(* miner's template gets it (node/miner.cpp, rpc/mining.cpp) and how a     *)
(* block is checked against it (validation.cpp), below the MuHash height,  *)
(* between that height and the intra-block fix, and above both.            *)
(*                                                                         *)
(* A transaction is a record with an id, its inputs and its fee, and has   *)
(* one spendable output.  The coinbase of height h pays Coinbase(h);       *)
(* without its attestation output it has another txid, and pays            *)
(* Stripped(h).  Hashes are taken to be injective: HASH_SERIALIZED is the  *)
(* set of coins, a MuHash how often each coin was multiplied in.           *)
(***************************************************************************)
EXTENDS Integers, FiniteSets, Sequences, Functions, FiniteSetsExt

CONSTANTS
    FundCount,           \* confirmed coins at the start
    TxCount,             \* transactions, numbered as they are made
    Fees,                \* fee rates; all transactions have the same size
    blockMinFeeRate,
    nBlockMaxWeight,     \* in transactions
    MaxFailures,         \* MAX_CONSECUTIVE_FAILURES
    CoinbaseMaturity,    \* COINBASE_MATURITY
    MuhashHeight,        \* MuhashAttestationActivationHeight
    FixHeight,           \* IntraBlockAttestationFixActivationHeight
    MaxHeight,           \* bound on the height
    None

VARIABLES
    height,     \* of the tip
    coins,      \* CoinsTip()
    muhash,     \* m_utxo_muhash
    pool,       \* the transactions in the mempool
    made,       \* how many transactions were made
    builder,    \* CreateNewBlock under way, or None
    template,   \* the block last built on this tip, or None
    outcome,    \* whether the last step failed to build a block
    attested    \* the attestation of the block at the tip, or None

vars == <<height, coins, muhash, pool, made, builder, template, outcome, attested>>

Fund(i)     == <<i, "fund">>
TxOut(t)    == <<t.id, "tx">>
Coinbase(h) == <<h, "attested">>
Stripped(h) == <<h, "stripped">>
Outpoints   == {Fund(i) : i \in 1..FundCount} \cup {<<i, "tx">> : i \in 1..TxCount}
               \cup UNION {{Coinbase(h), Stripped(h)} : h \in 1..MaxHeight}

IsMuhashAttestationActive(h)        == MuhashHeight >= 0 /\ h >= MuhashHeight
IsIntraBlockAttestationFixActive(h) == FixHeight >= 0 /\ h >= FixHeight

\* UTXOMuHashState: AddCoin for one coin, RemoveCoin for the coins of S, both
\* for a transaction.
AddCoin(acc, c)     == [acc EXCEPT ![c] = @ + 1]
RemoveCoins(acc, S) == [c \in DOMAIN acc |-> IF c \in S THEN acc[c] - 1 ELSE acc[c]]
Applied(acc, t)     == AddCoin(RemoveCoins(acc, t.ins), TxOut(t))
OfSet(S)            == [c \in Outpoints |-> IF c \in S THEN 1 ELSE 0]

Init ==
    /\ height = 0
    /\ coins = {Fund(i) : i \in 1..FundCount}
    /\ muhash = OfSet(coins)
    /\ pool = {} /\ made = 0
    /\ builder = None /\ template = None /\ outcome = "ok" /\ attested = None

-----------------------------------------------------------------------------
(* The attestation of a block with the transactions txs after its coinbase. *)

\* UpdateCoins for one transaction; None once an input is not there (its
\* assert).
UpdateCoins(view, t) ==
    IF view # None /\ t.ins \subseteq view
    THEN (view \ t.ins) \cup {TxOut(t)} ELSE None

Replayed(view, txs) ==
    LET after[i \in 0..Len(txs)] ==
            IF i = 0 THEN view ELSE UpdateCoins(after[i-1], txs[i])
    IN  after[Len(txs)]

\* Mutant: the outputs are put into the lookup view and not into the hash.
Incremental_NotAdded(fix_active, state, t) ==
    IF state = None \/ ~ t.ins \subseteq state.view THEN None
    ELSE [acc  |-> RemoveCoins(state.acc, t.ins),
          view |-> IF fix_active THEN (state.view \ t.ins) \cup {TxOut(t)}
                   ELSE state.view]

\* Mutant: the lookup view is not kept in step.
Incremental_Stale(fix_active, state, t) ==
    IF state = None \/ ~ t.ins \subseteq state.view THEN None
    ELSE [acc  |-> Applied(state.acc, t),
          view |-> state.view]

\* One transaction of the incremental path, on the clone of the accumulator
\* and the lookup view, which only the fix keeps in step.
Incremental(fix_active, state, t) ==
    IF state = None \/ ~ t.ins \subseteq state.view THEN None
    ELSE [acc  |-> Applied(state.acc, t),
          view |-> IF fix_active THEN (state.view \ t.ins) \cup {TxOut(t)}
                   ELSE state.view]

MuHashed(h, txs) ==
    LET fix_active == IsIntraBlockAttestationFixActive(h)
        start == [acc  |-> AddCoin(muhash, Stripped(h)),
                  view |-> IF fix_active THEN coins \cup {Stripped(h)} ELSE coins]
        state[i \in 0..Len(txs)] ==
            IF i = 0 THEN start ELSE Incremental(fix_active, state[i-1], txs[i])
        end == state[Len(txs)]
    IN  IF end = None THEN None ELSE <<"muhash", end.acc>>

Serialized(h, txs) ==
    LET end == Replayed(coins \cup {Stripped(h)}, txs)
    IN  IF end = None THEN None ELSE <<"serialized", end>>

\* None: no hash.  (The legacy path then does not come back, see GenerateBlock.)
ComputeBlockUTXOAttestationHash(h, txs) ==
    IF IsMuhashAttestationActive(h) THEN MuHashed(h, txs) ELSE Serialized(h, txs)

\* ConnectBlock up to fJustCheck: the inputs exist in order, then
\* ValidateUTXOCheckpoint on the first attestation output of the coinbase.
Valid(block) ==
    LET computed == ComputeBlockUTXOAttestationHash(height + 1, block.txs)
    IN  /\ Replayed(coins \cup {Coinbase(height + 1)}, block.txs) # None
        /\ block.atts # <<>>
        /\ computed # None
        /\ computed = block.atts[1]

-----------------------------------------------------------------------------
(* Block assembly.                                                          *)

\* The sequences of up to n different members of S.
Arrangements(S, n) == UNION {Injection(1..k, S) : k \in 0..n}

\* No other step happens while CreateNewBlock holds cs_main.
Idle == builder = None

Spends(t, u) == TxOut(u) \in t.ins

\* No transaction outside S spends one of S, or is spent by one of S.
Closed(S) == \A t \in S, u \in pool \ S : ~ Spends(t, u) /\ ~ Spends(u, t)

Clusters ==
    LET groups == {S \in SUBSET pool : S # {} /\ Closed(S)}
    IN  {C \in groups : \A S \in groups : S \subseteq C => S = C}

Topological(order) ==
    \A i, j \in 1..Len(order) : Spends(order[i], order[j]) => j < i

Fee(chunk) == FoldFunction(LAMBDA t, sum : t.fee + sum, 0, chunk)

\* Whether the fee rate of chunk c is higher than that of d.
Higher(c, d) == Fee(c) * Len(d) > Fee(d) * Len(c)

\* Chunks are given by where they begin.  The chunk of the i-th transaction
\* absorbs the ones before it while its fee rate is higher than the last one's.
Absorb(order, starts, i) ==
    LET all == starts \cup {i}
        preceding(s) == SubSeq(order, Max({p \in all : p < s}), s - 1)
        start == Max({s \in all : s = 1 \/ ~ Higher(SubSeq(order, s, i), preceding(s))})
    IN  {s \in all : s <= start}

ChunkLinearization(order) ==
    LET starts[i \in 0..Len(order)] ==
            IF i = 0 THEN {} ELSE Absorb(order, starts[i-1], i)
    IN  starts[Len(order)]

\* What a builder may start from for cluster C: some topological linearization.
Linearized(C) ==
    {[order |-> order, starts |-> ChunkLinearization(order), pos |-> 1] :
        order \in {o \in Arrangements(C, TxCount) : Range(o) = C /\ Topological(o)}}

\* StartBlockBuilding.
CreateNewBlock ==
    /\ Idle /\ height < MaxHeight
    /\ \E left \in Choices({Linearized(C) : C \in Clusters}) :
          builder' = [left |-> left, block |-> <<>>, failed |-> 0]
    /\ outcome' = "ok"
    /\ UNCHANGED <<height, coins, muhash, pool, made, template, attested>>

\* Where the current chunk of a cluster ends, and the chunk.
ChunkEnd(c) ==
    Min({i \in c.pos..Len(c.order) : i = Len(c.order) \/ i + 1 \in c.starts})

GetCurrentChunk(c) == SubSeq(c.order, c.pos, ChunkEnd(c))

\* The cluster behind its current chunk; nothing is left of it after the last.
Advanced(c) ==
    IF ChunkEnd(c) = Len(c.order) THEN {} ELSE {[c EXCEPT !.pos = ChunkEnd(c) + 1]}

\* The clusters whose current chunk may come next.
NextOf(left) ==
    {c \in left : \A d \in left : ~ Higher(GetCurrentChunk(d), GetCurrentChunk(c))}

skip_dependent_chunks == ~ IsIntraBlockAttestationFixActive(height + 1)

TestChunkBlockLimits(chunk) == Len(builder.block) + Len(chunk) < nBlockMaxWeight

\* BLOCK_FULL_ENOUGH_WEIGHT_DELTA: no further transaction fits.
FullEnough == Len(builder.block) + 2 > nBlockMaxWeight

\* One round of the loop of addChunks.  A skipped chunk takes the rest of its
\* cluster with it.  (The mempool holds final transactions only.)
AddChunks ==
    /\ ~ Idle
    /\ \E c \in NextOf(builder.left) :
          LET chunk == GetCurrentChunk(c)
              rest  == builder.left \ {c}
              fits  == /\ TestChunkBlockLimits(chunk)
                       /\ ~ (skip_dependent_chunks /\ Len(chunk) > 1)
          IN  \/ /\ Fee(chunk) < blockMinFeeRate * Len(chunk)
                 /\ builder' = [builder EXCEPT !.left = {}]
              \/ /\ Fee(chunk) >= blockMinFeeRate * Len(chunk) /\ ~ fits
                 /\ builder' = [left   |-> IF builder.failed + 1 > MaxFailures /\ FullEnough
                                          THEN {} ELSE rest,
                                block  |-> builder.block,
                                failed |-> builder.failed + 1]
              \/ /\ Fee(chunk) >= blockMinFeeRate * Len(chunk) /\ fits
                 /\ builder' = [left   |-> rest \cup Advanced(c),
                                block  |-> builder.block \o chunk,
                                failed |-> 0]
    /\ UNCHANGED <<height, coins, muhash, pool, made, template, outcome, attested>>

\* The end of CreateNewBlock: the attestation goes into the coinbase, then
\* TestBlockValidity, which throws.
FinishBlock ==
    /\ ~ Idle /\ builder.left = {}
    /\ LET hash  == ComputeBlockUTXOAttestationHash(height + 1, builder.block)
           block == [txs |-> builder.block, atts |-> <<hash>>]
       IN  \/ /\ hash = None
              /\ outcome' = "no_template" /\ template' = None
           \/ /\ hash # None
              /\ outcome' = IF Valid(block) THEN "ok" ELSE "invalid"
              /\ template' = IF Valid(block) THEN block ELSE None
    /\ builder' = None
    /\ UNCHANGED <<height, coins, muhash, pool, made, attested>>

\* Mutant: the attestation of the block without the transactions stays.
RegenerateUTXOAttestation_Stale(txs) ==
    IF ComputeBlockUTXOAttestationHash(height + 1, txs) = None THEN None
    ELSE [txs |-> txs, atts |-> <<ComputeBlockUTXOAttestationHash(height + 1, <<>>)>>]

\* The old attestation is stripped and one for these transactions appended.
RegenerateUTXOAttestation(txs) ==
    LET hash == ComputeBlockUTXOAttestationHash(height + 1, txs)
    IN  IF hash = None THEN None ELSE [txs |-> txs, atts |-> <<hash>>]

\* generateblock with any transactions of the mempool in any order.  Its
\* coinbase comes from CreateNewBlock without a mempool, which cannot fail.
GenerateBlock(txs) ==
    LET block == RegenerateUTXOAttestation(txs)
    IN  /\ Idle /\ height < MaxHeight
        /\ \/ /\ block # None
              /\ outcome' = IF Valid(block) THEN "ok" ELSE "invalid"
              /\ template' = IF Valid(block) THEN block ELSE template
              /\ UNCHANGED pool
           \/ /\ block = None /\ IsMuhashAttestationActive(height + 1)
              /\ outcome' = "ok" /\ UNCHANGED <<template, pool>>
           \/ \* The assert of UpdateCoins ends the process.
              /\ block = None /\ ~ IsMuhashAttestationActive(height + 1)
              /\ outcome' = "ok" /\ template' = None /\ pool' = {}
        /\ UNCHANGED <<height, coins, muhash, made, builder, attested>>

-----------------------------------------------------------------------------
(* The chain and the mempool.                                               *)

\* Mutant: the coinbase enters the accumulator as it was attested.
Committed_Stripped(txs) ==
    LET acc[i \in 0..Len(txs)] ==
            IF i = 0 THEN AddCoin(muhash, Stripped(height + 1)) ELSE Applied(acc[i-1], txs[i])
    IN  acc[Len(txs)]

\* The commit to m_utxo_muhash at the end of ConnectBlock, from the undo data.
Committed(txs) ==
    LET acc[i \in 0..Len(txs)] ==
            IF i = 0 THEN AddCoin(muhash, Coinbase(height + 1)) ELSE Applied(acc[i-1], txs[i])
    IN  acc[Len(txs)]

\* The rest of ConnectBlock for a valid block, and removeForBlock.
Connect(block) ==
    /\ height' = height + 1
    /\ coins' = Replayed(coins \cup {Coinbase(height')}, block.txs)
    /\ muhash' = Committed(block.txs)
    /\ pool' = pool \ Range(block.txs)
    /\ attested' = block.atts[1]
    /\ template' = None /\ outcome' = "ok"
    /\ UNCHANGED <<made, builder>>

\* ProcessNewBlock with a block on the tip.
ProcessNewBlock(block) ==
    IF Valid(block) THEN Connect(block)
    ELSE /\ outcome' = "ok"
         /\ UNCHANGED <<height, coins, muhash, pool, made, builder, template, attested>>

SubmitBlock == Idle /\ template # None /\ ProcessNewBlock(template)

\* A block of another miner: transactions of the mempool in any order, and up
\* to two attestation outputs, each of this block or of one without them.
ReceiveBlock ==
    /\ Idle /\ height < MaxHeight
    /\ \E txs \in Arrangements(pool, TxCount) :
         LET hashes == {ComputeBlockUTXOAttestationHash(height + 1, s) : s \in {txs, <<>>}}
                       \ {None}
         IN  \E atts \in Arrangements(hashes, 2) :
                ProcessNewBlock([txs |-> txs, atts |-> atts])

\* CheckTxInputs: the coin of a block has its maturity in the next block.
Mature(c) == c[2] = "attested" => height + 1 - c[1] >= CoinbaseMaturity

\* A transaction with one or two inputs that are confirmed and mature or in the
\* mempool, and not spent there.
AcceptToMemoryPool ==
    /\ Idle /\ made < TxCount
    /\ LET spent == UNION {t.ins : t \in pool}
           spendable == {c \in coins : Mature(c)} \cup {TxOut(t) : t \in pool}
       IN  \E ins \in (SUBSET (spendable \ spent)) \ {{}}, fee \in Fees :
              /\ Cardinality(ins) <= 2
              /\ pool' = pool \cup {[id |-> made + 1, ins |-> ins, fee |-> fee]}
    /\ made' = made + 1 /\ outcome' = "ok"
    /\ UNCHANGED <<height, coins, muhash, builder, template, attested>>

Next ==
    \/ CreateNewBlock \/ AddChunks \/ FinishBlock
    \/ \E txs \in Arrangements(pool, TxCount) : GenerateBlock(txs)
    \/ SubmitBlock \/ ReceiveBlock \/ AcceptToMemoryPool

Spec == Init /\ [][Next]_vars
-----------------------------------------------------------------------------
Tx == [id : 1..TxCount, ins : SUBSET Outpoints, fee : Fees]

\* What the theorems take of the constants: the bounds are numbers, and None is
\* none of the values it stands beside.
ConstantsFit ==
    /\ FundCount \in Nat /\ TxCount \in Nat /\ MaxHeight \in Nat
    /\ \A S \in SUBSET Outpoints : S # None
    /\ None \notin [acc : [Outpoints -> Int], view : SUBSET Outpoints]
    /\ None \notin {"muhash"} \X [Outpoints -> Int]
    /\ None \notin {"serialized"} \X SUBSET Outpoints
-----------------------------------------------------------------------------
(* Properties.                                                              *)

\* Whatever block is at the tip, of any miner and with any chain of
\* transactions inside it, its attestation is the hash of the coins after it,
\* its own coinbase under the txid it has without the attestation
\* (ValidateUTXOCheckpoint, ComputeBlockUTXOAttestationHash).
AttestationTrue ==
    attested # None =>
        LET after == (coins \ {Coinbase(height)}) \cup {Stripped(height)}
        IN  attested = IF IsMuhashAttestationActive(height)
                       THEN <<"muhash", OfSet(after)>>
                       ELSE <<"serialized", after>>

\* The persistent accumulator is that of the coins at the tip, although the
\* attestations count another coinbase outpoint (the commit in ConnectBlock).
AccumulatorExact == muhash = OfSet(coins)

\* A block this node builds on its tip, from the mempool or with generateblock,
\* is one that it accepts (CreateNewBlock, RegenerateUTXOAttestation).
OwnBlocksValid ==
    outcome # "invalid" /\ (template # None => Valid(template))

\* Outside the heights between the MuHash activation and the intra-block fix,
\* every call for a template gets one, whatever the mempool holds
\* (CreateNewBlock).
TemplateOutsideGap ==
    outcome = "no_template" => /\ IsMuhashAttestationActive(height + 1)
                               /\ ~ IsIntraBlockAttestationFixActive(height + 1)
=============================================================================
