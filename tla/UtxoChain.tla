------------------------------ MODULE UtxoChain ------------------------------
(***************************************************************************)
(* The block tree of an Elektron Net node, what each block does to the set *)
(* of unspent coins, and the UTXO MuHash accumulator (kernel::UTXOMuHash-  *)
(* State) that the node maintains next to that set.                        *)
(*                                                                         *)
(* A Coin stands for an outpoint together with the coin stored under it    *)
(* (output, height, coinbase flag): exactly what ApplyCoinHash hashes.     *)
(* Coins that are created and spent inside one block never reach a view    *)
(* that outlives the block and cancel in the accumulator, so Ins and Outs  *)
(* are a block's net effect.                                               *)
(*                                                                         *)
(* MuHash is a homomorphic hash into an abelian group: the accumulator is  *)
(* modelled by the group element's preimage, the number of times each coin *)
(* was added minus the number of times it was removed.  Hashes are taken   *)
(* to be collision free, so GetHash is that function itself.               *)
(***************************************************************************)
EXTENDS Integers, FiniteSets, FiniteSetsExt

CONSTANTS
    Coin,                \* coins (outpoint and its content)
    Block,               \* the blocks of the tree, valid or not
    NoBlock,             \* the null block hash
    Genesis,
    Prev,                \* Prev[b]: pprev of every block but Genesis
    Height,              \* Height[b]: nHeight
    Ins,                 \* Ins[b]: coins of earlier blocks that b spends
    Outs,                \* Outs[b]: coins b adds to the UTXO set
    AttOuts,             \* Outs[b] with the coinbase keyed by the txid it
                         \* has before the attestation output is appended
    UTXO,                \* UTXO[b]: the UTXO set after connecting b
    Att,                 \* Att[b]: the hash embedded in b's coinbase
    MuhashAttestationActivationHeight,
    MandatoryPruneDepth

ASSUME BlockAssumption ==
    /\ Genesis \in Block
    /\ NoBlock \notin Block
    /\ Prev \in [Block \ {Genesis} -> Block]
    /\ Height \in [Block -> Nat]
    /\ \A b \in Block \ {Genesis} : Height[b] = Height[Prev[b]] + 1
    /\ MandatoryPruneDepth \in Nat \ {0}
    /\ MuhashAttestationActivationHeight \in Int

\* Every block spends coins that exist and creates coins that do not (BIP30
\* and BIP34 give every outpoint one creator).  The genesis coinbase is not
\* part of the UTXO set.
ASSUME CoinAssumption ==
    /\ Ins \in [Block -> SUBSET Coin]
    /\ Outs \in [Block -> SUBSET Coin]
    /\ AttOuts \in [Block -> SUBSET Coin]
    /\ UTXO \in [Block -> SUBSET Coin]
    /\ Att \in [Block -> [Coin -> Int]]
    /\ UTXO[Genesis] = {}
    /\ \A b \in Block \ {Genesis} :
          /\ Ins[b] \subseteq UTXO[Prev[b]]
          /\ Outs[b] \cap UTXO[Prev[b]] = {}
          /\ UTXO[b] = (UTXO[Prev[b]] \ Ins[b]) \cup Outs[b]

-----------------------------------------------------------------------------
\* b and its ancestors.
Ancestors[b \in Block] ==
    IF b = Genesis THEN {b} ELSE {b} \cup Ancestors[Prev[b]]

\* IsMuhashAttestationActive: a negative height means "never".
IsMuhashAttestationActive(h) ==
    /\ MuhashAttestationActivationHeight >= 0
    /\ h >= MuhashAttestationActivationHeight

\* The heights at which WriteAutomaticSnapshot writes a snapshot.
IsCheckpoint(h) == h > 0 /\ h % MandatoryPruneDepth = 0

-----------------------------------------------------------------------------
(* The accumulator.                                                         *)

Delta(S, c) == IF c \in S THEN 1 ELSE 0

\* A fresh accumulator to which every coin of S was added once: also the
\* value of a full scan of a view holding the coins S.
Accumulate(S) == [c \in Coin |-> Delta(S, c)]

\* AddCoin for every coin of added, RemoveCoin for every coin of removed.
Update(acc, added, removed) ==
    [c \in Coin |-> acc[c] + Delta(added, c) - Delta(removed, c)]

\* m_coin_count: the number of AddCoin minus the number of RemoveCoin calls.
GetCoinCount(acc) == MapThenSumSet(LAMBDA c : acc[c], Coin)

-----------------------------------------------------------------------------
(* Effects of a block on a view (a set of coins) and on the accumulator.    *)

\* UpdateCoins over the block's transactions, and RollforwardBlock, which
\* applies the same additions and removals whether or not they are already
\* in the view.
ApplyBlock(view, b) == (view \ Ins[b]) \cup Outs[b]

\* DisconnectBlock on the view: the outputs are spent if they are there, the
\* inputs restored even over an existing coin (an unclean disconnect).
UndoBlock(view, b) == (view \ Outs[b]) \cup Ins[b]

\* ConnectBlock's commit of the block to m_utxo_muhash.
ConnectMuHash(acc, b) == Update(acc, Outs[b], Ins[b])

\* Mutant: the restored inputs are not added back to the accumulator.
DisconnectMuHash_InputsForgotten(acc, view, b) == Update(acc, {}, Outs[b] \cap view)

\* DisconnectBlock's updates of m_utxo_muhash: RemoveCoin only for outputs
\* that SpendCoin found in the view, AddCoin for every restored input.
DisconnectMuHash(acc, view, b) == Update(acc, Ins[b], Outs[b] \cap view)

-----------------------------------------------------------------------------
(* The attestation in the coinbase.                                         *)

\* ComputeBlockUTXOAttestationHash: the hash of the UTXO set after b, with
\* b's coinbase stripped of the attestation output.  base is the view below
\* the block, acc the accumulator handed in as tip_muhash.  The incremental
\* path fails ({}) when an input is not in base.
ComputeBlockUTXOAttestationHash(b, base, acc) ==
    IF IsMuhashAttestationActive(Height[b])
    THEN IF Ins[b] \subseteq base THEN {Update(acc, AttOuts[b], Ins[b])} ELSE {}
    ELSE {Accumulate((base \ Ins[b]) \cup AttOuts[b])}

\* Mutant: the hash is computed but not compared.
ValidateUTXOCheckpoint_NotCompared(b, base, acc) ==
    Height[b] <= 0 \/ ComputeBlockUTXOAttestationHash(b, base, acc) # {}

\* ValidateUTXOCheckpoint: the embedded hash must equal the recomputed one.
ValidateUTXOCheckpoint(b, base, acc) ==
    Height[b] <= 0 \/ Att[b] \in ComputeBlockUTXOAttestationHash(b, base, acc)

\* What consensus asks of a block: its attestation commits to the real UTXO
\* set of its parent and to the block's own changes.
HonestAttestation(b) ==
    Update(Accumulate(UTXO[Prev[b]]), AttOuts[b], Ins[b])

IsHonest(b) == b = Genesis \/ Att[b] = HonestAttestation(b)

\* The legacy path is a scan of a set: it agrees with the incremental path
\* only if the stripped coins are new, as transaction ids make sure.
ASSUME AttestationAssumption ==
    \A b \in Block \ {Genesis} :
        /\ Height[b] > 0
        /\ AttOuts[b] \cap UTXO[Prev[b]] = {}
=============================================================================
