---------------------------- MODULE MCChainstate ----------------------------
(***************************************************************************)
(* Instances of Chainstate for TLC.  The blocks of a configuration are     *)
(* taken from the tree                                                     *)
(*                                                                         *)
(*    g -- a1 -- a2 -- a3                                                  *)
(*           \     \                                                       *)
(*            \     x3         x3 has a wrong attestation                  *)
(*             b2 -- b3 -- b4                                              *)
(*                                                                         *)
(* Every block creates its coinbase coin; a2 and b2 both spend a1's, b3    *)
(* spends b2's.  One coin stands for the coinbase under the txid it has    *)
(* before the attestation is added: it occurs in no UTXO set and in one    *)
(* block's attestation at a time.                                          *)
(***************************************************************************)
EXTENDS Chainstate

CONSTANTS g, a1, a2, a3, b2, b3, b4, x3, none, stripped

MCPrev == [b \in Block \ {g} |->
    CASE b = a1 -> g [] b \in {a2, b2} -> a1 [] b \in {a3, x3} -> a2
      [] b = b3 -> b2 [] b = b4 -> b3]
MCHeight == [b \in Block |->
    CASE b = g -> 0 [] b = a1 -> 1 [] b \in {a2, b2} -> 2 [] b = b4 -> 4 [] OTHER -> 3]

\* A block's coinbase coin is named after the block.
MCCoin == (Block \ {g}) \cup {stripped}
MCIns == [b \in Block |->
    CASE b \in {a2, b2} -> {a1} [] b = b3 -> {b2} [] OTHER -> {}]
MCOuts == [b \in Block |-> IF b = g THEN {} ELSE {b}]
MCAttOuts == [b \in Block |-> IF b = g THEN {} ELSE {stripped}]

UTXOFrom[b \in Block] ==
    IF b = g THEN {} ELSE (UTXOFrom[MCPrev[b]] \ MCIns[b]) \cup MCOuts[b]
MCUTXO == [b \in Block |-> UTXOFrom[b]]

Count(S) == [c \in MCCoin |-> IF c \in S THEN 1 ELSE 0]
MCAtt == [b \in Block |->
    IF b \in {g, x3} THEN Count({})
    ELSE Count((MCUTXO[MCPrev[b]] \ MCIns[b]) \cup MCAttOuts[b])]
=============================================================================
