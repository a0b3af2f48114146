----------------------------- MODULE DurableChain -----------------------------
(***************************************************************************)
(* What a chainstate promises to the rest of the node: a tip and its UTXO  *)
(* set that move one block at a time, a durable tip that is set to the tip *)
(* in one step, and a crash that takes the node back to the durable tip.   *)
(* No flush in several batches, no replay, no half-written database.       *)
(***************************************************************************)
EXTENDS UtxoChain

VARIABLES
    mem,       \* the tip of the running node
    coins,     \* the UTXO set it works with
    disk       \* the tip a crash takes it back to

dvars == <<mem, coins, disk>>

DInit == mem = Genesis /\ coins = {} /\ disk = Genesis

\* ConnectTip and DisconnectTip.
Move(b) ==
    /\ \/ b # Genesis /\ Prev[b] = mem
       \/ mem # Genesis /\ Prev[mem] = b
    /\ mem' = b /\ coins' = UTXO[b]
    /\ UNCHANGED disk

\* FlushStateToDisk.
Persist == disk' = mem /\ UNCHANGED <<mem, coins>>

\* A crash and the restart after it.
Lose == mem' = disk /\ coins' = UTXO[disk] /\ UNCHANGED disk

DNext == (\E b \in Block : Move(b)) \/ Persist \/ Lose

DSpec == DInit /\ [][DNext]_dvars
=============================================================================
