------------------------------ MODULE CoinsView ------------------------------
(***************************************************************************)
(* What the coins views of a chainstate promise together: three maps from  *)
(* outpoints to unspent coins.  disk survives a crash, committed is the    *)
(* UTXO set at the tip of the chain, working is the view a block is being  *)
(* connected to or disconnected from.  CoinsCache implements these maps    *)
(* with a database and two layers of caches.                               *)
(***************************************************************************)
CONSTANTS Outpoint, Coin, Null

VARIABLES disk, committed, working

viewVars == <<disk, committed, working>>

ViewMap == [Outpoint -> Coin \cup {Null}]

VInit ==
    /\ disk = [o \in Outpoint |-> Null]
    /\ committed = disk
    /\ working = disk

\* A coin is added to the working view, replaced in it or spent from it.
Put(o, c) ==
    /\ working' = [working EXCEPT ![o] = c]
    /\ UNCHANGED <<disk, committed>>

\* A coin of a UTXO snapshot is put directly into the tip's view.
Load(o, c) ==
    /\ working = committed
    /\ committed' = [committed EXCEPT ![o] = c]
    /\ working' = [working EXCEPT ![o] = c]
    /\ UNCHANGED disk

Commit == committed' = working /\ UNCHANGED <<disk, working>>
Abandon == working' = committed /\ UNCHANGED <<disk, committed>>
Persist == disk' = committed /\ UNCHANGED <<committed, working>>
Lose == committed' = disk /\ working' = disk /\ UNCHANGED disk

VNext ==
    \/ \E o \in Outpoint, c \in Coin \cup {Null} : Put(o, c) \/ Load(o, c)
    \/ Commit \/ Abandon \/ Persist \/ Lose

VSpec == VInit /\ [][VNext]_viewVars
=============================================================================
