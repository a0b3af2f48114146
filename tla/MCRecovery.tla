----------------------------- MODULE MCRecovery ------------------------------
(***************************************************************************)
(* The two sides of leaving a chain the node cannot follow: the activation *)
(* of snapshots on one branch of headers, in full, and the recovery of a   *)
(* node that rejected the chain of the network, on two branches.  They     *)
(* share no state; part says which one a behaviour runs, and is scheduled; *)
(* the other stays where it starts.                                        *)
(***************************************************************************)
EXTENDS SnapshotActivation

VARIABLES
    part,
    fork, net, right, index, data, failed, tip, base,   \* StuckChainRecovery
    bestHeader, bestInvalid, known, synced, asked, download, stored, loading, resets

stuckVars == <<fork, net, right, index, data, failed, tip, base, bestHeader,
               bestInvalid, known, synced, asked, download, stored, loading, resets>>

\* The fork is two blocks before the checkpoint, so that the first rejected
\* block is not the checkpoint, or at the checkpoint, which then has no flag.
S == INSTANCE StuckChainRecovery WITH
        Forks <- {1, 3}, MuhashHeight <- 2, Interval <- 3, Threshold <- 1,
        MaxOwn <- 3, MaxHeight <- 5, MaxResets <- 1,
        requested <- download, files <- stored

PartInit ==
    /\ part \in {"activation", "stuck"}
    /\ Init
    /\ S!Init /\ (part # "stuck" => fork = 1)

PartNext ==
    /\ UNCHANGED part
    /\ \/ part = "activation" /\ Next /\ UNCHANGED stuckVars
       \/ part = "stuck" /\ S!Next /\ UNCHANGED vars

PartSpec ==
    /\ PartInit /\ [][PartNext]_<<part, vars, stuckVars>>
    /\ WF_vars(part = "activation" /\ Scheduler)
    /\ WF_stuckVars(part = "stuck" /\ S!HeaderSync)
    /\ SF_stuckVars(part = "stuck" /\ download = None /\ S!Blocks)
    /\ WF_stuckVars(part = "stuck" /\ S!Snapshots)
    /\ WF_stuckVars(part = "stuck" /\ S!ActivateBestChain)
-----------------------------------------------------------------------------
(* The properties of the recovery; those of the activation keep their names. *)

\* The flags of the block index are closed under descent, no header without one
\* is heavier than the best header (CheckBlockIndex), and the best invalid block
\* has one (ResetBlockFailureFlags).
VerdictConsistent == S!VerdictConsistent

\* A node with the rules of the network catches up with it, except where the
\* recovery does not apply (MaybeActivateAutomaticSnapshot).
RejectionEnds == S!RejectionEnds
==============================================================================
