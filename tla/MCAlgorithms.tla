---------------------------- MODULE MCAlgorithms ----------------------------
(***************************************************************************)
(* The data structures and algorithms the other modules take as plain sets *)
(* and values, each against its reference definition: the coins caches,    *)
(* the received ranges and the pacing of a download, the difficulty rules, *)
(* the attestation of a block.  They share no state; part says which one a *)
(* behaviour runs, the others stay where they start.                       *)
(***************************************************************************)
EXTENDS CoinsCache, Sequences

CONSTANT None

VARIABLES
    part,
    ranges, received,                                     \* ReceivedRanges
    got, asked, served, requests, replies,                \* ChunkPacing
    params, powHeight, period,                            \* Pow
    height, coins, muhash, pool, made, builder, template, \* BlockAttestation
    outcome, attested

rangeVars == <<ranges, received>>
paceVars  == <<got, asked, served, requests, replies>>
powVars   == <<params, powHeight, period>>
blockVars == <<height, coins, muhash, pool, made, builder, template, outcome, attested>>

R == INSTANCE ReceivedRanges WITH FileSize <- 8

P == INSTANCE ChunkPacing WITH
        Chunks <- 3, AskInterval <- 10, ServeInterval <- 2, MaxInFlight <- 3

\* Consensus::Params with a limit that leaves room for the product with four
\* timespans, as signet's does.  The limit of mainnet leaves none, and there the
\* product wraps: RetargetExact and RequiredIsPermitted fail with a powLimit of
\* 31 * 4^6.  The end of the escape is inside a period, as on mainnet.
Network(min, start, end, bip94) ==
    [powLimit |-> 13 * 4^5, fPowAllowMinDifficultyBlocks |-> min,
     MinDifficultyActivationHeight |-> start, StoicAwakeningEndHeight |-> end,
     enforce_BIP94 |-> bip94, fPowNoRetargeting |-> FALSE]

Networks == {Network(FALSE, 1, 6, FALSE),         \* mainnet's escape
             Network(TRUE, -1, -1, TRUE),         \* testnet4
             Network(FALSE, -1, -1, FALSE)}       \* signet

W == INSTANCE Pow WITH
        Width <- 20, DigitBits <- 2, Spacing <- 4, Interval <- 4,
        Networks <- Networks, Gaps <- {-2, 3, 9, 30}, MaxHeight <- 8,
        height <- powHeight

B == INSTANCE BlockAttestation WITH
        FundCount <- 2, TxCount <- 3, Fees <- {0, 2}, blockMinFeeRate <- 1,
        nBlockMaxWeight <- 3, MaxFailures <- 0, CoinbaseMaturity <- 2,
        MuhashHeight <- 2, FixHeight <- 3, MaxHeight <- 3

\* These constants are among those that the theorems about Pow and
\* BlockAttestation are about.
ASSUME PartsFit == W!ConstantsFit /\ W!PowersFit /\ W!LimitsFit /\ B!ConstantsFit

PartInit ==
    /\ part \in {"coins", "ranges", "pacing", "pow", "block"}
    /\ Init /\ (part # "coins" => op = "idle")
    /\ R!Init
    /\ IF part = "pacing" THEN P!Init
       ELSE /\ got = 3 /\ asked = P!NotAsked /\ served = 2
            /\ requests = <<>> /\ replies = <<>>
    /\ IF part = "pow" THEN W!Init
       ELSE /\ params = Network(FALSE, -1, -1, FALSE)
            /\ powHeight = 0 /\ period = <<[bits |-> <<1, 16>>, time |-> 0]>>
    /\ B!Init

PartNext ==
    /\ UNCHANGED part
    /\ \/ /\ part = "coins" /\ Next
          /\ UNCHANGED <<rangeVars, paceVars, powVars, blockVars>>
       \/ /\ part = "ranges" /\ R!Next
          /\ UNCHANGED <<vars, paceVars, powVars, blockVars>>
       \/ /\ part = "pacing" /\ P!Next
          /\ UNCHANGED <<vars, rangeVars, powVars, blockVars>>
       \/ /\ part = "pow" /\ W!Next
          /\ UNCHANGED <<vars, rangeVars, paceVars, blockVars>>
       \/ /\ part = "block" /\ B!Next
          /\ UNCHANGED <<vars, rangeVars, paceVars, powVars>>

PartSpec ==
    /\ PartInit
    /\ [][PartNext]_<<part, vars, rangeVars, paceVars, powVars, blockVars>>
    /\ P!Fairness
-----------------------------------------------------------------------------
(* The properties of the parts; those of CoinsCache keep their names.       *)

\* The ranges cover exactly the bytes received, and are apart (AddRange).
CoverageExact == R!CoverageExact

\* The file is complete when every byte was received (IsComplete), and the byte
\* asked for next is the first missing one (GetNextMissingOffset).
ProgressExact == R!ProgressExact

\* Every chunk is fetched in the end, in spite of the peer's limit
\* (last_request_time, SNAPSHOT_CHUNK_SERVE_INTERVAL).
TransferCompletes == P!TransferCompletes

\* The headers pre-synchronisation lets pass what a full node requires
\* (PermittedDifficultyTransition).
RequiredIsPermitted == W!RequiredIsPermitted

\* A retarget computes what whole numbers would (CalculateNextWorkRequired).
RetargetExact == W!RetargetExact

\* An escape to the limit ends with the next block on time
\* (GetNextWorkRequired).
EscapeEnds == W!EscapeEnds

\* The attestation at the tip is the hash of the coins after its block
\* (ValidateUTXOCheckpoint).
AttestationTrue == B!AttestationTrue

\* The accumulator is that of the coins at the tip (ConnectBlock).
AccumulatorExact == B!AccumulatorExact

\* The node accepts the blocks it builds (CreateNewBlock, generateblock).
OwnBlocksValid == B!OwnBlocksValid

\* Outside the gap between the two activation heights, every call for a
\* template gets one (CreateNewBlock).
TemplateOutsideGap == B!TemplateOutsideGap
=============================================================================
