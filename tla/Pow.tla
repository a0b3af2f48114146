--------------------------------- MODULE Pow ---------------------------------
(***************************************************************************)
(* The difficulty of a chain of headers (pow.cpp): what a node requires of *)
(* the next block, the Stoic Awakening escape with its two heights, the    *)
(* retarget, and the check the headers pre-synchronisation makes instead   *)
(* (PermittedDifficultyTransition).                                        *)
(*                                                                         *)
(* The 256 bits of arith_uint256 are scaled to Width, a byte of the        *)
(* compact form to DigitBits; a compact number is <<size, word>>, with     *)
(* three digits of word and its top bit the sign.  Products wrap, as       *)
(* operator*= does.                                                        *)
(***************************************************************************)
EXTENDS Integers, Sequences, FiniteSetsExt

CONSTANTS
    Width,               \* the 256 bits of arith_uint256
    DigitBits,           \* the 8 bits of a byte
    Spacing,             \* nPowTargetSpacing
    Interval,            \* DifficultyAdjustmentInterval()
    Networks,            \* the parameter sets the run looks at
    Gaps,                \* the time from a block to the next that are tried
    MaxHeight            \* bound on the height

VARIABLES
    params,     \* Consensus::Params
    height,     \* height of the last block
    period      \* the blocks from the last retarget on, times counted from it

vars == <<params, height, period>>

Base     == 2^DigitBits
Wrap(n)  == n % 2^Width
Timespan == Spacing * Interval                       \* nPowTargetTimespan
Size     == Width \div DigitBits                     \* digits of an arith_uint256

\* The digits of n: ceil(bits() / 8).
Digits(n) == Min({k \in 0..Size : n < Base^k})

SetCompact(c) ==
    IF c[1] <= 3 THEN c[2] \div Base^(3 - c[1]) ELSE Wrap(c[2] * Base^(c[1] - 3))

GetCompact(n) ==
    LET size == Digits(n)
        word == IF size <= 3 THEN n * Base^(3 - size) ELSE n \div Base^(size - 3)
    IN  IF word >= Base^3 \div 2 THEN <<size + 1, word \div Base>> ELSE <<size, word>>

Limit == GetCompact(params.powLimit)                 \* nProofOfWorkLimit

\* Whether the min-difficulty rule holds for the block at height h.
AllowMinDifficulty(h) ==
    \/ params.fPowAllowMinDifficultyBlocks
    \/ /\ params.MinDifficultyActivationHeight # -1
       /\ h >= params.MinDifficultyActivationHeight
       /\ \/ params.StoicAwakeningEndHeight = -1
          \/ h < params.StoicAwakeningEndHeight

First == period[1]
Last  == period[Len(period)]

Capped(n, most) == IF n > most THEN most ELSE n
Floored(n, least) == IF n < least THEN least ELSE n

\* A target after a period that took span: multiply, divide, cap.
Retargeted(bits, span) ==
    Capped(Wrap(SetCompact(bits) * span) \div Timespan, params.powLimit)

\* Mutant: a fast period is not limited to a quarter of the timespan.
CalculateNextWorkRequired_NoFloor ==
    GetCompact(Retargeted(Last.bits, Floored(Capped(Last.time, Timespan * 4), 1)))

\* Mutant: divide first, then multiply.
CalculateNextWorkRequired_DivideFirst ==
    LET span == Capped(Floored(Last.time, Timespan \div 4), Timespan * 4)
    IN  GetCompact(Capped(Wrap((SetCompact(Last.bits) \div Timespan) * span),
                          params.powLimit))

\* Times are counted from the first block of the period.
CalculateNextWorkRequired ==
    LET span == Capped(Floored(Last.time, Timespan \div 4), Timespan * 4)
        base == IF params.enforce_BIP94 THEN First.bits ELSE Last.bits
    IN  IF params.fPowNoRetargeting THEN Last.bits
        ELSE GetCompact(Retargeted(base, span))

\* The bits of the last block that is not at the limit, or of the first one of
\* the period.
LastNonSpecial ==
    period[Max({1} \cup {i \in 1..Len(period) : period[i].bits # Limit})].bits

\* Mutant: an ordinary block keeps the difficulty of the escape before it.
GetNextWorkRequired_Sticky(time) ==
    IF (height + 1) % Interval = 0 THEN CalculateNextWorkRequired
    ELSE IF AllowMinDifficulty(height + 1) /\ time > Last.time + Spacing * 2
         THEN Limit ELSE Last.bits

GetNextWorkRequired(time) ==
    IF (height + 1) % Interval = 0 THEN CalculateNextWorkRequired
    ELSE IF ~ AllowMinDifficulty(height + 1) THEN Last.bits
    ELSE IF time > Last.time + Spacing * 2 THEN Limit
    ELSE LastNonSpecial

\* PermittedDifficultyTransition from old to new at height h.
PermittedDifficultyTransition(h, old, new) ==
    LET rounded(span) == SetCompact(GetCompact(Retargeted(old, span)))
    IN  \/ AllowMinDifficulty(h)
        \/ /\ h % Interval = 0
           /\ SetCompact(new) <= rounded(Timespan * 4)
           /\ SetCompact(new) >= rounded(Timespan \div 4)
        \/ h % Interval # 0 /\ old = new

\* CheckProofOfWork can succeed: DeriveTarget gives a target.  (No word has the
\* sign bit, and none that GetCompact makes is longer than Width.)
Minable(bits) == SetCompact(bits) \in 1..params.powLimit

\* Any difficulty of the compact form that is allowed, at the start of a period.
Init ==
    /\ params \in Networks
    /\ height = 0
    /\ \E bits \in {GetCompact(n) : n \in 1..params.powLimit} :
           period = <<[bits |-> bits, time |-> 0]>>

\* A block that a full node accepts: CheckProofOfWork, and nBits as
\* ContextualCheckBlockHeader wants them.
AcceptBlock(gap) ==
    LET time == Last.time + gap
        bits == GetNextWorkRequired(time)
    IN  /\ height < MaxHeight
        /\ Minable(bits)
        /\ height' = height + 1
        /\ period' = IF height' % Interval = 0 THEN <<[bits |-> bits, time |-> 0]>>
                     ELSE Append(period, [bits |-> bits, time |-> time])
        /\ UNCHANGED params

Next == \E gap \in Gaps : AcceptBlock(gap)

Spec == Init /\ [][Next]_vars
-----------------------------------------------------------------------------
\* What the theorems take of the constants.  A network without the min-difficulty
\* rule retargets, from the last block.
ConstantsFit ==
    /\ Spacing \in Nat \ {0} /\ Interval \in Nat \ {0} /\ Gaps \in SUBSET Int
    /\ \A p \in Networks :
          /\ p.powLimit \in Nat \ {0} /\ p.powLimit < 2^Width
          /\ p.enforce_BIP94 \/ p.fPowNoRetargeting => p.fPowAllowMinDifficultyBlocks

\* Facts about powers: Base is even, Width a multiple of DigitBits.
PowersFit ==
    /\ Size \in Nat /\ Base \in Nat /\ Base >= 2 /\ Base = 2 * (Base \div 2)
    /\ Base^0 = 1 /\ Base^Size = 2^Width
    /\ \A k \in 1..Size + 3 : Base^k \in Nat /\ Base^k = Base * Base^(k - 1)

\* Whether the product of the next retarget, if the next block has one, is below
\* 2^Width however long the period took.
ProductFits ==
    LET base == IF params.enforce_BIP94 THEN First.bits ELSE Last.bits
    IN  (height + 1) % Interval = 0 /\ ~ params.fPowNoRetargeting
        => SetCompact(base) * (Timespan * 4) < 2^Width

\* What sanity_check_chainparams (test/pow_tests.cpp) asks of a network: the
\* product of a retarget from the limit fits.
LimitsFit ==
    \A p \in Networks : p.fPowNoRetargeting \/ p.powLimit * (Timespan * 4) < 2^Width
-----------------------------------------------------------------------------
(* Properties.                                                              *)

\* Whatever a full node requires, the pre-synchronisation of headers lets
\* pass: no chain of valid blocks is refused by it, at a retarget, around the
\* two heights of the escape or inside a period (PermittedDifficultyTransition;
\* the fuzz target pow_transition asserts it).
RequiredIsPermitted ==
    [][PermittedDifficultyTransition(height', Last.bits, Last'.bits)]_vars

\* A retarget scales the target by the time the period took, limited to a
\* factor of four, as whole numbers would: the product loses nothing
\* (CalculateNextWorkRequired).
RetargetExact ==
    [][height' % Interval = 0 /\ ~ params.fPowNoRetargeting =>
          LET span == Min({Max({Last.time, Timespan \div 4}), Timespan * 4})
              base == IF params.enforce_BIP94 THEN First.bits ELSE Last.bits
          IN  Last'.bits = GetCompact(Min({params.powLimit,
                              (SetCompact(base) * span) \div Timespan}))]_vars

\* An escape to the limit ends with the next block that is on time: while the
\* rule holds, a block that came within two spacings has the difficulty its
\* period began with (GetNextWorkRequired).
EscapeEnds ==
    \A i \in 2..Len(period) :
        LET h == height - Len(period) + i
        IN  AllowMinDifficulty(h) /\ period[i].time <= period[i-1].time + Spacing * 2
            => period[i].bits = First.bits
=============================================================================
