---------------------------- MODULE ReceivedRanges ----------------------------
(***************************************************************************)
(* The byte ranges a snapshot download has received: SnapshotDownload's    *)
(* received_ranges, a std::map from the start of a range to its end        *)
(* (exclusive), modelled as a set of pairs <<start, end>>.                 *)
(*                                                                         *)
(* received is the reference: the bytes that were handed to AddRange.      *)
(* Module SnapshotDownload works with such a set of bytes.                 *)
(***************************************************************************)
EXTENDS Integers, FiniteSets, FiniteSetsExt

CONSTANT FileSize        \* file_size, not 0

VARIABLES ranges, received

vars == <<ranges, received>>

Byte == 0..FileSize - 1

\* The bytes [offset, offset + length).
Span(offset, length) == offset..offset + length - 1

First(R) == CHOOSE r \in R : \A q \in R : r[1] <= q[1]
Last(R)  == CHOOSE r \in R : \A q \in R : r[1] >= q[1]

\* Mutant: the end is replaced by that of the swallowed range.
Swallow_EndReplaced(turn) ==
    LET next == First(turn.ahead)
    IN  IF turn.ahead = {} \/ next[1] > turn.end THEN turn
        ELSE [end |-> next[2], ahead |-> turn.ahead \ {next}]

\* One turn of the loop of AddRange: the next range ahead goes into the new one
\* unless it begins behind its end.
Swallow(turn) ==
    LET next == First(turn.ahead)
    IN  IF turn.ahead = {} \/ next[1] > turn.end THEN turn
        ELSE [end |-> Max({turn.end, next[2]}), ahead |-> turn.ahead \ {next}]

\* The loop of AddRange, which ends at the latest when nothing is ahead.
Merge(start, end, ahead, behind) ==
    LET turn[k \in 0..Cardinality(ahead)] ==
            IF k = 0 THEN [end |-> end, ahead |-> ahead] ELSE Swallow(turn[k-1])
        last == turn[Cardinality(ahead)]
    IN  behind \cup last.ahead \cup {<<start, last.end>>}

\* AddRange for a non-empty chunk.
AddRange(R, offset, length) ==
    LET ahead  == {r \in R : r[1] >= offset}          \* from lower_bound on
        before == R \ ahead
        prev   == Last(before)
    IN  IF before # {} /\ prev[2] >= offset
        THEN Merge(prev[1], Max({offset + length, prev[2]}),
                   ahead \cup {prev}, before \ {prev})
        ELSE Merge(offset, offset + length, ahead, before)

\* Mutant: the end of the first range alone decides.
IsComplete_EndOnly(R) == R # {} /\ First(R)[2] >= FileSize

IsComplete(R) == R # {} /\ First(R)[1] = 0 /\ First(R)[2] >= FileSize

GetNextMissingOffset(R) == IF R = {} \/ First(R)[1] > 0 THEN 0 ELSE First(R)[2]

Init == ranges = {} /\ received = {}

\* The bounds are those of the SNAPSHOTDATA handler: a chunk that is not empty
\* and lies inside the file, at any offset, in any order, any number of times.
Receive(offset, length) ==
    /\ length > 0 /\ offset + length <= FileSize
    /\ ranges' = AddRange(ranges, offset, length)
    /\ received' = received \cup Span(offset, length)

Next == \E offset \in Byte, length \in 1..FileSize : Receive(offset, length)

Spec == Init /\ [][Next]_vars
-----------------------------------------------------------------------------
(* Properties.                                                              *)

\* The ranges cover exactly the bytes that were received, and are apart: no
\* two of them overlap or touch, which is what lets AddRange look at only one
\* range to the left (AddRange).
CoverageExact ==
    /\ UNION {Span(r[1], r[2] - r[1]) : r \in ranges} = received
    /\ \A r, q \in ranges : r # q => r[2] < q[1] \/ q[2] < r[1]

\* Although only the first range is looked at, the file counts as complete
\* exactly when every byte of it was received (IsComplete), and the byte asked
\* for next is the first one missing, or the size of the file when none is
\* (GetNextMissingOffset).
ProgressExact ==
    /\ IsComplete(ranges) <=> received = Byte
    /\ GetNextMissingOffset(ranges) = Min((Byte \ received) \cup {FileSize})
=============================================================================
