----------------------------- MODULE ChunkPacing -----------------------------
(***************************************************************************)
(* The two timers of a snapshot download between one node and one peer:    *)
(* the node's chunk request loop (last_request_time, 10 s) and the peer's  *)
(* serving limit (m_last_snapshot_chunk_served, 2 s), which drops requests *)
(* that come too early.  The connection is reliable and ordered (TCP), of  *)
(* any delay.  Chunks are numbered in file order; module SnapshotDownload  *)
(* has the rest of the protocol.                                           *)
(***************************************************************************)
EXTENDS Integers, Sequences

CONSTANTS
    Chunks,              \* chunks of the file
    AskInterval,         \* the 10 s of the chunk request loop
    ServeInterval,       \* SNAPSHOT_CHUNK_SERVE_INTERVAL
    MaxInFlight          \* bound on the messages on their way

VARIABLES
    got,        \* the chunks received: always a prefix of the file
    asked,      \* seconds since last_request_time, or NotAsked
    served,     \* seconds since m_last_snapshot_chunk_served
    requests,   \* GETSNAPSHOTDATA on their way to the peer
    replies     \* SNAPSHOTDATA on their way back

vars == <<got, asked, served, requests, replies>>

NotAsked == -1

Init ==
    /\ got = 0 /\ asked = NotAsked /\ served = ServeInterval
    /\ requests = <<>> /\ replies = <<>>

\* A second passes.
Tick ==
    /\ asked' = IF asked \in {NotAsked, AskInterval} THEN asked ELSE asked + 1
    /\ served' = IF served = ServeInterval THEN served ELSE served + 1
    /\ UNCHANGED <<got, requests, replies>>

\* Mutant: a request that was dropped is never repeated.
RequestChunk_Once ==
    /\ got < Chunks
    /\ asked = NotAsked
    /\ Len(requests) + Len(replies) < MaxInFlight
    /\ asked' = 0
    /\ requests' = Append(requests, got)
    /\ UNCHANGED <<got, served, replies>>

\* SendMessages: ask for the first missing chunk, unless the peer was asked
\* less than 10 s ago and has not answered.
RequestChunk ==
    /\ got < Chunks
    /\ asked \in {NotAsked, AskInterval}
    /\ Len(requests) + Len(replies) < MaxInFlight
    /\ asked' = 0
    /\ requests' = Append(requests, got)
    /\ UNCHANGED <<got, served, replies>>

\* GETSNAPSHOTDATA at the peer: too early a request is dropped.
GetSnapshotData ==
    /\ requests # <<>>
    /\ requests' = Tail(requests)
    /\ \/ served < ServeInterval /\ UNCHANGED <<served, replies>>
       \/ /\ served = ServeInterval
          /\ served' = 0
          /\ replies' = Append(replies, Head(requests))
    /\ UNCHANGED <<got, asked>>

\* SNAPSHOTDATA: the answer clears last_request_time.
SnapshotData ==
    /\ replies # <<>>
    /\ replies' = Tail(replies)
    /\ asked' = NotAsked
    /\ got' = IF Head(replies) = got THEN got + 1 ELSE got
    /\ UNCHANGED <<served, requests>>

Next == Tick \/ RequestChunk \/ GetSnapshotData \/ SnapshotData

\* The clock runs, the message loops of both sides run, messages arrive.
Fairness ==
    /\ WF_vars(Tick) /\ WF_vars(RequestChunk)
    /\ WF_vars(GetSnapshotData) /\ WF_vars(SnapshotData)

Spec == Init /\ [][Next]_vars /\ Fairness
-----------------------------------------------------------------------------
(* Properties.                                                              *)

\* Although the peer drops what it is asked too early, and the node asks for
\* the next chunk as soon as one arrives, every chunk is fetched in the end:
\* the request that was dropped is made again after the node's own interval,
\* which outlasts the peer's (SNAPSHOT_CHUNK_SERVE_INTERVAL, last_request_time).
TransferCompletes == <>(got = Chunks)
=============================================================================
