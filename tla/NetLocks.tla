------------------------------- MODULE NetLocks -------------------------------
(***************************************************************************)
(* The order in which the threads of net_processing take cs_main and       *)
(* m_snapshot_download_mutex.  A call is the sequence of its lock          *)
(* operations; what happens between them is in module SnapshotDownload.    *)
(***************************************************************************)
EXTENDS Integers, Sequences

Lock == {"cs_main", "m_snapshot_download_mutex"}
Thread == {"msghand", "scheduler", "net"}
Free == "free"

main == <<"cs_main">>
snapshot == <<"m_snapshot_download_mutex">>

\* A call is a sequence of lock names: the first occurrence of a name takes
\* the lock, the next releases it, and so on (both are LOCK scopes).
GETUTXOSNAPSHOT == main \o main
UTXOSNAPSHOT == snapshot \o main \o main \o snapshot
SNAPSHOTDATA == snapshot \o snapshot
FinalizeNode == main \o snapshot \o snapshot \o main

\* The block download under cs_main, then the chunk requests without it.
SendMessages == main \o snapshot \o snapshot \o main \o snapshot \o snapshot

\* Returns before the sweep, after it, or after looking up the checkpoint.
MaybeRequestSnapshot ==
    {main \o main,
     main \o snapshot \o snapshot \o main,
     main \o snapshot \o snapshot \o snapshot \o snapshot \o main}

\* The calls of each thread.
Calls(t) ==
    CASE t = "msghand" ->
           {SendMessages, GETUTXOSNAPSHOT, UTXOSNAPSHOT, SNAPSHOTDATA}
      [] t = "scheduler" -> MaybeRequestSnapshot
      [] t = "net" -> {FinalizeNode}

VARIABLES
    todo,       \* the lock operations left of each thread's call
    holder      \* who holds each lock
vars == <<todo, holder>>

Init ==
    /\ todo = [t \in Thread |-> <<>>]
    /\ holder = [l \in Lock |-> Free]

Call(t) ==
    /\ todo[t] = <<>>
    /\ \E c \in Calls(t) : todo' = [todo EXCEPT ![t] = c]
    /\ UNCHANGED holder

Acquire(t) ==
    /\ todo[t] # <<>>
    /\ holder[Head(todo[t])] = Free
    /\ holder' = [holder EXCEPT ![Head(todo[t])] = t]
    /\ todo' = [todo EXCEPT ![t] = Tail(@)]

Release(t) ==
    /\ todo[t] # <<>>
    /\ holder[Head(todo[t])] = t
    /\ holder' = [holder EXCEPT ![Head(todo[t])] = Free]
    /\ todo' = [todo EXCEPT ![t] = Tail(@)]

Next == \E t \in Thread : Call(t) \/ Acquire(t) \/ Release(t)

Spec == Init /\ [][Next]_vars
-----------------------------------------------------------------------------
Waits(t, u) == todo[t] # <<>> /\ holder[Head(todo[t])] = u /\ u # t

\* No two threads wait for each other: "thread 1 locks `cs_main` and then
\* `cs_wallet`, while thread 2 locks them in the opposite order: result,
\* deadlock" (doc/developer-notes.md), for cs_main and the download tracker's.
NoCircularWait == \A t, u \in Thread : ~(Waits(t, u) /\ Waits(u, t))
=============================================================================
