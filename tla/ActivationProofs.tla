--------------------------- MODULE ActivationProofs ---------------------------
(***************************************************************************)
(* That a node which switches to a snapshot while it runs, or starts after *)
(* a crash at any point of the switch, has one current chainstate with the *)
(* coins of its tip, for any checkpoint interval and any number of blocks. *)
(***************************************************************************)
EXTENDS SnapshotActivation, FiniteSetTheorems, TLAPS

\* The phases of ActivateSnapshot in which the snapshot's database is open and
\* not yet the database of the current chainstate.
Loading == {"opened", "loading", "loaded", "verified"}

\* A coins database that holds the coins of its best block.
Consistent(store) == store.best \in Height /\ store.coins = Utxo(store.best)

\* m_chainstates: one chainstate without a target, except between the first
\* activation and the deletion of the chainstate it leaves behind.
ListedAs(list, both) ==
    IF both THEN Len(list) = 2 /\ list[1].target # None /\ list[2].target = None
            ELSE Len(list) = 1 /\ list[1].target = None

Listed ==
    IF up = "running" THEN ListedAs(chainstates, pc = "switched" /\ ~replacing)
                      ELSE chainstates = <<>> /\ pc = "idle"

\* What is on the disk, whatever the process is doing.
OnDisk ==
    /\ chainDir # None => chainDir.base = None /\ (chainDir.best = None \/ Consistent(chainDir))
    /\ SnapshotDetected /\ ~Torn => Consistent(snapDir)

\* The database that is being loaded: it does not carry the base_blockhash file
\* of the snapshot that is in it.
LoadedSoFar ==
    /\ pc \in Loading => snapDir # None /\ snapDir.origin = file /\ snapDir.base # file
    /\ pc \in {"loaded", "verified"} => snapDir.best = file
    /\ pc = "verified" => snapDir.coins = Utxo(file)
    /\ replacing => /\ pc = "opened" => snapDir.coins = {}
                    /\ pc = "loading" => snapDir.coins \subseteq FileCoins
                    /\ pc = "loaded" => snapDir.coins = FileCoins

\* What the scheduler thread knows of the file it is activating, and of the
\* chainstate that it is about to leave.
Activating ==
    /\ pc # "idle" => file \in Checkpoint /\ kind \in {"good", "corrupt"}
    /\ pc \in Loading \cup {"checked"} => replacing = (Current.from # None)
    /\ pc = "checked" /\ Current.from # None => Current.from < file
    /\ pc \in Loading /\ replacing => Current.coins = None
    /\ pc = "switched" => Current.from = file

\* The current chainstate and the directory that a restart would load.
CurrentBacked ==
    up = "running" =>
        /\ Current.coins = None => Current.from # None
        /\ Current.from = None => chainDir # None
        /\ Current.coins # None =>
              Current.from = (IF SnapshotDetected THEN snapDir.base ELSE None)
        /\ Current.coins # None /\ ~Torn => Current.coins = Utxo(Current.tip)
        /\ ~Current.validated => Current.from # None /\ (replacing \/ pc = "switched")

ActivationInv ==
    TypeOK /\ Listed /\ OnDisk /\ LoadedSoFar /\ Activating /\ CurrentBacked

-----------------------------------------------------------------------------
(* The list of chainstates, as a value.                                    *)

CandidateIndex(list) == Min({i \in DOMAIN list : list[i].target = None})
CurrentOf(list) == list[CandidateIndex(list)]

\* The least element of a set of one number.
LEMMA MinOfOne ==
    ASSUME NEW x \in Int PROVE Min({x}) = x
  BY DEF Min

\* Which chainstate is current in a list of one or of two.
LEMMA CandidateIs ==
    ASSUME NEW list \in Seq(Chain), NEW both \in BOOLEAN, ListedAs(list, both)
    PROVE  CandidateIndex(list) = IF both THEN 2 ELSE 1
  <1>1. CASE both
    <2>1. {i \in DOMAIN list : list[i].target = None} = {2}
      BY <1>1 DEF ListedAs
    <2>2. Min({2}) = 2
      BY MinOfOne
    <2>3. CandidateIndex(list) = 2
      BY <2>1, <2>2, Zenon DEF CandidateIndex
    <2> QED BY <1>1, <2>3
  <1>2. CASE ~both
    <2>1. {i \in DOMAIN list : list[i].target = None} = {1}
      BY <1>2 DEF ListedAs
    <2>2. Min({1}) = 1
      BY MinOfOne
    <2>3. CandidateIndex(list) = 1
      BY <2>1, <2>2, Zenon DEF CandidateIndex
    <2> QED BY <1>2, <2>3
  <1> QED BY <1>1, <1>2

\* There are one or two chainstates.
LEMMA ListLength ==
    ASSUME NEW list, NEW both, ListedAs(list, both) PROVE Len(list) <= 2
  <1>1. Len(list) = 1 \/ Len(list) = 2
    BY Zenon DEF ListedAs
  <1>2. 1 <= 2 /\ 2 <= 2
    OBVIOUS
  <1> QED BY <1>1, <1>2, Zenon

\* The current chainstate is a chainstate, and has no target.
LEMMA CurrentIs ==
    ASSUME NEW list \in Seq(Chain), NEW both \in BOOLEAN, ListedAs(list, both)
    PROVE  CurrentOf(list) \in Chain /\ CurrentOf(list).target = None
  BY CandidateIs DEF CurrentOf, ListedAs

\* An update of the current chainstate that sets no target keeps the list.
LEMMA UpdateIs ==
    ASSUME NEW list \in Seq(Chain), NEW both \in BOOLEAN, ListedAs(list, both),
           NEW cs \in Chain, cs.target = None
    PROVE  LET new == [list EXCEPT ![CandidateIndex(list)] = cs]
           IN new \in Seq(Chain) /\ ListedAs(new, both) /\ CurrentOf(new) = cs
  <1> DEFINE new == [list EXCEPT ![CandidateIndex(list)] = cs]
  <1>1. new \in Seq(Chain) /\ ListedAs(new, both)
    BY CandidateIs DEF ListedAs
  <1>2. CandidateIndex(new) = CandidateIndex(list)
    BY <1>1, CandidateIs
  <1>3. CurrentOf(new) = cs
    BY <1>2, CandidateIs DEF CurrentOf, ListedAs
  <1> QED BY <1>1, <1>3

\* The list that a start makes.
LEMMA OneListed ==
    ASSUME NEW c \in Chain, c.target = None
    PROVE  <<c>> \in Seq(Chain) /\ ListedAs(<<c>>, FALSE) /\ CurrentOf(<<c>>) = c
  <1>1. <<c>> \in Seq(Chain) /\ ListedAs(<<c>>, FALSE)
    BY DEF ListedAs
  <1>2. CandidateIndex(<<c>>) = 1
    BY <1>1, CandidateIs, Zenon
  <1>3. CurrentOf(<<c>>) = c
    BY <1>2 DEF CurrentOf
  <1> QED BY <1>1, <1>3, Zenon

\* The list that the first activation makes.
LEMMA TwoListed ==
    ASSUME NEW o \in Chain, NEW c \in Chain, o.target # None, c.target = None
    PROVE  <<o, c>> \in Seq(Chain) /\ ListedAs(<<o, c>>, TRUE) /\ CurrentOf(<<o, c>>) = c
  <1>1. <<o, c>> \in Seq(Chain) /\ ListedAs(<<o, c>>, TRUE)
    BY DEF ListedAs
  <1>2. CandidateIndex(<<o, c>>) = 2
    BY <1>1, CandidateIs, Zenon
  <1>3. CurrentOf(<<o, c>>) = c
    BY <1>2 DEF CurrentOf
  <1> QED BY <1>1, <1>3, Zenon

\* Current and WithCurrent are these operators on m_chainstates.
LEMMA CurrentDef ==
    /\ Current = CurrentOf(chainstates) /\ Current' = CurrentOf(chainstates')
    /\ \A cs : WithCurrent(cs) = [chainstates EXCEPT ![CandidateIndex(chainstates)] = cs]
  BY DEF Current, CurrentOf, CurrentIndex, CandidateIndex, Candidates, WithCurrent

-----------------------------------------------------------------------------
(* Types.                                                                  *)

\* The coins after a block are numbers of blocks.
LEMMA UtxoType == \A h \in Height : Utxo(h) \in SUBSET Height
  BY ActivationConstants DEF Utxo, Height

\* A checkpoint is a height above genesis.
LEMMA CheckpointHeight == \A h \in Checkpoint : h \in Height /\ h \in Int /\ h > 0 /\ h # None
  BY ActivationConstants DEF Checkpoint, Height

\* What a chainstate is when its database has been opened.
OpensAs(cs, store, from) ==
    /\ cs \in Chain /\ cs.target = None /\ cs.from = from /\ cs.coins # None
    /\ store.best = None \/ Consistent(store) => cs.coins = Utxo(cs.tip)
    /\ store.best # None => cs.tip = store.best

\* A database that does not name an unknown block opens as a chainstate.
LEMMA OpenedType ==
    ASSUME NEW store \in Store, store.best # Unknown, NEW from \in Height \cup {None},
           NEW validated \in BOOLEAN
    PROVE  OpensAs(Opened(store, from, None, validated), store, from)
  <1>1. 0 \in Height
    BY ActivationConstants DEF Height
  <1> QED BY <1>1, ActivationConstants, UtxoType DEF OpensAs, Opened, Store, Chain, Consistent

\* An empty database.
LEMMA EmptyStoreType ==
    \A h \in Height : /\ EmptyStore(h) \in Store /\ EmptyStore(h) # None
                      /\ EmptyStore(h).best = None /\ EmptyStore(h).base = None
                      /\ EmptyStore(h).origin = h /\ EmptyStore(h).coins = {}
  <1>1. \A h \in Height : EmptyStore(h) \in Store
    BY DEF EmptyStore, Store
  <1> QED BY <1>1, ActivationConstants DEF EmptyStore

\* While the node runs its current chainstate is a chainstate without a target.
LEMMA RunningCurrent ==
    ASSUME TypeOK, Listed, up = "running"
    PROVE  /\ Current \in Chain /\ Current.target = None
           /\ chainstates \in Seq(Chain) /\ ListedAs(chainstates, pc = "switched" /\ ~replacing)
  <1>1. chainstates \in Seq(Chain) /\ ListedAs(chainstates, pc = "switched" /\ ~replacing)
    BY DEF Listed, TypeOK
  <1> QED BY <1>1, CurrentIs, CurrentDef, Zenon

-----------------------------------------------------------------------------
(* The initial state, and the steps that several actions share.            *)

\* The first start satisfies the invariant.
LEMMA ActivationInit == Init => ActivationInv
  <1> SUFFICES ASSUME Init PROVE ActivationInv
    OBVIOUS
  <1>0. PICK cs : cs = Opened(EmptyStore(0), None, None, TRUE)
    BY Zenon
  <1>1. 0 \in Height /\ EmptyStore(0) \in Store /\ EmptyStore(0) # None
        /\ EmptyStore(0).best = None /\ EmptyStore(0).base = None
    BY ActivationConstants, EmptyStoreType DEF Height
  <1>2. /\ cs \in Chain /\ cs.target = None /\ cs.from = None /\ cs.coins # None
        /\ cs.validated /\ cs.coins = Utxo(cs.tip)
    <2>1. EmptyStore(0).best # Unknown
      BY <1>1, ActivationConstants
    <2>2. None \in Height \cup {None} /\ TRUE \in BOOLEAN
      OBVIOUS
    <2>3. OpensAs(cs, EmptyStore(0), None)
      BY <1>0, <1>1, <2>1, <2>2, OpenedType, Zenon
    <2>4. cs.validated
      BY <1>0 DEF Opened
    <2> QED BY <1>1, <2>3, <2>4 DEF OpensAs
  <1>3. <<cs>> \in Seq(Chain) /\ ListedAs(<<cs>>, FALSE) /\ CurrentOf(<<cs>>) = cs
    BY <1>2, OneListed, Zenon
  <1>4. chainstates = <<cs>>
    BY <1>0 DEF Init
  <1>8. Current = cs
    BY <1>3, <1>4, CurrentDef
  <1>9. chainstates \in Seq(Chain) /\ Len(chainstates) <= 2
    BY <1>3, <1>4 DEF ListedAs
  <1>5. TypeOK
    BY <1>1, <1>9, Zenon DEF Init, TypeOK
  <1>6. Listed
    BY <1>3, <1>4, Zenon DEF Init, Listed
  <1>7. OnDisk /\ LoadedSoFar /\ Activating /\ CurrentBacked
    BY <1>1, <1>2, <1>8 DEF Init, OnDisk, LoadedSoFar, Activating, CurrentBacked, Loading,
                            SnapshotDetected, Torn
  <1> QED BY <1>5, <1>6, <1>7 DEF ActivationInv

\* A process that has ended leaves only its directories.
LEMMA Halted ==
    ASSUME TypeOK, NEW status \in {"stopped", "aborted"}, Halt(status),
           chainDir' \in Store \cup {None}, snapDir' \in Store \cup {None},
           files' \in [Checkpoint -> Kinds \cup {None}], OnDisk'
    PROVE  ActivationInv'
  <1>3. chainstates' \in Seq(Chain) /\ Len(chainstates') <= 2
    BY DEF Halt
  <1>1. TypeOK'
    BY <1>3, Zenon DEF Halt, TypeOK
  <1>2. Listed' /\ LoadedSoFar' /\ Activating' /\ CurrentBacked'
    BY DEF Halt, Listed, LoadedSoFar, Activating, CurrentBacked, Loading
  <1> QED BY <1>1, <1>2 DEF ActivationInv

\* A failed assertion and a crash leave the disk as it is.
LEMMA HaltedAsIs ==
    ASSUME ActivationInv, NEW status \in {"stopped", "aborted"}, Halt(status),
           UNCHANGED <<disk, files>>
    PROVE  ActivationInv'
  <1>1. chainDir' = chainDir /\ snapDir' = snapDir /\ files' = files
    BY DEF disk
  <1>2. OnDisk'
    BY <1>1 DEF ActivationInv, OnDisk, SnapshotDetected, Torn, Consistent
  <1>3. TypeOK /\ chainDir' \in Store \cup {None} /\ snapDir' \in Store \cup {None}
        /\ files' \in [Checkpoint -> Kinds \cup {None}]
    BY <1>1 DEF ActivationInv, TypeOK
  <1> QED BY <1>2, <1>3, Halted

\* A step that changes neither the chainstates, the disk nor the task.
LEMMA Framed ==
    ASSUME ActivationInv, TypeOK', UNCHANGED <<chainstates, disk, task, up>>
    PROVE  ActivationInv'
  <1>1. /\ chainstates' = chainstates /\ chainDir' = chainDir /\ snapDir' = snapDir
        /\ pc' = pc /\ file' = file /\ kind' = kind /\ replacing' = replacing /\ up' = up
    BY DEF disk, task
  <1>2. Current' = Current
    BY <1>1, CurrentDef
  <1>3. Listed' /\ OnDisk'
    BY <1>1 DEF ActivationInv, Listed, OnDisk, SnapshotDetected, Torn, Consistent
  <1>4. LoadedSoFar' /\ Activating'
    BY <1>1, <1>2 DEF ActivationInv, LoadedSoFar, Activating, FileCoins
  <1>5. CurrentBacked'
    BY <1>1, <1>2 DEF ActivationInv, CurrentBacked, SnapshotDetected, Torn
  <1> QED BY <1>3, <1>4, <1>5 DEF ActivationInv

\* The checkpoint below a height of at least one interval is a checkpoint.
LEMMA CheckpointBelow ==
    ASSUME NEW n \in Height, n >= Interval
    PROVE  (n \div Interval) * Interval \in Checkpoint
  <1> DEFINE q == n \div Interval
  <1>1. q \in Nat /\ q >= 1 /\ q * Interval <= n
    BY ActivationConstants DEF Height
  <1> HIDE DEF q
  <1>2. q * Interval \in Nat /\ q * Interval >= 1
    BY <1>1, ActivationConstants
  <1>3. (q * Interval) % Interval = 0
    BY <1>1, ActivationConstants
  <1>4. q * Interval \in Checkpoint
    BY <1>1, <1>2, <1>3, ActivationConstants DEF Checkpoint, Height
  <1> QED BY <1>4 DEF q

\* A flush of a chainstate that has the coins of its tip, unless it is torn,
\* into the directory it was loaded from.
LEMMA Flushed ==
    ASSUME TypeOK, OnDisk, NEW cs \in Chain, cs.coins # None, FlushStateToDisk(cs),
           cs.from = None => chainDir # None /\ ~SnapshotDetected,
           cs.from # None => snapDir # None,
           ~Torn => cs.coins = Utxo(cs.tip)
    PROVE  /\ chainDir' \in Store \cup {None} /\ snapDir' \in Store \cup {None} /\ OnDisk'
           /\ chainDir' = None <=> chainDir = None
           /\ SnapshotDetected' <=> SnapshotDetected
           /\ Torn' <=> Torn
           /\ SnapshotDetected => snapDir'.base = snapDir.base
           /\ cs.from = None => snapDir' = snapDir
  <1>1. cs.tip \in Height /\ cs.coins \in SUBSET Height /\ cs.tip # None
    <2>1. cs.tip \in Height /\ cs.coins \in (SUBSET Height) \cup {None}
      BY DEF Chain
    <2>2. cs.tip # None
      BY <2>1, ActivationConstants DEF Height
    <2>3. cs.coins \in SUBSET Height
      BY <2>1, Zenon
    <2> QED BY <2>1, <2>2, <2>3
  <1>2. CASE cs.from = None
    <2>1. /\ chainDir' = [chainDir EXCEPT !.coins = cs.coins, !.best = cs.tip]
          /\ snapDir' = snapDir /\ chainDir \in Store
      BY <1>2 DEF FlushStateToDisk, TypeOK
    <2>2. /\ chainDir' \in Store /\ chainDir'.base = chainDir.base
          /\ chainDir'.coins = cs.coins /\ chainDir'.best = cs.tip
      BY <1>1, <2>1, Zenon DEF Store
    <2>3. cs.coins = Utxo(cs.tip)
      BY <1>2 DEF SnapshotDetected, Torn
    <2>4. chainDir' # None
      BY <2>2, ActivationConstants
    <2>5. OnDisk'
      BY <1>1, <1>2, <2>1, <2>2, <2>3 DEF OnDisk, Consistent, SnapshotDetected, Torn
    <2> QED BY <1>2, <2>1, <2>2, <2>4, <2>5 DEF TypeOK, SnapshotDetected, Torn
  <1>3. CASE cs.from # None
    <2>1. /\ snapDir' = [snapDir EXCEPT !.coins = cs.coins, !.best = cs.tip]
          /\ chainDir' = chainDir /\ snapDir \in Store
      BY <1>3 DEF FlushStateToDisk, TypeOK
    <2>2. /\ snapDir' \in Store /\ snapDir'.base = snapDir.base /\ snapDir'.origin = snapDir.origin
          /\ snapDir'.coins = cs.coins /\ snapDir'.best = cs.tip
      BY <1>1, <2>1, Zenon DEF Store
    <2>3. snapDir' # None
      BY <2>2, ActivationConstants
    <2>4. (SnapshotDetected' <=> SnapshotDetected) /\ (Torn' <=> Torn)
      BY <1>3, <2>2, <2>3 DEF SnapshotDetected, Torn
    <2>5. OnDisk'
      BY <1>1, <2>1, <2>2, <2>4 DEF OnDisk, Consistent
    <2> QED BY <1>3, <2>1, <2>2, <2>4, <2>5 DEF TypeOK
  <1> QED BY <1>2, <1>3

\* The current chainstate, while it has its coins, can be flushed.
LEMMA Flushable ==
    ASSUME ActivationInv, up = "running", Current.coins # None
    PROVE  /\ Current.from = None => chainDir # None /\ ~SnapshotDetected
           /\ Current.from # None => snapDir # None
           /\ ~Torn => Current.coins = Utxo(Current.tip)
  BY DEF ActivationInv, CurrentBacked, SnapshotDetected

-----------------------------------------------------------------------------
(* One lemma per action.                                                   *)

\* Headers, transactions, requests and received snapshots.
LEMMA MessageStep ==
    ASSUME ActivationInv,
           AcceptHeader \/ AcceptToMemoryPool \/ MaybeRequestSnapshot \/ SnapshotReceived
    PROVE  ActivationInv'
  <1>1. TypeOK
    BY DEF ActivationInv
  <1>2. CASE AcceptHeader
    <2>1. TypeOK'
      BY <1>1, <1>2, ActivationConstants DEF AcceptHeader, TypeOK, disk, task, Height
    <2> QED BY <1>2, <2>1, Framed DEF AcceptHeader
  <1>3. CASE AcceptToMemoryPool
    <2>1. CASE Current.coins = None
      BY <1>3, <2>1, HaltedAsIs DEF AcceptToMemoryPool, Abort
    <2>2. CASE Current.coins # None
      <3>1. TypeOK'
        BY <1>1, <1>3, <2>2 DEF AcceptToMemoryPool, TypeOK, disk, task
      <3> QED BY <1>3, <2>2, <3>1, Framed DEF AcceptToMemoryPool
    <2> QED BY <2>1, <2>2
  <1>4. CASE MaybeRequestSnapshot
    <2>1. (best \div Interval) * Interval \in Checkpoint
      BY <1>1, <1>4, CheckpointBelow DEF MaybeRequestSnapshot, TypeOK
    <2>2. TypeOK'
      BY <1>1, <1>4, <2>1 DEF MaybeRequestSnapshot, TypeOK, disk, task
    <2> QED BY <1>4, <2>2, Framed DEF MaybeRequestSnapshot
  <1>5. CASE SnapshotReceived
    <2>1. files' \in [Checkpoint -> Kinds \cup {None}] /\ requested' \subseteq Checkpoint
      BY <1>1, <1>5 DEF SnapshotReceived, TypeOK
    <2>2. TypeOK'
      BY <1>1, <1>5, <2>1 DEF SnapshotReceived, TypeOK, disk, task
    <2> QED BY <1>5, <2>2, Framed DEF SnapshotReceived
  <1> QED BY <1>2, <1>3, <1>4, <1>5

\* A block connects to the current chainstate, which may be flushed.
LEMMA ConnectStep ==
    ASSUME ActivationInv, ConnectTip PROVE ActivationInv'
  <1>1. TypeOK /\ OnDisk /\ up = "running"
    BY DEF ActivationInv, ConnectTip
  <1>2. CASE Current.coins = None
    BY <1>2, HaltedAsIs DEF ConnectTip, Abort
  <1>3. CASE Current.coins # None
    <2> DEFINE both == pc = "switched" /\ ~replacing
               h == Current.tip + 1
               next == [Current EXCEPT !.tip = h, !.coins = Utxo(h)]
    <2>1. /\ Current \in Chain /\ Current.target = None
          /\ chainstates \in Seq(Chain) /\ ListedAs(chainstates, both)
      BY <1>1, RunningCurrent DEF ActivationInv
    <2>2. h \in Height
      BY <1>1, <2>1, ActivationConstants DEF ConnectTip, TypeOK, Chain, Height
    <2>3. /\ next \in Chain /\ next.target = None /\ next.from = Current.from
          /\ next.coins = Utxo(next.tip) /\ next.coins # None
          /\ next.validated = Current.validated
      BY <2>1, <2>2, UtxoType, ActivationConstants, Zenon DEF Chain
    <2>4. /\ chainstates' = WithCurrent(next)
          /\ files' = [f \in Checkpoint |->
                         IF (h \in Checkpoint /\ files[h] = None) /\ f = h THEN "good" ELSE files[f]]
          /\ FlushStateToDisk(next) \/ UNCHANGED disk
          /\ ibd' \in {ibd, FALSE} /\ mempool' \in {mempool, FALSE}
          /\ UNCHANGED <<best, requested, activated, task, up>>
      BY <1>3, Zenon DEF ConnectTip
    <2> HIDE DEF h, next
    <2>5. both \in BOOLEAN
      OBVIOUS
    <2>6. chainstates' \in Seq(Chain) /\ ListedAs(chainstates', both) /\ Current' = next
      BY <2>1, <2>3, <2>4, <2>5, UpdateIs, CurrentDef, Zenon
    <2>7. /\ chainDir' \in Store \cup {None} /\ snapDir' \in Store \cup {None} /\ OnDisk'
          /\ chainDir' = None <=> chainDir = None
          /\ SnapshotDetected' <=> SnapshotDetected
          /\ Torn' <=> Torn
          /\ SnapshotDetected => snapDir'.base = snapDir.base
          /\ next.from = None => snapDir' = snapDir
      <3>1. CASE FlushStateToDisk(next)
        BY <1>1, <1>3, <2>3, <3>1, Flushable, Flushed
      <3>2. CASE UNCHANGED disk
        BY <1>1, <3>2 DEF disk, TypeOK, OnDisk, SnapshotDetected, Torn, Consistent
      <3> QED BY <2>4, <3>1, <3>2
    <2>8. pc' = pc /\ file' = file /\ kind' = kind /\ replacing' = replacing /\ up' = up
      BY <2>4 DEF task
    <2>9. TypeOK'
      <3>1. files' \in [Checkpoint -> Kinds \cup {None}]
        BY <1>1, <2>4 DEF TypeOK, Kinds
      <3>2. Len(chainstates') <= 2
        BY <2>6, ListLength, Zenon
      <3>3. ibd' \in BOOLEAN /\ mempool' \in BOOLEAN
        BY <1>1, <2>4, Zenon DEF TypeOK
      <3> QED BY <1>1, <2>4, <2>6, <2>7, <2>8, <3>1, <3>2, <3>3 DEF TypeOK
    <2>10. Listed'
      BY <1>1, <2>6, <2>8 DEF Listed
    <2>11. pc \in Loading => ~replacing /\ next.from = None
      BY <1>3, <2>3, Zenon DEF ActivationInv, Activating
    <2>12. LoadedSoFar'
      BY <2>7, <2>8, <2>11 DEF ActivationInv, LoadedSoFar, FileCoins, Loading
    <2>13. Activating'
      BY <2>3, <2>6, <2>8, <2>11 DEF ActivationInv, Activating
    <2>14. CurrentBacked'
      BY <1>1, <1>3, <2>3, <2>6, <2>7, <2>8 DEF ActivationInv, CurrentBacked
    <2> QED BY <2>7, <2>9, <2>10, <2>12, <2>13, <2>14 DEF ActivationInv
  <1> QED BY <1>2, <1>3

\* The list of chainstates stays while the scheduler thread moves between
\* phases that both come before the switch.
LEMMA ListStays ==
    ASSUME ActivationInv, up = "running", pc # "switched", pc' # "switched",
           chainstates' = chainstates, up' = up
    PROVE  Listed' /\ Current' = Current
  <1>1. Current' = Current
    BY CurrentDef
  <1>2. ListedAs(chainstates, FALSE)
    BY Zenon DEF ActivationInv, Listed
  <1> QED BY <1>1, <1>2, Zenon DEF Listed

\* A refused file leaves everything but the file.
LEMMA RefuseStep ==
    ASSUME ActivationInv, RefuseFile PROVE ActivationInv'
  <1>1. TypeOK /\ UNCHANGED <<disk, node, task, up>>
    BY DEF ActivationInv, RefuseFile
  <1>2. files' \in [Checkpoint -> Kinds \cup {None}]
    BY <1>1 DEF RefuseFile, SetAside, TypeOK
  <1>3. TypeOK'
    BY <1>1, <1>2 DEF TypeOK, disk, node, task
  <1> QED BY <1>1, <1>3, Framed DEF node

\* An accepted file: a snapshot that replaces another one is newer.
LEMMA CheckStep ==
    ASSUME ActivationInv, CheckSnapshot PROVE ActivationInv'
  <1>1. PICK h \in Checkpoint :
           /\ up = "running" /\ pc = "idle" /\ Newer(h)
           /\ files[h] \in {"good", "corrupt"} /\ h <= best
           /\ pc' = "checked" /\ file' = h /\ kind' = files[h]
           /\ replacing' = (Current.from # None)
           /\ UNCHANGED <<disk, node, files, up>>
    BY DEF CheckSnapshot
  <1>2. /\ chainDir' = chainDir /\ snapDir' = snapDir /\ files' = files /\ up' = up
        /\ chainstates' = chainstates /\ best' = best /\ ibd' = ibd /\ mempool' = mempool
        /\ requested' = requested /\ activated' = activated
    BY <1>1 DEF disk, node
  <1>3. TypeOK /\ Listed /\ OnDisk /\ CurrentBacked
    BY DEF ActivationInv
  <1>4. Listed' /\ Current' = Current
    BY <1>1, <1>2, ListStays
  <1>5. TypeOK'
    <2>1. kind' \in Kinds /\ replacing' \in BOOLEAN
      BY <1>1 DEF Kinds
    <2> QED BY <1>1, <1>2, <1>3, <2>1 DEF TypeOK
  <1>6. OnDisk'
    BY <1>2, <1>3 DEF OnDisk, SnapshotDetected, Torn, Consistent
  <1>7. LoadedSoFar'
    BY <1>1 DEF LoadedSoFar, Loading
  <1>8. Current.from # None => Current.from < h
    <2>1. Current \in Chain
      BY <1>1, <1>3, RunningCurrent
    <2> QED BY <1>1, <2>1, CheckpointHeight DEF Newer, Chain, Height
  <1>9. Activating'
    BY <1>1, <1>4, <1>8 DEF Activating, Loading
  <1>10. CurrentBacked'
    BY <1>1, <1>2, <1>3, <1>4, Zenon DEF CurrentBacked, SnapshotDetected, Torn
  <1> QED BY <1>4, <1>5, <1>6, <1>7, <1>9, <1>10 DEF ActivationInv

\* cleanup_bad_snapshot: the current chainstate keeps its own directory, or has
\* lost its coins with the database they were in.
LEMMA CleanupStep ==
    ASSUME ActivationInv, up = "running", pc \in Loading, CleanupBadSnapshot, UNCHANGED up
    PROVE  ActivationInv'
  <1>1. /\ chainDir' = chainDir /\ snapDir' = None /\ up' = up /\ pc' = "idle"
        /\ file' = file /\ kind' = kind /\ replacing' = replacing
        /\ chainstates' = chainstates /\ best' = best /\ ibd' = ibd /\ mempool' = mempool
        /\ requested' = requested /\ activated' = activated
    BY DEF CleanupBadSnapshot, node
  <1>2. TypeOK /\ OnDisk /\ CurrentBacked
    BY DEF ActivationInv
  <1>3. Listed' /\ Current' = Current
    BY <1>1, ListStays DEF Loading
  <1>4. TypeOK'
    <2>1. files' \in [Checkpoint -> Kinds \cup {None}]
      BY <1>2, Zenon DEF CleanupBadSnapshot, SetAside, TypeOK
    <2> QED BY <1>1, <1>2, <2>1 DEF TypeOK
  <1>5. OnDisk' /\ LoadedSoFar' /\ Activating'
    BY <1>1, <1>2 DEF OnDisk, LoadedSoFar, Activating, Loading, SnapshotDetected, Consistent
  <1>6. CurrentBacked'
    <2>1. replacing <=> Current.from # None
      BY Zenon DEF ActivationInv, Activating, Loading
    <2>2. CASE replacing
      BY <1>1, <1>2, <1>3, <2>1, <2>2 DEF ActivationInv, Activating, CurrentBacked, Loading
    <2>3. CASE ~replacing
      BY <1>1, <1>2, <1>3, <2>1, <2>3 DEF CurrentBacked, SnapshotDetected, Torn
    <2> QED BY <2>2, <2>3
  <1> QED BY <1>3, <1>4, <1>5, <1>6 DEF ActivationInv

\* The database of a replacement is emptied under the old base_blockhash file,
\* which is older than the snapshot that will be loaded.
LEMMA OpenReplacement ==
    ASSUME ActivationInv, OpenSnapshotDB, Current.coins # None, replacing
    PROVE  ActivationInv'
  <1> DEFINE cs == [Current EXCEPT !.coins = None]
  <1>1. TypeOK /\ OnDisk /\ CurrentBacked /\ Activating /\ up = "running" /\ pc = "checked"
    BY DEF ActivationInv, OpenSnapshotDB
  <1>2. /\ chainstates' = WithCurrent(cs) /\ snapDir' = Wiped(snapDir) /\ chainDir' = chainDir
        /\ pc' = "opened" /\ file' = file /\ kind' = kind /\ replacing' = replacing
        /\ best' = best /\ ibd' = ibd /\ mempool' = mempool /\ requested' = requested
        /\ activated' = activated /\ files' = files /\ up' = up
    BY DEF OpenSnapshotDB
  <1>3. /\ Current \in Chain /\ Current.target = None
        /\ chainstates \in Seq(Chain) /\ ListedAs(chainstates, FALSE)
    BY <1>1, RunningCurrent, Zenon DEF ActivationInv, Listed
  <1>4. /\ cs \in Chain /\ cs.target = None /\ cs.from = Current.from /\ cs.coins = None
        /\ cs.validated = Current.validated
    BY <1>3 DEF Chain
  <1> HIDE DEF cs
  <1>5. chainstates' \in Seq(Chain) /\ ListedAs(chainstates', FALSE) /\ Current' = cs
    <2>1. FALSE \in BOOLEAN
      OBVIOUS
    <2> QED BY <1>2, <1>3, <1>4, <2>1, UpdateIs, CurrentDef, Zenon
  <1>6. /\ file \in Checkpoint /\ file \in Height /\ file \in Int /\ Current.from # None
        /\ Current.from < file
    BY <1>1, CheckpointHeight, Zenon DEF Activating
  <1>7. SnapshotDetected /\ snapDir.base = Current.from /\ snapDir \in Store
    BY <1>1, <1>6 DEF CurrentBacked, SnapshotDetected, TypeOK
  <1>8. snapDir.base \in Height /\ snapDir.base # file
    <2>1. snapDir.base \in Height
      BY <1>6, <1>7 DEF Store
    <2> QED BY <1>6, <1>7, <2>1 DEF Height
  <1>9. /\ snapDir' \in Store /\ snapDir' # None /\ snapDir'.coins = {}
        /\ snapDir'.base = snapDir.base /\ snapDir'.origin = file
    <2>1. /\ snapDir' \in Store /\ snapDir'.coins = {}
          /\ snapDir'.base = snapDir.base /\ snapDir'.origin = file
      BY <1>2, <1>6, <1>8 DEF Wiped, EmptyStore, Store
    <2> QED BY <2>1, ActivationConstants
  <1>10. TypeOK'
    <2>1. Len(chainstates') <= 2
      BY <1>5, ListLength, Zenon
    <2> QED BY <1>1, <1>2, <1>5, <1>9, <2>1 DEF TypeOK
  <1>11. Listed'
    BY <1>1, <1>2, <1>5, Zenon DEF Listed
  <1>12. Torn'
    BY <1>6, <1>7, <1>8, <1>9 DEF Torn
  <1>13. OnDisk'
    BY <1>1, <1>2, <1>12 DEF OnDisk, Consistent
  <1>14. LoadedSoFar'
    BY <1>2, <1>8, <1>9 DEF LoadedSoFar, Loading
  <1>15. Activating'
    BY <1>1, <1>2, <1>4, <1>5, <1>6, Zenon DEF Activating, Loading
  <1>16. CurrentBacked'
    BY <1>1, <1>2, <1>4, <1>5, <1>6 DEF CurrentBacked
  <1> QED BY <1>10, <1>11, <1>13, <1>14, <1>15, <1>16 DEF ActivationInv

\* The database of a first snapshot carries no base_blockhash file.
LEMMA OpenFirst ==
    ASSUME ActivationInv, OpenSnapshotDB, Current.coins # None, ~replacing
    PROVE  ActivationInv'
  <1>1. TypeOK /\ OnDisk /\ CurrentBacked /\ Activating /\ up = "running" /\ pc = "checked"
    BY DEF ActivationInv, OpenSnapshotDB
  <1>2. /\ chainstates' = chainstates
        /\ chainDir' = [chainDir EXCEPT !.coins = Current.coins, !.best = Current.tip]
        /\ snapDir' = IF snapDir = None THEN EmptyStore(file) ELSE [snapDir EXCEPT !.origin = file]
        /\ pc' = "opened" /\ file' = file /\ kind' = kind /\ replacing' = replacing
        /\ best' = best /\ ibd' = ibd /\ mempool' = mempool /\ requested' = requested
        /\ activated' = activated /\ files' = files /\ up' = up
    BY DEF OpenSnapshotDB
  <1>3. Listed' /\ Current' = Current /\ Current \in Chain
    BY <1>1, <1>2, ListStays, RunningCurrent DEF ActivationInv
  <1>4. /\ file \in Checkpoint /\ file \in Height /\ file # None /\ Current.from = None
        /\ chainDir # None /\ chainDir \in Store /\ ~SnapshotDetected /\ ~Torn
        /\ Current.coins = Utxo(Current.tip)
    BY <1>1, CheckpointHeight, Zenon DEF Activating, CurrentBacked, SnapshotDetected, Torn, Loading, TypeOK
  <1>5. Current.tip \in Height /\ Current.coins \in SUBSET Height
    BY <1>3, <1>4, UtxoType DEF Chain
  <1>6. /\ chainDir' \in Store /\ chainDir'.base = chainDir.base
        /\ chainDir'.coins = Current.coins /\ chainDir'.best = Current.tip
    BY <1>2, <1>4, <1>5, Zenon DEF Store
  <1>7. snapDir' \in Store /\ snapDir'.base = None /\ snapDir'.origin = file
    <2>1. CASE snapDir = None
      BY <1>2, <1>4, <2>1, EmptyStoreType
    <2>2. CASE snapDir # None
      <3>1. snapDir \in Store /\ snapDir.base = None
        BY <1>1, <1>4, <2>2 DEF TypeOK, SnapshotDetected
      <3> QED BY <1>2, <1>4, <2>2, <3>1 DEF Store
    <2> QED BY <2>1, <2>2
  <1>8. chainDir' # None /\ snapDir' # None
    BY <1>6, <1>7, ActivationConstants
  <1>9. TypeOK'
    BY <1>1, <1>2, <1>6, <1>7 DEF TypeOK
  <1>10. OnDisk'
    BY <1>1, <1>4, <1>5, <1>6, <1>7 DEF OnDisk, Consistent, SnapshotDetected
  <1>11. LoadedSoFar' /\ Activating'
    BY <1>1, <1>2, <1>3, <1>4, <1>7, <1>8 DEF LoadedSoFar, Activating, Loading
  <1>12. CurrentBacked'
    BY <1>1, <1>2, <1>3, <1>4, <1>7, <1>8 DEF CurrentBacked, SnapshotDetected
  <1> QED BY <1>3, <1>9, <1>10, <1>11, <1>12 DEF ActivationInv

\* The snapshot's database is opened, or the shrunk chainstate has no coins.
LEMMA OpenStep ==
    ASSUME ActivationInv, OpenSnapshotDB PROVE ActivationInv'
  <1>1. CASE Current.coins = None
    BY <1>1, HaltedAsIs DEF OpenSnapshotDB, Abort
  <1> QED BY <1>1, OpenReplacement, OpenFirst

\* A step of the loading touches only the coins and the best block of the
\* database that is being loaded.
LEMMA LoadingKeeps ==
    ASSUME ActivationInv, up = "running", pc \in Loading, pc' \in Loading,
           snapDir' \in Store, snapDir'.base = snapDir.base, snapDir'.origin = snapDir.origin,
           UNCHANGED <<chainDir, node, file, kind, replacing, files, up>>, LoadedSoFar'
    PROVE  ActivationInv'
  <1>1. /\ chainDir' = chainDir /\ up' = up /\ file' = file /\ kind' = kind
        /\ replacing' = replacing /\ chainstates' = chainstates /\ best' = best /\ ibd' = ibd
        /\ mempool' = mempool /\ requested' = requested /\ activated' = activated /\ files' = files
    BY DEF node
  <1>2. TypeOK /\ OnDisk /\ LoadedSoFar /\ Activating /\ CurrentBacked
    BY DEF ActivationInv
  <1>3. Listed' /\ Current' = Current
    BY <1>1, ListStays DEF Loading
  <1>4. TypeOK'
    BY <1>1, <1>2 DEF TypeOK, Loading
  <1>5. /\ snapDir # None /\ snapDir' # None
        /\ snapDir.origin = file /\ snapDir.base # file
    BY <1>2, ActivationConstants DEF LoadedSoFar
  <1>6. (SnapshotDetected' <=> SnapshotDetected) /\ (Torn' <=> Torn) /\ (SnapshotDetected => Torn)
    BY <1>5 DEF SnapshotDetected, Torn
  <1>7. OnDisk'
    BY <1>1, <1>2, <1>6 DEF OnDisk, Consistent
  <1>8. Activating'
    BY <1>1, <1>2, <1>3 DEF Activating, Loading
  <1>9. CurrentBacked'
    BY <1>1, <1>2, <1>3, <1>6 DEF CurrentBacked, Loading
  <1> QED BY <1>3, <1>4, <1>7, <1>8, <1>9 DEF ActivationInv

\* The coins of a file are numbers of blocks.
LEMMA FileCoinsType ==
    ASSUME ActivationInv, pc # "idle"
    PROVE  FileCoins \in SUBSET Height /\ file \in Checkpoint /\ file \in Height
  BY UtxoType, CheckpointHeight DEF ActivationInv, Activating, FileCoins

\* The coins are read, flushed in parts and flushed as a whole.
LEMMA LoadStep ==
    ASSUME ActivationInv, StartLoading \/ FlushPartial \/ FlushLoaded
    PROVE  ActivationInv'
  <1>1. TypeOK /\ LoadedSoFar /\ up = "running" /\ pc \in Loading
    BY Zenon DEF ActivationInv, StartLoading, FlushPartial, FlushLoaded, Loading
  <1>2. /\ snapDir \in Store /\ snapDir # None /\ snapDir.origin = file /\ snapDir.base # file
        /\ FileCoins \in SUBSET Height /\ file \in Height
    BY <1>1, FileCoinsType DEF LoadedSoFar, TypeOK, Loading
  <1>3. UNCHANGED <<chainDir, node, file, kind, replacing, files, up>>
    BY Zenon DEF StartLoading, FlushPartial, FlushLoaded, disk, task
  <1>4. CASE StartLoading
    <2>1. pc = "opened" /\ pc' = "loading" /\ snapDir' = snapDir
      BY <1>4 DEF StartLoading, disk
    <2>2. LoadedSoFar'
      BY <1>1, <1>2, <1>3, <2>1 DEF LoadedSoFar, Loading
    <2> QED BY <1>1, <1>2, <1>3, <2>1, <2>2, LoadingKeeps DEF Loading
  <1>5. CASE FlushPartial
    <2>1. PICK part \in SUBSET FileCoins :
             snapDir' = [snapDir EXCEPT !.coins = @ \cup part, !.best = Unknown]
      BY <1>5, Zenon DEF FlushPartial
    <2>2. pc = "loading" /\ pc' = "loading"
      BY <1>5, Zenon DEF FlushPartial, task
    <2>3. /\ snapDir' \in Store /\ snapDir'.base = snapDir.base /\ snapDir'.origin = snapDir.origin
          /\ snapDir'.coins = snapDir.coins \cup part
      BY <1>2, <2>1, Zenon DEF Store
    <2>4. snapDir' # None
      BY <2>3, ActivationConstants
    <2>5. FileCoins' = FileCoins
      BY <1>3 DEF FileCoins
    <2>6. LoadedSoFar'
      BY <1>1, <1>2, <1>3, <2>1, <2>2, <2>3, <2>4, <2>5 DEF LoadedSoFar, Loading
    <2> QED BY <1>1, <1>3, <2>2, <2>3, <2>6, LoadingKeeps DEF Loading
  <1>6. CASE FlushLoaded
    <2>1. /\ pc = "loading" /\ pc' = "loaded"
          /\ snapDir' = [snapDir EXCEPT !.coins = @ \cup FileCoins, !.best = file]
      BY <1>6 DEF FlushLoaded
    <2>2. /\ snapDir' \in Store /\ snapDir'.base = snapDir.base /\ snapDir'.origin = snapDir.origin
          /\ snapDir'.coins = snapDir.coins \cup FileCoins /\ snapDir'.best = file
      BY <1>2, <2>1, Zenon DEF Store
    <2>3. snapDir' # None
      BY <2>2, ActivationConstants
    <2>4. FileCoins' = FileCoins
      BY <1>3 DEF FileCoins
    <2>5. LoadedSoFar'
      BY <1>1, <1>2, <1>3, <2>1, <2>2, <2>3, <2>4 DEF LoadedSoFar, Loading
    <2> QED BY <1>1, <1>3, <2>1, <2>2, <2>5, LoadingKeeps DEF Loading
  <1> QED BY <1>4, <1>5, <1>6

\* The loaded coins are hashed.
LEMMA HashStep ==
    ASSUME ActivationInv, CheckHash PROVE ActivationInv'
  <1>1. TypeOK /\ LoadedSoFar /\ up = "running" /\ pc = "loaded" /\ UNCHANGED up
    BY DEF ActivationInv, CheckHash
  <1>2. CASE HashMatches
    <2>1. /\ pc' = "verified" /\ snapDir' = snapDir /\ snapDir \in Store
          /\ UNCHANGED <<chainDir, node, file, kind, replacing, files, up>>
      BY <1>1, <1>2 DEF CheckHash, disk, LoadedSoFar, Loading, TypeOK
    <2>2. LoadedSoFar'
      BY <1>1, <1>2, <2>1 DEF LoadedSoFar, Loading, HashMatches
    <2> QED BY <1>1, <2>1, <2>2, LoadingKeeps DEF Loading
  <1>3. CASE ~HashMatches
    BY <1>1, <1>3, CleanupStep DEF CheckHash, Loading
  <1> QED BY <1>2, <1>3

\* The failures that end in cleanup_bad_snapshot.
LEMMA FailStep ==
    ASSUME ActivationInv, RejectWork \/ ReadError \/ BaseFileError PROVE ActivationInv'
  BY CleanupStep DEF RejectWork, ReadError, BaseFileError, Loading

\* The base_blockhash file is written over coins that were verified: a start
\* from here on finds a consistent snapshot, whether or not the assertions of
\* AddChainstate hold.
LEMMA BaseWritten ==
    ASSUME ActivationInv, SwitchChainstate
    PROVE  /\ snapDir' \in Store /\ snapDir'.base = file /\ snapDir'.origin = file
           /\ snapDir' # None /\ Consistent(snapDir') /\ snapDir' = WithBaseBlockhash(snapDir)
           /\ SnapshotDetected' /\ ~Torn' /\ chainDir' = chainDir /\ files' = files
           /\ OnDisk' /\ file \in Height /\ file # None
           /\ snapDir \in Store /\ snapDir.best = file /\ Consistent(snapDir)
  <1>1. /\ TypeOK /\ OnDisk /\ LoadedSoFar /\ pc = "verified"
        /\ chainDir' = chainDir /\ files' = files /\ snapDir' = WithBaseBlockhash(snapDir)
    BY Zenon DEF ActivationInv, SwitchChainstate, Halt
  <1>2. file \in Height /\ file # None
    BY <1>1, FileCoinsType, CheckpointHeight
  <1>3. /\ snapDir \in Store /\ snapDir.best = file /\ snapDir.coins = Utxo(file)
        /\ snapDir.origin = file
    BY <1>1 DEF LoadedSoFar, TypeOK, Loading
  <1>4. /\ snapDir' \in Store /\ snapDir'.base = file /\ snapDir'.origin = file
        /\ snapDir'.best = file /\ snapDir'.coins = Utxo(file)
    BY <1>1, <1>2, <1>3 DEF WithBaseBlockhash, Store
  <1>5. snapDir' # None
    BY <1>4, ActivationConstants
  <1>6. Consistent(snapDir') /\ Consistent(snapDir)
    BY <1>2, <1>3, <1>4 DEF Consistent
  <1>7. SnapshotDetected' /\ ~Torn'
    BY <1>2, <1>4, <1>5 DEF SnapshotDetected, Torn
  <1>8. OnDisk'
    BY <1>1, <1>6 DEF OnDisk, Consistent
  <1> QED BY <1>1, <1>2, <1>3, <1>4, <1>5, <1>6, <1>7, <1>8

\* The switch: the verified database becomes the current chainstate.
LEMMA SwitchStep ==
    ASSUME ActivationInv, SwitchChainstate PROVE ActivationInv'
  <1>1. TypeOK /\ Activating /\ CurrentBacked /\ up = "running" /\ pc = "verified"
    BY DEF ActivationInv, SwitchChainstate
  <1>2. CASE ~AddChainstateAsserts
    <2>1. Halt("aborted")
      BY <1>2 DEF SwitchChainstate
    <2> QED BY <1>1, <2>1, BaseWritten, Halted DEF TypeOK
  <1>3. CASE AddChainstateAsserts
    <2> DEFINE old == [Current EXCEPT !.target = file]
               new == Opened(snapDir, file, None, FALSE)
    <2>1. /\ chainstates' = IF replacing THEN <<new>> ELSE <<old, new>>
          /\ pc' = "switched" /\ chainDir' = chainDir /\ best' = best /\ ibd' = ibd
          /\ mempool' = mempool /\ requested' = requested /\ activated' = activated
          /\ file' = file /\ kind' = kind /\ replacing' = replacing /\ files' = files /\ up' = up
      BY <1>3, Zenon DEF SwitchChainstate
    <2>2. OpensAs(new, snapDir, file)
      <3>1. snapDir.best # Unknown /\ file \in Height \cup {None} /\ FALSE \in BOOLEAN
        BY BaseWritten, ActivationConstants DEF Height
      <3> QED BY <3>1, BaseWritten, OpenedType, Zenon
    <2>3. old \in Chain /\ old.target # None
      <3>1. Current \in Chain
        BY <1>1, RunningCurrent DEF ActivationInv
      <3> QED BY <3>1, BaseWritten DEF Chain
    <2> HIDE DEF old, new
    <2>4. new \in Chain /\ new.target = None /\ new.from = file /\ new.coins # None
          /\ new.coins = Utxo(new.tip)
      BY <2>2, BaseWritten DEF OpensAs
    <2>5. CASE replacing
      <3>1. chainstates' \in Seq(Chain) /\ ListedAs(chainstates', FALSE) /\ Current' = new
        BY <2>1, <2>4, <2>5, OneListed, CurrentDef, Zenon
      <3>2. TypeOK'
        <4>1. Len(chainstates') <= 2
          BY <3>1, ListLength, Zenon
        <4> QED BY <1>1, <2>1, <3>1, <4>1, BaseWritten DEF TypeOK
      <3>3. Listed'
        BY <1>1, <2>1, <2>5, <3>1, Zenon DEF Listed
      <3>4. LoadedSoFar' /\ Activating'
        BY <1>1, <2>1, <2>4, <3>1 DEF LoadedSoFar, Activating, Loading
      <3>5. CurrentBacked'
        BY <2>1, <2>4, <3>1, BaseWritten DEF CurrentBacked
      <3> QED BY <3>2, <3>3, <3>4, <3>5, BaseWritten DEF ActivationInv
    <2>6. CASE ~replacing
      <3>1. chainstates' \in Seq(Chain) /\ ListedAs(chainstates', TRUE) /\ Current' = new
        BY <2>1, <2>3, <2>4, <2>6, TwoListed, CurrentDef, Zenon
      <3>2. TypeOK'
        <4>1. Len(chainstates') <= 2
          BY <3>1, ListLength, Zenon
        <4> QED BY <1>1, <2>1, <3>1, <4>1, BaseWritten DEF TypeOK
      <3>3. Listed'
        BY <1>1, <2>1, <2>6, <3>1, Zenon DEF Listed
      <3>4. LoadedSoFar' /\ Activating'
        BY <1>1, <2>1, <2>4, <3>1 DEF LoadedSoFar, Activating, Loading
      <3>5. CurrentBacked'
        BY <2>1, <2>4, <3>1, BaseWritten DEF CurrentBacked
      <3> QED BY <3>2, <3>3, <3>4, <3>5, BaseWritten DEF ActivationInv
    <2> QED BY <2>5, <2>6
  <1> QED BY <1>2, <1>3

\* A historical chainstate is there exactly after a first activation.
LEMMA HistoricalIs ==
    ASSUME ActivationInv, up = "running", pc = "switched"
    PROVE  Historical = {} <=> replacing
  <1>1. chainstates \in Seq(Chain)
    BY DEF ActivationInv, TypeOK
  <1>2. CASE replacing
    <2>1. Len(chainstates) = 1 /\ chainstates[1].target = None
      BY <1>2 DEF ActivationInv, Listed, ListedAs
    <2>2. Historical = {}
      BY <1>1, <2>1 DEF Historical
    <2> QED BY <1>2, <2>2
  <1>3. CASE ~replacing
    <2>1. Len(chainstates) = 2 /\ chainstates[1].target # None
      BY <1>3 DEF ActivationInv, Listed, ListedAs
    <2>2. 1 \in Historical
      BY <1>1, <2>1 DEF Historical
    <2> QED BY <1>3, <2>2
  <1> QED BY <1>2, <1>3

\* The abandoned chainstate is deleted with its directory.
LEMMA DiscardStep ==
    ASSUME ActivationInv, DiscardHistorical PROVE ActivationInv'
  <1>1. TypeOK /\ OnDisk /\ Activating /\ CurrentBacked /\ up = "running" /\ pc = "switched"
    BY DEF ActivationInv, DiscardHistorical
  <1>2. /\ pc' = "idle" /\ activated' = file
        /\ files' = [h \in Checkpoint |-> IF h = file THEN files[h] ELSE None]
        /\ snapDir' = snapDir /\ best' = best /\ ibd' = ibd /\ mempool' = mempool
        /\ requested' = requested /\ file' = file /\ kind' = kind /\ replacing' = replacing
        /\ up' = up
    BY DEF DiscardHistorical
  <1>3. files' \in [Checkpoint -> Kinds \cup {None}] /\ activated' \in Checkpoint
    BY <1>1, <1>2 DEF TypeOK, Activating
  <1>4. /\ Current \in Chain /\ Current.target = None /\ Current.from = file /\ file # None
        /\ file \in Checkpoint
    BY <1>1, RunningCurrent, CheckpointHeight DEF ActivationInv, Activating
  <1>5. LoadedSoFar'
    BY <1>2 DEF LoadedSoFar, Loading
  <1>6. CASE replacing
    <2>1. chainstates' = chainstates /\ chainDir' = chainDir
      BY <1>1, <1>6, HistoricalIs DEF DiscardHistorical
    <2>2. Current' = Current
      BY <2>1, CurrentDef
    <2>3. TypeOK'
      BY <1>1, <1>2, <1>3, <2>1 DEF TypeOK
    <2>4. Listed'
      BY <1>1, <1>2, <1>6, <2>1 DEF ActivationInv, Listed
    <2>5. OnDisk'
      BY <1>1, <1>2, <2>1 DEF OnDisk, SnapshotDetected, Torn, Consistent
    <2>6. Activating' /\ CurrentBacked'
      BY <1>1, <1>2, <1>6, <2>1, <2>2 DEF Activating, CurrentBacked, SnapshotDetected, Torn, Loading
    <2> QED BY <1>5, <2>3, <2>4, <2>5, <2>6 DEF ActivationInv
  <1>7. CASE ~replacing
    <2> DEFINE cs == [Current EXCEPT !.validated = TRUE]
    <2>1. chainstates' = <<cs>> /\ chainDir' = None
      BY <1>1, <1>7, HistoricalIs DEF DiscardHistorical, Discarded
    <2>2. /\ cs \in Chain /\ cs.target = None /\ cs.from = Current.from /\ cs.tip = Current.tip
          /\ cs.coins = Current.coins /\ cs.validated
      BY <1>4, Zenon DEF Chain
    <2> HIDE DEF cs
    <2>3. chainstates' \in Seq(Chain) /\ ListedAs(chainstates', FALSE) /\ Current' = cs
      BY <2>1, <2>2, OneListed, CurrentDef, Zenon
    <2>4. TypeOK'
      <3>1. Len(chainstates') <= 2
        BY <2>3, ListLength, Zenon
      <3> QED BY <1>1, <1>2, <1>3, <2>1, <2>3, <3>1 DEF TypeOK
    <2>5. Listed'
      BY <1>1, <1>2, <2>3, Zenon DEF Listed
    <2>6. OnDisk'
      BY <1>1, <1>2, <2>1 DEF OnDisk, SnapshotDetected, Torn, Consistent
    <2>7. Activating' /\ CurrentBacked'
      BY <1>1, <1>2, <1>4, <2>2, <2>3 DEF Activating, CurrentBacked, SnapshotDetected, Torn, Loading
    <2> QED BY <1>5, <2>4, <2>5, <2>6, <2>7 DEF ActivationInv
  <1> QED BY <1>6, <1>7

\* The ways in which the process ends.
LEMMA StopStep ==
    ASSUME ActivationInv, Shutdown \/ Interrupt \/ Crash PROVE ActivationInv'
  <1>1. TypeOK /\ OnDisk /\ up = "running" /\ Halt("stopped")
    BY DEF ActivationInv, Shutdown, Interrupt, Crash
  <1>2. CASE Crash
    BY <1>2, HaltedAsIs DEF Crash
  <1>3. CASE Shutdown
    <2>1. CASE Current.coins = None
      BY <1>3, <2>1, HaltedAsIs DEF Shutdown
    <2>2. CASE Current.coins # None
      <3>1. FlushStateToDisk(Current) /\ Current \in Chain
        BY <1>1, <1>3, <2>2, RunningCurrent DEF Shutdown, ActivationInv
      <3>2. chainDir' \in Store \cup {None} /\ snapDir' \in Store \cup {None} /\ OnDisk'
        BY <1>1, <2>2, <3>1, Flushable, Flushed
      <3>3. files' \in [Checkpoint -> Kinds \cup {None}]
        BY <1>1, <1>3 DEF Shutdown, TypeOK
      <3> QED BY <1>1, <3>2, <3>3, Halted
    <2> QED BY <2>1, <2>2
  <1>4. CASE Interrupt
    <2>1. /\ snapDir' = None /\ pc \in Loading /\ SetAside(file)
          /\ chainDir' = IF replacing THEN chainDir
                         ELSE [chainDir EXCEPT !.coins = Current.coins, !.best = Current.tip]
      BY <1>4 DEF Interrupt, Loading
    <2>2. chainDir' \in Store \cup {None} /\ OnDisk'
      <3>1. CASE replacing
        BY <1>1, <2>1, <3>1 DEF TypeOK, OnDisk, SnapshotDetected, Consistent
      <3>2. CASE ~replacing
        <4>1. Current.from = None /\ Current \in Chain
          BY <1>1, <2>1, <3>2, RunningCurrent, Zenon DEF ActivationInv, Activating
        <4>2. /\ chainDir # None /\ chainDir \in Store /\ Current.tip \in Height
              /\ Current.coins = Utxo(Current.tip) /\ Current.coins \in SUBSET Height
          BY <1>1, <4>1, UtxoType DEF ActivationInv, CurrentBacked, SnapshotDetected, Torn, TypeOK, Chain
        <4>3. /\ chainDir' \in Store /\ chainDir'.base = chainDir.base
              /\ chainDir'.coins = Current.coins /\ chainDir'.best = Current.tip
          BY <2>1, <3>2, <4>2, Zenon DEF Store
        <4> QED BY <1>1, <2>1, <4>2, <4>3 DEF OnDisk, SnapshotDetected, Consistent
      <3> QED BY <3>1, <3>2
    <2>3. files' \in [Checkpoint -> Kinds \cup {None}]
      BY <1>1, <2>1, Zenon DEF SetAside, TypeOK
    <2> QED BY <1>1, <2>1, <2>2, <2>3, Halted
  <1> QED BY <1>2, <1>3, <1>4

\* The first phase after a start: one chainstate, nothing being activated.
LEMMA Started ==
    ASSUME TypeOK, Listed, up # "running", up' = "running", OnDisk',
           chainDir' \in Store \cup {None}, snapDir' \in Store \cup {None}, ibd' \in BOOLEAN,
           UNCHANGED <<best, mempool, requested, activated, task, files>>,
           NEW cs \in Chain, chainstates' = <<cs>>, cs.target = None, cs.coins # None,
           cs.validated, cs.from = (IF SnapshotDetected' THEN snapDir'.base ELSE None),
           ~Torn' => cs.coins = Utxo(cs.tip), cs.from = None => chainDir' # None
    PROVE  ActivationInv'
  <1>1. chainstates' \in Seq(Chain) /\ ListedAs(chainstates', FALSE) /\ Current' = cs
    BY OneListed, CurrentDef, Zenon
  <1>2. pc' = "idle" /\ pc' = pc /\ file' = file /\ kind' = kind /\ replacing' = replacing
    BY DEF Listed, task
  <1>3. TypeOK'
    <2>1. Len(chainstates') <= 2
      BY <1>1, ListLength, Zenon
    <2> QED BY <1>1, <1>2, <2>1 DEF TypeOK
  <1>4. Listed' /\ LoadedSoFar' /\ Activating'
    BY <1>1, <1>2, Zenon DEF Listed, LoadedSoFar, Activating, Loading
  <1>5. CurrentBacked'
    BY <1>1 DEF CurrentBacked
  <1> QED BY <1>3, <1>4, <1>5 DEF ActivationInv

\* A start on whatever the directories hold.
LEMMA StartStep ==
    ASSUME ActivationInv, LoadChainstate PROVE ActivationInv'
  <1> DEFINE chain == IF chainDir = None THEN EmptyStore(0) ELSE chainDir
             store == IF SnapshotDetected THEN snapDir ELSE chain
             cs == Opened(store, store.base, None, TRUE)
  <1>1. TypeOK /\ Listed /\ OnDisk /\ up # "running" /\ up \in {"stopped", "aborted"}
    BY DEF ActivationInv, LoadChainstate
  <1>2. snapDir' = snapDir /\ UNCHANGED <<best, mempool, requested, activated, task, files>>
    BY DEF LoadChainstate
  <1>3. /\ chain \in Store /\ chain # None /\ chain.base = None
        /\ chain.best = None \/ Consistent(chain)
    <2>1. 0 \in Height
      BY ActivationConstants DEF Height
    <2> QED BY <1>1, <2>1, EmptyStoreType DEF TypeOK, OnDisk
  <1>4. /\ store \in Store /\ store.base = (IF SnapshotDetected THEN snapDir.base ELSE None)
        /\ ~Torn => store.best = None \/ Consistent(store)
    BY <1>1, <1>3 DEF TypeOK, OnDisk, SnapshotDetected
  <1>5. CASE ~LoadsChainTip(store)
    <2>1. up' = "refused" /\ chainDir' = chain /\ chainstates' = chainstates /\ ibd' = ibd
      BY <1>5 DEF LoadChainstate
    <2> HIDE DEF chain, store, cs
    <2>2. TypeOK'
      BY <1>1, <1>2, <1>3, <2>1 DEF TypeOK, task
    <2>3. Listed' /\ LoadedSoFar' /\ Activating' /\ CurrentBacked'
      BY <1>1, <1>2, <2>1 DEF Listed, LoadedSoFar, Activating, CurrentBacked, Loading, task
    <2>4. OnDisk'
      BY <1>1, <1>2, <1>3, <2>1 DEF OnDisk, SnapshotDetected, Torn, Consistent
    <2> QED BY <2>2, <2>3, <2>4 DEF ActivationInv
  <1>6. CASE LoadsChainTip(store)
    <2>1. /\ up' = "running" /\ chainstates' = <<cs>>
          /\ chainDir' = IF SnapshotDetected THEN None ELSE chain
          /\ ibd' \in (IF cs.tip = best THEN BOOLEAN ELSE {TRUE})
      BY <1>6, Zenon DEF LoadChainstate
    <2>2. cs.validated
      BY DEF Opened
    <2>3. OpensAs(cs, store, store.base)
      <3>1. /\ store.best # Unknown /\ store.base \in Height \cup {None} /\ TRUE \in BOOLEAN
        BY <1>4, <1>6 DEF LoadsChainTip, Store
      <3> HIDE DEF store
      <3> QED BY <1>4, <3>1, OpenedType, Zenon
    <2> HIDE DEF chain, store, cs
    <2>4. /\ cs \in Chain /\ cs.target = None /\ cs.coins # None /\ cs.from = store.base
          /\ ~Torn => cs.coins = Utxo(cs.tip)
      BY <1>4, <2>3 DEF OpensAs
    <2>5. ibd' \in BOOLEAN
      BY <2>1, Zenon
    <2>6. chainDir' \in Store \cup {None} /\ snapDir' \in Store \cup {None}
      BY <1>1, <1>2, <1>3, <2>1 DEF TypeOK
    <2>7. (SnapshotDetected' <=> SnapshotDetected) /\ (Torn' <=> Torn)
      BY <1>2 DEF SnapshotDetected, Torn
    <2>8. OnDisk'
      BY <1>1, <1>2, <1>3, <2>1, <2>7 DEF OnDisk, Consistent
    <2>9. cs.from = (IF SnapshotDetected' THEN snapDir'.base ELSE None)
      BY <1>2, <1>4, <2>4, <2>7
    <2>10. cs.from = None => chainDir' # None
      BY <1>3, <1>4, <2>1, <2>4 DEF SnapshotDetected
    <2> QED BY <1>1, <1>2, <2>1, <2>2, <2>4, <2>5, <2>6, <2>7, <2>8, <2>9, <2>10, Started
  <1> QED BY <1>5, <1>6

\* A restart with -reindex-chainstate.
LEMMA ReindexStep ==
    ASSUME ActivationInv, ReindexChainstate PROVE ActivationInv'
  <1>1. TypeOK /\ Listed /\ up # "running"
    BY DEF ActivationInv, ReindexChainstate
  <1>2. PICK cs : cs = Opened(EmptyStore(0), None, None, TRUE)
    BY Zenon
  <1>3. /\ up' = "running" /\ chainDir' = EmptyStore(0) /\ snapDir' = None
        /\ chainstates' = <<cs>> /\ ibd' \in BOOLEAN
        /\ UNCHANGED <<best, mempool, requested, activated, task, files>>
    BY <1>2 DEF ReindexChainstate
  <1>4. 0 \in Height /\ EmptyStore(0) \in Store /\ EmptyStore(0) # None
        /\ EmptyStore(0).best = None /\ EmptyStore(0).base = None
    BY ActivationConstants, EmptyStoreType DEF Height
  <1>5. OpensAs(cs, EmptyStore(0), None)
    <2>1. EmptyStore(0).best # Unknown /\ None \in Height \cup {None} /\ TRUE \in BOOLEAN
      BY <1>4, ActivationConstants
    <2> QED BY <1>2, <1>4, <2>1, OpenedType, Zenon
  <1>6. cs.validated
    BY <1>2 DEF Opened
  <1>7. OnDisk' /\ ~SnapshotDetected'
    BY <1>3, <1>4 DEF OnDisk, SnapshotDetected, Consistent
  <1>8. /\ cs \in Chain /\ cs.target = None /\ cs.coins # None /\ cs.from = None
        /\ cs.coins = Utxo(cs.tip)
    BY <1>4, <1>5 DEF OpensAs
  <1> QED BY <1>1, <1>3, <1>4, <1>6, <1>7, <1>8, Started

-----------------------------------------------------------------------------
(* The invariant, and the properties that follow from it.                  *)

\* Every step of the message thread, the scheduler thread and the operator
\* preserves the invariant.
LEMMA ActivationNext ==
    ActivationInv /\ [Next]_vars => ActivationInv'
  <1> SUFFICES ASSUME ActivationInv, [Next]_vars PROVE ActivationInv'
    OBVIOUS
  <1>1. CASE MessageThread
    BY <1>1, MessageStep, ConnectStep DEF MessageThread
  <1>2. CASE Scheduler
    BY <1>2, RefuseStep, CheckStep, OpenStep, FailStep, LoadStep, HashStep, SwitchStep,
       DiscardStep DEF Scheduler
  <1>3. CASE Operator
    BY <1>3, StopStep, StartStep, ReindexStep DEF Operator
  <1>4. CASE UNCHANGED vars
    <2>1. TypeOK'
      BY <1>4 DEF ActivationInv, TypeOK, vars, disk, node, task
    <2> QED BY <1>4, <2>1, Framed DEF vars, node
  <1> QED BY <1>1, <1>2, <1>3, <1>4 DEF Next

\* The inductive invariant of the activation holds in every state.
THEOREM ActivationInvariance == Spec => []ActivationInv
  BY ActivationInit, ActivationNext, PTL DEF Spec

\* Types: the tip of a chainstate is always a block of the index
\* (LoadChainTip), whatever coins a crash left.
THEOREM ActivationTypes == Spec => []TypeOK
  <1>1. ActivationInv => TypeOK
    BY DEF ActivationInv
  <1> QED BY <1>1, ActivationInvariance, PTL

\* CurrentChainstate never aborts, and no chainstate is left over when an
\* activation has ended.
THEOREM CurrentAlwaysResolves == Spec => []CurrentResolves
  <1>1. ASSUME ActivationInv PROVE CurrentResolves
    <2> SUFFICES ASSUME up = "running"
                 PROVE  Candidates # {} /\ (pc = "idle" => Cardinality(DOMAIN chainstates) = 1)
      BY DEF CurrentResolves
    <2>1. chainstates \in Seq(Chain) /\ ListedAs(chainstates, pc = "switched" /\ ~replacing)
      BY <1>1, RunningCurrent DEF ActivationInv
    <2>2. CASE pc = "switched" /\ ~replacing
      <3>1. Len(chainstates) = 2 /\ chainstates[2].target = None
        BY <2>1, <2>2 DEF ListedAs
      <3>2. 2 \in Candidates
        BY <2>1, <3>1 DEF Candidates
      <3> QED BY <2>2, <3>2
    <2>3. CASE ~(pc = "switched" /\ ~replacing)
      <3>1. Len(chainstates) = 1 /\ chainstates[1].target = None
        BY <2>1, <2>3 DEF ListedAs
      <3>2. 1 \in Candidates /\ DOMAIN chainstates = {1}
        BY <2>1, <3>1 DEF Candidates
      <3>3. Cardinality({1}) = 1
        BY FS_Singleton
      <3> QED BY <3>2, <3>3
    <2> QED BY <2>2, <2>3
  <1> QED BY <1>1, ActivationInvariance, PTL

\* The coins behind the active tip are the coins of that tip, except after a
\* replacement that a crash cut short.
THEOREM ActiveCoinsAlwaysVerified == Spec => []ActiveCoinsVerified
  <1>1. ActivationInv => ActiveCoinsVerified
    BY DEF ActivationInv, CurrentBacked, ActiveCoinsVerified
  <1> QED BY <1>1, ActivationInvariance, PTL

\* An intact file that replaces a snapshot passes its hash check.
THEOREM IntactReplacementAlwaysPasses == Spec => []IntactReplacementPasses
  <1>1. ActivationInv => IntactReplacementPasses
    BY DEF ActivationInv, LoadedSoFar, IntactReplacementPasses, HashMatches, FileCoins
  <1> QED BY <1>1, ActivationInvariance, PTL

\* A restart would load the chainstate that is current.
THEOREM RestartAlwaysLoadsCurrent == Spec => []RestartLoadsCurrent
  <1>1. ActivationInv => RestartLoadsCurrent
    BY DEF ActivationInv, CurrentBacked, RestartLoadsCurrent
  <1> QED BY <1>1, ActivationInvariance, PTL

\* Only a replacement leaves the current chainstate unvalidated.
THEOREM ValidatedAlwaysTakesOver == Spec => []ValidatedTakesOver
  <1>1. ActivationInv => ValidatedTakesOver
    BY DEF ActivationInv, CurrentBacked, ValidatedTakesOver
  <1> QED BY <1>1, ActivationInvariance, PTL

\* A step that keeps the node running keeps its tip or moves it up.
LEMMA TipStep ==
    ASSUME ActivationInv, [Next]_vars, up = "running", up' = "running"
    PROVE  Current'.tip >= Current.tip
  <1>1. /\ Current \in Chain /\ Current.target = None /\ Current.tip \in Int
        /\ chainstates \in Seq(Chain) /\ ListedAs(chainstates, pc = "switched" /\ ~replacing)
    BY RunningCurrent DEF ActivationInv, Chain, Height
  <1>2. ASSUME chainstates' = chainstates PROVE Current'.tip >= Current.tip
    BY <1>1, <1>2, CurrentDef
  <1>3. ASSUME NEW cs \in Chain, cs.target = None, chainstates' = WithCurrent(cs)
        PROVE  Current' = cs
    <2>1. (pc = "switched" /\ ~replacing) \in BOOLEAN
      OBVIOUS
    <2> QED BY <1>1, <1>3, <2>1, UpdateIs, CurrentDef, Zenon
  <1>4. CASE ConnectTip
    <2> DEFINE h == Current.tip + 1
               next == [Current EXCEPT !.tip = h, !.coins = Utxo(h)]
    <2>1. Current.coins # None /\ chainstates' = WithCurrent(next)
      BY <1>4, Zenon DEF ConnectTip, Abort, Halt
    <2>2. h \in Height
      BY <1>1, <1>4, ActivationConstants DEF ConnectTip, ActivationInv, TypeOK, Chain, Height
    <2>3. next \in Chain /\ next.target = None /\ next.tip = Current.tip + 1
      BY <1>1, <2>2, UtxoType, Zenon DEF Chain
    <2> HIDE DEF next
    <2> QED BY <1>1, <1>3, <2>1, <2>3
  <1>5. CASE OpenSnapshotDB
    <2>1. CASE replacing
      <3> DEFINE cs == [Current EXCEPT !.coins = None]
      <3>1. chainstates' = WithCurrent(cs)
        BY <1>5, <2>1, Zenon DEF OpenSnapshotDB, Abort, Halt
      <3>2. cs \in Chain /\ cs.target = None /\ cs.tip = Current.tip
        BY <1>1 DEF Chain
      <3> HIDE DEF cs
      <3> QED BY <1>1, <1>3, <3>1, <3>2
    <2>2. CASE ~replacing
      BY <1>2, <1>5, <2>2 DEF OpenSnapshotDB, Abort, Halt
    <2> QED BY <2>1, <2>2
  <1>6. CASE SwitchChainstate
    <2> DEFINE old == [Current EXCEPT !.target = file]
               new == Opened(snapDir, file, None, FALSE)
    <2>1. /\ chainstates' = IF replacing THEN <<new>> ELSE <<old, new>>
          /\ Current.tip < file
      BY <1>6, Zenon DEF SwitchChainstate, Halt, WorkExceeds
    <2>2. OpensAs(new, snapDir, file)
      <3>1. snapDir.best # Unknown /\ file \in Height \cup {None} /\ FALSE \in BOOLEAN
        BY <1>6, BaseWritten, ActivationConstants DEF Height
      <3> QED BY <1>6, <3>1, BaseWritten, OpenedType, Zenon
    <2>3. old \in Chain /\ old.target # None
      BY <1>1, <1>6, BaseWritten DEF Chain
    <2> HIDE DEF old, new
    <2>4. new \in Chain /\ new.target = None /\ new.tip = file
      BY <1>6, <2>2, BaseWritten DEF OpensAs
    <2>5. Current' = new
      BY <2>1, <2>3, <2>4, OneListed, TwoListed, CurrentDef, Zenon
    <2> QED BY <1>1, <1>6, <2>1, <2>4, <2>5, BaseWritten DEF Height
  <1>7. CASE DiscardHistorical
    <2>1. CASE Historical = {}
      BY <1>2, <1>7, <2>1 DEF DiscardHistorical
    <2>2. CASE Historical # {}
      <3> DEFINE cs == [Current EXCEPT !.validated = TRUE]
      <3>1. chainstates' = <<cs>>
        BY <1>7, <2>2 DEF DiscardHistorical, Discarded
      <3>2. cs \in Chain /\ cs.target = None /\ cs.tip = Current.tip
        BY <1>1, Zenon DEF Chain
      <3> HIDE DEF cs
      <3>3. Current' = cs
        BY <3>1, <3>2, OneListed, CurrentDef, Zenon
      <3> QED BY <1>1, <3>2, <3>3
    <2> QED BY <2>1, <2>2
  <1>8. CASE AcceptHeader \/ AcceptToMemoryPool \/ MaybeRequestSnapshot \/ SnapshotReceived
    BY <1>2, <1>8 DEF AcceptHeader, AcceptToMemoryPool, MaybeRequestSnapshot, SnapshotReceived,
                      Abort, Halt
  <1>9. CASE RefuseFile \/ CheckSnapshot \/ RejectWork \/ StartLoading \/ FlushPartial
             \/ FlushLoaded \/ ReadError \/ CheckHash \/ BaseFileError
    BY <1>2, <1>9, Zenon DEF RefuseFile, CheckSnapshot, RejectWork, StartLoading, FlushPartial,
                      FlushLoaded, ReadError, CheckHash, BaseFileError, CleanupBadSnapshot, node
  <1>10. ~Operator
    BY DEF Operator, Shutdown, Interrupt, Crash, LoadChainstate, ReindexChainstate, Halt
  <1>11. CASE UNCHANGED vars
    BY <1>2, <1>11 DEF vars, node
  <1> QED BY <1>4, <1>5, <1>6, <1>7, <1>8, <1>9, <1>10, <1>11 DEF Next, MessageThread, Scheduler

\* While the node runs its active tip never moves down.
THEOREM TipNeverFalls == Spec => TipNeverFallsBack
  <1>1. ActivationInv /\ [Next]_vars =>
           [up = "running" /\ up' = "running" => Current'.tip >= Current.tip]_vars
    BY TipStep
  <1> QED BY <1>1, ActivationInvariance, PTL DEF Spec, TipNeverFallsBack
=============================================================================
