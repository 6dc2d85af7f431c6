---------------------------- MODULE PollersProofs ----------------------------
(* Theorems about Migrate, for any number of programs, of versions, and for   *)
(* builds that embed any sets of them; and, on top of them, about Pollers, for *)
(* any number of algorithms, heights and values.                              *)
EXTENDS Pollers, SetInduction

-----------------------------------------------------------------------------
(***************************************************************************)
(* Migrate.                                                                *)
(***************************************************************************)
\* The two flags of a committed transaction are set together.
SchemaIsRecorded ==
  /\ schema = applied
  /\ \A v \in Versions : committed[v] = IF v \in applied THEN 1 ELSE 0

\* What the loop has left behind is applied.
PassedIsApplied ==
  \A p \in Programs :
    /\ todo[p] \subseteq Embedded[p]
    /\ pc[p] # "down" => Embedded[p] \ todo[p] \subseteq applied
    /\ pc[p] = "ready" => todo[p] = {}

InTransaction(p, v) == pc[p] \in {"record", "commit"} /\ IsNext(p, v)

\* Open transactions are of different versions, and one that has inserted its
\* record found none.
TransactionsExclude ==
  \A p \in Programs, v \in Versions :
    /\ InTransaction(p, v) => \A q \in Programs \ {p} : ~InTransaction(q, v)
    /\ pc[p] = "commit" /\ IsNext(p, v) => v \notin applied

MigrateInv ==
  /\ MigrateTypeOK
  /\ SchemaIsRecorded
  /\ PassedIsApplied
  /\ TransactionsExclude
  /\ AppliedInOrder

LEMMA MigrateInitInv == MigrateInit => MigrateInv
  <1> SUFFICES ASSUME MigrateInit PROVE MigrateInv
    OBVIOUS
  <1>1. MigrateTypeOK
    BY DEF MigrateInit, MigrateTypeOK
  <1>2. SchemaIsRecorded
    BY DEF MigrateInit, SchemaIsRecorded
  <1>3. PassedIsApplied
    BY DEF MigrateInit, PassedIsApplied
  <1>4. TransactionsExclude
    BY DEF MigrateInit, TransactionsExclude, InTransaction
  <1>5. AppliedInOrder
    BY DEF MigrateInit, AppliedInOrder
  <1> QED
    BY <1>1, <1>2, <1>3, <1>4, <1>5 DEF MigrateInv

\* A program has one next version.
LEMMA NextIsUnique ==
  ASSUME MigrateTypeOK, NEW p \in Programs, NEW u, NEW v, IsNext(p, u), IsNext(p, v)
  PROVE  u = v
  <1>1. u \in todo[p] /\ v \in todo[p] /\ u <= v /\ v <= u
    BY DEF IsNext
  <1>2. u \in Nat /\ v \in Nat
    BY <1>1, EmbeddedAssumption DEF MigrateTypeOK
  <1> QED
    BY <1>1, <1>2

\* A step that leaves the tables alone, and at most moves one program outside
\* of any transaction.
LEMMA TablesAlone ==
  ASSUME MigrateInv, NEW p \in Programs, UNCHANGED <<applied, schema, committed>>,
         hasTable' \in BOOLEAN, stable' \in BOOLEAN,
         \A q \in Programs \ {p} : pc'[q] = pc[q] /\ todo'[q] = todo[q],
         pc' \in [Programs -> {"down", "first", "create", "check", "apply", "record", "commit", "ready"}],
         todo' \in [Programs -> SUBSET Versions],
         todo'[p] \subseteq Embedded[p],
         pc'[p] # "down" => Embedded[p] \ todo'[p] \subseteq applied,
         pc'[p] = "ready" => todo'[p] = {},
         \A v \in Versions : InTransaction(p, v)' =>
           /\ \A q \in Programs \ {p} : ~InTransaction(q, v)
           /\ pc'[p] = "commit" => v \notin applied
  PROVE  MigrateInv'
  <1>1. MigrateTypeOK'
    BY DEF MigrateInv, MigrateTypeOK
  <1>2. SchemaIsRecorded'
    BY DEF MigrateInv, SchemaIsRecorded
  <1>3. PassedIsApplied'
    BY DEF MigrateInv, PassedIsApplied
  <1>4. TransactionsExclude'
    <2>1. \A q \in Programs \ {p}, v \in Versions : InTransaction(q, v)' <=> InTransaction(q, v)
      BY DEF InTransaction, IsNext
    <2> QED
      BY <2>1 DEF MigrateInv, TransactionsExclude, InTransaction, IsNext
  <1>5. AppliedInOrder'
    BY DEF MigrateInv, AppliedInOrder
  <1> QED
    BY <1>1, <1>2, <1>3, <1>4, <1>5 DEF MigrateInv

LEMMA MigrateNextInv == MigrateInv /\ [MigrateNext]_migrateVars => MigrateInv'
  <1> SUFFICES ASSUME MigrateInv, [MigrateNext]_migrateVars
               PROVE  MigrateInv'
    OBVIOUS
  <1> USE EmbeddedAssumption
  <1>1. ASSUME NEW p \in Programs, Start(p) PROVE MigrateInv'
    BY <1>1, TablesAlone DEF Start, Goto, versionVars, MigrateInv, MigrateTypeOK, InTransaction
  <1>2. ASSUME NEW p \in Programs, CreateTable(p) PROVE MigrateInv'
    BY <1>2, TablesAlone
       DEF CreateTable, Goto, MigrateInv, MigrateTypeOK, InTransaction, PassedIsApplied
  <1>3. ASSUME NEW p \in Programs, LoseCreateTable(p) \/ Fail(p) PROVE MigrateInv'
    BY <1>3, TablesAlone
       DEF LoseCreateTable, Fail, GoDown, Goto, versionVars, MigrateInv, MigrateTypeOK, InTransaction
  <1>4. ASSUME NEW p \in Programs, NEW v \in todo[p], Check(p, v) PROVE MigrateInv'
    <2>1. v \in Versions
      BY DEF MigrateInv, MigrateTypeOK
    <2>2. CASE v \in applied
      BY <1>4, <2>1, <2>2, TablesAlone
         DEF Check, AlreadyApplied, Goto, versionVars, MigrateInv, MigrateTypeOK, InTransaction, PassedIsApplied
    <2>3. CASE v \notin applied
      BY <1>4, <2>1, <2>3, TablesAlone
         DEF Check, AlreadyApplied, Goto, versionVars, MigrateInv, MigrateTypeOK, InTransaction, PassedIsApplied
    <2> QED
      BY <2>2, <2>3
  <1>5. ASSUME NEW p \in Programs, NEW v \in todo[p], Apply(p, v) PROVE MigrateInv'
    <2>1. v \in Versions /\ \A u \in Versions : u \in Nat
      BY DEF MigrateInv, MigrateTypeOK
    <2>2. \A u \in Versions : IsNext(p, u) => u = v
      BY <1>5, NextIsUnique DEF Apply, MigrateInv
    <2>3. \A u \in Versions : InTransaction(p, u)' => \A q \in Programs \ {p} : ~InTransaction(q, u)
      BY <1>5, <2>2 DEF Apply, InTransaction, IsNext
    <2> QED
      BY <1>5, <2>1, <2>3, TablesAlone
         DEF Apply, Goto, versionVars, MigrateInv, MigrateTypeOK, PassedIsApplied
  <1>6. ASSUME NEW p \in Programs, NEW v \in todo[p], Record(p, v) PROVE MigrateInv'
    <2>1. v \in Versions /\ \A u \in Versions : u \in Nat
      BY DEF MigrateInv, MigrateTypeOK
    <2>2. \A u \in Versions : IsNext(p, u) => u = v
      BY <1>6, NextIsUnique DEF Record, MigrateInv
    <2>3. CASE v \notin applied
      <3>1. \A u \in Versions : InTransaction(p, u)' =>
              u = v /\ \A q \in Programs \ {p} : ~InTransaction(q, u)
        BY <1>6, <2>2, <2>3 DEF Record, InsertSucceeds, InTransaction, IsNext, MigrateInv, TransactionsExclude
      <3> QED
        BY <1>6, <2>1, <2>3, <3>1, TablesAlone
           DEF Record, InsertSucceeds, Goto, versionVars, MigrateInv, MigrateTypeOK, PassedIsApplied
    <2>4. CASE v \in applied
      BY <1>6, <2>4, TablesAlone
         DEF Record, InsertSucceeds, GoDown, Goto, versionVars, MigrateInv, MigrateTypeOK, InTransaction
    <2> QED
      BY <2>3, <2>4
  <1>7. ASSUME NEW p \in Programs, NEW v \in todo[p], Commit(p, v) PROVE MigrateInv'
    <2>1. v \in Versions /\ \A u \in Versions : u \in Nat
      BY DEF MigrateInv, MigrateTypeOK
    <2>2. v \notin applied /\ v \in Embedded[p]
      BY <1>7, <2>1 DEF Commit, MigrateInv, TransactionsExclude, PassedIsApplied
    <2>3. MigrateTypeOK'
      BY <1>7, <2>1 DEF Commit, Goto, MigrateInv, MigrateTypeOK
    <2>4. SchemaIsRecorded'
      BY <1>7, <2>1, <2>2 DEF Commit, MigrateInv, MigrateTypeOK, SchemaIsRecorded
    <2>5. PassedIsApplied'
      BY <1>7 DEF Commit, Goto, MigrateInv, MigrateTypeOK, PassedIsApplied
    <2>6. TransactionsExclude'
      <3>1. \A q \in Programs \ {p}, u \in Versions : InTransaction(q, u)' <=> InTransaction(q, u)
        BY <1>7 DEF Commit, Goto, InTransaction, IsNext, MigrateInv, MigrateTypeOK
      <3>2. \A u \in Versions : ~InTransaction(p, u)'
        BY <1>7 DEF Commit, Goto, InTransaction, MigrateInv, MigrateTypeOK
      <3>3. \A q \in Programs \ {p} : ~InTransaction(q, v)
        BY <1>7, <2>1 DEF Commit, InTransaction, MigrateInv, TransactionsExclude
      <3>4. applied' = applied \cup {v}
        BY <1>7 DEF Commit
      <3> SUFFICES ASSUME NEW q \in Programs, NEW u \in Versions
                   PROVE  /\ InTransaction(q, u)' => \A r \in Programs \ {q} : ~InTransaction(r, u)'
                          /\ (pc[q] = "commit" /\ IsNext(q, u))' => (u \notin applied)'
        BY DEF TransactionsExclude
      <3>5. InTransaction(q, u)' => \A r \in Programs \ {q} : ~InTransaction(r, u)'
        BY <3>1, <3>2 DEF MigrateInv, TransactionsExclude
      <3>6. ASSUME (pc[q] = "commit" /\ IsNext(q, u))' PROVE (u \notin applied)'
        <4>1. InTransaction(q, u)'
          BY <3>6 DEF InTransaction
        <4>2. q # p /\ InTransaction(q, u) /\ u # v
          BY <3>1, <3>2, <3>3, <4>1
        <4>3. pc[q] = "commit" /\ IsNext(q, u)
          BY <1>7, <3>6, <4>2 DEF Commit, Goto, InTransaction, MigrateInv, MigrateTypeOK
        <4> QED
          BY <3>4, <4>2, <4>3 DEF MigrateInv, TransactionsExclude
      <3> QED
        BY <3>5, <3>6
    <2>7. AppliedInOrder'
      <3>1. ASSUME NEW u \in Embedded[p], u < v PROVE u \in applied
        <4>1. u \in Nat /\ v \in Nat
          BY <2>1
        <4>2. u \notin todo[p]
          BY <1>7, <3>1, <4>1 DEF Commit, IsNext
        <4> QED
          BY <1>7, <4>2 DEF Commit, MigrateInv, PassedIsApplied
      <3>2. applied' = applied \cup {v}
        BY <1>7 DEF Commit
      <3>3. v \in Embedded[p] /\ {u \in Embedded[p] : u < v} \subseteq applied'
        BY <2>2, <3>1, <3>2
      <3>4. ASSUME NEW w \in applied
            PROVE  \E q \in Programs : w \in Embedded[q] /\ {u \in Embedded[q] : u < w} \subseteq applied'
        <4>1. PICK q \in Programs : w \in Embedded[q] /\ {u \in Embedded[q] : u < w} \subseteq applied
          BY DEF MigrateInv, AppliedInOrder
        <4> QED
          BY <4>1, <3>2
      <3> QED
        BY <3>2, <3>3, <3>4 DEF AppliedInOrder
    <2> QED
      BY <2>3, <2>4, <2>5, <2>6, <2>7 DEF MigrateInv
  <1>8. ASSUME NEW p \in Programs, Return(p) PROVE MigrateInv'
    BY <1>8, TablesAlone
       DEF Return, Goto, versionVars, MigrateInv, MigrateTypeOK, InTransaction, PassedIsApplied
  <1>9. CASE Stabilise \/ UNCHANGED migrateVars
    <2>1. UNCHANGED <<hasTable, applied, schema, committed>> /\ UNCHANGED <<pc, todo>>
      BY <1>9 DEF Stabilise, migrateVars, versionVars
    <2>2. stable' = stable \/ stable' = TRUE
      BY <1>9 DEF Stabilise, migrateVars
    <2>3. MigrateTypeOK'
      BY <2>1, <2>2 DEF MigrateInv, MigrateTypeOK
    <2>4. SchemaIsRecorded' /\ AppliedInOrder'
      BY <2>1 DEF MigrateInv, SchemaIsRecorded, AppliedInOrder
    <2>5. PassedIsApplied' /\ TransactionsExclude'
      BY <2>1 DEF MigrateInv, PassedIsApplied, TransactionsExclude, InTransaction, IsNext
    <2> QED
      BY <2>3, <2>4, <2>5 DEF MigrateInv
  <1> QED
    BY <1>1, <1>2, <1>3, <1>4, <1>5, <1>6, <1>7, <1>8, <1>9 DEF MigrateNext, MigrateStep

LEMMA MigrateInvHolds == MigrateSpec => []MigrateInv
  BY MigrateInitInv, MigrateNextInv, PTL DEF MigrateSpec

\* Type correctness of Migrate.
THEOREM MigrateTypeCorrect == MigrateSpec => []MigrateTypeOK
  <1>1. MigrateInv => MigrateTypeOK
    BY DEF MigrateInv
  <1> QED
    BY <1>1, MigrateInvHolds, PTL

\* A program that has returned from Migrate finds the schema it embeds.
THEOREM ReadyHasSchemaHolds == MigrateSpec => []ReadyHasSchema
  <1>1. MigrateInv => ReadyHasSchema
    BY DEF MigrateInv, PassedIsApplied, SchemaIsRecorded, ReadyHasSchema
  <1> QED
    BY <1>1, MigrateInvHolds, PTL

\* Migrations are applied in the order of the builds that embed them.
THEOREM AppliedInOrderHolds == MigrateSpec => []AppliedInOrder
  <1>1. MigrateInv => AppliedInOrder
    BY DEF MigrateInv
  <1> QED
    BY <1>1, MigrateInvHolds, PTL

\* No migration is committed twice, however many programs find it missing.
THEOREM CommittedOnceHolds == MigrateSpec => []CommittedOnce
  <1>1. MigrateInv => CommittedOnce
    BY DEF MigrateInv, SchemaIsRecorded, CommittedOnce
  <1> QED
    BY <1>1, MigrateInvHolds, PTL

-----------------------------------------------------------------------------
(***************************************************************************)
(* Pollers.                                                                *)
(***************************************************************************)
\* What the difficulty poller has read is the block stored at its height, unless
\* that was replaced by another one since.
ReadIsTheBlock ==
  kind = "difficulty" =>
    \A a \in Algos : read[a] # Unread =>
      read[a].height \in rewritten \/ blocks[read[a].height] = [algo |-> a, value |-> read[a].value]

\* What is read is real: neither a height nor a value is missing.
ReadIsReal == \A a \in Algos : read[a] = Unread \/ read[a] \in [height : Heights, value : Values]

\* In a smooth tick the newest block of an algorithm is still to be inserted, or
\* its snapshot is there.
SmoothTick ==
  kind = "difficulty" /\ smooth /\ rewritten = {} =>
    \A a \in Algos : Newest(a) # Unread =>
      IF a \in left THEN read[a] = Newest(a)
                    ELSE snapshots[<<a, Newest(a).height>>] = Newest(a).value

PollersInv ==
  /\ MigrateInv
  /\ PollersTypeOK
  /\ ReadIsReal
  /\ ReadIsTheBlock
  /\ SnapshotIsTheBlock
  /\ SmoothTick

-----------------------------------------------------------------------------
\* What a tick holds of an algorithm: nothing, or a height and a value.
LEMMA SeenType ==
  /\ Unread \in Seen
  /\ [height : Heights, value : Values] \subseteq Seen
  /\ 1 \in Heights /\ 1 \in Values
  <1>1. MaxHeight \in Nat \ {0} /\ MaxValue \in Nat \ {0}
    BY PollersAssumption
  <1>2. None \in 0 .. MaxHeight /\ None \in 0 .. MaxValue
    BY <1>1 DEF None
  <1>3. Heights \subseteq 0 .. MaxHeight /\ Values \subseteq 0 .. MaxValue
    BY <1>1 DEF Heights, Values
  <1>4. 1 \in Heights /\ 1 \in Values
    BY <1>1 DEF Heights, Values
  <1> QED
    BY <1>2, <1>3, <1>4 DEF Seen, Unread

\* DISTINCT ON ... ORDER BY height DESC returns a highest row of the algorithm.
LEMMA NewestIsHighest ==
  ASSUME PollersTypeOK, NEW a \in Algos, BlocksOf(a) # {}
  PROVE  /\ Newest(a) \in [height : Heights, value : Values]
         /\ Newest(a) # Unread
         /\ blocks[Newest(a).height] = [algo |-> a, value |-> Newest(a).value]
         /\ \A h \in BlocksOf(a) : h <= Newest(a).height
  <1> USE PollersAssumption
  <1> DEFINE h == CHOOSE k \in BlocksOf(a) : \A l \in BlocksOf(a) : l <= k
  <1>1. BlocksOf(a) \in SUBSET (0 .. MaxHeight)
    BY DEF BlocksOf, Heights
  <1>2. \E k \in BlocksOf(a) : \A l \in BlocksOf(a) : l <= k
    BY <1>1, HasMaximum
  <1>3. h \in BlocksOf(a) /\ \A l \in BlocksOf(a) : l <= h
    BY <1>2
  <1>4. Newest(a) = [height |-> h, value |-> blocks[h].value]
    BY DEF Newest
  <1> HIDE DEF h
  <1>5. h \in Heights /\ blocks[h].algo = a
    BY <1>3 DEF BlocksOf
  <1>6. blocks[h] \in Row
    BY <1>5 DEF PollersTypeOK, NoRow
  <1>7. blocks[h] = [algo |-> a, value |-> blocks[h].value] /\ blocks[h].value \in Values
    BY <1>5, <1>6 DEF Row
  <1> QED
    BY <1>3, <1>4, <1>5, <1>7 DEF Unread, Values, Heights, None

\* Nothing is newest of an algorithm without blocks.
LEMMA NoNewest ==
  ASSUME NEW a \in Algos, BlocksOf(a) = {}
  PROVE  Newest(a) = Unread
  BY DEF Newest

\* The narrowed count is one that an INTEGER column takes.
LEMMA Int32Type ==
  ASSUME NEW n \in Int
  PROVE  Int32(n) \in -Half .. Half - 1
  <1> USE PollersAssumption
  <1>1. (n + Half) % (2 * Half) \in 0 .. 2 * Half - 1
    <2>1. n + Half \in Int /\ 2 * Half \in Nat \ {0}
      OBVIOUS
    <2>2. \A x \in Int, m \in Nat \ {0} : x % m \in 0 .. m - 1
      OBVIOUS
    <2> QED
      BY <2>1, <2>2
  <1> QED
    BY <1>1 DEF Int32

IsLatest(a) ==
  IF SnapshotHeights(a) = {} THEN LatestSnapshot(a) = None
  ELSE /\ LatestSnapshot(a) \in SnapshotHeights(a)
       /\ \A h \in SnapshotHeights(a) : h <= LatestSnapshot(a)

\* The front page shows the highest height with a snapshot.
LEMMA LatestIsHighest == \A a \in Algos : IsLatest(a)
  <1> USE PollersAssumption
  <1> SUFFICES ASSUME NEW a \in Algos PROVE IsLatest(a)
    OBVIOUS
  <1>1. SnapshotHeights(a) \in SUBSET (0 .. MaxHeight)
    BY DEF SnapshotHeights, Heights
  <1>2. \A h \in SnapshotHeights(a) : h \in Int
    BY <1>1
  <1>3. CASE SnapshotHeights(a) # {}
    <2>1. \E h \in SnapshotHeights(a) : \A k \in SnapshotHeights(a) : k <= h
      BY <1>1, <1>3, HasMaximum
    <2>2. \E h \in SnapshotHeights(a) : \A k \in SnapshotHeights(a) : h >= k
      BY <1>2, <2>1
    <2>3. /\ LatestSnapshot(a) \in SnapshotHeights(a)
          /\ \A k \in SnapshotHeights(a) : LatestSnapshot(a) >= k
      BY <1>3, <2>2 DEF LatestSnapshot
    <2> QED
      BY <1>2, <1>3, <2>3 DEF IsLatest
  <1>4. CASE SnapshotHeights(a) = {}
    BY <1>4 DEF IsLatest, LatestSnapshot
  <1> QED
    BY <1>3, <1>4

-----------------------------------------------------------------------------
LEMMA PollersInitInv == PollersInit => PollersInv
  <1> USE PollersAssumption
  <1> SUFFICES ASSUME PollersInit PROVE PollersInv
    OBVIOUS
  <1>1. MigrateInv
    BY MigrateInitInv DEF PollersInit
  <1>2. PollersTypeOK
    <2>1. history \in Seq(-Half .. Half - 1)
      BY DEF PollersInit
    <2>2. node \in [height : Heights, value : Values] /\ read \in [Algos -> Seen]
      BY SeenType DEF PollersInit
    <2>3. Half \in Nat
      BY DEF PollersInit
    <2>4. mempool \in 0 .. 2 * Half /\ stats = NoStats
      BY <2>3 DEF PollersInit
    <2>5. blocks \in [Heights -> Row \cup {NoRow}]
      BY DEF PollersInit
    <2>6. snapshots \in [Algos \X Heights -> {None} \cup Values]
      BY DEF PollersInit
    <2> QED
      BY <1>1, <2>1, <2>2, <2>4, <2>5, <2>6 DEF PollersInit, PollersTypeOK, MigrateInv
  <1>3. ReadIsReal /\ ReadIsTheBlock
    BY DEF PollersInit, ReadIsReal, ReadIsTheBlock
  <1>4. SnapshotIsTheBlock
    BY DEF PollersInit, SnapshotIsTheBlock, SnapshotHeights
  <1>5. SmoothTick
    BY DEF PollersInit, SmoothTick
  <1> QED
    BY <1>1, <1>2, <1>3, <1>4, <1>5 DEF PollersInv

\* Whatever the poller does, the programs' Migrate takes a step of its own or none.
LEMMA MigrateKept ==
  ASSUME MigrateInv, [PollersNext]_pollerVars
  PROVE  MigrateInv'
  <1>1. [MigrateNext]_migrateVars
    BY DEF PollersNext, Migrating, Tick, ReadBlocks, BeginTemplates, FetchTemplate, Upsert, FetchStats,
           InsertStats, LoseStats, Restart, SkipAlgo, WriteBlock, NodesMove, MempoolMoves, pollerVars
  <1> QED
    BY <1>1, MigrateNextInv

\* A step that touches neither the tick nor what it reads and writes.
LEMMA TickAlone ==
  ASSUME PollersInv, MigrateInv', PollersTypeOK',
         UNCHANGED <<kind, blocks, left, read, snapshots, rewritten, smooth>>
  PROVE  PollersInv'
  <1>1. \A a \in Algos : Newest(a)' = Newest(a)
    BY DEF Newest, BlocksOf
  <1>2. ReadIsReal' /\ ReadIsTheBlock'
    BY DEF PollersInv, ReadIsReal, ReadIsTheBlock
  <1>3. SnapshotIsTheBlock'
    BY DEF PollersInv, SnapshotIsTheBlock, SnapshotHeights
  <1>4. SmoothTick'
    BY <1>1 DEF PollersInv, SmoothTick
  <1> QED
    BY <1>2, <1>3, <1>4 DEF PollersInv

\* The template poller's steps: what is claimed of the difficulty poller is not its.
LEMMA OtherPoller ==
  ASSUME PollersInv, MigrateInv', PollersTypeOK', ReadIsReal', kind' # "difficulty"
  PROVE  PollersInv'
  BY DEF PollersInv, ReadIsTheBlock, SnapshotIsTheBlock, SmoothTick

-----------------------------------------------------------------------------
LEMMA ReadBlocksInv ==
  ASSUME PollersInv, ReadBlocks, MigrateInv'
  PROVE  PollersInv'
  <1> USE PollersAssumption DEF ReadBlocks
  <1>1. \A a \in Algos : Newest(a)' = Newest(a)
    BY DEF Newest, BlocksOf, sources
  <1>2. \A a \in Algos :
          \/ Newest(a) = Unread
          \/ /\ Newest(a) \in [height : Heights, value : Values]
             /\ blocks[Newest(a).height] = [algo |-> a, value |-> Newest(a).value]
    BY NewestIsHighest, NoNewest DEF PollersInv
  <1>3. ReadIsReal'
    BY <1>2 DEF ReadIsReal
  <1>4. PollersTypeOK'
    <2>1. \A a \in Algos : Newest(a) \in Seen
      BY <1>2, SeenType
    <2>2. read' \in [Algos -> Seen] /\ left' \in SUBSET Algos
      BY <2>1
    <2> QED
      BY <2>2 DEF PollersInv, PollersTypeOK, MigrateInv, sources
  <1>5. ReadIsTheBlock'
    BY <1>2 DEF ReadIsTheBlock, sources
  <1>6. SnapshotIsTheBlock'
    BY DEF PollersInv, SnapshotIsTheBlock, SnapshotHeights, sources
  <1>7. SmoothTick'
    BY <1>1 DEF SmoothTick
  <1> QED
    BY <1>3, <1>4, <1>5, <1>6, <1>7 DEF PollersInv

\* A snapshot at the height of the newest block is of that block.
LEMMA StoredOfNewest ==
  ASSUME SnapshotIsTheBlock, kind = "difficulty", rewritten = {}, NEW b \in Algos,
         NEW n \in [height : Heights, value : Values],
         blocks[n.height] = [algo |-> b, value |-> n.value],
         snapshots[<<b, n.height>>] # None
  PROVE  snapshots[<<b, n.height>>] = n.value
  <1>1. n.height \in SnapshotHeights(b) \ rewritten
    BY DEF SnapshotHeights
  <1>2. blocks[n.height] = [algo |-> b, value |-> snapshots[<<b, n.height>>]]
    BY <1>1 DEF SnapshotIsTheBlock
  <1>3. blocks[n.height].value = snapshots[<<b, n.height>>]
    BY <1>2
  <1>4. blocks[n.height].value = n.value
    OBVIOUS
  <1> QED
    BY <1>3, <1>4

LEMMA UpsertInv ==
  ASSUME PollersInv, NEW a \in Algos, Upsert(a), MigrateInv'
  PROVE  PollersInv'
  <1> USE PollersAssumption DEF Upsert, KeepFirst
  <1> DEFINE s == read[a]
  <1>1. s \in [height : Heights, value : Values]
    BY DEF PollersInv, ReadIsReal
  <1>2. <<a, s.height>> \in Algos \X Heights
    BY <1>1
  <1>3. \A k \in Algos \X Heights :
          snapshots'[k] = IF k = <<a, s.height>> /\ snapshots[k] = None THEN s.value ELSE snapshots[k]
    BY <1>2 DEF PollersInv, PollersTypeOK
  <1>4. \A b \in Algos : read'[b] = IF b = a THEN Unread ELSE read[b]
    BY DEF PollersInv, PollersTypeOK
  <1> HIDE DEF KeepFirst
  <1>5. PollersTypeOK'
    <2>1. snapshots' \in [Algos \X Heights -> {None} \cup Values]
      BY <1>1, <1>2 DEF KeepFirst, PollersInv, PollersTypeOK
    <2>2. read' \in [Algos -> Seen] /\ left' \in SUBSET Algos
      BY SeenType DEF PollersInv, PollersTypeOK
    <2> QED
      BY <2>1, <2>2 DEF PollersInv, PollersTypeOK, MigrateInv, sources
  <1>6. ReadIsReal' /\ ReadIsTheBlock'
    BY <1>4 DEF PollersInv, ReadIsReal, ReadIsTheBlock, sources
  <1>7. SnapshotIsTheBlock'
    <2> SUFFICES ASSUME kind = "difficulty", NEW b \in Algos, NEW h \in Heights,
                        snapshots'[<<b, h>>] # None, h \notin rewritten
                 PROVE  blocks[h] = [algo |-> b, value |-> snapshots'[<<b, h>>]]
      BY DEF SnapshotIsTheBlock, SnapshotHeights, sources
    <2>1. CASE snapshots[<<b, h>>] # None
      BY <1>3, <2>1 DEF PollersInv, SnapshotIsTheBlock, SnapshotHeights
    <2>2. CASE snapshots[<<b, h>>] = None
      <3>1. b = a /\ h = s.height /\ snapshots'[<<b, h>>] = s.value
        BY <1>3, <2>2
      <3> QED
        BY <3>1 DEF PollersInv, ReadIsTheBlock
    <2> QED
      BY <2>1, <2>2
  <1>8. SmoothTick'
    <2> SUFFICES ASSUME kind = "difficulty", smooth, rewritten = {}, NEW b \in Algos, Newest(b) # Unread
                 PROVE  IF b \in left' THEN read'[b] = Newest(b)
                                       ELSE snapshots'[<<b, Newest(b).height>>] = Newest(b).value
      <3>1. \A b \in Algos : Newest(b)' = Newest(b)
        BY DEF Newest, BlocksOf, sources
      <3> QED
        BY <3>1 DEF SmoothTick
    <2>1. /\ Newest(b) \in [height : Heights, value : Values]
          /\ blocks[Newest(b).height] = [algo |-> b, value |-> Newest(b).value]
      BY NewestIsHighest, NoNewest DEF PollersInv
    <2>2. CASE b = a
      <3>1. s = Newest(b)
        BY <2>2 DEF Visits, PollersInv, SmoothTick
      <3>2. \/ snapshots[<<b, Newest(b).height>>] = None
            \/ snapshots[<<b, Newest(b).height>>] = Newest(b).value
        BY <2>1, StoredOfNewest DEF PollersInv
      <3> QED
        BY <1>3, <2>1, <2>2, <3>1, <3>2
    <2>3. CASE b # a
      BY <1>3, <1>4, <2>1, <2>3 DEF PollersInv, SmoothTick
    <2> QED
      BY <2>2, <2>3
  <1> QED
    BY <1>5, <1>6, <1>7, <1>8 DEF PollersInv

LEMMA WriteBlockInv ==
  ASSUME PollersInv, NEW h \in Heights, NEW r \in Row, WriteBlock(h, r), MigrateInv'
  PROVE  PollersInv'
  <1> USE PollersAssumption DEF WriteBlock
  <1>1. /\ \A k \in Heights : blocks'[k] = IF k = h THEN r ELSE blocks[k]
        /\ \A k \in Heights \ rewritten' : blocks[k] # NoRow => blocks'[k] = blocks[k]
        /\ rewritten \subseteq rewritten'
    BY DEF PollersInv, PollersTypeOK
  <1>2. PollersTypeOK'
    <2>1. blocks' \in [Heights -> Row \cup {NoRow}] /\ rewritten' \in SUBSET Heights
      BY DEF PollersInv, PollersTypeOK
    <2> QED
      BY <2>1 DEF PollersInv, PollersTypeOK, MigrateInv, tickVars
  <1>3. \A a \in Algos : \A v : [algo |-> a, value |-> v] # NoRow
    BY DEF NoRow
  <1>4. ReadIsReal'
    BY DEF PollersInv, ReadIsReal, tickVars
  <1>5. ReadIsTheBlock'
    <2> SUFFICES ASSUME NEW a \in Algos, read[a] # Unread, read[a].height \notin rewritten'
                 PROVE  blocks'[read[a].height] = [algo |-> a, value |-> read[a].value]
      BY DEF ReadIsTheBlock, tickVars
    <2>1. read[a].height \in Heights
      BY DEF PollersInv, ReadIsReal
    <2>2. blocks[read[a].height] = [algo |-> a, value |-> read[a].value]
      BY <1>1 DEF PollersInv, ReadIsTheBlock
    <2> QED
      BY <1>1, <1>3, <2>1, <2>2
  <1>6. SnapshotIsTheBlock'
    <2> SUFFICES ASSUME NEW a \in Algos, NEW k \in SnapshotHeights(a) \ rewritten'
                 PROVE  blocks'[k] = [algo |-> a, value |-> snapshots[<<a, k>>]]
      BY DEF SnapshotIsTheBlock, SnapshotHeights
    <2>1. k \in Heights /\ blocks[k] = [algo |-> a, value |-> snapshots[<<a, k>>]]
      BY <1>1 DEF PollersInv, SnapshotIsTheBlock, SnapshotHeights
    <2> QED
      BY <1>1, <1>3, <2>1
  <1>7. SmoothTick'
    BY DEF SmoothTick
  <1> QED
    BY <1>2, <1>4, <1>5, <1>6, <1>7 DEF PollersInv

\* A tick that loses an algorithm, or all: nothing it holds becomes wrong.
LEMMA LoseReadInv ==
  ASSUME PollersInv, Restart \/ \E a \in Algos : SkipAlgo(a), MigrateInv'
  PROVE  PollersInv'
  <1> USE PollersAssumption DEF Restart, SkipAlgo
  <1>1. /\ read' \in [Algos -> Seen]
        /\ \A b \in Algos : read'[b] = Unread \/ read'[b] = read[b]
    <2>1. read \in [Algos -> Seen]
      BY DEF PollersInv, PollersTypeOK
    <2>2. CASE Restart
      BY <2>2, SeenType
    <2>3. ASSUME NEW a \in Algos, SkipAlgo(a)
          PROVE  read' = [read EXCEPT ![a] = Unread]
      BY <2>3
    <2> QED
      BY <2>1, <2>2, <2>3, SeenType
  <1>2. left' \in SUBSET Algos /\ smooth' = FALSE
    BY DEF PollersInv, PollersTypeOK
  <1>3. UNCHANGED <<kind, blocks, node, mempool, stats, snapshots, history, rewritten>>
    BY DEF sources
  <1> HIDE DEF Restart, SkipAlgo
  <1>4. PollersTypeOK'
    BY <1>1, <1>2, <1>3 DEF PollersInv, PollersTypeOK, MigrateInv
  <1>5. ReadIsReal' /\ ReadIsTheBlock'
    BY <1>1, <1>3 DEF PollersInv, ReadIsReal, ReadIsTheBlock
  <1>6. SnapshotIsTheBlock'
    BY <1>3 DEF PollersInv, SnapshotIsTheBlock, SnapshotHeights
  <1>7. SmoothTick'
    BY <1>2 DEF SmoothTick
  <1> QED
    BY <1>4, <1>5, <1>6, <1>7 DEF PollersInv

LEMMA FetchTemplateInv ==
  ASSUME PollersInv, BeginTemplates \/ \E a \in Algos : FetchTemplate(a), MigrateInv'
  PROVE  PollersInv'
  <1> USE PollersAssumption DEF BeginTemplates, FetchTemplate
  <1>1. HostTemplates \subseteq [height : Heights, value : Values]
    <2>1. node.height \in Heights /\ node.value \in Values
      BY DEF PollersInv, PollersTypeOK
    <2>2. 1 .. node.height \subseteq Heights
      BY <2>1 DEF Heights
    <2> QED
      BY <2>1, <2>2 DEF HostTemplates
  <1>2. /\ \A b \in Algos : read'[b] = read[b] \/ read'[b] \in [height : Heights, value : Values]
        /\ read' \in [Algos -> Seen] /\ left' \in SUBSET Algos
    <2>1. read \in [Algos -> Seen] /\ left \in SUBSET Algos
      BY DEF PollersInv, PollersTypeOK
    <2>2. CASE BeginTemplates
      BY <2>1, <2>2
    <2>3. ASSUME NEW a \in Algos, FetchTemplate(a)
          PROVE  left' = left /\ \E t \in HostTemplates : read' = [read EXCEPT ![a] = t]
      BY <2>3
    <2> QED
      BY <1>1, <2>1, <2>2, <2>3, SeenType
  <1>3. UNCHANGED <<kind, blocks, node, mempool, stats, snapshots, history, rewritten, smooth>>
    BY DEF sources
  <1>4. kind' # "difficulty"
    OBVIOUS
  <1> HIDE DEF BeginTemplates, FetchTemplate
  <1>5. PollersTypeOK'
    BY <1>2, <1>3 DEF PollersInv, PollersTypeOK, MigrateInv
  <1>6. ReadIsReal'
    BY <1>2 DEF PollersInv, ReadIsReal
  <1> QED
    BY <1>4, <1>5, <1>6, OtherPoller

\* The steps of the nodes, of the mempool and its poller, and of Migrate.
LEMMA SourcesInv ==
  ASSUME PollersInv, NodesMove \/ MempoolMoves \/ FetchStats \/ InsertStats \/ LoseStats \/ Migrating, MigrateInv'
  PROVE  PollersInv'
  <1> USE PollersAssumption
  <1>1. UNCHANGED <<kind, blocks, left, read, snapshots, rewritten, smooth>>
    BY DEF NodesMove, MempoolMoves, FetchStats, InsertStats, LoseStats, Migrating, pollVars, tickVars, sources
  <1>2. node' \in [height : Heights, value : Values]
    <2>1. CASE NodesMove
      <3>1. node.height \in Heights /\ node.value \in Values /\ node = [height |-> node.height, value |-> node.value]
        BY DEF PollersInv, PollersTypeOK
      <3>2. node.height < MaxHeight => node.height + 1 \in Heights
        BY <3>1 DEF Heights
      <3>3. node.value < MaxValue => node.value + 1 \in Values
        BY <3>1 DEF Values
      <3> QED
        BY <2>1, <3>1, <3>2, <3>3 DEF NodesMove, PollersInv, PollersTypeOK
    <2>2. CASE ~NodesMove
      BY <2>2 DEF MempoolMoves, FetchStats, InsertStats, LoseStats, Migrating, pollVars, sources, PollersInv, PollersTypeOK
    <2> QED
      BY <2>1, <2>2
  <1>3. mempool' \in 0 .. 2 * Half /\ stats' \in {NoStats} \cup 0 .. 2 * Half
    <2>1. Half \in Nat \ {0} /\ {0, Half - 1, Half, Half + 1} \subseteq 0 .. 2 * Half
      OBVIOUS
    <2> QED
      BY <2>1 DEF NodesMove, MempoolMoves, FetchStats, InsertStats, LoseStats, Migrating, pollVars, tickVars, sources, PollersInv, PollersTypeOK
  <1>4. history' \in Seq(-Half .. Half - 1)
    <2>1. CASE InsertStats
      <3>1. stats \in Int
        BY DEF PollersInv, PollersTypeOK, NoStats
      <3>2. Int32(stats) \in -Half .. Half - 1
        BY <3>1, Int32Type
      <3> QED
        BY <2>1, <3>2 DEF InsertStats, PollersInv, PollersTypeOK
    <2>2. CASE ~InsertStats
      BY <2>2 DEF NodesMove, MempoolMoves, FetchStats, LoseStats, Migrating, pollVars, PollersInv, PollersTypeOK
    <2> QED
      BY <2>1, <2>2
  <1>5. PollersTypeOK'
    BY <1>1, <1>2, <1>3, <1>4 DEF PollersInv, PollersTypeOK, MigrateInv
  <1> QED
    BY <1>1, <1>5, TickAlone

LEMMA PollersNextInv == PollersInv /\ [PollersNext]_pollerVars => PollersInv'
  <1> SUFFICES ASSUME PollersInv, [PollersNext]_pollerVars
               PROVE  PollersInv'
    OBVIOUS
  <1>1. MigrateInv'
    BY MigrateKept DEF PollersInv
  <1>2. CASE ReadBlocks
    BY <1>1, <1>2, ReadBlocksInv
  <1>3. ASSUME NEW a \in Algos, Upsert(a) PROVE PollersInv'
    BY <1>1, <1>3, UpsertInv
  <1>4. CASE BeginTemplates \/ \E a \in Algos : FetchTemplate(a)
    BY <1>1, <1>4, FetchTemplateInv
  <1>5. CASE Restart \/ \E a \in Algos : SkipAlgo(a)
    BY <1>1, <1>5, LoseReadInv
  <1>6. ASSUME NEW h \in Heights, NEW r \in Row, WriteBlock(h, r) PROVE PollersInv'
    BY <1>1, <1>6, WriteBlockInv
  <1>7. CASE NodesMove \/ MempoolMoves \/ FetchStats \/ InsertStats \/ LoseStats \/ Migrating
    BY <1>1, <1>7, SourcesInv
  <1>8. CASE UNCHANGED pollerVars
    <2>1. UNCHANGED pollVars
      BY <1>8 DEF pollerVars
    <2>2. PollersTypeOK'
      BY <1>1, <2>1 DEF pollVars, sources, tickVars, PollersInv, PollersTypeOK, MigrateInv
    <2> QED
      BY <1>1, <2>1, <2>2, TickAlone DEF pollVars, sources, tickVars
  <1> QED
    BY <1>2, <1>3, <1>4, <1>5, <1>6, <1>7, <1>8 DEF PollersNext, Tick

LEMMA PollersInvHolds == PollersSpec => []PollersInv
  BY PollersInitInv, PollersNextInv, PTL DEF PollersSpec

-----------------------------------------------------------------------------
\* Type correctness of the pollers: in particular, what the mempool poller
\* stores is an int32 whatever the node reports.
THEOREM PollersTypeCorrect == PollersSpec => []PollersTypeOK
  <1>1. PollersInv => PollersTypeOK
    BY DEF PollersInv
  <1> QED
    BY <1>1, PollersInvHolds, PTL

\* A difficulty snapshot is that of the block of its algorithm at its height,
\* unless the height was rewritten.
THEOREM SnapshotIsTheBlockHolds == PollersSpec => []SnapshotIsTheBlock
  <1>1. PollersInv => SnapshotIsTheBlock
    BY DEF PollersInv
  <1> QED
    BY <1>1, PollersInvHolds, PTL

\* A snapshot that is there stays as it is.
LEMMA SnapshotsStay ==
  ASSUME PollersInv, [PollersNext]_pollerVars,
         NEW k \in Algos \X Heights, snapshots[k] # None
  PROVE  snapshots'[k] = snapshots[k]
  <1>1. ASSUME NEW a \in Algos, Upsert(a) PROVE snapshots'[k] = snapshots[k]
    BY <1>1 DEF Upsert, KeepFirst, PollersInv, PollersTypeOK
  <1>2. CASE UNCHANGED snapshots
    BY <1>2
  <1> QED
    BY <1>1, <1>2
       DEF PollersNext, Migrating, Tick, ReadBlocks, BeginTemplates, FetchTemplate, FetchStats, InsertStats,
           LoseStats, Restart, SkipAlgo, WriteBlock, NodesMove, MempoolMoves, pollerVars, pollVars

\* The front page's height of an algorithm never goes down.
THEOREM PageNeverGoesBackHolds == PollersSpec => PageNeverGoesBack
  <1>1. (\A a \in Algos : IsLatest(a))'
    BY LatestIsHighest, PTL
  <1>2. ASSUME PollersInv, [PollersNext]_pollerVars, NEW a \in Algos
        PROVE  LatestSnapshot(a)' >= LatestSnapshot(a)
    <2>1. SnapshotHeights(a) \subseteq SnapshotHeights(a)'
      BY <1>2, SnapshotsStay DEF SnapshotHeights
    <2>2. SnapshotHeights(a) \subseteq Nat /\ SnapshotHeights(a)' \subseteq Nat
      BY DEF SnapshotHeights, Heights
    <2>3. IsLatest(a) /\ IsLatest(a)'
      BY <1>1, LatestIsHighest
    <2> QED
      BY <2>1, <2>2, <2>3 DEF IsLatest, None
  <1>3. PollersInv /\ [PollersNext]_pollerVars
          => [\A a \in Algos : LatestSnapshot(a)' >= LatestSnapshot(a)]_pollerVars
    BY <1>2
  <1> QED
    BY <1>3, PollersInvHolds, PTL DEF PollersSpec, PageNeverGoesBack

\* A tick without an error brings the front page up to the newest blocks.
THEOREM TickBringsPageUpToDateHolds == PollersSpec => TickBringsPageUpToDate
  <1> DEFINE UpToDate ==
        kind = "difficulty" /\ left' = {} /\ smooth' /\ rewritten = {} =>
          \A a \in Algos : Newest(a) # Unread =>
            /\ LatestSnapshot(a)' = Newest(a).height
            /\ snapshots'[<<a, Newest(a).height>>] = Newest(a).value
  <1>1. (\A a \in Algos : IsLatest(a))'
    BY LatestIsHighest, PTL
  <1>2. ASSUME PollersInv, PollersInv', [PollersNext]_pollerVars,
               kind = "difficulty", left' = {}, smooth', rewritten = {},
               NEW a \in Algos, Newest(a) # Unread
        PROVE  /\ LatestSnapshot(a)' = Newest(a).height
               /\ snapshots'[<<a, Newest(a).height>>] = Newest(a).value
    <2> DEFINE n == Newest(a)
    <2>1. UNCHANGED <<kind, blocks, rewritten>>
      BY <1>2
         DEF PollersNext, Migrating, Tick, ReadBlocks, BeginTemplates, FetchTemplate, Upsert, FetchStats, InsertStats,
             LoseStats, Restart, SkipAlgo, WriteBlock, NodesMove, MempoolMoves, pollerVars, pollVars, sources
    <2>2. n' = n
      BY <2>1 DEF Newest, BlocksOf
    <2>3. /\ n \in [height : Heights, value : Values]
          /\ \A h \in BlocksOf(a) : h <= n.height
      BY <1>2, NewestIsHighest, NoNewest DEF PollersInv
    <2> HIDE DEF n
    <2>4. snapshots'[<<a, n.height>>] = n.value
      BY <1>2, <2>1, <2>2 DEF PollersInv, SmoothTick, n
    <2>5. n.height \in SnapshotHeights(a)'
      BY <2>3, <2>4 DEF SnapshotHeights, Values, None
    <2>6. SnapshotHeights(a)' \subseteq BlocksOf(a)
      <3> SUFFICES ASSUME NEW h \in SnapshotHeights(a)' PROVE h \in Heights /\ blocks[h].algo = a
        BY DEF BlocksOf
      <3>1. h \in SnapshotHeights(a)' \ rewritten' /\ kind' = "difficulty"
        BY <1>2, <2>1
      <3>2. blocks'[h] = [algo |-> a, value |-> snapshots'[<<a, h>>]]
        BY <1>2, <3>1 DEF PollersInv, SnapshotIsTheBlock
      <3>3. blocks'[h].algo = a
        BY <3>2
      <3> QED
        BY <2>1, <3>3 DEF SnapshotHeights
    <2>7. LatestSnapshot(a)' = n.height
      <3>1. LatestSnapshot(a)' \in SnapshotHeights(a)' /\ n.height <= LatestSnapshot(a)'
        BY <1>1, <2>5 DEF IsLatest
      <3>2. LatestSnapshot(a)' <= n.height
        BY <2>3, <2>6, <3>1
      <3>3. LatestSnapshot(a)' \in Nat /\ n.height \in Nat
        BY <2>3, <3>1 DEF SnapshotHeights, Heights
      <3> QED
        BY <3>1, <3>2, <3>3
    <2> QED
      BY <2>4, <2>7 DEF n
  <1>3. PollersInv /\ PollersInv' /\ [PollersNext]_pollerVars => [UpToDate]_pollerVars
    BY <1>2
  <1> QED
    BY <1>3, PollersInvHolds, PTL DEF PollersSpec, TickBringsPageUpToDate
=============================================================================
