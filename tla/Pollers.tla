------------------------------- MODULE Pollers -------------------------------
(***************************************************************************)
(* The snapshot pollers (internal/difficultypoller, internal/templatepoller*)
(* and internal/mempoolpoller, with their commands): started, migrated     *)
(* (module Migrate), then one Tick after another, until they die.          *)
(*                                                                         *)
(* They share nothing but the schema, so a behaviour follows one of them:  *)
(* "difficulty" copies the newest block of each algorithm from table       *)
(* blocks, which the indexer fills and rewrites; "template" asks the nodes *)
(* for a block template per algorithm; "mempool" asks for the mempool's    *)
(* size.  Each RPC and each statement is a step, of all three.             *)
(***************************************************************************)
EXTENDS Migrate, Sequences

CONSTANTS
  Poller,      \* the program that polls
  Kinds,       \* which pollers are followed
  Algos,       \* the proof-of-work algorithms
  Rank,        \* the place of an algorithm in the order in which a tick visits them
  MaxHeight,   \* bound: the highest block
  MaxValue,    \* bound: how many different blocks or templates a height can have
  MaxTicks,    \* bound: how many mempool snapshots are taken
  Half         \* 2^31: one more than the largest int32

ASSUME PollersAssumption ==
  /\ Poller \in Programs
  /\ Kinds \subseteq {"difficulty", "template", "mempool"}
  /\ Rank \in [Algos -> Nat]
  /\ \A a, b \in Algos : Rank[a] = Rank[b] => a = b
  /\ "none" \notin Algos
  /\ MaxTicks \in Nat
  /\ {MaxHeight, MaxValue, Half} \subseteq Nat \ {0}

VARIABLES
  kind,       \* the poller that is followed
  blocks,     \* table blocks: algorithm and difficulties of the row at a height
  node,       \* the base nodes: their height, and which fork they are on
  mempool,    \* the number of transactions they hold
  left,       \* the algorithms of the tick still to be visited
  read,       \* what the tick has read of each: a height and a value
  stats,      \* the mempool's size as the tick was told, still to be inserted
  snapshots,  \* the table of snapshots: the value stored for an algorithm and height
  history,    \* table mempool_snapshots: the counts, in the order of the inserts
  rewritten,  \* history: heights whose row was replaced by another one
  smooth      \* history: the tick has met no error, and no block was written since

sources    == <<blocks, node, mempool>>
tickVars   == <<left, read, stats>>
pollVars   == <<kind, sources, tickVars, snapshots, history, rewritten, smooth>>
pollerVars == <<migrateVars, pollVars>>

Heights == 1 .. MaxHeight
Values  == 1 .. MaxValue
None    == 0                                  \* no row
Seen    == [height : 0 .. MaxHeight, value : 0 .. MaxValue]
Unread  == [height |-> None, value |-> None]
Row     == [algo : Algos, value : Values]
NoRow   == [algo |-> "none", value |-> None]
NoStats == -1

PollersTypeOK ==
  /\ MigrateTypeOK
  /\ kind \in Kinds
  /\ blocks \in [Heights -> Row \cup {NoRow}]
  /\ node \in [height : Heights, value : Values]
  /\ mempool \in 0 .. 2 * Half
  /\ left \in SUBSET Algos
  /\ read \in [Algos -> Seen]
  /\ stats \in {NoStats} \cup 0 .. 2 * Half
  /\ snapshots \in [Algos \X Heights -> {None} \cup Values]
  /\ history \in Seq(-Half .. Half - 1)
  /\ rewritten \in SUBSET Heights
  /\ smooth \in BOOLEAN

PollersInit ==
  /\ MigrateInit
  /\ kind \in Kinds
  /\ blocks = [h \in Heights |-> NoRow]
  /\ node = [height |-> 1, value |-> 1]
  /\ mempool = 0
  /\ left = {}
  /\ read = [a \in Algos |-> Unread]
  /\ stats = NoStats
  /\ snapshots = [k \in Algos \X Heights |-> None]
  /\ history = <<>>
  /\ rewritten = {}
  /\ smooth = FALSE

-----------------------------------------------------------------------------
(***************************************************************************)
(* What the pollers read.  It changes only while the poller runs: what     *)
(* happens before, its first tick finds either way.                        *)
(***************************************************************************)
Polling == pc[Poller] = "ready"

\* Another program, which has migrated too, writes a row of table blocks
\* (DB.UpsertBlock).
WriteBlock(h, r) ==
  /\ Polling /\ kind = "difficulty"
  /\ \E p \in Programs \ {Poller} : pc[p] = "ready"
  /\ blocks' = [blocks EXCEPT ![h] = r]
  /\ rewritten' = IF blocks[h] \notin {NoRow, r} THEN rewritten \cup {h} ELSE rewritten
  /\ smooth' = FALSE
  /\ UNCHANGED <<migrateVars, kind, node, mempool, tickVars, snapshots, history>>

\* The nodes mine a block, or change to another fork.
NodesMove ==
  /\ Polling /\ kind = "template"
  /\ \/ node' = [node EXCEPT !.height = @ + 1] /\ node.height < MaxHeight
     \/ node' = [node EXCEPT !.value = @ + 1] /\ node.value < MaxValue
  /\ UNCHANGED <<migrateVars, kind, blocks, mempool, tickVars, snapshots, history>>
  /\ UNCHANGED <<rewritten, smooth>>

\* Transactions come and go.
MempoolMoves ==
  /\ Polling /\ kind = "mempool"
  /\ mempool' \in {0, Half - 1, Half, Half + 1}
  /\ UNCHANGED <<migrateVars, kind, blocks, node, tickVars, snapshots, history>>
  /\ UNCHANGED <<rewritten, smooth>>

\* A template for the next block, of a host that may lag.
HostTemplates ==
  {[height |-> h, value |-> node.value] : h \in IF stable THEN {node.height} ELSE 1 .. node.height}

BlocksOf(a) == {h \in Heights : blocks[h].algo = a}

\* mutant: GROUP BY algorithm, with the difficulty of the newest block of all
NewestOfAll(a) ==
  IF BlocksOf(a) = {} THEN Unread
  ELSE LET h == CHOOSE k \in BlocksOf(a) : \A l \in BlocksOf(a) : l <= k
           t == CHOOSE k \in Heights : blocks[k] # NoRow /\ \A l \in Heights : l > k => blocks[l] = NoRow
       IN [height |-> h, value |-> blocks[t].value]

\* CurrentDifficultyPerAlgo: DISTINCT ON (pow_algo) ... ORDER BY pow_algo, height DESC.
Newest(a) ==
  IF BlocksOf(a) = {} THEN Unread
  ELSE LET h == CHOOSE k \in BlocksOf(a) : \A l \in BlocksOf(a) : l <= k
       IN [height |-> h, value |-> blocks[h].value]

-----------------------------------------------------------------------------
(***************************************************************************)
(* Tick.  One that fails is logged and the next one comes after the        *)
(* interval, so that failure is just the tick's end.                       *)
(***************************************************************************)
\* difficultypoller: the newest block of every algorithm, in one query.
ReadBlocks ==
  /\ Polling /\ kind = "difficulty" /\ left = {}
  /\ read' = [a \in Algos |-> Newest(a)]
  /\ left' = {a \in Algos : Newest(a) # Unread}
  /\ smooth' = TRUE
  /\ UNCHANGED <<migrateVars, kind, sources, stats, snapshots, history, rewritten>>

\* templatepoller: the tick visits all algorithms.
BeginTemplates ==
  /\ Polling /\ kind = "template" /\ left = {}
  /\ left' = Algos
  /\ UNCHANGED <<migrateVars, kind, sources, read, stats, snapshots, history, rewritten, smooth>>

Visits(a) == a \in left /\ \A b \in left : Rank[a] <= Rank[b]

\* GetNewBlockTemplate for one algorithm.
FetchTemplate(a) ==
  /\ Polling /\ kind = "template" /\ Visits(a) /\ read[a] = Unread
  /\ \E t \in HostTemplates : read' = [read EXCEPT ![a] = t]
  /\ UNCHANGED <<migrateVars, kind, sources, left, stats, snapshots, history, rewritten, smooth>>

\* INSERT ... ON CONFLICT (algo, height) DO NOTHING
KeepFirst(a, s) ==
  snapshots' = [snapshots EXCEPT ![<<a, s.height>>] = IF @ = None THEN s.value ELSE @]

UpsertOrStop(a) ==   \* mutant: a snapshot that exists already ends the tick
  /\ Polling /\ Visits(a) /\ read[a] # Unread
  /\ KeepFirst(a, read[a])
  /\ left' = IF snapshots[<<a, read[a].height>>] = None THEN left \ {a} ELSE {}
  /\ read' = [read EXCEPT ![a] = Unread]
  /\ UNCHANGED <<migrateVars, kind, sources, stats, history, rewritten, smooth>>

\* Upsert[Template]DifficultySnapshot of what was read.
Upsert(a) ==
  /\ Polling /\ Visits(a) /\ read[a] # Unread
  /\ KeepFirst(a, read[a])
  /\ left' = left \ {a}
  /\ read' = [read EXCEPT ![a] = Unread]
  /\ UNCHANGED <<migrateVars, kind, sources, stats, history, rewritten, smooth>>

\* A fetch or upsert that fails does not keep the tick from the other algorithms.
SkipAlgo(a) ==
  /\ Polling /\ ~stable /\ Visits(a)
  /\ left' = left \ {a}
  /\ read' = [read EXCEPT ![a] = Unread]
  /\ smooth' = FALSE
  /\ UNCHANGED <<migrateVars, kind, sources, stats, snapshots, history, rewritten>>

Int64(n) == n   \* mutant: not narrowed, for a column of type INTEGER

\* int32(uint64)
Int32(n) == ((n + Half) % (2 * Half)) - Half

\* mempoolpoller: GetMempoolStats.
FetchStats ==
  /\ Polling /\ kind = "mempool" /\ stats = NoStats
  /\ Len(history) < MaxTicks
  /\ stats' = mempool
  /\ UNCHANGED <<migrateVars, kind, sources, left, read, snapshots, history, rewritten, smooth>>

\* A plain INSERT of what it said.
InsertStats ==
  /\ Polling /\ stats # NoStats
  /\ history' = Append(history, Int32(stats))
  /\ stats' = NoStats
  /\ UNCHANGED <<migrateVars, kind, sources, left, read, snapshots, rewritten, smooth>>

\* The INSERT fails, and what the node said is dropped with the tick.
LoseStats ==
  /\ Polling /\ ~stable /\ stats # NoStats
  /\ stats' = NoStats
  /\ UNCHANGED <<migrateVars, kind, sources, left, read, snapshots, history, rewritten, smooth>>

\* The poller dies in the middle of a tick over the algorithms, and is started again.
Restart ==
  /\ Polling /\ ~stable /\ left # {}
  /\ left' = {}
  /\ read' = [a \in Algos |-> Unread]
  /\ smooth' = FALSE
  /\ UNCHANGED <<migrateVars, kind, sources, stats, snapshots, history, rewritten>>

\* A step of some program's Migrate.
Migrating == MigrateNext /\ UNCHANGED pollVars

Tick ==
  \/ ReadBlocks
  \/ BeginTemplates
  \/ \E a \in Algos : FetchTemplate(a) \/ Upsert(a)

PollersNext ==
  \/ Migrating
  \/ Tick
  \/ FetchStats \/ InsertStats \/ LoseStats
  \/ Restart
  \/ \E a \in Algos : SkipAlgo(a)
  \/ \E h \in Heights, r \in Row : WriteBlock(h, r)
  \/ NodesMove
  \/ MempoolMoves

PollersSpec == PollersInit /\ [][PollersNext]_pollerVars

(***************************************************************************)
(* Whoever runs the programs starts one again that has exited, outages     *)
(* end (Stabilise), statements return, and the select in Run wakes up.     *)
(***************************************************************************)
PollersLiveSpec ==
  /\ PollersSpec
  /\ WF_pollerVars(Migrating /\ Stabilise)
  /\ \A p \in Programs : WF_pollerVars(Migrating /\ (Start(p) \/ MigrateStep(p)))
  /\ WF_pollerVars(Tick)

-----------------------------------------------------------------------------
(***************************************************************************)
(* What the front page reads.                                              *)
(***************************************************************************)
SnapshotHeights(a) == {h \in Heights : snapshots[<<a, h>>] # None}

OldestSnapshot(a) ==   \* mutant: ORDER BY height without DESC
  IF SnapshotHeights(a) = {} THEN None
  ELSE CHOOSE h \in SnapshotHeights(a) : \A k \in SnapshotHeights(a) : h <= k

\* Latest[Template]DifficultySnapshots: DISTINCT ON (algo) ... ORDER BY algo, height DESC.
LatestSnapshot(a) ==
  IF SnapshotHeights(a) = {} THEN None
  ELSE CHOOSE h \in SnapshotHeights(a) : \A k \in SnapshotHeights(a) : h >= k

-----------------------------------------------------------------------------
(***************************************************************************)
(* Properties.                                                             *)
(***************************************************************************)
\* A difficulty snapshot is that of the block stored at its height, under the
\* block's own algorithm, although the table changes between the read and the
\* insert; the exception is a height that was rewritten with another block.
SnapshotIsTheBlock ==
  kind = "difficulty" =>
    \A a \in Algos : \A h \in SnapshotHeights(a) \ rewritten :
      blocks[h] = [algo |-> a, value |-> snapshots[<<a, h>>]]

\* After a tick without an error and without a write to blocks meanwhile, the
\* front page's "last mined" row of each algorithm is its newest block, unless a
\* block was rewritten.
TickBringsPageUpToDate ==
  [][kind = "difficulty" /\ left' = {} /\ smooth' /\ rewritten = {} =>
       \A a \in Algos : Newest(a) # Unread =>
         /\ LatestSnapshot(a)' = Newest(a).height
         /\ snapshots'[<<a, Newest(a).height>>] = Newest(a).value]_pollerVars

\* Neither a host that lags, nor a failed insert that is made up for later, nor a
\* restart moves the front page's difficulties back to a lower height.
PageNeverGoesBack ==
  [][\A a \in Algos : LatestSnapshot(a)' >= LatestSnapshot(a)]_pollerVars

\* Every algorithm's newest block gets its snapshot, unless a newer one comes first.
NewestIsRecorded ==
  \A a \in Algos, h \in Heights :
    (kind = "difficulty" /\ Newest(a).height = h) ~>
      (h \in SnapshotHeights(a) \/ Newest(a).height # h)

(***************************************************************************)
(* What the sources say of the program, and the program does not do.       *)
(***************************************************************************)
\* The front page shows the "current difficulty per algo", which "could technically
\* be recomputed live from `blocks` each time": after an undisturbed tick the newest
\* snapshot of every algorithm is what such a query would give, rewritten or not.
PageShowsLiveDifficulty ==
  [][kind = "difficulty" /\ left' = {} /\ smooth' =>
       \A a \in Algos : Newest(a) # Unread =>
         snapshots'[<<a, Newest(a).height>>] = Newest(a).value]_pollerVars
=============================================================================
