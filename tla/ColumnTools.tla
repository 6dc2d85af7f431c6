----------------------------- MODULE ColumnTools -----------------------------
(***************************************************************************)
(* The maintenance tools that recompute one column of table blocks while   *)
(* the indexer may be running: cmd/reattribute (pool_tag, from the stored  *)
(* outputs), cmd/reindex-rewards (reward_micro_minotari, from the nodes'   *)
(* blocks), cmd/backfill-adjusted-difficulty and                           *)
(* cmd/backfill-achieved-difficulty.  All four walk a range in batches:    *)
(* two reads of the whole batch, then one UPDATE per height that differs.  *)
(* They act on the tables and nodes of Indexer, and each query, RPC and    *)
(* UPDATE is a step between the indexer's steps.                           *)
(***************************************************************************)
EXTENDS Indexer

CONSTANTS
  Commands,   \* the tools that are run, a subset of AllCommands
  ToolLacks,  \* which of "adjusted", "achieved" the tools' hosts may not answer
  MaxRuns     \* bound: how many runs of a tool are started

AllCommands == {"reattribute", "rewards", "adjusted", "achieved"}

ASSUME ToolsAssumption == Commands \subseteq AllCommands /\ MaxRuns \in Nat

VARIABLES
  tpc,      \* the running tool: "off", "first", "second" read, "rows", "update"
  cmd,      \* which of the tools it is
  dryRun,   \* its flags
  toHeight,
  batchFrom,
  todo,     \* the batch's heights still to be compared
  fresh,    \* the new value of each (for "achieved": the stored hash)
  old,      \* the stored value of each, as read
  runs,     \* runs started so far
  toMax,    \* history: -to was left at 0, so that toHeight is the maximum then stored
  seen,     \* history: if so, the heights that had a row at that moment
  quiet     \* history: since the batch's first read only the tool has moved, and
            \* no answer lacked a value

locals   == <<cmd, dryRun, toHeight, batchFrom, toMax, seen>>
reads    == <<todo, fresh, old>>
toolVars == <<tpc, locals, reads, runs, quiet>>
allVars  == <<vars, toolVars>>

Nothing == [h \in Heights |-> Absent]

ToolTypeOK ==
  /\ tpc \in {"off", "first", "second", "rows", "update"}
  /\ cmd \in AllCommands
  /\ dryRun \in BOOLEAN
  /\ toHeight \in Heights
  /\ batchFrom \in Nat
  /\ todo \in SUBSET Heights
  /\ fresh \in [Heights -> MaybeFork]
  /\ old \in [Heights -> MaybeFork]
  /\ runs \in 0 .. MaxRuns
  /\ toMax \in BOOLEAN
  /\ seen \in SUBSET Heights
  /\ quiet \in BOOLEAN

ToolInit ==
  /\ tpc = "off"
  /\ cmd = "reattribute"
  /\ dryRun = FALSE
  /\ toHeight = 0
  /\ batchFrom = 0
  /\ todo = {}
  /\ fresh = Nothing
  /\ old = Nothing
  /\ runs = 0
  /\ toMax = FALSE
  /\ seen = {}
  /\ quiet = FALSE

-----------------------------------------------------------------------------
\* The one column each tool reads and updates.
Column ==
  [reattribute |-> "tag", rewards |-> "reward", adjusted |-> "adjusted", achieved |-> "achieved"]

Current(h) == blocks[h][Column[cmd]]

\* SetPoolTag, SetRewardMicroMinotari, Set...Difficulty: an UPDATE of one column,
\* which changes nothing where the height has no row.
SetColumn(h, v) ==
  IF h \in Stored THEN blocks' = [blocks EXCEPT ![h][Column[cmd]] = v]
                  ELSE UNCHANGED blocks

\* The end of the process, whether by return or log.Fatalf.
Exit ==
  /\ tpc' = "off"
  /\ cmd' = "reattribute"
  /\ dryRun' = FALSE
  /\ toHeight' = 0
  /\ batchFrom' = 0
  /\ todo' = {}
  /\ fresh' = Nothing
  /\ old' = Nothing
  /\ toMax' = FALSE
  /\ seen' = {}
  /\ quiet' = FALSE

\* main: -to 0 stands for MaxIndexedHeight, read once.
StartTool(c, lo, flagTo, dry) ==
  /\ tpc = "off"
  /\ runs < MaxRuns
  /\ runs' = runs + 1
  /\ \E hi \in Heights :
       /\ IF flagTo = 0 THEN IsMaxIndexedHeight(hi) ELSE hi = flagTo
       /\ lo <= hi
       /\ toHeight' = hi
  /\ cmd' = c
  /\ dryRun' = dry
  /\ batchFrom' = lo
  /\ tpc' = "first"
  /\ toMax' = (flagTo = 0)
  /\ seen' = IF flagTo = 0 THEN Stored ELSE {}
  /\ quiet' = FALSE
  /\ UNCHANGED <<vars, reads>>

Lacks(lookup) == ~calm /\ lookup \in ToolLacks

BatchHeightsFromBelow == batchFrom - 1 .. BatchEnd(batchFrom, toHeight)   \* mutant
BatchHeightsUnclamped == batchFrom .. batchFrom + BatchSize               \* mutant

BatchHeights == batchFrom .. BatchEnd(batchFrom, toHeight)

\* The first read of a batch: the old tags (reattribute) ...
BlocksInHeightRange ==
  /\ cmd = "reattribute"
  /\ todo' = BatchHeights \cap Stored
  /\ old' = [h \in Heights |-> IF h \in todo' THEN Current(h) ELSE Absent]
  /\ fresh' = Nothing
  /\ quiet' = TRUE

HeadersByHeight ==   \* mutant: the header of the block at the height
  /\ cmd = "achieved"
  /\ todo' = BatchHeights \cap Stored
  /\ fresh' = [h \in Heights |-> IF h \in todo' THEN chain[h] ELSE Absent]
  /\ old' = Nothing
  /\ quiet' = TRUE

\* ... or the stored hashes, by which the new values will be looked up ...
HashesForHeightRange ==
  /\ cmd = "achieved"
  /\ todo' = BatchHeights \cap Stored
  /\ fresh' = [h \in Heights |-> IF h \in todo' THEN blocks[h].fork ELSE Absent]
  /\ old' = Nothing
  /\ quiet' = TRUE

\* ... or the new rewards, from the blocks that the answering host has ...
FetchBlocks ==
  /\ cmd = "rewards"
  /\ \E t \in HostTips : todo' = {h \in BatchHeights : h <= t}
  /\ fresh' = [h \in Heights |-> IF h \in todo' THEN chain[h] ELSE Absent]
  /\ old' = Nothing
  /\ quiet' = TRUE

\* ... or the new adjusted difficulties, all of them missing if the host predates
\* the field.  A range that ends at 0 counts as not given, taken to fail.
FetchDifficulties ==
  /\ cmd = "adjusted"
  /\ \E h \in BatchHeights : h > 0
  /\ \E t \in HostTips : todo' = {h \in BatchHeights : h <= t}
  /\ \/ /\ fresh' = [h \in Heights |-> IF h \in todo' THEN chain[h] ELSE Absent]
        /\ quiet' = TRUE
     \/ /\ Lacks("adjusted")
        /\ fresh' = Nothing
        /\ quiet' = FALSE
  /\ old' = Nothing

FirstRead ==
  /\ tpc = "first"
  /\ tpc' = "second"
  /\ BlocksInHeightRange \/ HashesForHeightRange \/ FetchBlocks \/ FetchDifficulties
  /\ UNCHANGED <<vars, locals, runs>>

\* The second read of a batch: the coinbases among the stored outputs ...
CoinbaseExtraForHeightRange ==
  /\ cmd = "reattribute"
  /\ fresh' = [h \in Heights |-> IF h \in todo THEN outputs[h] ELSE Absent]
  /\ UNCHANGED old

\* ... or the values of the column as stored.
ValuesForHeightRange ==
  /\ cmd # "reattribute"
  /\ old' = [h \in Heights |-> IF h \in todo THEN Current(h) ELSE Absent]
  /\ UNCHANGED fresh

SecondRead ==
  /\ tpc = "second"
  /\ tpc' = "rows"
  /\ CoinbaseExtraForHeightRange \/ ValuesForHeightRange
  /\ UNCHANGED <<vars, locals, todo, runs, quiet>>

\* mutant: only a captured value can change
ChangedIfCaptured(h) == old[h] # Absent /\ fresh[h] # old[h]

\* poolTagChanged, rewardChanged, ...DifficultyChanged
Changed(h) == fresh[h] # old[h]

\* The heights of the batch are compared in ascending order.
IsNext(h) == h \in todo /\ \A k \in todo : h <= k

\* backfill-achieved-difficulty asks for each height: GetHeaderByHash answered.
AskHeader(h) ==
  /\ tpc = "rows"
  /\ cmd = "achieved"
  /\ IsNext(h)
  /\ tpc' = "update"
  /\ UNCHANGED <<vars, locals, reads, runs, quiet>>

\* One height: the comparison, and the UPDATE if it says so.
UpdateRow(h) ==
  /\ tpc = IF cmd = "achieved" THEN "update" ELSE "rows"
  /\ tpc' = "rows"
  /\ IsNext(h)
  /\ todo' = todo \ {h}
  /\ IF Changed(h) /\ ~dryRun THEN SetColumn(h, fresh[h]) ELSE UNCHANGED blocks
  /\ UNCHANGED <<chainVars, kernels, outputs, pc, loopVars, batch, row, history>>
  /\ UNCHANGED <<locals, fresh, old, runs, quiet>>

\* backfill-achieved-difficulty: GetHeaderByHash failed, perhaps because the block
\* is orphaned; the height is skipped.
SkipRow(h) ==
  /\ tpc = "rows"
  /\ cmd = "achieved"
  /\ Lacks("achieved") \/ fresh[h] # chain[h]
  /\ IsNext(h)
  /\ todo' = todo \ {h}
  /\ quiet' = FALSE
  /\ UNCHANGED <<vars, tpc, locals, fresh, old, runs>>

\* The next batch, or the end of the range.
NextBatch ==
  /\ tpc = "rows"
  /\ todo = {}
  /\ \/ /\ batchFrom + BatchSize <= toHeight
        /\ batchFrom' = batchFrom + BatchSize
        /\ tpc' = "first"
        /\ todo' = {} /\ fresh' = Nothing /\ old' = Nothing
        /\ quiet' = FALSE
        /\ UNCHANGED <<cmd, dryRun, toHeight, toMax, seen>>
     \/ /\ batchFrom + BatchSize > toHeight
        /\ Exit
  /\ UNCHANGED <<vars, runs>>

\* A failed query or RPC, or the death of the process.
Die ==
  /\ tpc # "off"
  /\ Exit
  /\ UNCHANGED <<vars, runs>>

\* The indexer and the nodes go on meanwhile.
Meanwhile ==
  /\ Next
  /\ quiet' = FALSE
  /\ UNCHANGED <<tpc, locals, reads, runs>>

Tool ==
  \/ \E c \in Commands, lo, flagTo \in Heights, dry \in BOOLEAN : StartTool(c, lo, flagTo, dry)
  \/ FirstRead
  \/ SecondRead
  \/ \E h \in todo : AskHeader(h) \/ UpdateRow(h) \/ SkipRow(h)
  \/ NextBatch
  \/ Die

ToolSpec == Init /\ ToolInit /\ [][Meanwhile \/ Tool]_allVars

-----------------------------------------------------------------------------
(***************************************************************************)
(* Properties of one tool at a time beside one follower.                   *)
(***************************************************************************)
\* A stored achieved difficulty is that of the very block in the row, even when
\* the chain is reorganised under the tool and the follower: both look it up by
\* the block's hash.
AchievedIsTheBlocksOwn ==
  \A h \in Heights : blocks[h].achieved \in {Absent, blocks[h].fork}

\* "New blocks the indexer inserts past that point during this tool's run are
\* never read or written by it": a run up to the MaxIndexedHeight read at startup
\* only changes rows that existed then (but for the genesis block's, for which
\* the height 0 of an empty table is mistaken).
NewRowsAreLeftAlone ==
  [][\A h \in todo \ {0} : UpdateRow(h) /\ blocks' # blocks /\ toMax => h \in seen]_allVars

\* What makes a rerun a no-op: a batch that nothing interfered with leaves every
\* row that the nodes or the stored outputs have a value for with that value.
BatchIsBroughtUpToDate ==
  [][NextBatch /\ quiet /\ ~dryRun =>
       \A h \in BatchHeights \cap Stored : fresh[h] # Absent => Current(h) = fresh[h]]_allVars

(***************************************************************************)
(* What the sources say of the program, and the program does not do.       *)
(***************************************************************************)
\* reattribute is "safe to run against a live database with [...] a concurrently-
\* running follow-mode indexer": no row that was there at its start gets a pool
\* tag other than that of the coinbase stored with it.
ReattributionKeepsTags ==
  [][\A h \in todo \cap seen : UpdateRow(h) /\ cmd = "reattribute" /\ blocks' # blocks
       => blocks'[h].tag = outputs[h]]_allVars
=============================================================================
