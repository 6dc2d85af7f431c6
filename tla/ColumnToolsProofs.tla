-------------------------- MODULE ColumnToolsProofs --------------------------
(* Theorems about ColumnTools: for every chain, batch size and subset of the  *)
(* commands; where a theorem says so, beside one follower.                    *)
EXTENDS ColumnTools, IndexerProofs

-----------------------------------------------------------------------------
\* What is still to be compared lies in the batch.
TodoInBatch == tpc \in {"second", "rows", "update"} => \A h \in todo : h <= toHeight /\ h \in BatchHeights

ToolTypes == TypeOK /\ ToolTypeOK /\ TodoInBatch

\* An UPDATE of one column leaves the other columns and rows alone.
LEMMA OneColumn ==
  ASSUME TypeOK, cmd \in AllCommands, NEW h \in Stored, NEW v \in MaybeFork,
         blocks' = [blocks EXCEPT ![h][Column[cmd]] = v]
  PROVE  /\ blocks' \in [Heights -> Columns]
         /\ \A k \in Heights : blocks'[k].fork = blocks[k].fork
         /\ \A k \in Heights \ {h} : blocks'[k] = blocks[k]
         /\ blocks'[h][Column[cmd]] = v
         /\ cmd # "achieved" => blocks'[h].achieved = blocks[h].achieved
  <1>1. h \in Heights /\ blocks[h] \in Columns
    BY DEF Stored, TypeOK
  <1>2. blocks' = [blocks EXCEPT ![h] = [blocks[h] EXCEPT ![Column[cmd]] = v]]
    OBVIOUS
  <1> DEFINE r == [blocks[h] EXCEPT ![Column[cmd]] = v]
  <1>3. CASE cmd = "reattribute"
    <2>1. Column[cmd] = "tag"
      BY <1>3 DEF Column
    <2>2. r \in Columns /\ r.fork = blocks[h].fork /\ r[Column[cmd]] = v /\ r.achieved = blocks[h].achieved
      BY <1>1, <2>1 DEF Columns
    <2> QED
      BY <1>1, <1>2, <2>2 DEF TypeOK
  <1>4. CASE cmd = "rewards"
    <2>1. Column[cmd] = "reward"
      BY <1>4 DEF Column
    <2>2. r \in Columns /\ r.fork = blocks[h].fork /\ r[Column[cmd]] = v /\ r.achieved = blocks[h].achieved
      BY <1>1, <2>1 DEF Columns
    <2> QED
      BY <1>1, <1>2, <2>2 DEF TypeOK
  <1>5. CASE cmd = "adjusted"
    <2>1. Column[cmd] = "adjusted"
      BY <1>5 DEF Column
    <2>2. r \in Columns /\ r.fork = blocks[h].fork /\ r[Column[cmd]] = v /\ r.achieved = blocks[h].achieved
      BY <1>1, <2>1 DEF Columns
    <2> QED
      BY <1>1, <1>2, <2>2 DEF TypeOK
  <1>6. CASE cmd = "achieved"
    <2>1. Column[cmd] = "achieved"
      BY <1>6 DEF Column
    <2>2. r \in Columns /\ r.fork = blocks[h].fork /\ r[Column[cmd]] = v
      BY <1>1, <2>1 DEF Columns
    <2> QED
      BY <1>1, <1>2, <1>6, <2>2 DEF TypeOK
  <1> QED
    BY <1>3, <1>4, <1>5, <1>6 DEF AllCommands

\* What an UpdateRow does to the tables.
LEMMA UpdatedRow ==
  ASSUME ToolTypes, NEW h \in todo, UpdateRow(h)
  PROVE  /\ TypeOK'
         /\ \A k \in Heights : blocks'[k].fork = blocks[k].fork
         /\ \A k \in Heights \ {h} : blocks'[k] = blocks[k]
         /\ blocks' = blocks \/ blocks'[h][Column[cmd]] = fresh[h]
         /\ h \in Stored /\ Changed(h) /\ ~dryRun => blocks'[h][Column[cmd]] = fresh[h]
         /\ cmd # "achieved" => blocks'[h].achieved = blocks[h].achieved
         /\ blocks' # blocks => h \in Stored
         /\ h \notin Stored \/ ~Changed(h) \/ dryRun => blocks' = blocks
  <1>1. h \in Heights /\ fresh[h] \in MaybeFork /\ cmd \in AllCommands
    BY DEF ToolTypes, ToolTypeOK
  <1>2. UNCHANGED <<chainVars, kernels, outputs, pc, loopVars, batch, row, history>>
    BY DEF UpdateRow
  <1>3. CASE blocks' = blocks /\ ~(h \in Stored /\ Changed(h) /\ ~dryRun)
    BY <1>2, <1>3 DEF ToolTypes, TypeOK, chainVars, loopVars, history
  <1>4. CASE h \in Stored /\ Changed(h) /\ ~dryRun
    <2>1. blocks' = [blocks EXCEPT ![h][Column[cmd]] = fresh[h]]
      BY <1>4 DEF UpdateRow, SetColumn
    <2>2. /\ blocks' \in [Heights -> Columns]
          /\ \A k \in Heights : blocks'[k].fork = blocks[k].fork
          /\ \A k \in Heights \ {h} : blocks'[k] = blocks[k]
          /\ blocks'[h][Column[cmd]] = fresh[h]
          /\ cmd # "achieved" => blocks'[h].achieved = blocks[h].achieved
      BY <1>1, <1>4, <2>1, OneColumn DEF ToolTypes
    <2>3. TypeOK'
      BY <1>2, <2>2 DEF ToolTypes, TypeOK, chainVars, loopVars, history
    <2> QED
      BY <1>4, <2>2, <2>3
  <1> QED
    BY <1>3, <1>4 DEF UpdateRow, SetColumn

\* All other steps of a tool leave the indexer, the nodes and the tables alone.
LEMMA ToolMoves ==
  ASSUME Tool
  PROVE  UNCHANGED vars \/ \E h \in todo : UpdateRow(h)
  BY DEF Tool, StartTool, FirstRead, SecondRead, AskHeader, SkipRow, NextBatch, Die

-----------------------------------------------------------------------------
LEMMA NothingType == Nothing \in [Heights -> MaybeFork] /\ 0 \in Heights
  BY ConstantTypes DEF Nothing

LEMMA ExitTypes ==
  ASSUME ToolTypes, Exit, UNCHANGED <<vars, runs>>
  PROVE  ToolTypes'
  <1>1. TypeOK'
    BY DEF ToolTypes, TypeOK, vars, chainVars, tables, loopVars, history
  <1>2. ToolTypeOK'
    BY NothingType DEF ToolTypes, ToolTypeOK, Exit, AllCommands
  <1>3. TodoInBatch'
    BY DEF Exit, TodoInBatch
  <1> QED
    BY <1>1, <1>2, <1>3 DEF ToolTypes

LEMMA ToolTypesInit == Init /\ ToolInit => ToolTypes
  <1> SUFFICES ASSUME Init, ToolInit PROVE ToolTypes
    OBVIOUS
  <1>1. TypeOK
    BY TypeInit
  <1>2. ToolTypeOK
    <2>1. tpc \in {"off", "first", "second", "rows", "update"} /\ cmd \in AllCommands
      BY DEF ToolInit, AllCommands
    <2>2. (dryRun \in BOOLEAN) /\ (toMax \in BOOLEAN) /\ (quiet \in BOOLEAN)
      BY DEF ToolInit
    <2>3. toHeight \in Heights /\ fresh \in [Heights -> MaybeFork] /\ old \in [Heights -> MaybeFork]
      BY NothingType DEF ToolInit
    <2>4. batchFrom \in Nat /\ runs \in 0 .. MaxRuns
      BY ToolsAssumption DEF ToolInit
    <2>5. todo \in SUBSET Heights /\ seen \in SUBSET Heights
      BY DEF ToolInit
    <2> QED
      BY <2>1, <2>2, <2>3, <2>4, <2>5 DEF ToolTypeOK
  <1>3. TodoInBatch
    BY DEF ToolInit, TodoInBatch
  <1> QED
    BY <1>1, <1>2, <1>3 DEF ToolTypes

LEMMA ToolTypesStep ==
  ASSUME ToolTypes, [Meanwhile \/ Tool]_allVars
  PROVE  ToolTypes'
  <1> USE NothingType
  <1>1. UNCHANGED vars => TypeOK'
    BY DEF ToolTypes, TypeOK, vars, chainVars, tables, loopVars, history
  <1>2. BatchHeights \subseteq Heights /\ \A h \in BatchHeights : h <= toHeight
    <2>1. batchFrom \in Nat /\ toHeight \in Heights /\ BatchSize \in Nat /\ MaxHeight \in Nat
      BY BoundsAssumption DEF ToolTypes, ToolTypeOK
    <2>2. BatchEnd(batchFrom, toHeight) \in Int /\ BatchEnd(batchFrom, toHeight) <= toHeight
      BY <2>1, ConstantTypes DEF BatchEnd
    <2> QED
      BY <2>1, <2>2 DEF BatchHeights, Heights
  <1>3. ASSUME NEW c \in Commands, NEW lo \in Heights, NEW flagTo \in Heights, NEW dry \in BOOLEAN,
               StartTool(c, lo, flagTo, dry)
        PROVE  ToolTypes'
    <2>1. c \in AllCommands /\ lo \in Nat
      BY ToolsAssumption, ConstantTypes
    <2>2. toHeight' \in Heights /\ (toMax' \in BOOLEAN) /\ (quiet' \in BOOLEAN)
      BY <1>3 DEF StartTool
    <2>3. runs' \in 0 .. MaxRuns
      BY <1>3, ToolsAssumption DEF StartTool, ToolTypes, ToolTypeOK
    <2>4. seen' \in SUBSET Heights
      BY <1>3 DEF StartTool, Stored
    <2>5. ToolTypeOK'
      BY <1>3, <2>1, <2>2, <2>3, <2>4 DEF StartTool, reads, ToolTypes, ToolTypeOK
    <2>6. TodoInBatch'
      BY <1>3 DEF StartTool, TodoInBatch
    <2> QED
      BY <1>1, <1>3, <2>5, <2>6 DEF ToolTypes, StartTool
  <1>4. CASE FirstRead
    <2>1. todo' \subseteq BatchHeights /\ todo' \in SUBSET Heights
      BY <1>2, <1>4
         DEF FirstRead, BlocksInHeightRange, HashesForHeightRange, FetchBlocks, FetchDifficulties
    <2>2. fresh' \in [Heights -> MaybeFork]
      <3>1. chain \in [Heights -> MaybeFork] /\ \A h \in Heights : blocks[h].fork \in MaybeFork
        BY ConstantTypes DEF ToolTypes, TypeOK, Columns
      <3> QED
        BY <1>4, <3>1, ConstantTypes
           DEF FirstRead, BlocksInHeightRange, HashesForHeightRange, FetchBlocks, FetchDifficulties
    <2>3. old' \in [Heights -> MaybeFork]
      <3>1. cmd = "reattribute" => \A h \in Heights : Current(h) \in MaybeFork
        BY DEF ToolTypes, TypeOK, Columns, Current, Column
      <3> QED
        BY <1>4, <3>1, ConstantTypes
           DEF FirstRead, BlocksInHeightRange, HashesForHeightRange, FetchBlocks, FetchDifficulties
    <2>4. quiet' \in BOOLEAN
      BY <1>4 DEF FirstRead, BlocksInHeightRange, HashesForHeightRange, FetchBlocks, FetchDifficulties
    <2>5. ToolTypeOK'
      BY <1>4, <2>1, <2>2, <2>3, <2>4 DEF FirstRead, locals, ToolTypes, ToolTypeOK
    <2>6. TodoInBatch'
      <3>2. BatchHeights' = BatchHeights /\ toHeight' = toHeight
        BY <1>4 DEF FirstRead, locals, BatchHeights, BatchEnd
      <3> QED
        BY <1>2, <2>1, <3>2 DEF TodoInBatch
    <2> QED
      BY <1>1, <1>4, <2>5, <2>6 DEF ToolTypes, FirstRead
  <1>5. CASE SecondRead
    <2>1. fresh' \in [Heights -> MaybeFork]
      BY <1>5, ConstantTypes DEF SecondRead, CoinbaseExtraForHeightRange, ValuesForHeightRange, ToolTypes,
                                 TypeOK, ToolTypeOK
    <2>2. \A h \in Heights : Current(h) \in MaybeFork
      BY DEF ToolTypes, TypeOK, ToolTypeOK, AllCommands, Columns, Current, Column
    <2>3. old' \in [Heights -> MaybeFork]
      BY <1>5, <2>2, ConstantTypes
         DEF SecondRead, CoinbaseExtraForHeightRange, ValuesForHeightRange, ToolTypes, ToolTypeOK
    <2>4. ToolTypeOK'
      BY <1>5, <2>1, <2>3 DEF SecondRead, locals, ToolTypes, ToolTypeOK
    <2>5. TodoInBatch'
      BY <1>5 DEF SecondRead, locals, BatchHeights, BatchEnd, ToolTypes, TodoInBatch
    <2> QED
      BY <1>1, <1>5, <2>4, <2>5 DEF ToolTypes, SecondRead
  <1>6. ASSUME NEW h \in todo, AskHeader(h) \/ UpdateRow(h) \/ SkipRow(h) PROVE ToolTypes'
    <2>1. /\ todo' \subseteq todo /\ (quiet' = quiet \/ quiet' = FALSE)
          /\ tpc \in {"rows", "update"} /\ tpc' \in {"rows", "update"}
          /\ UNCHANGED <<locals, fresh, old, runs>>
      BY <1>6 DEF AskHeader, UpdateRow, SkipRow, reads
    <2>2. ToolTypeOK'
      BY <2>1 DEF locals, ToolTypes, ToolTypeOK
    <2>3. TodoInBatch'
      BY <2>1 DEF locals, BatchHeights, BatchEnd, ToolTypes, TodoInBatch
    <2>4. TypeOK'
      BY <1>1, <1>6, UpdatedRow DEF AskHeader, SkipRow
    <2> QED
      BY <2>2, <2>3, <2>4 DEF ToolTypes
  <1>7. CASE NextBatch \/ Die
    <2>1. CASE Exit
      BY <1>7, <2>1, ExitTypes DEF NextBatch, Die
    <2>2. CASE ~Exit
      <3>1. /\ batchFrom' = batchFrom + BatchSize /\ tpc' = "first"
            /\ todo' = {} /\ fresh' = Nothing /\ old' = Nothing /\ quiet' = FALSE
            /\ UNCHANGED <<cmd, dryRun, toHeight, toMax, seen, vars, runs>>
        BY <1>7, <2>2 DEF NextBatch, Die
      <3>2. batchFrom' \in Nat
        BY <3>1, BoundsAssumption DEF ToolTypes, ToolTypeOK
      <3>3. ToolTypeOK'
        BY <3>1, <3>2 DEF ToolTypes, ToolTypeOK
      <3> QED
        BY <1>1, <3>1, <3>3 DEF ToolTypes, TodoInBatch
    <2> QED
      BY <2>1, <2>2
  <1>8. CASE Meanwhile
    <2>1. TypeOK'
      BY <1>8, TypeStep DEF Meanwhile, ToolTypes
    <2>2. ToolTypeOK' /\ TodoInBatch'
      BY <1>8 DEF Meanwhile, locals, reads, ToolTypes, ToolTypeOK, TodoInBatch, BatchHeights, BatchEnd
    <2> QED
      BY <2>1, <2>2 DEF ToolTypes
  <1>9. CASE UNCHANGED allVars
    <2>1. ToolTypeOK' /\ TodoInBatch'
      BY <1>9 DEF allVars, toolVars, locals, reads, ToolTypes, ToolTypeOK, TodoInBatch, BatchHeights, BatchEnd
    <2> QED
      BY <1>1, <1>9, <2>1 DEF allVars, ToolTypes
  <1> QED
    BY <1>3, <1>4, <1>5, <1>6, <1>7, <1>8, <1>9 DEF Tool

LEMMA ToolTypesHold == ToolSpec => []ToolTypes
  BY ToolTypesInit, ToolTypesStep, PTL DEF ToolSpec

\* Type correctness of the column tools beside any number of indexers.
THEOREM ToolTypeCorrect == ToolSpec => []ToolTypeOK
  <1>1. ToolTypes => ToolTypeOK
    BY DEF ToolTypes
  <1> QED
    BY <1>1, ToolTypesHold, PTL

-----------------------------------------------------------------------------
\* A tool's steps store no height and touch nothing of the indexer's.
LEMMA ToolStores ==
  ASSUME ToolTypes, Tool
  PROVE  /\ UNCHANGED <<chainVars, kernels, outputs, pc, loopVars, batch, row, history>>
         /\ Stored' = Stored
  <1>1. CASE UNCHANGED vars
    BY <1>1 DEF vars, tables, Stored
  <1>2. ASSUME NEW h \in todo, UpdateRow(h)
        PROVE  /\ UNCHANGED <<chainVars, kernels, outputs, pc, loopVars, batch, row, history>>
               /\ Stored' = Stored
    <2>1. \A k \in Heights : blocks'[k].fork = blocks[k].fork
      BY <1>2, UpdatedRow
    <2> QED
      BY <1>2, <2>1 DEF UpdateRow, Stored
  <1> QED
    BY <1>1, <1>2, ToolMoves

\* What a batch that nothing disturbs has brought about so far.
QuietInv ==
  /\ tpc = "second" =>
       /\ \A h \in Heights : fresh[h] # Absent => h \in todo
       /\ quiet /\ cmd = "reattribute" => \A h \in todo : old[h] = Current(h)
  /\ tpc \in {"rows", "update"} /\ quiet /\ ~dryRun =>
       \A h \in Stored : fresh[h] # Absent =>
         IF h \in todo THEN old[h] = Current(h) ELSE Current(h) = fresh[h]

LEMMA QuietFirst ==
  ASSUME ToolTypes, FirstRead
  PROVE  QuietInv'
  <1>1. tpc' = "second" /\ UNCHANGED <<blocks, cmd>>
    BY DEF FirstRead, locals, vars, tables
  <1>2. ASSUME NEW h \in Heights, fresh'[h] # Absent PROVE h \in todo'
    BY <1>2 DEF FirstRead, BlocksInHeightRange, HashesForHeightRange, FetchBlocks, FetchDifficulties, Nothing
  <1>3. ASSUME cmd = "reattribute", NEW h \in todo' PROVE old'[h] = Current(h)
    <2>1. BlocksInHeightRange
      BY <1>3 DEF FirstRead, HashesForHeightRange, FetchBlocks, FetchDifficulties
    <2>2. h \in Heights
      BY <1>3, <2>1 DEF BlocksInHeightRange, Stored
    <2> QED
      BY <1>3, <2>1, <2>2 DEF BlocksInHeightRange
  <1> QED
    BY <1>1, <1>2, <1>3 DEF QuietInv, Current

LEMMA QuietSecond ==
  ASSUME ToolTypes, QuietInv, SecondRead
  PROVE  QuietInv'
  <1>1. /\ tpc = "second" /\ tpc' = "rows" /\ Stored' = Stored
        /\ UNCHANGED <<blocks, cmd, todo, quiet>>
    BY DEF SecondRead, locals, vars, tables, Stored
  <1>2. ASSUME quiet, NEW h \in Stored, fresh'[h] # Absent PROVE h \in todo /\ old'[h] = Current(h)
    <2>1. h \in Heights
      BY DEF Stored
    <2>2. CASE CoinbaseExtraForHeightRange
      BY <1>1, <1>2, <2>1, <2>2 DEF CoinbaseExtraForHeightRange, QuietInv
    <2>3. CASE ValuesForHeightRange
      BY <1>1, <1>2, <2>1, <2>3 DEF ValuesForHeightRange, QuietInv
    <2> QED
      BY <2>2, <2>3 DEF SecondRead
  <1> QED
    BY <1>1, <1>2 DEF QuietInv, Current

LEMMA QuietUpdate ==
  ASSUME ToolTypes, QuietInv, NEW h \in todo, UpdateRow(h)
  PROVE  QuietInv'
  <1>1. /\ tpc \in {"rows", "update"} /\ tpc' = "rows" /\ todo' = todo \ {h}
        /\ UNCHANGED <<cmd, dryRun, fresh, old, quiet>>
    BY DEF UpdateRow, locals
  <1>2. Stored' = Stored
    <2>1. Tool
      BY DEF Tool
    <2> QED
      BY <2>1, ToolStores
  <1>3. ASSUME quiet, ~dryRun, NEW k \in Stored, fresh[k] # Absent
        PROVE  IF k \in todo' THEN old[k] = blocks'[k][Column[cmd]] ELSE blocks'[k][Column[cmd]] = fresh[k]
    <2>1. IF k \in todo THEN old[k] = Current(k) ELSE Current(k) = fresh[k]
      BY <1>1, <1>3 DEF QuietInv
    <2>2. CASE k # h
      <3>1. blocks'[k] = blocks[k]
        BY <2>2, UpdatedRow DEF Stored
      <3> QED
        BY <1>1, <2>1, <2>2, <3>1 DEF Current
    <2>3. CASE k = h
      <3>1. Changed(h) => blocks'[h][Column[cmd]] = fresh[h]
        BY <1>3, <2>3, UpdatedRow
      <3>2. ~Changed(h) => blocks' = blocks /\ fresh[h] = old[h]
        BY UpdatedRow DEF Changed
      <3> QED
        BY <1>1, <2>1, <2>3, <3>1, <3>2 DEF Current
    <2> QED
      BY <2>2, <2>3
  <1> QED
    BY <1>1, <1>2, <1>3 DEF QuietInv, Current

LEMMA QuietStep ==
  ASSUME ToolTypes, QuietInv, [Meanwhile \/ Tool]_allVars
  PROVE  QuietInv'
  <1>1. ASSUME NEW c \in Commands, NEW lo \in Heights, NEW flagTo \in Heights, NEW dry \in BOOLEAN,
               StartTool(c, lo, flagTo, dry)
        PROVE  QuietInv'
    BY <1>1 DEF StartTool, QuietInv
  <1>2. ASSUME NEW h \in todo, AskHeader(h) \/ SkipRow(h) PROVE QuietInv'
    BY <1>2 DEF AskHeader, SkipRow, locals, reads, vars, tables, QuietInv, Current, Stored
  <1>3. CASE NextBatch \/ Die
    BY <1>3 DEF NextBatch, Die, Exit, QuietInv
  <1>4. CASE Meanwhile
    BY <1>4 DEF Meanwhile, locals, reads, QuietInv
  <1>5. CASE UNCHANGED allVars
    BY <1>5 DEF allVars, toolVars, locals, reads, vars, tables, QuietInv, Current, Stored
  <1> QED
    BY <1>1, <1>2, <1>3, <1>4, <1>5, QuietFirst, QuietSecond, QuietUpdate DEF Tool

\* A batch that nothing interfered with leaves each of its rows with the value that
\* was found for it, whatever the command and the range: a rerun of it is a no-op.
THEOREM BatchIsBroughtUpToDateHolds == ToolSpec => BatchIsBroughtUpToDate
  <1>1. ToolInit => QuietInv
    BY DEF ToolInit, QuietInv
  <1>2. ToolTypes /\ QuietInv /\ [Meanwhile \/ Tool]_allVars => QuietInv'
    BY QuietStep
  <1>3. QuietInv => [NextBatch /\ quiet /\ ~dryRun =>
          \A h \in BatchHeights \cap Stored : fresh[h] # Absent => Current(h) = fresh[h]]_allVars
    BY DEF QuietInv, NextBatch
  <1> QED
    BY <1>1, <1>2, <1>3, ToolTypesHold, PTL DEF ToolSpec, BatchIsBroughtUpToDate

-----------------------------------------------------------------------------
(***************************************************************************)
(* Beside one follower, which stores ever higher heights (FollowInv).      *)
(***************************************************************************)
LEMMA FollowBesideTool ==
  ASSUME OneFollower, ToolTypes, FollowInv, [Meanwhile \/ Tool]_allVars
  PROVE  FollowInv'
  <1>1. CASE Meanwhile
    BY <1>1, FollowStep DEF Meanwhile, ToolTypes
  <1>2. CASE Tool
    BY <1>2, ToolStores, FollowerAlone DEF loopVars
  <1>3. CASE UNCHANGED allVars
    BY <1>3, FollowStep DEF allVars, ToolTypes
  <1> QED
    BY <1>1, <1>2, <1>3

LEMMA CoverBesideTool ==
  ASSUME ToolTypes, CoverInv, [Meanwhile \/ Tool]_allVars
  PROVE  CoverInv'
  <1>1. CASE Meanwhile \/ UNCHANGED allVars
    BY <1>1, CoverInvStep DEF Meanwhile, allVars, ToolTypes
  <1>2. CASE Tool
    BY <1>2, ToolStores
       DEF loopVars, history, CoverInv, EarlierBatchesCovered, BatchCoveredOrPending, RowsAreBlocks,
           Covered, Pending, BatchEnd
  <1> QED
    BY <1>1, <1>2

\* A run up to the highest row: what is stored up to there was there at its start.
SeenInv ==
  toMax => /\ toHeight = 0 \/ toHeight \in Stored
           /\ \A s \in Stored \ {0} : s <= toHeight => s \in seen

\* The indexer's own steps: a new row comes above all the others.
LEMMA SeenMeanwhile ==
  ASSUME OneFollower, ToolTypes, CoverInv, FollowInv, SeenInv, Meanwhile
  PROVE  SeenInv'
  <1>1. UNCHANGED <<toHeight, toMax, seen>>
    BY DEF Meanwhile, locals
  <1>2. toHeight \in Nat /\ \A s \in Stored : s \in Nat
    BY ConstantTypes DEF ToolTypes, ToolTypeOK, Stored
  <1>3. Stored \subseteq Stored'
    BY StoredStays DEF Meanwhile, ToolTypes, CoverInv
  <1>4. ASSUME toMax, NEW s \in Stored' \ {0}, s <= toHeight PROVE s \in seen
    <2>1. CASE s \in Stored
      BY <1>4, <2>1 DEF SeenInv
    <2>2. CASE s \notin Stored
      <3>1. PICK p \in Procs : WriteRow(p)
        <4>1. blocks' # blocks
          BY <1>4, <2>2 DEF Stored
        <4> QED
          BY <4>1, OnlyWriteRowStores DEF Meanwhile
      <3>2. s = row[p].height
        BY <1>4, <2>2, <3>1 DEF WriteRow, UpsertBlock, Stored, ToolTypes, TypeOK
      <3>3. \A k \in Stored \ {0} : k < s
        BY <3>1, <3>2 DEF WriteRow, FollowInv, WritesAscend
      <3>4. s \in Nat /\ s # 0
        BY <3>2, ConstantTypes DEF ToolTypes, TypeOK
      <3>5. toHeight # 0 /\ toHeight \in Stored
        BY <1>2, <1>4, <3>4 DEF SeenInv
      <3> QED
        BY <1>2, <1>4, <3>3, <3>4, <3>5
    <2> QED
      BY <2>1, <2>2
  <1> QED
    BY <1>1, <1>3, <1>4 DEF SeenInv

LEMMA SeenStep ==
  ASSUME OneFollower, ToolTypes, CoverInv, FollowInv, SeenInv, [Meanwhile \/ Tool]_allVars
  PROVE  SeenInv'
  <1>1. ASSUME NEW c \in Commands, NEW lo \in Heights, NEW flagTo \in Heights, NEW dry \in BOOLEAN,
               StartTool(c, lo, flagTo, dry)
        PROVE  SeenInv'
    BY <1>1 DEF StartTool, IsMaxIndexedHeight, SeenInv, vars, tables, Stored
  <1>2. CASE Tool /\ UNCHANGED <<toHeight, toMax, seen>>
    BY <1>2, ToolStores DEF SeenInv
  <1>3. CASE Exit
    BY <1>3 DEF Exit, SeenInv
  <1>4. CASE UNCHANGED allVars
    BY <1>4 DEF allVars, toolVars, locals, vars, tables, SeenInv, Stored
  <1>5. Tool => \/ \E c \in Commands, lo, flagTo \in Heights, dry \in BOOLEAN : StartTool(c, lo, flagTo, dry)
                \/ UNCHANGED <<toHeight, toMax, seen>>
                \/ Exit
    BY DEF Tool, FirstRead, SecondRead, AskHeader, UpdateRow, SkipRow, NextBatch, Die, locals
  <1> QED
    BY <1>1, <1>2, <1>3, <1>4, <1>5, SeenMeanwhile

\* A run up to the highest row changes no row that is inserted during the run.
THEOREM NewRowsAreLeftAloneHolds ==
  ASSUME OneFollower PROVE ToolSpec => NewRowsAreLeftAlone
  <1>1. Init /\ ToolInit => CoverInv /\ FollowInv /\ SeenInv
    BY CoverInit, FollowInit DEF ToolInit, SeenInv
  <1>2. ToolTypes /\ CoverInv /\ FollowInv /\ SeenInv /\ [Meanwhile \/ Tool]_allVars
          => CoverInv' /\ FollowInv' /\ SeenInv'
    BY CoverBesideTool, FollowBesideTool, SeenStep
  <1>3. ToolTypes /\ SeenInv =>
          [\A h \in todo \ {0} : UpdateRow(h) /\ blocks' # blocks /\ toMax => h \in seen]_allVars
    <2> SUFFICES ASSUME ToolTypes, SeenInv, NEW h \in todo \ {0}, UpdateRow(h), blocks' # blocks, toMax
                 PROVE  h \in seen
      OBVIOUS
    <2>1. h \in Stored
      BY UpdatedRow
    <2>2. h <= toHeight
      BY DEF ToolTypes, TodoInBatch, UpdateRow
    <2> QED
      BY <2>1, <2>2 DEF SeenInv
  <1> QED
    BY <1>1, <1>2, <1>3, ToolTypesHold, PTL DEF ToolSpec, NewRowsAreLeftAlone

-----------------------------------------------------------------------------
\* Genesis is the same block on every fork.
GenesisInv ==
  /\ 0 \in Heights => chain[0] = 0
  /\ \A p \in Procs :
       /\ \A b \in batch[p] : b.height = 0 => b.fork = 0
       /\ pc[p] \in {"header", "upsert"} /\ row[p].height = 0 => row[p].cols.fork = 0
  /\ blocks[0].fork \in {Absent, 0}

\* Both writers of the column look the difficulty up by the hash of their block,
\* and a block whose height a tool has read is not replaced by another one.
OwnInv ==
  /\ AchievedIsTheBlocksOwn
  /\ \A p \in Procs : pc[p] = "upsert" => row[p].cols.achieved \in {Absent, row[p].cols.fork}
  /\ cmd = "achieved" /\ tpc \in {"second", "rows", "update"} =>
       todo \subseteq Stored /\ \A h \in todo : fresh[h] = blocks[h].fork

\* A lookup by hash answers with the difficulty of that very block, or not at all.
LEMMA LookedUpRow ==
  ASSUME TypeOK, NEW p \in Procs, LookUpHeader(p)
  PROVE  /\ pc[p] = "header"
         /\ row'[p].height = row[p].height
         /\ row'[p].cols.fork = row[p].cols.fork
         /\ row'[p].cols.achieved \in {Absent, row[p].cols.fork}
  <1>1. PICK a \in HostAchieved(row[p].height, row[p].cols.fork) :
               row' = [row EXCEPT ![p].cols.achieved = a]
    BY DEF LookUpHeader
  <1>2. row'[p] = [row[p] EXCEPT !.cols = [row[p].cols EXCEPT !.achieved = a]]
    BY <1>1 DEF TypeOK
  <1>3. row[p].cols \in Columns /\ row[p] \in [height : Heights, cols : Columns]
    BY DEF TypeOK
  <1>4. a \in {Absent, row[p].cols.fork}
    BY DEF HostAchieved
  <1> QED
    BY <1>2, <1>3, <1>4 DEF LookUpHeader, Columns

LEMMA GenesisStep ==
  ASSUME ToolTypes, GenesisInv, [Next]_vars
  PROVE  GenesisInv'
  <1> USE NothingType
  <1>1. chain'[0] = 0
    <2>1. CASE chain' = chain
      BY <2>1, ConstantTypes DEF GenesisInv
    <2>2. ASSUME NEW k \in Heights, NEW t \in Heights, Reorg(k, t) PROVE chain'[0] = 0
      BY <2>2, ConstantTypes DEF GenesisInv, Reorg
    <2> QED
      BY <2>1, <2>2, OnlyReorgMovesTheChain
  <1>2. ASSUME NEW p \in Procs, NEW b \in batch'[p], b.height = 0 PROVE b.fork = 0
    <2>1. CASE b \in batch[p]
      BY <1>2, <2>1 DEF GenesisInv
    <2>2. CASE b \notin batch[p]
      <3>1. Fetch(p)
        BY <1>2, <2>2, NewBlocksAreFetched DEF ToolTypes
      <3>2. PICK t \in HostTips : batch'[p] = HostBlocks(start[p], BatchEnd(start[p], to[p]), t)
        BY <3>1 DEF Fetch, ToolTypes, TypeOK
      <3> QED
        BY <1>2, <3>2 DEF HostBlocks, GenesisInv
    <2> QED
      BY <2>1, <2>2
  <1>3. ASSUME NEW p \in Procs, pc'[p] \in {"header", "upsert"}, row'[p].height = 0
        PROVE  row'[p].cols.fork = 0
    <2>1. CASE row'[p] = row[p] /\ pc[p] \in {"header", "upsert"}
      BY <1>3, <2>1 DEF GenesisInv
    <2>2. CASE pc'[p] = "header" /\ ~(row'[p] = row[p] /\ pc[p] = "header")
      <3>1. PICK b \in batch[p] : IndexBlock(p, b)
        BY <2>2, NewRowIsIndexed DEF ToolTypes
      <3>2. row'[p].height = b.height /\ row'[p].cols.fork = b.fork
        BY <3>1 DEF IndexBlock, ToolTypes, TypeOK
      <3> QED
        BY <1>3, <3>2 DEF GenesisInv
    <2>3. CASE pc'[p] = "upsert" /\ ~(row'[p] = row[p] /\ pc[p] = "upsert")
      <3>1. pc[p] = "header" /\ row'[p].height = row[p].height /\ row'[p].cols.fork = row[p].cols.fork
        BY <2>3, WrittenRowIsLookedUp, LookedUpRow DEF ToolTypes
      <3> QED
        BY <1>3, <3>1 DEF GenesisInv
    <2> QED
      BY <1>3, <2>1, <2>2, <2>3
  <1>4. blocks'[0].fork \in {Absent, 0}
    <2>1. CASE UNCHANGED blocks
      BY <2>1 DEF GenesisInv
    <2>2. CASE ~UNCHANGED blocks
      <3>1. PICK p \in Procs : WriteRow(p)
        BY <2>2, OnlyWriteRowStores
      <3>2. blocks' = [blocks EXCEPT ![row[p].height] = row[p].cols] /\ pc[p] = "upsert"
        BY <3>1 DEF WriteRow, UpsertBlock
      <3> QED
        BY <3>2 DEF GenesisInv, ToolTypes, TypeOK
    <2> QED
      BY <2>1, <2>2
  <1> QED
    BY <1>1, <1>2, <1>3, <1>4 DEF GenesisInv

LEMMA GenesisBesideTool ==
  ASSUME ToolTypes, GenesisInv, [Meanwhile \/ Tool]_allVars
  PROVE  GenesisInv'
  <1>1. CASE Meanwhile \/ UNCHANGED allVars
    BY <1>1, GenesisStep DEF Meanwhile, allVars
  <1>2. CASE Tool
    <2>1. UNCHANGED <<chainVars, kernels, outputs, pc, loopVars, batch, row, history>>
      BY <1>2, ToolStores
    <2>2. blocks'[0].fork = blocks[0].fork
      <3>1. CASE UNCHANGED vars
        BY <3>1 DEF vars, tables
      <3>2. ASSUME NEW h \in todo, UpdateRow(h) PROVE blocks'[0].fork = blocks[0].fork
        BY <3>2, UpdatedRow, NothingType
      <3> QED
        BY <1>2, <3>1, <3>2, ToolMoves
    <2> QED
      BY <2>1, <2>2 DEF chainVars, GenesisInv
  <1> QED
    BY <1>1, <1>2

\* The follower's steps.
LEMMA OwnMeanwhile ==
  ASSUME OneFollower, ToolTypes, FollowInv, GenesisInv, OwnInv, Meanwhile
  PROVE  OwnInv'
  <1> USE NothingType
  <1>1. UNCHANGED <<tpc, cmd, todo, fresh>>
    BY DEF Meanwhile, locals, reads
  <1>2. ASSUME NEW p \in Procs, pc'[p] = "upsert"
        PROVE  row'[p].cols.achieved \in {Absent, row'[p].cols.fork}
    <2>1. CASE row'[p] = row[p] /\ pc[p] = "upsert"
      BY <1>2, <2>1 DEF OwnInv
    <2>2. CASE ~(row'[p] = row[p] /\ pc[p] = "upsert")
      <3>1. LookUpHeader(p)
        BY <1>2, <2>2, WrittenRowIsLookedUp DEF Meanwhile, ToolTypes
      <3> QED
        BY <3>1, LookedUpRow DEF ToolTypes
    <2> QED
      BY <2>1, <2>2
  <1>3. CASE UNCHANGED blocks
    BY <1>1, <1>2, <1>3 DEF OwnInv, AchievedIsTheBlocksOwn, Stored
  <1>4. CASE ~UNCHANGED blocks
    <2>1. PICK p \in Procs : WriteRow(p)
      BY <1>4, OnlyWriteRowStores DEF Meanwhile
    <2>2. blocks' = [blocks EXCEPT ![row[p].height] = row[p].cols] /\ pc[p] = "upsert"
      BY <2>1 DEF WriteRow, UpsertBlock
    <2>3. row[p].height \in Heights /\ row[p].height \in Nat
      BY ConstantTypes DEF ToolTypes, TypeOK
    <2>4. AchievedIsTheBlocksOwn'
      BY <2>2, <2>3 DEF OwnInv, AchievedIsTheBlocksOwn, ToolTypes, TypeOK
    <2>5. ASSUME NEW h \in Stored PROVE h \in Stored' /\ blocks'[h].fork = blocks[h].fork
      <3>1. CASE h # row[p].height
        BY <2>2, <2>3, <3>1 DEF Stored, ToolTypes, TypeOK
      <3>2. CASE h = row[p].height
        <4>1. h = 0
          BY <2>2, <2>3, <3>2 DEF FollowInv, WritesAscend
        <4>2. row[p].cols.fork = 0 /\ blocks[0].fork = 0
          BY <2>2, <3>2, <4>1 DEF GenesisInv, Stored
        <4> QED
          BY <2>2, <2>3, <3>2, <4>1, <4>2 DEF Stored, ToolTypes, TypeOK
      <3> QED
        BY <3>1, <3>2
    <2> QED
      BY <1>1, <1>2, <2>4, <2>5 DEF OwnInv
  <1> QED
    BY <1>3, <1>4

LEMMA OwnFirst ==
  ASSUME ToolTypes, FirstRead, cmd = "achieved"
  PROVE  todo' \subseteq Stored /\ \A h \in todo' : fresh'[h] = blocks[h].fork
  <1>1. HashesForHeightRange
    BY DEF FirstRead, BlocksInHeightRange, FetchBlocks, FetchDifficulties
  <1> QED
    BY <1>1 DEF HashesForHeightRange, Stored

LEMMA OwnUpdate ==
  ASSUME ToolTypes, OwnInv, NEW h \in todo, UpdateRow(h)
  PROVE  AchievedIsTheBlocksOwn'
  <1>1. CASE cmd = "achieved"
    <2>1. fresh[h] = blocks[h].fork /\ h \in Heights
      BY <1>1 DEF UpdateRow, OwnInv, Stored
    <2>2. blocks' = blocks \/ (blocks'[h].achieved = blocks[h].fork /\ blocks'[h].fork = blocks[h].fork)
      <3>1. Column[cmd] = "achieved"
        BY <1>1 DEF Column
      <3> QED
        BY <2>1, <3>1, UpdatedRow
    <2> QED
      BY <2>1, <2>2, UpdatedRow DEF OwnInv, AchievedIsTheBlocksOwn
  <1>2. CASE cmd # "achieved"
    BY <1>2, UpdatedRow DEF OwnInv, AchievedIsTheBlocksOwn
  <1> QED
    BY <1>1, <1>2

\* The tool's steps.
LEMMA OwnTool ==
  ASSUME ToolTypes, OwnInv, Tool
  PROVE  OwnInv'
  <1>1. UNCHANGED <<pc, row>> /\ Stored' = Stored
    BY ToolStores
  <1>2. AchievedIsTheBlocksOwn'
    <2>1. CASE UNCHANGED vars
      BY <2>1 DEF vars, tables, OwnInv, AchievedIsTheBlocksOwn
    <2> QED
      BY <2>1, OwnUpdate, ToolMoves
  <1>3. ASSUME cmd' = "achieved", tpc' \in {"second", "rows", "update"}
        PROVE  todo' \subseteq Stored /\ \A h \in todo' : fresh'[h] = blocks'[h].fork
    <2>1. CASE FirstRead
      <3>1. cmd = "achieved" /\ blocks' = blocks
        BY <1>3, <2>1 DEF FirstRead, locals, vars, tables
      <3> QED
        BY <2>1, <3>1, OwnFirst
    <2>2. CASE SecondRead
      <3>1. cmd = "achieved" /\ tpc = "second" /\ UNCHANGED <<blocks, todo>> /\ fresh' = fresh
        BY <1>3, <2>2 DEF SecondRead, CoinbaseExtraForHeightRange, ValuesForHeightRange, locals, vars, tables
      <3> QED
        BY <3>1 DEF OwnInv
    <2>3. ASSUME NEW h \in todo, AskHeader(h) \/ UpdateRow(h) \/ SkipRow(h)
          PROVE  todo' \subseteq Stored /\ \A k \in todo' : fresh'[k] = blocks'[k].fork
      <3>1. cmd = "achieved" /\ tpc \in {"rows", "update"} /\ todo' \subseteq todo /\ fresh' = fresh
        BY <1>3, <2>3 DEF AskHeader, UpdateRow, SkipRow, locals, reads
      <3>2. \A k \in Heights : blocks'[k].fork = blocks[k].fork
        BY <2>3, UpdatedRow DEF AskHeader, SkipRow, vars, tables
      <3> QED
        BY <3>1, <3>2 DEF OwnInv, Stored
    <2>4. \/ tpc' \notin {"second", "rows", "update"} \/ FirstRead \/ SecondRead
          \/ \E h \in todo : AskHeader(h) \/ UpdateRow(h) \/ SkipRow(h)
      BY DEF Tool, StartTool, NextBatch, Die, Exit
    <2> QED
      BY <1>3, <2>1, <2>2, <2>3, <2>4
  <1> QED
    BY <1>1, <1>2, <1>3 DEF OwnInv

\* A stored achieved difficulty is always the stored block's own, for every chain and
\* however often it is reorganised.
THEOREM AchievedIsTheBlocksOwnHolds ==
  ASSUME OneFollower PROVE ToolSpec => []AchievedIsTheBlocksOwn
  <1>1. Init /\ ToolInit => FollowInv /\ GenesisInv /\ OwnInv
    <2> SUFFICES ASSUME Init, ToolInit PROVE GenesisInv /\ OwnInv
      BY FollowInit
    <2>1. GenesisInv
      BY NothingType DEF Init, GenesisInv, NoRow
    <2>2. OwnInv
      BY DEF Init, ToolInit, OwnInv, AchievedIsTheBlocksOwn, NoRow
    <2> QED
      BY <2>1, <2>2
  <1>2. ToolTypes /\ FollowInv /\ GenesisInv /\ OwnInv /\ [Meanwhile \/ Tool]_allVars
          => FollowInv' /\ GenesisInv' /\ OwnInv'
    <2> SUFFICES ASSUME ToolTypes, FollowInv, GenesisInv, OwnInv, [Meanwhile \/ Tool]_allVars
                 PROVE  OwnInv'
      BY FollowBesideTool, GenesisBesideTool
    <2>1. CASE UNCHANGED allVars
      BY <2>1 DEF allVars, toolVars, locals, reads, vars, tables, OwnInv, AchievedIsTheBlocksOwn, Stored
    <2> QED
      BY <2>1, OwnMeanwhile, OwnTool
  <1>3. OwnInv => AchievedIsTheBlocksOwn
    BY DEF OwnInv
  <1> QED
    BY <1>1, <1>2, <1>3, ToolTypesHold, PTL DEF ToolSpec
=============================================================================
