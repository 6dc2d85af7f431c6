---------------------------- MODULE IndexerProofs ----------------------------
(* Proofs about Indexer, for every chain, batch size and set of processes.   *)
EXTENDS Indexer, TLAPS

LocalType ==   \* TypeOK of the variables that GoIdle and EnterBackfill assign
  /\ pc \in [Procs -> {"idle", "max", "fetch", "block", "header", "upsert", "kernels", "outputs"}]
  /\ best \in [Procs -> Heights]
  /\ from \in [Procs -> Heights]
  /\ to \in [Procs -> Heights]
  /\ start \in [Procs -> Nat]

(* The constants are members of the sets that the variables range over. *)
LEMMA ConstantTypes ==
  /\ 0 \in Heights /\ Heights \subseteq Nat
  /\ 0 \in Forks /\ Forks \subseteq Nat
  /\ MaybeFork = Forks \cup {Absent} /\ Absent \notin Forks
  /\ NoRow \in Columns
  /\ Unset \in [height : Heights, cols : Columns]
<1>1. 0 \in Heights /\ Heights \subseteq Nat
  BY BoundsAssumption DEF Heights
<1>2. 0 \in Forks /\ Forks \subseteq Nat
  BY BoundsAssumption DEF Forks
<1>3. MaybeFork = Forks \cup {Absent} /\ Absent \notin Forks
  BY <1>2 DEF MaybeFork, Absent
<1>4. NoRow \in Columns
  BY <1>3 DEF NoRow, Columns
<1>5. Unset \in [height : Heights, cols : Columns]
  BY <1>1, <1>4 DEF Unset
<1> QED BY <1>1, <1>2, <1>3, <1>4, <1>5

(* Ending a Backfill or a poll leaves the local variables in their types. *)
LEMMA GoIdleType ==
  ASSUME LocalType, NEW p, GoIdle(p) PROVE LocalType'
<1>1. pc' \in [Procs -> {"idle", "max", "fetch", "block", "header", "upsert", "kernels", "outputs"}]
  BY DEF LocalType, GoIdle, Goto
<1>2. /\ best' \in [Procs -> Heights]
      /\ from' \in [Procs -> Heights]
      /\ to' \in [Procs -> Heights]
  BY ConstantTypes DEF LocalType, GoIdle
<1>3. start' \in [Procs -> Nat]
  BY DEF LocalType, GoIdle
<1> QED BY <1>1, <1>2, <1>3 DEF LocalType

(* So does entering Backfill with heights as its arguments. *)
LEMMA EnterBackfillType ==
  ASSUME LocalType, NEW p, NEW lo \in Heights, NEW hi \in Heights,
         EnterBackfill(p, lo, hi), Goto(p, "fetch"), UNCHANGED best
  PROVE  LocalType'
<1>1. pc' \in [Procs -> {"idle", "max", "fetch", "block", "header", "upsert", "kernels", "outputs"}]
  BY DEF LocalType, Goto
<1>2. from' \in [Procs -> Heights] /\ to' \in [Procs -> Heights]
  BY DEF LocalType, EnterBackfill
<1>3. start' \in [Procs -> Nat]
  BY ConstantTypes DEF LocalType, EnterBackfill
<1> QED BY <1>1, <1>2, <1>3 DEF LocalType

(* The variables have their types initially, and every step keeps them.      *)
LEMMA TypeInit == Init => TypeOK
<1> SUFFICES ASSUME Init PROVE TypeOK
  OBVIOUS
<1>1. chain \in [Heights -> Forks] /\ tip \in Heights /\ forks \in Forks /\ calm \in BOOLEAN
  BY ConstantTypes DEF Init
<1>2. /\ blocks \in [Heights -> Columns]
      /\ kernels \in [Heights -> MaybeFork]
      /\ outputs \in [Heights -> MaybeFork]
  BY ConstantTypes DEF Init
<1>3. LocalType
  BY ConstantTypes DEF Init, LocalType
<1>4. /\ batch \in [Procs -> SUBSET Block]
      /\ row \in [Procs -> [height : Heights, cols : Columns]]
      /\ skipped \in SUBSET Heights /\ torn \in SUBSET Heights
  BY ConstantTypes DEF Init
<1> QED BY <1>1, <1>2, <1>3, <1>4 DEF TypeOK, LocalType

LEMMA TypeStep == TypeOK /\ [Next]_vars => TypeOK'
<1> SUFFICES ASSUME TypeOK, [Next]_vars PROVE TypeOK'
  OBVIOUS
<1> USE ConstantTypes DEF TypeOK
<1>0. LocalType
  BY DEF LocalType
<1>1. CASE Mine
  <2>1. tip' \in Heights
    BY <1>1, BoundsAssumption DEF Mine, Heights
  <2> QED BY <1>1, <2>1 DEF Mine, tables, loopVars, history
<1>2. CASE Settle
  BY <1>2 DEF Settle, tables, loopVars, history
<1>3. ASSUME NEW k \in Heights, NEW t \in Heights, Reorg(k, t) PROVE TypeOK'
  <2>1. forks' \in Forks /\ forks + 1 \in Forks
    BY <1>3, BoundsAssumption DEF Reorg, Forks
  <2>2. chain' \in [Heights -> Forks]
    BY <1>3, <2>1 DEF Reorg
  <2> QED BY <1>3, <2>1, <2>2 DEF Reorg, tables, loopVars, history
<1>4. HostTips \subseteq Heights
  BY BoundsAssumption DEF HostTips, Heights
<1>5. ASSUME NEW p \in Procs, PollTip(p) PROVE TypeOK'
  <2>1. best' \in [Procs -> Heights]
    BY <1>4, <1>5 DEF PollTip
  <2> QED BY <1>5, <2>1 DEF PollTip, Goto, chainVars, tables, history
<1>6. ASSUME NEW p \in Procs, ReadMax(p) PROVE TypeOK'
  <2>1. PICK last \in Heights :
          \/ /\ ResumeAt(last, best[p]) <= best[p]
             /\ EnterBackfill(p, ResumeAt(last, best[p]), best[p])
             /\ Goto(p, "fetch")
             /\ UNCHANGED best
          \/ GoIdle(p)
    BY <1>6 DEF ReadMax
  <2>2. ResumeAt(last, best[p]) <= best[p] => ResumeAt(last, best[p]) \in Heights
    BY BoundsAssumption DEF ResumeAt, Heights
  <2>3. LocalType'
    BY <1>0, <2>1, <2>2, GoIdleType, EnterBackfillType
  <2> QED BY <1>6, <2>3 DEF ReadMax, LocalType, chainVars, tables, history
<1>7. ASSUME NEW p \in Backfillers, NEW lo \in Heights, NEW flagTo \in Heights,
             StartBackfill(p, lo, flagTo)
      PROVE TypeOK'
  <2>1. PICK hi \in Heights : EnterBackfill(p, lo, hi)
    BY <1>4, <1>7 DEF StartBackfill
  <2>2. LocalType'
    BY <1>0, <1>7, <2>1, EnterBackfillType DEF StartBackfill
  <2> QED BY <1>7, <2>2 DEF StartBackfill, LocalType, chainVars, tables, history
<1>8. ASSUME NEW p \in Procs, Fetch(p) PROVE TypeOK'
  <2>1. \A lo, hi, t : HostBlocks(lo, hi, t) \subseteq Block
    BY DEF HostBlocks, Block
  <2>2. PICK t \in HostTips :
          /\ batch' = [batch EXCEPT ![p] = HostBlocks(start[p], BatchEnd(start[p], to[p]), t)]
          /\ skipped' = skipped \cup
               {h \in Heights : start[p] <= h /\ h <= BatchEnd(start[p], to[p]) /\ t < h}
    BY <1>8 DEF Fetch
  <2>3. batch' \in [Procs -> SUBSET Block] /\ skipped' \in SUBSET Heights
    BY <2>1, <2>2
  <2> QED BY <1>8, <2>3 DEF Fetch, Goto, chainVars, tables, loopVars
<1>9. ASSUME NEW p \in Procs, EndBatch(p) PROVE TypeOK'
  <2>1. CASE GoIdle(p)
    <3>1. LocalType'
      BY <1>0, <2>1, GoIdleType
    <3> QED BY <1>9, <3>1 DEF EndBatch, LocalType, chainVars, tables, history
  <2>2. CASE ~GoIdle(p)
    <3>1. start' \in [Procs -> Nat]
      BY <1>9, <2>2, BoundsAssumption DEF EndBatch
    <3> QED BY <1>9, <2>2, <3>1 DEF EndBatch, Goto, chainVars, tables, history
  <2> QED BY <2>1, <2>2
<1>10. ASSUME NEW p \in Procs, NEW b \in batch[p], IndexBlock(p, b) PROVE TypeOK'
  <2>1. b \in Block
    OBVIOUS
  <2>2. row' \in [Procs -> [height : Heights, cols : Columns]]
    BY <1>10, <2>1
       DEF IndexBlock, Block, Columns, MaybeFork, HostDifficulty, HostAdjusted
  <2>3. batch' \in [Procs -> SUBSET Block]
    BY <1>10 DEF IndexBlock
  <2> QED BY <1>10, <2>2, <2>3 DEF IndexBlock, Goto, chainVars, tables, loopVars, history
<1>16. ASSUME NEW p \in Procs, LookUpHeader(p) PROVE TypeOK'
  <2>1. PICK a \in MaybeFork : row' = [row EXCEPT ![p].cols.achieved = a]
    BY <1>16 DEF LookUpHeader, HostAchieved
  <2>2. [row[p].cols EXCEPT !.achieved = a] \in Columns
    BY DEF Columns
  <2>3. row' = [row EXCEPT ![p] = [row[p] EXCEPT !.cols = [row[p].cols EXCEPT !.achieved = a]]]
    BY <2>1
  <2>4. row' \in [Procs -> [height : Heights, cols : Columns]]
    BY <2>2, <2>3
  <2> QED BY <1>16, <2>4 DEF LookUpHeader, Goto, chainVars, tables, loopVars, history
<1>11. ASSUME NEW p \in Procs, WriteRow(p) PROVE TypeOK'
  <2>1. torn' \in SUBSET Heights
    BY <1>11 DEF WriteRow
  <2> QED BY <1>11, <2>1 DEF WriteRow, UpsertBlock, Goto, chainVars, loopVars
<1>12. ASSUME NEW p \in Procs, WriteKernels(p) PROVE TypeOK'
  BY <1>12 DEF WriteKernels, ReplaceKernelsForBlock, Goto, chainVars, loopVars, history, Columns
<1>13. ASSUME NEW p \in Procs, WriteOutputs(p) PROVE TypeOK'
  BY <1>13
     DEF WriteOutputs, ReplaceOutputsForBlock, Goto, chainVars, loopVars, history, Columns
<1>14. ASSUME NEW p \in Procs, Abort(p) PROVE TypeOK'
  <2>1. LocalType'
    BY <1>0, <1>14, GoIdleType DEF Abort
  <2>2. /\ batch' \in [Procs -> SUBSET Block]
        /\ row' \in [Procs -> [height : Heights, cols : Columns]]
        /\ torn' \in SUBSET Heights
    BY <1>14 DEF Abort
  <2> QED BY <1>14, <2>1, <2>2 DEF Abort, LocalType, chainVars, tables
<1>15. CASE UNCHANGED vars
  BY <1>15 DEF vars, chainVars, tables, loopVars, history
<1> QED BY <1>1, <1>2, <1>3, <1>5, <1>6, <1>7, <1>8, <1>9, <1>10, <1>11, <1>12, <1>13,
           <1>14, <1>15, <1>16 DEF Next, Nodes, Work

(***************************************************************************)
(* The variables keep their types in every behaviour of the indexer.       *)
(***************************************************************************)
THEOREM TypeCorrect == Spec => []TypeOK
  BY TypeInit, TypeStep, PTL DEF Spec

-----------------------------------------------------------------------------
(***************************************************************************)
(* Which steps assign which variables, for the proofs of the modules that   *)
(* put readers and tools beside the indexer.                                *)
(***************************************************************************)
(* Every step is the nodes' or one process's. *)
LEMMA StepKinds ==
  ASSUME [Next]_vars
  PROVE  \/ Mine
         \/ Settle
         \/ \E k, t \in Heights : Reorg(k, t)
         \/ \E p \in Procs : Work(p)
         \/ \E p \in Procs : Abort(p)
         \/ \E p \in Backfillers, lo, hi \in Heights : StartBackfill(p, lo, hi)
         \/ UNCHANGED vars
BY DEF Next, Nodes

(* A block row is only ever written by a process's upsert. *)
LEMMA OnlyWriteRowStores ==
  ASSUME [Next]_vars, blocks' # blocks
  PROVE  \E p \in Procs : WriteRow(p)
<1>1. ~UNCHANGED tables
  BY DEF tables
<1>2. ~Mine /\ ~Settle /\ ~(\E k, t \in Heights : Reorg(k, t)) /\ ~UNCHANGED vars
  BY <1>1 DEF Mine, Settle, Reorg, vars
<1>3. \A p \in Procs : ~Abort(p) /\ \A lo, hi \in Heights : ~StartBackfill(p, lo, hi)
  BY <1>1 DEF Abort, StartBackfill
<1>4. PICK p \in Procs : Work(p)
  BY <1>2, <1>3, StepKinds DEF Procs
<1>5. ~PollTip(p) /\ ~ReadMax(p) /\ ~Fetch(p) /\ ~EndBatch(p) /\ ~(\E b \in batch[p] : IndexBlock(p, b))
  BY <1>1 DEF PollTip, ReadMax, Fetch, EndBatch, IndexBlock
<1>6. ~LookUpHeader(p) /\ ~WriteKernels(p) /\ ~WriteOutputs(p)
  BY <1>1 DEF LookUpHeader, WriteKernels, WriteOutputs
<1> QED BY <1>4, <1>5, <1>6 DEF Work

(* The chain changes by a reorganisation only. *)
LEMMA OnlyReorgMovesTheChain ==
  ASSUME [Next]_vars, chain' # chain
  PROVE  \E k, t \in Heights : Reorg(k, t)
<1>1. ~UNCHANGED chainVars
  BY DEF chainVars
<1>2. ~Mine /\ ~Settle /\ ~UNCHANGED vars
  BY DEF Mine, Settle, vars, chainVars
<1>3. \A p \in Procs : ~Abort(p) /\ \A lo, hi \in Heights : ~StartBackfill(p, lo, hi)
  BY <1>1 DEF Abort, StartBackfill
<1>4. ASSUME NEW p \in Procs PROVE ~Work(p)
  <2>1. ~PollTip(p) /\ ~ReadMax(p) /\ ~Fetch(p) /\ ~EndBatch(p) /\ ~(\E b \in batch[p] : IndexBlock(p, b))
    BY <1>1 DEF PollTip, ReadMax, Fetch, EndBatch, IndexBlock
  <2>2. ~LookUpHeader(p) /\ ~WriteRow(p) /\ ~WriteKernels(p) /\ ~WriteOutputs(p)
    BY <1>1 DEF LookUpHeader, WriteRow, WriteKernels, WriteOutputs
  <2> QED BY <2>1, <2>2 DEF Work
<1> QED BY <1>2, <1>3, <1>4, StepKinds DEF Procs

(* What a process has fetched and is writing is changed by its own steps only. *)
LEMMA OwnSteps ==
  ASSUME TypeOK, [Next]_vars, NEW p \in Procs, ~UNCHANGED <<pc[p], batch[p], row[p]>>
  PROVE  Work(p) \/ Abort(p) \/ \E lo, hi \in Heights : StartBackfill(p, lo, hi)
<1>1. ~UNCHANGED <<pc, batch, row>>
  OBVIOUS
<1>2. ~Mine /\ ~Settle /\ ~(\E k, t \in Heights : Reorg(k, t)) /\ ~UNCHANGED vars
  BY <1>1 DEF Mine, Settle, Reorg, vars
<1>3. ASSUME NEW q \in Procs, Work(q) PROVE q = p
  <2>1. CASE PollTip(q) \/ ReadMax(q)
    BY <2>1 DEF PollTip, ReadMax, GoIdle, Goto, TypeOK
  <2>2. CASE Fetch(q)
    BY <2>2 DEF Fetch, Goto, TypeOK
  <2>3. CASE EndBatch(q)
    BY <2>3 DEF EndBatch, GoIdle, Goto, TypeOK
  <2>4. ASSUME NEW b \in batch[q], IndexBlock(q, b) PROVE q = p
    BY <2>4 DEF IndexBlock, Goto, TypeOK
  <2>5. CASE LookUpHeader(q) \/ WriteRow(q) \/ WriteKernels(q)
    BY <2>5 DEF LookUpHeader, WriteRow, WriteKernels, Goto, TypeOK
  <2>6. CASE WriteOutputs(q)
    BY <2>6 DEF WriteOutputs, Goto, TypeOK
  <2> QED BY <1>3, <2>1, <2>2, <2>3, <2>4, <2>5, <2>6 DEF Work
<1>4. ASSUME NEW q \in Procs, Abort(q) PROVE q = p
  BY <1>4 DEF Abort, GoIdle, Goto, TypeOK
<1>5. ASSUME NEW q \in Procs, NEW lo \in Heights, NEW hi \in Heights, StartBackfill(q, lo, hi) PROVE q = p
  BY <1>5 DEF StartBackfill, Goto, TypeOK
<1> QED BY <1>2, <1>3, <1>4, <1>5, StepKinds DEF Procs

(* A process comes to hold a row by indexing a block of its answer ... *)
LEMMA NewRowIsIndexed ==
  ASSUME TypeOK, [Next]_vars, NEW p \in Procs, pc'[p] = "header",
         ~(row'[p] = row[p] /\ pc[p] = "header")
  PROVE  \E b \in batch[p] : IndexBlock(p, b)
<1>1. Work(p) \/ Abort(p) \/ \E lo, hi \in Heights : StartBackfill(p, lo, hi)
  BY OwnSteps
<1>2. ~Abort(p) /\ \A lo, hi \in Heights : ~StartBackfill(p, lo, hi)
  BY DEF Abort, StartBackfill, GoIdle, Goto, TypeOK
<1>3. ~PollTip(p) /\ ~ReadMax(p)
  BY DEF PollTip, ReadMax, GoIdle, Goto, TypeOK
<1>4. ~Fetch(p) /\ ~EndBatch(p)
  BY DEF Fetch, EndBatch, GoIdle, Goto, TypeOK
<1>5. ~LookUpHeader(p) /\ ~WriteRow(p) /\ ~WriteKernels(p) /\ ~WriteOutputs(p)
  BY DEF LookUpHeader, WriteRow, WriteKernels, WriteOutputs, Goto, TypeOK
<1> QED BY <1>1, <1>2, <1>3, <1>4, <1>5 DEF Work

(* ... and to write it by looking up its header. *)
LEMMA WrittenRowIsLookedUp ==
  ASSUME TypeOK, [Next]_vars, NEW p \in Procs, pc'[p] = "upsert",
         ~(row'[p] = row[p] /\ pc[p] = "upsert")
  PROVE  LookUpHeader(p)
<1>1. Work(p) \/ Abort(p) \/ \E lo, hi \in Heights : StartBackfill(p, lo, hi)
  BY OwnSteps
<1>2. ~Abort(p) /\ \A lo, hi \in Heights : ~StartBackfill(p, lo, hi)
  BY DEF Abort, StartBackfill, GoIdle, Goto, TypeOK
<1>3. ~PollTip(p) /\ ~ReadMax(p)
  BY DEF PollTip, ReadMax, GoIdle, Goto, TypeOK
<1>4. ~Fetch(p) /\ ~EndBatch(p) /\ ~(\E b \in batch[p] : IndexBlock(p, b))
  BY DEF Fetch, EndBatch, IndexBlock, GoIdle, Goto, TypeOK
<1>5. ~WriteRow(p) /\ ~WriteKernels(p) /\ ~WriteOutputs(p)
  BY DEF WriteRow, WriteKernels, WriteOutputs, Goto, TypeOK
<1> QED BY <1>1, <1>2, <1>3, <1>4, <1>5 DEF Work

(* Blocks enter a process's answer by a fetch. *)
LEMMA NewBlocksAreFetched ==
  ASSUME TypeOK, [Next]_vars, NEW p \in Procs, ~(batch'[p] \subseteq batch[p])
  PROVE  Fetch(p)
<1>1. Work(p) \/ Abort(p) \/ \E lo, hi \in Heights : StartBackfill(p, lo, hi)
  BY OwnSteps
<1>2. ~Abort(p) /\ \A lo, hi \in Heights : ~StartBackfill(p, lo, hi)
  BY DEF Abort, StartBackfill, TypeOK
<1>3. ~PollTip(p) /\ ~ReadMax(p) /\ ~EndBatch(p)
  BY DEF PollTip, ReadMax, EndBatch
<1>4. \A b \in batch[p] : ~IndexBlock(p, b)
  BY DEF IndexBlock, TypeOK
<1>5. ~LookUpHeader(p) /\ ~WriteRow(p) /\ ~WriteKernels(p) /\ ~WriteOutputs(p)
  BY DEF LookUpHeader, WriteRow, WriteKernels, WriteOutputs
<1> QED BY <1>1, <1>2, <1>3, <1>4, <1>5 DEF Work

-----------------------------------------------------------------------------
(***************************************************************************)
(* A stored height that no write was cut short at, no two writes overlapped *)
(* at and that nobody is writing holds the kernels and outputs of its block. *)
(* Inductive: during an undisturbed write the tables written so far already *)
(* hold the writer's block, and two writers of one height make it torn.     *)
(***************************************************************************)
WritesAgree ==
  \A p \in Procs : \A h \in Heights \ torn : Writing(p, h) =>
    /\ blocks[h].fork = row[p].cols.fork
    /\ pc[p] = "outputs" => kernels[h] = row[p].cols.fork

OverlapIsTorn ==
  \A p, q \in Procs : \A h \in Heights :
    p # q /\ Writing(p, h) /\ Writing(q, h) => h \in torn

TornInv == IntactUnlessTorn /\ WritesAgree /\ OverlapIsTorn

(* The kernels and outputs stored at a height are those of the block row, save *)
(* for heights where a write was cut short or overlapped.                     *)
THEOREM IntactUnlessTornHolds == Spec => []IntactUnlessTorn
<1>1. Init => TornInv
  BY ConstantTypes
     DEF Init, TornInv, IntactUnlessTorn, Intact, WritesAgree, OverlapIsTorn, Writing, NoRow
<1>2. TypeOK /\ TornInv /\ [Next]_vars => TornInv'
  <2> SUFFICES ASSUME TypeOK, TornInv, [Next]_vars PROVE TornInv'
    OBVIOUS
  <2> USE DEF TornInv
  <2>1. ASSUME UNCHANGED <<blocks, kernels, outputs, torn>>,
               \A p \in Procs, h \in Heights : Writing(p, h)' <=> Writing(p, h),
               \A p \in Procs : pc'[p] = "outputs" <=> pc[p] = "outputs",
               \A p \in Procs : pc[p] \in {"kernels", "outputs"} => row'[p] = row[p]
        PROVE  TornInv'
    BY <2>1 DEF IntactUnlessTorn, Intact, WritesAgree, OverlapIsTorn, Writing
  <2>2. CASE UNCHANGED <<blocks, kernels, outputs, torn, pc, row>>
    BY <2>1, <2>2 DEF Writing
  <2>3. ASSUME NEW p \in Procs, NEW l \in {"idle", "max", "fetch", "block", "header", "upsert"},
               pc[p] \notin {"kernels", "outputs"}, Goto(p, l),
               UNCHANGED <<blocks, kernels, outputs, torn>>,
               \A q \in Procs \ {p} : row'[q] = row[q]
        PROVE  TornInv'
    <3>1. \A q \in Procs : pc'[q] = IF q = p THEN l ELSE pc[q]
      BY <2>3 DEF Goto, TypeOK
    <3> QED BY <2>1, <2>3, <3>1 DEF Writing
  <2>4. ASSUME NEW p \in Procs, PollTip(p) \/ ReadMax(p) \/ Fetch(p) \/ EndBatch(p)
        PROVE  TornInv'
    BY <2>3, <2>4
       DEF PollTip, ReadMax, Fetch, EndBatch, GoIdle, Goto, tables, history
  <2>5. ASSUME NEW p \in Procs, NEW b \in batch[p], IndexBlock(p, b) PROVE TornInv'
    <3>1. \A q \in Procs \ {p} : row'[q] = row[q]
      BY <2>5 DEF IndexBlock, TypeOK
    <3> QED BY <2>3, <2>5, <3>1 DEF IndexBlock, tables, history
  <2>12. ASSUME NEW p \in Procs, LookUpHeader(p) PROVE TornInv'
    <3>1. \A q \in Procs \ {p} : row'[q] = row[q]
      BY <2>12 DEF LookUpHeader, TypeOK
    <3> QED BY <2>3, <2>12, <3>1 DEF LookUpHeader, tables, history
  <2>6. ASSUME NEW p \in Backfillers, NEW lo \in Heights, NEW flagTo \in Heights,
               StartBackfill(p, lo, flagTo)
        PROVE  TornInv'
    BY <2>3, <2>6 DEF StartBackfill, Procs, tables, history
  <2>7. ASSUME NEW p \in Procs, WriteRow(p) PROVE TornInv'
    <3> DEFINE h0 == row[p].height
    <3>1. /\ h0 \in Heights
          /\ \A q \in Procs : pc'[q] = IF q = p THEN "kernels" ELSE pc[q]
          /\ UNCHANGED <<kernels, outputs, row>>
      BY <2>7 DEF WriteRow, Goto, TypeOK
    <3>2. \A h \in Heights : blocks'[h] = IF h = h0 THEN row[p].cols ELSE blocks[h]
      BY <2>7, <3>1 DEF WriteRow, UpsertBlock, TypeOK
    <3>3. \A h \in Heights : h # h0 => (h \in torn' <=> h \in torn)
      BY <2>7 DEF WriteRow
    <3>4. h0 \notin torn' => \A q \in Procs \ {p} : ~Writing(q, h0)
      BY <2>7 DEF WriteRow
    <3>5. \A q \in Procs \ {p} : \A h \in Heights : Writing(q, h)' <=> Writing(q, h)
      BY <3>1 DEF Writing
    <3>6. Writing(p, h0)' /\ \A h \in Heights : h # h0 => ~Writing(p, h)' /\ ~Writing(p, h)
      BY <3>1 DEF Writing
    <3>7. IntactUnlessTorn'
      BY <3>1, <3>2, <3>3, <3>5, <3>6 DEF IntactUnlessTorn, Intact
    <3>8. WritesAgree'
      <4> SUFFICES ASSUME NEW q \in Procs, NEW h \in Heights, h \notin torn', Writing(q, h)'
                   PROVE  /\ blocks'[h].fork = row'[q].cols.fork
                          /\ pc'[q] = "outputs" => kernels'[h] = row'[q].cols.fork
        BY DEF WritesAgree
      <4>1. CASE q = p
        BY <3>1, <3>2, <3>6, <4>1
      <4>2. CASE q # p
        BY <3>1, <3>2, <3>3, <3>4, <3>5, <4>2 DEF WritesAgree
      <4> QED BY <4>1, <4>2
    <3>9. OverlapIsTorn'
      BY <3>3, <3>4, <3>5, <3>6 DEF OverlapIsTorn
    <3> QED BY <3>7, <3>8, <3>9
  <2>8. ASSUME NEW p \in Procs, WriteKernels(p) PROVE TornInv'
    <3> DEFINE h0 == row[p].height
    <3>1. /\ h0 \in Heights
          /\ \A q \in Procs : pc'[q] = IF q = p THEN "outputs" ELSE pc[q]
          /\ \A h \in Heights : kernels'[h] = IF h = h0 THEN row[p].cols.fork ELSE kernels[h]
          /\ UNCHANGED <<blocks, outputs, row, torn>>
      BY <2>8 DEF WriteKernels, ReplaceKernelsForBlock, Goto, TypeOK, history
    <3>2. \A q \in Procs, h \in Heights : Writing(q, h)' <=> Writing(q, h)
      <4>1. pc[p] = "kernels"
        BY <2>8 DEF WriteKernels
      <4> QED BY <3>1, <4>1 DEF Writing
    <3>3. Writing(p, h0) /\ pc[p] = "kernels"
      BY <2>8 DEF WriteKernels, Writing
    <3>4. IntactUnlessTorn'
      BY <3>1, <3>2, <3>3 DEF IntactUnlessTorn, Intact
    <3>5. WritesAgree'
      <4> SUFFICES ASSUME NEW q \in Procs, NEW h \in Heights, h \notin torn, Writing(q, h)
                   PROVE  /\ blocks'[h].fork = row'[q].cols.fork
                          /\ pc'[q] = "outputs" => kernels'[h] = row'[q].cols.fork
        BY <3>1, <3>2 DEF WritesAgree
      <4>1. CASE q = p
        BY <3>1, <4>1 DEF WritesAgree, Writing
      <4>2. CASE q # p
        <5>1. h # h0
          BY <3>3, <4>2 DEF OverlapIsTorn
        <5> QED BY <3>1, <4>2, <5>1 DEF WritesAgree
      <4> QED BY <4>1, <4>2
    <3>6. OverlapIsTorn'
      BY <3>1, <3>2 DEF OverlapIsTorn
    <3> QED BY <3>4, <3>5, <3>6
  <2>9. ASSUME NEW p \in Procs, WriteOutputs(p) PROVE TornInv'
    <3> DEFINE h0 == row[p].height
    <3>1. /\ h0 \in Heights
          /\ \A q \in Procs : pc'[q] = IF q = p THEN "block" ELSE pc[q]
          /\ \A q \in Procs \ {p} : row'[q] = row[q]
          /\ \A h \in Heights : outputs'[h] = IF h = h0 THEN row[p].cols.fork ELSE outputs[h]
          /\ UNCHANGED <<blocks, kernels, torn>>
      BY <2>9 DEF WriteOutputs, ReplaceOutputsForBlock, Goto, TypeOK, history
    <3>2. \A q \in Procs \ {p}, h \in Heights : Writing(q, h)' <=> Writing(q, h)
      BY <3>1 DEF Writing
    <3>3. Writing(p, h0) /\ pc[p] = "outputs" /\ \A h \in Heights : ~Writing(p, h)'
      BY <2>9, <3>1 DEF WriteOutputs, Writing
    <3>4. IntactUnlessTorn'
      <4> SUFFICES ASSUME NEW h \in Heights, h \notin torn, \A q \in Procs : ~Writing(q, h)'
                   PROVE  Intact(h)'
        BY <3>1 DEF IntactUnlessTorn
      <4>1. CASE h = h0
        BY <3>1, <3>3, <4>1 DEF WritesAgree, Intact
      <4>2. CASE h # h0
        <5>1. \A q \in Procs : ~Writing(q, h)
          BY <3>2, <3>3, <4>2 DEF Writing
        <5> QED BY <3>1, <4>2, <5>1 DEF IntactUnlessTorn, Intact
      <4> QED BY <4>1, <4>2
    <3>5. WritesAgree'
      BY <3>1, <3>2, <3>3 DEF WritesAgree
    <3>6. OverlapIsTorn'
      BY <3>1, <3>2, <3>3 DEF OverlapIsTorn
    <3> QED BY <3>4, <3>5, <3>6
  <2>10. ASSUME NEW p \in Procs, Abort(p) PROVE TornInv'
    <3>1. /\ \A q \in Procs : pc'[q] = IF q = p THEN "idle" ELSE pc[q]
          /\ \A q \in Procs \ {p} : row'[q] = row[q]
          /\ torn' = torn \cup {h \in Heights : Writing(p, h)}
          /\ UNCHANGED <<blocks, kernels, outputs>>
      BY <2>10 DEF Abort, GoIdle, Goto, TypeOK, tables
    <3>2. \A q \in Procs \ {p}, h \in Heights : Writing(q, h)' <=> Writing(q, h)
      BY <3>1 DEF Writing
    <3>3. \A h \in Heights : ~Writing(p, h)'
      BY <3>1 DEF Writing
    <3>4. IntactUnlessTorn'
      BY <3>1, <3>2, <3>3 DEF IntactUnlessTorn, Intact
    <3>5. WritesAgree'
      BY <3>1, <3>2, <3>3 DEF WritesAgree
    <3>6. OverlapIsTorn'
      BY <3>1, <3>2, <3>3 DEF OverlapIsTorn
    <3> QED BY <3>4, <3>5, <3>6
  <2>11. CASE Nodes \/ UNCHANGED vars
    BY <2>2, <2>11 DEF Nodes, Mine, Settle, Reorg, vars, tables, history
  <2> QED BY <2>4, <2>5, <2>6, <2>7, <2>8, <2>9, <2>10, <2>11, <2>12 DEF Next, Work
<1>3. TornInv => IntactUnlessTorn
  BY DEF TornInv
<1> QED BY <1>1, <1>2, <1>3, TypeCorrect, PTL DEF Spec

-----------------------------------------------------------------------------
(***************************************************************************)
(* A Backfill that returns without error has covered its range.  Inductive: *)
(* the heights before the current batch are covered, those of the batch are *)
(* covered or still to be indexed, and rows never go away.                  *)
(***************************************************************************)
InBatch == {"block", "header", "upsert", "kernels", "outputs"}

Covered(h) == h \in Stored \/ h \in skipped

Pending(p, h) ==
  \/ \E b \in batch[p] : b.height = h
  \/ pc[p] \in {"header", "upsert"} /\ row[p].height = h

EarlierBatchesCovered ==
  \A p \in Procs, h \in Heights :
    pc[p] \in InBatch \cup {"fetch"} /\ from[p] <= h /\ h < start[p] => Covered(h)

BatchCoveredOrPending ==
  \A p \in Procs, h \in Heights :
    pc[p] \in InBatch /\ start[p] <= h /\ h <= BatchEnd(start[p], to[p])
      => Covered(h) \/ Pending(p, h)

RowsAreBlocks ==
  \A p \in Procs : pc[p] \in {"header", "upsert", "kernels", "outputs"} => row[p].cols.fork \in Forks

CoverInv == EarlierBatchesCovered /\ BatchCoveredOrPending /\ RowsAreBlocks

(* No step of any process removes a row, or makes a skipped height unskipped. *)
LEMMA CoveredStaysCovered ==
  ASSUME TypeOK, RowsAreBlocks, [Next]_vars, NEW h \in Heights, Covered(h)
  PROVE  Covered(h)'
<1>1. blocks' = blocks /\ skipped \subseteq skipped' => Covered(h)'
  BY DEF Covered, Stored
<1>2. ASSUME NEW p \in Procs, WriteRow(p) PROVE Covered(h)'
  <2>1. row[p].height \in Heights /\ row[p].cols.fork # Absent
    BY <1>2, ConstantTypes DEF WriteRow, RowsAreBlocks, TypeOK
  <2>2. /\ skipped' = skipped
        /\ blocks'[h] = IF h = row[p].height THEN row[p].cols ELSE blocks[h]
    BY <1>2 DEF WriteRow, UpsertBlock, TypeOK
  <2> QED BY <2>1, <2>2 DEF Covered, Stored
<1>3. ASSUME NEW p \in Procs, Fetch(p) PROVE Covered(h)'
  <2>1. blocks' = blocks /\ skipped \subseteq skipped'
    BY <1>3 DEF Fetch, tables
  <2> QED BY <1>1, <2>1
<1>4. CASE UNCHANGED <<blocks, skipped>>
  BY <1>1, <1>4
<1>5. ASSUME NEW p \in Procs,
             \/ PollTip(p) \/ ReadMax(p) \/ EndBatch(p) \/ (\E b \in batch[p] : IndexBlock(p, b))
             \/ LookUpHeader(p) \/ WriteKernels(p) \/ WriteOutputs(p) \/ Abort(p)
             \/ \E lo, flagTo \in Heights : StartBackfill(p, lo, flagTo)
      PROVE  UNCHANGED <<blocks, skipped>>
  BY <1>5 DEF PollTip, ReadMax, EndBatch, IndexBlock, LookUpHeader, WriteKernels, WriteOutputs, Abort,
              StartBackfill, tables, history
<1>6. Nodes \/ UNCHANGED vars => UNCHANGED <<blocks, skipped>>
  BY DEF Nodes, Mine, Settle, Reorg, vars, tables, history
<1> QED BY <1>2, <1>3, <1>4, <1>5, <1>6 DEF Next, Work, Procs

(* A row, once there, is replaced but never removed. *)
LEMMA StoredStays ==
  ASSUME TypeOK, RowsAreBlocks, [Next]_vars
  PROVE  Stored \subseteq Stored'
  <1>1. ASSUME NEW p \in Procs, WriteRow(p) PROVE Stored \subseteq Stored'
    <2>1. row[p].height \in Heights /\ row[p].cols.fork # Absent
      BY <1>1, ConstantTypes DEF WriteRow, RowsAreBlocks, TypeOK
    <2>2. \A h \in Heights : blocks'[h] = IF h = row[p].height THEN row[p].cols ELSE blocks[h]
      BY <1>1 DEF WriteRow, UpsertBlock, TypeOK
    <2> QED
      BY <2>1, <2>2 DEF Stored
  <1>2. ASSUME NEW p \in Procs,
               \/ PollTip(p) \/ ReadMax(p) \/ Fetch(p) \/ EndBatch(p)
               \/ \E b \in batch[p] : IndexBlock(p, b)
               \/ LookUpHeader(p) \/ WriteKernels(p) \/ WriteOutputs(p) \/ Abort(p)
               \/ \E lo, flagTo \in Heights : StartBackfill(p, lo, flagTo)
        PROVE  UNCHANGED blocks
    BY <1>2 DEF PollTip, ReadMax, Fetch, EndBatch, IndexBlock, LookUpHeader, WriteKernels, WriteOutputs, Abort,
                StartBackfill, tables
  <1>3. Nodes \/ UNCHANGED vars => UNCHANGED blocks
    BY DEF Nodes, Mine, Settle, Reorg, vars, tables
  <1>4. UNCHANGED blocks => Stored \subseteq Stored'
    BY DEF Stored
  <1> QED
    BY <1>1, <1>2, <1>3, <1>4 DEF Next, Work, Procs

(* What a Backfill has gone through is stored, skipped or in its hands, and    *)
(* stays so whatever the other processes, the nodes and failures do.          *)
LEMMA CoverInvStep == TypeOK /\ CoverInv /\ [Next]_vars => CoverInv'
<1> SUFFICES ASSUME TypeOK, CoverInv, [Next]_vars PROVE CoverInv'
  OBVIOUS
<1> USE DEF CoverInv, InBatch
<1>0. \A h \in Heights : Covered(h) => Covered(h)'
  BY CoveredStaysCovered
<1>2. ASSUME NEW p \in Procs,
             \A q \in Procs \ {p} :
               /\ pc'[q] = pc[q] /\ from'[q] = from[q] /\ to'[q] = to[q]
               /\ start'[q] = start[q] /\ batch'[q] = batch[q] /\ row'[q] = row[q],
             pc'[p] \in InBatch \cup {"fetch"} =>
               \A h \in Heights : from'[p] <= h /\ h < start'[p] => Covered(h)',
             pc'[p] \in InBatch =>
               \A h \in Heights : start'[p] <= h /\ h <= BatchEnd(start'[p], to'[p])
                  => Covered(h)' \/ Pending(p, h)',
             pc'[p] \in {"header", "upsert", "kernels", "outputs"} => row'[p].cols.fork \in Forks
      PROVE  CoverInv'
  <2>1. EarlierBatchesCovered'
    BY <1>0, <1>2 DEF EarlierBatchesCovered
  <2>2. BatchCoveredOrPending'
    BY <1>0, <1>2 DEF BatchCoveredOrPending, Pending, BatchEnd
  <2>3. RowsAreBlocks'
    BY <1>2 DEF RowsAreBlocks
  <2> QED BY <2>1, <2>2, <2>3
<1>3. ASSUME NEW p \in Procs, PollTip(p) \/ Abort(p) PROVE CoverInv'
  <2>1. /\ pc'[p] \in {"idle", "max"}
        /\ \A q \in Procs \ {p} :
               /\ pc'[q] = pc[q] /\ from'[q] = from[q] /\ to'[q] = to[q]
               /\ start'[q] = start[q] /\ batch'[q] = batch[q] /\ row'[q] = row[q]
    BY <1>3 DEF PollTip, Abort, GoIdle, Goto, TypeOK
  <2> QED BY <1>2, <2>1
<1>4. ASSUME NEW p \in Procs, ReadMax(p) PROVE CoverInv'
  <2>1. /\ \/ pc'[p] = "idle"
           \/ \E n \in Nat : pc'[p] = "fetch" /\ from'[p] = n /\ start'[p] = n
        /\ \A q \in Procs \ {p} :
               /\ pc'[q] = pc[q] /\ from'[q] = from[q] /\ to'[q] = to[q]
               /\ start'[q] = start[q] /\ batch'[q] = batch[q] /\ row'[q] = row[q]
    <3>1. \A last \in Heights : ResumeAt(last, best[p]) \in Nat
      <4>1. best[p] \in Nat /\ \A last \in Heights : last \in Nat
        BY ConstantTypes DEF TypeOK
      <4> QED BY <4>1 DEF ResumeAt
    <3> QED BY <1>4, <3>1 DEF ReadMax, EnterBackfill, GoIdle, Goto, TypeOK
  <2>2. \A n \in Nat : \A h \in Heights : ~(n <= h /\ h < n)
    BY ConstantTypes
  <2> QED BY <1>2, <2>1, <2>2
<1>5. ASSUME NEW p \in Backfillers, NEW lo \in Heights, NEW flagTo \in Heights,
             StartBackfill(p, lo, flagTo)
      PROVE  CoverInv'
  <2>1. /\ pc'[p] = "fetch" /\ from'[p] = lo /\ start'[p] = lo
        /\ \A q \in Procs \ {p} :
               /\ pc'[q] = pc[q] /\ from'[q] = from[q] /\ to'[q] = to[q]
               /\ start'[q] = start[q] /\ batch'[q] = batch[q] /\ row'[q] = row[q]
    BY <1>5 DEF StartBackfill, EnterBackfill, Goto, TypeOK, Procs
  <2>2. \A h \in Heights : ~(lo <= h /\ h < lo)
    BY ConstantTypes
  <2> QED BY <1>2, <2>1, <2>2 DEF Procs
<1>6. ASSUME NEW p \in Procs, Fetch(p) PROVE CoverInv'
  <2>1. /\ pc[p] = "fetch" /\ pc'[p] = "block"
        /\ UNCHANGED <<from, to, start, row>>
        /\ \A q \in Procs \ {p} : pc'[q] = pc[q] /\ batch'[q] = batch[q]
    BY <1>6 DEF Fetch, Goto, TypeOK, loopVars
  <2>2. PICK t \in HostTips :
          /\ batch'[p] = HostBlocks(start[p], BatchEnd(start[p], to[p]), t)
          /\ skipped' = skipped \cup
               {h \in Heights : start[p] <= h /\ h <= BatchEnd(start[p], to[p]) /\ t < h}
    BY <1>6 DEF Fetch, TypeOK
  <2>3. HostTips \subseteq Nat
    BY ConstantTypes DEF HostTips, TypeOK
  <2>4. ASSUME NEW h \in Heights, start[p] <= h, h <= BatchEnd(start[p], to[p])
        PROVE  Covered(h)' \/ Pending(p, h)'
    <3>1. CASE t < h
      BY <2>2, <2>4, <3>1 DEF Covered
    <3>2. CASE ~(t < h)
      <4>1. h <= t
        BY <2>3, <3>2, ConstantTypes
      <4>2. [height |-> h, fork |-> chain[h]] \in batch'[p]
        BY <2>2, <2>4, <4>1 DEF HostBlocks
      <4> QED BY <4>2 DEF Pending
    <3> QED BY <3>1, <3>2
  <2> QED BY <1>0, <1>2, <2>1, <2>4 DEF EarlierBatchesCovered
<1>7. ASSUME NEW p \in Procs, EndBatch(p) PROVE CoverInv'
  <2>1. /\ pc[p] = "block" /\ batch[p] = {}
        /\ \A q \in Procs \ {p} :
               /\ pc'[q] = pc[q] /\ from'[q] = from[q] /\ to'[q] = to[q]
               /\ start'[q] = start[q] /\ batch'[q] = batch[q] /\ row'[q] = row[q]
    BY <1>7 DEF EndBatch, GoIdle, Goto, TypeOK
  <2>2. CASE pc'[p] = "idle"
    BY <1>2, <2>1, <2>2
  <2>3. CASE pc'[p] # "idle"
    <3>1. /\ pc'[p] = "fetch" /\ from'[p] = from[p]
          /\ start'[p] = start[p] + BatchSize /\ start[p] + BatchSize <= to[p]
      BY <1>7, <2>3 DEF EndBatch, GoIdle, Goto, TypeOK
    <3>2. ASSUME NEW h \in Heights, from[p] <= h, h < start[p] + BatchSize PROVE Covered(h)
      <4>1. CASE h < start[p]
        BY <2>1, <3>2, <4>1 DEF EarlierBatchesCovered
      <4>2. CASE ~(h < start[p])
        <5>1. start[p] <= h /\ h <= BatchEnd(start[p], to[p])
          <6>1. h \in Nat /\ start[p] \in Nat /\ to[p] \in Nat /\ BatchSize \in Nat
            BY ConstantTypes, BoundsAssumption DEF TypeOK
          <6> QED BY <3>1, <3>2, <4>2, <6>1 DEF BatchEnd
        <5> QED BY <2>1, <5>1 DEF BatchCoveredOrPending, Pending
      <4> QED BY <4>1, <4>2
    <3> QED BY <1>0, <1>2, <2>1, <3>1, <3>2
  <2> QED BY <2>2, <2>3
<1>8. ASSUME NEW p \in Procs, NEW b \in batch[p], IndexBlock(p, b) PROVE CoverInv'
  <2>1. /\ pc[p] = "block" /\ pc'[p] = "header"
        /\ UNCHANGED <<from, to, start>>
        /\ batch'[p] = batch[p] \ {b}
        /\ row'[p].height = b.height /\ row'[p].cols.fork = b.fork
        /\ \A q \in Procs \ {p} : pc'[q] = pc[q] /\ batch'[q] = batch[q] /\ row'[q] = row[q]
    BY <1>8 DEF IndexBlock, Goto, TypeOK, loopVars
  <2>2. b.fork \in Forks
    BY DEF TypeOK, Block
  <2>3. \A h \in Heights : Pending(p, h) => Pending(p, h)'
    BY <2>1 DEF Pending
  <2> QED BY <1>0, <1>2, <2>1, <2>2, <2>3 DEF EarlierBatchesCovered, BatchCoveredOrPending
<1>13. ASSUME NEW p \in Procs, LookUpHeader(p) PROVE CoverInv'
  <2>1. /\ pc[p] = "header" /\ pc'[p] = "upsert"
        /\ UNCHANGED <<from, to, start, batch>>
        /\ row'[p].height = row[p].height /\ row'[p].cols.fork = row[p].cols.fork
        /\ \A q \in Procs \ {p} : pc'[q] = pc[q] /\ row'[q] = row[q]
    BY <1>13 DEF LookUpHeader, Goto, TypeOK, Columns, loopVars
  <2>2. \A h \in Heights : Pending(p, h) => Pending(p, h)'
    BY <2>1 DEF Pending
  <2> QED BY <1>0, <1>2, <2>1, <2>2
          DEF EarlierBatchesCovered, BatchCoveredOrPending, RowsAreBlocks
<1>9. ASSUME NEW p \in Procs, WriteRow(p) PROVE CoverInv'
  <2>1. /\ pc[p] = "upsert" /\ pc'[p] = "kernels"
        /\ UNCHANGED <<from, to, start, batch, row>>
        /\ \A q \in Procs \ {p} : pc'[q] = pc[q]
        /\ row[p].height \in Heights /\ row[p].cols.fork \in Forks
    BY <1>9 DEF WriteRow, Goto, TypeOK, loopVars, RowsAreBlocks
  <2>2. Covered(row[p].height)'
    BY <1>9, <2>1, ConstantTypes DEF WriteRow, UpsertBlock, Covered, Stored, TypeOK
  <2>3. \A h \in Heights : Pending(p, h) => Covered(h)' \/ Pending(p, h)'
    BY <2>1, <2>2 DEF Pending
  <2> QED BY <1>0, <1>2, <2>1, <2>3 DEF EarlierBatchesCovered, BatchCoveredOrPending
<1>10. ASSUME NEW p \in Procs, WriteKernels(p) PROVE CoverInv'
  <2>1. /\ pc[p] = "kernels" /\ pc'[p] = "outputs"
        /\ UNCHANGED <<from, to, start, batch, row>>
        /\ \A q \in Procs \ {p} : pc'[q] = pc[q]
    BY <1>10 DEF WriteKernels, Goto, TypeOK, loopVars
  <2>2. \A h \in Heights : Pending(p, h) => Pending(p, h)'
    BY <2>1 DEF Pending
  <2> QED BY <1>0, <1>2, <2>1, <2>2
          DEF EarlierBatchesCovered, BatchCoveredOrPending, RowsAreBlocks
<1>11. ASSUME NEW p \in Procs, WriteOutputs(p) PROVE CoverInv'
  <2>1. /\ pc[p] = "outputs" /\ pc'[p] = "block"
        /\ UNCHANGED <<from, to, start, batch>>
        /\ \A q \in Procs \ {p} : pc'[q] = pc[q] /\ row'[q] = row[q]
    BY <1>11 DEF WriteOutputs, Goto, TypeOK, loopVars
  <2>2. \A h \in Heights : Pending(p, h) => Pending(p, h)'
    BY <2>1 DEF Pending
  <2> QED BY <1>0, <1>2, <2>1, <2>2 DEF EarlierBatchesCovered, BatchCoveredOrPending
<1>12. CASE Nodes \/ UNCHANGED vars
  <2>1. UNCHANGED <<pc, from, to, start, batch, row>>
    BY <1>12 DEF Nodes, Mine, Settle, Reorg, vars, loopVars
  <2> QED BY <1>0, <2>1
          DEF EarlierBatchesCovered, BatchCoveredOrPending, RowsAreBlocks, Pending, BatchEnd
<1> QED BY <1>3, <1>4, <1>5, <1>6, <1>7, <1>8, <1>9, <1>10, <1>11, <1>12, <1>13 DEF Next, Work

LEMMA CoverInit == Init => CoverInv
  BY DEF Init, CoverInv, EarlierBatchesCovered, BatchCoveredOrPending, RowsAreBlocks, InBatch

(* A Backfill that returns without error has stored its whole range, but for *)
(* heights that a lagging host left out, with any number of processes.       *)
THEOREM BackfillCoversRangeHolds == Spec => BackfillCoversRange
<1>2. TypeOK /\ CoverInv /\ [Next]_vars
        => [\A p \in Procs : Returns(p) => from[p] .. to[p] \subseteq Stored \cup skipped]_vars
  <2> SUFFICES ASSUME TypeOK, CoverInv, NEW p \in Procs, Returns(p), NEW h \in from[p] .. to[p]
               PROVE  h \in Stored \cup skipped
    OBVIOUS
  <2>1. pc[p] = "block" /\ batch[p] = {} /\ start[p] + BatchSize > to[p]
    BY DEF Returns, EndBatch, Goto, TypeOK
  <2>2. h \in Heights
    BY BoundsAssumption DEF TypeOK, Heights
  <2>3. CASE h < start[p]
    BY <2>1, <2>2, <2>3 DEF CoverInv, EarlierBatchesCovered, InBatch, Covered
  <2>4. CASE ~(h < start[p])
    <3>1. start[p] <= h /\ h <= BatchEnd(start[p], to[p])
      <4>1. h \in Nat /\ start[p] \in Nat /\ to[p] \in Nat /\ BatchSize \in Nat
        BY <2>2, ConstantTypes, BoundsAssumption DEF TypeOK
      <4>2. h <= to[p]
        BY <4>1
      <4> QED BY <2>1, <2>4, <4>1, <4>2 DEF BatchEnd
    <3> QED BY <2>1, <2>2, <3>1 DEF CoverInv, BatchCoveredOrPending, InBatch, Covered, Pending
  <2> QED BY <2>3, <2>4
<1> QED BY <1>2, CoverInit, CoverInvStep, TypeCorrect, PTL DEF Spec, BackfillCoversRange

-----------------------------------------------------------------------------
(***************************************************************************)
(* One follower and no backfiller.  Inductive: what it has still to write   *)
(* is above all that is stored, in ascending order.                         *)
(***************************************************************************)
OneFollower == Backfillers = {} /\ \A p, q \in Followers : p = q

WritesAscend(p) ==
  /\ pc[p] \in InBatch \cup {"fetch"} => from[p] <= start[p]
  /\ pc[p] = "fetch" => \A s \in Stored \ {0} : s < start[p]
  /\ pc[p] \in InBatch =>
       /\ \A s \in Stored \ {0} : s < start[p] + BatchSize /\ \A b \in batch[p] : s < b.height
       /\ \A b \in batch[p] : start[p] <= b.height /\ b.height <= BatchEnd(start[p], to[p])
       /\ \A b, c \in batch[p] : b.height = c.height => b = c
  /\ pc[p] \in {"header", "upsert"} =>
       /\ start[p] <= row[p].height /\ row[p].height <= BatchEnd(start[p], to[p])
       /\ \A s \in Stored \ {0} : s < row[p].height
       /\ \A b \in batch[p] : row[p].height < b.height

FollowInv == \A p \in Procs : WritesAscend(p)

LEMMA BatchHeightsAreNat ==
  ASSUME TypeOK, NEW p \in Procs, NEW b \in batch[p]
  PROVE  b.height \in Nat
<1>1. b \in Block
  BY DEF TypeOK
<1> QED BY <1>1, ConstantTypes DEF Block

(* A step that neither stores a height nor moves the follower. *)
LEMMA FollowerAlone ==
  ASSUME FollowInv, Stored' = Stored, UNCHANGED <<pc, from, to, start, batch, row>>
  PROVE  FollowInv'
  BY DEF FollowInv, WritesAscend, BatchEnd

LEMMA FollowInit == Init => FollowInv
  BY DEF Init, FollowInv, WritesAscend, InBatch

LEMMA FollowStep ==
  ASSUME OneFollower, TypeOK, FollowInv, [Next]_vars
  PROVE  FollowInv'
<1> USE ConstantTypes DEF InBatch
<1>1. \A p, q \in Procs : p = q
  BY DEF OneFollower, Procs
<1>2. UNCHANGED blocks => Stored' = Stored
  BY DEF Stored
<1>3. \A s \in Stored : s \in Nat
  BY DEF Stored
<1>4. ASSUME NEW p \in Procs, PollTip(p) \/ Abort(p) PROVE FollowInv'
  <2>1. pc'[p] \in {"idle", "max"}
    BY <1>4 DEF PollTip, Abort, GoIdle, Goto, TypeOK
  <2> QED BY <1>1, <2>1 DEF FollowInv, WritesAscend
<1>5. ASSUME NEW p \in Procs, ReadMax(p) PROVE FollowInv'
  <2>1. CASE pc'[p] = "idle"
    BY <1>1, <2>1 DEF FollowInv, WritesAscend
  <2>2. CASE pc'[p] # "idle"
    <3>1. PICK last \in Heights : IsMaxIndexedHeight(last) /\ EnterBackfill(p, ResumeAt(last, best[p]), best[p])
                                   /\ Goto(p, "fetch")
      BY <1>5, <2>2 DEF ReadMax, GoIdle, Goto, TypeOK
    <3>2. pc'[p] = "fetch" /\ from'[p] = ResumeAt(last, best[p]) /\ start'[p] = ResumeAt(last, best[p])
      BY <3>1 DEF EnterBackfill, Goto, TypeOK
    <3>3. ResumeAt(last, best[p]) \in Nat
      <4>1. last \in Nat /\ best[p] \in Nat
        BY DEF TypeOK
      <4> QED BY <4>1 DEF ResumeAt
    <3>4. \A s \in Stored \ {0} : s < ResumeAt(last, best[p])
      BY <1>3, <3>1 DEF IsMaxIndexedHeight, ResumeAt
    <3>5. Stored' = Stored
      BY <1>2, <1>5 DEF ReadMax, tables
    <3> QED BY <1>1, <3>2, <3>3, <3>4, <3>5 DEF FollowInv, WritesAscend
  <2> QED BY <2>1, <2>2
<1>6. ASSUME NEW p \in Procs, Fetch(p) PROVE FollowInv'
  <2>1. /\ pc[p] = "fetch" /\ pc'[p] = "block" /\ UNCHANGED <<from, to, start>> /\ Stored' = Stored
    BY <1>2, <1>6 DEF Fetch, Goto, TypeOK, tables, loopVars
  <2>2. PICK t \in HostTips : batch'[p] = HostBlocks(start[p], BatchEnd(start[p], to[p]), t)
    BY <1>6 DEF Fetch, TypeOK
  <2>3. start[p] \in Nat /\ to[p] \in Nat /\ BatchSize \in Nat \ {0}
    BY BoundsAssumption DEF TypeOK
  <2>5. /\ \A b \in batch'[p] : start[p] <= b.height /\ b.height <= BatchEnd(start[p], to[p]) /\ b.height \in Nat
        /\ \A b, c \in batch'[p] : b.height = c.height => b = c
    BY <2>2 DEF HostBlocks
  <2>6. from[p] <= start[p] /\ \A s \in Stored \ {0} : s < start[p]
    BY <2>1 DEF FollowInv, WritesAscend
  <2>7. \A s \in Stored \ {0} : s < start[p] + BatchSize /\ \A b \in batch'[p] : s < b.height
    BY <1>3, <2>3, <2>5, <2>6
  <2> QED BY <1>1, <2>1, <2>5, <2>6, <2>7 DEF FollowInv, WritesAscend, BatchEnd
<1>7. ASSUME NEW p \in Procs, EndBatch(p) PROVE FollowInv'
  <2>1. CASE pc'[p] = "idle"
    BY <1>1, <2>1 DEF FollowInv, WritesAscend
  <2>2. CASE pc'[p] # "idle"
    <3>1. /\ pc[p] = "block" /\ pc'[p] = "fetch" /\ from'[p] = from[p] /\ start'[p] = start[p] + BatchSize
      BY <1>7, <2>2 DEF EndBatch, GoIdle, Goto, TypeOK
    <3>2. Stored' = Stored
      BY <1>2, <1>7 DEF EndBatch, tables
    <3>3. from[p] <= start[p] /\ \A s \in Stored \ {0} : s < start[p] + BatchSize
      BY <3>1 DEF FollowInv, WritesAscend
    <3>4. from[p] \in Nat /\ start[p] \in Nat /\ BatchSize \in Nat
      BY BoundsAssumption DEF TypeOK
    <3>5. from[p] <= start[p] + BatchSize
      BY <3>3, <3>4
    <3> QED BY <1>1, <3>1, <3>2, <3>3, <3>5 DEF FollowInv, WritesAscend
  <2> QED BY <2>1, <2>2
<1>8. ASSUME NEW p \in Procs, NEW b \in batch[p], IndexBlock(p, b) PROVE FollowInv'
  <2>1. /\ pc[p] = "block" /\ pc'[p] = "header" /\ UNCHANGED <<from, to, start>> /\ Stored' = Stored
        /\ batch'[p] = batch[p] \ {b} /\ row'[p].height = b.height
    BY <1>2, <1>8 DEF IndexBlock, Goto, TypeOK, tables, loopVars
  <2>2. \A c \in batch[p] : b.height <= c.height /\ b.height \in Nat /\ c.height \in Nat
    <3>1. \A c \in batch[p] : c.height \in Nat
      BY BatchHeightsAreNat
    <3> QED BY <1>8, <3>1 DEF IndexBlock
  <2>3. WritesAscend(p)
    BY DEF FollowInv
  <2>4. \A c \in batch'[p] : b.height < c.height
    BY <2>1, <2>2, <2>3 DEF WritesAscend
  <2> QED BY <1>1, <2>1, <2>3, <2>4 DEF FollowInv, WritesAscend, BatchEnd
<1>13. ASSUME NEW p \in Procs, LookUpHeader(p) PROVE FollowInv'
  <2>1. /\ pc[p] = "header" /\ pc'[p] = "upsert" /\ UNCHANGED <<from, to, start, batch>> /\ Stored' = Stored
        /\ row'[p].height = row[p].height
    BY <1>2, <1>13 DEF LookUpHeader, Goto, TypeOK, Columns, tables, loopVars
  <2> QED BY <1>1, <2>1 DEF FollowInv, WritesAscend, BatchEnd
<1>9. ASSUME NEW p \in Procs, WriteRow(p) PROVE FollowInv'
  <2>1. /\ pc[p] = "upsert" /\ pc'[p] = "kernels" /\ UNCHANGED <<from, to, start, batch, row>>
        /\ \A h \in Heights : h # row[p].height => blocks'[h] = blocks[h]
    BY <1>9 DEF WriteRow, UpsertBlock, Goto, TypeOK, loopVars
  <2>2. Stored' \subseteq Stored \cup {row[p].height}
    BY <2>1 DEF Stored
  <2>3. WritesAscend(p)
    BY DEF FollowInv
  <2>4. row[p].height < start[p] + BatchSize
    <3>1. start[p] \in Nat /\ to[p] \in Nat /\ row[p].height \in Nat /\ BatchSize \in Nat
      BY BoundsAssumption DEF TypeOK
    <3>2. row[p].height <= BatchEnd(start[p], to[p])
      BY <2>1, <2>3 DEF WritesAscend
    <3> QED BY <3>1, <3>2 DEF BatchEnd
  <2> QED BY <1>1, <2>1, <2>2, <2>3, <2>4 DEF FollowInv, WritesAscend, BatchEnd
<1>10. ASSUME NEW p \in Procs, WriteKernels(p) \/ WriteOutputs(p) PROVE FollowInv'
  <2>1. /\ pc[p] \in {"kernels", "outputs"} /\ pc'[p] \in {"outputs", "block"}
        /\ UNCHANGED <<from, to, start, batch>> /\ Stored' = Stored
    BY <1>2, <1>10 DEF WriteKernels, WriteOutputs, Goto, TypeOK, loopVars
  <2> QED BY <1>1, <2>1 DEF FollowInv, WritesAscend, BatchEnd
<1>11. CASE Nodes \/ UNCHANGED vars
  <2>1. UNCHANGED <<pc, from, to, start, batch, row, blocks>>
    BY <1>11 DEF Nodes, Mine, Settle, Reorg, vars, loopVars, tables
  <2> QED BY <1>2, <2>1, FollowerAlone
<1>12. ~\E p \in Backfillers, lo, hi \in Heights : StartBackfill(p, lo, hi)
  BY DEF OneFollower
<1> QED BY <1>4, <1>5, <1>6, <1>7, <1>8, <1>9, <1>10, <1>11, <1>12, <1>13 DEF Next, Work

(* Follow never writes a stored height above 0 a second time. *)
THEOREM FollowNeverRewritesHolds ==
  ASSUME OneFollower PROVE Spec => FollowNeverRewrites
<1>1. TypeOK /\ FollowInv /\ [Next]_vars => FollowInv'
  BY FollowStep
<1>2. TypeOK /\ FollowInv
        => [\A p \in Procs : WriteRow(p) => row[p].height \notin Stored \ {0}]_vars
  <2> SUFFICES ASSUME TypeOK, FollowInv, NEW p \in Procs, WriteRow(p), row[p].height \in Stored \ {0}
               PROVE  FALSE
    OBVIOUS
  <2>1. row[p].height < row[p].height
    BY DEF WriteRow, FollowInv, WritesAscend
  <2>2. row[p].height \in Nat
    BY ConstantTypes DEF TypeOK
  <2> QED BY <2>1, <2>2
<1> QED BY <1>1, <1>2, FollowInit, TypeCorrect, PTL DEF Spec, FollowNeverRewrites

(***************************************************************************)
(* Below the resumption point everything above a stored height is covered;  *)
(* from there up to the row being written it is so by CoverInv.             *)
(***************************************************************************)
CoveredBelow(p) ==
  pc[p] \in InBatch \cup {"fetch"} =>
    \A s \in Stored \ {0} : \A k \in Heights : s <= k /\ k < from[p] => Covered(k)

GapInv == NoGaps /\ \A p \in Procs : CoveredBelow(p)

LEMMA GapStep ==
  ASSUME OneFollower, TypeOK, CoverInv, FollowInv, GapInv, [Next]_vars
  PROVE  GapInv'
<1> USE ConstantTypes DEF InBatch
<1>1. \A p, q \in Procs : p = q
  BY DEF OneFollower, Procs
<1>2. \A h \in Heights : Covered(h) => Covered(h)'
  BY CoveredStaysCovered DEF CoverInv
<1>3. Stored \subseteq Heights /\ (UNCHANGED blocks => Stored' = Stored)
  BY DEF Stored
<1>4. ASSUME Stored' = Stored PROVE NoGaps'
  <2> SUFFICES ASSUME NEW lo \in Stored \ {0}, NEW hi \in Stored \ {0}, NEW k \in lo .. hi
               PROVE  k \in Stored' \cup skipped'
    BY <1>4 DEF NoGaps
  <2>1. k \in Heights
    BY <1>3, BoundsAssumption DEF Heights
  <2>2. Covered(k)
    BY DEF GapInv, NoGaps, Covered
  <2> QED BY <1>2, <2>1, <2>2 DEF Covered
<1>5. ASSUME Stored' = Stored, UNCHANGED from,
             \A p \in Procs : pc'[p] \in InBatch \cup {"fetch"} => pc[p] \in InBatch \cup {"fetch"}
      PROVE  GapInv'
  BY <1>2, <1>4, <1>5 DEF GapInv, CoveredBelow
<1>6. ASSUME NEW p \in Procs, pc'[p] \in {"idle", "max"}, UNCHANGED blocks PROVE GapInv'
  BY <1>1, <1>3, <1>4, <1>6 DEF GapInv, CoveredBelow
<1>7. ASSUME NEW p \in Procs, PollTip(p) \/ Abort(p) PROVE GapInv'
  <2>1. pc'[p] \in {"idle", "max"} /\ UNCHANGED blocks
    BY <1>7 DEF PollTip, Abort, GoIdle, Goto, TypeOK, tables
  <2> QED BY <1>6, <2>1
<1>8. ASSUME NEW p \in Procs, ReadMax(p) PROVE GapInv'
  <2>0. UNCHANGED blocks /\ Stored' = Stored
    BY <1>3, <1>8 DEF ReadMax, tables
  <2>1. CASE pc'[p] = "idle"
    BY <1>6, <2>0, <2>1
  <2>2. CASE pc'[p] # "idle"
    <3>1. PICK last \in Heights : IsMaxIndexedHeight(last) /\ EnterBackfill(p, ResumeAt(last, best[p]), best[p])
      BY <1>8, <2>2 DEF ReadMax, GoIdle, Goto, TypeOK
    <3>2. from'[p] = ResumeAt(last, best[p])
      BY <3>1 DEF EnterBackfill, TypeOK
    <3>3. ASSUME NEW s \in Stored \ {0}, NEW k \in Heights, s <= k, k < from'[p] PROVE Covered(k)
      <4>1. last \in Stored \ {0} /\ k <= last
        <5>1. s \in Nat /\ s <= last /\ last \in Nat /\ k \in Nat /\ s # 0
          BY <1>3, <3>1 DEF IsMaxIndexedHeight
        <5>2. last # 0
          BY <5>1
        <5> QED BY <3>1, <3>2, <3>3, <5>1, <5>2 DEF IsMaxIndexedHeight, ResumeAt
      <4>2. k \in s .. last
        BY <1>3, <3>3, <4>1
      <4> QED BY <4>1, <4>2 DEF GapInv, NoGaps, Covered
    <3> QED BY <1>1, <1>2, <1>4, <2>0, <3>3 DEF GapInv, CoveredBelow
  <2> QED BY <2>1, <2>2
<1>9. ASSUME NEW p \in Procs, EndBatch(p) PROVE GapInv'
  <2>0. UNCHANGED blocks /\ Stored' = Stored
    BY <1>3, <1>9 DEF EndBatch, tables
  <2>1. CASE pc'[p] = "idle"
    BY <1>6, <2>0, <2>1
  <2>2. CASE pc'[p] # "idle"
    <3>1. UNCHANGED from /\ pc[p] = "block"
      BY <1>9, <2>2 DEF EndBatch, GoIdle, Goto, TypeOK
    <3> QED BY <1>1, <1>5, <2>0, <3>1
  <2> QED BY <2>1, <2>2
<1>10. ASSUME NEW p \in Procs,
              Fetch(p) \/ (\E b \in batch[p] : IndexBlock(p, b)) \/ LookUpHeader(p)
                \/ WriteKernels(p) \/ WriteOutputs(p)
       PROVE  GapInv'
  <2>1. UNCHANGED <<blocks, from>> /\ pc[p] \in InBatch \cup {"fetch"}
    BY <1>10 DEF Fetch, IndexBlock, LookUpHeader, WriteKernels, WriteOutputs, tables, loopVars
  <2> QED BY <1>1, <1>3, <1>5, <2>1
<1>11. ASSUME NEW p \in Procs, WriteRow(p) PROVE GapInv'
  <2> DEFINE h == row[p].height
  <2>1. /\ pc[p] = "upsert" /\ UNCHANGED <<from, skipped>> /\ h \in Heights
        /\ \A k \in Heights : k # h => blocks'[k] = blocks[k]
    BY <1>11 DEF WriteRow, UpsertBlock, TypeOK, loopVars
  <2>2. Stored' \subseteq Stored \cup {h}
    BY <2>1 DEF Stored
  <2>3. /\ from[p] <= start[p] /\ start[p] <= h /\ h <= BatchEnd(start[p], to[p])
        /\ \A s \in Stored \ {0} : s < h
        /\ \A b \in batch[p] : h < b.height
    BY <2>1 DEF FollowInv, WritesAscend
  <2>4. \A k \in Heights : k < h => ~Pending(p, k)
    <3>1. h \in Nat /\ \A b \in batch[p] : b.height \in Nat
      BY <2>1, BatchHeightsAreNat
    <3>2. ASSUME NEW k \in Heights, k < h, NEW b \in batch[p], b.height = k PROVE FALSE
      <4>1. h < b.height
        BY <2>3
      <4> QED BY <3>1, <3>2, <4>1
    <3>3. \A k \in Heights : k < h => h # k
      BY <3>1
    <3> QED BY <3>2, <3>3 DEF Pending
  <2> HIDE DEF h
  <2>5. /\ from[p] \in Nat /\ start[p] \in Nat /\ to[p] \in Nat /\ h \in Nat /\ BatchSize \in Nat
        /\ \A s \in Stored : s \in Nat
    BY <1>3, <2>1, BoundsAssumption DEF TypeOK
  <2>6. ASSUME NEW s \in Stored \ {0}, NEW k \in Heights, s <= k, k < h PROVE Covered(k)
    <3>1. CASE k < from[p]
      BY <2>1, <2>6, <3>1 DEF GapInv, CoveredBelow
    <3>2. CASE from[p] <= k /\ k < start[p]
      BY <2>1, <3>2 DEF CoverInv, EarlierBatchesCovered
    <3>3. CASE start[p] <= k
      <4>1. k <= BatchEnd(start[p], to[p])
        BY <2>3, <2>5, <2>6 DEF BatchEnd
      <4> QED BY <2>1, <2>4, <2>6, <3>3, <4>1 DEF CoverInv, BatchCoveredOrPending
    <3>4. k \in Nat /\ from[p] \in Nat /\ start[p] \in Nat
      BY <2>5
    <3>5. k < from[p] \/ (from[p] <= k /\ k < start[p]) \/ start[p] <= k
      BY <3>4
    <3> QED BY <3>1, <3>2, <3>3, <3>5
  <2>7. NoGaps'
    <3> SUFFICES ASSUME NEW lo \in Stored' \ {0}, NEW hi \in Stored' \ {0}, NEW k \in lo .. hi
                 PROVE  k \in Stored' \cup skipped'
      BY DEF NoGaps
    <3>1. lo \in Nat /\ hi \in Nat /\ k \in Nat /\ lo <= k /\ k <= hi /\ k \in Heights
      <4>1. lo \in Heights /\ hi \in Heights
        BY <1>3, <2>1, <2>2
      <4> QED BY <4>1, BoundsAssumption DEF Heights
    <3>2. CASE lo = h \/ k = hi
      <4>1. hi <= h
        BY <2>2, <2>3, <2>5, <3>1
      <4> QED BY <3>1, <3>2, <4>1, <2>5
    <3>3. CASE lo # h /\ hi = h /\ k # hi
      <4>1. lo \in Stored \ {0} /\ k < h
        BY <2>2, <3>1, <3>3
      <4> QED BY <1>2, <2>6, <3>1, <4>1 DEF Covered
    <3>4. CASE lo # h /\ hi # h
      <4>1. lo \in Stored \ {0} /\ hi \in Stored \ {0}
        BY <2>2, <3>4
      <4> QED BY <1>2, <3>1, <4>1 DEF GapInv, NoGaps, Covered
    <3> QED BY <3>2, <3>3, <3>4
  <2>8. CoveredBelow(p)'
    <3> SUFFICES ASSUME NEW s \in Stored' \ {0}, NEW k \in Heights, s <= k, k < from[p]
                 PROVE  Covered(k)'
      BY <2>1 DEF CoveredBelow
    <3>1. s # h
      BY <2>3, <2>5
    <3> QED BY <1>2, <2>1, <2>2, <3>1 DEF GapInv, CoveredBelow
  <2> QED BY <1>1, <2>7, <2>8 DEF GapInv
<1>12. CASE Nodes \/ UNCHANGED vars
  <2>1. UNCHANGED <<pc, from, blocks>>
    BY <1>12 DEF Nodes, Mine, Settle, Reorg, vars, loopVars, tables
  <2> QED BY <1>3, <1>5, <2>1
<1>13. ~\E p \in Backfillers, lo, hi \in Heights : StartBackfill(p, lo, hi)
  BY DEF OneFollower
<1> QED BY <1>7, <1>8, <1>9, <1>10, <1>11, <1>12, <1>13 DEF Next, Work

(* Follow leaves no hole between two stored heights above genesis, except     *)
(* heights that an answer left out.                                           *)
THEOREM NoGapsHolds ==
  ASSUME OneFollower PROVE Spec => []NoGaps
<1>1. Init => GapInv
  BY DEF Init, GapInv, NoGaps, CoveredBelow, Stored, NoRow, InBatch
<1>2. TypeOK /\ CoverInv /\ FollowInv /\ GapInv /\ [Next]_vars => FollowInv' /\ GapInv'
  BY FollowStep, GapStep
<1>3. GapInv => NoGaps
  BY DEF GapInv
<1> QED BY <1>1, <1>2, <1>3, CoverInit, CoverInvStep, FollowInit, TypeCorrect, PTL DEF Spec

=============================================================================
