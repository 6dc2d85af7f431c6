------------------------------- MODULE Indexer -------------------------------
(***************************************************************************)
(* The block indexer (internal/indexer, cmd/indexer): processes that copy  *)
(* blocks from the base nodes into the tables blocks, kernels and outputs. *)
(* A follower (-mode follow) polls the tip and backfills from the highest  *)
(* stored height; a backfiller (-mode backfill) walks one range that the   *)
(* operator chose.  Each RPC and each committed statement is one step, so  *)
(* that processes interleave, die and see reorganisations between them.    *)
(*                                                                         *)
(* A block is a height and the number of the fork it was mined on, and so  *)
(* is everything that a block determines: a column, kernel or output row   *)
(* holds the fork of the block that its value comes from.  Pool tag and    *)
(* reward have columns of their own because tools rewrite them, the three  *)
(* difficulties because they come from separate lookups.                   *)
(***************************************************************************)
EXTENDS Integers, FiniteSets

CONSTANTS
  MaxHeight,       \* bound: the highest block ever mined
  MaxForks,        \* bound: the number of reorganisations
  BatchSize,       \* heights per GetBlockByHeight call (20 in the code)
  Followers,       \* processes in -mode follow
  Backfillers,     \* processes in -mode backfill
  FailingLookups   \* which of "difficulty", "adjusted", "achieved" may be missing

ASSUME BoundsAssumption ==
  /\ MaxHeight \in Nat
  /\ MaxForks \in Nat
  /\ BatchSize \in Nat \ {0}

ASSUME ProcsAssumption == Followers \cap Backfillers = {}

VARIABLES
  chain,    \* the nodes' best chain: the fork of the block at each height
  tip,      \* the height of its last block
  forks,    \* how many reorganisations there were: the number of the newest fork
  calm,     \* TRUE once hosts, database and processes fail no more
  blocks,   \* table blocks: the row stored at each height
  kernels,  \* table kernels: the fork of the block whose kernels are stored
  outputs,  \* table outputs: the fork of the block whose outputs are stored
  pc,       \* where each process is
  best,     \* the tip height a follower was told
  from,     \* Backfill's arguments
  to,
  start,    \* Backfill's loop variable
  batch,    \* the blocks of the current answer still to be indexed
  row,      \* the row indexBlock is writing, with its height
  skipped,  \* history: heights that an answer left out
  torn      \* history: heights with an interrupted or an overlapped write

chainVars == <<chain, tip, forks, calm>>
tables    == <<blocks, kernels, outputs>>
loopVars  == <<best, from, to, start>>
history   == <<skipped, torn>>
vars == <<chainVars, tables, pc, loopVars, batch, row, history>>

Procs   == Followers \cup Backfillers
Heights == 0 .. MaxHeight
Forks   == 0 .. MaxForks
Absent  == -1                        \* SQL NULL, a zero difficulty, no row
MaybeFork == Forks \cup {Absent}

Block == [height : Heights, fork : Forks]
Columns == [fork : MaybeFork, tag : MaybeFork, reward : MaybeFork, difficulty : MaybeFork,
            adjusted : MaybeFork, achieved : MaybeFork]
NoRow == [fork |-> Absent, tag |-> Absent, reward |-> Absent, difficulty |-> Absent,
          adjusted |-> Absent, achieved |-> Absent]
Unset == [height |-> 0, cols |-> NoRow]

TypeOK ==
  /\ chain \in [Heights -> Forks]
  /\ tip \in Heights
  /\ forks \in Forks
  /\ calm \in BOOLEAN
  /\ blocks \in [Heights -> Columns]
  /\ kernels \in [Heights -> MaybeFork]
  /\ outputs \in [Heights -> MaybeFork]
  /\ pc \in [Procs -> {"idle", "max", "fetch", "block", "header", "upsert", "kernels", "outputs"}]
  /\ best \in [Procs -> Heights]
  /\ from \in [Procs -> Heights]
  /\ to \in [Procs -> Heights]
  /\ start \in [Procs -> Nat]
  /\ batch \in [Procs -> SUBSET Block]
  /\ row \in [Procs -> [height : Heights, cols : Columns]]
  /\ skipped \in SUBSET Heights
  /\ torn \in SUBSET Heights

Init ==
  /\ chain = [h \in Heights |-> 0]
  /\ tip \in Heights
  /\ forks = 0
  /\ calm = FALSE
  /\ blocks = [h \in Heights |-> NoRow]
  /\ kernels = [h \in Heights |-> Absent]
  /\ outputs = [h \in Heights |-> Absent]
  /\ pc = [p \in Procs |-> "idle"]
  /\ best = [p \in Procs |-> 0]
  /\ from = [p \in Procs |-> 0]
  /\ to = [p \in Procs |-> 0]
  /\ start = [p \in Procs |-> 0]
  /\ batch = [p \in Procs |-> {}]
  /\ row = [p \in Procs |-> Unset]
  /\ skipped = {}
  /\ torn = {}

-----------------------------------------------------------------------------
(***************************************************************************)
(* The base nodes.  Heights above tip carry the fork of the blocks to come *)
(***************************************************************************)
Mine ==
  /\ tip < MaxHeight
  /\ tip' = tip + 1
  /\ UNCHANGED <<chain, forks, calm, tables, pc, loopVars, batch, row, history>>

\* The blocks from height k up are replaced; the new chain may be shorter.
Reorg(k, newTip) ==
  /\ forks < MaxForks
  /\ 1 <= k /\ k <= tip /\ k <= newTip
  /\ forks' = forks + 1
  /\ chain' = [h \in Heights |-> IF h < k THEN chain[h] ELSE forks + 1]
  /\ tip' = newTip
  /\ UNCHANGED <<calm, tables, pc, loopVars, batch, row, history>>

\* The environment settles: no call fails and no host lags from here on.
Settle ==
  /\ ~calm
  /\ calm' = TRUE
  /\ UNCHANGED <<chain, tip, forks, tables, pc, loopVars, batch, row, history>>

\* The heights the host that answers may be at: any host may lag.
HostTips == IF calm THEN {tip} ELSE 0 .. tip

\* GetBlockByHeight for lo..hi: a host leaves out the heights it does not have.
HostBlocks(lo, hi, hostTip) ==
  {[height |-> h, fork |-> chain[h]] : h \in {k \in Heights : lo <= k /\ k <= hi /\ k <= hostTip}}

MayMiss(lookup) == ~calm /\ lookup \in FailingLookups

\* GetNetworkDifficulty(h, h): by height, from the chain of the moment.  Height 0
\* counts as not given: the host may answer for its tip instead, or fail.
HostDifficulty(h) ==
  {d \in MaybeFork : \/ d = Absent /\ (MayMiss("difficulty") \/ tip < h \/ h = 0)
                     \/ d = chain[h] /\ h <= tip
                     \/ d = chain[tip] /\ h = 0}

\* The optional adjusted difficulty of the same answer.
HostAdjusted(d) ==
  {a \in MaybeFork : a = d \/ (a = Absent /\ MayMiss("adjusted"))}

\* GetHeaderByHash: by the block's own hash, which fails once the block is orphaned.
HostAchieved(h, f) ==
  {a \in MaybeFork : a = f \/ (a = Absent /\ (MayMiss("achieved") \/ f # chain[h]))}

-----------------------------------------------------------------------------
(***************************************************************************)
(* The tables.                                                             *)
(***************************************************************************)
Stored == {h \in Heights : blocks[h].fork # Absent}

\* MaxIndexedHeight: SELECT MAX(height), 0 for an empty table.
IsMaxIndexedHeight(m) ==
  /\ \A h \in Stored : h <= m
  /\ m \in Stored \/ (Stored = {} /\ m = 0)

\* INSERT ... ON CONFLICT (height) DO UPDATE of every column.
UpsertBlock(r) == blocks' = [blocks EXCEPT ![r.height] = r.cols]

\* DELETE and INSERT in one transaction.
ReplaceKernelsForBlock(h, f) == kernels' = [kernels EXCEPT ![h] = f]
InsertOutputsOnce(h, f) ==   \* mutant: INSERT ... ON CONFLICT DO NOTHING, no DELETE
  outputs' = [outputs EXCEPT ![h] = IF @ = Absent THEN f ELSE @]
ReplaceOutputsForBlock(h, f) == outputs' = [outputs EXCEPT ![h] = f]

-----------------------------------------------------------------------------
(***************************************************************************)
(* Follow and the entry to Backfill.                                       *)
(***************************************************************************)
Goto(p, l) == pc' = [pc EXCEPT ![p] = l]

\* Back in Follow's sleep, or not running: the local variables are gone.
GoIdle(p) ==
  /\ Goto(p, "idle")
  /\ best' = [best EXCEPT ![p] = 0]
  /\ from' = [from EXCEPT ![p] = 0]
  /\ to' = [to EXCEPT ![p] = 0]
  /\ start' = [start EXCEPT ![p] = 0]

ResumeAtLast(last, b) == IF last = 0 THEN b ELSE last       \* mutant
ResumeTooHigh(last, b) == IF last = 0 THEN b ELSE last + 2  \* mutant

\* Follow: the height to resume at, above the highest stored one.
ResumeAt(last, b) == IF last = 0 THEN b ELSE last + 1

EnterBackfillBefore(p, lo, hi) ==   \* mutant: an exclusive lower bound
  /\ from' = [from EXCEPT ![p] = lo]
  /\ to' = [to EXCEPT ![p] = hi]
  /\ start' = [start EXCEPT ![p] = lo - 1]

EnterBackfill(p, lo, hi) ==
  /\ from' = [from EXCEPT ![p] = lo]
  /\ to' = [to EXCEPT ![p] = hi]
  /\ start' = [start EXCEPT ![p] = lo]

\* Follow: GetTipInfo.  A failed call only sleeps until the next poll.
PollTip(p) ==
  /\ p \in Followers
  /\ pc[p] = "idle"
  /\ \E t \in HostTips : best' = [best EXCEPT ![p] = t]
  /\ Goto(p, "max")
  /\ UNCHANGED <<chainVars, tables, from, to, start, batch, row, history>>

\* Follow: MaxIndexedHeight, and Backfill when there is something to do.
ReadMax(p) ==
  /\ pc[p] = "max"
  /\ \E last \in Heights :
       /\ IsMaxIndexedHeight(last)
       /\ \/ /\ ResumeAt(last, best[p]) <= best[p]
             /\ EnterBackfill(p, ResumeAt(last, best[p]), best[p])
             /\ Goto(p, "fetch")
             /\ UNCHANGED best
          \/ /\ ResumeAt(last, best[p]) > best[p]
             /\ GoIdle(p)
  /\ UNCHANGED <<chainVars, tables, batch, row, history>>

\* cmd/indexer -mode backfill: -to 0 stands for the tip a host reports.
StartBackfill(p, lo, flagTo) ==
  /\ p \in Backfillers
  /\ pc[p] = "idle"
  /\ \E hi \in IF flagTo = 0 THEN HostTips ELSE {flagTo} :
       /\ lo <= hi
       /\ EnterBackfill(p, lo, hi)
  /\ Goto(p, "fetch")
  /\ UNCHANGED <<chainVars, tables, best, batch, row, history>>

-----------------------------------------------------------------------------
(***************************************************************************)
(* Backfill: batches of BatchSize heights.                                 *)
(***************************************************************************)
BatchEndShort(s, t) ==   \* mutant: the batch's last height is lost
  IF s + BatchSize - 1 > t THEN t ELSE s + BatchSize - 2

BatchEnd(s, t) == IF s + BatchSize - 1 > t THEN t ELSE s + BatchSize - 1

Fetch(p) ==
  /\ pc[p] = "fetch"
  /\ \E t \in HostTips :
       LET end == BatchEnd(start[p], to[p])
           got == HostBlocks(start[p], end, t)
       IN /\ batch' = [batch EXCEPT ![p] = got]
          /\ skipped' = skipped \cup {h \in Heights : start[p] <= h /\ h <= end /\ t < h}
  /\ Goto(p, "block")
  /\ UNCHANGED <<chainVars, tables, loopVars, row, torn>>

\* The answer is used up: the next batch, or the return of Backfill.
EndBatch(p) ==
  /\ pc[p] = "block"
  /\ batch[p] = {}
  /\ \/ /\ start[p] + BatchSize <= to[p]
        /\ start' = [start EXCEPT ![p] = @ + BatchSize]
        /\ Goto(p, "fetch")
        /\ UNCHANGED <<best, from, to>>
     \/ /\ start[p] + BatchSize > to[p]
        /\ GoIdle(p)
  /\ UNCHANGED <<chainVars, tables, batch, row, history>>

-----------------------------------------------------------------------------
(***************************************************************************)
(* indexBlock: two lookups whose failure is tolerated, then three commits. *)
(***************************************************************************)
Writing(p, h) == pc[p] \in {"kernels", "outputs"} /\ row[p].height = h

\* The answer's blocks are taken in ascending order.  GetNetworkDifficulty.
IndexBlock(p, b) ==
  /\ pc[p] = "block"
  /\ b \in batch[p]
  /\ \A c \in batch[p] : b.height <= c.height
  /\ batch' = [batch EXCEPT ![p] = @ \ {b}]
  /\ \E d \in HostDifficulty(b.height) : \E adj \in HostAdjusted(d) :
       row' = [row EXCEPT ![p] =
                 [height |-> b.height,
                  cols |-> [fork |-> b.fork, tag |-> b.fork, reward |-> b.fork,
                            difficulty |-> d, adjusted |-> adj, achieved |-> Absent]]]
  /\ Goto(p, "header")
  /\ UNCHANGED <<chainVars, tables, loopVars, history>>

\* GetHeaderByHash.
LookUpHeader(p) ==
  /\ pc[p] = "header"
  /\ \E ach \in HostAchieved(row[p].height, row[p].cols.fork) :
       row' = [row EXCEPT ![p].cols.achieved = ach]
  /\ Goto(p, "upsert")
  /\ UNCHANGED <<chainVars, tables, loopVars, batch, history>>

\* A clean write of a torn height repairs it, unless another one is under way.
WriteRow(p) ==
  LET h == row[p].height IN
  /\ pc[p] = "upsert"
  /\ UpsertBlock(row[p])
  /\ torn' = IF \E q \in Procs \ {p} : Writing(q, h) THEN torn \cup {h} ELSE torn \ {h}
  /\ Goto(p, "kernels")
  /\ UNCHANGED <<chainVars, kernels, outputs, loopVars, batch, row, skipped>>

WriteKernels(p) ==
  /\ pc[p] = "kernels"
  /\ ReplaceKernelsForBlock(row[p].height, row[p].cols.fork)
  /\ Goto(p, "outputs")
  /\ UNCHANGED <<chainVars, blocks, outputs, loopVars, batch, row, history>>

WriteOutputs(p) ==
  /\ pc[p] = "outputs"
  /\ ReplaceOutputsForBlock(row[p].height, row[p].cols.fork)
  /\ Goto(p, "block")
  /\ row' = [row EXCEPT ![p] = Unset]
  /\ UNCHANGED <<chainVars, blocks, kernels, loopVars, batch, history>>

\* An error returned through Backfill, or the death of the process: either way
\* a follower is next at the top of its loop and what was committed stays.
Abort(p) ==
  /\ ~calm
  /\ pc[p] # "idle"
  /\ GoIdle(p)
  /\ batch' = [batch EXCEPT ![p] = {}]
  /\ row' = [row EXCEPT ![p] = Unset]
  /\ torn' = torn \cup {h \in Heights : Writing(p, h)}
  /\ UNCHANGED <<chainVars, tables, skipped>>

-----------------------------------------------------------------------------
Nodes == Mine \/ Settle \/ \E k, t \in Heights : Reorg(k, t)

Work(p) ==
  \/ PollTip(p)
  \/ ReadMax(p)
  \/ Fetch(p)
  \/ EndBatch(p)
  \/ \E b \in batch[p] : IndexBlock(p, b)
  \/ LookUpHeader(p)
  \/ WriteRow(p)
  \/ WriteKernels(p)
  \/ WriteOutputs(p)

Next ==
  \/ Nodes
  \/ \E p \in Procs : Work(p) \/ Abort(p)
  \/ \E p \in Backfillers, lo, hi \in Heights : StartBackfill(p, lo, hi)

Spec == Init /\ [][Next]_vars

(***************************************************************************)
(* The select in Follow always wakes up again, and a started Backfill runs *)
(* on; outages are assumed to end (Settle), mining is not assumed at all.  *)
(***************************************************************************)
LiveSpec == Spec /\ WF_vars(Settle) /\ \A p \in Procs : WF_vars(Work(p))

-----------------------------------------------------------------------------
(***************************************************************************)
(* Properties of any number of indexer processes.                          *)
(***************************************************************************)
Intact(h) == kernels[h] = blocks[h].fork /\ outputs[h] = blocks[h].fork

\* The three commits of indexBlock belong together: wherever no write was cut
\* short or overlapped by another process's write of the same height, and none
\* is under way, the kernels and outputs stored are those of the stored block.
\* A later undisturbed write of a torn height makes it intact again.
IntactUnlessTorn ==
  \A h \in Heights \ torn : (\A p \in Procs : ~Writing(p, h)) => Intact(h)

Returns(p) == EndBatch(p) /\ pc'[p] = "idle"

\* When Backfill returns without error, every height of its range has a row,
\* but for the heights a lagging host silently left out of an answer.
BackfillCoversRange ==
  [][\A p \in Procs : Returns(p) => from[p] .. to[p] \subseteq Stored \cup skipped]_vars

(***************************************************************************)
(* Properties of one follower and no backfiller.                           *)
(***************************************************************************)
\* Follow leaves no hole between two stored heights, except heights an answer
\* left out, and except above a stored genesis block, which MaxIndexedHeight
\* cannot tell from an empty table.
NoGaps ==
  \A lo, hi \in Stored \ {0} : lo .. hi \subseteq Stored \cup skipped

\* Follow never writes a stored height above 0 a second time, however the hosts
\* lag and whatever fails: each poll resumes above the highest stored row.  (So
\* it also never repairs a torn height, or replaces a block that was reorganised
\* away.)
FollowNeverRewrites ==
  [][\A p \in Procs : WriteRow(p) => row[p].height \notin Stored \ {0}]_vars

\* Once outages are over, the follower gets at least as high as every tip that
\* the nodes reach, unless a reorganisation takes that tip away again.
CatchesUp ==
  \A h \in Heights : tip >= h ~> (tip < h \/ \E k \in Stored : k >= h)

(***************************************************************************)
(* What the sources say of the program, and the program does not do.       *)
(***************************************************************************)
\* A Backfill that fails in the middle of a block is logged with "(will retry)":
\* the block is completed eventually.
InterruptedBlockIsCompleted ==
  \A h \in Heights : (h \in Stored /\ ~Intact(h)) ~> Intact(h)

\* Re-running Backfill over an indexed range is safe: a block that is stored
\* again keeps the difficulties captured for it before.
RerunKeepsDifficulties ==
  [][\A h \in Stored \ {0} : blocks'[h].fork = blocks[h].fork =>
       /\ blocks[h].difficulty # Absent => blocks'[h].difficulty # Absent
       /\ blocks[h].achieved # Absent => blocks'[h].achieved # Absent]_vars

\* "Backfill walks heights [from, to] inclusive, [...] attributing and upserting each
\* block", and Follow backfills "from the last indexed height (exclusive) to the
\* current chain tip": between two stored heights above genesis nothing is missing.
FollowLeavesNoHole ==
  \A lo, hi \in Stored \ {0} : lo .. hi \subseteq Stored

\* "Follow repeatedly backfills from the last indexed height (exclusive)": once a
\* block is stored, a poll leaves out no height between it and where it resumes.
ResumesAboveLastIndexed ==
  [][\A p \in Procs : ReadMax(p) /\ pc'[p] = "fetch" =>
       \A last \in Stored : last + 1 .. from'[p] - 1 \subseteq Stored \cup skipped]_vars
=============================================================================
