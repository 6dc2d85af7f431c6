----------------------------- MODULE SiteProofs -----------------------------
(* Theorems about BlockViews and TxSearch over any number of indexer          *)
(* processes, for every chain, page size and set of transactions.             *)
EXTENDS TxSearch, IndexerProofs, SetInduction, FiniteSetTheorems

-----------------------------------------------------------------------------
\* What has been read of a block that nobody touches agrees with what is stored.
PageInv ==
  untouched =>
    /\ vpc \in {"kernels", "outputs"} => outputs[height] = page.block
    /\ vpc = "kernels" => kernels[height] = page.block
    /\ vpc \in {"outputs", "detail"} => page.kernels = page.block
    /\ vpc = "detail" => page.outputs = page.block

\* The walk has shown what was stored from the cursor up, and nothing below it.
WalkInv ==
  /\ vpc \notin {"list", "listed"} => shown = {}
  /\ vpc = "list" => /\ atStart \subseteq Stored
                     /\ \A h \in atStart : before <= h => h \in shown
                     /\ \A h \in shown : before <= h
  /\ WalkShowsAll

Missing == answer.status = "missing"

\* Where a search is says what it is for, and what it has found out so far.
SearchInv ==
  /\ ~Searching /\ vpc # "answered" => answer = NoAnswer
  /\ Searching => /\ answer = NoAnswer
                  /\ query.kind # "other"
                  /\ present \subseteq Whereabouts(query.tx)
  /\ vpc = "live kernels" => query.kind = "excess"
  /\ vpc \in {"output", "utxos", "references"} => query.kind # "excess"
  /\ sure => calm

TablesAsked ==
  /\ vpc \in {"output", "utxos", "references", "live kernels"} \/ Missing
       => (query.kind \in {"scalar", "excess"} => "kernels" \notin present)
  /\ vpc \in {"utxos", "references"} \/ Missing
       => (query.kind = "commitment" => "outputs" \notin present)

NodesAsked ==
  sure =>
    /\ query.kind = "commitment" /\ (vpc = "references" \/ Missing) => "chain" \notin present
    /\ query.kind \in {"reference", "excess"} /\ Missing => "chain" \notin present

SiteInv ==
  /\ SearchTypeOK
  /\ PageInv
  /\ WalkInv
  /\ SearchInv
  /\ TablesAsked
  /\ NodesAsked

-----------------------------------------------------------------------------
\* The visitor does not disturb the indexer.
LEMMA SiteImplementsIndexer == SiteSpec => Spec
  <1>1. SiteInit => Init
    BY DEF SiteInit
  <1>2. [SiteNext]_siteVars => [Next]_vars
    BY DEF SiteNext, SearchNext, Underneath, siteVars
  <1> QED
    BY <1>1, <1>2, PTL DEF SiteSpec, Spec

\* Hosts and database that have become reliable stay so.
LEMMA CalmStays ==
  ASSUME [Next]_vars, calm PROVE calm'
  BY DEF Next, Nodes, Mine, Settle, Reorg, Work, PollTip, ReadMax, Fetch, EndBatch, IndexBlock, LookUpHeader,
         WriteRow, WriteKernels, WriteOutputs, Abort, StartBackfill, vars, chainVars

LEMMA MinIsLeast ==
  ASSUME NEW S \in SUBSET Heights, S # {}
  PROVE  Min(S) \in S /\ \A h \in S : Min(S) <= h
  <1>1. \E x \in S : \A y \in S : x <= y
    BY HasMinimum, ConstantTypes
  <1> QED
    BY <1>1 DEF Min

LEMMA LimitsArePositive == Limits \subseteq Nat \ {0}
  <1> SUFFICES ASSUME NEW raw \in {Absent} \cup 1 .. MaxAPILimit + 1
               PROVE  ParseAPILimit(raw) \in Nat \ {0}
    BY DEF Limits
  <1>1. CASE raw = Absent
    BY <1>1, PagesAssumption DEF ParseAPILimit
  <1>2. CASE raw # Absent
    BY <1>2, PagesAssumption DEF ParseAPILimit
  <1> QED
    BY <1>1, <1>2

\* One page of the list: rows below the cursor, and no stored row between the
\* cursor and the lowest of them is left out; no rows only at the end.
LEMMA OnePage ==
  ASSUME NEW b \in 0 .. FirstPage, NEW n \in Nat \ {0}
  PROVE  LET rows == ListBlocks(b, n) IN
           /\ rows \in SUBSET Stored
           /\ \A h \in rows : h < b
           /\ rows = {} => \A h \in Stored : b <= h
           /\ \A h \in Stored : rows # {} /\ Min(rows) <= h /\ h < b => h \in rows
  <1> DEFINE below == {h \in Stored : h < b}
             above(h) == {k \in below : k > h}
             rows == ListBlocks(b, n)
  <1>1. rows = {h \in below : Cardinality(above(h)) < n}
    BY DEF ListBlocks
  <1>2. below \in SUBSET Heights /\ IsFiniteSet(below)
    <2>1. IsFiniteSet(Heights)
      BY FS_Interval, BoundsAssumption DEF Heights
    <2> QED
      BY <2>1, FS_Subset DEF Stored
  <1>3. \A h \in below : IsFiniteSet(above(h)) /\ Cardinality(above(h)) \in Nat
    BY <1>2, FS_Subset, FS_CardinalityType
  <1> HIDE DEF rows
  <1>4. ASSUME rows = {}, NEW h \in Stored PROVE b <= h
    <2> SUFFICES ASSUME h < b PROVE FALSE
      BY ConstantTypes DEF Stored, FirstPage
    <2>1. below # {} /\ below \in SUBSET (0 .. MaxHeight)
      BY <1>2 DEF Heights
    <2>2. PICK top \in below : \A k \in below : k <= top
      BY <2>1, HasMaximum, BoundsAssumption
    <2>3. above(top) = {}
      BY <2>1, <2>2
    <2>4. Cardinality(above(top)) = 0
      BY <2>3, FS_EmptySet
    <2> QED
      BY <1>1, <1>4, <2>4
  <1>5. ASSUME NEW h \in Stored, rows # {}, Min(rows) <= h, h < b PROVE h \in rows
    <2> DEFINE m == Min(rows)
    <2>1. rows \in SUBSET Heights
      BY <1>1, <1>2
    <2>2. m \in rows
      BY <1>5, <2>1, MinIsLeast
    <2>3. m <= h
      BY <1>5
    <2> HIDE DEF m
    <2>4. m \in below /\ h \in below
      BY <1>1, <1>5, <2>2
    <2>5. m \in Nat /\ \A k \in below : k \in Nat
      BY <1>2, <2>4, ConstantTypes
    <2>6. above(h) \subseteq above(m)
      <3>1. m \in Nat /\ h \in Nat
        BY <2>4, <2>5
      <3>2. ASSUME NEW k \in Nat, k > h PROVE k > m
        BY <2>3, <3>1, <3>2
      <3> QED
        BY <2>5, <3>2
    <2>7. Cardinality(above(h)) <= Cardinality(above(m))
      BY <1>3, <2>4, <2>6, FS_Subset
    <2>8. Cardinality(above(m)) < n
      BY <1>1, <2>2
    <2>9. Cardinality(above(h)) \in Nat /\ Cardinality(above(m)) \in Nat
      BY <1>3, <2>4
    <2>10. Cardinality(above(h)) < n
      BY <2>7, <2>8, <2>9
    <2> QED
      BY <1>1, <2>4, <2>10
  <1> QED
    BY <1>1, <1>4, <1>5 DEF rows

-----------------------------------------------------------------------------
\* The first page's cursor is above every height.
LEMMA Cursors ==
  /\ FirstPage \in Nat
  /\ 0 \in 0 .. FirstPage /\ FirstPage \in 0 .. FirstPage
  /\ \A h \in Heights : h \in Nat /\ h < FirstPage /\ h \in 0 .. FirstPage
  BY BoundsAssumption DEF FirstPage, Heights

LEMMA SearchConstants ==
  /\ NoQuery \in Queries
  /\ \A q \in Queries : q.kind \in Kinds /\ q.tx \in Searched
  /\ {NoAnswer, NotFound, Failed} \cup {Found(h) : h \in Heights}
       \subseteq [status : {"none", "missing", "error", "found"}, height : Heights]
  /\ NoPage \in [block : MaybeFork, kernels : MaybeFork, outputs : MaybeFork]
  <1>1. (CHOOSE tx \in Searched : TRUE) \in Searched
    <2>1. Searched # {}
      BY CarriesAssumption
    <2>2. \E tx \in Searched : TRUE
      BY <2>1
    <2> QED
      BY <2>2
  <1>2. NoQuery \in Queries
    BY <1>1 DEF NoQuery, Queries, Kinds
  <1>3. \A q \in Queries : q.kind \in Kinds /\ q.tx \in Searched
    BY DEF Queries
  <1>4. /\ {NoAnswer, NotFound, Failed} \cup {Found(h) : h \in Heights}
             \subseteq [status : {"none", "missing", "error", "found"}, height : Heights]
    BY ConstantTypes DEF NoAnswer, NotFound, Failed, Found
  <1>5. NoPage \in [block : MaybeFork, kernels : MaybeFork, outputs : MaybeFork]
    BY ConstantTypes DEF NoPage
  <1> QED
    BY <1>2, <1>3, <1>4, <1>5

LEMMA SiteInitInv == SiteInit => SiteInv
  <1> SUFFICES ASSUME SiteInit PROVE SiteInv
    OBVIOUS
  <1> USE DEF SiteInit, ViewInit, SearchInit
  <1>1. SearchTypeOK
    <2>1. ViewTypeOK
      <3>1. 0 \in Heights /\ 0 \in 0 .. FirstPage
        BY ConstantTypes, Cursors
      <3>2. NoPage \in [block : MaybeFork, kernels : MaybeFork, outputs : MaybeFork]
        BY SearchConstants
      <3> QED
        BY <3>1, <3>2 DEF ViewTypeOK
    <2>2. query \in Queries
      BY SearchConstants
    <2>3. answer \in [status : {"none", "missing", "error", "found"}, height : Heights]
      BY SearchConstants
    <2> QED
      BY <2>1, <2>2, <2>3 DEF SearchTypeOK
  <1>2. PageInv /\ WalkInv
    BY DEF PageInv, WalkInv, WalkShowsAll
  <1>3. SearchInv
    BY DEF SearchInv, Searching
  <1>4. TablesAsked /\ NodesAsked
    BY DEF TablesAsked, NodesAsked, Missing, NoAnswer
  <1> QED
    BY <1>1, <1>2, <1>3, <1>4 DEF SiteInv

\* A step of a request for a page leaves a search alone: there is none.
LEMMA ViewNoSearch ==
  ASSUME SiteInv, ViewStep, UNCHANGED <<vars, searchVars>>
  PROVE  SearchInv' /\ TablesAsked' /\ NodesAsked'
  <1>1. /\ vpc \in {"idle", "kernels", "outputs", "detail", "list", "listed"}
        /\ vpc' \in {"idle", "kernels", "outputs", "detail", "list", "listed"}
    BY DEF ViewStep, GetBlock, GetKernelsForBlock, GetOutputsForBlock, OpenList, LoadMore, Leave
  <1>2. UNCHANGED <<query, answer, present, sure, calm>>
    BY DEF searchVars, vars, chainVars
  <1>3. answer = NoAnswer
    BY <1>1 DEF SiteInv, SearchInv, Searching
  <1>4. SearchInv'
    BY <1>1, <1>2, <1>3 DEF SiteInv, SearchInv, Searching
  <1>5. TablesAsked' /\ NodesAsked'
    BY <1>1, <1>2, <1>3 DEF TablesAsked, NodesAsked, Missing, NoAnswer
  <1> QED
    BY <1>4, <1>5

LEMMA ViewTypeKept ==
  ASSUME TypeOK, ViewTypeOK, ViewStep
  PROVE  ViewTypeOK'
  <1> USE DEF ViewTypeOK
  <1>1. ASSUME NEW h \in Heights, GetBlock(h) PROVE ViewTypeOK'
    <2>1. blocks[h].fork \in MaybeFork
      BY DEF TypeOK, Columns
    <2>2. untouched' \in BOOLEAN
      BY <1>1 DEF GetBlock
    <2> QED
      BY <1>1, <2>1, <2>2 DEF GetBlock
  <1>2. CASE GetKernelsForBlock
    BY <1>2 DEF GetKernelsForBlock, KernelsOf, TypeOK
  <1>3. CASE GetOutputsForBlock
    BY <1>3 DEF GetOutputsForBlock, TypeOK
  <1>4. CASE OpenList
    <2>1. FirstPage \in 0 .. FirstPage
      BY Cursors
    <2>2. Stored \in SUBSET Heights
      BY DEF Stored
    <2> QED
      BY <1>4, <2>1, <2>2 DEF OpenList
  <1>5. ASSUME NEW n \in Limits, LoadMore(n) PROVE ViewTypeOK'
    <2> DEFINE rows == ListBlocks(before, n)
    <2>1. rows \in SUBSET Heights
      BY DEF ListBlocks, Stored
    <2>2. rows # {} => Min(rows) \in 0 .. FirstPage
      <3>1. rows # {} => Min(rows) \in Heights
        BY <2>1, MinIsLeast
      <3> QED
        BY <3>1, Cursors
    <2> HIDE DEF rows
    <2>3. shown' \in SUBSET Heights
      BY <1>5, <2>1 DEF LoadMore, rows
    <2>4. before' \in 0 .. FirstPage
      BY <1>5, <2>2 DEF LoadMore, rows
    <2>5. vpc' \in {"list", "listed"} /\ UNCHANGED <<height, page, untouched, atStart>>
      BY <1>5 DEF LoadMore
    <2> QED
      BY <2>3, <2>4, <2>5
  <1>6. CASE Leave
    <2>1. 0 \in Heights /\ 0 \in 0 .. FirstPage
      BY ConstantTypes, Cursors
    <2>2. NoPage \in [block : MaybeFork, kernels : MaybeFork, outputs : MaybeFork]
      BY SearchConstants
    <2> QED
      BY <1>6, <2>1, <2>2 DEF Leave
  <1> QED
    BY <1>1, <1>2, <1>3, <1>4, <1>5, <1>6 DEF ViewStep

LEMMA ViewStepInv ==
  ASSUME TypeOK, IntactUnlessTorn, SiteInv, ViewStep, UNCHANGED <<vars, searchVars>>
  PROVE  SiteInv'
  <1> USE DEF SiteInv
  <1>1. UNCHANGED <<blocks, kernels, outputs, Stored>>
    BY DEF vars, tables, Stored
  <1>2. SearchTypeOK'
    BY ViewTypeKept DEF SearchTypeOK, searchVars
  <1>3. PageInv'
    <2> USE DEF PageInv
    <2>1. ASSUME NEW h \in Heights, GetBlock(h) PROVE PageInv'
      <3>1. page' = [page EXCEPT !.block = blocks[h].fork] /\ vpc' = "kernels" /\ height' = h
        BY <2>1 DEF GetBlock
      <3>2. page'.block = blocks[h].fork
        BY <3>1 DEF SearchTypeOK, ViewTypeOK
      <3>3. untouched' => Intact(h)
        BY <2>1 DEF GetBlock, IntactUnlessTorn
      <3> QED
        BY <1>1, <3>1, <3>2, <3>3 DEF Intact
    <2>2. CASE GetKernelsForBlock
      <3>1. /\ page'.kernels = kernels[height] /\ page'.block = page.block
            /\ vpc = "kernels" /\ vpc' = "outputs" /\ UNCHANGED <<height, untouched>>
        BY <2>2 DEF GetKernelsForBlock, KernelsOf, SearchTypeOK, ViewTypeOK
      <3> QED
        BY <1>1, <3>1
    <2>3. CASE GetOutputsForBlock
      <3>1. /\ page'.outputs = outputs[height] /\ page'.block = page.block /\ page'.kernels = page.kernels
            /\ vpc = "outputs" /\ vpc' = "detail" /\ UNCHANGED untouched
        BY <2>3 DEF GetOutputsForBlock, SearchTypeOK, ViewTypeOK
      <3> QED
        BY <3>1
    <2>4. CASE OpenList \/ Leave \/ \E n \in Limits : LoadMore(n)
      <3>1. vpc' \in {"idle", "list", "listed"}
        BY <2>4 DEF OpenList, Leave, LoadMore
      <3> QED
        BY <3>1
    <2> QED
      BY <2>1, <2>2, <2>3, <2>4 DEF ViewStep
  <1>4. WalkInv'
    <2> USE DEF WalkInv, WalkShowsAll
    <2>1. CASE OpenList
      <3>1. /\ vpc = "idle" /\ vpc' = "list" /\ before' = FirstPage /\ atStart' = Stored /\ shown' = {}
        BY <2>1 DEF OpenList
      <3>2. \A h \in Stored : ~(FirstPage <= h)
        BY Cursors DEF Stored
      <3> QED
        BY <1>1, <3>1, <3>2
    <2>2. ASSUME NEW n \in Limits, LoadMore(n) PROVE WalkInv'
      <3> DEFINE rows == ListBlocks(before, n)
      <3>1. /\ rows \in SUBSET Stored
            /\ \A h \in rows : h < before
            /\ rows = {} => \A h \in Stored : before <= h
            /\ \A h \in Stored : rows # {} /\ Min(rows) <= h /\ h < before => h \in rows
        BY OnePage, LimitsArePositive DEF SearchTypeOK, ViewTypeOK
      <3>2. /\ vpc = "list" /\ shown' = shown \cup rows /\ UNCHANGED atStart
            /\ \/ rows # {} /\ before' = Min(rows) /\ vpc' = "list"
               \/ rows = {} /\ vpc' = "listed"
        BY <2>2 DEF LoadMore
      <3> HIDE DEF rows
      <3>3. before \in Nat /\ Stored \subseteq Heights /\ \A h \in Heights : h \in Nat
        <4>1. before \in 0 .. FirstPage
          BY DEF SearchTypeOK, ViewTypeOK
        <4> QED
          BY <4>1, Cursors DEF Stored
      <3>4. CASE rows = {}
        BY <3>1, <3>2, <3>4
      <3>5. CASE rows # {}
        <4>1. Min(rows) \in rows /\ \A h \in rows : Min(rows) <= h
          BY <3>1, <3>3, <3>5, MinIsLeast
        <4>2. Min(rows) \in Nat /\ Min(rows) < before
          BY <3>1, <3>3, <4>1
        <4>3. \A h \in atStart : Min(rows) <= h => h \in shown'
          <5> SUFFICES ASSUME NEW h \in atStart, Min(rows) <= h PROVE h \in shown'
            OBVIOUS
          <5>1. h \in Stored /\ h \in Nat
            BY <3>2, <3>3
          <5>2. CASE before <= h
            BY <3>2, <5>2
          <5>3. CASE h < before
            BY <3>1, <3>2, <3>5, <5>1, <5>3
          <5> QED
            BY <3>3, <5>1, <5>2, <5>3
        <4>4. \A h \in shown' : Min(rows) <= h
          <5>1. \A h \in shown : h \in Nat
            BY <3>3 DEF SearchTypeOK, ViewTypeOK
          <5> QED
            BY <3>2, <3>3, <4>1, <4>2, <5>1
        <4> QED
          BY <1>1, <3>2, <3>5, <4>3, <4>4
      <3> QED
        BY <3>4, <3>5
    <2>3. CASE Leave \/ GetKernelsForBlock \/ GetOutputsForBlock \/ \E h \in Heights : GetBlock(h)
      <3>1. vpc' \notin {"list", "listed"} /\ shown' = {}
        BY <2>3 DEF Leave, GetKernelsForBlock, GetOutputsForBlock, GetBlock
      <3> QED
        BY <3>1
    <2> QED
      BY <2>1, <2>2, <2>3 DEF ViewStep
  <1> QED
    BY <1>2, <1>3, <1>4, ViewNoSearch

-----------------------------------------------------------------------------
LEMMA HitsAreHeights ==
  ASSUME NEW l, NEW tx, NEW t
  PROVE  FindIn(l, tx) \subseteq Heights /\ OnChain(tx, t) \subseteq Heights
  <1>1. OnChain(tx, t) \subseteq Heights
    BY DEF OnChain
  <1>2. FindIn(l, tx) \subseteq Heights
    <2> DEFINE hits == IF l = "kernel" THEN WithKernel(tx) ELSE WithOutput(tx)
    <2>1. hits \in SUBSET Heights
      BY DEF WithKernel, WithOutput
    <2>2. hits # {} => Min(hits) \in Heights
      BY <2>1, MinIsLeast
    <2>3. FindIn(l, tx) = IF hits = {} THEN {} ELSE {Min(hits)}
      BY DEF FindIn
    <2> HIDE DEF hits
    <2> QED
      BY <2>2, <2>3
  <1> QED
    BY <1>1, <1>2

\* An answer, and what is known after one more lookup without a hit.
LEMMA LookupTypes ==
  ASSUME SearchTypeOK, Searching,
         (\E h \in Heights : Hit(h)) \/ Miss \/ (vpc' = "answered" /\ answer' = Failed)
  PROVE  /\ answer' \in [status : {"none", "missing", "error", "found"}, height : Heights]
         /\ vpc' \in {"output", "live kernels", "utxos", "references", "answered"}
  <1>1. CASE Miss
    BY <1>1, SearchConstants DEF Miss, NextAfterMiss, Searching, SearchTypeOK
  <1>2. ASSUME NEW h \in Heights, Hit(h)
        PROVE  answer' \in [status : {"none", "missing", "error", "found"}, height : Heights]
    BY <1>2, SearchConstants DEF Hit
  <1>3. ASSUME NEW h \in Heights, Hit(h) PROVE vpc' = "answered"
    BY <1>3 DEF Hit
  <1>4. CASE vpc' = "answered" /\ answer' = Failed
    BY <1>4, SearchConstants
  <1> QED
    BY <1>1, <1>2, <1>3, <1>4

\* A step of a search leaves the pages alone: there is no other request.
LEMMA SearchNoPage ==
  ASSUME SiteInv, SearchStep, UNCHANGED vars
  PROVE  PageInv' /\ WalkInv'
  <1>1. /\ vpc \notin {"kernels", "outputs", "detail", "list", "listed"}
        /\ vpc' \notin {"kernels", "outputs", "detail", "list", "listed"}
        /\ UNCHANGED <<height, page, before, shown, untouched, atStart>>
    BY DEF SearchStep, StartSearch, LookUp, LookUpFails, AskNode, AskNodeFails, LeaveSearch, Hit, Miss,
           NextAfterMiss, Kept
  <1> QED
    BY <1>1 DEF SiteInv, PageInv, WalkInv, WalkShowsAll

LEMMA StartSearchInv ==
  ASSUME TypeOK, SiteInv, NEW q \in Queries, StartSearch(q), UNCHANGED vars
  PROVE  SearchTypeOK' /\ SearchInv' /\ TablesAsked' /\ NodesAsked'
  <1> USE DEF StartSearch
  <1>1. Whereabouts(query.tx)' = Whereabouts(q.tx) /\ calm' = calm
    BY DEF Whereabouts, WithKernel, WithOutput, OnChain, vars, tables, chainVars
  <1>2. Whereabouts(q.tx) \subseteq {"kernels", "outputs", "chain"}
    BY DEF Whereabouts
  <1>3. answer = NoAnswer
    BY DEF SiteInv, SearchInv, Searching
  <1>4. CASE q.kind = "other"
    <2>1. SearchTypeOK'
      BY <1>2, <1>4, SearchConstants DEF SiteInv, SearchTypeOK, ViewTypeOK, TypeOK
    <2>2. SearchInv'
      BY <1>4 DEF SearchInv, Searching, vars, chainVars
    <2>3. TablesAsked' /\ NodesAsked'
      BY <1>4 DEF TablesAsked, NodesAsked
    <2> QED
      BY <2>1, <2>2, <2>3
  <1>5. CASE q.kind # "other"
    <2>1. SearchTypeOK'
      BY <1>2, <1>3, <1>5 DEF SiteInv, SearchTypeOK, ViewTypeOK, TypeOK
    <2>2. SearchInv'
      BY <1>1, <1>3, <1>5 DEF SearchInv, Searching
    <2>3. vpc' = "kernel" /\ ~Missing'
      BY <1>3, <1>5 DEF Missing, NoAnswer
    <2>4. TablesAsked' /\ NodesAsked'
      BY <2>3 DEF TablesAsked, NodesAsked
    <2> QED
      BY <2>1, <2>2, <2>4
  <1> QED
    BY <1>4, <1>5

\* A lookup in the tables: what they hold all the while is a hit.
LEMMA LookUpInv ==
  ASSUME TypeOK, SiteInv, LookUp \/ LookUpFails, UNCHANGED vars
  PROVE  SearchTypeOK' /\ SearchInv' /\ TablesAsked' /\ NodesAsked'
  <1> DEFINE hits == IF Matches(query.kind, vpc) THEN FindIn(vpc, query.tx) ELSE {}
  <1>1. /\ vpc \in {"kernel", "output"}
        /\ UNCHANGED <<height, page, before, shown, untouched, atStart, query, present, sure, outage>>
        /\ \/ \E h \in hits : Hit(h)
           \/ hits = {} /\ Miss
           \/ vpc' = "answered" /\ answer' = Failed
    BY DEF LookUp, LookUpFails, Kept
  <1>2. hits \subseteq Heights
    BY HitsAreHeights
  <1>3. Searching /\ answer = NoAnswer /\ present \subseteq Whereabouts(query.tx) /\ query.kind # "other"
    BY <1>1 DEF Searching, SiteInv, SearchInv
  <1>4. /\ vpc = "kernel" /\ query.kind \in {"scalar", "excess"} /\ hits = {} => "kernels" \notin present
        /\ vpc = "output" /\ query.kind = "commitment" /\ hits = {} => "outputs" \notin present
    BY <1>3 DEF Matches, FindIn, Whereabouts
  <1> HIDE DEF hits
  <1>5. /\ answer' \in [status : {"none", "missing", "error", "found"}, height : Heights]
        /\ vpc' \in {"output", "live kernels", "utxos", "references", "answered"}
    BY <1>1, <1>2, <1>3, LookupTypes DEF SiteInv
  <1>6. SearchTypeOK'
    BY <1>1, <1>5 DEF SiteInv, SearchTypeOK, ViewTypeOK
  <1>7. Whereabouts(query.tx)' = Whereabouts(query.tx) /\ calm' = calm
    BY <1>1 DEF Whereabouts, WithKernel, WithOutput, OnChain, vars, tables, chainVars
  <1>8. CASE vpc' = "answered" /\ (answer' = Failed \/ \E h \in Heights : answer' = Found(h))
    <2>1. ~Missing'
      BY <1>8 DEF Missing, Failed, Found
    <2>2. SearchInv'
      BY <1>1, <1>7, <1>8 DEF SiteInv, SearchInv, Searching
    <2> QED
      BY <1>6, <1>8, <2>1, <2>2 DEF TablesAsked, NodesAsked
  <1>9. CASE hits = {} /\ Miss
    <2>1. /\ vpc = "kernel" => vpc' = IF query.kind = "excess" THEN "live kernels" ELSE "output"
          /\ vpc = "output" => vpc' = "utxos"
          /\ answer' = NoAnswer
      BY <1>1, <1>3, <1>9 DEF Miss, NextAfterMiss
    <2>2. ~Missing' /\ vpc' # "references"
      BY <1>1, <2>1 DEF Missing, NoAnswer
    <2>3. SearchInv'
      BY <1>1, <1>3, <1>7, <2>1 DEF SiteInv, SearchInv, Searching
    <2>4. TablesAsked'
      BY <1>1, <1>4, <1>9, <2>1, <2>2 DEF SiteInv, TablesAsked
    <2> QED
      BY <1>6, <2>2, <2>3, <2>4 DEF NodesAsked
  <1> QED
    BY <1>1, <1>2, <1>8, <1>9 DEF Hit

\* A lookup on the nodes: what was on the chain all the while is a hit of a
\* host that does not lag.
LEMMA AskNodeInv ==
  ASSUME TypeOK, SiteInv, AskNode \/ AskNodeFails, UNCHANGED vars
  PROVE  SearchTypeOK' /\ SearchInv' /\ TablesAsked' /\ NodesAsked'
  <1> DEFINE asks == Matches(query.kind, vpc)
  <1>1. /\ vpc \in {"utxos", "references", "live kernels"}
        /\ UNCHANGED <<height, page, before, shown, untouched, atStart, query, present, sure>>
        /\ outage' = outage \/ outage' = TRUE
        /\ \/ \E h \in Heights : Hit(h)
           \/ Miss /\ (sure /\ asks => OnChain(query.tx, tip) = {})
    <2>1. CASE AskNode
      <3>1. PICK t \in HostTips :
              LET hits == IF asks THEN OnChain(query.tx, t) ELSE {}
              IN  (\E h \in hits : Hit(h)) \/ (hits = {} /\ Miss)
        BY <2>1 DEF AskNode
      <3>2. sure => t = tip
        BY DEF HostTips, SiteInv, SearchInv
      <3>3. OnChain(query.tx, t) \subseteq Heights
        BY HitsAreHeights
      <3> QED
        BY <2>1, <3>1, <3>2, <3>3 DEF AskNode, Kept
    <2>2. CASE AskNodeFails
      BY <2>2 DEF AskNodeFails, Kept, SiteInv, SearchInv
    <2> QED
      BY <2>1, <2>2
  <1>2. Searching /\ answer = NoAnswer /\ present \subseteq Whereabouts(query.tx) /\ query.kind # "other"
    BY <1>1 DEF Searching, SiteInv, SearchInv
  <1>3. /\ vpc = "live kernels" => query.kind = "excess"
        /\ vpc # "live kernels" => query.kind # "excess"
    BY <1>1 DEF SiteInv, SearchInv
  <1>4. query.kind \in Kinds
    BY SearchConstants DEF SiteInv, SearchTypeOK
  <1>5. /\ answer' \in [status : {"none", "missing", "error", "found"}, height : Heights]
        /\ vpc' \in {"output", "live kernels", "utxos", "references", "answered"}
    BY <1>1, <1>2, LookupTypes DEF SiteInv
  <1>6. SearchTypeOK'
    BY <1>1, <1>5 DEF SiteInv, SearchTypeOK, ViewTypeOK
  <1>7. Whereabouts(query.tx)' = Whereabouts(query.tx) /\ calm' = calm
    BY <1>1 DEF Whereabouts, WithKernel, WithOutput, OnChain, vars, tables, chainVars
  <1>8. ASSUME NEW h \in Heights, Hit(h)
        PROVE  SearchInv' /\ TablesAsked' /\ NodesAsked'
    <2>1. vpc' = "answered" /\ ~Missing'
      BY <1>8 DEF Hit, Missing, Found
    <2>2. SearchInv'
      BY <1>1, <1>7, <2>1 DEF SiteInv, SearchInv, Searching
    <2> QED
      BY <2>1, <2>2 DEF TablesAsked, NodesAsked
  <1>9. ASSUME Miss, sure /\ asks => OnChain(query.tx, tip) = {}
        PROVE  SearchInv' /\ TablesAsked' /\ NodesAsked'
    <2>1. \/ vpc = "utxos" /\ vpc' = "references" /\ answer' = NoAnswer
          \/ vpc = "references" /\ vpc' = "answered" /\ answer' = NotFound
          \/ vpc = "live kernels" /\ vpc' = "answered" /\ answer' = NotFound
      BY <1>1, <1>2, <1>9 DEF Miss, NextAfterMiss
    <2>2. SearchInv'
      BY <1>1, <1>2, <1>3, <1>7, <2>1 DEF SiteInv, SearchInv, Searching
    <2>3. TablesAsked'
      BY <1>1, <1>3, <2>1 DEF SiteInv, TablesAsked
    <2>4. sure /\ asks => "chain" \notin present
      BY <1>2, <1>9 DEF Whereabouts
    <2>5. NodesAsked'
      <3>1. /\ vpc = "utxos" => ~Missing' /\ (query.kind = "commitment" => asks)
            /\ vpc = "references" => (query.kind = "reference" => asks)
            /\ vpc = "live kernels" => asks
        <4>1. vpc = "utxos" => ~Missing'
          BY <2>1 DEF Missing, NoAnswer
        <4>2. /\ vpc = "utxos" => (query.kind = "commitment" => asks)
              /\ vpc = "references" => (query.kind = "reference" => asks)
              /\ vpc = "live kernels" => asks
          BY <1>3 DEF Matches
        <4> QED
          BY <4>1, <4>2
      <3>2. sure /\ vpc = "references" /\ query.kind = "commitment" => "chain" \notin present
        BY DEF SiteInv, NodesAsked
      <3> HIDE DEF asks
      <3> QED
        BY <1>1, <1>3, <2>1, <2>4, <3>1, <3>2 DEF NodesAsked
    <2> QED
      BY <2>2, <2>3, <2>5
  <1> HIDE DEF asks
  <1> QED
    BY <1>1, <1>6, <1>8, <1>9

LEMMA SearchStepInv ==
  ASSUME TypeOK, SiteInv, SearchStep, UNCHANGED vars
  PROVE  SiteInv'
  <1>1. CASE LeaveSearch
    <2>1. /\ vpc' = "idle" /\ answer' = NoAnswer /\ query' = NoQuery /\ present' = {} /\ sure' = FALSE
          /\ outage' = FALSE /\ UNCHANGED <<height, page, before, shown, untouched, atStart>>
      BY <1>1 DEF LeaveSearch
    <2>2. NoQuery \in Queries
          /\ NoAnswer \in [status : {"none", "missing", "error", "found"}, height : Heights]
      BY SearchConstants
    <2>3. SearchTypeOK'
      BY <2>1, <2>2 DEF SiteInv, SearchTypeOK, ViewTypeOK
    <2>4. SearchInv'
      BY <2>1 DEF SearchInv, Searching
    <2>5. TablesAsked' /\ NodesAsked'
      BY <2>1 DEF TablesAsked, NodesAsked
    <2> QED
      BY <2>3, <2>4, <2>5, SearchNoPage DEF SiteInv
  <1>2. ASSUME NEW q \in Queries, StartSearch(q) PROVE SiteInv'
    BY <1>2, StartSearchInv, SearchNoPage DEF SiteInv
  <1>3. CASE LookUp \/ LookUpFails
    BY <1>3, LookUpInv, SearchNoPage DEF SiteInv
  <1>4. CASE AskNode \/ AskNodeFails
    BY <1>4, AskNodeInv, SearchNoPage DEF SiteInv
  <1> QED
    BY <1>1, <1>2, <1>3, <1>4 DEF SearchStep

\* What a search is about stays as it is while the indexer moves.
LEMMA SearchUntouched ==
  ASSUME SearchInv, UNCHANGED <<vpc, answer, query>>, sure' => sure, calm => calm',
         Searching => present' \subseteq Whereabouts(query.tx)'
  PROVE  SearchInv'
  <1>1. Searching' <=> Searching
    BY DEF Searching
  <1>2. ~Searching' /\ vpc' # "answered" => answer' = NoAnswer
    BY <1>1 DEF SearchInv
  <1>3. Searching' => answer' = NoAnswer /\ query'.kind # "other"
    BY <1>1 DEF SearchInv
  <1>4. /\ vpc' = "live kernels" => query'.kind = "excess"
        /\ vpc' \in {"output", "utxos", "references"} => query'.kind # "excess"
    BY DEF SearchInv
  <1>5. sure' => calm'
    BY DEF SearchInv
  <1> QED
    BY <1>1, <1>2, <1>3, <1>4, <1>5 DEF SearchInv

\* The indexer's steps between the steps of a request.
LEMMA UnderneathInv ==
  ASSUME TypeOK, RowsAreBlocks, SiteInv, Underneath, UNCHANGED <<query, answer, outage, sure>>,
         present' = IF Searching THEN present \cap Whereabouts(query.tx)' ELSE present
  PROVE  SiteInv'
  <1> USE DEF Underneath, SiteInv
  <1>1. Stored \subseteq Stored' /\ (calm => calm')
    BY StoredStays, CalmStays
  <1>2. UNCHANGED <<vpc, height, page, before, shown, atStart, query, answer, sure>>
    OBVIOUS
  <1>3. present' \subseteq present
    OBVIOUS
  <1>4. SearchTypeOK'
    <2>1. untouched' \in BOOLEAN
      BY DEF SearchTypeOK, ViewTypeOK
    <2> QED
      BY <2>1, <1>2, <1>3 DEF SearchTypeOK, ViewTypeOK
  <1>5. PageInv'
    <2>1. untouched' => untouched /\ kernels'[height] = kernels[height] /\ outputs'[height] = outputs[height]
      OBVIOUS
    <2> QED
      BY <1>2, <2>1 DEF PageInv
  <1> HIDE DEF Underneath
  <1>6. WalkInv'
    BY <1>1, <1>2 DEF WalkInv, WalkShowsAll
  <1>7. SearchInv'
    <2>1. Searching => present' \subseteq Whereabouts(query.tx)'
      OBVIOUS
    <2> QED
      <3>1. vpc' = vpc /\ answer' = answer /\ query' = query
        BY <1>2
      <3>2. sure' <=> sure
        BY <1>2
      <3>3. SearchInv
        OBVIOUS
      <3> QED
        BY <1>1, <2>1, <3>1, <3>2, <3>3, SearchUntouched
  <1>8. TablesAsked'
    <2>1. Missing' <=> Missing
      BY <1>2 DEF Missing
    <2>2. TablesAsked
      OBVIOUS
    <2> QED
      BY <1>2, <1>3, <2>1, <2>2 DEF TablesAsked
  <1>9. NodesAsked'
    <2>1. Missing' <=> Missing
      BY <1>2 DEF Missing
    <2>2. NodesAsked
      OBVIOUS
    <2> QED
      BY <1>2, <1>3, <2>1, <2>2 DEF NodesAsked
  <1> QED
    BY <1>4, <1>5, <1>6, <1>7, <1>8, <1>9

LEMMA SiteNextInv ==
  TypeOK /\ IntactUnlessTorn /\ RowsAreBlocks /\ SiteInv /\ [SiteNext]_siteVars => SiteInv'
  <1> SUFFICES ASSUME TypeOK, IntactUnlessTorn, RowsAreBlocks, SiteInv, [SiteNext]_siteVars
               PROVE  SiteInv'
    OBVIOUS
  <1>1. CASE UNCHANGED siteVars
    <2>1. UNCHANGED <<viewVars, searchVars, blocks, kernels, outputs, chain, tip, calm>>
      BY <1>1 DEF siteVars, vars, tables, chainVars
    <2>2. UNCHANGED <<Stored, Searching, Whereabouts(query.tx)>>
      BY <2>1 DEF viewVars, searchVars, Stored, Searching, Whereabouts, WithKernel, WithOutput, OnChain
    <2>3. SearchTypeOK' /\ PageInv'
      BY <2>1, <2>2 DEF SiteInv, SearchTypeOK, ViewTypeOK, PageInv, viewVars, searchVars
    <2>4. WalkInv'
      BY <2>1, <2>2 DEF SiteInv, WalkInv, WalkShowsAll, viewVars
    <2>5. SearchInv' /\ TablesAsked' /\ NodesAsked'
      BY <2>1, <2>2 DEF SiteInv, SearchInv, TablesAsked, NodesAsked, Missing, viewVars, searchVars
    <2> QED
      BY <2>3, <2>4, <2>5 DEF SiteInv
  <1> QED
    BY <1>1, ViewStepInv, SearchStepInv, UnderneathInv DEF SiteNext, SearchNext

LEMMA SiteInvHolds == SiteSpec => []SiteInv
  <1>1. CoverInv => RowsAreBlocks
    BY DEF CoverInv
  <1>2. Spec => []RowsAreBlocks
    BY <1>1, CoverInit, CoverInvStep, TypeCorrect, PTL DEF Spec
  <1> QED
    BY <1>2, SiteImplementsIndexer, TypeCorrect, IntactUnlessTornHolds, SiteInitInv, SiteNextInv, PTL
       DEF SiteSpec

-----------------------------------------------------------------------------
\* Type correctness of pages and search, over every behaviour of the indexer.
THEOREM SiteTypeCorrect == SiteSpec => []SearchTypeOK
  <1>1. SiteInv => SearchTypeOK
    BY DEF SiteInv
  <1> QED
    BY <1>1, SiteInvHolds, PTL

\* A block page shows the kernels and outputs of its block, whatever was written
\* at other heights between its three queries.
THEOREM PageIsOneBlockHolds == SiteSpec => []PageIsOneBlock
  <1>1. SiteInv => PageIsOneBlock
    BY DEF SiteInv, PageInv, PageIsOneBlock
  <1> QED
    BY <1>1, SiteInvHolds, PTL

\* A walk through the list to its end shows all that was stored when it began.
THEOREM WalkShowsAllHolds == SiteSpec => []WalkShowsAll
  <1>1. SiteInv => WalkShowsAll
    BY DEF SiteInv, WalkInv
  <1> QED
    BY <1>1, SiteInvHolds, PTL

\* And it shows nothing twice.
THEOREM WalkRepeatsNothingHolds == SiteSpec => WalkRepeatsNothing
  <1>1. ASSUME SiteInv, NEW n \in Limits, LoadMore(n)
        PROVE  ListBlocks(before, n) \cap shown = {}
    <2>1. before \in 0 .. FirstPage /\ shown \in SUBSET Heights
      BY <1>1 DEF SiteInv, SearchTypeOK, ViewTypeOK
    <2>2. \A h \in ListBlocks(before, n) : h < before
      BY DEF ListBlocks
    <2>3. \A h \in shown : before <= h
      BY <1>1 DEF SiteInv, WalkInv, LoadMore
    <2>4. \A h \in shown : ~(h < before)
      BY <2>1, <2>3, Cursors
    <2> QED
      BY <2>2, <2>4
  <1>2. SiteInv => [\A n \in Limits : LoadMore(n) => ListBlocks(before, n) \cap shown = {}]_<<vars, viewVars>>
    BY <1>1
  <1> QED
    BY <1>2, SiteInvHolds, PTL DEF WalkRepeatsNothing

\* A search never misses what the table it asks held from its beginning to its end.
THEOREM IndexedIsFoundHolds == SiteSpec => []IndexedIsFound
  <1>1. SiteInv => IndexedIsFound
    BY DEF SiteInv, TablesAsked, Missing, IndexedIsFound
  <1> QED
    BY <1>1, SiteInvHolds, PTL

\* Nor what was on the chain, if hosts and database are reliable.
THEOREM MinedIsFoundHolds == SiteSpec => []MinedIsFound
  <1>1. SiteInv => query.kind \in Kinds
    BY SearchConstants DEF SiteInv, SearchTypeOK
  <1>2. SiteInv => MinedIsFound
    BY <1>1 DEF SiteInv, NodesAsked, Missing, MinedIsFound, Kinds
  <1> QED
    BY <1>2, SiteInvHolds, PTL
=============================================================================
