----------------------------- MODULE BlockViews -----------------------------
(***************************************************************************)
(* The pages over the block tables (internal/server): the detail of one    *)
(* block, and the list of blocks that is loaded page by page, each as HTML *)
(* and as JSON.  A request is several queries with no transaction around   *)
(* them, so the indexer's steps fall between them.                         *)
(*                                                                         *)
(* A visitor makes one request, or one walk through the list, at a time.   *)
(***************************************************************************)
EXTENDS Indexer, FiniteSetsExt

CONSTANTS
  PageSize,      \* rows per page of the list (25 in the code)
  MaxAPILimit    \* the most rows a JSON client may ask for (100 in the code)

ASSUME PagesAssumption ==
  /\ PageSize \in Nat \ {0}
  /\ MaxAPILimit \in Nat \ {0}

VARIABLES
  vpc,        \* the visitor's request: what it does next
  height,     \* the block asked for
  page,       \* what has been read of it
  before,     \* the cursor of the next page of the list
  shown,      \* the heights listed so far
  untouched,  \* history: nothing was written at height since its row was read
  atStart     \* history: the heights stored when the walk began

viewVars == <<vpc, height, page, before, shown, untouched, atStart>>

NoPage == [block |-> Absent, kernels |-> Absent, outputs |-> Absent]
FirstPage == MaxHeight + 1   \* math.MaxInt64

ViewTypeOK ==
  /\ vpc \in {"idle", "kernels", "outputs", "detail", "list", "listed",
              "kernel", "output", "utxos", "references", "live kernels", "answered"}
  /\ height \in Heights
  /\ page \in [block : MaybeFork, kernels : MaybeFork, outputs : MaybeFork]
  /\ before \in 0 .. FirstPage
  /\ shown \in SUBSET Heights
  /\ untouched \in BOOLEAN
  /\ atStart \in SUBSET Heights

ViewInit ==
  /\ vpc = "idle"
  /\ height = 0
  /\ page = NoPage
  /\ before = 0
  /\ shown = {}
  /\ untouched = FALSE
  /\ atStart = {}

\* The response is complete, or an error page: the next request starts afresh.
Leave ==
  /\ vpc \in {"detail", "listed"} \/ (vpc \in {"kernels", "outputs", "list"} /\ ~calm)
  /\ vpc' = "idle"
  /\ height' = 0
  /\ page' = NoPage
  /\ before' = 0
  /\ shown' = {}
  /\ untouched' = FALSE
  /\ atStart' = {}

-----------------------------------------------------------------------------
(***************************************************************************)
(* GET /blocks/{height}, GET /api/blocks/{height}                          *)
(***************************************************************************)
\* GetBlock; with no row the answer is 404 and nothing else is read.
GetBlock(h) ==
  /\ vpc = "idle"
  /\ h \in Stored
  /\ vpc' = "kernels"
  /\ height' = h
  /\ page' = [page EXCEPT !.block = blocks[h].fork]
  /\ untouched' = (h \notin torn /\ \A p \in Procs : ~Writing(p, h))
  /\ UNCHANGED <<before, shown, atStart>>

KernelsOfPrevious(h) == kernels[IF h > 0 THEN h - 1 ELSE 0]   \* mutant: PrevHeight
KernelsOf(h) == kernels[h]

GetKernelsForBlock ==
  /\ vpc = "kernels"
  /\ vpc' = "outputs"
  /\ page' = [page EXCEPT !.kernels = KernelsOf(height)]
  /\ UNCHANGED <<height, before, shown, untouched, atStart>>

GetOutputsForBlock ==
  /\ vpc = "outputs"
  /\ vpc' = "detail"
  /\ page' = [page EXCEPT !.outputs = outputs[height]]
  /\ UNCHANGED <<height, before, shown, untouched, atStart>>

-----------------------------------------------------------------------------
(***************************************************************************)
(* GET /, GET /blocks/partial?before=, GET /api/blocks?before=&limit=      *)
(***************************************************************************)
\* ?limit=, Absent when it is not given; what is not positive is refused.
ParseAPILimit(raw) ==
  IF raw = Absent THEN PageSize ELSE IF raw > MaxAPILimit THEN MaxAPILimit ELSE raw

Limits == {ParseAPILimit(raw) : raw \in {Absent} \cup 1 .. MaxAPILimit + 1}

ListBlocksUpTo(b, n) ==   \* mutant: height <= before
  LET below == {h \in Stored : h <= b}
  IN  {h \in below : Cardinality({k \in below : k > h}) < n}

ListBlocksWithin(b, n) == {h \in Stored : b - n <= h /\ h < b}   \* mutant: no LIMIT

\* WHERE height < before ORDER BY height DESC LIMIT n
ListBlocks(b, n) ==
  LET below == {h \in Stored : h < b}
  IN  {h \in below : Cardinality({k \in below : k > h}) < n}

OpenList ==
  /\ vpc = "idle"
  /\ vpc' = "list"
  /\ before' = FirstPage
  /\ atStart' = Stored
  /\ UNCHANGED <<height, page, shown, untouched>>

\* One page; the "Load more" button under its last row carries that row's height,
\* and an empty page has no button.
LoadMore(n) ==
  LET rows == ListBlocks(before, n) IN
  /\ vpc = "list"
  /\ \/ rows # {} /\ before' = Min(rows) /\ UNCHANGED vpc
     \/ rows = {} /\ vpc' = "listed" /\ UNCHANGED before
  /\ shown' = shown \cup rows
  /\ UNCHANGED <<height, page, untouched, atStart>>

-----------------------------------------------------------------------------
ViewStep ==
  \/ \E h \in Heights : GetBlock(h)
  \/ GetKernelsForBlock
  \/ GetOutputsForBlock
  \/ OpenList
  \/ \E n \in Limits : LoadMore(n)
  \/ Leave

\* The indexer moves while a request is under way.
Underneath ==
  /\ Next
  /\ untouched' = (untouched /\ blocks'[height] = blocks[height]
                             /\ kernels'[height] = kernels[height]
                             /\ outputs'[height] = outputs[height])
  /\ UNCHANGED <<vpc, height, page, before, shown, atStart>>

-----------------------------------------------------------------------------
\* A page shows the kernels and outputs of the very block it shows, unless an
\* interrupted write left the height torn, or a write of it was under way.
PageIsOneBlock ==
  vpc = "detail" /\ untouched => page.kernels = page.block /\ page.outputs = page.block

\* Who loads page after page to the end has seen every block that was stored at
\* the beginning, whatever was stored, or replaced, in the meantime.
WalkShowsAll == vpc = "listed" => atStart \subseteq shown

\* And none of them twice: each page is strictly below the last.
WalkRepeatsNothing ==
  [][\A n \in Limits : LoadMore(n) => ListBlocks(before, n) \cap shown = {}]_<<vars, viewVars>>
=============================================================================
