------------------------------ MODULE TxSearch ------------------------------
(***************************************************************************)
(* The transaction search (internal/txsearch, GET /search): a query is     *)
(* looked up in the tables and then, if they do not have it, asked of the  *)
(* base nodes.  The shape of the query decides which lookups are made, in  *)
(* which order; each is a step, and the first hit is the answer.           *)
(*                                                                         *)
(* A block carries one transaction, with one kernel and one output.  The   *)
(* same transaction may be in blocks of two forks, at different heights.   *)
(***************************************************************************)
EXTENDS BlockViews

CONSTANTS
  Carries,   \* the transaction in the block of each height and fork
  Searched   \* bound: the transactions that are searched for

ASSUME CarriesAssumption ==
  /\ Carries \in [Heights -> [Forks -> Int]]
  /\ Searched \subseteq Int
  /\ Searched # {}

VARIABLES
  query,    \* what is searched for
  answer,   \* the result
  present,  \* history: where the transaction was all the while
  outage,   \* history: a live call failed on every host
  sure      \* history: hosts and database were reliable from the start

searchVars == <<query, answer, present, outage, sure>>
siteVars   == <<vars, viewVars, searchVars>>

\* What decodeQuery makes of the input: 32 bytes that are a kernel's signature
\* scalar, an output's commitment or a payment reference, 64 bytes that are a
\* kernel's whole excess signature, or anything else.
Kinds   == {"scalar", "commitment", "reference", "excess", "other"}
Queries == [kind : Kinds, tx : Searched]
NoQuery == [kind |-> "other", tx |-> CHOOSE tx \in Searched : TRUE]

NotFound == [status |-> "missing", height |-> 0]
Failed   == [status |-> "error", height |-> 0]
Found(h) == [status |-> "found", height |-> h]

SearchTypeOK ==
  /\ ViewTypeOK
  /\ query \in Queries
  /\ answer \in [status : {"none", "missing", "error", "found"}, height : Heights]
  /\ present \in SUBSET {"kernels", "outputs", "chain"}
  /\ outage \in BOOLEAN
  /\ sure \in BOOLEAN

NoAnswer == [status |-> "none", height |-> 0]

SearchInit ==
  /\ query = NoQuery
  /\ answer = NoAnswer
  /\ present = {}
  /\ outage = FALSE
  /\ sure = FALSE

-----------------------------------------------------------------------------
WithKernel(tx) == {h \in Heights : kernels[h] # Absent /\ Carries[h][kernels[h]] = tx}
WithOutput(tx) == {h \in Heights : outputs[h] # Absent /\ Carries[h][outputs[h]] = tx}
OnChain(tx, t) == {h \in Heights : h <= t /\ Carries[h][chain[h]] = tx}

Whereabouts(tx) ==
  {w \in {"kernels", "outputs", "chain"} :
     \/ w = "kernels" /\ WithKernel(tx) # {}
     \/ w = "outputs" /\ WithOutput(tx) # {}
     \/ w = "chain" /\ OnChain(tx, tip) # {}}

NextAfterMissNoOutput(kind, lookup) ==   \* mutant: only kernels are indexed
  CASE lookup = "kernel" -> IF kind = "excess" THEN "live kernels" ELSE "utxos"
    [] lookup = "utxos"  -> "references"
    [] OTHER             -> "answered"

NextAfterMissIndexedOnly(kind, lookup) ==   \* mutant: no live fallback for 64 bytes
  CASE lookup = "kernel" -> IF kind = "excess" THEN "answered" ELSE "output"
    [] lookup = "output" -> "utxos"
    [] lookup = "utxos"  -> "references"
    [] OTHER             -> "answered"

\* search32 and search64: where the search goes on when a lookup has no hit.
NextAfterMiss(kind, lookup) ==
  CASE lookup = "kernel" -> IF kind = "excess" THEN "live kernels" ELSE "output"
    [] lookup = "output" -> "utxos"
    [] lookup = "utxos"  -> "references"
    [] OTHER             -> "answered"

\* The queries that each lookup can have a hit for: it compares their bytes with
\* a kernel's signature, an output's commitment or a payment reference.
Matches(kind, lookup) ==
  \/ lookup = "kernel" /\ kind \in {"scalar", "excess"}
  \/ lookup \in {"output", "utxos"} /\ kind = "commitment"
  \/ lookup = "references" /\ kind = "reference"
  \/ lookup = "live kernels" /\ kind = "excess"

FindInAll(lookup, tx) ==   \* mutant: no LIMIT, no row read as height 0
  IF lookup = "kernel" /\ WithKernel(tx) = {} THEN {Absent} ELSE WithOutput(tx)

\* ORDER BY block_height LIMIT 1
FindIn(lookup, tx) ==
  LET hits == IF lookup = "kernel" THEN WithKernel(tx) ELSE WithOutput(tx)
  IN  IF hits = {} THEN {} ELSE {Min(hits)}

-----------------------------------------------------------------------------
\* Search.  What is not hex, or of another length, is not found.
StartSearch(q) ==
  /\ vpc = "idle"
  /\ query' = q
  /\ \/ /\ q.kind = "other"
        /\ vpc' = "answered"
        /\ answer' = NotFound
     \/ /\ q.kind # "other"
        /\ vpc' = "kernel"
        /\ UNCHANGED answer
  /\ present' = Whereabouts(q.tx)
  /\ sure' = calm
  /\ UNCHANGED <<height, page, before, shown, untouched, atStart, outage>>

Hit(h) ==
  /\ vpc' = "answered"
  /\ answer' = Found(h)

Miss ==
  /\ vpc' = NextAfterMiss(query.kind, vpc)
  /\ answer' = IF vpc' = "answered" THEN NotFound ELSE answer

Kept == <<height, page, before, shown, untouched, atStart, query, present, sure>>

\* FindKernelByExcessSigSignature, FindKernelByExcessSig, FindOutputByCommitment.
LookUp ==
  /\ vpc \in {"kernel", "output"}
  /\ LET hits == IF Matches(query.kind, vpc) THEN FindIn(vpc, query.tx) ELSE {}
     IN  \/ \E h \in hits : Hit(h)
         \/ hits = {} /\ Miss
  /\ UNCHANGED <<Kept, outage>>

\* A database error ends the search.
LookUpFails ==
  /\ vpc \in {"kernel", "output"}
  /\ ~calm
  /\ vpc' = "answered"
  /\ answer' = Failed
  /\ UNCHANGED <<Kept, outage>>

\* SearchUtxos, SearchPaymentReferences, SearchKernels: the first block of the
\* answer of a host, which may lag.
AskNode ==
  /\ vpc \in {"utxos", "references", "live kernels"}
  /\ \E t \in HostTips :
       LET hits == IF Matches(query.kind, vpc) THEN OnChain(query.tx, t) ELSE {}
       IN  \/ \E h \in hits : Hit(h)
           \/ hits = {} /\ Miss
  /\ UNCHANGED <<Kept, outage>>

\* The call fails on every host: the search goes on as after an empty answer.
AskNodeFails ==
  /\ vpc \in {"utxos", "references", "live kernels"}
  /\ ~calm
  /\ outage' = TRUE
  /\ Miss
  /\ UNCHANGED Kept

LeaveSearch ==
  /\ vpc = "answered"
  /\ vpc' = "idle"
  /\ query' = NoQuery
  /\ answer' = NoAnswer
  /\ present' = {}
  /\ outage' = FALSE
  /\ sure' = FALSE
  /\ UNCHANGED <<height, page, before, shown, untouched, atStart>>

SearchStep ==
  \/ \E q \in Queries : StartSearch(q)
  \/ LookUp
  \/ LookUpFails
  \/ AskNode
  \/ AskNodeFails
  \/ LeaveSearch

-----------------------------------------------------------------------------
(***************************************************************************)
(* The whole site over the indexer.                                        *)
(***************************************************************************)
SiteInit == Init /\ ViewInit /\ SearchInit

Searching == vpc \in {"kernel", "output", "utxos", "references", "live kernels"}

\* The search alone ...
SearchNext ==
  \/ SearchStep /\ UNCHANGED vars
  \/ /\ Underneath
     /\ UNCHANGED <<query, answer, outage, sure>>
     /\ present' = IF Searching THEN present \cap Whereabouts(query.tx)' ELSE present

\* ... and beside the other pages.
SiteNext == (ViewStep /\ UNCHANGED <<vars, searchVars>>) \/ SearchNext

SiteSpec == SiteInit /\ [][SiteNext]_siteVars

-----------------------------------------------------------------------------
(***************************************************************************)
(* Properties of a search while the indexer runs.                          *)
(***************************************************************************)
\* "Not found" is never said of a transaction that the tables held, in the table
\* that is asked, from the beginning of the search to its end.
IndexedIsFound ==
  answer.status = "missing" =>
    /\ query.kind \in {"scalar", "excess"} => "kernels" \notin present
    /\ query.kind = "commitment" => "outputs" \notin present

\* Nor of one that was on the chain all the while, stored or not, if hosts and
\* database were reliable; only a bare signature scalar is not asked of the nodes.
MinedIsFound ==
  answer.status = "missing" /\ sure /\ "chain" \in present =>
    query.kind \in {"scalar", "other"}

(***************************************************************************)
(* What the sources say of the program, and the program does not do.       *)
(***************************************************************************)
\* Every configured host failing is returned as an error, and not as a result
\* that nothing was found.
OutageIsAnError == outage => answer.status # "missing"
=============================================================================
