------------------------------ MODULE Reports ------------------------------
(***************************************************************************)
(* The analysis pages (internal/server): a visitor opens a report, as a    *)
(* page or as JSON, and then, with the parameters that the page pins, its  *)
(* picture or another report of the same range.  Blocks are stored and     *)
(* replaced in the meantime, each attributed to a pool by what its         *)
(* coinbase carries.                                                       *)
(***************************************************************************)
EXTENDS Aggregates

CONSTANTS
  Coinbases,     \* the blocks that may be mined at each height
  RawParams,     \* the query strings that are sent
  Comparisons,   \* bound: the pairs of reports that are opened one after the other
  MaxWrites      \* bound: blocks stored while a visitor reads

Heights == DOMAIN Coinbases
Mined   == UNION {Coinbases[h] : h \in Heights}

ASSUME QueriesAssumption ==
  /\ Heights \subseteq Nat
  /\ \A c \in Mined : /\ c.extra \in Seq(STRING)
                      /\ \A i \in DOMAIN c.extra : c.extra[i] # "cut"
                      /\ c.coinbase # "present" => c.extra = <<>>   \* it is the coinbase's
                      /\ c.reward \in Nat
  /\ \A raw \in RawParams : {raw.bucketSize, raw.from, raw.to} \subseteq Nat \cup {Absent}
  /\ MaxWrites \in Nat

VARIABLES
  blocks,   \* the table, by height
  stuck,    \* blocks whose row the database refused
  rpc,      \* what the request does next
  view,     \* the report that was opened
  params,   \* its parameters
  first,    \* its answer
  summary,  \* the statistics over the whole range on the page of block times
  second,   \* the picture, or the answer of the report opened next
  other,    \* which report that is
  touched,  \* history: a row that the reports depend on was written since the first query
  writes    \* blocks stored since then

reportVars == <<rpc, view, params, first, summary, second, other, touched, writes>>
allVars    == <<blocks, stuck, reportVars>>

Views == {"algo-distribution", "pool-share", "block-time", "difficulty",
          "pool-algo-breakdown", "rewards-by-algo", "rewards-by-pool"}

NoAnswer == [b \in {} |-> 0]
NoParams == [bucketSize |-> 1, from |-> 0, to |-> 0, pool |-> NULL]

Init ==
  /\ blocks = [h \in {} |-> 0]
  /\ stuck = {}
  /\ rpc = "idle"
  /\ view = "none"
  /\ params = NoParams
  /\ first = NoAnswer
  /\ summary = NoAnswer
  /\ second = NoAnswer
  /\ other = "none"
  /\ touched = FALSE
  /\ writes = 0

-----------------------------------------------------------------------------
\* The row of a block; the extra is that of its coinbase output.
Row(c) ==
  [ poolTag |-> Attribute(c.coinbase, c.extra).poolTag,
    isOwnPool |-> Attribute(c.coinbase, c.extra).isOwnPool,
    powAlgo |-> AlgoFromRaw(c.powAlgoRaw),
    reward |-> IF c.coinbase = "present" THEN c.reward ELSE 0,
    difficulty |-> c.difficulty,
    timestamp |-> c.timestamp,
    extra |-> c.extra ]

Rows == [c \in Mined |-> Row(c)]

\* INSERT ... ON CONFLICT (height) DO UPDATE
Upserted(t, h, row) == [k \in DOMAIN t \cup {h} |-> IF k = h THEN row ELSE t[k]]

\* The statement fails if the tag is no text.
IndexBlock(h, c) ==
  LET row == Rows[c]
      under == rpc # "idle"
  IN
  /\ under => writes < MaxWrites
  /\ \/ IsText(row.poolTag) /\ blocks' = Upserted(blocks, h, row) /\ UNCHANGED stuck
     \/ ~IsText(row.poolTag) /\ stuck' = stuck \cup {[height |-> h, extra |-> c.extra]} /\ UNCHANGED blocks
  /\ writes' = IF under THEN writes + 1 ELSE 0
  /\ touched' = (touched \/ (under /\ params.from - 1 <= h /\ h <= params.to))
  /\ UNCHANGED <<rpc, view, params, first, summary, second, other>>

-----------------------------------------------------------------------------
Answers(v, p) ==
  CASE v = "algo-distribution"   -> AlgoBucketCounts(blocks, p)
    [] v = "pool-share"          -> PoolShareBucketCounts(blocks, p)
    [] v = "block-time"          -> BlockTimeDeltaBuckets(blocks, p)
    [] v = "difficulty"          -> DifficultyBucketAvg(blocks, p)
    [] v = "pool-algo-breakdown" -> AlgoBucketCountsForPool(blocks, p)
    [] v = "rewards-by-algo"     -> RewardBucketCountsByAlgo(blocks, p)
    [] v = "rewards-by-pool"     -> RewardBucketCountsByPool(blocks, p)

\* The parameters are read first, and with them the newest height; if that query
\* fails, the table counts as empty.
Open(v, raw, step) ==
  /\ rpc = "idle"
  /\ rpc' = step
  /\ view' = v
  /\ \E max \in {MaxIndexedHeight(blocks), 0} : params' = ParseAnalysisParams(raw, max)
  /\ UNCHANGED <<first, summary, second, other, touched, writes>>

\* The page of block times asks for the summary before the buckets of its table.
OpenPage(v, raw) == Open(v, raw, IF v = "block-time" THEN "summary" ELSE "query")

OpenJSON(v, raw) == Open(v, raw, "query")

SummariseBlockTimes ==
  /\ rpc = "summary"
  /\ rpc' = "table"
  /\ summary' = BlockTimeSummary(blocks, params)
  /\ touched' = FALSE
  /\ UNCHANGED <<view, params, first, second, other, writes>>

Query ==
  /\ rpc \in {"query", "table"}
  /\ rpc' = IF rpc = "table" THEN "summarised" ELSE "shown"
  /\ first' \in Answers(view, params)
  /\ touched' = (rpc = "table" /\ touched)
  /\ UNCHANGED <<view, params, summary, second, other, writes>>

\* The picture that the page embeds.
LoadPicture ==
  /\ rpc \in {"shown", "summarised"}
  /\ <<view, view>> \in Comparisons
  /\ LET p == ParseAnalysisParams(imgSrc(params), MaxIndexedHeight(blocks))
     IN  \E points \in Answers(view, p) : second' = Draw(points)
  /\ rpc' = "drawn"
  /\ other' = view
  /\ UNCHANGED <<view, params, first, summary, touched, writes>>

\* Another report with the same parameters; a pool is chosen from the options.
OpenNext(v, pool) ==
  /\ rpc \in {"shown", "summarised"}
  /\ <<view, v>> \in Comparisons /\ v # view
  /\ params' = [params EXCEPT !.pool = pool]
  /\ second' \in Answers(v, params')
  /\ rpc' = "compared"
  /\ other' = v
  /\ UNCHANGED <<view, first, summary, touched, writes>>

\* The panel of the front page.
OpenGlance ==
  /\ rpc = "idle"
  /\ rpc' = "glance"
  /\ first' = RecentBlocksStats(blocks)
  /\ second' = AlgoGlanceRows(first')
  /\ UNCHANGED <<view, params, summary, other, touched, writes>>

\* The visitor goes away, or a query fails and the page says so.
Leave ==
  /\ rpc # "idle"
  /\ rpc' = "idle"
  /\ view' = "none"
  /\ params' = NoParams
  /\ first' = NoAnswer
  /\ summary' = NoAnswer
  /\ second' = NoAnswer
  /\ other' = "none"
  /\ touched' = FALSE
  /\ writes' = 0

Read ==
  \/ \E v \in Views, raw \in RawParams : OpenPage(v, raw) \/ OpenJSON(v, raw)
  \/ SummariseBlockTimes
  \/ Query
  \/ LoadPicture
  \/ \E v \in Views, pool \in PoolOptions(blocks) : OpenNext(v, pool)
  \/ OpenGlance
  \/ Leave

Next ==
  \/ \E h \in Heights : \E c \in Coinbases[h] : IndexBlock(h, c)
  \/ Read /\ UNCHANGED <<blocks, stuck>>

Spec == Init /\ [][Next]_allVars

-----------------------------------------------------------------------------
(***************************************************************************)
(* Properties.                                                             *)
(***************************************************************************)
Bucketed(points) ==
  \A b \in DOMAIN points : /\ b % params.bucketSize = 0
                           /\ b <= params.to /\ b + params.bucketSize > params.from

ReportsTypeOK ==
  /\ DOMAIN blocks \subseteq Heights
  /\ \A h \in DOMAIN blocks : /\ blocks[h].powAlgo \in Algos
                              /\ IsText(blocks[h].poolTag)
  /\ stuck \subseteq [height : Heights, extra : {c.extra : c \in Mined}]
  /\ rpc \in {"idle", "summary", "table", "query", "shown", "summarised", "drawn",
              "compared", "glance"}
  /\ view \in Views \cup {"none"} /\ other \in Views \cup {"none"}
  /\ params.bucketSize \in Nat \ {0} /\ {params.from, params.to} \subseteq Nat
  /\ rpc \in {"shown", "summarised", "drawn", "compared"} => Bucketed(first)
  /\ touched \in BOOLEAN
  /\ writes \in 0 .. MaxWrites

\* No two answers to a ranking.
Untied == Cardinality(TopPoolChoices(blocks, Between(blocks, params))) = 1

\* The picture on a page shows the numbers of the table below it, unless a block
\* of the range was stored between the two requests.
ChartShowsTable ==
  rpc = "drawn" /\ ~touched =>
    \/ second = Draw(first)
    \/ view \in {"pool-share", "rewards-by-pool"} /\ ~Untied

\* The pools of a bucket have as many blocks, and as much reward, as its algorithms;
\* the glance shows every block of its sample once by pool and once by algorithm.
SharesAddUp ==
  /\ rpc = "compared" /\ ~touched
     /\ <<view, other>> \in {<<"pool-share", "algo-distribution">>,
                             <<"rewards-by-pool", "rewards-by-algo">>} =>
       /\ DOMAIN first = DOMAIN second
       /\ \A b \in DOMAIN first : Total(first[b]) = Total(second[b])
  /\ rpc = "glance" => Total(first.pools) = first.sample /\ Total(second) = first.sample

SeriesOf(points) == UNION {DOMAIN points[b] : b \in DOMAIN points}

\* A stored tag that is itself a mapped name, and not one of its family.
Stray(name) == \E h \in DOMAIN blocks : blocks[h].poolTag = name /\ ~IsOfPool(name, name)

\* Every pool in the pool share report can be selected for the breakdown by
\* algorithm, which then has the same blocks in every bucket.
BreakdownAgrees ==
  rpc = "compared" /\ ~touched /\ <<view, other>> = <<"pool-share", "pool-algo-breakdown">> =>
    LET pools == {k \in SeriesOf(first) \ {Unknown, Other} : ~Stray(k)}
    IN  /\ pools \subseteq PoolOptions(blocks)
        /\ params.pool \in pools =>
             \A b \in DOMAIN first :
               (IF params.pool \in DOMAIN first[b] THEN first[b][params.pool] ELSE 0)
                 = (IF b \in DOMAIN second THEN Total(second[b]) ELSE 0)

\* The two reports by pool single out the same pools.
SameTopPools ==
  rpc = "compared" /\ ~touched /\ Untied /\ <<view, other>> = <<"pool-share", "rewards-by-pool">> =>
    SeriesOf(first) = SeriesOf(second)

\* The summary of the block times covers exactly the samples of the table's buckets.
SamplesAgree ==
  rpc = "summarised" /\ ~touched =>
    /\ DOMAIN summary = SeriesOf(first)
    /\ \A b \in DOMAIN first : \A h \in DOMAIN first[b] : summary[h] = first[b][h]

\* What an own binary writes is stored as its tag, whatever the random suffix; and
\* every tag that poolattr calls ours is in the series that its table names.
OwnTagsAreExact ==
  \A h \in DOMAIN blocks :
    /\ IsWireFormat(blocks[h].extra) => /\ blocks[h].poolTag = MatchBytes(blocks[h].extra)
                                        /\ blocks[h].isOwnPool
    /\ blocks[h].isOwnPool =>
         MappedTag(blocks[h].poolTag) = ownPoolTags[OwnRow(blocks[h].extra)].canonicalName

\* The database refuses no block but one that calls itself ours and whose tag has
\* other than ASCII characters.
StuckOnlyOnOwnTags ==
  \A s \in stuck : OwnRow(s.extra) # 0 /\ asciiPrintableOnly(TruncBase(s.extra)) # TruncBase(s.extra)

(***************************************************************************)
(* What the sources say of the program, and the program does not do.       *)
(***************************************************************************)
\* Unmapped tags are "exactly as valid a literal ?pool= value [...] as any
\* CanonicalName": a stored tag that matches no entry of the mapping can be selected
\* for the breakdown, which then has its blocks.
UnmappedTagsAreSelectable ==
  rpc = "compared" /\ ~touched /\ other = "pool-algo-breakdown"
  /\ params.pool \in UnmappedPoolTags(blocks) =>
    \A h \in Between(blocks, params) :
      blocks[h].poolTag = params.pool => BucketStart(h, params) \in DOMAIN second
=============================================================================
