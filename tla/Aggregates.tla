----------------------------- MODULE Aggregates -----------------------------
(***************************************************************************)
(* The reports over the table of blocks: the aggregating queries of        *)
(* internal/db and the reshaping of their rows by internal/analysis.       *)
(*                                                                         *)
(* t is the table, a function from the stored heights to rows; p are the   *)
(* parameters of a report.  The answer of a report maps the first height   *)
(* of each of its buckets to the values of the bucket's series.  A ranking *)
(* with ties has several answers, so a query is the set of its answers.    *)
(***************************************************************************)
EXTENDS PoolAttr, FiniteSetsExt

CONSTANTS
  TopPools,           \* analysis.DefaultTopPools
  DefaultBucketSize,  \* analysis.DefaultBucketSize
  DefaultWindow,      \* defaultAnalysisWindowBlocks
  DefaultTo,          \* defaultAnalysisToHeight
  RecentSample        \* recentBlocksStatsSample

ASSUME ReportsAssumption ==
  /\ {TopPools, DefaultWindow} \subseteq Nat
  /\ {DefaultBucketSize, DefaultTo, RecentSample} \subseteq Nat \ {0}

Absent == -1   \* a parameter that is missing or not a number

-----------------------------------------------------------------------------
Mapping(prefix, name) == [matchPrefix |-> <<prefix>>, canonicalName |-> <<name>>]

DefaultPoolTagMappings ==
  << Mapping("WUF", "Jagtech"), Mapping("Jagtech", "Jagtech"),
     Mapping("supportxtm-", "SupportXTM"), Mapping("GCPOOL-SOLO", "SupportXTM") >>

-----------------------------------------------------------------------------
(***************************************************************************)
(* parseAnalysisParams                                                     *)
(***************************************************************************)
MaxIndexedHeight(t) == IF DOMAIN t = {} THEN 0 ELSE Max(DOMAIN t)

DefaultFrom(max) == IF max < DefaultWindow THEN 0 ELSE max - DefaultWindow

\* A bucket size or an end of 0 counts as missing, a start of 0 does not.
ParseAnalysisParams(raw, max) ==
  [ bucketSize |-> IF raw.bucketSize \in {Absent, 0} THEN DefaultBucketSize ELSE raw.bucketSize,
    from |-> IF raw.from # Absent THEN raw.from ELSE DefaultFrom(max),
    to |-> CASE raw.to \notin {Absent, 0} -> raw.to
             [] raw.to \in {Absent, 0} /\ max = 0 -> DefaultTo
             [] OTHER -> max,
    pool |-> IF raw.pool # NULL THEN raw.pool ELSE DefaultPoolTagMappings[1].canonicalName ]

ImgSrcUnpinned(p) == [p EXCEPT !.to = Absent]   \* mutant: the end of the range is left out

\* The query string of the picture: every parameter as it was parsed.
imgSrc(p) == p

-----------------------------------------------------------------------------
Between(t, p) == {h \in DOMAIN t : p.from <= h /\ h <= p.to}

BucketNumber(h, p) == h \div p.bucketSize   \* mutant: the number of the bucket
BucketStart(h, p) == (h \div p.bucketSize) * p.bucketSize

\* GROUP BY bucket_start: the heights of each bucket.
PerBucket(S, p) ==
  [b \in {BucketStart(h, p) : h \in S} |-> {h \in S : BucketStart(h, p) = b}]

\* The sum of a function's values.
Total(f) == FoldFunction(+, 0, f)

\* COUNT(*) and SUM(reward_micro_minotari) of the series of a bucket.
Counts(series) == [k \in DOMAIN series |-> Cardinality(series[k])]
Rewards(t, series) == [k \in DOMAIN series |-> Total([h \in series[k] |-> t[h].reward])]

\* A bucket's heights, one series per algorithm.
ByAlgo(t, S) == [a \in Algos |-> {h \in S : t[h].powAlgo = a}]

-----------------------------------------------------------------------------
(***************************************************************************)
(* Reports per algorithm.                                                  *)
(***************************************************************************)
AlgoBucketCounts(t, p) ==
  LET B == PerBucket(Between(t, p), p) IN {[b \in DOMAIN B |-> Counts(ByAlgo(t, B[b]))]}

RewardBucketCountsByAlgo(t, p) ==
  LET B == PerBucket(Between(t, p), p) IN {[b \in DOMAIN B |-> Rewards(t, ByAlgo(t, B[b]))]}

\* AVG, kept as the sum and the number of rows.
Average(t, S) == [sum |-> Total([h \in S |-> t[h].difficulty]), rows |-> Cardinality(S)]

\* A column whose average is NULL is no series of the bucket.
AveragePerAlgo(t, S) ==
  [a \in {t[h].powAlgo : h \in S} |-> Average(t, {h \in S : t[h].powAlgo = a})]

DifficultyBucketAvg(t, p) ==
  LET B == PerBucket(Between(t, p), p) IN {[b \in DOMAIN B |-> AveragePerAlgo(t, B[b])]}

-----------------------------------------------------------------------------
(***************************************************************************)
(* Reports per pool.                                                       *)
(***************************************************************************)
Unknown == <<"unknown">>
Other   == <<"other">>

\* CASE WHEN pool_tag LIKE ...: the first that matches.
MappedTag(tag) ==
  LET i == SelectInSeq(DefaultPoolTagMappings, LAMBDA m : IsPrefix(m.matchPrefix, tag))
  IN  IF tag # NULL /\ i # 0 THEN DefaultPoolTagMappings[i].canonicalName ELSE tag

ByMappedTag(t, S) ==
  [name \in {MappedTag(t[h].poolTag) : h \in S} \ {NULL} |-> {h \in S : MappedTag(t[h].poolTag) = name}]

\* ORDER BY ... DESC LIMIT n
Highest(rank) ==
  {top \in kSubset(Min({TopPools, Cardinality(DOMAIN rank)}), DOMAIN rank) :
     \A x \in top, y \in DOMAIN rank \ top : rank[x] >= rank[y]}

\* ... COUNT(*)
TopPoolChoices(t, S) == Highest(Counts(ByMappedTag(t, S)))

TopEarnerChoices(t, S) == Highest(Rewards(t, ByMappedTag(t, S)))   \* mutant: ... SUM(reward)

PoolKey(tag, top) ==
  LET name == MappedTag(tag)
  IN  IF name = NULL THEN Unknown ELSE IF name \in top THEN name ELSE Other

\* A bucket's heights, one series per pool that is on top, and two for the rest.
PerPool(t, S, top) ==
  [k \in {PoolKey(t[h].poolTag, top) : h \in S} |-> {h \in S : PoolKey(t[h].poolTag, top) = k}]

PoolShareBucketCounts(t, p) ==
  LET S == Between(t, p)
      B == PerBucket(S, p)
  IN  {[b \in DOMAIN B |-> Counts(PerPool(t, B[b], top))] : top \in TopPoolChoices(t, S)}

RewardsOfTopEarners(t, p) ==   \* mutant: the pools that earned most
  LET S == Between(t, p)
      B == PerBucket(S, p)
  IN  {[b \in DOMAIN B |-> Rewards(t, PerPool(t, B[b], top))] : top \in TopEarnerChoices(t, S)}

\* The top pools are those of the pool share report, and not those that earned most.
RewardBucketCountsByPool(t, p) ==
  LET S == Between(t, p)
      B == PerBucket(S, p)
  IN  {[b \in DOMAIN B |-> Rewards(t, PerPool(t, B[b], top))] : top \in TopPoolChoices(t, S)}

PrefixesOf(name) ==
  {m.matchPrefix : m \in {m \in ToSet(DefaultPoolTagMappings) : m.canonicalName = name}}

IsOfPoolOnePrefix(tag, name) ==   \* mutant: only the first entry of the name
  IF PrefixesOf(name) = {} THEN tag = name
  ELSE LET i == SelectInSeq(DefaultPoolTagMappings, LAMBDA m : m.canonicalName = name)
       IN  IsPrefix(DefaultPoolTagMappings[i].matchPrefix, tag)

\* A mapped name stands for all its prefixes, any other name for a literal tag.
IsOfPool(tag, name) ==
  IF PrefixesOf(name) = {} THEN tag = name
  ELSE \E prefix \in PrefixesOf(name) : IsPrefix(prefix, tag)

AlgoBucketCountsForPool(t, p) ==
  LET B == PerBucket({h \in Between(t, p) : IsOfPool(t[h].poolTag, p.pool)}, p)
  IN  {[b \in DOMAIN B |-> Counts(ByAlgo(t, B[b]))]}

UnmappedPoolTags(t) ==
  {tag \in {t[h].poolTag : h \in DOMAIN t} \ {NULL} :
     \A m \in ToSet(DefaultPoolTagMappings) : ~IsPrefix(m.matchPrefix, tag)}

PoolOptions(t) ==
  {m.canonicalName : m \in ToSet(DefaultPoolTagMappings)} \cup UnmappedPoolTags(t)

-----------------------------------------------------------------------------
(***************************************************************************)
(* Block times.  All the statistics of a bucket are functions of its       *)
(* samples, so the samples stand for them.                                 *)
(***************************************************************************)
\* LEFT JOIN blocks p ON p.height = b.height - 1; no predecessor, no sample.
Deltas(t, S) ==
  [h \in {h \in S : h - 1 \in DOMAIN t} |-> t[h].timestamp - t[h - 1].timestamp]

BlockTimeDeltaBuckets(t, p) == LET B == PerBucket(Between(t, p), p) IN {[b \in DOMAIN B |-> Deltas(t, B[b])]}

SummaryWithin(t, p) ==   \* mutant: the predecessor has to lie in the range too
  LET S == Between(t, p) IN Deltas(t, {h \in S : h - 1 \in S})

BlockTimeSummary(t, p) == Deltas(t, Between(t, p))

-----------------------------------------------------------------------------
(***************************************************************************)
(* The glance at the newest blocks.                                        *)
(***************************************************************************)
Newest(t) == {h \in DOMAIN t : Cardinality({k \in DOMAIN t : k > h}) < RecentSample}

RecentBlocksStats(t) ==
  LET S == Newest(t)
      Key(h) == IF t[h].poolTag = NULL THEN Unknown ELSE MappedTag(t[h].poolTag)
  IN  [ pools |-> [k \in {Key(h) : h \in S} |-> Cardinality({h \in S : Key(h) = k})],
        algos |-> AveragePerAlgo(t, S),
        sample |-> Cardinality(S) ]

\* Always the four algorithms, with 0 blocks where the sample has none.
AlgoGlanceRows(stats) ==
  [a \in Algos |-> IF a \in DOMAIN stats.algos THEN stats.algos[a].rows ELSE 0]

-----------------------------------------------------------------------------
(***************************************************************************)
(* internal/chartrender                                                    *)
(***************************************************************************)
NotEnoughData == [b \in {} |-> 0]   \* the placeholder has no point

\* The buckets of a chart's series, which have one bucket of each start at most.
DistinctXCount(points) == Cardinality(DOMAIN points)

\* A single bucket has no x range to draw.
Draw(points) == IF DistinctXCount(points) < 2 THEN NotEnoughData ELSE points
=============================================================================
