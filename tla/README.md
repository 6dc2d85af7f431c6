# A verification project for go-tari-explorer

go-tari-explorer is a block explorer for the Tari chain. Processes that run for
ever or on demand copy blocks from base nodes into PostgreSQL, and a web server
answers from the database and, for some pages, from the base nodes. This
directory holds TLA+ models of that program, TLC configurations that check them
on small instances, and TLAPS proofs of what matters most for all instances.

Contents: [the system](#the-system), [how the models are built](#how-the-models-are-built),
[the modules](#the-modules), [the runs](#the-runs), [bounds, fairness and
deadlock](#bounds-fairness-and-deadlock), [the proofs](#the-proofs),
[findings](#findings), [what is not modelled](#what-is-not-modelled),
[the plan](#the-plan). `PROJECT.json` has the machine-readable side: which
definition models which lines, the mutation that each property detects, and the
catalogue of hazards.

## The system

| component | state it keeps | operations | interacts with |
| --- | --- | --- | --- |
| indexer (`internal/indexer`, `cmd/indexer`) | none of its own: its position is `MAX(height)` of table `blocks`; locals of `Backfill` and `indexBlock` | `Follow` (poll the tip, backfill what is above the highest row), `Backfill` (batches of 20), `indexBlock` (two tolerated lookups, three commits) | node client, database |
| node client (`internal/nodeclient`) | the list of hosts, lazily dialled connections, a cursor shared by all callers behind a mutex | `withFailover` and one method per RPC | base nodes; every other process |
| database layer (`internal/db`) | the tables `blocks`, `kernels`, `outputs`, three snapshot tables, `schema_migrations` | upserts, replace-in-a-transaction, aggregates, list queries, `Migrate` | PostgreSQL |
| column tools (`cmd/reattribute`, `cmd/reindex-rewards`, `cmd/backfill-*-difficulty`) | loop locals | read a batch twice, compare, `UPDATE` one column per height | database, node client; run beside the indexer |
| migrations (`internal/db/migrations`, `DB.Migrate`) | `schema_migrations` | check, execute and record each embedded migration | every long-running program runs it at its start |
| pollers (`internal/difficultypoller`, `templatepoller`, `mempoolpoller`, `cmd/*-poller`) | one snapshot table each | `Tick` after every interval | node client, database |
| rate limiter (`internal/server/ratelimit.go`) | map from client address to token bucket | `allow`, background sweep | the API handlers, concurrently |
| pages and API (`internal/server`) | none | pagination, detail pages read in several statements, analysis tables and charts | database, node client |
| transaction search (`internal/txsearch`) | none | stored kernel/output, then live mempool and chain lookups | database, node client |
| pool attribution (`internal/poolattr`) | none, a pure function of coinbase extra data | `Attribute` | indexer, reattribute |
| analysis (`internal/analysis`, `internal/chartrender`, `internal/server/analysis.go`) | none | seven reports, each as page, JSON and picture; the panel of the front page | database |

What is hard about it:

* **Commits that belong together are separate.** `indexBlock` commits the block
  row, then its kernels, then its outputs. A crash, an error, a second process
  or a reader may come between any two of them.
* **The only progress record is `MAX(height)`.** It says nothing of the rows
  below: holes, half-written blocks and blocks of an abandoned fork are below it
  for ever.
* **The nodes are several and may disagree.** A call is answered by whatever host
  works; a lagging host answers a range with fewer blocks and no error; a
  reorganisation may take place between two calls about the same height.
* **Values read are used later**: tools read a batch, then a second one, then
  write row by row, beside an indexer that inserts and replaces rows.
* **The cursor and the buckets are shared.** `withFailover` and `allow` hold their
  mutex only for part of what they do.
* **A page is several statements and several requests.** Nothing holds a snapshot of
  the database while a block page, a walk through the list, a search, or a report
  and its picture are put together.
* **Every program migrates.** The check whether a migration is applied and its
  execution are separate, and builds may differ.

What makes the components correct:

* *indexer*: block row, kernels and outputs of a height belong to one block unless
  a write was disturbed; no holes; a returned `Backfill` covers its range; the
  follower gets to every tip.
* *node client*: a call asks each host at most once and gives up only when all
  hosts have failed it; the cursor settles on a host that works.
* *rate limiter*: no client ever has two buckets; creating and evicting buckets is
  indistinguishable from one bucket per client for ever.
* *column tools*: they repair what they are for, leave newer rows alone, never
  store a value of another block where they look it up by hash, and a run that
  nothing disturbs leaves nothing for a rerun.
* *pollers*: a difficulty snapshot is that of the stored block, the newest block gets
  one, and what the front page shows never goes back to a lower height.
* *migrations*: a program that got through has its schema, each migration is
  committed once and only on top of its predecessors.
* *search and pages*: a block page shows one block; paging neither repeats nor drops
  a block; what is stored or on the chain all the while is found.
* *pool attribution*: what our own binaries write comes back as their tag, the two
  tables that name pools agree, and a tag that PostgreSQL would refuse can only come
  of an extra that calls itself ours.
* *analysis*: reports of the same range count the same blocks, and a picture shows
  the table it illustrates.

## How the models are built

The unit of interleaving is what the code cannot be interrupted in: one RPC, one
committed statement or transaction, one critical section. Between two of them any
other process may take a step: `indexBlock` alone is five of them. A process is a row of the program-counter function
`pc` and of the functions that hold its locals; a crash resets them and leaves the
tables.

A block is abstracted to its height and the number of the fork it was mined on.
Every value that a block determines (hash, pool tag, reward, difficulties,
kernels, outputs) is represented by that fork number: a column holds the fork of
the block its value came from, or `Absent` for NULL, zero or no row. This is what
the properties tell apart: whether values stored together come from one block.

Heights above `tip` in `chain` already carry the fork of the block that will be
mined there, so that mining only moves `tip`.

History variables record what a property has to refer to and the code does not
keep: `skipped` (heights that a short answer left out), `torn` (heights with a cut
short or overlapped write), in the tools `toMax`, `seen`, `quiet`, in `Migrate`
`committed`, in the pollers `rewritten`, `smooth`, in the views `untouched`,
`atStart`, in the search `present`, `outage`, `sure`, and in the reports `touched`.
No guard of an action depends on them.

Modules that run beside the indexer extend it and add their own step to its
next-state relation: `ColumnTools` does, and `BlockViews`, which `TxSearch` extends.
`Pollers` extends `Migrate`. The fork abstraction does not fit the reports, which
tell pools, algorithms and rewards apart, so `Reports` has a table of its own, with
rows made by `PoolAttr`.

## The modules

| module | models | role |
| --- | --- | --- |
| `Indexer` | `internal/indexer`, `cmd/indexer`, and the writes in `internal/db` it calls | any number of followers and backfills over the tables, and the nodes behind them |
| `IndexerProofs` | | theorems about `Indexer` |
| `ColumnTools` | `cmd/reattribute`, `cmd/reindex-rewards`, `cmd/backfill-adjusted-difficulty`, `cmd/backfill-achieved-difficulty` | extends `Indexer`: a tool that acts on the same tables and nodes, interleaved with the indexer |
| `ColumnToolsProofs` | | theorems about `ColumnTools` |
| `BlockViews` | the block page and the list of blocks in `internal/server/server.go` and `api.go`, and their queries | extends `Indexer`: a visitor's requests between the indexer's steps |
| `TxSearch` | `internal/txsearch`, `handleSearch` | extends `BlockViews`: searches in tables and nodes; `SiteSpec` is the whole site over the indexer |
| `SiteProofs` | | theorems about `BlockViews` and `TxSearch` |
| `Migrate` | `DB.Migrate` | programs of different builds that start at any time |
| `Pollers` | the three pollers, their commands, the queries that read their tables | extends `Migrate`: a program that polls once it has migrated |
| `PollersProofs` | | theorems about `Migrate` and `Pollers` |
| `PoolAttr` | `internal/poolattr` | pure: from coinbase extra to pool tag |
| `Aggregates` | the aggregating queries of `internal/db`, `internal/analysis`, the parameters of `internal/server/analysis.go`, what `internal/chartrender` draws at all | pure: from a table to the answers of the reports |
| `Reports` | the handlers of `internal/server/analysis.go` and the panel of the front page, over `indexBlock` | a visitor who reads reports while blocks are stored |
| `ReportsProofs` | | theorems about `PoolAttr`, `Aggregates` and `Reports` |
| `SetInduction` | | least and greatest elements, and induction over naturals and finite sets, for the proofs |
| `AnyHost` | | abstract: what a node-client call promises |
| `Failover` | `withFailover`, `startIndex`, `nextIndex`, `setIndex`, `client` | the shared cursor; implements `AnyHost` |
| `FailoverProofs` | | theorems about `Failover` |
| `TokenBucket` | | abstract: one everlasting bucket per client |
| `RateLimit` | `allow`, `evictIdle`, `sweepLoop`, and `golang.org/x/time/rate` as used | implements `TokenBucket` |
| `RateLimitProofs` | | theorems about `RateLimit` |
| `MCIndexer`, `MCColumnTools`, `MCSite`, `MCPollers`, `MCReports` | | constants for TLC |

### Indexer

State: `blocks`, `kernels`, `outputs` are the tables; `chain`, `tip`, `forks` are
the nodes; `pc`, `best`, `from`, `to`, `start`, `batch`, `row` are the locals of
`Follow`, `Backfill` and `indexBlock`.

| action | code |
| --- | --- |
| `PollTip` | `Follow`: `GetTipInfo`; a host may report any height up to the tip |
| `ReadMax` | `Follow`: `MaxIndexedHeight`, `from = last + 1` or the tip itself when the answer is 0, and the call of `Backfill` if `from <= to` |
| `StartBackfill` | `cmd/indexer -mode backfill`, `-to 0` meaning the tip |
| `Fetch` | `GetBlockByHeight` for a batch; a lagging host leaves heights out |
| `EndBatch` | the loop step of `Backfill`, or its return |
| `IndexBlock` | `indexBlock` begins with the next block of the batch: `GetNetworkDifficulty` by height (height 0 counts as not given); failure leaves the values absent |
| `LookUpHeader` | `GetHeaderByHash` for the achieved difficulty; failure leaves it absent |
| `WriteRow`, `WriteKernels`, `WriteOutputs` | `UpsertBlock`, `ReplaceKernelsForBlock`, `ReplaceOutputsForBlock`, one commit each |
| `Abort` | an error that returns through `Backfill`, or the end of the process: a follower is next at the top of its loop in both cases |
| `Mine`, `Reorg`, `Settle` | the nodes, and the end of all outages |

A batch is handled in the order of its heights, which is the order in which a node
streams the blocks it was asked for. A retry of a failed poll is a poll that has not
happened yet, so it is not an action. `Backfill` handles a height whose block has no header by an error: that
is `Abort`.

### ColumnTools

One tool runs at a time, beside the indexer (`Meanwhile` is any step of `Indexer`).
The four programs have the same control: `StartTool` (flags; `-to 0` reads
`MaxIndexedHeight` once), a first and a second read of a batch, one `UpdateRow` per
height in ascending order, `NextBatch`, and `Die` for `log.Fatalf`, an error or a
kill. What they read is a disjunct per program: `BlocksInHeightRange` and
`CoinbaseExtraForHeightRange` (reattribute, database only), `HashesForHeightRange`
(achieved), `FetchBlocks` (rewards), `FetchDifficulties` (adjusted);
`ValuesForHeightRange` is the second read of the last three. `AskHeader` is
the lookup by hash that backfill-achieved-difficulty makes between its reads and each
`UpdateRow`; `SkipRow` is the
per-height failure that backfill-achieved-difficulty tolerates. The tag that
reattribute computes from outputs is abstracted to "the tag of the block whose
coinbase is stored, or none".

### BlockViews and TxSearch

One visitor makes one request at a time; `vpc` is what the request does next, and
`Underneath` is any step of `Indexer` meanwhile.

| action | code |
| --- | --- |
| `GetBlock`, `GetKernelsForBlock`, `GetOutputsForBlock` | the three statements of the block page and of its JSON form |
| `OpenList`, `LoadMore` | the front page's list, `/blocks/partial?before=` and `/api/blocks?before=&limit=`: keyset pages, the next cursor being the last row's height |
| `StartSearch` | `Search`: the shape of the input decides which lookups are made |
| `LookUp`, `LookUpFails` | the stored kernel and output lookups; an error is returned |
| `AskNode`, `AskNodeFails` | the live lookups of UTXOs, payment references and kernels; an error is dropped and counts as no hit |
| `Leave`, `LeaveSearch` | the response is sent; in the middle of a request, an error page |

`SearchNext` is a search beside the indexer, and `SiteNext` adds the other pages.

A block carries one transaction, and `Carries` says which one each fork has at each
height, so that a reorganisation may move it to another height. Input is
abstracted to its kind (the signature scalar, commitment, payment reference or
excess signature of a transaction, or anything else).

### Migrate and Pollers

`Start` launches a program; `CreateTable`, then for each embedded version `Check`,
`Apply` (the statements of an open transaction, which wait for another program's
transaction of the same version), `Record` (the insert, refused for a version
recorded meanwhile) and `Commit`; `Return`. `Fail` and `LoseCreateTable` are
`log.Fatalf` or a kill, after which the program may be started again.

A behaviour of `Pollers` follows one poller (`kind`), since they share nothing but
the schema. `ReadBlocks` and `BeginTemplates` begin a tick, `FetchTemplate`,
`Upsert` and `SkipAlgo` are its work for one algorithm; `FetchStats` and
`InsertStats` are the tick of the third, and `LoseStats` is an insert that fails or a
death before it. `Restart` is a death in the middle of a tick over the algorithms. `WriteBlock`,
`NodesMove` and `MempoolMoves` are the world it observes.

### PoolAttr, Aggregates and Reports

`PoolAttr` is a function on sequences of units: the words that the tables know,
and single characters, control characters, NULs and bytes that are not UTF-8;
`Width` keeps the number of bytes, since tags are cut at a byte offset. A cut word
leaves ASCII characters, a cut rune leaves a unit that is no text. A query in
`Aggregates` is the set of its possible answers, because a ranking with ties has
several. `Reports` has one visitor: `OpenPage` or `OpenJSON` (parameters, with the
newest height as default), `SummariseBlockTimes` and `Query`, then `LoadPicture`
(the image of the page, a request with pinned parameters) or `OpenNext` (another
report with the same parameters), or `OpenGlance`. `IndexBlock` stores a block at
any time, or fails when PostgreSQL refuses its tag.

### Failover and AnyHost

A call is `Begin` (`startIndex`), then `Succeed` or `Fail` per attempt (dialling
included), then `ReturnResult` (`setIndex`) or `TryNext` (`nextIndex`, and the next
attempt or the joined error). `AnyHost` knows nothing of cursors: a call collects
refusals from distinct hosts, is answered unless all have refused, and fails only
when all have. The refinement maps `refused` to the errors collected.

### RateLimit and TokenBucket

`FindBucket` is `allow` under the mutex, `TakeToken` is `limiter.Allow()` after the
unlock; `ReadClock` and `EvictIdle` are the two halves of a sweep, because the time
is read before the mutex is taken. Time is counted in tokens (one per second).
`TokenBucket` is one bucket per address that is never dropped; the refinement maps
the level of an address without an entry to a full bucket.

## The runs

| run | instance | states | checks | shows |
| --- | --- | --- | --- | --- |
| `indexer_follow` | 1 follower, heights 0..4, batches of 2, no forks | 608 k | `NoGaps`, `FollowNeverRewrites`, `BackfillCoversRange`, `CatchesUp` | with lagging hosts, failures and restarts at any step: no hole except where an answer was short, no row written twice, no range returned uncovered, every tip reached once outages end |
| `indexer_pair` | 1 follower and 1 backfill, heights 0..1, 1 reorganisation | 8.0 M | `TypeOK`, `IntactUnlessTorn` | two writers, crashes and forks: row, kernels and outputs belong together wherever no write was cut short or overlapped |
| `indexer_retry` | 1 follower, heights 0..2 | | `InterruptedBlockIsCompleted` | **violated**: see findings |
| `indexer_rerun` | 1 backfill, heights 0..1, lookups may fail | | `RerunKeepsDifficulties` | **violated**: see findings |
| `columntools` | any tool once, 1 follower, heights 0..1, batches of 1, 1 reorganisation, lookups may fail | 4.4 M | `ToolTypeOK`, `AchievedIsTheBlocksOwn`, `NewRowsAreLeftAlone`, `BatchIsBroughtUpToDate` | what the tools keep although the rows and the chain change under them |
| `reattribute` | reattribute, 1 follower, heights 0..1 | | `ReattributionKeepsTags` | **violated**: see findings |
| `failover` | 4 hosts, 2 callers, 1 host change | 203 k | `TypeOK`, `ImplementsAnyHost`, `SettlesOnWorkingHost` | the contract of a call holds whatever others do to the cursor, and the cursor settles |
| `ratelimit` | 2 clients, 2 handlers, burst 2, idle limit 3, 6 units of time | 1.1 M | `TypeOK`, `OneBucketPerClient`, `ImplementsTokenBucket` | racing requests and sweeps cannot be told from one bucket per client |
| `pollers` | 2 programs with builds {1, 2, 3} and {1, 3}; each poller | 80 k | `PollersTypeOK`, `ReadyHasSchema`, `AppliedInOrder`, `CommittedOnce`, `EveryoneGetsReady`, `SnapshotIsTheBlock`, `TickBringsPageUpToDate`, `PageNeverGoesBack`, `NewestIsRecorded` | racing and failing migrations leave every program with its schema; snapshots are right and complete although ticks fail, hosts lag and rows change under a tick |
| `site` | 1 backfill, 1 reorganisation that moves the transaction; heights 0..1 with any page, walk or search and outages, heights 1..2 with searches only | 7.1 M | `SearchTypeOK`, `PageIsOneBlock`, `WalkShowsAll`, `WalkRepeatsNothing`, `IndexedIsFound`, `MinedIsFound` | what a visitor sees while the indexer writes; a transaction that is all the while somewhere is found although it changes its height, on the chain and in the tables, between two lookups |
| `txsearch` | 1 backfill, heights 0..1, 1 reorganisation | | `OutageIsAnError` | **violated**: see findings |
| `reports` | 3 heights, 13 shapes of coinbase at the lowest; any report followed by its picture or a comparable report | 1.5 M | `ReportsTypeOK`, `ChartShowsTable`, `SharesAddUp`, `BreakdownAgrees`, `SameTopPools`, `SamplesAgree`, `OwnTagsAreExact`, `StuckOnlyOnOwnTags` | reports that are put side by side agree, whatever ranking ties, bucket sizes and ranges there are |

Every property of a passing run is paired with a change of one modelled definition
that breaks it (operators marked `mutant` in the modules; `PROJECT.json`,
`mutants`): an exclusive bound, an insert without the delete, a lookup outside the
lock, a header looked up by height, and so on.

## Bounds, fairness and deadlock

* `indexer_follow`: five heights and batches of two give ranges of up to three
  batches, a short last one, and a poll that starts in the middle of a range that
  was partly indexed. Without forks, because the four properties do not mention
  which block is stored; one follower, because `NoGaps`, `FollowNeverRewrites`
  and `CatchesUp` are claims about one.
* `indexer_pair`: what can go wrong between two writers happens at one height, with
  two forks; a second height lets batches hold two blocks. The theorem covers the
  rest.
* `columntools`: one run of a tool, two heights and batches of one, so that a run
  has more than one batch and new rows appear above its end.
* `failover`: the protocol has no counter besides the attempt, so four hosts show
  wrap-around from every start with hosts on both sides of it.
* `ratelimit`: six units are twice the idle limit, so that a bucket is created,
  emptied, evicted, re-created and evicted again.
* `pollers`: of three migrations one build lacks the middle one, so that what is
  applied need not be a prefix. Two algorithms, two heights with two contents each
  let a newest block be overtaken, rewritten or change its algorithm between the
  read and the insert. Two mempool snapshots are enough, since no tick looks at an
  earlier one. `Half` stands for 2^31, and 2 is enough for counts on both sides of the
  wrap.
* `site`: pages of one row, and limits of up to two, over two heights make walks of
  several pages; a lone backfill (which may be started again on any range) writes
  at, above and below what is being read. A reorganisation mines the searched
  transaction one block higher (`Delayed`), which takes a third height; to keep the
  instance small, `TwoOrThree` allows that height only for searches, with genesis not
  indexed and outages over. There a searched transaction moves on the chain and in the
  tables between two lookups. The theorems cover everything at once, for any placement
  of transactions.
* `reports`: `MCReports` names the shapes: one for every row of the tag tables that
  differs in kind, tags cut in the middle of a character, controls and NULs, no
  coinbase, empty extra. `TopPools` 1 makes "other" and ties, `DefaultBucketSize` 2,
  `DefaultWindow` 1 and `RecentSample` 2 make every default differ from its
  neighbours, and `MaxWrites` 1 lets a block be stored between two requests.

`MaxHeight`, `MaxForks`, `MaxRuns`, `MaxChanges`, `MaxTime`, `MaxValue`, `MaxTicks`,
`MaxWrites`, `Searched` and `Comparisons` are bounds of the
checked instance and have no counterpart in the code. `MaxStall` is an assumption
about the scheduler, see below.

Fairness. `Indexer!LiveSpec` assumes that each process goes on (`Follow`'s `select`
wakes up after every interval, RPCs and statements return) and that outages end at
some time (`Settle`: from then on hosts agree with the best chain, lookups succeed
and no process dies). It assumes nothing about mining. An RPC to a host that
accepts a connection and never answers is excluded: the code has no deadline per
attempt, so nothing could be promised. `Failover!LiveSpec` assumes that a call in
progress goes on, and nothing about new calls; a host that keeps changing is
excluded by the bound `MaxChanges`. As long as changes are left, an RPC may also
fail on a host that is up (a cancelled context, a header that is not found): to
`withFailover` every error is the host's, so a steady stream of such errors keeps
the cursor moving, and `SettlesOnWorkingHost` is about the time after them.
`PollersLiveSpec` assumes that a program that has exited is started again (the
deployment's restart policy), that a started program goes on, that outages end
(`Stabilise`) and that `Run`'s `select` wakes up; it assumes nothing about blocks.
The liveness properties are `CatchesUp`, `SettlesOnWorkingHost`, `EveryoneGetsReady`
and `NewestIsRecorded`.

Deadlock is checked except in `columntools` and `ratelimit`, which stop at their
bounds (`MaxRuns` with everything indexed and no fork left; `MaxTime`). A follower
polls for ever, and a backfill may be started again, so the indexer does not stop.
A poller starts the next tick, and a visitor the next request.

## The proofs

`TLAPS` checks eight modules. All theorems hold for every value of the constants
that satisfies the named assumptions. Theorems about a follower that is alone with
the tables state it (`OneFollower`: one process, no backfill).

Induction. The library's induction theorems take a predicate as a parameter, which
the provers cannot instantiate. `SetInduction` therefore proves, from
well-foundedness, the principles in *set form*: a set of naturals that holds 0 and
successors is `Nat`; a family of subsets of a finite set that holds `{}` and grows
by single elements holds the whole set. What a recursive function or a fold of the
community modules computes is proved from these: first that a function satisfying
the recursion exists for every length or set, then that any two agree.

**IndexerProofs**, from `BoundsAssumption` and `ProcsAssumption`, for any sets of
followers and backfills, any number of heights and reorganisations, any batch size.

* `TypeCorrect`: `Spec => []TypeOK`, one step per action; `GoIdleType` and
  `EnterBackfillType` serve the actions that share those parts.
* `IntactUnlessTornHolds`: the property alone is not inductive, since it is silent
  while a height is being written. `TornInv` adds `WritesAgree` (between its
  commits a writer of a height that is not torn finds its own block in the row,
  and in the kernels after the second commit) and `OverlapIsTorn` (two writers of
  one height imply that it is torn).
* `BackfillCoversRangeHolds`: the action property follows from `CoverInv`: the
  heights of `from` up to `start` are stored or were skipped
  (`EarlierBatchesCovered`), those of the present batch are stored, skipped or
  still pending in `batch` or `row` (`BatchCoveredOrPending`), and rows under way
  hold real blocks (`RowsAreBlocks`). At the return nothing is pending and
  `start + BatchSize > to`.
* `FollowNeverRewritesHolds`, for one follower: `WritesAscend` says that nothing
  above genesis is stored at or above the height that is written next, nor at the
  heights of the batch that are still to come. At `ReadMax` it holds because the
  loop resumes above the maximum, and after an abort it holds because nothing is
  under way.
* `NoGapsHolds`, for one follower: by `CoverInv` nothing is missing from `from` up
  to the height being written; `CoveredBelow` says the same of the heights from any
  stored one up to `from`. So a new highest row has no hole below it.

The lemmas `StepKinds`, `OnlyWriteRowStores`, `OnlyReorgMovesTheChain`, `OwnSteps`,
`NewRowIsIndexed` and `NewBlocksAreFetched` say which steps can change what; the
proofs about the tools and the site cite them instead of splitting `Next` again.

**SiteProofs**, from these and `PagesAssumption` and `CarriesAssumption`, for any
number of indexer processes, any page sizes and any placement of transactions.
`SiteImplementsIndexer` (a visitor changes nothing) makes the indexer's invariants
available.

* `PageIsOneBlockHolds`: `IntactUnlessTorn` gives the first statement's row its
  kernels and outputs, and `PageInv` carries them to the later statements while
  nothing is written at the height.
* `WalkShowsAllHolds`, `WalkRepeatsNothingHolds`: `WalkInv` ties the cursor to what
  was shown (all that was stored at the start and is not below the cursor, and
  nothing that is below it); `OnePage` is the lemma about a page, and rows never
  go away (`StoredStays`).
* `IndexedIsFoundHolds`, `MinedIsFoundHolds`: `SearchInv` ties the lookup to the kind
  of the query, `TablesAsked` and `NodesAsked` say what the lookups so far rule out.
* `SiteTypeCorrect`.

**ColumnToolsProofs**, from these and `ToolsAssumption`, for any subset of the
commands, flags and batch size.

* `ToolTypeCorrect` and `BatchIsBroughtUpToDateHolds`, beside any number of indexers.
  The latter needs `QuietInv`: in a batch that nothing disturbs, a value found is
  that of a row still to be compared, whose old value is the stored one, or the
  row has it already.
* `NewRowsAreLeftAloneHolds`, beside one follower: `SeenInv` says that what is stored
  up to the end of the range was there at the start. It rests on `WritesAscend`,
  which the tool does not disturb.
* `AchievedIsTheBlocksOwnHolds`, beside one follower: by `OwnInv` the rows a batch
  is about hold the blocks whose hashes were read. The follower rewrites no row but
  genesis, which is the same block on every fork (`GenesisInv`), and between the lookup
  and the `UPDATE` the value is that of the stored row.

**PollersProofs**, about `Migrate` from `EmbeddedAssumption`, for any number of programs and of
versions, each build embedding any of them: `MigrateTypeCorrect`,
`ReadyHasSchemaHolds`, `AppliedInOrderHolds`, `CommittedOnceHolds`. `MigrateInv` adds
that schema and record go together (`SchemaIsRecorded`), that what a loop has left
behind is applied (`PassedIsApplied`), and that open transactions are of different
versions and have found none recorded (`TransactionsExclude`).

The same module about `Pollers`, from `PollersAssumption`, on top of `MigrateInv`:
`PollersTypeCorrect`, `SnapshotIsTheBlockHolds`, `PageNeverGoesBackHolds`,
`TickBringsPageUpToDateHolds`. What a tick has read and not yet inserted is the
stored block unless that was rewritten (`ReadIsTheBlock`), and in a tick that met no
error and no write the newest block of each algorithm is either still to be inserted
or has its snapshot (`SmoothTick`).

**FailoverProofs**, from `HostsAssumption`, for any number of hosts and callers.

* `TypeCorrect`, with lemmas on `%` for `Target` and `NextIndex`.
* `ImplementsAnyHostHolds`: initial states map to initial states and each step to a
  step or a stutter. It needs `ErrsAreAttempts`: the hosts whose errors were
  collected are exactly the targets of the attempts so far. Since attempts below
  `N` have different targets, the next target is not among them, and after the
  `N`-th failure they are all hosts.

**RateLimitProofs**, from `LimiterAssumption`: `MaxStall + Burst <= IdleEvict`. In
the code the idle limit is 600 units and the burst 5, so a handler would have to
be held up for almost ten minutes between unlocking and `Allow()` to falsify it.

* `TypeCorrect`, `OneBucketPerClientHolds`, `ImplementsTokenBucketHolds`, from an
  invariant that joins `TypeOK`, `FoundInv` (a bucket that a request has found is in
  the map, was seen no earlier than that and at most `MaxStall` ago) and `TimeInv`
  (nothing is dated in the future, and a token was last taken at most `MaxStall`
  after the bucket was last seen). An evicted bucket has gained at least `Burst`
  tokens since it was last charged, so dropping it changes no level.

**ReportsProofs**, from `ReportsAssumption` and `QueriesAssumption` (parameters,
rewards and bounds are naturals, a coinbase extra is a sequence of units that holds
no cut character, and only a coinbase has an extra), for any heights, blocks, query
strings, pairs of reports and number of writes.

* `ReportsTypeCorrect`, from `Types`, which adds that the table is finite, that its
  rewards are integers and that parameters are settled (`IsParams`). The part that
  takes work: every bucket of every report begins at a multiple of the size and
  overlaps the range (`AnswersAreInRange`).
* `SamplesAgreeHolds`, `ChartShowsTableHolds`, `SameTopPoolsHolds`: none of the three
  is inductive, since it speaks of two answers and the step that gives the second
  one knows nothing of the first. `AnswersInv` says that while `touched` is false
  `first`, `summary` and `second` are answers that the *present* table would give.
  A write outside the range, and outside the row below it, that block times refer
  to, changes no answer (`AnswersStay`, from one lemma per report), and pinned
  parameters parse to themselves (`SettledStays`). Without a tie a ranking has one
  answer (`OneChoice`, `OneAnswer`).
* `SharesAddUpHolds`: a `GROUP BY` into any groups that cover the rows without overlap
  keeps every additive total (`GroupsAddUp`, from `TotalSplit`, by induction over the
  groups), and `COUNT` and `SUM` are additive; the series per pool, with "other" and
  "unknown", and those per algorithm are both such groups (`SeriesArePartitions`).
  `GlanceInv` does the same for the front page.
* `BreakdownAgreesHolds`: `OneMatch` (no tag begins with two of the mapped prefixes)
  makes the name of a tag and the prefixes of a name inverse to each other, so that
  `WHERE ... LIKE` finds the rows that `CASE ... LIKE` counted.
* `OwnTagsAreExactHolds` and `StuckOnlyOnOwnTagsHolds`, for *every* coinbase extra:
  `MappedUnits` and `Truncated` say what the filters and the cut at a byte offset
  leave, `RowsAre` and `OwnRowIs` what the first matching row of the table has.
  `WireTag` goes through the fifteen base tags; the rows of `-pplns` and `-solo` come
  before the bare one, so the length of the bare tag never cuts theirs.
  The invariant behind the first is that every stored row is `Row` of a block that
  was mined (`RowsInv`).

Every safety invariant and every action property of a passing run, and both
refinements, are thus stated by a theorem. Only model-checked are the liveness
properties (`CatchesUp`, `SettlesOnWorkingHost`, `EveryoneGetsReady`,
`NewestIsRecorded`): TLAPS proves nothing under fairness.

## Findings

Eight statements in the sources are not what the program does. The first four are
each the property of a run that TLC refutes.

1. `indexer_retry`. A failed `Backfill` is logged with "(will retry)"
   (`internal/indexer/indexer.go:93`). The retry starts at `MaxIndexedHeight` + 1.
   If `indexBlock` failed after `UpsertBlock`, the interrupted block is at that
   maximum already, and its kernels and outputs are never written. Only an explicit
   backfill of that height repairs it.
2. `indexer_rerun`. `Backfill` is called "Safe to re-run over an already-indexed
   range" (`internal/indexer/indexer.go:42`). A lookup that fails during the
   re-run is tolerated by writing 0 or NULL over the value captured before.
   Genesis is exempt from the property: a host may fail its difficulty always.
3. `reattribute`. The tool is called safe beside a running follower
   (`cmd/reattribute/main.go:14`) because it reads the highest height once. That
   highest block may be between its commits: its row is there, its coinbase is not,
   and the tool sets its pool tag to NULL. The follower never writes that row
   again.
4. `txsearch`. `Search` returns as errors "only genuine lookup failures (a DB error
   [...] or every configured node host failing)"
   (`internal/txsearch/txsearch.go:122`). The live lookups are used if `err == nil`
   and their errors are dropped (lines 160, 164, 196): when every host fails, the
   page says that nothing was found.

Four more are properties of the modules, each with a configuration that refutes it
within a second or two and that is to be run by hand (it is none of the runs above):

5. `FollowLeavesNoHole` (`MCIndexer`, `MCIndexerHole.cfg`). `Backfill` "walks heights
   [from, to] inclusive" (`internal/indexer/indexer.go:41`), but it indexes the blocks
   that a host returns and does not compare them with the heights it asked for. If the
   host that answers one batch lags and the host that answers the next one does not,
   the heights of the first batch are below `MAX(height)` from then on, and `Follow`
   never comes back to them. `NoGaps` says that there are no other holes.
6. `ResumesAboveLastIndexed` (`MCIndexer`, `MCIndexerGenesis.cfg`). `Follow` goes on
   "from the last indexed height (exclusive)" (`internal/indexer/indexer.go:67`), and
   from the tip if nothing is indexed. The test for that is `last == 0`, which is also
   the answer when genesis is indexed: the follower then jumps to the tip.
7. `PageShowsLiveDifficulty` (`MCPollers`, `MCStaleSnapshot.cfg`). The stat cards show
   the "current difficulty per algo", which "could technically be recomputed live from
   `blocks`" (`internal/db/db.go:1701-1705`). A snapshot of a height is never replaced
   (`ON CONFLICT DO NOTHING`): if the block of that height was indexed again with
   another difficulty, the page shows the first one until a higher block comes.
8. `UnmappedTagsAreSelectable` (`MCReports`, `MCUnmapped.cfg`). Unmapped tags "are
   exactly as valid a literal ?pool= value" (`internal/db/db.go:1273-1277`). A stored
   tag that equals a mapped name but has none of its prefixes, such as `SupportXTM`, is
   offered for selection, and the breakdown for it selects by the prefixes and leaves
   its blocks out.

What the sources promise nowhere, and the properties therefore exempt:

* the height that a writer is cut short at, or that two writers overlap at. Finding 1
  is the case that is promised; `IntactUnlessTorn` says that the damage stays there.
* a block page whose height is written between its statements, and a report whose
  range is written between its statements. Each such page is of two states of the
  table; `PageIsOneBlock` and `SamplesAgree` say that no other write does that.
* an own tag with characters that are not ASCII, which is cut at a byte offset.
  `StuckOnlyOnOwnTags` says that no other extra ends in a tag that PostgreSQL refuses.
* a mempool of 2^31 transactions, whose count is stored as a negative number: the
  insert is not refused, which is what `PollersTypeOK` says.
* ties in a ranking, which two statements may break differently (`SameTopPools`,
  `ChartShowsTable`), and batches of a tool that the indexer or a failing lookup
  interfered with (`BatchIsBroughtUpToDate`).

## What is not modelled

* Chart drawing, HTML templates, number formatting, the order of series: no state,
  and no property is about layout. Whether a chart is drawn at all is modelled.
* The live mempool page (`internal/server/mempool.go`) and the state of a
  transaction (`CheckTransactionState`): each renders the answer of one call, and
  keeps nothing. The history query behind the mempool chart is one `SELECT` of rows
  that are only ever added, in the order of a column.
* `internal/config`: environment variables read once; their values are constants.
* `internal/poolstats`: a stateless HTTP client of other services.
* `cmd/server`: wiring and shutdown of `net/http`.
* `cmd/devseed`, `cmd/devfakenode`, `cmd/algobuckets`: development helpers.
* `docs/openapi`: an embedded document.
* Base nodes and PostgreSQL are environment: modelled by what the code can observe
  of them (an answer, a short answer, an error, an atomic statement).
* Ties in PostgreSQL's order are a nondeterministic choice; its connection pool is
  left out.

## The plan

The modules were written in the order of importance, and all of them exist:

1. *Indexer* with its proofs: the data everything else reads.
2. *Failover* and *RateLimit*: the two pieces of shared mutable state, each with an
   abstract specification it implements.
3. *ColumnTools*: composed with *Indexer*.
4. *Migrate*, and *Pollers* on top of it.
5. *BlockViews* and *TxSearch*: composed with *Indexer*.
6. *PoolAttr*, *Aggregates* and *Reports*.

What could come next:

* theorems that carry the abstractions further, for instance that what a search
  reports as mined is shown by the block page that it links to;
* an instance of `site` with a follower beside the backfill, should the machine that
  checks it allow more than a few million states;
* the proofs of one tool beside one follower for several followers, under the
  assumption that their hosts agree on the chain.
