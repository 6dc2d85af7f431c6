SPECIFICATION Spec
CONSTANTS
  TopPools = 1
  DefaultBucketSize = 2
  DefaultWindow = 1
  DefaultTo = 3
  RecentSample = 2
  Coinbases <- SomeCoinbases
  RawParams <- SomeParams
  Comparisons <- PicturesAndPairs
  MaxWrites = 1
INVARIANT ReportsTypeOK
INVARIANT ChartShowsTable
INVARIANT SharesAddUp
INVARIANT BreakdownAgrees
INVARIANT SameTopPools
INVARIANT SamplesAgree
INVARIANT OwnTagsAreExact
INVARIANT StuckOnlyOnOwnTags
