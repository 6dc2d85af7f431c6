SPECIFICATION TwoOrThree
CONSTANTS
  follower = follower
  backfiller = backfiller
  MaxHeight = 2
  MaxForks = 1
  BatchSize = 2
  Followers <- Nobody
  Backfillers <- OneBackfiller
  FailingLookups <- NoLookup
  PageSize = 1
  MaxAPILimit = 2
  Carries <- Delayed
  Searched <- TheFirst
INVARIANT SearchTypeOK
INVARIANT PageIsOneBlock
INVARIANT WalkShowsAll
INVARIANT IndexedIsFound
INVARIANT MinedIsFound
PROPERTY WalkRepeatsNothing
