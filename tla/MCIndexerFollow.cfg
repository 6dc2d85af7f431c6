SPECIFICATION LiveSpec
CONSTANTS
  follower = follower
  backfiller = backfiller
  MaxHeight = 4
  MaxForks = 0
  BatchSize = 2
  Followers <- JustFollower
  Backfillers <- Nobody
  FailingLookups <- NoLookup
INVARIANT NoGaps
PROPERTY FollowNeverRewrites
PROPERTY BackfillCoversRange
PROPERTY CatchesUp
