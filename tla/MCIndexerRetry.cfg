SPECIFICATION LiveSpec
CONSTANTS
  follower = follower
  backfiller = backfiller
  MaxHeight = 2
  MaxForks = 0
  BatchSize = 2
  Followers <- JustFollower
  Backfillers <- Nobody
  FailingLookups <- NoLookup
PROPERTY InterruptedBlockIsCompleted
