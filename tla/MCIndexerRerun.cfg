SPECIFICATION Spec
CONSTANTS
  follower = follower
  backfiller = backfiller
  MaxHeight = 1
  MaxForks = 0
  BatchSize = 2
  Followers <- Nobody
  Backfillers <- OneBackfiller
  FailingLookups <- AnyLookup
PROPERTY RerunKeepsDifficulties
