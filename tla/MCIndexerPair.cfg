SPECIFICATION Spec
CONSTANTS
  follower = follower
  backfiller = backfiller
  MaxHeight = 1
  MaxForks = 1
  BatchSize = 2
  Followers <- JustFollower
  Backfillers <- OneBackfiller
  FailingLookups <- AchievedLookup
INVARIANT TypeOK
INVARIANT IntactUnlessTorn
