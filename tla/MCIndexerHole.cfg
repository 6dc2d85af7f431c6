SPECIFICATION Spec
CONSTANTS
  follower = follower
  backfiller = backfiller
  MaxHeight = 3
  MaxForks = 0
  BatchSize = 1
  Followers <- JustFollower
  Backfillers <- Nobody
  FailingLookups <- NoLookup
INVARIANT FollowLeavesNoHole
