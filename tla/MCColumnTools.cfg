SPECIFICATION ToolSpec
CONSTANTS
  follower = follower
  MaxHeight = 1
  MaxForks = 1
  BatchSize = 1
  Followers <- JustFollower
  Backfillers <- Nobody
  FailingLookups <- AchievedLookup
  ToolLacks <- SomeLookups
  Commands <- AllCommands
  MaxRuns = 1
INVARIANT ToolTypeOK
INVARIANT AchievedIsTheBlocksOwn
PROPERTY NewRowsAreLeftAlone
PROPERTY BatchIsBroughtUpToDate
CHECK_DEADLOCK FALSE
