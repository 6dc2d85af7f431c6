SPECIFICATION ToolSpec
CONSTANTS
  follower = follower
  MaxHeight = 1
  MaxForks = 0
  BatchSize = 2
  Followers <- JustFollower
  Backfillers <- Nobody
  FailingLookups <- NoLookup
  ToolLacks <- NoLookup
  Commands <- Reattribute
  MaxRuns = 1
PROPERTY ReattributionKeepsTags
