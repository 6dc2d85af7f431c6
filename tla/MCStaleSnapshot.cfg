SPECIFICATION PollersSpec
CONSTANTS
  poller = poller
  indexer = indexer
  Programs <- TwoPrograms
  Versions <- ThreeVersions
  Embedded <- TwoBuilds
  Poller <- poller
  Kinds <- AllKinds
  Algos <- TwoAlgos
  Rank <- MappingOrder
  MaxHeight = 2
  MaxValue = 2
  MaxTicks = 2
  Half = 2
PROPERTY PageShowsLiveDifficulty
