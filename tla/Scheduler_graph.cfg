SPECIFICATION FairSpec
CONSTANTS
  Tasks <- SevenTasks
  Deps <- Graph
  Rank <- Depth
  Classes <- TwoClasses
  Class <- Mixed
  Limit <- OneLink
  MaxWorkers = 3
  NoTask = NoTask
INVARIANTS DependenciesFirst Accounted WorkConserving
PROPERTY Returns
