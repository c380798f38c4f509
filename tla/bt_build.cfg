SPECIFICATION FairSpec
CONSTANTS
  Files = {1, 2, 3}
  MaxDeps = 2
  DepLists <- MCDepLists
INVARIANTS TypeOK FollowsProgress
PROPERTIES ReportedCycle ImplementsBuildOrder BuildReturns
