SPECIFICATION FairSpec
CONSTANTS
  Trees <- MCTrees
  Limits = {0, 1, 3, 6}
CHECK_DEADLOCK FALSE
INVARIANT TypeOK
INVARIANT ListingIsExact
INVARIANT BoundIsKept
INVARIANT BreadthFirst
PROPERTY WalkEnds
