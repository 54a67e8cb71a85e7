SPECIFICATION Spec
CONSTANTS
  Offers = {1, 2}
  FileLists <- MCFileLists
  NodesOf <- MCNodesOf
  Pasters = {1, 2}
  Readers = {f1}
  MaxRequests = 2
  MaxCopies = 1
  MaxDepth = 2
INVARIANTS
  PasteGetsWhatWasOffered
  OldPathsServeOnlySharedPlaces
  ChangeMissedOnlyToOverlapOrRefusal
PROPERTY EveryRequestEnds
CHECK_DEADLOCK FALSE
