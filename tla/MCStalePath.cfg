SPECIFICATION Spec
CONSTANTS
  Offers = {1, 2}
  FileLists <- AllFiles
  NodesOf <- SameNodes
  Pasters = {1, 2}
  Readers = {f1}
  MaxRequests = 2
  MaxCopies = 1
  MaxDepth = 2
INVARIANT PathServesItsOffer
CHECK_DEADLOCK FALSE
