SPECIFICATION SafeSpec
CONSTANTS
  NumEntries = 8
  BlockLength = 2
  MemStart = 4
  WordMod = 64
  MemMaps <- MCMaps
  Sizes <- MCSizes
  Addresses <- MCAddresses
  PastEnd = {"zero", "benign"}
INVARIANTS
  Partition
  LiveAreRuns
  Accounting
  NoWild
  BestFitIsBest
  ReservedExactly
PROPERTIES
  HeapRefined
