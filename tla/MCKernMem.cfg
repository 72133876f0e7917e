SPECIFICATION Spec
CONSTANTS
  NumEntries = 5
  BlockLength = 2
  MemStart = 4
  WordMod = 64
  MemMaps <- MCMaps
  Sizes <- MCSizes
  Addresses <- MCAddresses
  PastEnd = {"zero", "benign", "hostile"}
VIEW MCView
INVARIANTS
  TypeOK
  WalkAdvances
\* a loop that leaves the table ends the modelled behaviour
CHECK_DEADLOCK FALSE
