SPECIFICATION LegalSpec
CONSTANTS
  NumEntries = 8
  BlockLength = 2
  MemStart = 4
  WordMod = 64
  MemMaps <- MCMaps
  Sizes <- MCSizes
  Addresses <- MCAddresses
  PastEnd = {"zero"}
PROPERTIES
  OnlyAvailGranted
CHECK_DEADLOCK FALSE
