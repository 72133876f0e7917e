SPECIFICATION Spec
CONSTANTS
  NumClusters = 4
  FatEntries = 7
  DirEntries = 9
  BytesPerSector = 2
  SectorsPerCluster = 1
  FreeMod = 64
  Texts <- MCTexts
  Names <- MCAnyLength
  FullTexts <- MCFull
  MaxParts = 2
  FileSizes <- MCFileSizes
  Disks <- MCRough
  CrashPhases <- Phases
  MaxFaults = 2
  MaxRefusals = 1
INVARIANTS
  TypeOK
  ChainsOnDisk
  ChainsInMemory
  OneLostEach
  BytesAgree
  CacheFollowsDisk
PROPERTIES
  OthersKept
\* a write past the end of the directory ends the modelled behaviour
CHECK_DEADLOCK FALSE
