SPECIFICATION FairSpec
CONSTANTS
  NumClusters = 4
  FatEntries = 7
  DirEntries = 8
  BytesPerSector = 2
  SectorsPerCluster = 1
  FreeMod = 64
  Texts <- MCTexts
  Names <- MCLong
  FullTexts <- MCFull
  MaxParts = 19
  FileSizes <- MCFileSizes
  Disks <- MCTidy
  CrashPhases = {"idle"}
  MaxFaults = 1
  MaxRefusals = 0
INVARIANTS
  ReadsBack
  FreeSpaceExact
  Contained
PROPERTIES
  StoreRefined
  WriteReturns
