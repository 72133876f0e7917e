SPECIFICATION Spec
CONSTANTS
  NumClusters = 4
  FatEntries = 7
  DirEntries = 8
  BytesPerSector = 2
  SectorsPerCluster = 1
  FreeMod = 64
  Texts <- MCTexts
  Names <- MCShort
  FullTexts <- MCFull
  MaxParts = 19
  FileSizes <- MCFileSizes
  Disks <- MCTidy
  CrashPhases = {"idle"}
  MaxFaults = 0
  MaxRefusals = 0
INVARIANTS
  SpaceChecked
