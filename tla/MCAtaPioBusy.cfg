SPECIFICATION FairSpec
CONSTANTS
  SectorSize = 2
  DiskSectors = 4
  Requests <- MCRequests
  Buffers <- MCBuffers
INVARIANTS
  OkMeansWritten
