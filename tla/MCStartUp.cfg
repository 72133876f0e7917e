SPECIFICATION StartSpec
CONSTANTS
  NumEntries = 10
  BlockLength = 3
  MemStart = 13
  WordMod = 256
  MemMaps <- MCMaps
  Sizes = {1, 6}
  Addresses = {}
  PastEnd = {"zero", "benign"}
  LayoutMod = 256
  EntryBytes = 1
  ManagerBytes = 1
  SpareBytes = 2
  LowLimit = 1
  Machines <- MCMachines
  NumSlots = 4
  NumFunctions = 2
  InitialSize = 3
  DeviceWords = 2
  SectorWords = 3
  DirEntryWords = 1
  InfoWords = 2
  Fat12Limit = 20
  Computers <- MCComputers
  NoVolume = NoVolume
  LayoutMaps <- MCLayoutMaps
  MaxCommands = 2
INVARIANTS
  StartTypeOK
  SearchFinds
  HeapKept
  ListHolds
  ReaderOfVisited
  CacheIsDisk
  LayoutSound
PROPERTIES
  BootEnds
\* start-up ends, and the number of commands is bounded
CHECK_DEADLOCK FALSE
