-------------------------------- MODULE StartUp --------------------------------
(***************************************************************************)
(* kernel_main from the memory manager to the filesystem (kernel.c,        *)
(* kern_pci.c, kern_disk.c), as one sequence of steps, with the user's     *)
(* ALLOC_MEM and FREE_MEM, which run in the keyboard's interrupt, between  *)
(* any two of them.                                                        *)
(*                                                                         *)
(* mm_allocate is not made for that.  Here each of kernel_main's calls is  *)
(* two steps: bestFit, which finds a hole, and the rest, which marks the   *)
(* blocks of that hole.  In an interrupt they are one, as in KernMem.      *)
(*                                                                         *)
(* Addresses and sizes count words of a pointer.  A word of ram holds a    *)
(* pointer, <<address>>, a struct PCI_DEVICE, as the function it was read  *)
(* from, or something else, << >>.                                         *)
(***************************************************************************)
EXTENDS KernMemSafe, MemLayout, Pci, DynArray

CONSTANTS
  InitialSize,    \* elements of the list of devices at first, 16
  DeviceWords,    \* size of a struct PCI_DEVICE
  SectorWords,    \* size of a sector
  DirEntryWords,  \* size of an entry of the root directory
  InfoWords,      \* size of a struct fat12_fs_info
  Fat12Limit,     \* 4085: a FAT12 volume has fewer clusters
  Computers,      \* the machines considered, each with its disk
  NoVolume,       \* there is no disk at the ATA ports
  LayoutMaps,     \* maps the arithmetic of the layout is looked at for
  MaxCommands     \* bound: memory commands the user gives

\* Of the boot sector, what the kernel looks at.  num_sectors is a byte: the
\* FAT and the root directory are of fewer than 256 sectors.
VolumeKinds ==
  [fat : BOOLEAN, totalSectors : Nat, reserved : Nat, numFats : Nat,
   fatSize : Nat \ {0}, rootEntries : Nat \ {0}, perCluster : Nat \ {0}]

ASSUME StartUpAssumption ==
  /\ InitialSize \in Nat \ {0} /\ DeviceWords \in Nat \ {0}
  /\ SectorWords \in Nat \ {0} /\ DirEntryWords \in Nat \ {0}
  /\ InfoWords \in Nat \ {0}
  /\ Fat12Limit \in Nat /\ MaxCommands \in Nat
  /\ Computers \subseteq Machines \X (VolumeKinds \cup {NoVolume})
  /\ \A computer \in Computers :
       computer[2] # NoVolume => LET v == computer[2] IN
         v.rootEntries * DirEntryWords >= SectorWords
  /\ \A map \in LayoutMaps :
       map \in Seq([base : Nat, length : Nat, type : Nat])

\* KernMem's constants are what the memory maps lead to
ASSUME LayoutOfMaps ==
  \A map \in MemMaps : /\ Ordinary(map) /\ WordMod = LayoutMod
                       /\ MemStart = MemoryStart(map)
                       /\ NumEntries = EntriesOf(map)
                       /\ BlockLength = BlockLengthOf(map)

VARIABLES
  place,      \* what kernel_main is doing
  hole,       \* start_ent of the mm_allocate under way, or NoHole
  list,       \* pci_devices
  ram,        \* what the blocks hold
  dev,        \* the device that is to be inserted
  newArray,   \* of insertArray
  volume,     \* the disk
  reader,     \* the disk reader and writer are set
  attempt,    \* of ata_read_sectors_from_disk
  cached,     \* how many sectors of each buffer are as on the disk
  installed,  \* the filesystem's functions are set
  mine,       \* grants the user was told of
  commands,   \* memory commands given so far
  hasty,      \* history: one changed the table while a hole waited
  grown,      \* history: the list was moved
  broken      \* history: a read failed in its middle, or three times

listVars   == <<list, ram, dev, newArray, grown>>
diskVars   == <<volume, reader, attempt, cached, installed, broken>>
userVars   == <<mine, commands, hasty>>
memoryVars == vars
startVars  == <<memoryVars, pciVars, place, hole, listVars, diskVars, userVars>>

NoHole == -1

Words == 0..(Limit - 1)

Address(entry) == MemStart + entry * BlockLength

Places == {"memory", "struct", "array", "enumerate", "device", "insert", "grow",
           "free", "select", "mbr", "read mbr", "fat", "read fat", "root",
           "read root", "info", "spin", "null"}

\* Otherwise nothing more is modelled: a loop left the table, or something
\* was written through the NULL of an mm_allocate that found no room
Running == ~wild /\ place # "null"

-----------------------------------------------------------------------------
(* prepare_memory_manager: its second loop, over the regions *)

PrepareMemory ==
  /\ place = "memory"
  /\ \/ BootEntry /\ UNCHANGED place
     \/ ~Booting /\ place' = "struct" /\ UNCHANGED memoryVars
  /\ UNCHANGED <<pciVars, hole, listVars, diskVars, userVars>>

-----------------------------------------------------------------------------
(* kernel_main's calls of mm_allocate *)

RootSectors == (volume.rootEntries * DirEntryWords) \div SectorWords

Allocating == {"struct", "array", "device", "grow", "mbr", "fat", "root",
               "info"}

\* A mutant: elements are counted as bytes
RequestOfElements ==
  CASE place = "struct" -> 1
    [] place = "array"  -> 1
    [] place = "device" -> DeviceWords
    [] place = "grow"   -> GrownSize(list)
    [] place = "mbr"    -> SectorWords
    [] place = "fat"    -> volume.fatSize * SectorWords
    [] place = "root"   -> RootSectors * SectorWords
    [] place = "info"   -> InfoWords

\* What is asked for; for the list itself, the size of a pointer to it
Request ==
  CASE place = "struct" -> 1
    [] place = "array"  -> InitialSize
    [] place = "device" -> DeviceWords
    [] place = "grow"   -> GrownSize(list)
    [] place = "mbr"    -> SectorWords
    [] place = "fat"    -> volume.fatSize * SectorWords
    [] place = "root"   -> RootSectors * SectorWords
    [] place = "info"   -> InfoWords

\* bestFit
FindHole ==
  /\ place \in Allocating /\ hole = NoHole
  /\ IF Granted(Request)
     THEN hole' = BestFit(Request) /\ UNCHANGED place
     ELSE place' = "null" /\ UNCHANGED hole
  /\ UNCHANGED <<memoryVars, pciVars, listVars, diskVars, userVars>>

\* The marking of the blocks from start, in the table as it is now
MarkBlocks(size, start) ==
  LET e == AllocateEnd(size, start) IN
  /\ \/ /\ \E past \in PastEnd : AllocateRunsAway(size, start, e, past)
        /\ wild' = TRUE
        /\ UNCHANGED <<table, live>>
     \/ /\ \E past \in PastEnd : ~AllocateRunsAway(size, start, e, past)
        /\ Carve(start, e, RestEnd(size, start, e))
        /\ live' = live \cup {[begin |-> start, end |-> e]}
        /\ UNCHANGED wild
  /\ UNCHANGED <<memMap, booted, firmware>>

\* A mutant: the hole is found once for two calls
GetsKept(here) ==
  /\ place = here /\ hole # NoHole /\ MarkBlocks(Request, hole)
  /\ hole' = IF here = "struct" THEN hole ELSE NoHole

\* mm_allocate returns Address(hole)
Gets(here) ==
  place = here /\ hole # NoHole /\ MarkBlocks(Request, hole) /\ hole' = NoHole

-----------------------------------------------------------------------------
(* prepare_kernel_pci *)

GetStruct ==
  /\ Gets("struct") /\ place' = "array"
  /\ UNCHANGED <<pciVars, listVars, diskVars, userVars>>

initArray ==
  /\ Gets("array") /\ place' = "enumerate"
  /\ list' = ArrayAt(Address(hole), InitialSize)
  /\ UNCHANGED <<pciVars, ram, dev, newArray, grown, diskVars, userVars>>

Enumerate ==
  /\ place = "enumerate"
  /\ \/ (CheckHostBus \/ SkipFunction \/ ReturnFromBus) /\ UNCHANGED place
     \/ CheckFunction /\ place' = "device"
     \/ Enumerated /\ place' = "select" /\ UNCHANGED pciVars
  /\ UNCHANGED <<memoryVars, hole, listVars, diskVars, userVars>>

\* pciCheckFunction, which has read the function, and insertArray
WriteDevice ==
  /\ Gets("device")
  /\ dev' = Address(hole)
  /\ ram' = [ram EXCEPT ![Address(hole)] = Last(visited)]
  /\ place' = IF IsFull(list) THEN "grow" ELSE "insert"
  /\ UNCHANGED <<pciVars, list, newArray, grown, diskVars, userVars>>

CopyList ==
  /\ Gets("grow") /\ place' = "free"
  /\ newArray' = Address(hole)
  /\ ram' = Copied(ram, list, Address(hole))
  /\ UNCHANGED <<pciVars, list, dev, grown, diskVars, userVars>>

FreeList ==
  /\ place = "free" /\ place' = "insert"
  /\ Free(FreedByGrowth(list))
  /\ list' = Grown(list, newArray)
  /\ grown' = TRUE
  /\ UNCHANGED <<pciVars, hole, ram, dev, newArray, diskVars, userVars>>

InsertDevice ==
  /\ place = "insert" /\ place' = "enumerate"
  /\ ram' = Inserted(ram, list, <<dev>>)
  /\ list' = Longer(list)
  /\ UNCHANGED <<memoryVars, pciVars, hole, dev, newArray, grown, diskVars, userVars>>

-----------------------------------------------------------------------------
(* prepare_kernel_fs *)

\* The struct an element of the list points to, if it does
DeviceOf(i) ==
  LET at == ElementOf(ram, list, i)
  IN  IF Len(at) = 1 THEN ram[at[1]] ELSE << >>

IsDiskController(f) ==
  pciGetBaseClass(f) = 1 /\ pciGetSubClass(f) = 1 /\ pciGetProgIF(f) = 0

Taken(i, yes) ==
  Len(DeviceOf(i)) = 3 => (yes <=> IsDiskController(DeviceOf(i)))

\* A mutant: the last element is not looked at
SelectReaderShort ==
  /\ place = "select"
  /\ \E yes \in [0..(list.used - 2) -> BOOLEAN] :
       /\ \A i \in DOMAIN yes : Taken(i, yes[i])
       /\ reader' = \E i \in DOMAIN yes : yes[i]
  /\ place' = IF reader' THEN "mbr" ELSE "spin"
  /\ UNCHANGED <<memoryVars, pciVars, hole, listVars, volume, attempt, cached,
                 installed, broken, userVars>>

SelectReader ==
  /\ place = "select"
  /\ \E yes \in [0..(list.used - 1) -> BOOLEAN] :
       /\ \A i \in DOMAIN yes : Taken(i, yes[i])
       /\ reader' = \E i \in DOMAIN yes : yes[i]
  /\ place' = IF reader' THEN "mbr" ELSE "spin"
  /\ UNCHANGED <<memoryVars, pciVars, hole, listVars, volume, attempt, cached,
                 installed, broken, userVars>>

GetBuffer(here, next) ==
  /\ Gets(here) /\ place' = next
  /\ UNCHANGED <<pciVars, listVars, diskVars, userVars>>

\* A mutant: each error is tried again
ReadForever(here, buffer, sectors, next) ==
  /\ place = here /\ volume # NoVolume
  /\ \E good \in 0..sectors :
       \/ /\ good = 0 /\ attempt' = (attempt % 3) + 1
          /\ UNCHANGED <<place, cached, broken>>
       \/ /\ good > 0
          /\ attempt' = 1 /\ place' = next
          /\ cached' = [cached EXCEPT ![buffer] = good]
          /\ broken' = (broken \/ good < sectors)
  /\ UNCHANGED <<memoryVars, pciVars, hole, listVars, volume, reader, userVars>>

\* A mutant: one try too many
ReadOnceMore(here, buffer, sectors, next) ==
  /\ place = here /\ volume # NoVolume
  /\ \E good \in 0..sectors :
       \/ /\ good = 0 /\ attempt <= 3
          /\ attempt' = attempt + 1
          /\ UNCHANGED <<place, cached, broken>>
       \/ /\ good > 0
          /\ attempt' = 1 /\ place' = next
          /\ cached' = [cached EXCEPT ![buffer] = good]
          /\ broken' = (broken \/ good < sectors)
  /\ UNCHANGED <<memoryVars, pciVars, hole, listVars, volume, reader, userVars>>

\* A mutant: an error is not tried again
ReadOnce(here, buffer, sectors, next) ==
  /\ place = here /\ volume # NoVolume
  /\ \E good \in 0..sectors :
       /\ attempt' = 1 /\ place' = next
       /\ cached' = [cached EXCEPT ![buffer] = good]
       /\ broken' = (broken \/ good \in 1..(sectors - 1))
  /\ UNCHANGED <<memoryVars, pciVars, hole, listVars, volume, reader, userVars>>

\* ata_read_sectors_from_disk.  An error before the first sector fails the
\* try, a later one goes unseen and the rest of the buffer gets what the port
\* then says.  The result is dropped in disk.c.  With no disk the wait for
\* BSY does not end
ReadSectors(here, buffer, sectors, next) ==
  /\ place = here /\ volume # NoVolume
  /\ \E good \in 0..sectors :
       \/ /\ good = 0 /\ attempt < 3
          /\ attempt' = attempt + 1
          /\ UNCHANGED <<place, cached, broken>>
       \/ /\ good > 0 \/ attempt = 3
          /\ attempt' = 1 /\ place' = next
          /\ cached' = [cached EXCEPT ![buffer] = good]
          /\ broken' = (broken \/ good < sectors)
  /\ UNCHANGED <<memoryVars, pciVars, hole, listVars, volume, reader, userVars>>

TotalClusters ==
  LET rootSectors == (volume.rootEntries * DirEntryWords + SectorWords - 1) \div SectorWords
  IN  Word(volume.totalSectors - (volume.reserved + volume.numFats * volume.fatSize
                                  + rootSectors)) \div volume.perCluster

\* A boot sector that was not read is not taken for one
IsFat12 == cached.mbr = 1 /\ volume.fat /\ TotalClusters < Fat12Limit

LoadBootSector ==
  \/ GetBuffer("mbr", "read mbr")
  \/ /\ \E next \in {"fat", "spin"} :
          /\ ReadSectors("read mbr", "mbr", 1, next)
          /\ place' = next => (next = "fat" <=> IsFat12')
     /\ UNCHANGED installed

LoadFat ==
  \/ GetBuffer("fat", "read fat")
  \/ ReadSectors("read fat", "fat", volume.fatSize, "root") /\ UNCHANGED installed

LoadRootDirectory ==
  \/ GetBuffer("root", "read root")
  \/ ReadSectors("read root", "root", RootSectors, "info") /\ UNCHANGED installed

\* fat12_initialize_info, and fs_functions
InstallFat12 ==
  /\ Gets("info") /\ place' = "spin" /\ installed' = TRUE
  /\ UNCHANGED <<pciVars, listVars, volume, reader, attempt, cached, broken, userVars>>

kernel_main ==
  /\ Running
  /\ \/ PrepareMemory \/ FindHole \/ GetStruct \/ initArray \/ Enumerate
     \/ WriteDevice \/ CopyList \/ FreeList \/ InsertDevice \/ SelectReader
     \/ LoadBootSector \/ LoadFat \/ LoadRootDirectory \/ InstallFat12

-----------------------------------------------------------------------------
(* The user's commands, once there is a memory manager *)

\* The command returns to kernel_main where it was
Interrupts ==
  /\ Running /\ place # "memory" /\ commands < MaxCommands
  /\ commands' = commands + 1
  /\ hasty' = (hasty \/ (hole # NoHole /\ table' # table))
  /\ UNCHANGED <<pciVars, place, hole, listVars, diskVars>>

AllocMem(size) ==
  /\ Ready
  /\ \/ ~Granted(size) /\ UNCHANGED memoryVars
     \/ /\ Granted(size)
        /\ \E start \in {BestFit(size)} : MarkBlocks(size, start)
  /\ Interrupts
  /\ mine' = mine \cup (live' \ live)

\* The user only gives back what was granted, and where mm_free is sound
FreeMem(run) ==
  /\ SoundFree(run.end) /\ Free(Address(run.begin)) /\ Interrupts
  /\ mine' = mine \ {run}

user_input ==
  \/ \E size \in Sizes : AllocMem(size)
  \/ \E run \in mine : FreeMem(run)

-----------------------------------------------------------------------------
StartInit ==
  /\ SafeInit /\ PciInit
  /\ place = "memory" /\ hole = NoHole
  /\ list = ArrayAt(0, 0) /\ ram = [at \in Words |-> << >>]
  /\ dev = 0 /\ newArray = 0 /\ grown = FALSE
  /\ \E computer \in Computers : machine = computer[1] /\ volume = computer[2]
  /\ reader = FALSE
  /\ attempt = 1 /\ cached = [mbr |-> 0, fat |-> 0, root |-> 0]
  /\ installed = FALSE /\ broken = FALSE
  /\ mine = {} /\ commands = 0 /\ hasty = FALSE

StartNext == kernel_main \/ user_input

\* kernel_main goes on whenever no interrupt is served; nobody must type
StartSpec == StartInit /\ [][StartNext]_startVars /\ WF_startVars(kernel_main)

-----------------------------------------------------------------------------
StartTypeOK ==
  /\ TypeOK /\ PciTypeOK
  /\ place \in Places /\ hole \in Entries \cup {NoHole}
  /\ list \in [array : Nat, used : Nat, size : Nat]
  /\ ram \in [Words -> {<< >>} \cup {<<at>> : at \in Words} \cup Functions]
  /\ dev \in Words /\ newArray \in Words /\ grown \in BOOLEAN
  /\ <<machine, volume>> \in Computers /\ reader \in BOOLEAN
  /\ attempt \in 1..3 /\ cached \in [mbr : Nat, fat : Nat, root : Nat]
  /\ installed \in BOOLEAN /\ broken \in BOOLEAN
  /\ mine \subseteq Runs /\ commands \in 0..MaxCommands /\ hasty \in BOOLEAN

\* What the properties below need: no command between bestFit and the marks,
\* and no more devices than the list was made for
Quiet == ~hasty /\ ~grown

(***************************************************************************)
(* While start-up is quiet, the heap keeps its promises to both of its     *)
(* users, kernel_main and the shell that interrupts it: no block has two   *)
(* owners, none of the firmware's is granted, no loop leaves the table,    *)
(* and the blocks kernel_main is about to mark are still free, whatever    *)
(* came since bestFit found them (kernel.c:36-48 with kern_mem.c:146).     *)
(***************************************************************************)
ToMark == hole..AllocateEnd(Request, hole)

HeapKept ==
  Quiet => /\ Accounting /\ ~wild
           /\ hole # NoHole => \A i \in ToMark : type[i] = Avail

(***************************************************************************)
(* As long as it is quiet, element i of the list points to the struct of   *)
(* the i-th function that was visited: neither the list nor a struct is    *)
(* written over, though all lie in blocks of one heap (kernel.c:39-44).    *)
(***************************************************************************)
ListHolds ==
  Quiet => \A i \in 1..list.used : DeviceOf(i - 1) = visited[i]

(***************************************************************************)
(* The disk driver is chosen exactly when one of the functions visited     *)
(* passes the test, as the machine answers it: what the structs say of it  *)
(* is read back from the heap only after all have been collected           *)
(* (kern_disk.c:11-23 with kern_pci.c:105-118).  What the test asks of a   *)
(* function is IsDiskController's matter, and not what its line means.     *)
(***************************************************************************)
Selected == {"mbr", "read mbr", "fat", "read fat", "root", "read root", "info",
             "spin"}

ReaderOfVisited ==
  Quiet /\ place \in Selected =>
    (reader <=> \E i \in DOMAIN visited : IsDiskController(visited[i]))

(***************************************************************************)
(* When the filesystem's functions are set, its FAT and root directory are *)
(* in memory as on the disk, however many tries failed, unless a read      *)
(* failed three times or after its first sector (kern_disk.c:87-118).      *)
(***************************************************************************)
CacheIsDisk ==
  installed /\ ~broken => cached.fat = volume.fatSize /\ cached.root = RootSectors

(***************************************************************************)
(* Start-up comes to its end, unless it looks for a disk that is not there *)
(* (kernel.c:64).                                                          *)
(***************************************************************************)
BootEnds ==
  volume # NoVolume => <>(place = "spin" \/ ~Running)
(***************************************************************************)
(* The arithmetic of prepare_memory_manager and mm_initialize leaves room  *)
(* for the table in the largest region and for the blocks behind it        *)
(* (kern_mem.c:481-510, 30-37).  The maps do not change, so they are       *)
(* looked at before the first region is.                                   *)
(***************************************************************************)
LayoutSound ==
  place = "memory" => \A map \in LayoutMaps : LayoutFits(map)
=============================================================================
