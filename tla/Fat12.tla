-------------------------------- MODULE Fat12 --------------------------------
(***************************************************************************)
(* The FAT12 driver (fat12.c) over a disk that may lose power.             *)
(*                                                                         *)
(* The driver keeps the FAT and the root directory in memory, loaded at    *)
(* boot (kern_disk.c), and writes every change through to the disk.        *)
(* fat12_write_file is cut at each of its disk writes; power may be lost   *)
(* between any two of them.  fat12_find_file, fat12_enumerate_files and    *)
(* fat12_load_file change neither the disk nor the cache: they are         *)
(* operators that say what a reader sees.                                  *)
(*                                                                         *)
(* A write_sectors_to_disk call takes effect at once or is refused, which  *)
(* nobody looks at; AtaPio models the calls.  It changes bytes of one      *)
(* sector, but those of a FAT entry may lie in two, of which only the      *)
(* first may be reached.  A call that ends with its sector also rewrites   *)
(* the next one, so the disk goes on past the volume.  The heap is taken   *)
(* to work, and the bytes after a name in it to be zero.  Texts are told   *)
(* apart, not spelled: names of different texts are different names.       *)
(***************************************************************************)
EXTENDS Integers, Sequences, SequencesExt, FiniteSets, FiniteSetsExt, FatBytes

CONSTANTS
  NumClusters,        \* data clusters of the volume
  FatEntries,         \* entries the sectors of a FAT hold
  DirEntries,         \* rootEntryCount
  BytesPerSector,     \* bytesPerSector
  SectorsPerCluster,  \* sectorsPerCluster
  FreeMod,            \* one more than the largest bytesFree, 2^64 in the build
  Texts,              \* what one directory entry can hold of a name
  Names,              \* file names, each the sequence of its 13-character parts
  FullTexts,          \* those of 13 characters
  MaxParts,           \* parts that longNameLength counts, 19 in the build
  FileSizes,          \* values of bytesToWrite
  Disks,              \* disks the kernel may be started on
  CrashPhases,        \* values of pc at which power may be lost
  MaxFaults,          \* bound on power losses and refused disk writes
  MaxRefusals         \* bound on the latter

Slots        == 0..(DirEntries - 1)
FatIndex     == 0..(FatEntries - 1)
DataClusters == 2..(NumClusters + 1)
Sectors      == 0..(NumClusters * SectorsPerCluster - 1)

Free       == 0
EndOfChain == 4095                    \* 0xFFF
FatValues  == 0..4095

Phases == {"idle", "names", "fill", "link", "entry", "data", "pad"}

\* A directory entry: its first byte and attributes give its kind
DirSlot == [kind : {"empty", "long", "file", "label"},
            text : Texts \cup {""}, first : FatValues, size : Nat]
EmptySlot == [kind |-> "empty", text |-> "", first |-> 0, size |-> 0]

\* What a sector holds: part of a file, with zeros after its end or not yet
Content == [of : Seq(Texts), part : Nat, padded : BOOLEAN]

ASSUME GeometryAssumption ==
  /\ NumClusters \in Nat \ {0} /\ DirEntries \in Nat \ {0}
  /\ FatEntries \in Nat /\ NumClusters + 2 <= FatEntries /\ FatEntries < 4088
  /\ BytesPerSector \in Nat \ {0} /\ SectorsPerCluster \in Nat \ {0}
  /\ FreeMod \in Nat \ {0} /\ MaxFaults \in Nat
  /\ MaxRefusals \in Nat

ASSUME NamesAssumption ==
  /\ Names \subseteq Seq(Texts) \ {<< >>} /\ "" \notin Texts
  /\ FullTexts \subseteq Texts /\ MaxParts \in Nat \ {0}
  /\ \A name \in Names : \A k \in 1..(Len(name) - 1) : name[k] \in FullTexts
  /\ FileSizes \subseteq Nat /\ CrashPhases \subseteq Phases

\* The disks of the start: the file of each directory entry has the clusters
\* in d.chains, linked to the end, and each cluster is in one chain at most
ASSUME DisksAssumption ==
  \A d \in Disks :
    /\ d.fat \in [FatIndex -> FatValues] /\ d.dir \in [Slots -> DirSlot]
    /\ d.data \in [Sectors -> Content]
    /\ d.chains \in [Slots -> Seq(FatIndex)]
    /\ \A s \in Slots : \A k \in 1..Len(d.chains[s]) :
         LET c == d.chains[s][k] IN
         /\ c > 1
         /\ d.fat[c] = IF k = Len(d.chains[s]) THEN EndOfChain ELSE d.chains[s][k + 1]
    /\ \A s \in Slots : d.dir[s].kind = "file" =>
         d.dir[s].first = IF d.chains[s] = << >> THEN 0 ELSE d.chains[s][1]
    /\ \A s, t \in Slots : s # t => Range(d.chains[s]) \cap Range(d.chains[t]) = {}

\* The sectors of a chain hold one file, part by part
IntactIn(chain, sectors) ==
  LET at(k)  == (chain[k] - 2) * SectorsPerCluster
      inside == {k \in 1..Len(chain) : at(k) \in Sectors}
  IN  \A k \in inside :
        /\ sectors[at(k)].part = k /\ sectors[at(k)].padded
        /\ \A j \in inside : sectors[at(j)].of = sectors[at(k)].of

ASSUME FilesAssumption ==
  \A d \in Disks, s \in Slots :
    d.dir[s].kind = "file" => IntactIn(d.chains[s], d.data)

VARIABLES
  diskFat,    \* the FAT on the disk
  diskDir,    \* the root directory on the disk
  data,       \* the data sectors
  fat,        \* fs_info->fat
  dir,        \* fs_info->rootDir
  bytesFree,  \* fs_info->bytesFree
  pc,         \* where fat12_write_file is
  job,        \* its arguments, and foundEntry
  used,       \* usedClusters, filled up to clusterCnt
  part,       \* the loop counter of the names, then of the data
  chains,     \* history: the clusters of the file in each directory entry
  stored,     \* history: the files whose writing returned OK
  restarts,   \* power losses so far
  refusals,   \* disk writes refused so far
  lost,       \* history: the kernel was started again after a refusal
  wild        \* a search or a write left the FAT or the directory

disk   == <<diskFat, diskDir, data>>
cache  == <<fat, dir, bytesFree>>
writer == <<pc, job, used, part>>
past   == <<chains, stored>>
faults == <<restarts, refusals, lost>>
vars   == <<disk, cache, writer, past, faults, wild>>

NoJob == [name |-> << >>, size |-> 0, slot |-> 0]

-----------------------------------------------------------------------------
(***************************************************************************)
(* Reading the directory.  It ends at the first empty entry.  The long     *)
(* entries since the last file are parts of the next file's name, each     *)
(* put before the ones already read; a file that none precede goes by its  *)
(* short name, which then stays in fileName: it is read as the end of the  *)
(* next name of several entries, as far as 13 characters for each of its   *)
(* parts reach.  longNameLength has 8 bits: a name of more parts is cut at *)
(* another place, and is no file's name then.  Labels are passed over, and *)
(* so is what lies after an empty entry.                                   *)
(***************************************************************************)
DirStop(d) == Min({s \in Slots : d[s].kind = "empty"} \cup {DirEntries})

FileSlots(d) == {s \in 0..(DirStop(d) - 1) : d[s].kind = "file"}

LongBefore(d, s) ==
  {t \in Slots : /\ t < s /\ d[t].kind = "long"
                 /\ \A u \in t..(s - 1) : d[u].kind # "file"}

\* The file whose short name is still in fileName when s is reached
Kept(d, s) ==
  {t \in Slots : /\ t < s /\ d[t].kind = "file" /\ LongBefore(d, t) = {}
                 /\ \A u \in (t + 1)..(s - 1) : d[u].kind # "file"}

KeptText(d, s) ==
  IF Kept(d, s) = {} \/ \A t \in LongBefore(d, s) : d[t].text \in FullTexts
  THEN << >> ELSE <<d[Min(Kept(d, s))].text>>

LongName(d, s) ==
  LET parts  == {t \in LongBefore(d, s) : d[t].text # ""}
      kth(k) == CHOOSE t \in parts : Cardinality({u \in parts : u >= t}) = k
  IN  [k \in 1..Cardinality(parts) |-> d[kth(k)].text]

CutName == <<"">>

\* A mutant: only the nearest part of the name is taken
NearestName(d, s) == <<d[IF s = 0 THEN s ELSE s - 1].text>>

NameOf(d, s) ==
  CASE LongBefore(d, s) = {} -> <<d[s].text>>
    [] Cardinality(LongBefore(d, s)) > MaxParts -> CutName
    [] OTHER -> LongName(d, s) \o KeptText(d, s)

Found(d, name) == {s \in FileSlots(d) : NameOf(d, s) = name}

(***************************************************************************)
(* Loading a file: the chain from its first cluster.  A free or reserved   *)
(* entry met on the way ends fat12_load_file with the code of OK and       *)
(* nothing loaded.  A file without clusters, whose first is 0, is followed *)
(* as any other, to the media mark in entry 0 and on to what lies past the *)
(* FAT; what is loaded then is not said.                                   *)
(***************************************************************************)
Followed(k) == IF k = 2 THEN FatIndex ELSE FatIndex \ {Free}

Walk(first) ==
  LET step[k \in 1..(FatEntries + 1)] ==
        IF k = 1 THEN first
        ELSE IF step[k - 1] \in Followed(k) THEN fat[step[k - 1]] ELSE Free
  IN  step

\* Entries up to 0xFF7 are followed also where the FAT has none
Strays(first) ==
  \E k \in 1..(FatEntries + 1) : Walk(first)[k] \in FatEntries..4087

ChainFrom(first) ==
  LET walk == Walk(first)
      ends == {k \in 1..(FatEntries + 1) : walk[k] = EndOfChain}
  IN  IF ends = {} THEN << >> ELSE [k \in 1..(Min(ends) - 1) |-> walk[k]]

\* The loader's sector of a cluster does not look at sectorsPerCluster
Loaded(first) ==
  LET chain == ChainFrom(first)
  IN  IF Strays(first) THEN <<"unknown">>
      ELSE [k \in 1..Len(chain) |->
              IF chain[k] - 2 \in Sectors THEN data[chain[k] - 2] ELSE "none"]

-----------------------------------------------------------------------------
(* Starting: the cache is read from the disk, and free clusters counted *)

FreeClusters(f) == {c \in DataClusters : f[c] = Free}

CountedFree(f) == BytesPerSector * Cardinality(FreeClusters(f))

-----------------------------------------------------------------------------
(***************************************************************************)
(* fat12_write_file: the checks.  The entries a file takes are those of    *)
(* its name and the last one.  A name whose parts are full gets one more,  *)
(* filled from what follows the name in memory.                            *)
(***************************************************************************)
WholeNames == {name \in Names : Len(name) > 1 /\ Last(name) \in FullTexts}

Parts(name) == IF name \in WholeNames THEN Append(name, "") ELSE name

\* A mutant: the final entry is not counted
EntriesOfName(name) == Len(Parts(name))

Entries(name) == Len(Parts(name)) + 1

Needed(size) == size \div BytesPerSector + 1

EmptySlots == {s \in Slots : dir[s].kind = "empty"}

\* The count of empty entries goes on across entries in use
SearchEnd(name) ==
  {s \in EmptySlots : Cardinality({t \in EmptySlots : t <= s}) = Entries(name)}

FoundEntry(name) ==
  Min({s \in Slots : \E e \in SearchEnd(name) : s <= e /\ s..e \subseteq EmptySlots})

\* A mutant: the name is not looked up
NoRoomFor(name, size) == size > bytesFree \/ SearchEnd(name) = {}

WriteRefused(name, size) ==
  \/ Found(dir, name) # {}
  \/ size > bytesFree
  \/ SearchEnd(name) = {}

StartWrite(name, size) ==
  /\ pc = "idle" /\ ~wild
  /\ \/ /\ WriteRefused(name, size)
        /\ UNCHANGED writer
     \/ /\ ~WriteRefused(name, size)
        /\ pc' = "names"
        /\ job' = [name |-> name, size |-> size, slot |-> FoundEntry(name)]
        /\ used' = << >>
        /\ part' = 1
  /\ UNCHANGED <<disk, cache, past, faults, wild>>

-----------------------------------------------------------------------------
(* Disk writes, whose results are ignored *)

Reached == UNCHANGED refusals
Refused ==
  /\ refusals < MaxRefusals /\ restarts + refusals < MaxFaults
  /\ refusals' = refusals + 1

PutEntry(slot) ==
  \/ diskDir' = [diskDir EXCEPT ![slot] = dir'[slot]] /\ Reached
  \/ UNCHANGED diskDir /\ Refused

-----------------------------------------------------------------------------
(* The directory entries *)

FinalSlot == job.slot + Len(Parts(job.name))

\* The parts are written from the entry before the final one downwards
LongSlot == FinalSlot - part

RunsOff == wild' = TRUE /\ UNCHANGED <<disk, cache, writer, past, faults>>

WriteLong ==
  /\ pc = "names" /\ ~wild
  /\ \/ LongSlot \notin Slots /\ RunsOff
     \/ /\ LongSlot \in Slots
        /\ dir' = [dir EXCEPT ![LongSlot] =
                     [kind |-> "long", text |-> Parts(job.name)[part],
                      first |-> 0, size |-> 0]]
        /\ PutEntry(LongSlot)
        /\ part' = part + 1
        /\ pc' = IF part = Len(Parts(job.name)) THEN "fill" ELSE "names"
        /\ UNCHANGED <<diskFat, data, fat, bytesFree, job, used, past,
                       restarts, lost, wild>>

\* The final entry, in memory only and without its cluster
FillEntry ==
  /\ pc = "fill" /\ ~wild
  /\ \/ FinalSlot \notin Slots /\ RunsOff
     \/ /\ FinalSlot \in Slots
        /\ dir' = [dir EXCEPT ![FinalSlot] =
                     [kind |-> "file", text |-> job.name[1],
                      first |-> dir[FinalSlot].first, size |-> job.size]]
        /\ pc' = "link"
        /\ UNCHANGED <<disk, fat, bytesFree, job, used, part, past,
                       faults, wild>>

-----------------------------------------------------------------------------
(* The clusters *)

\* A mutant: the search starts anew for each cluster
FreeAnywhere == {c \in FatIndex : c > 1 /\ fat[c] = Free}

\* Free entries from clusterIdx on, which nothing bounds from above
FreeFrom ==
  {c \in FatIndex : /\ c > (IF used = << >> THEN 1 ELSE Last(used))
                    /\ fat[c] = Free}

\* A mutant: the entry is not written through
SetCachedCluster(c, value) ==
  /\ fat' = [fat EXCEPT ![c] = value]
  /\ UNCHANGED <<diskFat, refusals>>

\* The FAT on the disk, with the first n of the bytes sent for entry c of f
SentFat(f, c, n) == [e \in FatIndex |-> Mixed(diskFat[e], f[e], e, c, n)]

\* How many of those bytes lie in the first sectors and may come alone
Cuts(c) == {n \in 1..(BytesSent - 1) : (Offset(c) + n) % BytesPerSector = 0}

SetCluster(c, value) ==
  /\ fat' = [fat EXCEPT ![c] = value]
  /\ \/ diskFat' = SentFat(fat', c, BytesSent) /\ Reached
     \/ (\E n \in Cuts(c) \cup {0} : diskFat' = SentFat(fat', c, n)) /\ Refused

\* One cluster found; the one before is linked to it
LinkCluster ==
  /\ pc = "link" /\ ~wild
  /\ Len(used) < Needed(job.size)
  /\ \/ FreeFrom = {} /\ RunsOff
     \/ /\ FreeFrom # {}
        /\ used' = Append(used, Min(FreeFrom))
        /\ \/ used = << >> /\ UNCHANGED <<fat, diskFat, refusals>>
           \/ used # << >> /\ SetCluster(Last(used), Min(FreeFrom))
        /\ UNCHANGED <<diskDir, data, dir, bytesFree, pc, job, part, past,
                       restarts, lost, wild>>

\* A mutant: the end is expected one cluster later
EndChainLate ==
  /\ pc = "link" /\ ~wild
  /\ Len(used) > Needed(job.size)
  /\ SetCluster(Last(used), EndOfChain)
  /\ pc' = "entry"
  /\ UNCHANGED <<diskDir, data, dir, bytesFree, job, used, part, past,
                 restarts, lost, wild>>

\* A mutant: the mark of a FAT with wider entries
EndChain16 ==
  /\ pc = "link" /\ ~wild
  /\ Len(used) = Needed(job.size)
  /\ SetCluster(Last(used), 65535)
  /\ pc' = "entry"
  /\ UNCHANGED <<diskDir, data, dir, bytesFree, job, used, part, past,
                 restarts, lost, wild>>

EndChain ==
  /\ pc = "link" /\ ~wild
  /\ Len(used) = Needed(job.size)
  /\ SetCluster(Last(used), EndOfChain)
  /\ pc' = "entry"
  /\ UNCHANGED <<diskDir, data, dir, bytesFree, job, used, part, past,
                 restarts, lost, wild>>

\* A mutant: the entry gets the cluster found last
WriteEntryOfLast ==
  /\ pc = "entry" /\ ~wild
  /\ dir' = [dir EXCEPT ![FinalSlot].first = Last(used)]
  /\ PutEntry(FinalSlot)
  /\ chains' = [chains EXCEPT ![FinalSlot] = used]
  /\ pc' = "data"
  /\ part' = 1
  /\ UNCHANGED <<diskFat, data, fat, bytesFree, job, used, stored,
                 restarts, lost, wild>>

WriteEntry ==
  /\ pc = "entry" /\ ~wild
  /\ dir' = [dir EXCEPT ![FinalSlot].first = used[1]]
  /\ PutEntry(FinalSlot)
  /\ chains' = [chains EXCEPT ![FinalSlot] = used]
  /\ pc' = "data"
  /\ part' = 1
  /\ UNCHANGED <<diskFat, data, fat, bytesFree, job, used, stored,
                 restarts, lost, wild>>

-----------------------------------------------------------------------------
(* The data *)

\* A mutant: clusters counted from 1
DataSectorFromOne == (used[part] - 1) * SectorsPerCluster

DataSector == (used[part] - 2) * SectorsPerCluster

\* A write past the volume changes nothing that can be read
PutData(content) ==
  \/ /\ data' = IF DataSector \in Sectors
                THEN [data EXCEPT ![DataSector] = content] ELSE data
     /\ Reached
  \/ UNCHANGED data /\ Refused

WriteData ==
  /\ pc = "data" /\ ~wild
  /\ \/ /\ part < Len(used)
        /\ PutData([of |-> job.name, part |-> part, padded |-> TRUE])
        /\ part' = part + 1
        /\ UNCHANGED pc
     \/ /\ part = Len(used)
        /\ \/ /\ job.size % BytesPerSector = 0
              /\ UNCHANGED <<data, refusals>>
           \/ /\ job.size % BytesPerSector # 0
              /\ PutData([of |-> job.name, part |-> part, padded |-> FALSE])
        /\ pc' = "pad"
        /\ UNCHANGED part
  /\ UNCHANGED <<diskFat, diskDir, cache, job, used, past, restarts, lost,
                 wild>>

\* A mutant: the space is that of the bytes
SpaceOfBytes == job.size

SpaceTaken == Len(used) * BytesPerSector * SectorsPerCluster

\* The job's last bytes are in their sector; there may be none
LastThere ==
  \/ job.size % BytesPerSector = 0
  \/ DataSector \in Sectors =>
       data[DataSector].of = job.name /\ data[DataSector].part = part

\* Other bytes than the job's, with zeros behind them
Mangled == [of |-> << >>, part |-> 0, padded |-> TRUE]

\* The rest of the last sector is zeroed, behind whatever its front holds
PadData ==
  /\ pc = "pad" /\ ~wild
  /\ PutData(IF LastThere THEN [of |-> job.name, part |-> part, padded |-> TRUE]
             ELSE Mangled)
  /\ bytesFree' = (bytesFree - SpaceTaken) % FreeMod
  /\ stored' = stored \cup {job}
  /\ pc' = "idle"
  /\ job' = NoJob
  /\ used' = << >>
  /\ part' = 0
  /\ UNCHANGED <<diskFat, diskDir, fat, dir, chains, restarts, lost, wild>>

-----------------------------------------------------------------------------
(* Power is lost, and the kernel started again from the disk *)

StartAgain ==
  /\ pc \in CrashPhases /\ ~wild
  /\ restarts + refusals < MaxFaults
  /\ restarts' = restarts + 1
  /\ lost' = (refusals > 0)
  /\ fat' = diskFat'
  /\ dir' = diskDir
  /\ bytesFree' = CountedFree(fat')
  /\ pc' = "idle"
  /\ job' = NoJob
  /\ used' = << >>
  /\ part' = 0
  /\ UNCHANGED <<diskDir, data, past, refusals, wild>>

Restart == UNCHANGED diskFat /\ StartAgain

\* The same in the middle of a fat12_set_cluster
NextMark == IF Len(used) = Needed(job.size) THEN EndOfChain ELSE Min(FreeFrom)

MarksNext ==
  pc = "link" /\ used # << >> /\ (Len(used) = Needed(job.size) \/ FreeFrom # {})

RestartInMark ==
  /\ MarksNext
  /\ \E n \in Cuts(Last(used)) :
       diskFat' = SentFat([fat EXCEPT ![Last(used)] = NextMark], Last(used), n)
  /\ StartAgain

Init ==
  /\ \E d \in Disks :
       /\ diskFat = d.fat /\ diskDir = d.dir /\ data = d.data
       /\ chains = d.chains /\ stored = d.stored
  /\ fat = diskFat
  /\ dir = diskDir
  /\ bytesFree = CountedFree(diskFat)
  /\ pc = "idle"
  /\ job = NoJob
  /\ used = << >>
  /\ part = 0
  /\ restarts = 0 /\ refusals = 0 /\ lost = FALSE
  /\ wild = FALSE

Write ==
  \/ WriteLong \/ FillEntry \/ LinkCluster \/ EndChain
  \/ WriteEntry \/ WriteData \/ PadData

Next ==
  \/ \E name \in Names, size \in FileSizes : StartWrite(name, size)
  \/ Write
  \/ Restart \/ RestartInMark

Spec == Init /\ [][Next]_vars

(***************************************************************************)
(* Callers that leave room for the cluster the check of the free space     *)
(* does not count.  The shell's, which write 14 bytes, do whenever a       *)
(* cluster is free.                                                        *)
(***************************************************************************)
LeavesRoom(size) == Needed(size) <= Cardinality(FreeClusters(fat))

RoomyNext ==
  \/ \E name \in Names, size \in FileSizes :
       (LeavesRoom(size) \/ size > bytesFree) /\ StartWrite(name, size)
  \/ Write
  \/ Restart \/ RestartInMark

RoomySpec == Init /\ [][RoomyNext]_vars

\* fat12_write_file is not blocked: the disk answers and nothing preempts it
FairSpec == RoomySpec /\ WF_vars(Write)

-----------------------------------------------------------------------------
(* Every variable has its type. *)
TypeOK ==
  /\ diskFat \in [FatIndex -> FatValues] /\ fat \in [FatIndex -> FatValues]
  /\ diskDir \in [Slots -> DirSlot] /\ dir \in [Slots -> DirSlot]
  /\ data \in [Sectors -> Content]
  /\ bytesFree \in Nat
  /\ pc \in Phases
  /\ job \in [name : Names \cup {<< >>}, size : Nat, slot : Nat]
  /\ used \in Seq(FatIndex)
  /\ part \in Nat
  /\ chains \in [Slots -> Seq(FatIndex)]
  /\ restarts \in 0..MaxFaults /\ refusals \in 0..MaxRefusals
  /\ lost \in BOOLEAN
  /\ wild \in BOOLEAN

(***************************************************************************)
(* A file's chain: its entry has the first cluster and each cluster's      *)
(* entry of the FAT the next, to the end, so that loading it ends.         *)
(***************************************************************************)
Complete(s, d, f) ==
  LET chain == chains[s] IN
  /\ d[s].first = IF chain = << >> THEN 0 ELSE chain[1]
  /\ \A k \in 1..Len(chain) :
       f[chain[k]] = IF k = Len(chain) THEN EndOfChain ELSE chain[k + 1]

ChainsOf(files, d, f) ==
  /\ \A s \in files : Complete(s, d, f)
  /\ \A s, t \in files : s # t => Range(chains[s]) \cap Range(chains[t]) = {}

OnDisk   == {s \in Slots : diskDir[s].kind = "file"}
InMemory == {s \in Slots : dir[s].kind = "file"}

(***************************************************************************)
(* Whenever power is lost, each file of the disk's directory has a whole   *)
(* chain on the disk, and no cluster is in two of them: fat12_write_file   *)
(* marks the clusters before it writes the entry (fat12.c:480-485), and    *)
(* only ones it found free.  A mark that is cut between two sectors, and   *)
(* the third byte that is written for it, do no harm (fat12.c:83).         *)
(***************************************************************************)
ChainsOnDisk == refusals = 0 => ChainsOf(OnDisk, diskDir, diskFat)

(***************************************************************************)
(* The entries of this model are what the bytes of the FAT hold: packed,   *)
(* the FAT in memory and the disk's change with each mark, whole or cut,   *)
(* as SetCluster and RestartInMark say (fat12.c:55-84).                    *)
(***************************************************************************)
HalfByteOf(f, k) ==
  IF k \div 3 \in FatIndex THEN Digit(f[k \div 3], k % 3) ELSE 0

Packed(f) ==
  [i \in 0..(2 * FatEntries) |-> HalfByteOf(f, 2 * i) + 16 * HalfByteOf(f, 2 * i + 1)]

BytesAgree ==
  MarksNext =>
    \A e \in FatIndex, n \in 0..BytesSent :
      PackingSound(Packed(fat), Packed(diskFat), Last(used), e, NextMark, n)

(***************************************************************************)
(* When the disk refuses writes, which nobody notices (fat12.c:502), the   *)
(* files of the directory in memory still have whole chains of their own   *)
(* in the FAT in memory, until the next start.                             *)
(***************************************************************************)
Unfinished == IF pc \in {"link", "entry"} THEN {FinalSlot} ELSE {}

ChainsInMemory == ~lost => ChainsOf(InMemory \ Unfinished, dir, fat)

(***************************************************************************)
(* Writing a file changes no sector of another one that a directory        *)
(* shows, whenever power is lost and whatever it left behind, unless the   *)
(* disk had refused marks by then.                                         *)
(***************************************************************************)
SectorsOf(s) == {(c - 2) * SectorsPerCluster : c \in Range(chains[s])} \cap Sectors

OthersKept ==
  [][\A s \in OnDisk \cup InMemory : lost \/ pc = "idle" \/ s = FinalSlot \/
       \A sector \in SectorsOf(s) : data'[sector] = data[sector]]_vars

(***************************************************************************)
(* An entry with its size is on the disk before the file's data is         *)
(* (fat12.c:485): a power loss may leave a file with other contents, and   *)
(* so may a refused write.  But no more than one file for each of them.    *)
(***************************************************************************)
Intact(s) == IntactIn(chains[s], data)

OneLostEach ==
  pc = "idle" /\ ~lost =>
    Cardinality({s \in InMemory : ~Intact(s)}) <= restarts + refusals

(***************************************************************************)
(* The cache is what the disk holds, but for the final entry while its     *)
(* clusters are being found: a restart at any other time loses nothing.    *)
(***************************************************************************)
CacheFollowsDisk ==
  refusals = 0 =>
    /\ fat = diskFat
    /\ \A s \in Slots :
         dir[s] # diskDir[s] => pc \in {"link", "entry"} /\ s = FinalSlot

(***************************************************************************)
(* "Check to make sure there's enough space" (fat12.c:348): a write that   *)
(* passed the check only takes clusters of the volume.                     *)
(***************************************************************************)
SpaceChecked == Range(used) \subseteq DataClusters

(***************************************************************************)
(* "Write ... to a specified file" (kernel.c:213): a file whose writing    *)
(* returned OK is found under the name it was written with.                *)
(***************************************************************************)
StoredIsFound ==
  pc = "idle" => \A file \in stored : Found(dir, file.name) # {}
=============================================================================
