------------------------------ MODULE Fat12Store ------------------------------
(***************************************************************************)
(* What the FAT12 driver is for: a store of files.  Its volumes have one   *)
(* sector per cluster, as the Makefile's image, and count their bytes      *)
(* without overflow, and the directories it is started on are tidy, as the *)
(* driver itself leaves them when power is lost between writes only.       *)
(***************************************************************************)
EXTENDS Fat12

ASSUME VolumeAssumption ==
  /\ SectorsPerCluster = 1 /\ BytesPerSector * NumClusters < FreeMod
  /\ \A name \in Names : Len(Parts(name)) <= MaxParts

\* Nothing follows an empty entry
Dense(d) ==
  \A s, t \in Slots : s < t /\ d[s].kind = "empty" => d[t].kind = "empty"

\* Every part of a name belongs to a file
NamesEnd(d) ==
  \A t \in Slots : d[t].kind = "long" => \E s \in Slots : s > t /\ d[s].kind = "file"

\* The last file has a name of several entries, so that none is kept
NoneKept(d) == Kept(d, DirEntries) = {}

\* Entry 0 of the FAT, the media mark, is followed past the FAT
Marked(f) == f[0] \in FatEntries..4087

\* What a file of name and size holds when it has been written
Whole(name, size) ==
  [k \in 1..Needed(size) |-> [of |-> name, part |-> k, padded |-> TRUE]]

Holds(sectors, chain, name, size) ==
  /\ Len(chain) = Needed(size)
  /\ \A k \in 1..Len(chain) :
       chain[k] - 2 \in Sectors /\ sectors[chain[k] - 2] = Whole(name, size)[k]

ASSUME TidyAssumption ==
  \A d \in Disks :
    /\ Dense(d.dir) /\ NamesEnd(d.dir) /\ NoneKept(d.dir) /\ Marked(d.fat)
    /\ \A s, t \in FileSlots(d.dir) : NameOf(d.dir, s) = NameOf(d.dir, t) => s = t
    /\ \A file \in d.stored : \E s \in Found(d.dir, file.name) :
         /\ d.dir[s].size = file.size
         /\ Holds(d.data, d.chains[s], file.name, file.size)

-----------------------------------------------------------------------------
(***************************************************************************)
(* Between writes bytesFree, which is counted at boot and then only        *)
(* decremented (fat12.c:515), is the space of the free clusters.           *)
(***************************************************************************)
FreeSpaceExact == pc = "idle" => bytesFree = CountedFree(fat)

(***************************************************************************)
(* When power is only lost between writes and callers leave room, no       *)
(* search or write goes past the end of the FAT or of the directory.       *)
(***************************************************************************)
Contained == ~wild

(***************************************************************************)
(* A file whose writing returned OK is found under its name, with its      *)
(* size, and loading it gives what was written, also after a restart.      *)
(***************************************************************************)
ReadsBack ==
  pc = "idle" => \A file \in stored :
    /\ Found(dir, file.name) # {}
    /\ LET s == Min(Found(dir, file.name)) IN
         /\ dir[s].size = file.size
         /\ Loaded(dir[s].first) = Whole(file.name, file.size)

(***************************************************************************)
(* A call of fat12_write_file returns: its search for clusters, which has  *)
(* no bound of its own, ends.                                              *)
(***************************************************************************)
WriteReturns == pc # "idle" ~> pc = "idle"

(***************************************************************************)
(* The driver implements the file store: what a reader finds through the   *)
(* directory, the FAT and the data appears at once, when the last sector   *)
(* of the file is written, and never changes.                              *)
(***************************************************************************)
Readable ==
  {[name |-> NameOf(dir, s), size |-> dir[s].size,
    contents |-> Loaded(dir[s].first)] :
     s \in {s \in FileSlots(dir) : pc = "idle" \/ s < job.slot}}

Store == INSTANCE FileStore WITH FileNames <- Names, Lengths <- FileSizes,
                                 files <- Readable

StoreRefined == Store!StoreSpec
=============================================================================
