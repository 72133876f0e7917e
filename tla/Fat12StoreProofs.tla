--------------------------- MODULE Fat12StoreProofs ---------------------------
(***************************************************************************)
(* The FAT12 driver is a store of files, on every tidy volume: its count   *)
(* of the free space stays exact, its searches stay inside, files are read *)
(* back as they were written, and it implements FileStore.                 *)
(***************************************************************************)
EXTENDS Fat12Store, Fat12Proofs

-----------------------------------------------------------------------------
(* The free clusters *)

LEMMA FreeFinite ==
  ASSUME NEW f
  PROVE  /\ IsFiniteSet(FreeClusters(f)) /\ Cardinality(FreeClusters(f)) \in Nat
         /\ Cardinality(FreeClusters(f)) <= NumClusters
<1>1. NumClusters \in Nat
  BY GeometryAssumption
<1>2. IsFiniteSet(DataClusters) /\ Cardinality(DataClusters) = NumClusters
  BY <1>1, FS_Interval DEF DataClusters
<1>3. FreeClusters(f) \in SUBSET DataClusters
  BY DEF FreeClusters
<1>4. IsFiniteSet(FreeClusters(f)) /\ Cardinality(FreeClusters(f)) <= NumClusters
  BY <1>2, <1>3, FS_Subset
<1> QED
  BY <1>4, FS_CardinalityType

LEMMA DataInFat == DataClusters \subseteq FatIndex /\ DataClusters \subseteq Nat
BY GeometryAssumption DEF DataClusters, FatIndex

LEMMA NeededType ==
  ASSUME NEW size \in Nat
  PROVE  Needed(size) \in Nat \ {0}
BY GeometryAssumption DEF Needed

\* A mark takes its cluster from the free ones
LEMMA MarkTakes ==
  ASSUME NEW f \in [FatIndex -> FatValues], NEW c \in DataClusters, f[c] = Free,
         NEW value \in FatValues \ {Free}
  PROVE  /\ FreeClusters([f EXCEPT ![c] = value]) = FreeClusters(f) \ {c}
         /\ Cardinality(FreeClusters([f EXCEPT ![c] = value])) =
              Cardinality(FreeClusters(f)) - 1
<1>1. PICK g : g = [f EXCEPT ![c] = value]
  OBVIOUS
<1>2. /\ \A d \in DataClusters \ {c} : g[d] = f[d]
      /\ g[c] # Free
  BY <1>1, DataInFat
<1>3. FreeClusters(g) = FreeClusters(f) \ {c} /\ c \in FreeClusters(f)
  BY <1>2 DEF FreeClusters
<1>4. Cardinality(FreeClusters(g)) = Cardinality(FreeClusters(f)) - 1
  BY <1>3, FreeFinite, FS_RemoveElement
<1> QED
  BY <1>1, <1>3, <1>4

\* The free clusters of the volume that the search has not passed
Passed    == IF used = << >> THEN 1 ELSE Last(used)
FreeAhead == {c \in FreeClusters(fat) : c > Passed}
FreeCount == Cardinality(FreeClusters(fat))

\* What bytesFree counts, and that the search will find what it needs
LinkInv ==
  /\ Len(used) <= Needed(job.size)
  /\ used # << >> => fat[Last(used)] = Free
  /\ Needed(job.size) - Len(used) <= Cardinality(FreeAhead)
  /\ bytesFree = BytesPerSector * (FreeCount + (IF used = << >> THEN 0 ELSE Len(used) - 1))

SpaceInv ==
  /\ pc \in {"idle", "names", "fill"} => bytesFree = BytesPerSector * FreeCount
  /\ pc \in {"names", "fill"} => Needed(job.size) <= FreeCount
  /\ pc = "link" => LinkInv
  /\ pc \in {"link", "entry", "data", "pad"} => \A k \in 1..Len(used) : used[k] \in DataClusters
  /\ pc \in {"entry", "data", "pad"} =>
       /\ Len(used) = Needed(job.size)
       /\ bytesFree = BytesPerSector * (FreeCount + Len(used))

LEMMA InitSpace == Init => SpaceInv
BY DEF Init, SpaceInv, CountedFree, FreeCount

LEMMA SpaceSame ==
  ASSUME SpaceInv, UNCHANGED <<fat, bytesFree, pc, job, used>>
  PROVE  SpaceInv'
BY DEF SpaceInv, LinkInv, FreeAhead, Passed, FreeCount, FreeClusters

LEMMA StartSpace ==
  ASSUME IInv, SpaceInv, NEW name \in Names, NEW size \in FileSizes,
         LeavesRoom(size) \/ size > bytesFree, StartWrite(name, size)
  PROVE  SpaceInv'
<1>1. CASE WriteRefused(name, size)
  BY <1>1, SpaceSame DEF StartWrite, writer, cache
<1>2. CASE ~WriteRefused(name, size)
  <2>1. /\ pc = "idle" /\ pc' = "names" /\ job'.size = size
        /\ fat' = fat /\ bytesFree' = bytesFree
    BY <1>2 DEF StartWrite, cache
  <2>2. Needed(size) <= FreeCount
    BY <1>2 DEF WriteRefused, LeavesRoom, FreeCount
  <2>3. FreeCount' = FreeCount
    BY <2>1 DEF FreeCount
  <2> QED
    BY <2>1, <2>2, <2>3 DEF SpaceInv
<1> QED
  BY <1>1, <1>2

LEMMA FillSpace ==
  ASSUME IInv, SpaceInv, FillEntry
  PROVE  SpaceInv'
<1>1. CASE FinalSlot \notin Slots
  BY <1>1, SpaceSame DEF FillEntry, RunsOff, cache, writer
<1>2. CASE FinalSlot \in Slots
  <2>1. pc = "fill" /\ pc' = "link" /\ UNCHANGED <<fat, bytesFree, job, used>>
    BY <1>2 DEF FillEntry
  <2>2. used = << >> /\ job.size \in Nat
    BY <2>1 DEF IInv, WriterInv, TypeOK
  <2>3. FreeAhead' = FreeClusters(fat)
    BY <2>1, <2>2 DEF FreeAhead, Passed, FreeClusters, DataClusters
  <2>4. bytesFree = BytesPerSector * FreeCount /\ Needed(job.size) <= FreeCount
    BY <2>1 DEF SpaceInv
  <2>5. FreeCount \in Nat /\ FreeCount' = FreeCount
    BY <2>1, FreeFinite DEF FreeCount
  <2>6. LinkInv'
    <3>1. Len(used) = 0 /\ used' = << >> /\ Needed(job.size) \in Nat
      BY <2>1, <2>2, NeededType
    <3>2. Needed(job.size) - 0 <= Cardinality(FreeAhead')
      BY <2>3, <2>4, <3>1 DEF FreeCount
    <3> QED
      BY <2>1, <2>4, <2>5, <3>1, <3>2 DEF LinkInv
  <2> QED
    BY <2>1, <2>2, <2>6 DEF SpaceInv
<1> QED
  BY <1>1, <1>2

\* What the search finds while enough lies ahead
LEMMA FindsInVolume ==
  ASSUME IInv, SpaceInv, pc = "link", Len(used) < Needed(job.size)
  PROVE  /\ FreeFrom # {} /\ Min(FreeFrom) \in FreeAhead
         /\ \A c \in FreeAhead : Min(FreeFrom) <= c
<1>1. /\ TypeOK /\ used \in Seq(FatIndex) /\ Len(used) \in Nat /\ job.size \in Nat
      /\ fat \in [FatIndex -> FatValues]
  BY DEF IInv, TypeOK
<1>2. LinkInv
  BY DEF SpaceInv
<1>3. FreeAhead # {}
  <2>1. Needed(job.size) \in Nat /\ Len(used) \in Nat /\ Len(used) < Needed(job.size)
    BY <1>1, NeededType
  <2>2. Needed(job.size) - Len(used) <= Cardinality(FreeAhead)
    BY <1>2 DEF LinkInv
  <2>3. ~(Needed(job.size) - Len(used) <= 0)
    BY <2>1
  <2> QED
    BY <2>2, <2>3, FS_EmptySet, Zenon
<1>4. FreeAhead \subseteq FreeFrom
  BY DataInFat DEF FreeAhead, FreeFrom, FreeClusters, Passed
<1>5. FreeFrom \subseteq Nat /\ FreeFrom # {}
  BY <1>3, <1>4, Geometry DEF FreeFrom
<1>6. PICK c : c = Min(FreeFrom)
  OBVIOUS
<1>7. c \in FreeFrom /\ \A d \in FreeFrom : c <= d
  BY <1>5, <1>6, SmallestMember
<1>8. PICK d : d \in FreeAhead
  BY <1>3
<1>9. /\ c \in FatIndex /\ c \in Nat /\ fat[c] = Free /\ c > Passed /\ c <= d
      /\ d \in DataClusters
  BY <1>4, <1>5, <1>7, <1>8 DEF FreeFrom, Passed, FreeAhead, FreeClusters
<1>10. c >= 2
  <2>1. CASE used = << >>
    BY <1>9, <2>1 DEF Passed
  <2>2. CASE used # << >>
    <3>1. Last(used) = used[Len(used)] /\ Len(used) \in Nat \ {0}
      BY <1>1, <2>2, LastMember
    <3>2. used[Len(used)] \in DataClusters
      BY <3>1 DEF SpaceInv
    <3> QED
      BY <1>9, <2>2, <3>1, <3>2 DEF Passed, DataClusters
  <2> QED
    BY <2>1, <2>2
<1>11. c \in DataClusters
  BY <1>9, <1>10, GeometryAssumption DEF DataClusters
<1>12. c \in FreeAhead
  BY <1>9, <1>11 DEF FreeAhead, FreeClusters
<1> QED
  BY <1>4, <1>5, <1>6, <1>7, <1>12

LEMMA LinkSpace ==
  ASSUME IInv, SpaceInv, LinkCluster
  PROVE  SpaceInv'
<1>1. pc = "link" /\ Len(used) < Needed(job.size)
  BY DEF LinkCluster
<1>2. PICK c : c = Min(FreeFrom)
  OBVIOUS
<1>3. FreeFrom # {} /\ c \in FreeAhead /\ \A d \in FreeAhead : c <= d
  BY <1>1, <1>2, FindsInVolume
<1>4. /\ used' = Append(used, c) /\ UNCHANGED <<bytesFree, pc, job>>
      /\ \/ used = << >> /\ fat' = fat
         \/ used # << >> /\ fat' = [fat EXCEPT ![Last(used)] = c]
  BY <1>2, <1>3 DEF LinkCluster, SetCluster
<1>5. /\ TypeOK /\ used \in Seq(FatIndex) /\ Len(used) \in Nat /\ job.size \in Nat
      /\ fat \in [FatIndex -> FatValues] /\ LinkInv
  BY <1>1 DEF IInv, TypeOK, SpaceInv
<1>6. c \in DataClusters /\ fat[c] = Free /\ c > Passed /\ c \in FatIndex
  BY <1>3, DataInFat DEF FreeAhead, FreeClusters
<1>7. /\ used' \in Seq(FatIndex) /\ Len(used') = Len(used) + 1 /\ used' # << >>
      /\ used'[Len(used) + 1] = c /\ \A k \in 1..Len(used) : used'[k] = used[k]
  BY <1>4, <1>5, <1>6
<1>8. Last(used') = c
  BY <1>7, LastMember
<1>9. used # << >> => /\ Last(used) \in DataClusters /\ Last(used) \in FatIndex
                      /\ fat[Last(used)] = Free /\ Passed = Last(used)
  <2>1. SUFFICES ASSUME used # << >>
                 PROVE  /\ Last(used) \in DataClusters /\ Last(used) \in FatIndex
                        /\ fat[Last(used)] = Free /\ Passed = Last(used)
    OBVIOUS
  <2>2. Last(used) = used[Len(used)] /\ Len(used) \in Nat \ {0} /\ Last(used) \in FatIndex
    BY <1>5, <2>1, LastMember
  <2>3. used[Len(used)] \in DataClusters
    BY <1>1, <2>2 DEF SpaceInv
  <2> QED
    BY <1>5, <2>1, <2>2, <2>3 DEF LinkInv, Passed
<1>10. c \in FatValues \ {Free} /\ c \in Nat
  BY <1>6, DataInFat, Geometry DEF DataClusters, Free
<1>11. FreeCount \in Nat /\ (used = << >> => FreeCount' = FreeCount)
       /\ (used # << >> => FreeCount' = FreeCount - 1)
  <2>1. FreeCount \in Nat
    BY FreeFinite DEF FreeCount
  <2>2. CASE used = << >>
    BY <1>4, <2>1, <2>2 DEF FreeCount
  <2>3. CASE used # << >>
    BY <1>4, <1>5, <1>9, <1>10, <2>1, <2>3, MarkTakes DEF FreeCount
  <2> QED
    BY <2>2, <2>3
<1>12. FreeAhead' = FreeAhead \ {c}
  <2>1. Passed' = c
    BY <1>7, <1>8 DEF Passed
  <2>2. \A d \in DataClusters : d > c => fat'[d] = fat[d]
    <3>1. CASE used = << >>
      BY <1>4, <3>1
    <3>2. CASE used # << >>
      <4>1. Last(used) \in Nat /\ Last(used) < c
        BY <1>6, <1>9, <1>10, <3>2, DataInFat
      <4> QED
        BY <1>4, <1>5, <1>10, <3>2, <4>1, DataInFat
    <3> QED
      BY <1>4, <3>1, <3>2
  <2>3. ASSUME NEW d \in DataClusters
        PROVE  (fat'[d] = Free /\ d > c) <=> (fat[d] = Free /\ d > Passed /\ d # c)
    <3>1. d \in Nat /\ Passed \in Nat
      <4>1. Passed \in Nat
        BY <1>9, DataInFat DEF Passed
      <4> QED
        BY <4>1, DataInFat
    <3>2. ASSUME fat[d] = Free, d > Passed
          PROVE  c <= d
      BY <1>3, <3>2 DEF FreeAhead, FreeClusters
    <3> QED
      BY <1>6, <1>10, <2>2, <3>1, <3>2
  <2> QED
    BY <2>1, <2>3 DEF FreeAhead, FreeClusters
<1>13. Cardinality(FreeAhead') = Cardinality(FreeAhead) - 1 /\ Cardinality(FreeAhead) \in Nat
  <2>1. IsFiniteSet(FreeAhead)
    <3>1. FreeAhead \in SUBSET FreeClusters(fat)
      BY DEF FreeAhead
    <3> QED
      BY <3>1, FreeFinite, FS_Subset
  <2> QED
    BY <1>3, <1>12, <2>1, FS_RemoveElement, FS_CardinalityType
<1>14. \A k \in 1..Len(used') : used'[k] \in DataClusters
  <2>1. ASSUME NEW k \in 1..Len(used')
        PROVE  used'[k] \in DataClusters
    <3>1. k = Len(used) + 1 \/ k \in 1..Len(used)
      BY <1>5, <1>7
    <3> QED
      BY <1>1, <1>6, <1>7, <3>1 DEF SpaceInv
  <2> QED
    BY <2>1
<1>15. LinkInv'
  <2>1. Needed(job.size) \in Nat /\ job' = job /\ bytesFree' = bytesFree
    BY <1>4, <1>5, NeededType
  <2>2. Len(used') <= Needed(job'.size)
    BY <1>1, <1>5, <1>7, <2>1
  <2>3. fat'[Last(used')] = Free
    <3>1. CASE used = << >>
      BY <1>4, <1>6, <1>8, <3>1
    <3>2. CASE used # << >>
      <4>1. Last(used) # c
        BY <1>6, <1>9, <1>10, <3>2, DataInFat
      <4> QED
        BY <1>4, <1>5, <1>6, <1>8, <3>2, <4>1
    <3> QED
      BY <1>4, <3>1, <3>2
  <2>4. Needed(job'.size) - Len(used') <= Cardinality(FreeAhead')
    BY <1>5, <1>7, <1>13, <2>1 DEF LinkInv
  <2>5. FreeCount' + (Len(used') - 1) =
          FreeCount + (IF used = << >> THEN 0 ELSE Len(used) - 1)
    BY <1>5, <1>7, <1>11
  <2>6. bytesFree' = BytesPerSector * (FreeCount' + (Len(used') - 1))
    BY <1>5, <2>1, <2>5 DEF LinkInv
  <2> QED
    BY <1>7, <2>2, <2>3, <2>4, <2>6 DEF LinkInv
<1> QED
  BY <1>1, <1>4, <1>14, <1>15 DEF SpaceInv

LEMMA EndSpace ==
  ASSUME IInv, SpaceInv, EndChain
  PROVE  SpaceInv'
<1>1. /\ pc = "link" /\ Len(used) = Needed(job.size) /\ pc' = "entry"
      /\ fat' = [fat EXCEPT ![Last(used)] = EndOfChain]
      /\ UNCHANGED <<bytesFree, job, used>>
  BY DEF EndChain, SetCluster
<1>2. /\ used \in Seq(FatIndex) /\ job.size \in Nat /\ fat \in [FatIndex -> FatValues]
      /\ LinkInv
  BY <1>1 DEF IInv, TypeOK, SpaceInv
<1>3. Len(used) \in Nat \ {0} /\ used # << >>
  BY <1>1, <1>2, NeededType
<1>4. Last(used) \in DataClusters /\ fat[Last(used)] = Free
  <2>1. Last(used) = used[Len(used)]
    BY <1>2, <1>3, LastMember
  <2> QED
    BY <1>1, <1>2, <1>3, <2>1 DEF SpaceInv, LinkInv
<1>5. FreeCount \in Nat /\ FreeCount' = FreeCount - 1
  BY <1>1, <1>2, <1>4, FreeFinite, MarkTakes, Geometry DEF FreeCount
<1>6. FreeCount' + Len(used') = FreeCount + (Len(used) - 1)
  BY <1>1, <1>3, <1>5
<1>7. bytesFree' = BytesPerSector * (FreeCount' + Len(used'))
  BY <1>1, <1>2, <1>3, <1>6 DEF LinkInv
<1> QED
  BY <1>1, <1>7 DEF SpaceInv

LEMMA PadSpace ==
  ASSUME IInv, SpaceInv, PadData
  PROVE  SpaceInv'
<1>1. /\ pc = "pad" /\ pc' = "idle" /\ fat' = fat
      /\ bytesFree' = (bytesFree - SpaceTaken) % FreeMod
  BY DEF PadData
<1>2. used \in Seq(FatIndex) /\ Len(used) \in Nat
  BY DEF IInv, TypeOK
<1>3. FreeCount \in Nat /\ FreeCount <= NumClusters /\ FreeCount' = FreeCount
  BY <1>1, FreeFinite DEF FreeCount
<1>4. bytesFree = BytesPerSector * (FreeCount + Len(used))
  BY <1>1 DEF SpaceInv
<1>5. BytesPerSector \in Nat /\ FreeMod \in Nat /\ NumClusters \in Nat
  BY GeometryAssumption
<1>6. SpaceTaken = BytesPerSector * Len(used)
  BY <1>2, <1>5, VolumeAssumption DEF SpaceTaken
<1>7. bytesFree - SpaceTaken = BytesPerSector * FreeCount
  BY <1>2, <1>3, <1>4, <1>5, <1>6
<1>8. BytesPerSector * FreeCount \in Nat /\ BytesPerSector * FreeCount < FreeMod
  <2>1. BytesPerSector * FreeCount <= BytesPerSector * NumClusters
    BY <1>3, <1>5
  <2> QED
    BY <1>3, <1>5, <2>1, VolumeAssumption
<1>9. bytesFree' = BytesPerSector * FreeCount'
  BY <1>1, <1>3, <1>5, <1>7, <1>8
<1> QED
  BY <1>1, <1>9 DEF SpaceInv

LEMMA AgainSpace ==
  ASSUME StartAgain
  PROVE  SpaceInv'
BY DEF StartAgain, SpaceInv, CountedFree, FreeCount

LEMMA NextSpace == IInv /\ SpaceInv /\ [RoomyNext]_vars => SpaceInv'
<1> SUFFICES ASSUME IInv, SpaceInv, [RoomyNext]_vars PROVE SpaceInv'
  OBVIOUS
<1>1. ASSUME NEW name \in Names, NEW size \in FileSizes,
             LeavesRoom(size) \/ size > bytesFree, StartWrite(name, size)
      PROVE  SpaceInv'
  BY <1>1, StartSpace
<1>2. CASE WriteLong
  <2>1. CASE pc' = pc
    BY <1>2, <2>1, SpaceSame DEF WriteLong, RunsOff, cache, writer
  <2>2. CASE pc' # pc
    <3>1. pc = "names" /\ pc' = "fill" /\ UNCHANGED <<fat, bytesFree, job, used>>
      BY <1>2, <2>2 DEF WriteLong, RunsOff, writer
    <3> QED
      BY <3>1 DEF SpaceInv, FreeCount
  <2> QED
    BY <2>1, <2>2
<1>3. CASE FillEntry
  BY <1>3, FillSpace
<1>4. CASE LinkCluster
  BY <1>4, LinkSpace
<1>5. CASE EndChain
  BY <1>5, EndSpace
<1>6. CASE WriteEntry
  <2>1. pc = "entry" /\ pc' = "data" /\ UNCHANGED <<fat, bytesFree, job, used>>
    BY <1>6 DEF WriteEntry
  <2> QED
    BY <2>1 DEF SpaceInv, FreeCount
<1>7. CASE WriteData
  <2>1. /\ pc = "data" /\ pc' \in {"data", "pad"}
        /\ UNCHANGED <<fat, bytesFree, job, used>>
    BY <1>7 DEF WriteData, cache
  <2> QED
    BY <2>1 DEF SpaceInv, FreeCount
<1>8. CASE PadData
  BY <1>8, PadSpace
<1>9. CASE Restart \/ RestartInMark
  BY <1>9, AgainSpace DEF Restart, RestartInMark
<1>10. CASE UNCHANGED vars
  BY <1>10, SpaceSame DEF vars, cache, writer
<1> QED
  BY <1>1, <1>2, <1>3, <1>4, <1>5, <1>6, <1>7, <1>8, <1>9, <1>10 DEF RoomyNext, Write

LEMMA RoomyIsNext == [RoomyNext]_vars => [Next]_vars
BY DEF RoomyNext, Next

LEMMA RoomyIInv == RoomySpec => []IInv
BY InitIInv, RoomyIsNext, NextIInv, PTL DEF RoomySpec

(***************************************************************************)
(* Between writes the count of free bytes is the space of the free         *)
(* clusters, for every volume, wherever power was lost and whatever the    *)
(* disk refused, as long as callers leave room (fat12.c:32-36, 349, 515).  *)
(***************************************************************************)
THEOREM FreeSpaceAlwaysExact == RoomySpec => []FreeSpaceExact
<1>1. SpaceInv => FreeSpaceExact
  BY DEF SpaceInv, FreeSpaceExact, CountedFree, FreeCount
<1> QED
  BY <1>1, InitSpace, NextSpace, RoomyIInv, PTL DEF RoomySpec

-----------------------------------------------------------------------------
(* The entries of the directory *)

FilledTo(d, n) == \A s \in Slots : d[s].kind = "empty" <=> s >= n

LEMMA FilledDense ==
  ASSUME NEW d, NEW n \in Nat, FilledTo(d, n)
  PROVE  Dense(d)
BY Geometry DEF FilledTo, Dense

LEMMA SlotBounds ==
  /\ DirEntries \in Nat /\ \A s \in Slots : s \in Nat /\ s < DirEntries
  /\ \A s \in Nat : s < DirEntries => s \in Slots
BY GeometryAssumption DEF Slots

\* In a dense directory the search finds the first empty entries, and enough
LEMMA FoundFits ==
  ASSUME dir \in [Slots -> DirSlot], Dense(dir), NEW name \in Names,
         SearchEnd(name) # {}
  PROVE  /\ FoundEntry(name) \in Nat /\ FoundEntry(name) + Len(Parts(name)) \in Slots
         /\ FilledTo(dir, FoundEntry(name))
<1>1. PICK e : e \in SearchEnd(name)
  OBVIOUS
<1>2. PICK f : f = Min(EmptySlots)
  OBVIOUS
<1>3. /\ e \in EmptySlots /\ e \in Slots /\ e \in Nat
      /\ Cardinality({t \in EmptySlots : t <= e}) = Entries(name)
  BY <1>1, Geometry DEF SearchEnd, EmptySlots
<1>4. EmptySlots \subseteq Nat /\ EmptySlots # {}
  BY <1>3, Geometry DEF EmptySlots
<1>5. f \in EmptySlots /\ f \in Nat /\ f \in Slots /\ \A s \in EmptySlots : f <= s
  BY <1>2, <1>4, SmallestMember DEF EmptySlots
<1>6. \A s \in Slots : s \in EmptySlots <=> s >= f
  BY <1>5, Geometry DEF Dense, EmptySlots
<1>7. \A s \in f..e : s \in EmptySlots
  BY <1>3, <1>5, <1>6, SlotBounds
<1>8. {t \in EmptySlots : t <= e} = f..e
  <2>1. ASSUME NEW t
        PROVE  t \in {u \in EmptySlots : u <= e} <=> t \in f..e
    <3>1. ASSUME t \in EmptySlots, t <= e
          PROVE  t \in f..e
      BY <1>3, <1>4, <1>5, <3>1
    <3>2. ASSUME t \in f..e
          PROVE  t \in EmptySlots /\ t <= e
      BY <1>3, <1>5, <1>7, <3>2
    <3> QED
      BY <3>1, <3>2
  <2> QED
    BY <2>1
<1>9. Len(Parts(name)) \in Nat
  BY PartsType
<1>10. e = f + Len(Parts(name))
  <2>1. Cardinality(f..e) = Len(Parts(name)) + 1
    BY <1>3, <1>8 DEF Entries
  <2>2. f <= e /\ f \in Int /\ e \in Int
    BY <1>3, <1>5
  <2>3. Cardinality(f..e) = e - f + 1
    BY <2>2, FS_Interval
  <2> QED
    BY <1>9, <2>1, <2>2, <2>3
<1> DEFINE T == {s \in Slots : \E x \in SearchEnd(name) : s <= x /\ s..x \subseteq EmptySlots}
<1>11. f \in T
  BY <1>1, <1>3, <1>5, <1>7
<1>12. ASSUME NEW s \in T
       PROVE  f <= s
  <2>1. PICK x \in SearchEnd(name) : s <= x /\ s..x \subseteq EmptySlots
    OBVIOUS
  <2>2. s \in Nat /\ x \in Nat
    BY SlotBounds DEF SearchEnd, EmptySlots
  <2>3. s \in EmptySlots
    BY <2>1, <2>2
  <2> QED
    BY <1>5, <2>3
<1>13. Min(T) \in T /\ Min(T) <= f
  <2>1. T \subseteq Nat
    BY Geometry
  <2> QED
    BY <1>11, <2>1, SmallestMember
<1>14. FoundEntry(name) = f
  <2>1. f <= Min(T) /\ Min(T) \in Nat
    BY <1>12, <1>13, Geometry
  <2>2. Min(T) = f
    BY <1>5, <1>13, <2>1
  <2> QED
    BY <2>2 DEF FoundEntry
<1> QED
  BY <1>3, <1>5, <1>6, <1>10, <1>14 DEF FilledTo, EmptySlots

\* Which entries are empty while a file is written
ShapeInv ==
  ~lost =>
    /\ ~wild
    /\ pc = "idle" => Dense(dir)
    /\ pc \in {"names", "fill"} => FinalSlot \in Slots
    /\ pc = "names" =>
         \A s \in Slots : dir[s].kind = "empty" <=>
                            s \in job.slot..LongSlot \/ s >= FinalSlot
    /\ pc = "fill" => FilledTo(dir, FinalSlot)
    /\ pc \in {"link", "entry", "data", "pad"} => FilledTo(dir, FinalSlot + 1)
    /\ pc \in {"link", "entry"} /\ refusals = 0 => diskDir[FinalSlot].kind = "empty"

LEMMA InitShape == Init => ShapeInv
BY TidyAssumption DEF Init, ShapeInv

LEMMA ShapeSame ==
  ASSUME ShapeInv, UNCHANGED <<lost, wild, pc, dir, job, part, refusals, diskDir>>
  PROVE  ShapeInv'
BY DEF ShapeInv, Dense, FilledTo, FinalSlot, LongSlot

\* A file's entries, while they are in the directory
LEMMA JobSlots ==
  ASSUME IInv, pc # "idle"
  PROVE  /\ job.name \in Names /\ job.slot \in Nat /\ Len(Parts(job.name)) \in Nat \ {0}
         /\ FinalSlot \in Nat /\ FinalSlot = job.slot + Len(Parts(job.name))
         /\ job.slot < FinalSlot
<1>1. job.name \in Names /\ job.slot \in Nat
  BY DEF IInv, TypeOK, WriterInv
<1>2. Len(Parts(job.name)) \in Nat \ {0}
  BY <1>1, PartsType
<1> QED
  BY <1>1, <1>2 DEF FinalSlot

LEMMA StartShape ==
  ASSUME IInv, ShapeInv, NEW name \in Names, NEW size \in FileSizes, StartWrite(name, size)
  PROVE  ShapeInv'
<1> USE DEF disk, cache, writer, faults
<1>1. CASE WriteRefused(name, size)
  BY <1>1, ShapeSame DEF StartWrite
<1>2. CASE ~WriteRefused(name, size)
  <2>1. /\ pc = "idle" /\ pc' = "names" /\ part' = 1 /\ ~wild
        /\ job' = [name |-> name, size |-> size, slot |-> FoundEntry(name)]
        /\ UNCHANGED <<dir, lost, wild, refusals, diskDir>>
    BY <1>2 DEF StartWrite
  <2>2. SUFFICES ASSUME ~lost'
                 PROVE  /\ FinalSlot' \in Slots
                        /\ \A s \in Slots : dir'[s].kind = "empty" <=>
                             s \in job'.slot..LongSlot' \/ s >= FinalSlot'
    BY <2>1 DEF ShapeInv
  <2>3. PICK f : f = FoundEntry(name)
    OBVIOUS
  <2>4. f \in Nat /\ f + Len(Parts(name)) \in Slots /\ FilledTo(dir, f)
    <3>1. dir \in [Slots -> DirSlot] /\ Dense(dir) /\ SearchEnd(name) # {}
      BY <1>2, <2>1, <2>2 DEF IInv, TypeOK, ShapeInv, WriteRefused
    <3> QED
      BY <2>3, <3>1, FoundFits
  <2>5. /\ job'.slot = f /\ FinalSlot' = f + Len(Parts(name))
        /\ LongSlot' = f + Len(Parts(name)) - 1
    <3>1. job'.slot = f /\ job'.name = name
      BY <2>1, <2>3
    <3>2. FinalSlot' = f + Len(Parts(name))
      BY <3>1, Zenon DEF FinalSlot
    <3>3. LongSlot' = FinalSlot' - 1
      BY <2>1, Zenon DEF LongSlot
    <3>4. Len(Parts(name)) \in Nat
      BY PartsType
    <3> QED
      BY <2>4, <3>1, <3>2, <3>3, <3>4
  <2>6. Len(Parts(name)) \in Nat \ {0}
    BY PartsType
  <2>7. ASSUME NEW s \in Slots
        PROVE  s >= f <=> s \in f..(f + Len(Parts(name)) - 1) \/ s >= f + Len(Parts(name))
    BY <2>4, <2>6, SlotBounds
  <2> QED
    BY <2>1, <2>4, <2>5, <2>7 DEF FilledTo
<1> QED
  BY <1>1, <1>2

LEMMA LongShape ==
  ASSUME IInv, ShapeInv, WriteLong
  PROVE  ShapeInv'
<1>1. SUFFICES ASSUME ~lost' PROVE ShapeInv'
  BY DEF ShapeInv
<1>2. pc = "names" /\ lost' = lost
  BY DEF WriteLong, RunsOff, faults
<1>3. /\ FinalSlot \in Slots /\ ~wild /\ dir \in [Slots -> DirSlot]
      /\ \A s \in Slots : dir[s].kind = "empty" <=>
                            s \in job.slot..LongSlot \/ s >= FinalSlot
  BY <1>1, <1>2 DEF ShapeInv, IInv, TypeOK
<1>4. /\ job.slot \in Nat /\ FinalSlot \in Nat
      /\ FinalSlot = job.slot + Len(Parts(job.name)) /\ Len(Parts(job.name)) \in Nat
      /\ part \in 1..Len(Parts(job.name))
  BY <1>2, JobSlots DEF IInv, WriterInv
<1>5. PICK slot : slot = LongSlot
  OBVIOUS
<1>6. /\ slot = FinalSlot - part /\ slot \in job.slot..(FinalSlot - 1) /\ slot \in Nat
      /\ slot \in Slots
  BY <1>3, <1>4, <1>5, SlotBounds DEF LongSlot
<1>7. PICK text : text = Parts(job.name)[part]
  OBVIOUS
<1>8. /\ dir' = [dir EXCEPT ![slot] =
                   [kind |-> "long", text |-> text, first |-> 0, size |-> 0]]
      /\ part' = part + 1 /\ job' = job /\ wild' = wild
      /\ pc' = IF part = Len(Parts(job.name)) THEN "fill" ELSE "names"
  BY <1>5, <1>6, <1>7 DEF WriteLong
<1>9. FinalSlot' = FinalSlot /\ LongSlot' = slot - 1
  BY <1>4, <1>6, <1>8 DEF FinalSlot, LongSlot
<1>10. \A s \in Slots : dir'[s].kind = "empty" <=> (s # slot /\ dir[s].kind = "empty")
  BY <1>3, <1>6, <1>8
<1>11. ASSUME NEW s \in Slots
       PROVE  dir'[s].kind = "empty" <=> s \in job.slot..(slot - 1) \/ s >= FinalSlot
  <2>1. s \in Nat
    BY SlotBounds
  <2>2. dir[s].kind = "empty" <=> s \in job.slot..slot \/ s >= FinalSlot
    BY <1>3, <1>5
  <2>3. (s # slot /\ (s \in job.slot..slot \/ s >= FinalSlot))
          <=> s \in job.slot..(slot - 1) \/ s >= FinalSlot
    BY <1>4, <1>6, <2>1, SMTT(30)
  <2> QED
    BY <1>10, <2>2, <2>3
<1>12. CASE part = Len(Parts(job.name))
  <2>1. slot = job.slot
    BY <1>4, <1>6, <1>12
  <2>2. job.slot..(slot - 1) = {}
    BY <1>4, <2>1
  <2>3. FilledTo(dir', FinalSlot')
    BY <1>9, <1>11, <2>2 DEF FilledTo
  <2> QED
    BY <1>3, <1>8, <1>9, <1>12, <2>3 DEF ShapeInv
<1>13. CASE part # Len(Parts(job.name))
  BY <1>3, <1>8, <1>9, <1>11, <1>13 DEF ShapeInv
<1> QED
  BY <1>12, <1>13

LEMMA FillShape ==
  ASSUME IInv, ShapeInv, FillEntry
  PROVE  ShapeInv'
<1>1. SUFFICES ASSUME ~lost' PROVE ShapeInv'
  BY DEF ShapeInv
<1>2. pc = "fill" /\ lost' = lost
  BY DEF FillEntry, RunsOff, faults
<1>3. FinalSlot \in Slots /\ ~wild /\ dir \in [Slots -> DirSlot] /\ FilledTo(dir, FinalSlot)
  BY <1>1, <1>2 DEF ShapeInv, IInv, TypeOK
<1>4. PICK slot : slot = FinalSlot
  OBVIOUS
<1>5. PICK first : first = dir[slot].first
  OBVIOUS
<1>6. /\ dir' = [dir EXCEPT ![slot] =
                   [kind |-> "file", text |-> job.name[1], first |-> first,
                    size |-> job.size]]
      /\ pc' = "link" /\ UNCHANGED <<diskDir, job, refusals, wild>>
  BY <1>3, <1>4, <1>5 DEF FillEntry, disk, faults
<1>7. FinalSlot' = slot /\ slot \in Nat
  BY <1>3, <1>4, <1>6, SlotBounds DEF FinalSlot
<1>8. FilledTo(dir', FinalSlot' + 1)
  <2>1. ASSUME NEW s \in Slots
        PROVE  dir'[s].kind = "empty" <=> s >= slot + 1
    <3>1. CASE s = slot
      BY <1>3, <1>6, <1>7, <3>1
    <3>2. CASE s # slot
      <4>1. dir'[s] = dir[s] /\ s \in Nat
        BY <1>3, <1>6, <3>2, SlotBounds
      <4> QED
        BY <1>3, <1>4, <1>7, <3>2, <4>1 DEF FilledTo
    <3> QED
      BY <3>1, <3>2
  <2> QED
    BY <1>7, <2>1 DEF FilledTo
<1>9. refusals = 0 => diskDir[slot].kind = "empty"
  <2>1. dir[slot].kind = "empty"
    BY <1>3, <1>4, <1>7 DEF FilledTo
  <2>2. refusals = 0 => dir[slot] = diskDir[slot]
    BY <1>2, <1>3, <1>4 DEF IInv, DiskInv, Unfinished
  <2> QED
    BY <2>1, <2>2
<1> QED
  BY <1>3, <1>6, <1>7, <1>8, <1>9 DEF ShapeInv

\* The search for clusters stays inside
LEMMA LinkShape ==
  ASSUME IInv, SpaceInv, ShapeInv, LinkCluster
  PROVE  ShapeInv'
<1>1. FreeFrom # {} /\ pc = "link"
  BY FindsInVolume DEF LinkCluster
<1>2. /\ UNCHANGED <<lost, wild, pc, dir, job, part, diskDir>>
      /\ refusals' = refusals \/ Refused
  BY <1>1 DEF LinkCluster, SetCluster, Reached
<1>3. refusals' = 0 => refusals = 0
  BY <1>2 DEF Refused, IInv, TypeOK
<1> QED
  BY <1>1, <1>2, <1>3 DEF ShapeInv, FilledTo, FinalSlot

LEMMA EndShape ==
  ASSUME IInv, ShapeInv, EndChain
  PROVE  ShapeInv'
<1>1. /\ UNCHANGED <<lost, wild, dir, job, part, diskDir>>
      /\ pc = "link" /\ pc' = "entry"
      /\ refusals' = refusals \/ Refused
  BY DEF EndChain, SetCluster, Reached
<1>2. refusals' = 0 => refusals = 0
  BY <1>1 DEF Refused, IInv, TypeOK
<1> QED
  BY <1>1, <1>2 DEF ShapeInv, FilledTo, FinalSlot

LEMMA EntryShape ==
  ASSUME IInv, ShapeInv, WriteEntry
  PROVE  ShapeInv'
<1>1. PICK slot : slot = FinalSlot
  OBVIOUS
<1>2. PICK first : first = used[1]
  OBVIOUS
<1>3. /\ pc = "entry" /\ pc' = "data" /\ UNCHANGED <<lost, wild, job>>
      /\ dir' = [dir EXCEPT ![slot].first = first]
  BY <1>1, <1>2 DEF WriteEntry
<1>4. dir \in [Slots -> DirSlot] /\ FinalSlot' = FinalSlot
  BY <1>3 DEF IInv, TypeOK, FinalSlot
<1>5. \A s \in Slots : dir'[s].kind = dir[s].kind
  BY <1>3, <1>4 DEF DirSlot
<1> QED
  BY <1>3, <1>4, <1>5 DEF ShapeInv, FilledTo

LEMMA DataShape ==
  ASSUME IInv, ShapeInv, WriteData \/ PadData
  PROVE  ShapeInv'
<1>1. /\ UNCHANGED <<lost, wild, dir>> /\ pc \in {"data", "pad"}
      /\ \/ pc' \in {"data", "pad"} /\ job' = job
         \/ pc' = "idle"
  BY DEF WriteData, PadData, cache
<1>2. ~lost => FilledTo(dir, FinalSlot + 1)
  BY <1>1 DEF ShapeInv
<1>3. FinalSlot + 1 \in Nat
  BY <1>1, JobSlots
<1>4. ~lost => Dense(dir)
  BY <1>2, <1>3, FilledDense
<1> QED
  BY <1>1, <1>4 DEF ShapeInv, FilledTo, FinalSlot, Dense

LEMMA AgainShape ==
  ASSUME IInv, ShapeInv, "names" \notin CrashPhases, StartAgain
  PROVE  ShapeInv'
<1>1. /\ pc' = "idle" /\ dir' = diskDir /\ lost' = (refusals > 0) /\ wild' = wild
      /\ pc \in Phases \ {"names"}
  BY NamesAssumption DEF StartAgain, IInv, TypeOK
<1>2. SUFFICES ASSUME refusals = 0 PROVE ~wild /\ Dense(diskDir)
  <2>1. refusals > 0 \/ refusals = 0
    BY DEF IInv, TypeOK
  <2>2. ~lost' => refusals = 0
    BY <1>1, <2>1, Zenon
  <2> QED
    BY <1>1, <2>2 DEF ShapeInv, Dense
<1>3. ~lost /\ \A s \in Slots : s \notin Unfinished => dir[s] = diskDir[s]
  BY <1>2 DEF IInv, DiskInv
<1>4. CASE pc = "idle"
  <2>1. Dense(dir) /\ \A s \in Slots : diskDir[s] = dir[s]
    BY <1>3, <1>4 DEF ShapeInv, Unfinished
  <2> QED
    BY <1>3, <2>1 DEF Dense, ShapeInv
<1>5. CASE pc # "idle"
  <2>1. FinalSlot \in Nat
    BY <1>5, JobSlots
  <2>2. CASE pc = "fill"
    BY <1>3, <2>1, <2>2, FilledDense DEF ShapeInv, Unfinished, FilledTo
  <2>3. CASE pc \in {"link", "entry"}
    <3>1. FilledTo(dir, FinalSlot + 1) /\ diskDir[FinalSlot].kind = "empty"
      BY <1>2, <1>3, <2>3 DEF ShapeInv
    <3>2. ASSUME NEW s \in Slots
          PROVE  diskDir[s].kind = "empty" <=> s >= FinalSlot
      <4>1. CASE s = FinalSlot
        BY <2>1, <3>1, <4>1
      <4>2. CASE s # FinalSlot
        <5>1. dir[s] = diskDir[s] /\ s \in Nat
          BY <1>3, <2>3, <4>2, SlotBounds DEF Unfinished
        <5>2. s >= FinalSlot + 1 <=> s >= FinalSlot
          BY <2>1, <4>2, <5>1
        <5> QED
          BY <3>1, <5>1, <5>2 DEF FilledTo
      <4> QED
        BY <4>1, <4>2
    <3> QED
      BY <1>3, <2>1, <3>2, FilledDense DEF ShapeInv, FilledTo
  <2>4. CASE pc \in {"data", "pad"}
    <3>1. FilledTo(dir, FinalSlot + 1) /\ \A s \in Slots : diskDir[s] = dir[s]
      BY <1>3, <2>4 DEF ShapeInv, Unfinished
    <3>2. FilledTo(diskDir, FinalSlot + 1) /\ FinalSlot + 1 \in Nat
      BY <2>1, <3>1 DEF FilledTo
    <3> QED
      BY <1>3, <3>2, FilledDense DEF ShapeInv
  <2> QED
    BY <1>1, <1>5, <2>2, <2>3, <2>4 DEF Phases
<1> QED
  BY <1>4, <1>5

LEMMA NextShape ==
  ASSUME "names" \notin CrashPhases
  PROVE  IInv /\ SpaceInv /\ ShapeInv /\ [RoomyNext]_vars => ShapeInv'
<1> SUFFICES ASSUME IInv, SpaceInv, ShapeInv, [RoomyNext]_vars PROVE ShapeInv'
  OBVIOUS
<1>1. ASSUME NEW name \in Names, NEW size \in FileSizes, StartWrite(name, size)
      PROVE  ShapeInv'
  BY <1>1, StartShape
<1>2. CASE WriteLong
  BY <1>2, LongShape
<1>3. CASE FillEntry
  BY <1>3, FillShape
<1>4. CASE LinkCluster
  BY <1>4, LinkShape
<1>5. CASE EndChain
  BY <1>5, EndShape
<1>6. CASE WriteEntry
  BY <1>6, EntryShape
<1>7. CASE WriteData \/ PadData
  BY <1>7, DataShape
<1>8. CASE Restart \/ RestartInMark
  BY <1>8, AgainShape DEF Restart, RestartInMark
<1>9. CASE UNCHANGED vars
  BY <1>9, ShapeSame DEF vars, disk, cache, writer, faults
<1> QED
  BY <1>1, <1>2, <1>3, <1>4, <1>5, <1>6, <1>7, <1>8, <1>9 DEF RoomyNext, Write

(***************************************************************************)
(* No search or write goes past the end of the FAT or of the directory     *)
(* (fat12.c:369-443, 466-479), for every tidy volume and callers that      *)
(* leave room, wherever power is lost except among the parts of a name.    *)
(***************************************************************************)
THEOREM AlwaysContained ==
  ASSUME "names" \notin CrashPhases, MaxRefusals = 0
  PROVE  RoomySpec => []Contained
<1>1. IInv /\ ShapeInv => Contained
  BY DEF IInv, TypeOK, DiskInv, ShapeInv, Contained
<1>2. IInv /\ SpaceInv /\ ShapeInv /\ [RoomyNext]_vars => ShapeInv'
  BY NextShape
<1> QED
  BY <1>1, <1>2, InitSpace, NextSpace, InitShape, RoomyIInv, PTL DEF RoomySpec

-----------------------------------------------------------------------------
(* Chains and names as a reader finds them *)

StepOf(walk, first, k) ==
  IF k = 1 THEN first
  ELSE IF walk[k - 1] \in Followed(k) THEN fat[walk[k - 1]] ELSE Free

\* The walk along the FAT is what takes its steps
LEMMA WalkIs ==
  ASSUME NEW first, NEW w, w = [k \in 1..(FatEntries + 1) |-> StepOf(w, first, k)]
  PROVE  Walk(first) = w
<1> DEFINE step[k \in 1..(FatEntries + 1)] ==
             IF k = 1 THEN first
             ELSE IF step[k - 1] \in Followed(k) THEN fat[step[k - 1]] ELSE Free
<1>1. step = [k \in 1..(FatEntries + 1) |->
                IF k = 1 THEN first
                ELSE IF step[k - 1] \in Followed(k) THEN fat[step[k - 1]] ELSE Free]
  BY DEF StepOf
<1>2. Walk(first) = step
  BY DEF Walk
<1> HIDE DEF step
<1>3. step = [k \in 1..(FatEntries + 1) |-> StepOf(step, first, k)]
  BY <1>1 DEF StepOf
<1>4. \A k \in 1..(FatEntries + 1) : step[k] = w[k]
  <2> SUFFICES ASSUME NEW j \in 1..(FatEntries + 1), step[j] # w[j] PROVE FALSE
    OBVIOUS
  <2> DEFINE S == {k \in 1..(FatEntries + 1) : step[k] # w[k]}
  <2>1. S \subseteq Nat /\ S # {}
    OBVIOUS
  <2>2. PICK k : k = Min(S)
    OBVIOUS
  <2>3. k \in S /\ \A i \in S : k <= i
    BY <2>1, <2>2, SmallestMember
  <2>4. step[k] = StepOf(step, first, k) /\ w[k] = StepOf(w, first, k)
    BY <1>3, <2>3
  <2>5. k # 1 => step[k - 1] = w[k - 1]
    BY <2>3, GeometryAssumption
  <2> QED
    BY <2>3, <2>4, <2>5 DEF StepOf, Followed
<1> QED
  BY <1>2, <1>3, <1>4

LEMMA UpTo == \A n \in Nat : IsFiniteSet(1..n) /\ Cardinality(1..n) = n
<1> SUFFICES ASSUME NEW n \in Nat PROVE IsFiniteSet(1..n) /\ Cardinality(1..n) = n
  OBVIOUS
<1>1. 1 \in Int /\ n \in Int /\ n - 1 + 1 = n /\ (1 > n <=> n = 0)
  OBVIOUS
<1> QED
  BY <1>1, FS_Interval

LEMMA ChainFits ==
  ASSUME NEW f, NEW chain \in Seq(FatIndex), IsChain(f, chain)
  PROVE  Len(chain) <= FatEntries
<1>1. FatEntries \in Nat /\ Len(chain) \in Nat
  BY GeometryAssumption
<1>2. IsFiniteSet(FatIndex) /\ Cardinality(FatIndex) = FatEntries
  BY <1>1, FS_Interval DEF FatIndex
<1>3. Cardinality(1..Len(chain)) = Len(chain)
  BY <1>1, UpTo, Zenon
<1>4. chain \in [1..Len(chain) -> FatIndex]
  OBVIOUS
<1>5. chain \in Injection(1..Len(chain), FatIndex)
  BY <1>4, ChainOnce DEF Injection, IsInjective
<1> QED
  BY <1>2, <1>3, <1>5, FS_Injection

\* Loading a file follows its chain to the end
LEMMA ChainLoads ==
  ASSUME fat \in [FatIndex -> FatValues], NEW chain \in Seq(FatIndex), IsChain(fat, chain),
         chain # << >>
  PROVE  ChainFrom(FirstOf(chain)) = chain /\ ~Strays(FirstOf(chain))
<1> DEFINE L == Len(chain)
           N == FatEntries + 1
<1>1. L \in Nat /\ N \in Nat /\ L + 1 <= N /\ N > 0 /\ L > 0
  BY ChainFits, GeometryAssumption
<1>2. PICK w : w = [k \in 1..N |-> IF k <= L THEN chain[k]
                                   ELSE IF k = L + 1 THEN EndOfChain ELSE Free]
  OBVIOUS
<1>3. \A k \in 1..L : chain[k] \in FatIndex /\ chain[k] # Free /\ chain[k] # EndOfChain
  <2>1. \A k \in 1..L : chain[k] \in FatIndex /\ chain[k] > 1
    BY ElementOfSeq DEF IsChain
  <2> QED
    BY <2>1, Geometry DEF Free
<1> HIDE DEF L
<1>5. ASSUME NEW k \in 1..N
      PROVE  w[k] = StepOf(w, FirstOf(chain), k)
  <2>1. CASE k = 1
    BY <1>1, <1>2, <2>1 DEF StepOf, Followed, FirstOf
  <2>2. CASE k # 1 /\ k <= L
    <3>1. k - 1 \in 1..L /\ k - 1 # L /\ k - 1 \in 1..N /\ (k - 1) + 1 = k
      BY <1>1, <2>2
    <3>2. w[k - 1] = chain[k - 1] /\ w[k] = chain[k] /\ fat[chain[k - 1]] = chain[k]
      BY <1>1, <1>2, <2>2, <3>1 DEF IsChain, L
    <3> QED
      BY <1>3, <2>2, <3>1, <3>2 DEF StepOf, Followed
  <2>3. CASE k # 1 /\ k = L + 1
    <3>1. L \in 1..L /\ L \in 1..N /\ k - 1 = L /\ L > 0
      BY <1>1, <2>3
    <3>2. w[L] = chain[L]
      BY <1>2, <3>1
    <3>3. w[k] = EndOfChain
      <4>1. ~(k <= L)
        BY <1>1, <2>3
      <4> QED
        BY <1>2, <2>3, <3>1, <4>1
    <3>4. fat[chain[L]] = EndOfChain
      BY <3>1 DEF IsChain, L
    <3>5. StepOf(w, FirstOf(chain), k) = fat[w[L]]
      BY <1>3, <2>3, <3>1, <3>2 DEF StepOf, Followed
    <3> QED
      BY <3>2, <3>3, <3>4, <3>5
  <2>4. CASE k # 1 /\ k > L + 1
    <3>1. k - 1 \in 1..N /\ k - 1 > L /\ ~(k <= L) /\ k # L + 1 /\ k # 2
      BY <1>1, <2>4
    <3>2. w[k] = Free /\ w[k - 1] \in {EndOfChain, Free}
      BY <1>1, <1>2, <2>4, <3>1
    <3> QED
      BY <2>4, <3>1, <3>2, Geometry DEF StepOf, Followed
  <2> QED
    BY <1>1, <2>1, <2>2, <2>3, <2>4
<1>6. Walk(FirstOf(chain)) = w
  <2>1. w = [k \in 1..(FatEntries + 1) |-> StepOf(w, FirstOf(chain), k)]
    BY <1>2, <1>5
  <2> QED
    BY <2>1, WalkIs
<1>7. PICK ends : ends = {k \in 1..(FatEntries + 1) : w[k] = EndOfChain}
  OBVIOUS
<1>8. ChainFrom(FirstOf(chain)) =
        IF ends = {} THEN << >> ELSE [k \in 1..(Min(ends) - 1) |-> w[k]]
  BY <1>6, <1>7 DEF ChainFrom
<1>9. \A k \in 1..N : w[k] = EndOfChain <=> k = L + 1
  BY <1>1, <1>2, <1>3, Geometry
<1>10. ChainFrom(FirstOf(chain)) = chain
  <2>1. ends = {L + 1}
    BY <1>1, <1>7, <1>9
  <2>2. Min(ends) = L + 1
    <3>1. ends \subseteq Nat /\ ends # {}
      BY <1>1, <2>1
    <3>2. Min(ends) \in ends
      BY <3>1, SmallestMember
    <3> QED
      BY <2>1, <3>2
  <2>3. ChainFrom(FirstOf(chain)) = [k \in 1..L |-> w[k]]
    <3>1. ends # {} /\ Min(ends) - 1 = L
      BY <1>1, <2>1, <2>2
    <3> QED
      BY <1>8, <3>1
  <2>4. \A k \in 1..L : w[k] = chain[k]
    BY <1>1, <1>2
  <2>5. chain = [k \in 1..L |-> chain[k]]
    BY DEF L
  <2> QED
    BY <2>3, <2>4, <2>5
<1>11. ~Strays(FirstOf(chain))
  <2>1. \A c \in FatIndex \cup {EndOfChain} : c \notin FatEntries..4087
    BY GeometryAssumption DEF FatIndex, EndOfChain
  <2>2. Free \in FatIndex
    BY GeometryAssumption DEF FatIndex, Free
  <2>3. \A k \in 1..N : w[k] \in FatIndex \cup {EndOfChain}
    BY <1>1, <1>2, <1>3, <2>2
  <2> QED
    BY <1>6, <2>1, <2>3 DEF Strays
<1> QED
  BY <1>10, <1>11

\* Counted from above, a finite set of numbers has a member at each place
LEMMA Placed ==
  ASSUME NEW S, S \subseteq Nat, IsFiniteSet(S), NEW k \in 1..Cardinality(S)
  PROVE  \E t \in S : Cardinality({u \in S : u >= t}) = k
<1> DEFINE n == Cardinality(S)
           Above(t) == {u \in S : u >= t}
           Has(i) == \E t \in S : Cardinality(Above(t)) = i
           Gaps == {j \in Nat : j < n /\ ~Has(n - j)}
<1>1. n \in Nat
  BY FS_CardinalityType
<1>2. S # {}
  BY FS_EmptySet
<1>3. \A t \in S : IsFiniteSet(Above(t)) /\ Cardinality(Above(t)) \in Nat
  <2>1. ASSUME NEW t \in S
        PROVE  IsFiniteSet(Above(t)) /\ Cardinality(Above(t)) \in Nat
    <3>1. Above(t) \in SUBSET S
      OBVIOUS
    <3> QED
      BY <3>1, FS_Subset, FS_CardinalityType
  <2> QED
    BY <2>1
<1>4. Has(n)
  <2>1. Min(S) \in S /\ \A u \in S : u >= Min(S)
    BY <1>2, SmallestMember
  <2>2. Above(Min(S)) = S
    BY <2>1
  <2> QED
    BY <2>1, <2>2
<1>5. ASSUME NEW i \in Nat, i > 1, Has(i)
      PROVE  Has(i - 1)
  <2>1. PICK t \in S : Cardinality(Above(t)) = i
    BY <1>5
  <2>2. PICK T : T = Above(t) \ {t}
    OBVIOUS
  <2>3. IsFiniteSet(T) /\ Cardinality(T) = i - 1
    <3>1. PICK A : A = Above(t)
      OBVIOUS
    <3>2. t \in A /\ IsFiniteSet(A) /\ Cardinality(A) = i /\ T = A \ {t}
      BY <1>3, <2>1, <2>2, <3>1
    <3> QED
      BY <3>2, FS_RemoveElement
  <2>4. T # {} /\ T \subseteq Nat
    <3>1. T # {}
      BY <1>5, <2>3, FS_EmptySet
    <3> QED
      BY <2>2, <3>1
  <2>5. PICK m : m = Min(T)
    OBVIOUS
  <2>6. m \in T /\ \A u \in T : m <= u
    BY <2>4, <2>5, SmallestMember
  <2>7. Above(m) = T
    <3>1. ASSUME NEW u \in S
          PROVE  u >= m <=> u \in T
      <4>1. u \in Nat /\ m \in Nat /\ t \in Nat /\ m >= t /\ m # t
        BY <2>2, <2>6
      <4>2. u \in T <=> u >= t /\ u # t
        BY <2>2
      <4> QED
        BY <2>6, <4>1, <4>2
    <3> QED
      BY <2>2, <3>1
  <2> QED
    BY <2>2, <2>3, <2>6, <2>7
<1> HIDE DEF Has
<1>6. Gaps = {}
  <2> SUFFICES ASSUME Gaps # {} PROVE FALSE
    OBVIOUS
  <2>1. PICK j : j = Min(Gaps)
    OBVIOUS
  <2>2. j \in Nat /\ j < n /\ ~Has(n - j) /\ \A h \in Gaps : j <= h
    BY <2>1, SmallestMember
  <2>3. j # 0
    BY <1>1, <1>4, <2>2
  <2>4. j - 1 \in Nat /\ j - 1 < n /\ n - (j - 1) \in Nat /\ n - (j - 1) > 1
        /\ (n - (j - 1)) - 1 = n - j
    BY <1>1, <2>2, <2>3
  <2>5. ~Has(n - (j - 1))
    BY <1>5, <2>2, <2>4
  <2>6. j - 1 \in Gaps
    BY <2>4, <2>5
  <2> QED
    BY <2>2, <2>6
<1>7. n - k \in Nat /\ n - k < n /\ n - (n - k) = k
  BY <1>1
<1>8. Has(k)
  BY <1>6, <1>7
<1> QED
  BY <1>8 DEF Has

\* The same entries before one give the same parts and the same short name
LEMMA BeforeSame ==
  ASSUME NEW d, NEW e, NEW s \in Nat, s <= DirEntries,
         \A t \in Slots : t < s => d[t].kind = e[t].kind
  PROVE  LongBefore(d, s) = LongBefore(e, s) /\ Kept(d, s) = Kept(e, s)
<1>1. ASSUME NEW t \in Slots, t < s
      PROVE  /\ (\A u \in t..(s - 1) : d[u].kind # "file")
                   <=> (\A u \in t..(s - 1) : e[u].kind # "file")
             /\ (\A u \in (t + 1)..(s - 1) : d[u].kind # "file")
                   <=> (\A u \in (t + 1)..(s - 1) : e[u].kind # "file")
             /\ LongBefore(d, t) = LongBefore(e, t)
  <2>1. t \in Nat
    BY SlotBounds
  <2>2. \A u \in t..(s - 1) : u \in Slots /\ u < s
    BY <1>1, <2>1, SlotBounds
  <2>3. \A u \in (t + 1)..(s - 1) : u \in Slots /\ u < s
    BY <1>1, <2>1, SlotBounds
  <2>4. ASSUME NEW b \in Slots, b < t
        PROVE  /\ d[b].kind = e[b].kind
               /\ (\A u \in b..(t - 1) : d[u].kind # "file")
                     <=> (\A u \in b..(t - 1) : e[u].kind # "file")
    <3>0. b \in Nat
      BY SlotBounds
    <3>1. b \in Nat /\ b < s
      BY <1>1, <2>1, <2>4, <3>0
    <3>2. \A u \in b..(t - 1) : u \in Slots /\ u < s
      BY <1>1, <2>1, <3>1, SlotBounds
    <3> QED
      BY <3>1, <3>2
  <2>5. LongBefore(d, t) = LongBefore(e, t)
    BY <2>4 DEF LongBefore
  <2> QED
    BY <2>2, <2>3, <2>5
<1> QED
  BY <1>1 DEF LongBefore, Kept

\* What is found depends on the entries up to it only, and not on clusters
LEMMA NameSame ==
  ASSUME NEW d, NEW e, NEW s \in Slots,
         \A t \in Slots : t <= s => d[t].kind = e[t].kind /\ d[t].text = e[t].text
  PROVE  NameOf(d, s) = NameOf(e, s)
<1>1. s \in Nat /\ s <= s
  BY SlotBounds
<1>2. LongBefore(d, s) = LongBefore(e, s) /\ Kept(d, s) = Kept(e, s)
  <2>1. s <= DirEntries /\ \A t \in Slots : t < s => t <= s
    BY <1>1, SlotBounds
  <2> QED
    BY <1>1, <2>1, BeforeSame
<1>3. \A t \in LongBefore(d, s) : t \in Slots /\ d[t].text = e[t].text
  <2>1. \A t \in LongBefore(d, s) : t \in Slots /\ t <= s
    BY <1>1, SlotBounds DEF LongBefore
  <2> QED
    BY <2>1
<1>4. {t \in LongBefore(d, s) : d[t].text # ""} = {t \in LongBefore(e, s) : e[t].text # ""}
  BY <1>2, <1>3
<1>5. LongName(d, s) = LongName(e, s)
  <2> DEFINE P == {t \in LongBefore(d, s) : d[t].text # ""}
             Q == {t \in LongBefore(e, s) : e[t].text # ""}
             at(S, k) == CHOOSE t \in S : Cardinality({u \in S : u >= t}) = k
  <2>1. PICK p : p = P
    OBVIOUS
  <2>2. p = Q /\ p = P
    BY <1>4, <2>1
  <2>3. /\ LongName(d, s) = [k \in 1..Cardinality(p) |-> d[at(p, k)].text]
        /\ LongName(e, s) = [k \in 1..Cardinality(p) |-> e[at(p, k)].text]
    <3>1. LongName(d, s) = [k \in 1..Cardinality(P) |-> d[at(P, k)].text]
      BY DEF LongName
    <3>2. LongName(e, s) = [k \in 1..Cardinality(Q) |-> e[at(Q, k)].text]
      BY DEF LongName
    <3> HIDE DEF P, Q, at
    <3> QED
      BY <2>2, <3>1, <3>2, Zenon
  <2>4. ASSUME NEW k \in 1..Cardinality(p)
        PROVE  d[at(p, k)].text = e[at(p, k)].text
    <3>1. p \in SUBSET Slots /\ p \subseteq Nat
      BY <2>2, SlotBounds DEF LongBefore
    <3>2. IsFiniteSet(p)
      <4>1. IsFiniteSet(Slots)
        BY SlotBounds, FS_Interval DEF Slots
      <4> QED
        BY <3>1, <4>1, FS_Subset
    <3>3. \E t \in p : Cardinality({u \in p : u >= t}) = k
      BY <3>1, <3>2, Placed
    <3>4. at(p, k) \in p
      BY <3>3
    <3> HIDE DEF at
    <3> QED
      BY <1>3, <2>2, <3>4
  <2> HIDE DEF at
  <2> QED
    BY <2>3, <2>4, SMTT(30)
<1>6. KeptText(d, s) = KeptText(e, s)
  <2>1. CASE Kept(d, s) = {} \/ \A t \in LongBefore(d, s) : d[t].text \in FullTexts
    BY <1>2, <1>3, <2>1 DEF KeptText
  <2>2. CASE ~(Kept(d, s) = {} \/ \A t \in LongBefore(d, s) : d[t].text \in FullTexts)
    <3>1. PICK kept : kept = Min(Kept(d, s))
      OBVIOUS
    <3>2. Kept(d, s) \subseteq Nat /\ \A t \in Kept(d, s) : t \in Slots /\ t <= s
      <4>1. ASSUME NEW t \in Kept(d, s)
            PROVE  t \in Nat /\ t \in Slots /\ t <= s
        <5>1. t \in Slots /\ t < s
          BY DEF Kept
        <5>2. t \in Nat
          BY <5>1, SlotBounds
        <5> QED
          BY <1>1, <5>1, <5>2
      <4> QED
        BY <4>1
    <3>3. kept \in Kept(d, s)
      BY <2>2, <3>1, <3>2, SmallestMember
    <3>4. d[kept].text = e[kept].text
      BY <3>2, <3>3
    <3>5. KeptText(d, s) = <<d[kept].text>> /\ KeptText(e, s) = <<e[kept].text>>
      BY <1>2, <1>3, <2>2, <3>1 DEF KeptText
    <3> QED
      BY <3>4, <3>5
  <2> QED
    BY <2>1, <2>2
<1>7. d[s].text = e[s].text
  BY <1>1
<1> QED
  BY <1>2, <1>5, <1>6, <1>7, Zenon DEF NameOf

\* The files of a directory whose entries below n are in use
LEMMA FilesBelow ==
  ASSUME NEW d, NEW n \in Nat, \A t \in Slots : t < n => d[t].kind # "empty",
         NEW s \in Slots, s < n
  PROVE  s \in FileSlots(d) <=> d[s].kind = "file"
<1> DEFINE E == {t \in Slots : d[t].kind = "empty"} \cup {DirEntries}
<1>1. E \subseteq Nat /\ E # {} /\ s \in Nat
  BY SlotBounds
<1>2. PICK m : m = Min(E)
  OBVIOUS
<1>3. m \in E /\ m \in Nat
  BY <1>1, <1>2, SmallestMember
<1>4. s < m
  <2>1. CASE m = DirEntries
    BY <2>1, SlotBounds
  <2>2. CASE m \in Slots /\ d[m].kind = "empty"
    BY <1>1, <1>3, <2>2
  <2> QED
    BY <1>3, <2>1, <2>2
<1>5. DirStop(d) = m
  BY <1>2 DEF DirStop
<1>6. s \in 0..(m - 1)
  BY <1>1, <1>3, <1>4
<1> QED
  BY <1>5, <1>6 DEF FileSlots

LEMMA DenseFiles ==
  ASSUME NEW d, Dense(d)
  PROVE  FileSlots(d) = {s \in Slots : d[s].kind = "file"}
<1>1. DirStop(d) \in Nat /\ DirStop(d) <= DirEntries
  <2> DEFINE E == {t \in Slots : d[t].kind = "empty"} \cup {DirEntries}
  <2>1. E \subseteq Nat /\ E # {} /\ DirEntries \in E
    BY SlotBounds
  <2>2. Min(E) \in Nat /\ Min(E) <= DirEntries
    BY <2>1, SmallestMember
  <2> QED
    BY <2>2 DEF DirStop
<1>2. \A s \in FileSlots(d) : s \in Slots /\ d[s].kind = "file"
  BY <1>1, SlotBounds DEF FileSlots
<1>3. ASSUME NEW s \in Slots, d[s].kind = "file"
      PROVE  s \in FileSlots(d)
  <2>1. s \in Nat /\ s < s + 1 /\ s + 1 \in Nat
    BY SlotBounds
  <2>2. ASSUME NEW t \in Slots, t < s + 1
        PROVE  d[t].kind # "empty"
    <3>1. t = s \/ t < s
      BY <2>1, <2>2, SlotBounds
    <3> QED
      BY <1>3, <3>1 DEF Dense
  <2> QED
    BY <1>3, <2>1, <2>2, FilesBelow
<1> QED
  BY <1>2, <1>3

\* The parts of a name, without what a full one is followed by
LEMMA PartsAre ==
  ASSUME NEW name \in Names
  PROVE  /\ name \in Seq(Texts) /\ Len(name) \in Nat \ {0} /\ Len(Parts(name)) \in Nat
         /\ Len(name) <= Len(Parts(name))
         /\ \A k \in 1..Len(name) : Parts(name)[k] = name[k] /\ name[k] # ""
         /\ \A k \in 1..Len(Parts(name)) : k > Len(name) => Parts(name)[k] = ""
<1>1. name \in Seq(Texts) /\ Len(name) \in Nat \ {0} /\ Len(Parts(name)) \in Nat
  BY PartsType
<1>2. \A k \in 1..Len(name) : name[k] # ""
  <2>1. \A k \in 1..Len(name) : name[k] \in Texts
    BY <1>1, ElementOfSeq
  <2>2. "" \notin Texts
    BY NamesAssumption
  <2> QED
    BY <2>1, <2>2
<1>3. CASE name \in WholeNames
  <2>1. PICK end : end = ""
    OBVIOUS
  <2>2. PICK S : S = Texts \cup {end}
    OBVIOUS
  <2>3. name \in Seq(S) /\ end \in S
    BY <1>1, <2>2, SeqMonotonic
  <2> DEFINE parts == Append(name, end)
  <2>4. /\ Len(parts) = Len(name) + 1 /\ parts[Len(name) + 1] = end
        /\ \A k \in 1..Len(name) : parts[k] = name[k]
    BY <2>3
  <2>5. Parts(name) = parts
    BY <1>3, <2>1 DEF Parts
  <2> HIDE DEF parts
  <2>6. PICK n : n = Len(name)
    OBVIOUS
  <2>7. n \in Nat /\ Len(parts) = n + 1
    BY <1>1, <2>4, <2>6
  <2>8. n <= n + 1 /\ \A k \in 1..(n + 1) : k > n => k = n + 1
    BY <2>7
  <2>9. \A k \in 1..Len(parts) : k > Len(name) => parts[k] = ""
    BY <2>1, <2>4, <2>6, <2>7, <2>8
  <2> QED
    BY <1>1, <1>2, <2>4, <2>5, <2>6, <2>7, <2>8, <2>9
<1>4. CASE name \notin WholeNames
  <2>1. Parts(name) = name
    BY <1>4 DEF Parts
  <2>2. PICK n : n = Len(name)
    OBVIOUS
  <2>3. n <= n /\ \A k \in 1..n : ~(k > n)
    BY <1>1, <2>2
  <2> QED
    BY <1>1, <1>2, <2>1, <2>2, <2>3
<1> QED
  BY <1>3, <1>4

\* The name a reader finds above the parts of one
LEMMA WrittenName ==
  ASSUME NEW d, NEW slot \in Nat, NEW name \in Names, NEW final \in Slots,
         final = slot + Len(Parts(name)),
         \A t \in Slots : t >= slot /\ t < final =>
           d[t].kind = "long" /\ d[t].text = Parts(name)[final - t],
         \A t \in Slots : t < slot /\ d[t].kind = "long" =>
           \E s \in Slots : t < s /\ s < slot /\ d[s].kind = "file",
         Kept(d, slot) = {}
  PROVE  NameOf(d, final) = name /\ Kept(d, final) = {}
<1>1. PICK n : n = Len(name)
  OBVIOUS
<1>2. PICK m : m = Len(Parts(name))
  OBVIOUS
<1>3. /\ name \in Seq(Texts) /\ n \in Nat \ {0} /\ m \in Nat /\ n <= m
      /\ \A k \in 1..n : Parts(name)[k] = name[k] /\ name[k] # ""
      /\ \A k \in 1..m : k > n => Parts(name)[k] = ""
  <2>1. /\ name \in Seq(Texts) /\ Len(name) \in Nat \ {0} /\ Len(Parts(name)) \in Nat
        /\ Len(name) <= Len(Parts(name))
        /\ \A k \in 1..Len(name) : Parts(name)[k] = name[k] /\ name[k] # ""
        /\ \A k \in 1..Len(Parts(name)) : k > Len(name) => Parts(name)[k] = ""
    BY PartsAre, Zenon
  <2> QED
    BY <1>1, <1>2, <2>1, Zenon
<1>4. /\ final \in Nat /\ slot \in Nat /\ n \in Nat /\ m \in Nat
      /\ n > 0 /\ n <= m /\ final = slot + m
  <2>1. n \in Nat \ {0} /\ m \in Nat /\ n <= m
    BY <1>3
  <2>2. final \in Nat /\ final = slot + m
    BY <1>2, SlotBounds
  <2> QED
    BY <2>1, <2>2
<1>5. \A t \in slot..(final - 1) :
        /\ t \in Slots /\ t \in Nat /\ t < final
        /\ d[t].kind = "long" /\ d[t].text = Parts(name)[final - t]
  BY <1>4, SlotBounds
<1>6. ASSUME NEW t \in Slots
      PROVE  t \in LongBefore(d, final) <=> t \in slot..(final - 1)
  <2>1. t \in Nat
    BY SlotBounds
  <2>2. ASSUME t \in slot..(final - 1)
        PROVE  t \in LongBefore(d, final)
    <3>1. \A u \in t..(final - 1) : u \in slot..(final - 1)
      BY <1>4, <2>1, <2>2
    <3>2. \A u \in t..(final - 1) : d[u].kind # "file"
      BY <1>5, <3>1
    <3> QED
      BY <1>5, <2>2, <3>2 DEF LongBefore
  <2>3. ASSUME t \in LongBefore(d, final), t \notin slot..(final - 1)
        PROVE  FALSE
    <3>1. t < slot /\ d[t].kind = "long" /\ \A u \in t..(final - 1) : d[u].kind # "file"
      BY <1>4, <2>1, <2>3 DEF LongBefore
    <3>2. PICK s \in Slots : t < s /\ s < slot /\ d[s].kind = "file"
      BY <3>1
    <3>3. s \in t..(final - 1)
      BY <1>4, <2>1, <3>2, SlotBounds
    <3> QED
      BY <3>1, <3>2, <3>3
  <2> QED
    BY <2>2, <2>3
<1>7. PICK parts : parts = {t \in LongBefore(d, final) : d[t].text # ""}
  OBVIOUS
<1>8. ASSUME NEW t \in Slots
      PROVE  t \in parts <=> t \in (final - n)..(final - 1)
  <2>1. t \in Nat
    BY SlotBounds
  <2>2. t \in (final - n)..(final - 1) => t \in slot..(final - 1)
    BY <1>4, <2>1
  <2>3. CASE t \in slot..(final - 1)
    <3>1. PICK k : k = final - t
      OBVIOUS
    <3>2. k \in 1..m /\ (k \in 1..n <=> t \in (final - n)..(final - 1))
      BY <1>4, <2>1, <2>3, <3>1
    <3>3. k \notin 1..n => k > n
      BY <1>4, <3>2
    <3>4. d[t].text = Parts(name)[k]
      BY <1>5, <2>3, <3>1
    <3>5. d[t].text # "" <=> k \in 1..n
      BY <1>3, <3>2, <3>3, <3>4
    <3> QED
      BY <1>6, <1>7, <2>3, <3>2, <3>5
  <2> QED
    BY <1>6, <1>7, <2>2, <2>3
<1>9. parts = (final - n)..(final - 1)
  <2>1. parts \subseteq Slots
    BY <1>7 DEF LongBefore
  <2>2. \A t \in (final - n)..(final - 1) : t \in Slots
    BY <1>4, SlotBounds
  <2> QED
    BY <1>8, <2>1, <2>2
<1>10. Cardinality(parts) = n
  <2>1. final - n \in Int /\ final - 1 \in Int /\ final - n <= final - 1
        /\ (final - 1) - (final - n) + 1 = n
    BY <1>4
  <2>2. Cardinality((final - n)..(final - 1)) = (final - 1) - (final - n) + 1
    BY <2>1, FS_Interval
  <2> QED
    BY <1>9, <2>1, <2>2
<1> DEFINE at(k) == CHOOSE t \in parts : Cardinality({u \in parts : u >= t}) = k
<1>11. ASSUME NEW k \in 1..n
       PROVE  at(k) = final - k
  <2>1. ASSUME NEW t \in parts
        PROVE  Cardinality({u \in parts : u >= t}) = final - t
    <3>1. t \in Int /\ t <= final - 1 /\ final - 1 \in Int /\ (final - 1) - t + 1 = final - t
      BY <1>4, <1>9, <2>1
    <3>2. {u \in parts : u >= t} = t..(final - 1)
      BY <1>4, <1>9, <2>1
    <3>3. Cardinality(t..(final - 1)) = (final - 1) - t + 1
      BY <3>1, FS_Interval
    <3> QED
      BY <3>1, <3>2, <3>3
  <2>2. final - k \in parts /\ final - (final - k) = k
    BY <1>4, <1>9
  <2>3. \E t \in parts : Cardinality({u \in parts : u >= t}) = k
    BY <2>1, <2>2
  <2>4. at(k) \in parts /\ Cardinality({u \in parts : u >= at(k)}) = k
    BY <2>3
  <2> HIDE DEF at
  <2>5. final - at(k) = k /\ at(k) \in Int
    BY <1>4, <1>9, <2>1, <2>4
  <2> QED
    BY <1>4, <2>5
<1>12. LongBefore(d, final) # {}
  <2>1. final - 1 \in parts
    BY <1>4, <1>9
  <2> QED
    BY <1>7, <2>1
<1>13. LongName(d, final) = [k \in 1..Cardinality(parts) |-> d[at(k)].text]
  <2> DEFINE P == {t \in LongBefore(d, final) : d[t].text # ""}
             nth(S, k) == CHOOSE t \in S : Cardinality({u \in S : u >= t}) = k
  <2>1. LongName(d, final) = [k \in 1..Cardinality(P) |-> d[nth(P, k)].text]
    BY DEF LongName
  <2>2. parts = P
    BY <1>7
  <2>3. \A k : at(k) = nth(parts, k)
    OBVIOUS
  <2> HIDE DEF P, nth, at
  <2>4. LongName(d, final) = [k \in 1..Cardinality(parts) |-> d[nth(parts, k)].text]
    BY <2>1, <2>2, Zenon
  <2> QED
    BY <2>3, <2>4
<1> HIDE DEF at
<1>14. ASSUME NEW k \in 1..n
       PROVE  d[at(k)].text = name[k]
  <2>1. final - k \in slot..(final - 1) /\ final - (final - k) = k
    BY <1>4
  <2>2. d[final - k].text = Parts(name)[k]
    BY <1>5, <2>1
  <2> QED
    BY <1>3, <1>11, <2>2
<1>15. LongName(d, final) = [k \in 1..n |-> name[k]]
  BY <1>10, <1>13, <1>14
<1>16. name = [k \in 1..n |-> name[k]]
  <2>1. name \in Seq(Texts)
    BY <1>3
  <2>2. name = [k \in 1..Len(name) |-> name[k]]
    BY <2>1
  <2> QED
    BY <1>1, <2>2
<1>17. Kept(d, final) = {}
  <2> SUFFICES ASSUME NEW t \in Kept(d, final) PROVE FALSE
    OBVIOUS
  <2>1. /\ t \in Slots /\ t \in Nat /\ t < final /\ d[t].kind = "file"
        /\ LongBefore(d, t) = {} /\ \A u \in (t + 1)..(final - 1) : d[u].kind # "file"
    BY SlotBounds DEF Kept
  <2>2. CASE t < slot
    <3>1. \A u \in (t + 1)..(slot - 1) : u \in (t + 1)..(final - 1)
      BY <1>4, <2>1
    <3>2. t \in Kept(d, slot)
      BY <2>1, <2>2, <3>1 DEF Kept
    <3> QED
      BY <3>2
  <2>3. CASE ~(t < slot)
    <3>1. t \in slot..(final - 1)
      BY <1>4, <2>1, <2>3
    <3> QED
      BY <1>5, <2>1, <3>1
  <2> QED
    BY <2>2, <2>3
<1>18. ~(Cardinality(LongBefore(d, final)) > MaxParts)
  <2>1. LongBefore(d, final) = slot..(final - 1)
    <3>1. LongBefore(d, final) \subseteq Slots
      BY DEF LongBefore
    <3>2. \A t \in slot..(final - 1) : t \in Slots
      BY <1>5
    <3> QED
      BY <1>6, <3>1, <3>2
  <2>2. slot \in Int /\ final - 1 \in Int /\ slot <= final - 1 /\ (final - 1) - slot + 1 = m
    BY <1>4
  <2>3. Cardinality(slot..(final - 1)) = m
    BY <2>2, FS_Interval
  <2>4. m <= MaxParts /\ MaxParts \in Nat
    BY <1>2, VolumeAssumption, NamesAssumption
  <2>5. ~(m > MaxParts)
    BY <1>4, <2>4
  <2> QED
    BY <2>1, <2>3, <2>5, Zenon
<1>19. NameOf(d, final) = LongName(d, final) \o << >>
  BY <1>12, <1>17, <1>18 DEF NameOf, KeptText
<1>20. name \o << >> = name
  <2>1. name \in Seq(Texts)
    BY <1>3
  <2> QED
    BY <2>1
<1> QED
  BY <1>15, <1>16, <1>17, <1>19, <1>20, Zenon

-----------------------------------------------------------------------------
(* The names in the directory, while no disk write is refused *)

\* The entries below it belong to the files a reader finds
Limit == IF pc = "idle" THEN DirEntries ELSE job.slot

Files == {s \in Slots : s < Limit /\ dir[s].kind = "file"}

LongsEnd ==
  \A t \in Slots : t < Limit /\ dir[t].kind = "long" =>
    \E s \in Slots : t < s /\ s < Limit /\ dir[s].kind = "file"

NamesApart == \A s, t \in Files : NameOf(dir, s) = NameOf(dir, t) => s = t

\* The parts of the new name are written from slot n on
PartsFrom(n) ==
  \A t \in Slots : t >= n /\ t < FinalSlot =>
    dir[t].kind = "long" /\ dir[t].text = Parts(job.name)[FinalSlot - t]

NameInv ==
  /\ LongsEnd /\ NamesApart
  /\ Limit <= DirEntries /\ Kept(dir, Limit) = {}
  /\ pc # "idle" =>
       /\ job.size \in FileSizes
       /\ \A s \in Files : NameOf(dir, s) # job.name
  /\ pc = "names" => PartsFrom(LongSlot + 1)
  /\ pc \in {"fill", "link", "entry", "data", "pad"} => PartsFrom(job.slot)
  /\ pc \in {"link", "entry", "data", "pad"} =>
       dir[FinalSlot].kind = "file" /\ dir[FinalSlot].size = job.size

LEMMA NoneRefused ==
  ASSUME MaxRefusals = 0, IInv
  PROVE  /\ refusals = 0 /\ ~lost /\ fat = diskFat
         /\ \A s \in Slots : s \notin Unfinished => dir[s] = diskDir[s]
BY DEF IInv, TypeOK, DiskInv

LEMMA FilesAreSlots == \A s \in Files : s \in Slots /\ s \in Nat /\ s < Limit
BY SlotBounds DEF Files

\* A step that leaves the entries of the files alone
LEMMA FilesKept ==
  ASSUME IInv, Limit' = Limit,
         \A t \in Slots : t < Limit =>
           dir'[t].kind = dir[t].kind /\ dir'[t].text = dir[t].text
  PROVE  /\ Files' = Files
         /\ \A s \in Files : NameOf(dir', s) = NameOf(dir, s)
         /\ LongsEnd => LongsEnd'
         /\ NamesApart => NamesApart'
<1>0. Limit \in Nat
  BY SlotBounds DEF Limit, IInv, TypeOK
<1>1. Files' = Files
  BY DEF Files
<1>2. ASSUME NEW s \in Files
      PROVE  NameOf(dir', s) = NameOf(dir, s)
  <2>1. s \in Slots /\ \A t \in Slots : t <= s => t < Limit
    BY <1>0, FilesAreSlots, SlotBounds
  <2> QED
    BY <2>1, NameSame
<1>3. LongsEnd => LongsEnd'
  BY DEF LongsEnd
<1>4. NamesApart => NamesApart'
  <2> SUFFICES ASSUME NamesApart, NEW s \in Files', NEW t \in Files',
                      NameOf(dir', s) = NameOf(dir', t)
               PROVE  s = t
    BY DEF NamesApart
  <2>1. s \in Files /\ t \in Files
    BY <1>1
  <2>2. NameOf(dir, s) = NameOf(dir, t)
    BY <1>2, <2>1
  <2> QED
    BY <2>1, <2>2 DEF NamesApart
<1> QED
  BY <1>1, <1>2, <1>3, <1>4

\* Nor does it leave a short name behind
LEMMA KeptStays ==
  ASSUME IInv, NameInv, Limit' = Limit, \A t \in Slots : t < Limit => dir'[t].kind = dir[t].kind
  PROVE  Limit' <= DirEntries /\ Kept(dir', Limit') = {}
<1>1. Limit \in Nat
  BY SlotBounds DEF Limit, IInv, TypeOK
<1>2. Limit <= DirEntries /\ Kept(dir, Limit) = {}
  BY DEF NameInv
<1>3. Kept(dir', Limit) = Kept(dir, Limit)
  BY <1>1, <1>2, BeforeSame
<1> QED
  BY <1>2, <1>3

LEMMA NamesSame ==
  ASSUME NameInv, UNCHANGED <<pc, dir, job, part>>
  PROVE  NameInv'
BY DEF NameInv, LongsEnd, NamesApart, Files, Limit, PartsFrom, FinalSlot, LongSlot

LEMMA InitNames == Init => NameInv
<1> SUFFICES ASSUME Init PROVE NameInv
  OBVIOUS
<1>1. PICK d \in Disks : dir = d.dir
  BY DEF Init
<1>2. /\ Dense(dir) /\ NamesEnd(dir) /\ Kept(dir, DirEntries) = {} /\ pc = "idle"
      /\ \A s, t \in FileSlots(dir) : NameOf(dir, s) = NameOf(dir, t) => s = t
  BY <1>1, TidyAssumption DEF Init, NoneKept
<1>3. Limit = DirEntries /\ Files = FileSlots(dir)
  BY <1>2, SlotBounds, DenseFiles DEF Limit, Files
<1>4. LongsEnd
  BY <1>2, <1>3, SlotBounds DEF LongsEnd, NamesEnd
<1>5. NamesApart
  BY <1>2, <1>3 DEF NamesApart
<1>6. Limit <= DirEntries /\ Kept(dir, Limit) = {}
  BY <1>2, <1>3, SlotBounds
<1> QED
  BY <1>2, <1>4, <1>5, <1>6 DEF NameInv

\* What lies above is empty and does not clear fileName
LEMMA KeptBelow ==
  ASSUME NEW d, NEW f \in Nat, f <= DirEntries, Kept(d, DirEntries) = {},
         \A t \in Slots : t >= f => d[t].kind = "empty"
  PROVE  Kept(d, f) = {}
<1> SUFFICES ASSUME NEW t \in Kept(d, f) PROVE FALSE
  OBVIOUS
<1>1. /\ t \in Slots /\ t \in Nat /\ t < f /\ d[t].kind = "file"
      /\ LongBefore(d, t) = {} /\ \A u \in (t + 1)..(f - 1) : d[u].kind # "file"
  BY SlotBounds DEF Kept
<1>2. ASSUME NEW u \in (t + 1)..(DirEntries - 1)
      PROVE  d[u].kind # "file"
  <2>1. u \in Nat /\ u \in Slots
    BY <1>1, SlotBounds
  <2>2. CASE u < f
    BY <1>1, <2>1, <2>2
  <2>3. CASE ~(u < f)
    BY <2>1, <2>3
  <2> QED
    BY <2>2, <2>3
<1>3. t < DirEntries
  BY <1>1, SlotBounds
<1>4. t \in Kept(d, DirEntries)
  BY <1>1, <1>2, <1>3 DEF Kept
<1> QED
  BY <1>4

\* The first of the empty entries is one
LEMMA FoundIsSlot ==
  \A name \in Names : SearchEnd(name) # {} => FoundEntry(name) <= DirEntries
<1> SUFFICES ASSUME NEW name \in Names, SearchEnd(name) # {}
             PROVE  FoundEntry(name) <= DirEntries
  OBVIOUS
<1> DEFINE S == {s \in Slots : \E e \in SearchEnd(name) : s <= e /\ s..e \subseteq EmptySlots}
<1>1. PICK e : e \in SearchEnd(name)
  OBVIOUS
<1>2. e \in Slots /\ e \in Nat /\ e \in EmptySlots
  BY <1>1, SlotBounds DEF SearchEnd, EmptySlots
<1>3. e \in S
  <2>1. e <= e /\ \A u \in e..e : u = e
    BY <1>2
  <2>2. e..e \subseteq EmptySlots
    BY <1>2, <2>1
  <2> QED
    BY <1>1, <1>2, <2>1, <2>2
<1>4. S \subseteq Nat /\ S # {}
  BY <1>3, SlotBounds
<1>5. Min(S) \in S
  BY <1>4, SmallestMember
<1>6. FoundEntry(name) \in Slots
  BY <1>5 DEF FoundEntry
<1> QED
  BY <1>6, SlotBounds

\* A write that begins
LEMMA StartFiles ==
  ASSUME IInv, ShapeInv, ~lost, NEW name \in Names, NEW size \in FileSizes,
         StartWrite(name, size), ~WriteRefused(name, size)
  PROVE  /\ Files' = Files /\ Files = FileSlots(dir) /\ dir' = dir
         /\ job'.name = name /\ job'.size = size
         /\ \A t \in Slots : dir[t].kind # "empty" => t < Limit /\ t < Limit'
         /\ \A t \in Slots : t >= Limit' => dir[t].kind = "empty"
         /\ Limit' \in Nat /\ Limit' <= Limit /\ Limit = DirEntries
<1>1. /\ pc = "idle" /\ pc' = "names" /\ dir' = dir
      /\ job' = [name |-> name, size |-> size, slot |-> FoundEntry(name)]
  BY DEF StartWrite, cache
<1>2. PICK f : f = FoundEntry(name)
  OBVIOUS
<1>3. dir \in [Slots -> DirSlot] /\ Dense(dir) /\ SearchEnd(name) # {}
  BY <1>1 DEF IInv, TypeOK, ShapeInv, WriteRefused
<1>4. f \in Nat /\ FilledTo(dir, f)
  BY <1>2, <1>3, FoundFits
<1>5. Limit = DirEntries /\ Limit' = f
  <2>1. job'.slot = f
    BY <1>1, <1>2
  <2> QED
    BY <1>1, <2>1, Zenon DEF Limit
<1>9. \A t \in Slots : t >= f => dir[t].kind = "empty"
  BY <1>4 DEF FilledTo
<1>10. f <= DirEntries
  BY <1>1, <1>2, <1>3, FoundIsSlot
<1>6. \A t \in Slots : dir[t].kind # "empty" => t < f
  BY <1>4, SlotBounds DEF FilledTo
<1>7. Files = FileSlots(dir)
  BY <1>3, <1>5, SlotBounds, DenseFiles DEF Files
<1>8. Files' = Files
  BY <1>1, <1>5, <1>6, SlotBounds DEF Files
<1> QED
  BY <1>1, <1>4, <1>5, <1>6, <1>7, <1>8, <1>9, <1>10, SlotBounds

LEMMA StartNames ==
  ASSUME IInv, ShapeInv, NameInv, ~lost, NEW name \in Names, NEW size \in FileSizes,
         StartWrite(name, size)
  PROVE  NameInv'
<1>1. CASE WriteRefused(name, size)
  BY <1>1, NamesSame DEF StartWrite, writer, cache
<1>2. CASE ~WriteRefused(name, size)
  <2>1. /\ Files' = Files /\ Files = FileSlots(dir) /\ dir' = dir
        /\ job'.name = name /\ job'.size = size
        /\ \A t \in Slots : dir[t].kind # "empty" => t < Limit /\ t < Limit'
        /\ \A t \in Slots : t >= Limit' => dir[t].kind = "empty"
        /\ Limit' \in Nat /\ Limit' <= Limit /\ Limit = DirEntries
    BY <1>2, StartFiles
  <2>2. pc' = "names" /\ part' = 1
    BY <1>2 DEF StartWrite
  <2>3. LongsEnd'
    BY <2>1 DEF NameInv, LongsEnd
  <2>4. NamesApart'
    BY <2>1 DEF NameInv, NamesApart
  <2>5. \A s \in Files' : NameOf(dir', s) # name
    BY <1>2, <2>1 DEF WriteRefused, Found
  <2>6. \A t \in Slots : ~(t >= LongSlot' + 1 /\ t < FinalSlot')
    <3>1. FinalSlot' = job'.slot + Len(Parts(job'.name))
      BY DEF FinalSlot
    <3>2. job'.slot \in Nat /\ job'.name \in Names
      <4>1. IInv'
        BY StartWriteIInv
      <4> QED
        BY <2>2, <4>1 DEF IInv, TypeOK, WriterInv
    <3>3. PICK final : final = FinalSlot'
      OBVIOUS
    <3>4. final \in Nat
      <4>1. PICK at, n : at = job'.slot /\ n = Len(Parts(job'.name))
        OBVIOUS
      <4>2. at \in Nat /\ n \in Nat /\ final = at + n
        BY <3>1, <3>2, <3>3, <4>1, PartsType
      <4> QED
        BY <4>2
    <3>5. LongSlot' = final - 1
      BY <2>2, <3>3, Zenon DEF LongSlot
    <3> QED
      BY <3>3, <3>4, <3>5, SlotBounds
  <2>7. PartsFrom(LongSlot + 1)'
    BY <2>6 DEF PartsFrom
  <2>8. Limit' <= DirEntries /\ Kept(dir', Limit') = {}
    <3>1. PICK f : f = Limit'
      OBVIOUS
    <3>2. /\ f \in Nat /\ f <= DirEntries /\ Kept(dir, DirEntries) = {}
          /\ \A t \in Slots : t >= f => dir[t].kind = "empty"
      BY <2>1, <3>1 DEF NameInv
    <3>3. Kept(dir, f) = {}
      BY <3>2, KeptBelow
    <3> QED
      BY <2>1, <3>1, <3>2, <3>3
  <2> QED
    BY <2>1, <2>2, <2>3, <2>4, <2>5, <2>7, <2>8 DEF NameInv
<1> QED
  BY <1>1, <1>2

LEMMA LongNames ==
  ASSUME IInv, NameInv, WriteLong
  PROVE  NameInv'
<1>1. CASE LongSlot \notin Slots
  BY <1>1, NamesSame DEF WriteLong, RunsOff, writer, cache
<1>2. CASE LongSlot \in Slots
  <2>1. PICK slot : slot = LongSlot
    OBVIOUS
  <2>2. PICK text : text = Parts(job.name)[part]
    OBVIOUS
  <2>3. /\ pc = "names" /\ part' = part + 1 /\ job' = job
        /\ pc' = IF part = Len(Parts(job.name)) THEN "fill" ELSE "names"
        /\ dir' = [dir EXCEPT ![slot] =
                     [kind |-> "long", text |-> text, first |-> 0, size |-> 0]]
    BY <1>2, <2>1, <2>2 DEF WriteLong
  <2>4. /\ dir \in [Slots -> DirSlot] /\ part \in 1..Len(Parts(job.name))
        /\ job.slot \in Nat /\ FinalSlot \in Nat
        /\ FinalSlot = job.slot + Len(Parts(job.name)) /\ Len(Parts(job.name)) \in Nat
    BY <2>3, JobSlots DEF IInv, TypeOK, WriterInv
  <2>5. slot = FinalSlot - part /\ slot \in Nat /\ slot >= job.slot /\ slot < FinalSlot
    BY <2>1, <2>4 DEF LongSlot
  <2>6. /\ dir'[slot].kind = "long" /\ dir'[slot].text = text
        /\ \A t \in Slots : t # slot => dir'[t] = dir[t]
    BY <1>2, <2>1, <2>3, <2>4
  <2>7. FinalSlot' = FinalSlot /\ LongSlot' = FinalSlot - (part + 1)
    BY <2>3 DEF FinalSlot, LongSlot
  <2>8. Limit = job.slot /\ Limit' = job.slot
    BY <2>3 DEF Limit
  <2>9. /\ Files' = Files /\ LongsEnd' /\ NamesApart'
        /\ \A s \in Files : NameOf(dir', s) = NameOf(dir, s)
        /\ Limit' <= DirEntries /\ Kept(dir', Limit') = {}
    <3>1. \A t \in Slots : t < Limit => t # slot
      BY <2>4, <2>5, <2>8, SlotBounds
    <3> QED
      BY <2>6, <2>8, <3>1, FilesKept, KeptStays DEF NameInv
  <2>10. \A t \in Slots : t >= slot /\ t < FinalSlot =>
           dir'[t].kind = "long" /\ dir'[t].text = Parts(job.name)[FinalSlot - t]
    <3>1. ASSUME NEW t \in Slots, t >= slot, t < FinalSlot
          PROVE  dir'[t].kind = "long" /\ dir'[t].text = Parts(job.name)[FinalSlot - t]
      <4>1. CASE t = slot
        <5>1. FinalSlot - t = part
          BY <2>4, <2>5, <4>1
        <5> QED
          BY <2>2, <2>6, <4>1, <5>1
      <4>2. CASE t # slot
        <5>1. t >= LongSlot + 1
          BY <2>1, <2>5, <3>1, <4>2, SlotBounds
        <5> QED
          BY <2>3, <2>6, <3>1, <4>2, <5>1 DEF NameInv, PartsFrom
      <4> QED
        BY <4>1, <4>2
    <3> QED
      BY <3>1
  <2>11. pc' = "names" => PartsFrom(LongSlot + 1)'
    <3>1. LongSlot' + 1 = slot
      BY <2>4, <2>5, <2>7
    <3> QED
      BY <2>3, <2>7, <2>10, <3>1 DEF PartsFrom
  <2>12. pc' = "fill" => PartsFrom(job.slot)'
    <3>1. pc' = "fill" => slot = job.slot
      BY <2>3, <2>4, <2>5
    <3> QED
      BY <2>3, <2>7, <2>10, <3>1 DEF PartsFrom
  <2>13. pc' \in {"names", "fill"}
    BY <2>3
  <2> QED
    BY <2>3, <2>9, <2>11, <2>12, <2>13 DEF NameInv
<1> QED
  BY <1>1, <1>2

LEMMA FillNames ==
  ASSUME IInv, NameInv, FillEntry
  PROVE  NameInv'
<1>1. CASE FinalSlot \notin Slots
  BY <1>1, NamesSame DEF FillEntry, RunsOff, writer, cache
<1>2. CASE FinalSlot \in Slots
  <2>1. PICK slot : slot = FinalSlot
    OBVIOUS
  <2>2. PICK first : first = dir[slot].first
    OBVIOUS
  <2>3. /\ pc = "fill" /\ pc' = "link" /\ job' = job
        /\ dir' = [dir EXCEPT ![slot] =
                     [kind |-> "file", text |-> job.name[1], first |-> first,
                      size |-> job.size]]
    BY <1>2, <2>1, <2>2 DEF FillEntry
  <2>4. /\ dir \in [Slots -> DirSlot] /\ job.slot \in Nat /\ slot \in Nat /\ job.slot < slot
        /\ FinalSlot' = slot
    BY <2>1, <2>3, JobSlots DEF IInv, TypeOK, FinalSlot
  <2>5. /\ dir'[slot].kind = "file" /\ dir'[slot].size = job.size
        /\ \A t \in Slots : t # slot => dir'[t] = dir[t]
    BY <1>2, <2>1, <2>3, <2>4
  <2>6. \A t \in Slots : t < slot => dir'[t] = dir[t]
    BY <2>4, <2>5, SlotBounds
  <2>7. Limit = job.slot /\ Limit' = job.slot
    BY <2>3 DEF Limit
  <2>8. /\ Files' = Files /\ LongsEnd' /\ NamesApart'
        /\ \A s \in Files : NameOf(dir', s) = NameOf(dir, s)
        /\ Limit' <= DirEntries /\ Kept(dir', Limit') = {}
    <3>1. \A t \in Slots : t < Limit => t < slot
      BY <2>4, <2>7, SlotBounds
    <3> QED
      BY <2>6, <2>7, <3>1, FilesKept, KeptStays DEF NameInv
  <2>9. PartsFrom(job.slot)'
    <3>1. PartsFrom(job.slot)
      BY <2>3 DEF NameInv
    <3> QED
      BY <2>1, <2>3, <2>4, <2>6, <3>1 DEF PartsFrom
  <2> QED
    BY <2>3, <2>4, <2>5, <2>8, <2>9 DEF NameInv
<1> QED
  BY <1>1, <1>2

\* Finding the clusters, linking the entry to them and writing the data
LEMMA RestNames ==
  ASSUME IInv, NameInv, LinkCluster \/ EndChain \/ WriteEntry \/ WriteData
  PROVE  NameInv'
<1>1. /\ pc \in {"link", "entry", "data"} /\ pc' \in {"link", "entry", "data", "pad"}
      /\ job' = job
      /\ dir' = dir \/ \E first : dir' = [dir EXCEPT ![FinalSlot].first = first]
  BY DEF LinkCluster, RunsOff, EndChain, WriteEntry, WriteData, cache, writer
<1>2. /\ dir \in [Slots -> DirSlot] /\ FinalSlot \in Slots /\ FinalSlot' = FinalSlot
      /\ Limit = job.slot /\ Limit' = job.slot
  BY <1>1 DEF IInv, TypeOK, WriterInv, FinalSlot, Limit
<1>3. ASSUME NEW t \in Slots
      PROVE  dir'[t].kind = dir[t].kind /\ dir'[t].text = dir[t].text
             /\ dir'[t].size = dir[t].size
  <2>1. CASE dir' = dir
    BY <2>1
  <2>2. ASSUME NEW first, dir' = [dir EXCEPT ![FinalSlot].first = first]
        PROVE  dir'[t].kind = dir[t].kind /\ dir'[t].text = dir[t].text
               /\ dir'[t].size = dir[t].size
    BY <1>2, <2>2 DEF DirSlot
  <2> QED
    BY <1>1, <2>1, <2>2
<1>4. /\ Files' = Files /\ LongsEnd' /\ NamesApart'
      /\ \A s \in Files : NameOf(dir', s) = NameOf(dir, s)
      /\ Limit' <= DirEntries /\ Kept(dir', Limit') = {}
  BY <1>2, <1>3, FilesKept, KeptStays DEF NameInv
<1>5. PartsFrom(job.slot)'
  <2>1. PartsFrom(job.slot)
    BY <1>1 DEF NameInv
  <2> QED
    BY <1>1, <1>2, <1>3, <2>1 DEF PartsFrom
<1> QED
  BY <1>1, <1>2, <1>3, <1>4, <1>5 DEF NameInv

\* The entry of the new file ends its name
LEMMA NewFile ==
  ASSUME IInv, ShapeInv, NameInv, ~lost, pc \in {"data", "pad"}
  PROVE  /\ FinalSlot \in Slots /\ FinalSlot \notin Files /\ NameOf(dir, FinalSlot) = job.name
         /\ {s \in Slots : dir[s].kind = "file"} = Files \cup {FinalSlot}
         /\ Kept(dir, DirEntries) = {}
<1>1. /\ FinalSlot \in Slots /\ FinalSlot \in Nat /\ job.slot \in Nat
      /\ job.slot < FinalSlot /\ FinalSlot = job.slot + Len(Parts(job.name))
      /\ job.name \in Names /\ Limit = job.slot
  BY JobSlots DEF IInv, WriterInv, Limit
<1>2. PartsFrom(job.slot) /\ dir[FinalSlot].kind = "file" /\ FilledTo(dir, FinalSlot + 1)
  BY DEF NameInv, ShapeInv
<1>3. FinalSlot \notin Files
  BY <1>1 DEF Files
<1>4. NameOf(dir, FinalSlot) = job.name /\ Kept(dir, FinalSlot) = {}
  <2>1. PICK slot, final, name : slot = job.slot /\ final = FinalSlot /\ name = job.name
    OBVIOUS
  <2>2. \A t \in Slots : t < slot /\ dir[t].kind = "long" =>
          \E s \in Slots : t < s /\ s < slot /\ dir[s].kind = "file"
    BY <1>1, <2>1 DEF NameInv, LongsEnd
  <2>3. \A t \in Slots : t >= slot /\ t < final =>
          dir[t].kind = "long" /\ dir[t].text = Parts(name)[final - t]
    BY <1>2, <2>1 DEF PartsFrom
  <2>4. /\ slot \in Nat /\ final \in Slots /\ name \in Names
        /\ final = slot + Len(Parts(name))
    BY <1>1, <2>1
  <2>5. Kept(dir, slot) = {}
    BY <1>1, <2>1 DEF NameInv
  <2>6. NameOf(dir, final) = name /\ Kept(dir, final) = {}
    BY <2>2, <2>3, <2>4, <2>5, WrittenName, SMTT(60)
  <2> QED
    BY <2>1, <2>6, Zenon
<1>5. ASSUME NEW s \in Slots
      PROVE  dir[s].kind = "file" <=> s \in Files \/ s = FinalSlot
  <2>1. s \in Nat
    BY SlotBounds
  <2>2. CASE s < job.slot
    BY <1>1, <2>1, <2>2 DEF Files
  <2>3. CASE s >= job.slot /\ s < FinalSlot
    <3>1. dir[s].kind = "long"
      BY <1>2, <2>3 DEF PartsFrom
    <3> QED
      BY <1>1, <2>1, <2>3, <3>1 DEF Files
  <2>4. CASE s = FinalSlot
    BY <1>2, <2>4
  <2>5. CASE s > FinalSlot
    <3>1. s >= FinalSlot + 1
      BY <1>1, <2>1, <2>5
    <3>2. dir[s].kind = "empty"
      BY <1>2, <3>1 DEF FilledTo
    <3> QED
      BY <1>1, <2>1, <2>5, <3>2 DEF Files
  <2> QED
    BY <1>1, <2>1, <2>2, <2>3, <2>4, <2>5
<1>6. Files \subseteq Slots
  BY DEF Files
<1>7. Kept(dir, DirEntries) = {}
  <2> SUFFICES ASSUME NEW t \in Kept(dir, DirEntries) PROVE FALSE
    OBVIOUS
  <2>1. /\ t \in Slots /\ t \in Nat /\ t < DirEntries /\ dir[t].kind = "file"
        /\ LongBefore(dir, t) = {} /\ \A u \in (t + 1)..(DirEntries - 1) : dir[u].kind # "file"
    BY SlotBounds DEF Kept
  <2>2. CASE t < FinalSlot
    <3>1. FinalSlot \in (t + 1)..(DirEntries - 1)
      BY <1>1, <2>1, <2>2, SlotBounds
    <3> QED
      BY <1>2, <2>1, <3>1
  <2>3. CASE t = FinalSlot
    <3>1. PICK last : last = FinalSlot - 1
      OBVIOUS
    <3>2. /\ last \in Nat /\ last < FinalSlot /\ last >= job.slot
          /\ \A u \in last..(FinalSlot - 1) : u = last
      BY <1>1, <3>1
    <3>3. last \in Slots /\ dir[last].kind = "long"
      BY <1>1, <1>2, <3>2, SlotBounds DEF PartsFrom
    <3>4. last \in LongBefore(dir, FinalSlot)
      BY <3>2, <3>3 DEF LongBefore
    <3> QED
      BY <2>1, <2>3, <3>4
  <2>4. CASE t > FinalSlot
    <3>1. t \in Files
      BY <1>5, <1>1, <2>1, <2>4
    <3>2. t < job.slot
      BY <1>1, <3>1 DEF Files
    <3> QED
      BY <1>1, <2>1, <2>4, <3>2
  <2> QED
    BY <1>1, <2>1, <2>2, <2>3, <2>4
<1> QED
  BY <1>1, <1>3, <1>4, <1>5, <1>6, <1>7

LEMMA EndNames ==
  ASSUME IInv, ShapeInv, NameInv, ~lost, pc \in {"data", "pad"}, pc' = "idle", dir' = dir
  PROVE  NameInv' /\ Files' = Files \cup {FinalSlot}
<1>1. Limit' = DirEntries /\ Limit = job.slot
  BY DEF Limit
<1>2. /\ FinalSlot \in Slots /\ FinalSlot \notin Files /\ NameOf(dir, FinalSlot) = job.name
      /\ {s \in Slots : dir[s].kind = "file"} = Files \cup {FinalSlot}
      /\ Kept(dir, DirEntries) = {}
  BY NewFile
<1>3. Files' = Files \cup {FinalSlot}
  BY <1>1, <1>2, SlotBounds DEF Files
<1>4. NamesApart'
  <2>1. \A s \in Files : NameOf(dir, s) # NameOf(dir, FinalSlot)
    BY <1>2 DEF NameInv
  <2> QED
    BY <1>2, <1>3, <2>1 DEF NamesApart, NameInv
<1>5. LongsEnd'
  <2>1. ASSUME NEW t \in Slots, dir[t].kind = "long"
        PROVE  \E s \in Slots : t < s /\ dir[s].kind = "file"
    <3>1. t \in Nat /\ FinalSlot \in Nat /\ job.slot \in Nat
      BY SlotBounds, JobSlots
    <3>2. CASE t < job.slot
      BY <1>1, <2>1, <3>2 DEF NameInv, LongsEnd
    <3>3. CASE t >= job.slot
      <4>1. dir[FinalSlot].kind = "file" /\ FilledTo(dir, FinalSlot + 1)
        BY DEF NameInv, ShapeInv
      <4>2. t # FinalSlot /\ ~(t >= FinalSlot + 1)
        BY <2>1, <4>1 DEF FilledTo
      <4>3. t < FinalSlot
        BY <3>1, <4>2
      <4> QED
        BY <1>2, <4>1, <4>3
    <3> QED
      BY <3>1, <3>2, <3>3
  <2> QED
    BY <1>1, <2>1, SlotBounds DEF LongsEnd
<1>6. Limit' <= DirEntries /\ Kept(dir', Limit') = {}
  BY <1>1, <1>2, SlotBounds
<1> QED
  BY <1>3, <1>4, <1>5, <1>6 DEF NameInv

LEMMA AgainNames ==
  ASSUME CrashPhases \subseteq {"idle", "data", "pad"}, MaxRefusals = 0,
         IInv, ShapeInv, NameInv, StartAgain
  PROVE  NameInv' /\ dir' = dir
<1>1. pc \in {"idle", "data", "pad"} /\ pc' = "idle" /\ dir' = diskDir
  BY DEF StartAgain
<1>2. dir = diskDir
  <2>1. dir \in [Slots -> DirSlot] /\ diskDir \in [Slots -> DirSlot]
    BY DEF IInv, TypeOK
  <2>2. \A s \in Slots : dir[s] = diskDir[s]
    BY <1>1, NoneRefused DEF Unfinished
  <2> QED
    BY <2>1, <2>2
<1>3. CASE pc = "idle"
  <2>1. Limit' = Limit /\ Files' = Files
    BY <1>1, <1>2, <1>3 DEF Limit, Files
  <2>2. LongsEnd' /\ NamesApart'
    BY <1>1, <1>2, <2>1, <1>3 DEF NameInv, LongsEnd, NamesApart
  <2>3. Limit' <= DirEntries /\ Kept(dir', Limit') = {}
    <3>1. Limit <= DirEntries /\ Kept(dir, Limit) = {}
      BY DEF NameInv
    <3>2. dir' = dir
      BY <1>1, <1>2
    <3> QED
      BY <2>1, <3>1, <3>2
  <2> QED
    BY <1>1, <1>2, <2>2, <2>3 DEF NameInv
<1>4. CASE pc \in {"data", "pad"}
  BY <1>1, <1>2, <1>4, EndNames, NoneRefused
<1> QED
  BY <1>1, <1>2, <1>3, <1>4

-----------------------------------------------------------------------------
(* What the files hold *)

Crashes == {"idle", "data", "pad"}

\* A step that leaves a file as it is
FileSame(s) ==
  /\ s \in Files' /\ chains'[s] = chains[s]
  /\ NameOf(dir', s) = NameOf(dir, s) /\ dir'[s].size = dir[s].size
  /\ \A sector \in SectorsOf(s) : data'[sector] = data[sector]

\* A step that changes neither the entries of the files nor the data
LEMMA EntriesSame ==
  ASSUME IInv, Limit' = Limit, data' = data,
         \A t \in Slots : t < Limit => dir'[t] = dir[t] /\ chains'[t] = chains[t]
  PROVE  Files' = Files /\ \A s \in Files : FileSame(s)
<1>1. Files' = Files /\ \A s \in Files : NameOf(dir', s) = NameOf(dir, s)
  BY FilesKept
<1> QED
  BY <1>1, FilesAreSlots DEF FileSame

\* The entries that a write makes are above those of the files
LEMMA AboveFiles ==
  ASSUME IInv, pc # "idle"
  PROVE  /\ Limit = job.slot /\ Limit < FinalSlot /\ Limit \in Nat /\ FinalSlot \in Nat
         /\ pc = "names" => LongSlot >= Limit
<1>1. /\ Limit = job.slot /\ job.slot \in Nat /\ FinalSlot \in Nat
      /\ FinalSlot = job.slot + Len(Parts(job.name)) /\ Len(Parts(job.name)) \in Nat \ {0}
  BY JobSlots DEF Limit
<1>2. pc = "names" => part \in 1..Len(Parts(job.name))
  BY DEF IInv, WriterInv
<1> QED
  BY <1>1, <1>2 DEF LongSlot

LEMMA WritingKeeps ==
  ASSUME IInv, ~lost,
         WriteLong \/ FillEntry \/ LinkCluster \/ EndChain \/ WriteEntry
  PROVE  Files' = Files /\ \A s \in Files : FileSame(s)
<1> USE DEF disk, past, cache, writer
<1>1. pc # "idle" /\ pc' # "idle" /\ job' = job /\ data' = data
  BY DEF WriteLong, FillEntry, LinkCluster, EndChain, WriteEntry, RunsOff
<1>2. /\ Limit = job.slot /\ Limit < FinalSlot /\ Limit \in Nat /\ FinalSlot \in Nat
      /\ pc = "names" => LongSlot >= Limit
  BY <1>1, AboveFiles
<1>3. Limit' = Limit
  BY <1>1, <1>2 DEF Limit
<1>4. dir \in [Slots -> DirSlot] /\ chains \in [Slots -> Seq(FatIndex)]
  BY DEF IInv, TypeOK
<1>5. ASSUME NEW t \in Slots, t < Limit
      PROVE  dir'[t] = dir[t] /\ chains'[t] = chains[t]
  <2>1. t # FinalSlot /\ (pc = "names" => t # LongSlot)
    BY <1>2, <1>5, SlotBounds
  <2>2. CASE WriteLong
    <3>1. chains' = chains /\ (dir' = dir \/ \E e : dir' = [dir EXCEPT ![LongSlot] = e])
          /\ pc = "names"
      BY <2>2 DEF WriteLong, RunsOff
    <3> QED
      BY <1>4, <2>1, <3>1
  <2>3. CASE FillEntry
    <3>1. chains' = chains /\ (dir' = dir \/ \E e : dir' = [dir EXCEPT ![FinalSlot] = e])
      BY <2>3 DEF FillEntry, RunsOff
    <3> QED
      BY <1>4, <2>1, <3>1
  <2>4. CASE LinkCluster \/ EndChain
    BY <2>4 DEF LinkCluster, EndChain, RunsOff
  <2>5. CASE WriteEntry
    <3>1. /\ dir' = [dir EXCEPT ![FinalSlot].first = used[1]]
          /\ chains' = [chains EXCEPT ![FinalSlot] = used]
      BY <2>5 DEF WriteEntry
    <3> QED
      BY <1>4, <2>1, <3>1
  <2> QED
    BY <2>2, <2>3, <2>4, <2>5
<1> QED
  BY <1>1, <1>3, <1>5, EntriesSame

LEMMA DataKeeps ==
  ASSUME IInv, ~lost, WriteData \/ PadData
  PROVE  \A s \in Files : /\ chains'[s] = chains[s] /\ dir'[s] = dir[s] /\ dir' = dir
                          /\ \A sector \in SectorsOf(s) : data'[sector] = data[sector]
<1>1. /\ pc \in {"data", "pad"} /\ chains' = chains /\ dir' = dir
      /\ \A sector \in Sectors \ {DataSector} : data'[sector] = data[sector]
  BY WriteDataFacts, PadDataFacts DEF WriteData, PadData, cache, past
<1>2. ASSUME NEW s \in Files, NEW sector \in SectorsOf(s)
      PROVE  data'[sector] = data[sector]
  <2>1. s \in Slots /\ s # FinalSlot
    BY <1>1, AboveFiles, FilesAreSlots
  <2> QED
    BY <1>1, <2>1, DataOfOthers
<1> QED
  BY <1>1, <1>2

LEMMA StepKeeps ==
  ASSUME CrashPhases \subseteq Crashes, MaxRefusals = 0,
         IInv, SpaceInv, ShapeInv, NameInv, [RoomyNext]_vars
  PROVE  /\ \A s \in Files : FileSame(s)
         /\ \/ Files' = Files
            \/ /\ pc \in {"data", "pad"} /\ pc' = "idle"
               /\ Files' = Files \cup {FinalSlot}
         /\ pc \in {"data", "pad"} /\ pc' = "idle" => Files' = Files \cup {FinalSlot}
         /\ stored' = stored \/ (PadData /\ stored' = stored \cup {job})
<1> USE DEF disk, past, cache, writer
<1>0. ~lost
  BY NoneRefused
<1>1. ASSUME NEW name \in Names, NEW size \in FileSizes, StartWrite(name, size)
      PROVE  /\ \A s \in Files : FileSame(s)
             /\ Files' = Files /\ stored' = stored /\ pc = "idle"
  <2>1. data' = data /\ chains' = chains /\ stored' = stored /\ pc = "idle" /\ dir' = dir
    BY <1>1 DEF StartWrite
  <2>2. Files' = Files
    <3>1. CASE WriteRefused(name, size)
      BY <1>1, <3>1 DEF StartWrite, Files, Limit
    <3>2. CASE ~WriteRefused(name, size)
      BY <1>0, <1>1, <3>2, StartFiles
    <3> QED
      BY <3>1, <3>2
  <2> QED
    BY <2>1, <2>2 DEF FileSame
<1>2. CASE WriteLong \/ FillEntry \/ LinkCluster \/ EndChain \/ WriteEntry
  <2>1. stored' = stored /\ pc' # "idle"
    BY <1>2 DEF WriteLong, FillEntry, LinkCluster, EndChain, WriteEntry, RunsOff
  <2> QED
    BY <1>0, <1>2, <2>1, WritingKeeps
<1>3. CASE WriteData
  <2>1. stored' = stored /\ pc # "idle" /\ pc' # "idle" /\ dir' = dir /\ job' = job
    BY <1>3 DEF WriteData
  <2>2. Files' = Files
    BY <2>1 DEF Files, Limit
  <2> QED
    BY <1>0, <1>3, <2>1, <2>2, DataKeeps DEF FileSame
<1>4. CASE PadData
  <2>1. /\ stored' = stored \cup {job} /\ pc = "pad" /\ pc' = "idle" /\ dir' = dir
    BY <1>4 DEF PadData
  <2>2. Files' = Files \cup {FinalSlot}
    BY <1>0, <2>1, EndNames
  <2> QED
    BY <1>0, <1>4, <2>1, <2>2, DataKeeps DEF FileSame
<1>5. CASE Restart \/ RestartInMark
  <2>1. StartAgain
    BY <1>5 DEF Restart, RestartInMark
  <2>2. /\ pc \in Crashes /\ pc' = "idle" /\ chains' = chains /\ data' = data
        /\ stored' = stored
    BY <2>1 DEF StartAgain
  <2>3. dir' = dir
    BY <2>1, AgainNames DEF Crashes
  <2>4. CASE pc = "idle"
    <3>1. Files' = Files
      BY <2>2, <2>3, <2>4 DEF Files, Limit
    <3> QED
      BY <2>2, <2>3, <2>4, <3>1 DEF FileSame
  <2>5. CASE pc \in {"data", "pad"}
    <3>1. Files' = Files \cup {FinalSlot}
      BY <1>0, <2>2, <2>3, <2>5, EndNames
    <3> QED
      BY <2>2, <2>3, <2>5, <3>1 DEF FileSame
  <2> QED
    BY <2>2, <2>4, <2>5 DEF Crashes
<1>6. CASE UNCHANGED vars
  <2>1. UNCHANGED <<pc, dir, job, data, chains, stored>>
    BY <1>6 DEF vars
  <2>2. Files' = Files
    BY <2>1 DEF Files, Limit
  <2>3. ~(pc \in {"data", "pad"} /\ pc' = "idle")
    BY <2>1
  <2> QED
    BY <2>1, <2>2, <2>3 DEF FileSame
<1> QED
  BY <1>1, <1>2, <1>3, <1>4, <1>5, <1>6 DEF RoomyNext, Write

LEMMA NextNames ==
  ASSUME CrashPhases \subseteq Crashes, MaxRefusals = 0
  PROVE  IInv /\ SpaceInv /\ ShapeInv /\ NameInv /\ [RoomyNext]_vars => NameInv'
<1> SUFFICES ASSUME IInv, SpaceInv, ShapeInv, NameInv, [RoomyNext]_vars PROVE NameInv'
  OBVIOUS
<1>0. ~lost
  BY NoneRefused
<1>1. ASSUME NEW name \in Names, NEW size \in FileSizes, StartWrite(name, size)
      PROVE  NameInv'
  BY <1>0, <1>1, StartNames
<1>2. CASE WriteLong
  BY <1>2, LongNames
<1>3. CASE FillEntry
  BY <1>3, FillNames
<1>4. CASE LinkCluster \/ EndChain \/ WriteEntry \/ WriteData
  BY <1>4, RestNames
<1>5. CASE PadData
  <2>1. pc = "pad" /\ pc' = "idle" /\ dir' = dir
    BY <1>5 DEF PadData
  <2> QED
    BY <1>0, <2>1, EndNames
<1>6. CASE Restart \/ RestartInMark
  <2>1. StartAgain
    BY <1>6 DEF Restart, RestartInMark
  <2> QED
    BY <2>1, AgainNames DEF Crashes
<1>7. CASE UNCHANGED vars
  BY <1>7, NamesSame DEF vars, cache, writer
<1> QED
  BY <1>1, <1>2, <1>3, <1>4, <1>5, <1>6, <1>7 DEF RoomyNext, Write

\* The file of entry s is the one written
Keeps(s, file) ==
  /\ NameOf(dir, s) = file.name /\ dir[s].size = file.size
  /\ Holds(data, chains[s], file.name, file.size)

\* The parts of the new file that have been written
Written(n) ==
  \A k \in 1..n : data[used[k] - 2] = [of |-> job.name, part |-> k, padded |-> TRUE]

FileInv ==
  /\ \A file \in stored : \E s \in Files : Keeps(s, file)
  /\ pc \in {"data", "pad"} => Written(part - 1)
  /\ pc = "pad" => part = Len(used) /\ LastThere

LEMMA InitFiles == Init => FileInv
<1> SUFFICES ASSUME Init PROVE FileInv
  OBVIOUS
<1>1. PICK d \in Disks : dir = d.dir /\ data = d.data /\ chains = d.chains /\ stored = d.stored
  BY DEF Init
<1>2. pc = "idle" /\ Dense(dir)
  BY <1>1, TidyAssumption DEF Init
<1>3. Files = FileSlots(dir)
  BY <1>2, SlotBounds, DenseFiles DEF Files, Limit
<1>4. ASSUME NEW file \in stored
      PROVE  \E s \in Files : Keeps(s, file)
  <2>1. PICK s \in Found(d.dir, file.name) :
          /\ d.dir[s].size = file.size
          /\ Holds(d.data, d.chains[s], file.name, file.size)
    BY <1>1, TidyAssumption
  <2>2. s \in FileSlots(dir) /\ NameOf(dir, s) = file.name
    BY <1>1, <2>1 DEF Found
  <2> QED
    BY <1>1, <1>3, <2>1, <2>2 DEF Keeps
<1> QED
  BY <1>2, <1>4 DEF FileInv

\* A cluster of the volume is a sector
LEMMA InVolume ==
  ASSUME NEW c \in DataClusters
  PROVE  /\ c \in Nat /\ c - 2 \in Sectors /\ (c - 2) * SectorsPerCluster = c - 2
<1>1. c \in Nat /\ 2 <= c /\ c <= NumClusters + 1 /\ NumClusters \in Nat
  BY GeometryAssumption DEF DataClusters
<1> QED
  BY <1>1, VolumeAssumption DEF Sectors

LEMMA HeldStays ==
  ASSUME IInv, NEW s \in Files, FileSame(s), NEW file, Keeps(s, file)
  PROVE  Keeps(s, file)'
<1>1. PICK chain : chain = chains[s]
  OBVIOUS
<1>2. chain \in Seq(FatIndex) /\ s \in Slots
  BY <1>1, FilesAreSlots DEF IInv, TypeOK
<1>3. ASSUME NEW k \in 1..Len(chain), chain[k] - 2 \in Sectors
      PROVE  data'[chain[k] - 2] = data[chain[k] - 2]
  <2>1. PICK c : c = chain[k]
    OBVIOUS
  <2>2. c \in FatIndex /\ c \in Int
    <3>1. c \in FatIndex
      BY <1>2, <2>1, ElementOfSeq
    <3> QED
      BY <3>1, Geometry
  <2>3. c \in Range(chains[s])
    BY <1>1, <1>2, <2>1 DEF Range
  <2>4. (c - 2) * SectorsPerCluster = c - 2
    BY <2>2, VolumeAssumption
  <2>5. c - 2 \in SectorsOf(s)
    BY <1>3, <2>1, <2>3, <2>4 DEF SectorsOf
  <2> QED
    BY <2>1, <2>5 DEF FileSame
<1>4. Holds(data, chain, file.name, file.size) => Holds(data', chain, file.name, file.size)
  BY <1>3 DEF Holds
<1>5. Holds(data', chains'[s], file.name, file.size)
  BY <1>1, <1>4 DEF Keeps, FileSame
<1> QED
  BY <1>5 DEF Keeps, FileSame

\* One more part of the new file is written
LEMMA PartWritten ==
  ASSUME IInv, SpaceInv, ~lost, MaxRefusals = 0, pc \in {"data", "pad"}, Written(part - 1),
         NEW padded \in BOOLEAN,
         \/ data' = data
         \/ PutData([of |-> job.name, part |-> part, padded |-> padded])
  PROVE  /\ \A k \in 1..(part - 1) :
              data'[used[k] - 2] = [of |-> job.name, part |-> k, padded |-> TRUE]
         /\ data' # data =>
              data'[used[part] - 2] = [of |-> job.name, part |-> part, padded |-> padded]
         /\ PutData([of |-> job.name, part |-> part, padded |-> padded]) =>
              data'[used[part] - 2] = [of |-> job.name, part |-> part, padded |-> padded]
<1>1. /\ chains[FinalSlot] = used /\ part \in 1..Len(used) /\ FinalSlot \in Slots
      /\ Linked /\ used \in Seq(FatIndex) /\ data \in [Sectors -> Content]
      /\ \A k \in 1..Len(used) : used[k] \in DataClusters
  BY DEF IInv, TypeOK, WriterInv, MemoryInv, SpaceInv
<1>2. IsChain(fat, used)
  BY <1>1 DEF Linked, IsChain
<1>3. PICK c, content : /\ c = used[part]
                        /\ content = [of |-> job.name, part |-> part, padded |-> padded]
  OBVIOUS
<1>4. c \in DataClusters /\ c \in Nat /\ c - 2 \in Sectors /\ DataSector = c - 2
  BY <1>1, <1>3, InVolume DEF DataSector
<1>5. data' = data \/ data' = [data EXCEPT ![c - 2] = content]
  BY <1>3, <1>4, NoneRefused DEF PutData, Refused
<1>6. PutData(content) => data'[c - 2] = content
  <2>1. PutData(content) => data' = [data EXCEPT ![c - 2] = content]
    BY <1>4, NoneRefused DEF PutData, Refused
  <2> QED
    BY <1>1, <1>4, <2>1
<1>7. data' # data => data'[c - 2] = content
  BY <1>1, <1>4, <1>5
<1>8. ASSUME NEW k \in 1..(part - 1)
      PROVE  data'[used[k] - 2] = [of |-> job.name, part |-> k, padded |-> TRUE]
  <2>1. k \in 1..Len(used) /\ k # part
    BY <1>1
  <2>2. PICK b : b = used[k]
    OBVIOUS
  <2>3. b # c /\ b \in Nat
    BY <1>1, <1>2, <1>3, <2>1, <2>2, ChainOnce, InVolume
  <2>4. data'[b - 2] = data[b - 2]
    BY <1>1, <1>4, <1>5, <2>1, <2>2, <2>3, InVolume
  <2> QED
    BY <2>2, <2>4 DEF Written
<1> QED
  BY <1>3, <1>6, <1>7, <1>8

LEMMA NextFiles ==
  ASSUME CrashPhases \subseteq Crashes, MaxRefusals = 0
  PROVE  IInv /\ SpaceInv /\ ShapeInv /\ NameInv /\ FileInv /\ [RoomyNext]_vars => FileInv'
<1> SUFFICES ASSUME IInv, SpaceInv, ShapeInv, NameInv, FileInv, [RoomyNext]_vars
             PROVE  FileInv'
  OBVIOUS
<1>0. ~lost /\ refusals = 0
  BY NoneRefused
<1>1. ASSUME NEW file \in stored
      PROVE  \E s \in Files' : Keeps(s, file)'
  <2>1. PICK s \in Files : Keeps(s, file)
    BY DEF FileInv
  <2>2. FileSame(s)
    BY StepKeeps
  <2> QED
    BY <2>1, <2>2, HeldStays DEF FileSame
<1>2. CASE PadData
  <2>1. /\ pc = "pad" /\ pc' = "idle" /\ dir' = dir /\ chains' = chains
        /\ stored' = stored \cup {job}
        /\ PutData([of |-> job.name, part |-> part, padded |-> TRUE])
    <3>1. pc = "pad" /\ LastThere
      BY <1>2 DEF PadData, FileInv
    <3> QED
      BY <1>2, <3>1 DEF PadData
  <2>2. /\ part = Len(used) /\ Written(part - 1) /\ Len(used) = Needed(job.size)
        /\ chains[FinalSlot] = used /\ used \in Seq(FatIndex) /\ part \in 1..Len(used)
        /\ \A k \in 1..Len(used) : used[k] \in DataClusters
    BY <1>0, <2>1 DEF FileInv, SpaceInv, IInv, TypeOK, MemoryInv, WriterInv
  <2>3. ASSUME NEW k \in 1..Len(used)
        PROVE  used[k] - 2 \in Sectors /\ data'[used[k] - 2] = Whole(job.name, job.size)[k]
    <3>1. used[k] - 2 \in Sectors
      BY <2>2, InVolume
    <3>2. data'[used[k] - 2] = [of |-> job.name, part |-> k, padded |-> TRUE]
      <4>1. k \in 1..(part - 1) \/ k = part
        BY <2>2
      <4>2. TRUE \in BOOLEAN
        OBVIOUS
      <4> QED
        BY <1>0, <2>1, <2>2, <4>1, <4>2, PartWritten
    <3>3. Whole(job.name, job.size)[k] = [of |-> job.name, part |-> k, padded |-> TRUE]
      BY <2>2 DEF Whole
    <3> QED
      BY <3>1, <3>2, <3>3
  <2>4. Holds(data', chains'[FinalSlot], job.name, job.size)
    BY <2>1, <2>2, <2>3 DEF Holds
  <2>5. NameOf(dir, FinalSlot) = job.name /\ dir[FinalSlot].size = job.size
    BY <1>0, <2>1, NewFile DEF NameInv
  <2>6. FinalSlot \in Files'
    BY <2>1, StepKeeps
  <2>7. PICK new : new = job
    OBVIOUS
  <2>8. \E s \in Files' : Keeps(s, new)'
    <3>1. PICK s : s = FinalSlot
      OBVIOUS
    <3>2. /\ NameOf(dir', s) = new.name /\ dir'[s].size = new.size
          /\ Holds(data', chains'[s], new.name, new.size) /\ s \in Files'
      BY <2>1, <2>4, <2>5, <2>6, <2>7, <3>1
    <3> QED
      BY <3>2 DEF Keeps
  <2>9. \A file \in stored' : file \in stored \/ file = new
    BY <2>1, <2>7
  <2> QED
    BY <1>1, <2>1, <2>8, <2>9 DEF FileInv
<1>3. CASE WriteData
  <2>1. /\ pc = "data" /\ stored' = stored /\ job' = job /\ used' = used
        /\ \/ /\ part < Len(used) /\ part' = part + 1 /\ pc' = pc
              /\ PutData([of |-> job.name, part |-> part, padded |-> TRUE])
           \/ /\ part = Len(used) /\ part' = part /\ pc' = "pad"
              /\ data' = data \/ PutData([of |-> job.name, part |-> part, padded |-> FALSE])
    BY <1>3 DEF WriteData, past
  <2>2. Written(part - 1) /\ part \in Nat /\ TRUE \in BOOLEAN /\ FALSE \in BOOLEAN
    BY <2>1 DEF FileInv, IInv, TypeOK
  <2>3. ASSUME NEW k \in 1..(part' - 1)
        PROVE  data'[used[k] - 2] = [of |-> job.name, part |-> k, padded |-> TRUE]
    <3>1. CASE /\ part' = part + 1
               /\ PutData([of |-> job.name, part |-> part, padded |-> TRUE])
      <4>1. k \in 1..(part - 1) \/ k = part
        BY <2>2, <3>1
      <4> QED
        BY <1>0, <2>1, <2>2, <3>1, <4>1, PartWritten
    <3>2. CASE /\ part' = part
               /\ data' = data \/ PutData([of |-> job.name, part |-> part, padded |-> FALSE])
      BY <1>0, <2>1, <2>2, <3>2, PartWritten
    <3> QED
      BY <2>1, <3>1, <3>2
  <2>4. Written(part - 1)'
    BY <2>1, <2>3 DEF Written
  <2>5. pc' = "pad" => part' = Len(used') /\ LastThere'
    <3>1. ASSUME pc' = "pad"
          PROVE  part' = Len(used') /\ LastThere'
      <4>1. part' = Len(used') /\ part' = part /\ part = Len(used)
        BY <2>1, <3>1
      <4>2. CASE job.size % BytesPerSector = 0
        BY <2>1, <4>1, <4>2 DEF LastThere
      <4>3. CASE job.size % BytesPerSector # 0
        <5>1. PutData([of |-> job.name, part |-> part, padded |-> FALSE])
          BY <1>3, <2>1, <3>1, <4>3 DEF WriteData
        <5>2. data'[used[part] - 2] = [of |-> job.name, part |-> part, padded |-> FALSE]
          BY <1>0, <2>1, <2>2, <5>1, PartWritten
        <5>3. part \in 1..Len(used) /\ \A k \in 1..Len(used) : used[k] \in DataClusters
          BY <2>1 DEF IInv, WriterInv, SpaceInv
        <5>4. DataSector' = used[part] - 2
          <6>1. DataSector' = (used[part] - 2) * SectorsPerCluster
            BY <2>1, <4>1 DEF DataSector
          <6> QED
            BY <5>3, <6>1, InVolume
        <5>5. data'[DataSector'].of = job.name /\ data'[DataSector'].part = part
          BY <5>2, <5>4
        <5> QED
          BY <2>1, <4>1, <5>5 DEF LastThere
      <4> QED
        BY <4>2, <4>3
    <3> QED
      BY <3>1
  <2> QED
    BY <1>1, <2>1, <2>4, <2>5 DEF FileInv
<1>4. CASE WriteEntry
  <2>1. pc' = "data" /\ part' = 1
    BY <1>4 DEF WriteEntry
  <2>2. stored' = stored
    BY <1>4 DEF WriteEntry
  <2>3. Written(part - 1)'
    BY <2>1 DEF Written
  <2> QED
    BY <1>1, <2>1, <2>2, <2>3 DEF FileInv
<1>5. CASE UNCHANGED vars
  <2>1. UNCHANGED <<pc, part, used, job, data, stored>>
    BY <1>5 DEF vars, disk, writer, past
  <2>2. LastThere' = LastThere
    BY <2>1, Zenon DEF LastThere, DataSector
  <2> QED
    BY <1>1, <2>1, <2>2 DEF FileInv, Written
<1>6. CASE pc' \notin {"data", "pad"} /\ stored' = stored
  BY <1>1, <1>6 DEF FileInv
<1>7. \/ PadData \/ WriteData \/ WriteEntry \/ UNCHANGED vars
      \/ pc' \notin {"data", "pad"} /\ stored' = stored
  <2> USE DEF past, writer
  <2>1. ASSUME NEW name \in Names, NEW size \in FileSizes, StartWrite(name, size)
        PROVE  pc' \notin {"data", "pad"} /\ stored' = stored
    BY <2>1 DEF StartWrite
  <2>2. WriteLong \/ FillEntry \/ LinkCluster \/ EndChain =>
          pc' \notin {"data", "pad"} /\ stored' = stored
    BY DEF WriteLong, FillEntry, LinkCluster, EndChain, RunsOff
  <2>3. Restart \/ RestartInMark => pc' \notin {"data", "pad"} /\ stored' = stored
    BY DEF Restart, RestartInMark, StartAgain
  <2> QED
    BY <2>1, <2>2, <2>3 DEF RoomyNext, Write
<1> QED
  BY <1>2, <1>3, <1>4, <1>5, <1>6, <1>7

\* Entry 0 of the FAT is not the driver's
LEMMA MarkStays ==
  ASSUME CrashPhases \subseteq Crashes, MaxRefusals = 0, IInv, Marked(fat), [RoomyNext]_vars
  PROVE  Marked(fat)'
<1>0. fat \in [FatIndex -> FatValues] /\ fat = diskFat /\ 0 \in FatIndex
  BY NoneRefused, GeometryAssumption DEF IInv, TypeOK, FatIndex
<1>1. CASE LinkCluster \/ EndChain
  <2>1. \/ fat' = fat
        \/ used # << >> /\ \E value : fat' = [fat EXCEPT ![Last(used)] = value]
    BY <1>1, NeededType DEF LinkCluster, EndChain, SetCluster, RunsOff, cache, IInv, TypeOK
  <2>2. used # << >> => Last(used) # 0
    <3>1. used \in Seq(FatIndex) /\ \A k \in 1..Len(used) : used[k] > 1 /\ used[k] \in Nat
      <4>1. pc = "link"
        BY <1>1 DEF LinkCluster, EndChain
      <4>2. used \in Seq(FatIndex) /\ \A k \in 1..Len(used) : used[k] > 1
        BY <4>1, NoneRefused DEF IInv, TypeOK, MemoryInv, NewChain
      <4> QED
        BY <4>2, ElementOfSeq, Geometry
    <3>2. used # << >> => Len(used) \in 1..Len(used) /\ Last(used) = used[Len(used)]
      BY <3>1 DEF Last
    <3> QED
      BY <3>1, <3>2
  <2> QED
    BY <1>0, <2>1, <2>2 DEF Marked
<1>2. CASE Restart \/ RestartInMark
  BY <1>0, <1>2 DEF Restart, RestartInMark, StartAgain, MarksNext, Crashes, Marked
<1>3. CASE fat' = fat
  BY <1>3 DEF Marked
<1>4. LinkCluster \/ EndChain \/ Restart \/ RestartInMark \/ fat' = fat
  <2>1. ASSUME NEW name \in Names, NEW size \in FileSizes, StartWrite(name, size)
        PROVE  fat' = fat
    BY <2>1 DEF StartWrite, cache
  <2>2. WriteLong \/ FillEntry \/ WriteEntry \/ WriteData \/ PadData => fat' = fat
    BY DEF WriteLong, FillEntry, WriteEntry, WriteData, PadData, RunsOff, cache
  <2>3. UNCHANGED vars => fat' = fat
    BY DEF vars, cache
  <2> QED
    BY <2>1, <2>2, <2>3 DEF RoomyNext, Write
<1> QED
  BY <1>1, <1>2, <1>3, <1>4

\* What loading a file of these clusters gives
ContentsOf(chain) ==
  IF chain = << >> THEN <<"unknown">>
  ELSE [k \in 1..Len(chain) |->
          IF chain[k] - 2 \in Sectors THEN data[chain[k] - 2] ELSE "none"]

\* A file without clusters is followed to the media mark
LEMMA NoClusters ==
  ASSUME fat \in [FatIndex -> FatValues], Marked(fat)
  PROVE  Strays(0)
<1>1. 0 \in FatIndex /\ 2 \in 1..(FatEntries + 1) /\ 1 \in 1..(FatEntries + 1)
  BY GeometryAssumption DEF FatIndex
<1>2. PICK w : w = [k \in 1..(FatEntries + 1) |->
                      IF k = 1 THEN 0 ELSE IF k = 2 THEN fat[0] ELSE Free]
  OBVIOUS
<1>3. ASSUME NEW k \in 1..(FatEntries + 1)
      PROVE  w[k] = StepOf(w, 0, k)
  <2>1. FatEntries \in Nat
    BY GeometryAssumption
  <2>2. CASE k = 1
    BY <1>2, <2>2 DEF StepOf
  <2>3. CASE k = 2
    BY <1>1, <1>2, <2>3 DEF StepOf, Followed
  <2>4. CASE k # 1 /\ k # 2
    <3>1. k - 1 \in 1..(FatEntries + 1) /\ k - 1 # 1
      BY <2>1, <2>4
    <3>2. fat[0] \notin FatIndex
      BY <2>1 DEF Marked, FatIndex
    <3>3. w[k - 1] \notin FatIndex \ {Free}
      BY <1>2, <3>1, <3>2
    <3> QED
      BY <1>2, <2>4, <3>3 DEF StepOf, Followed
  <2> QED
    BY <2>2, <2>3, <2>4
<1>4. w = [k \in 1..(FatEntries + 1) |-> StepOf(w, 0, k)]
  BY <1>2, <1>3
<1>5. Walk(0) = w
  BY <1>4, WalkIs
<1>6. w[2] = fat[0]
  BY <1>1, <1>2
<1> QED
  BY <1>1, <1>5, <1>6 DEF Strays, Marked

LEMMA LoadedIs ==
  ASSUME IInv, ~lost, Marked(fat), NEW s \in Files, s \notin Unfinished
  PROVE  Loaded(dir[s].first) = ContentsOf(chains[s])
<1>1. PICK chain : chain = chains[s]
  OBVIOUS
<1>2. /\ chain \in Seq(FatIndex) /\ fat \in [FatIndex -> FatValues]
      /\ dir[s].first = FirstOf(chain)
  BY <1>1 DEF IInv, TypeOK, MemoryInv, FirstsInMemory, Files
<1>3. IsChain(fat, chain)
  BY <1>1 DEF IInv, MemoryInv, Linked, IsChain, Files
<1>4. CASE chain = << >>
  <2>1. FirstOf(chain) = 0
    BY <1>4 DEF FirstOf
  <2> QED
    BY <1>1, <1>2, <1>4, <2>1, NoClusters DEF Loaded, ContentsOf
<1>5. CASE chain # << >>
  <2>1. ChainFrom(FirstOf(chain)) = chain /\ ~Strays(FirstOf(chain))
    BY <1>2, <1>3, <1>5, ChainLoads
  <2> QED
    BY <1>1, <1>2, <1>5, <2>1 DEF Loaded, ContentsOf
<1> QED
  BY <1>4, <1>5

LEMMA FilesFinished == IInv => Files \cap Unfinished = {}
BY AboveFiles, FilesAreSlots DEF Unfinished

LEMMA HeldIs ==
  ASSUME NEW chain, NEW name, NEW size \in Nat, Holds(data, chain, name, size)
  PROVE  ContentsOf(chain) = Whole(name, size)
<1>1. \A k \in 1..Len(chain) :
        chain[k] - 2 \in Sectors /\ data[chain[k] - 2] = Whole(name, size)[k]
  BY DEF Holds
<1>2. Len(chain) = Needed(size)
  BY DEF Holds
<1>3. chain # << >>
  BY <1>2, NeededType
<1>4. ContentsOf(chain) = [k \in 1..Needed(size) |-> Whole(name, size)[k]]
  BY <1>1, <1>2, <1>3 DEF ContentsOf
<1> QED
  BY <1>4 DEF Whole

StoreInv == IInv /\ SpaceInv /\ ShapeInv /\ NameInv /\ FileInv /\ Marked(fat)

LEMMA RoomyStoreInv ==
  ASSUME CrashPhases \subseteq Crashes, MaxRefusals = 0
  PROVE  RoomySpec => []StoreInv
<1>1. Init => StoreInv
  <2>1. Init => Marked(fat)
    BY TidyAssumption DEF Init
  <2> QED
    BY <2>1, InitIInv, InitSpace, InitShape, InitNames, InitFiles DEF StoreInv
<1>2. "names" \notin CrashPhases
  BY DEF Crashes
<1>3. StoreInv /\ [RoomyNext]_vars => StoreInv'
  BY <1>2, RoomyIsNext, NextIInv, NextSpace, NextShape, NextNames, NextFiles, MarkStays
  DEF StoreInv
<1> QED
  BY <1>1, <1>3, PTL DEF RoomySpec

(***************************************************************************)
(* A file whose writing returned OK is found under its name, with its      *)
(* size, and loading it gives what was written (fat12.c:284-520), for      *)
(* every tidy volume and callers that leave room, also when power was lost *)
(* between writes or while the data of another file was written.           *)
(***************************************************************************)
THEOREM AlwaysReadsBack ==
  ASSUME CrashPhases \subseteq {"idle", "data", "pad"}, MaxRefusals = 0
  PROVE  RoomySpec => []ReadsBack
<1>1. ASSUME StoreInv, pc = "idle", NEW file \in stored
      PROVE  /\ Found(dir, file.name) # {}
             /\ LET s == Min(Found(dir, file.name)) IN
                  /\ dir[s].size = file.size
                  /\ Loaded(dir[s].first) = Whole(file.name, file.size)
  <2>1. IInv /\ ~lost /\ ShapeInv /\ NameInv /\ FileInv /\ Marked(fat)
    BY <1>1, NoneRefused DEF StoreInv
  <2>2. Files = FileSlots(dir)
    <3>1. Dense(dir) /\ Limit = DirEntries
      BY <1>1, <2>1 DEF ShapeInv, Limit
    <3> QED
      BY <3>1, SlotBounds, DenseFiles DEF Files
  <2>3. PICK s \in Files : Keeps(s, file)
    BY <2>1 DEF FileInv
  <2>4. Found(dir, file.name) = {s}
    <3>1. \A t \in Files : NameOf(dir, t) = file.name <=> t = s
      BY <2>1, <2>3 DEF NameInv, NamesApart, Keeps
    <3> QED
      BY <2>2, <2>3, <3>1 DEF Found
  <2>5. Min({s}) = s
    <3>1. {s} \subseteq Nat /\ {s} # {}
      BY <2>3, FilesAreSlots
    <3> QED
      BY <3>1, SmallestMember
  <2>6. Loaded(dir[s].first) = Whole(file.name, file.size)
    <3>1. s \notin Unfinished
      BY <1>1 DEF Unfinished
    <3>2. file.size \in Nat
      BY <2>1, <2>3, FilesAreSlots DEF IInv, TypeOK, DirSlot, Keeps
    <3>3. ContentsOf(chains[s]) = Whole(file.name, file.size)
      BY <2>3, <3>2, HeldIs DEF Keeps
    <3> QED
      BY <2>1, <2>3, <3>1, <3>3, LoadedIs
  <2> QED
    BY <2>3, <2>4, <2>5, <2>6 DEF Keeps
<1>2. StoreInv => ReadsBack
  BY <1>1 DEF ReadsBack
<1> QED
  BY <1>2, RoomyStoreInv, PTL DEF Crashes

-----------------------------------------------------------------------------
(* The driver implements the file store *)

\* What a reader finds in entry s
Record(s) == [name |-> NameOf(dir, s), size |-> dir[s].size, contents |-> ContentsOf(chains[s])]

LEMMA ReadableIs ==
  ASSUME StoreInv, MaxRefusals = 0
  PROVE  Readable = {Record(s) : s \in Files}
<1>1. IInv /\ ~lost /\ ShapeInv /\ Marked(fat)
  BY NoneRefused DEF StoreInv
<1>2. {s \in FileSlots(dir) : pc = "idle" \/ s < job.slot} = Files
  <2>1. CASE pc = "idle"
    <3>1. Dense(dir) /\ Limit = DirEntries
      BY <1>1, <2>1 DEF ShapeInv, Limit
    <3> QED
      BY <2>1, <3>1, SlotBounds, DenseFiles DEF Files
  <2>2. CASE pc # "idle"
    <3>1. /\ Limit = job.slot /\ Limit < FinalSlot /\ Limit \in Nat /\ FinalSlot \in Nat
          /\ pc \in Phases
      BY <1>1, <2>2, AboveFiles DEF IInv, TypeOK
    <3>2. ASSUME NEW t \in Slots, t < Limit
          PROVE  dir[t].kind # "empty"
      <4>1. t \in Nat /\ ~(t >= FinalSlot) /\ ~(t >= FinalSlot + 1)
            /\ t \notin job.slot..LongSlot
        BY <3>1, <3>2, SlotBounds
      <4>2. CASE pc = "names"
        BY <1>1, <4>1, <4>2 DEF ShapeInv
      <4>3. CASE pc = "fill"
        BY <1>1, <4>1, <4>3 DEF ShapeInv, FilledTo
      <4>4. CASE pc \in {"link", "entry", "data", "pad"}
        BY <1>1, <4>1, <4>4 DEF ShapeInv, FilledTo
      <4> QED
        BY <2>2, <3>1, <4>2, <4>3, <4>4 DEF Phases
    <3>3. \A s \in Slots : s < Limit => (s \in FileSlots(dir) <=> dir[s].kind = "file")
      BY <3>1, <3>2, FilesBelow
    <3>4. FileSlots(dir) \subseteq Slots
      <4> DEFINE E == {t \in Slots : dir[t].kind = "empty"} \cup {DirEntries}
      <4>1. E \subseteq Nat /\ E # {} /\ DirEntries \in E
        BY SlotBounds
      <4>2. Min(E) \in Nat /\ Min(E) <= DirEntries
        BY <4>1, SmallestMember
      <4>3. DirStop(dir) \in Nat /\ DirStop(dir) <= DirEntries
        BY <4>2 DEF DirStop
      <4> QED
        BY <4>3, SlotBounds DEF FileSlots
    <3> QED
      BY <2>2, <3>1, <3>3, <3>4 DEF Files
  <2> QED
    BY <2>1, <2>2
<1>3. \A s \in Files : Loaded(dir[s].first) = ContentsOf(chains[s])
  BY <1>1, FilesFinished, LoadedIs
<1>4. Readable = {[name |-> NameOf(dir, s), size |-> dir[s].size,
                   contents |-> Loaded(dir[s].first)] : s \in Files}
  BY <1>2 DEF Readable
<1> QED
  BY <1>3, <1>4 DEF Record

\* A file that stays is found as it was
LEMMA RecordSame ==
  ASSUME IInv, NEW s \in Files, FileSame(s)
  PROVE  Record(s)' = Record(s)
<1>1. PICK chain : chain = chains[s]
  OBVIOUS
<1>2. chain \in Seq(FatIndex) /\ chains'[s] = chain /\ s \in Slots
  BY <1>1, FilesAreSlots DEF IInv, TypeOK, FileSame
<1>3. ASSUME NEW k \in 1..Len(chain), chain[k] - 2 \in Sectors
      PROVE  data'[chain[k] - 2] = data[chain[k] - 2]
  <2>1. PICK c : c = chain[k]
    OBVIOUS
  <2>2. c \in FatIndex
    BY <1>2, <2>1, ElementOfSeq
  <2>3. c \in Int
    BY <2>2, Geometry
  <2>4. c \in Range(chains[s])
    BY <1>1, <1>2, <2>1 DEF Range
  <2>5. (c - 2) * SectorsPerCluster = c - 2
    BY <2>3, VolumeAssumption
  <2>6. c - 2 \in SectorsOf(s)
    BY <1>3, <2>1, <2>4, <2>5 DEF SectorsOf
  <2> QED
    BY <2>1, <2>6 DEF FileSame
<1>4. ContentsOf(chain)' = ContentsOf(chain)
  BY <1>3 DEF ContentsOf
<1>5. Record(s)' = [name |-> NameOf(dir', s), size |-> dir'[s].size,
                    contents |-> ContentsOf(chain)']
  BY <1>2 DEF Record, ContentsOf
<1> QED
  BY <1>1, <1>4, <1>5 DEF Record, FileSame

LEMMA ReadableNext ==
  ASSUME MaxRefusals = 0
  PROVE  StoreInv' => Readable' = {Record(s)' : s \in Files'}
<1>1. StoreInv => Readable = {Record(s) : s \in Files}
  BY ReadableIs
<1>2. (StoreInv => Readable = {Record(s) : s \in Files})'
  BY <1>1, PTL
<1> QED
  BY <1>2

LEMMA HeldNext ==
  \A chain, name : \A size \in Nat :
    Holds(data', chain, name, size) => ContentsOf(chain)' = Whole(name, size)
<1>1. \A chain, name : \A size \in Nat :
        Holds(data, chain, name, size) => ContentsOf(chain) = Whole(name, size)
  BY HeldIs
<1>2. (\A chain, name : \A size \in Nat :
         Holds(data, chain, name, size) => ContentsOf(chain) = Whole(name, size))'
  BY <1>1, PTL
<1> QED
  BY <1>2

LEMMA JobTyped == IInv => job.size \in Nat
BY DEF IInv, TypeOK

LEMMA StoreStarts ==
  ASSUME StoreInv, MaxRefusals = 0
  PROVE  Store!StoreInit
<1>1. Readable = {Record(s) : s \in Files} /\ NamesApart
  BY ReadableIs DEF StoreInv, NameInv
<1>2. ASSUME NEW file \in Readable, NEW other \in Readable, file.name = other.name
      PROVE  file = other
  <2>1. PICK s \in Files : file = Record(s)
    BY <1>1
  <2>2. PICK t \in Files : other = Record(t)
    BY <1>1
  <2>3. NameOf(dir, s) = NameOf(dir, t)
    BY <1>2, <2>1, <2>2 DEF Record
  <2> QED
    BY <1>1, <2>1, <2>2, <2>3 DEF NamesApart
<1> QED
  BY <1>2 DEF Store!StoreInit, Store!NamesDiffer

\* The last sector of a file makes it appear
LEMMA StoreSteps ==
  ASSUME CrashPhases \subseteq {"idle"}, MaxRefusals = 0,
         StoreInv, StoreInv', [RoomyNext]_vars
  PROVE  Store!StoreNext \/ UNCHANGED Readable
<1>0. IInv /\ NameInv /\ ShapeInv /\ FileInv /\ ~lost /\ CrashPhases \subseteq Crashes
  BY NoneRefused DEF StoreInv, Crashes
<1>1. /\ \A s \in Files : FileSame(s)
      /\ \/ Files' = Files
         \/ /\ pc \in {"data", "pad"} /\ pc' = "idle"
            /\ Files' = Files \cup {FinalSlot}
      /\ stored' = stored \/ (PadData /\ stored' = stored \cup {job})
  BY <1>0, StepKeeps DEF StoreInv
<1>2. Readable = {Record(s) : s \in Files}
  BY ReadableIs
<1>3. Readable' = {Record(s)' : s \in Files'}
  BY ReadableNext
<1>4. \A s \in Files : Record(s)' = Record(s)
  BY <1>0, <1>1, RecordSame
<1>5. CASE Files' = Files
  BY <1>2, <1>3, <1>4, <1>5
<1>6. CASE /\ pc \in {"data", "pad"} /\ pc' = "idle"
           /\ Files' = Files \cup {FinalSlot}
  <2>1. PadData
    <3>1. ~StartAgain
      BY <1>6 DEF StartAgain
    <3> QED
      BY <1>6, <3>1 DEF RoomyNext, StartWrite, Write, WriteLong, FillEntry, LinkCluster,
           EndChain, WriteEntry, WriteData, Restart, RestartInMark, vars, writer
  <2>2. PICK slot, new : slot = FinalSlot /\ new = job
    OBVIOUS
  <2>3. /\ dir' = dir /\ stored' = stored \cup {new} /\ NameOf(dir, slot) = new.name
        /\ Files' = Files \cup {slot}
    BY <1>0, <1>6, <2>1, <2>2, NewFile DEF PadData
  <2>4. FileInv' /\ NameInv'
    BY DEF StoreInv
  <2>5. PICK s \in Files' : Keeps(s, new)'
    BY <2>3, <2>4 DEF FileInv
  <2>6. /\ NameOf(dir', s) = new.name /\ dir'[s].size = new.size
        /\ Holds(data', chains'[s], new.name, new.size)
    BY <2>5 DEF Keeps
  <2>7. s = slot
    BY <2>3, <2>4, <2>5, <2>6 DEF NameInv, NamesApart
  <2>8. Record(s)' = [name |-> new.name, size |-> new.size,
                      contents |-> Whole(new.name, new.size)]
    <3>0. new.size \in Nat
      BY <1>0, <2>2, JobTyped
    <3>1. ContentsOf(chains[s])' = Whole(new.name, new.size)
      BY <2>6, <3>0, HeldNext DEF ContentsOf
    <3>2. Record(s)' = [name |-> NameOf(dir', s), size |-> dir'[s].size,
                        contents |-> ContentsOf(chains[s])']
      BY DEF Record
    <3> QED
      BY <2>6, <3>1, <3>2
  <2>9. Readable' = Readable \cup {Record(s)'}
    BY <1>2, <1>3, <1>4, <2>3, <2>7
  <2>10. \A file \in Readable : file.name # new.name
    <3>1. \A t \in Files : NameOf(dir, t) # new.name
      BY <1>0, <1>6, <2>2 DEF NameInv
    <3> QED
      BY <1>2, <3>1 DEF Record
  <2>11. new.name \in Names /\ new.size \in FileSizes
    BY <1>0, <1>6, <2>2 DEF NameInv, IInv, WriterInv
  <2>12. Store!Create(new.name, new.size)
    BY <2>8, <2>9, <2>10 DEF Store!Create
  <2> QED
    BY <2>11, <2>12 DEF Store!StoreNext
<1> QED
  BY <1>1, <1>5, <1>6

(***************************************************************************)
(* The driver implements the file store (fat12.c:97-520): what a reader    *)
(* finds appears at once, when the last sector of a file is written, under *)
(* a name no other file has, and never changes, for every tidy volume and  *)
(* callers that leave room, when power is only lost between writes.        *)
(***************************************************************************)
THEOREM FileStoreImplemented ==
  ASSUME CrashPhases \subseteq {"idle"}, MaxRefusals = 0
  PROVE  RoomySpec => StoreRefined
<1>1. RoomySpec => []StoreInv
  <2>1. CrashPhases \subseteq Crashes
    BY DEF Crashes
  <2> QED
    BY <2>1, RoomyStoreInv
<1>2. StoreInv => Store!StoreInit
  BY StoreStarts
<1>3. StoreInv /\ StoreInv' /\ [RoomyNext]_vars => [Store!StoreNext]_Readable
  BY StoreSteps
<1> QED
  BY <1>1, <1>2, <1>3, PTL DEF RoomySpec, StoreRefined, Store!StoreSpec
=============================================================================
