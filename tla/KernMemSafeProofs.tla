-------------------------- MODULE KernMemSafeProofs --------------------------
(***************************************************************************)
(* Under the conditions of KernMemSafe the table and the callers agree:    *)
(* the runs partition the table, each grant is one of them, every block is *)
(* accounted for, no loop leaves the table, bestFit finds what there is,   *)
(* and the whole implements the abstract heap.                             *)
(***************************************************************************)
EXTENDS KernMemSafe, KernMemProofs

-----------------------------------------------------------------------------
(* Tables whose runs partition the entries *)

LEMMA SameRun ==
  ASSUME TableOK, Partition, NEW i \in Entries, NEW j \in Entries, j \in RunOf(i)
  PROVE  /\ firstContig[j] = firstContig[i]
         /\ lastContig[j] = lastContig[i]
         /\ type[j] = type[i]
BY DEF Partition

\* The entry after a run is the first of another
LEMMA NextRunStarts ==
  ASSUME TableOK, Partition, NEW i \in Entries, NEW n \in Entries,
         n = lastContig[i] + 1
  PROVE  firstContig[n] = n
<1>1. lastContig[i] \in Entries /\ lastContig[lastContig[i]] = lastContig[i]
  BY FieldsAreEntries DEF Partition, RunOf
<1>2. SUFFICES ASSUME firstContig[n] < n PROVE FALSE
  BY FieldsAreEntries
<1>3. lastContig[i] \in RunOf(n)
  BY <1>1, <1>2, FieldsAreEntries DEF RunOf
<1>4. lastContig[lastContig[i]] = lastContig[n]
  BY <1>1, <1>3, SameRun
<1> QED
  BY <1>1, <1>4, FieldsAreEntries

\* The entry before a run is the last of another
LEMMA PreviousRunEnds ==
  ASSUME TableOK, Partition, NEW s \in Entries, firstContig[s] = s, s # 0
  PROVE  s - 1 \in Entries /\ lastContig[s - 1] = s - 1
<1>1. s - 1 \in Entries
  BY LayoutAssumption DEF Entries
<1>2. SUFFICES ASSUME lastContig[s - 1] > s - 1 PROVE FALSE
  BY <1>1, FieldsAreEntries
<1>3. s \in RunOf(s - 1)
  BY <1>1, <1>2, FieldsAreEntries DEF RunOf
<1>4. firstContig[s] = firstContig[s - 1]
  BY <1>1, <1>3, SameRun
<1> QED
  BY <1>1, <1>4, FieldsAreEntries

\* Runs that share an entry are the same
LEMMA RunsMeet ==
  ASSUME TableOK, Partition, NEW i \in Entries, NEW j \in Entries,
         NEW k \in Entries, k \in RunOf(i), k \in RunOf(j)
  PROVE  j \in RunOf(i)
BY FieldsAreEntries, SameRun DEF RunOf

-----------------------------------------------------------------------------
(* Carving b..e out of one run splits it in at most three *)

CarveStop(b, e, stop) ==
  stop = lastContig[b] \/ (e < ListEnd /\ stop = lastContig[e + 1])

LEMMA CarveEffect ==
  ASSUME TableOK, Partition, NEW b \in Entries, NEW e \in Entries, b <= e,
         e <= lastContig[b], NEW stop, CarveStop(b, e, stop), Carve(b, e, stop)
  PROVE  \A i \in Entries :
           /\ i \in b..e =>
                firstContig'[i] = b /\ lastContig'[i] = e /\ type'[i] = Resrv
           /\ i \in firstContig[b]..(b - 1) =>
                firstContig'[i] = firstContig[b] /\ lastContig'[i] = b - 1
           /\ i \in (e + 1)..lastContig[b] =>
                firstContig'[i] = e + 1 /\ lastContig'[i] = lastContig[b]
           /\ i \notin RunOf(b) =>
                firstContig'[i] = firstContig[i] /\ lastContig'[i] = lastContig[i]
           /\ i \notin b..e => type'[i] = type[i]
<1> SUFFICES ASSUME NEW i \in Entries
             PROVE  /\ i \in b..e =>
                         /\ firstContig'[i] = b
                         /\ lastContig'[i] = e
                         /\ type'[i] = Resrv
                    /\ i \in firstContig[b]..(b - 1) =>
                         /\ firstContig'[i] = firstContig[b]
                         /\ lastContig'[i] = b - 1
                    /\ i \in (e + 1)..lastContig[b] =>
                         /\ firstContig'[i] = e + 1
                         /\ lastContig'[i] = lastContig[b]
                    /\ i \notin RunOf(b) =>
                         /\ firstContig'[i] = firstContig[i]
                         /\ lastContig'[i] = lastContig[i]
                    /\ i \notin b..e => type'[i] = type[i]
  OBVIOUS
<1>1. firstContig[e] = firstContig[b] /\ lastContig[e] = lastContig[b]
  BY FieldsAreEntries, SameRun DEF RunOf
<1>2. i \in RunOf(b) => /\ firstContig[i] = firstContig[b]
                        /\ lastContig[i] = lastContig[b]
  BY SameRun
<1>3. CASE e < lastContig[b]
  <2>1. e + 1 \in Entries /\ e + 1 \in RunOf(b)
    BY <1>3, FieldsAreEntries, LayoutAssumption DEF Entries, ListEnd, RunOf
  <2>2. stop = lastContig[b]
    BY <2>1, SameRun DEF CarveStop
  <2> QED
    BY <1>1, <1>2, <1>3, <2>2, FieldsAreEntries DEF Carve, RunOf
<1>4. CASE e = lastContig[b]
  <2>1. \A j \in Entries : j \in (e + 1)..stop => firstContig[j] = e + 1
    <3> SUFFICES ASSUME NEW j \in Entries, j \in (e + 1)..stop
                 PROVE  firstContig[j] = e + 1
      OBVIOUS
    <3>1. e + 1 \in Entries /\ stop = lastContig[e + 1]
      BY <1>4, FieldsAreEntries, LayoutAssumption
      DEF Entries, ListEnd, CarveStop
    <3>2. firstContig[e + 1] = e + 1
      BY <1>4, <3>1, NextRunStarts
    <3>3. j \in RunOf(e + 1)
      BY <3>1, <3>2, FieldsAreEntries DEF RunOf
    <3> QED
      BY <3>1, <3>2, <3>3, SameRun
  <2> QED
    BY <1>1, <1>2, <1>4, <2>1, FieldsAreEntries DEF Carve, RunOf
<1> QED
  BY <1>3, <1>4, FieldsAreEntries

LEMMA CarveKeepsPartition ==
  ASSUME TableOK, Partition, NEW b \in Entries, NEW e \in Entries, b <= e,
         e <= lastContig[b], NEW stop, CarveStop(b, e, stop), Carve(b, e, stop)
  PROVE  Partition'
<1> SUFFICES ASSUME NEW i \in Entries, NEW j \in RunOf(i)'
             PROVE  /\ firstContig'[j] = firstContig'[i]
                    /\ lastContig'[j] = lastContig'[i]
                    /\ type'[j] = type'[i]
  BY DEF Partition
<1>1. firstContig[e] <= b
  BY FieldsAreEntries, SameRun DEF RunOf
<1>2. TableOK'
  BY <1>1, CarveKeepsOrder
<1>3. j \in Entries /\ firstContig'[i] <= j /\ j <= lastContig'[i]
  BY <1>2, RangeInTable, FieldsAreEntries DEF RunOf, TableOK, Fields
<1>4. CASE i \in b..e
  BY <1>3, <1>4, CarveEffect
<1>5. CASE i \in firstContig[b]..(b - 1)
  <2>1. j \in firstContig[b]..(b - 1)
    BY <1>3, <1>5, CarveEffect, FieldsAreEntries
  <2>2. i \in RunOf(b) /\ j \in RunOf(b) /\ i \notin b..e /\ j \notin b..e
    BY <1>3, <1>5, <2>1, FieldsAreEntries DEF RunOf
  <2> QED
    BY <1>3, <1>5, <2>1, <2>2, CarveEffect, SameRun
<1>6. CASE i \in (e + 1)..lastContig[b]
  <2>1. j \in (e + 1)..lastContig[b]
    BY <1>3, <1>6, CarveEffect, FieldsAreEntries
  <2>2. i \in RunOf(b) /\ j \in RunOf(b) /\ i \notin b..e /\ j \notin b..e
    BY <1>3, <1>6, <2>1, FieldsAreEntries DEF RunOf
  <2> QED
    BY <1>3, <1>6, <2>1, <2>2, CarveEffect, SameRun
<1>7. CASE i \notin RunOf(b)
  <2>1. j \in RunOf(i)
    BY <1>3, <1>7, CarveEffect, FieldsAreEntries DEF RunOf
  <2>2. j \notin RunOf(b)
    BY <1>3, <1>7, <2>1, RunsMeet
  <2>3. i \notin b..e /\ j \notin b..e
    BY <1>3, <1>7, <2>2, FieldsAreEntries DEF RunOf
  <2> QED
    BY <1>3, <1>7, <2>1, <2>2, <2>3, CarveEffect, SameRun
<1> QED
  BY <1>4, <1>5, <1>6, <1>7, FieldsAreEntries DEF RunOf

-----------------------------------------------------------------------------
(* Freeing a run at a sound place merges it with the runs beside it *)

\* What mm_free takes for the left neighbour is the run that ends before s
LEMMA LeftNeighbour ==
  ASSUME TableOK, Partition, NEW s \in Entries, firstContig[s] = s,
         MergeLeft(s) # s
  PROVE  /\ s - 1 \in Entries
         /\ MergeLeft(s) = firstContig[s - 1] /\ lastContig[s - 1] = s - 1
         /\ type[s - 1] = Avail
<1>1. s # 0 /\ type[s - 1] = Avail /\ MergeLeft(s) = firstContig[s - 1]
  BY DEF MergeLeft
<1> QED
  BY <1>1, PreviousRunEnds

\* What it takes for the right neighbour is the run that starts after e
LEMMA RightNeighbour ==
  ASSUME TableOK, Partition, NEW i \in Entries, NEW e \in Entries,
         e = lastContig[i], SoundFree(e), MergeRight(e) # e
  PROVE  /\ e + 1 \in Entries /\ firstContig[e + 1] = e + 1
         /\ MergeRight(e) = lastContig[e + 1] /\ type[e + 1] = Avail
<1>1. e + 1 \in Entries /\ e + 2 \in Entries
  BY LayoutAssumption DEF SoundFree, Entries, ListEnd
<1>2. type[e + 2] = Avail /\ MergeRight(e) = lastContig[e + 2]
  BY DEF MergeRight
<1>3. lastContig[e + 1] > e + 1
  BY <1>2 DEF SoundFree, Avail, Resrv
<1>4. firstContig[e + 1] = e + 1
  BY <1>1, NextRunStarts
<1>5. e + 2 \in RunOf(e + 1)
  BY <1>1, <1>3, <1>4, FieldsAreEntries DEF RunOf
<1> QED
  BY <1>1, <1>2, <1>4, <1>5, SameRun

LEMMA ReleaseEffect ==
  ASSUME TableOK, Partition, NEW s \in Entries, NEW e \in Entries,
         firstContig[s] = s, e = lastContig[s], SoundFree(e),
         Release(s, e, MergeLeft(s), MergeRight(e))
  PROVE  \A i \in Entries :
           /\ i \in MergeLeft(s)..MergeRight(e) =>
                /\ firstContig'[i] = MergeLeft(s)
                /\ lastContig'[i] = MergeRight(e)
                /\ type'[i] = Avail
           /\ i \notin MergeLeft(s)..MergeRight(e) =>
                /\ firstContig'[i] = firstContig[i]
                /\ lastContig'[i] = lastContig[i]
                /\ RunOf(i) \cap MergeLeft(s)..MergeRight(e) = {}
           /\ i \notin s..e => type'[i] = type[i]
<1> DEFINE left == MergeLeft(s)
           right == MergeRight(e)
<1>1. /\ left \in Entries /\ left <= s
      /\ right \in Entries /\ e <= right /\ s <= e
  BY MergeBounds, FieldsAreEntries
<1>2. left # s => /\ s - 1 \in Entries
                  /\ left = firstContig[s - 1] /\ lastContig[s - 1] = s - 1
                  /\ type[s - 1] = Avail
  BY LeftNeighbour
<1>3. right # e => /\ e + 1 \in Entries /\ firstContig[e + 1] = e + 1
                   /\ right = lastContig[e + 1] /\ type[e + 1] = Avail
  BY RightNeighbour
<1>4. Release(s, e, left, right)
  OBVIOUS
<1> SUFFICES ASSUME NEW i \in Entries
             PROVE  /\ i \in left..right =>
                         /\ firstContig'[i] = left
                         /\ lastContig'[i] = right
                         /\ type'[i] = Avail
                    /\ i \notin left..right =>
                         /\ firstContig'[i] = firstContig[i]
                         /\ lastContig'[i] = lastContig[i]
                         /\ RunOf(i) \cap left..right = {}
                    /\ i \notin s..e => type'[i] = type[i]
  OBVIOUS
<1> HIDE DEF left, right
<1>5. CASE i \in s..e
  <2>1. i \in RunOf(s)
    BY <1>5 DEF RunOf
  <2>2. firstContig[i] = s /\ lastContig[i] = e
    BY <2>1, SameRun
  <2>3. i \in left..right
    BY <1>1, <1>5, EntriesAreNat
  <2> QED
    BY <1>1, <1>4, <1>5, <2>2, <2>3, FieldsAreEntries DEF Release
<1>6. CASE i \in left..(s - 1)
  <2>1. left # s
    BY <1>1, <1>6, EntriesAreNat
  <2>2. i \in RunOf(s - 1)
    BY <1>2, <1>6, <2>1 DEF RunOf
  <2>3. firstContig[i] = left /\ type[i] = Avail
    BY <1>2, <2>1, <2>2, SameRun
  <2>4. i \notin s..e /\ i \in left..right /\ i \notin (e + 1)..lastContig[e + 1]
    BY <1>1, <1>6, EntriesAreNat
  <2> QED
    BY <1>1, <1>4, <1>6, <2>3, <2>4, FieldsAreEntries DEF Release
<1>7. CASE i \in (e + 1)..right
  <2>1. right # e
    BY <1>1, <1>7, EntriesAreNat
  <2>2. i \in RunOf(e + 1)
    BY <1>3, <1>7, <2>1 DEF RunOf
  <2>3. lastContig[i] = right /\ type[i] = Avail
    BY <1>3, <2>1, <2>2, SameRun
  <2>4. i \notin s..e /\ i \in left..right /\ i \notin left..(s - 1)
    BY <1>1, <1>7, EntriesAreNat
  <2> QED
    BY <1>1, <1>3, <1>4, <1>7, <2>1, <2>3, <2>4, FieldsAreEntries DEF Release
<1>8. CASE i \notin left..right
  <2>1. RunOf(i) \cap left..right = {}
    <3> SUFFICES ASSUME NEW k \in RunOf(i), k \in left..right
                 PROVE  FALSE
      OBVIOUS
    <3>1. k \in Entries
      BY <1>1, <1>8, RangeInTable
    <3>2. \E n \in Entries : k \in RunOf(n) /\ firstContig[n] >= left
                            /\ lastContig[n] <= right
      <4>1. CASE k \in left..(s - 1)
        BY <1>1, <1>2, <3>1, <4>1, FieldsAreEntries DEF RunOf
      <4>2. CASE k \in s..e
        BY <1>1, <3>1, <4>2, FieldsAreEntries DEF RunOf
      <4>3. CASE k \in (e + 1)..right
        BY <1>1, <1>3, <3>1, <4>3, FieldsAreEntries DEF RunOf
      <4> QED
        BY <1>1, <3>1, <4>1, <4>2, <4>3, EntriesAreNat
    <3>3. PICK n \in Entries : /\ k \in RunOf(n) /\ firstContig[n] >= left
                               /\ lastContig[n] <= right
      BY <3>2
    <3>4. i \in RunOf(n)
      BY <3>1, <3>3, RunsMeet
    <3> QED
      BY <1>1, <1>8, <3>3, <3>4, FieldsAreEntries, EntriesAreNat DEF RunOf
  <2>2. i \notin s..e /\ i \notin left..(s - 1) /\ i \notin (e + 1)..right
    BY <1>1, <1>8, EntriesAreNat
  <2> QED
    BY <1>1, <1>3, <1>4, <1>8, <2>1, <2>2, FieldsAreEntries DEF Release
<1> QED
  BY <1>1, <1>5, <1>6, <1>7, <1>8, EntriesAreNat

LEMMA ReleaseKeepsPartition ==
  ASSUME TableOK, Partition, NEW s \in Entries, NEW e \in Entries,
         firstContig[s] = s, e = lastContig[s], SoundFree(e),
         Release(s, e, MergeLeft(s), MergeRight(e))
  PROVE  Partition'
<1> DEFINE merged == MergeLeft(s)..MergeRight(e)
<1> SUFFICES ASSUME NEW i \in Entries, NEW j \in RunOf(i)'
             PROVE  /\ firstContig'[j] = firstContig'[i]
                    /\ lastContig'[j] = lastContig'[i]
                    /\ type'[j] = type'[i]
  BY DEF Partition
<1>1. MergeLeft(s) \in Entries /\ MergeRight(e) \in Entries
  BY MergeBounds
<1>2. j \in firstContig'[i]..lastContig'[i]
  BY DEF RunOf
<1>3. CASE i \in merged
  <2>1. j \in merged
    BY <1>2, <1>3, ReleaseEffect
  <2>2. j \in Entries
    BY <1>1, <2>1, RangeInTable
  <2> QED
    BY <1>3, <2>1, <2>2, ReleaseEffect
<1>4. CASE i \notin merged
  <2>1. j \in RunOf(i)
    BY <1>2, <1>4, ReleaseEffect DEF RunOf
  <2>2. j \in Entries
    BY <2>1, RangeInTable, FieldsAreEntries DEF RunOf
  <2>3. j \notin merged
    BY <1>4, <2>1, ReleaseEffect
  <2>4. s..e \subseteq merged
    <3>1. MergeLeft(s) <= s /\ e <= MergeRight(e)
      BY MergeBounds
    <3>2. PICK l, r \in Nat : l = MergeLeft(s) /\ r = MergeRight(e)
      BY <1>1, EntriesAreNat
    <3>3. \A k \in s..e : k \in l..r
      BY <3>1, <3>2, EntriesAreNat
    <3> QED
      BY <3>2, <3>3
  <2> QED
    BY <1>4, <2>1, <2>2, <2>3, <2>4, ReleaseEffect, SameRun
<1> QED
  BY <1>3, <1>4

-----------------------------------------------------------------------------
(***************************************************************************)
(* The inductive invariant.  To the properties it adds what makes the boot *)
(* go right: every region still to be reserved starts in the last run of   *)
(* the table, so that the reservation cuts a single run, and the last      *)
(* entry is reserved or will be.                                           *)
(***************************************************************************)
BootAhead ==
  \A k \in 1..Len(memMap) :
    k > booted /\ Reserving(memMap[k]) =>
      lastContig[ReserveStart(memMap[k])] = ListEnd

TopTaken ==
  \/ ListEnd \in firmware
  \/ \E k \in 1..Len(memMap) :
       k > booted /\ Reserving(memMap[k]) /\ LastReserved(memMap[k]) = ListEnd

SafeInv ==
  /\ IInv
  /\ NoWild
  /\ OrderlyMap(memMap)
  /\ Partition
  /\ LiveAreRuns
  /\ Accounting
  /\ Booting => live = {}
  /\ BootAhead
  /\ TopTaken

LEMMA SafeNextIsNext == SafeNext => Next
BY DEF SafeNext, Next

\* What the regions of a map ask mm_reserveat for
LEMMA RegionArguments ==
  ASSUME IInv, NEW k \in 1..Len(memMap)
  PROVE  /\ ReserveLength(memMap[k]) \in Nat
         /\ ReserveStart(memMap[k]) \in Nat
         /\ Reserving(memMap[k]) => /\ ReserveStart(memMap[k]) \in Entries
                                    /\ LastReserved(memMap[k]) \in Entries
                                    /\ ReserveStart(memMap[k])
                                         <= LastReserved(memMap[k])
<1> DEFINE region == memMap[k]
<1>1. region.base \in Nat /\ region.length \in Nat
  <2>1. memMap \in Seq([base : Nat, length : Nat, type : Nat])
    BY InputAssumption DEF IInv, TypeOK
  <2>2. region \in [base : Nat, length : Nat, type : Nat]
    BY <2>1, ElementOfSeq
  <2> QED
    BY <2>2
<1>2. ReserveStart(region) \in Nat
  <2>1. region.base % WordMod \in Int /\ MemStart \in Int
    BY <1>1, LayoutAssumption
  <2> QED
    BY <2>1, EntryOfNat DEF ReserveStart
<1>3. ReserveLength(region) \in Nat
  BY <1>1, LayoutAssumption DEF ReserveLength
<1> HIDE DEF region
<1>4. ASSUME Reserving(region)
      PROVE  /\ ReserveStart(region) \in Entries
             /\ LastReserved(region) \in Entries
             /\ ReserveStart(region) <= LastReserved(region)
  <2>1. ~ (ReserveStart(region) > ListEnd)
    BY <1>4 DEF Reserving, NothingToReserve
  <2>2. ReserveStart(region) \in Entries
    BY <1>2, <2>1, LayoutAssumption DEF Entries, ListEnd
  <2> QED
    BY <1>3, <2>2, ReserveEndInTable DEF LastReserved
<1> QED
  BY <1>2, <1>3, <1>4 DEF region

LEMMA InitSafeInv == SafeInit => SafeInv
<1> SUFFICES ASSUME SafeInit PROVE SafeInv
  OBVIOUS
<1>1. IInv
  BY InitIInv DEF SafeInit
<1>2. Partition /\ LiveAreRuns /\ NoWild
  BY RangeInTable, EntriesAreNat
  DEF SafeInit, Init, Partition, RunOf, LiveAreRuns, NoWild
<1>3. Accounting
  BY DEF SafeInit, Init, Accounting, Avail, Resrv
<1>4. BootAhead
  BY <1>1, RegionArguments DEF SafeInit, Init, BootAhead
<1>5. TopTaken
  <2>1. \A k \in 1..Len(memMap) : k > booted
    BY DEF SafeInit, Init
  <2> QED
    BY <2>1 DEF SafeInit, OrderlyMap, TopTaken
<1> QED
  BY <1>1, <1>2, <1>3, <1>4, <1>5 DEF SafeInv, SafeInit, Init

-----------------------------------------------------------------------------
(* The boot *)

\* The four copies of the splitting code all stop where CarveStop says
LEMMA RestEndStops ==
  ASSUME NEW size, NEW b \in Entries, NEW e \in Entries,
         lastContig[b] \in Entries, e <= lastContig[b]
  PROVE  CarveStop(b, e, RestEnd(size, b, e))
<1>1. CASE size < BlockLength
  BY <1>1 DEF CarveStop, RestEnd
<1>2. CASE ~ (size < BlockLength) /\ e < ListEnd
  BY <1>2 DEF CarveStop, RestEnd
<1>3. CASE ~ (size < BlockLength) /\ ~ (e < ListEnd)
  <2>1. lastContig[b] = ListEnd
    <3>1. PICK last \in Entries : last = lastContig[b]
      OBVIOUS
    <3> QED
      BY <1>3, <3>1, EntriesAreNat
  <2> QED
    BY <1>3, <2>1 DEF CarveStop, RestEnd
<1> QED
  BY <1>1, <1>2, <1>3

LEMMA BootNeverRunsAway ==
  ASSUME SafeInv, Booting, NEW past \in PastEnd, Reserving(memMap[booted + 1])
  PROVE  ~ReserveRunsAway(ReserveLength(memMap[booted + 1]),
                          ReserveStart(memMap[booted + 1]),
                          LastReserved(memMap[booted + 1]), past)
<1>1. booted + 1 \in 1..Len(memMap) /\ booted + 1 > booted
  BY InputAssumption, LenProperties DEF SafeInv, IInv, TypeOK, Booting
<1>2. PICK b, e \in Entries : /\ b = ReserveStart(memMap[booted + 1])
                             /\ e = LastReserved(memMap[booted + 1])
                             /\ b <= e
  BY <1>1, RegionArguments DEF SafeInv
<1>3. TableOK /\ lastContig[b] = ListEnd
  BY <1>1, <1>2, IInvTable DEF SafeInv, BootAhead
<1>4. e \in RunOf(b)
  BY <1>2, <1>3, FieldsAreEntries DEF RunOf
<1>5. firstContig[e] = firstContig[b]
  BY <1>3, <1>4, SameRun DEF SafeInv
<1>6. ~ (firstContig[e] > b)
  BY <1>3, <1>5, FieldsAreEntries
<1>7. ~StartsAtEnd(ReserveLength(memMap[booted + 1]), b)
  BY <1>1, <1>2 DEF SafeInv, OrderlyMap
<1> QED
  BY <1>2, <1>6, <1>7, PastEndAssumption DEF ReserveRunsAway, MissesBegin

LEMMA BootEntrySafe ==
  ASSUME SafeInv, BootEntry
  PROVE  SafeInv'
<1> DEFINE region == memMap[booted + 1]
           size == ReserveLength(region)
           b == ReserveStart(region)
           e == LastReserved(region)
<1>1. IInv'
  BY BootEntryStep DEF SafeInv
<1>2. /\ booted + 1 \in 1..Len(memMap) /\ booted \in Nat /\ booted' = booted + 1
      /\ Len(memMap) \in Nat
      /\ memMap' = memMap /\ live' = live /\ live = {}
  BY InputAssumption, LenProperties
  DEF BootEntry, SafeInv, IInv, TypeOK, Booting
<1>3. \/ ~Reserving(region) /\ UNCHANGED <<table, firmware, wild>>
      \/ /\ Reserving(region)
         /\ \E past \in PastEnd : ReserveRunsAway(size, b, e, past)
      \/ /\ Reserving(region)
         /\ Carve(b, e, RestEnd(size, b, e))
         /\ firmware' = firmware \cup b..e
         /\ UNCHANGED wild
  BY DEF BootEntry, ReserveAt, Reserving, LastReserved
<1>4. CASE ~Reserving(region) /\ UNCHANGED <<table, firmware, wild>>
  <2>1. BootAhead'
    BY <1>2, <1>4 DEF SafeInv, BootAhead, table
  <2>2. TopTaken'
    <3>1. CASE ListEnd \in firmware
      BY <1>4, <3>1 DEF TopTaken
    <3>2. ASSUME NEW k \in 1..Len(memMap), k > booted, Reserving(memMap[k]),
                 LastReserved(memMap[k]) = ListEnd
          PROVE  TopTaken'
      <4>1. k # booted + 1
        BY <1>4, <3>2
      <4>2. k > booted'
        BY <1>2, <3>2, <4>1
      <4> QED
        BY <1>2, <3>2, <4>2 DEF TopTaken
    <3> QED
      BY <3>1, <3>2 DEF SafeInv, TopTaken
  <2>3. Partition' /\ LiveAreRuns' /\ Accounting' /\ NoWild'
    BY <1>2, <1>4
    DEF SafeInv, Partition, RunOf, LiveAreRuns, Accounting, NoWild, table
  <2> QED
    BY <1>1, <1>2, <2>1, <2>2, <2>3 DEF SafeInv
<1>5. ASSUME Reserving(region), Carve(b, e, RestEnd(size, b, e)),
             firmware' = firmware \cup b..e, UNCHANGED wild
      PROVE  SafeInv'
  <2>1. b \in Entries /\ e \in Entries /\ b <= e
    BY <1>2, <1>5, RegionArguments DEF SafeInv
  <2>2. TableOK /\ Partition /\ lastContig[b] = ListEnd
    BY <1>2, <1>5, IInvTable DEF SafeInv, BootAhead
  <2> DEFINE stop == RestEnd(size, b, e)
  <2>3. e <= lastContig[b] /\ CarveStop(b, e, stop) /\ Carve(b, e, stop)
    BY <1>5, <2>1, <2>2, EntriesAreNat, RestEndStops
  <2> HIDE DEF b, e, stop
  <2>4. Partition'
    BY <2>1, <2>2, <2>3, CarveKeepsPartition
  <2>5. Accounting'
    <3>1. \A i \in Entries : type'[i] = Resrv <=> i \in firmware'
      BY <1>2, <1>5, <2>1, <2>2, <2>3, CarveEffect DEF SafeInv, Accounting
    <3> QED
      BY <1>2, <3>1 DEF Accounting
  <2>6. BootAhead'
    <3> SUFFICES ASSUME NEW k \in 1..Len(memMap), k > booted',
                        Reserving(memMap[k])
                 PROVE  lastContig'[ReserveStart(memMap[k])] = ListEnd
      BY <1>2 DEF BootAhead
    <3>1. k > booted /\ booted + 1 < k
      BY <1>2
    <3>2. PICK n \in Entries : n = ReserveStart(memMap[k])
      BY RegionArguments DEF SafeInv
    <3>3. lastContig[n] = ListEnd
      BY <3>1, <3>2 DEF SafeInv, BootAhead
    <3>4. IF e = ListEnd THEN n >= b ELSE n > e
      <4>1. Follows(region, memMap[k])
        BY <1>2, <1>5, <3>1 DEF SafeInv, OrderlyMap
      <4> QED
        BY <3>2, <4>1 DEF Follows, b, e
    <3>5. n \in b..e \/ n \in (e + 1)..lastContig[b]
      BY <2>1, <2>2, <3>4, EntriesAreNat
    <3>6. n \in b..e => e = ListEnd
      BY <2>1, <3>4, EntriesAreNat
    <3> QED
      BY <2>1, <2>2, <2>3, <3>2, <3>5, <3>6, CarveEffect
  <2>7. TopTaken'
    <3>1. CASE ListEnd \in firmware
      BY <1>5, <3>1 DEF TopTaken
    <3>2. ASSUME NEW k \in 1..Len(memMap), k > booted, Reserving(memMap[k]),
                 LastReserved(memMap[k]) = ListEnd
          PROVE  TopTaken'
      <4>1. CASE k = booted + 1
        <5>1. e = ListEnd
          BY <3>2, <4>1 DEF e
        <5>2. ListEnd \in firmware'
          BY <1>5, <2>1, <5>1, EntriesAreNat
        <5> QED
          BY <5>2 DEF TopTaken
      <4>2. CASE k # booted + 1
        <5>1. k > booted'
          BY <1>2, <3>2, <4>2
        <5> QED
          BY <1>2, <3>2, <5>1 DEF TopTaken
      <4> QED
        BY <4>1, <4>2
    <3> QED
      BY <3>1, <3>2 DEF SafeInv, TopTaken
  <2> QED
    BY <1>1, <1>2, <1>5, <2>4, <2>5, <2>6, <2>7
    DEF SafeInv, LiveAreRuns, NoWild
<1> QED
  <2>1. Booting
    BY DEF BootEntry
  <2> HIDE DEF size, b, e
  <2>2. ~ (Reserving(region) /\ \E past \in PastEnd : ReserveRunsAway(size, b, e, past))
    BY <2>1, BootNeverRunsAway DEF size, b, e
  <2> QED
    BY <1>3, <1>4, <1>5, <2>2

-----------------------------------------------------------------------------
(* The walk of bestFit and the grants *)

\* bestFit only looks at entries that start a run
LEMMA VisitedStartRuns ==
  ASSUME TableOK, Partition, NEW h \in Visited
  PROVE  h \in Entries /\ h < ListEnd /\ firstContig[h] = h
<1> DEFINE S == {n \in Hops : firstContig[n] = n}
<1>1. h \in Entries /\ h < ListEnd
  BY HopsAreEntries DEF Visited
<1>2. 0 \in S
  BY FieldsAreEntries, EntriesAreNat, LayoutAssumption DEF Hops, ListEnd
<1>3. ASSUME NEW n \in S, lastContig[n] + 1 < ListEnd
      PROVE  lastContig[n] + 1 \in S
  <2>1. n \in Entries
    BY HopsAreEntries
  <2>2. lastContig[n] + 1 \in Hops
    BY <1>3, <2>1 DEF Hops
  <2>3. lastContig[n] + 1 \in Entries
    BY <1>3, <2>1, FieldsAreEntries, LayoutAssumption DEF Entries, ListEnd
  <2> QED
    BY <2>1, <2>2, <2>3, NextRunStarts
<1>4. WalkClosed(S) /\ S \in SUBSET Hops
  BY <1>2, <1>3 DEF WalkClosed
<1>5. h \in S
  <2> HIDE DEF S
  <2> QED
    BY <1>4 DEF Visited
<1> QED
  BY <1>1, <1>5, FieldsAreEntries

\* After the boot the last entry belongs to the firmware
LEMMA TopReserved ==
  ASSUME SafeInv, ~Booting
  PROVE  type[ListEnd] = Resrv
<1>1. \A k \in 1..Len(memMap) : ~ (k > booted)
  BY InputAssumption, LenProperties DEF SafeInv, IInv, TypeOK, Booting
<1>2. ListEnd \in firmware
  BY <1>1 DEF SafeInv, TopTaken
<1> QED
  BY <1>2, EntriesAreNat DEF SafeInv, Accounting

\* A grant lies in one free run, and takes it from its first block on
LEMMA GrantInHole ==
  ASSUME TableOK, Partition, NEW size \in Nat, Granted(size)
  PROVE  LET b == BestFit(size)
             e == AllocateEnd(size, b)
         IN  /\ b \in Entries /\ e \in Entries /\ b <= e
             /\ firstContig[b] = b /\ type[b] = Avail /\ e <= lastContig[b]
<1> DEFINE S == {e \in BestFit(size)..ListEnd :
                   size <= (e - BestFit(size) + 1) * BlockLength} \cup {ListEnd}
<1>1. PICK b \in Entries : b = BestFit(size)
  BY BestFitIsAHole, HolesInTable DEF Granted
<1>2. b \in Visited /\ type[b] = Avail /\ HoleSize(b) >= size
  BY <1>1, BestFitIsAHole DEF Granted, Holes
<1>3. firstContig[b] = b
  BY <1>2, VisitedStartRuns
<1>4. AllocateEnd(size, b) \in Entries /\ b <= AllocateEnd(size, b)
  BY AllocateEndInTable
<1>5. AllocateEnd(size, b) <= lastContig[b]
  <2>1. CASE size < BlockLength
    BY <2>1, FieldsAreEntries DEF AllocateEnd
  <2>2. CASE ~ (size < BlockLength)
    <3>1. S \subseteq b..ListEnd /\ b..ListEnd \subseteq Nat
      BY <1>1, EntriesAreNat
    <3>2. lastContig[b] \in S
      <4>1. HoleSize(b) = (lastContig[b] - b + 1) * BlockLength
        BY <1>3 DEF HoleSize
      <4>2. (lastContig[b] - b + 1) * BlockLength \in Int
        <5>1. lastContig[b] - b + 1 \in Int
          BY FieldsAreEntries
        <5> HIDE DEF S
        <5> QED
          BY <5>1, LayoutAssumption
      <4>3. size <= (lastContig[b] - b + 1) * BlockLength
        BY <1>2, <4>1, <4>2
      <4>4. lastContig[b] \in b..ListEnd
        BY FieldsAreEntries
      <4> QED
        BY <1>1, <4>3, <4>4
    <3>3. Min(S) <= lastContig[b]
      <4> HIDE DEF S
      <4> QED
        BY <3>1, <3>2, MinOfNat
    <3> QED
      BY <1>1, <2>2, <3>3 DEF AllocateEnd
  <2> QED
    BY <2>1, <2>2
<1> QED
  BY <1>1, <1>2, <1>3, <1>4, <1>5

LEMMA AllocateNeverRunsAway ==
  ASSUME SafeInv, Ready, NEW size \in Nat, Granted(size), NEW past
  PROVE  ~AllocateRunsAway(size, BestFit(size),
                           AllocateEnd(size, BestFit(size)), past)
<1>1. TableOK /\ Partition
  BY IInvTable DEF SafeInv
<1>2. PICK b, e \in Entries :
        /\ b = BestFit(size) /\ e = AllocateEnd(size, b) /\ b <= e
        /\ firstContig[b] = b /\ type[b] = Avail /\ e <= lastContig[b]
  BY <1>1, GrantInHole
<1>3. e \in RunOf(b) /\ lastContig[b] \in RunOf(b)
  BY <1>1, <1>2, FieldsAreEntries DEF RunOf
<1>4. firstContig[e] = b
  BY <1>1, <1>2, <1>3, SameRun
<1>5. lastContig[b] # ListEnd
  BY <1>1, <1>2, <1>3, SameRun, TopReserved, EntriesAreNat
  DEF Ready, Avail, Resrv
<1>6. e # ListEnd
  BY <1>1, <1>2, <1>5, FieldsAreEntries
<1> QED
  BY <1>2, <1>4, <1>6, EntriesAreNat DEF AllocateRunsAway, MissesBegin

LEMMA AllocateSafe ==
  ASSUME SafeInv, NEW size \in Nat, Allocate(size)
  PROVE  SafeInv'
<1> DEFINE b == BestFit(size)
           e == AllocateEnd(size, b)
           grant == [begin |-> b, end |-> e]
<1>1. Ready /\ TableOK /\ Partition
  BY IInvTable DEF SafeInv, Allocate
<1>2. IInv'
  BY AllocateStep DEF SafeInv
<1>3. /\ memMap' = memMap /\ booted' = booted /\ firmware' = firmware
      /\ ~Booting'
  BY DEF Allocate, Ready, Booting
<1>4. \/ UNCHANGED <<table, live, wild>>
      \/ /\ Granted(size)
         /\ Carve(b, e, RestEnd(size, b, e))
         /\ live' = live \cup {grant}
         /\ UNCHANGED wild
  BY <1>1, AllocateNeverRunsAway DEF Allocate
<1>5. TopTaken'
  BY <1>3 DEF SafeInv, TopTaken
<1>6. BootAhead'
  BY <1>2, <1>3, InputAssumption DEF BootAhead, IInv, TypeOK, Booting
<1>7. CASE UNCHANGED <<table, live, wild>>
  BY <1>2, <1>3, <1>5, <1>6, <1>7
  DEF SafeInv, Partition, RunOf, LiveAreRuns, Accounting, NoWild, table
<1>8. ASSUME Granted(size), Carve(b, e, RestEnd(size, b, e)),
             live' = live \cup {grant}, UNCHANGED wild
      PROVE  SafeInv'
  <2>1. /\ b \in Entries /\ e \in Entries /\ b <= e
        /\ firstContig[b] = b /\ type[b] = Avail /\ e <= lastContig[b]
    BY <1>1, <1>8, GrantInHole
  <2> DEFINE stop == RestEnd(size, b, e)
  <2>2. CarveStop(b, e, stop) /\ Carve(b, e, stop)
    BY <1>1, <1>8, <2>1, FieldsAreEntries, RestEndStops
  <2>3. grant.begin = b /\ grant.end = e /\ grant \in Runs
    BY <2>1 DEF Runs
  <2> HIDE DEF b, e, stop, grant
  <2>4. Partition'
    BY <1>1, <2>1, <2>2, CarveKeepsPartition
  <2>5. \A i \in b..e : i \in Entries /\ type[i] = Avail
    <3> SUFFICES ASSUME NEW i \in b..e PROVE i \in Entries /\ type[i] = Avail
      OBVIOUS
    <3>1. i \in Entries
      BY <2>1, RangeInTable
    <3>2. i \in RunOf(b)
      BY <1>1, <2>1, <3>1, FieldsAreEntries DEF RunOf
    <3> QED
      BY <1>1, <2>1, <3>1, <3>2, SameRun
  <2>6. \A run \in live : /\ run.begin \in Entries /\ run.end \in Entries
                         /\ run.begin <= run.end
                         /\ Blocks(run) \cap b..e = {}
                         /\ run.begin \notin RunOf(b)
    <3> SUFFICES ASSUME NEW run \in live
                 PROVE  /\ run.begin \in Entries /\ run.end \in Entries
                        /\ run.begin <= run.end
                        /\ Blocks(run) \cap b..e = {}
                        /\ run.begin \notin RunOf(b)
      OBVIOUS
    <3>1. /\ run.begin \in Entries /\ run.end \in Entries
          /\ run.begin <= run.end
      BY DEF SafeInv, IInv, TypeOK, Runs, LiveAreRuns
    <3>2. \A i \in Blocks(run) : i \in Entries /\ type[i] = Resrv
      BY <3>1, RangeInTable DEF SafeInv, Accounting, Blocks
    <3>3. Blocks(run) \cap b..e = {}
      BY <2>5, <3>2 DEF Avail, Resrv
    <3>4. run.begin \in Blocks(run)
      <4>1. run.begin \in Nat /\ run.end \in Nat
        BY <3>1, EntriesAreNat
      <4> QED
        BY <3>1, <4>1 DEF Blocks
    <3>5. run.begin \notin RunOf(b)
      BY <1>1, <2>1, <3>1, <3>2, <3>4, SameRun DEF Avail, Resrv
    <3> QED
      BY <3>1, <3>3, <3>5
  <2>7. LiveAreRuns'
    <3> SUFFICES ASSUME NEW run \in live'
                 PROVE  /\ run.begin <= run.end
                        /\ firstContig'[run.begin] = run.begin
                        /\ lastContig'[run.begin] = run.end
      BY DEF LiveAreRuns
    <3>1. CASE run = grant
      BY <1>1, <2>1, <2>2, <2>3, <3>1, CarveEffect, EntriesAreNat
    <3>2. CASE run \in live
      BY <1>1, <2>1, <2>2, <2>6, <3>2, CarveEffect DEF SafeInv, LiveAreRuns
    <3> QED
      BY <1>8, <3>1, <3>2
  <2>8. Blocks(grant) = b..e
    BY <2>3 DEF Blocks
  <2>9. Accounting'
    <3>1. \A i \in Entries :
            type'[i] = Resrv <=> i \in firmware' \/ \E run \in live' : i \in Blocks(run)
      <4> SUFFICES ASSUME NEW i \in Entries
                   PROVE  type'[i] = Resrv <=>
                            \/ i \in firmware'
                            \/ \E run \in live' : i \in Blocks(run)
        OBVIOUS
      <4>1. CASE i \in b..e
        <5>1. type'[i] = Resrv
          BY <1>1, <2>1, <2>2, <4>1, CarveEffect
        <5>2. grant \in live' /\ i \in Blocks(grant)
          BY <1>8, <2>8, <4>1
        <5> QED
          BY <5>1, <5>2
      <4>2. CASE i \notin b..e
        <5>1. type'[i] = type[i]
          BY <1>1, <2>1, <2>2, <4>2, CarveEffect
        <5>2. (\E run \in live' : i \in Blocks(run))
                <=> (\E run \in live : i \in Blocks(run))
          BY <1>8, <2>8, <4>2
        <5> QED
          BY <1>3, <5>1, <5>2 DEF SafeInv, Accounting
      <4> QED
        BY <4>1, <4>2
    <3>2. \A run \in live' : Blocks(run) \cap firmware' = {}
      <4>1. b..e \cap firmware = {}
        BY <2>5 DEF SafeInv, Accounting, Avail, Resrv
      <4> QED
        BY <1>3, <1>8, <2>8, <4>1 DEF SafeInv, Accounting
    <3>3. \A run, other \in live' :
            run # other => Blocks(run) \cap Blocks(other) = {}
      BY <1>8, <2>6, <2>8 DEF SafeInv, Accounting
    <3> QED
      BY <3>1, <3>2, <3>3 DEF Accounting, Blocks
  <2> QED
    BY <1>2, <1>3, <1>5, <1>6, <1>8, <2>4, <2>7, <2>9 DEF SafeInv, NoWild
<1> QED
  <2> HIDE DEF b, e, grant
  <2> QED
    BY <1>4, <1>7, <1>8

-----------------------------------------------------------------------------
(* The frees *)

SafeFree(address) ==
  FreesGrant(address) /\ SoundFree(lastContig[EntryOf(address)]) /\ Free(address)

\* The grant a legal free names, and what mm_free does with it
LEMMA SafeFreeReleases ==
  ASSUME SafeInv, NEW address \in Nat, SafeFree(address)
  PROVE  \E freed \in live :
           /\ freed.begin = EntryOf(address)
           /\ freed.begin \in Entries /\ freed.end \in Entries
           /\ firstContig[freed.begin] = freed.begin
           /\ lastContig[freed.begin] = freed.end
           /\ SoundFree(freed.end)
           /\ \/ UNCHANGED <<table, live, wild>>
              \/ /\ Release(freed.begin, freed.end,
                            MergeLeft(freed.begin), MergeRight(freed.end))
                 /\ live' = live \ {freed}
                 /\ UNCHANGED wild
<1>1. PICK freed \in live : freed.begin = EntryOf(address)
  BY DEF SafeFree, FreesGrant
<1>2. /\ freed.begin \in Entries /\ freed.end \in Entries
      /\ firstContig[freed.begin] = freed.begin
      /\ lastContig[freed.begin] = freed.end
  BY DEF SafeInv, IInv, TypeOK, Runs, LiveAreRuns
<1>3. SoundFree(freed.end)
  BY <1>1, <1>2 DEF SafeFree
<1>4. \A past : ~FreeRunsAway(freed.begin, past)
  <2>1. PICK last \in Nat : last = freed.end
    BY <1>2, EntriesAreNat
  <2>2. last + 1 # ListEnd
    BY <1>3, <2>1, EntriesAreNat DEF SoundFree
  <2> QED
    BY <1>2, <2>1, <2>2 DEF FreeRunsAway
<1>5. {run \in live : run.begin # freed.begin} = live \ {freed}
  <2>1. \A run \in live : run.begin = freed.begin => run = freed
    BY <1>2 DEF SafeInv, IInv, TypeOK, Runs, LiveAreRuns
  <2> QED
    BY <2>1
<1> QED
  BY <1>1, <1>2, <1>3, <1>4, <1>5 DEF SafeFree, Free

LEMMA FreeSafe ==
  ASSUME SafeInv, NEW address \in Nat, SafeFree(address)
  PROVE  SafeInv'
<1>1. Ready /\ TableOK /\ Partition
  BY IInvTable DEF SafeInv, SafeFree, Free
<1>2. IInv'
  BY FreeStep DEF SafeInv, SafeFree
<1>3. /\ memMap' = memMap /\ booted' = booted /\ firmware' = firmware
      /\ ~Booting'
  BY DEF SafeFree, Free, Ready, Booting
<1>4. TopTaken'
  BY <1>3 DEF SafeInv, TopTaken
<1>5. BootAhead'
  BY <1>2, <1>3, InputAssumption DEF BootAhead, IInv, TypeOK, Booting
<1>6. CASE UNCHANGED <<table, live, wild>>
  BY <1>2, <1>3, <1>4, <1>5, <1>6
  DEF SafeInv, Partition, RunOf, LiveAreRuns, Accounting, NoWild, table
<1>7. ASSUME NEW s \in Entries, NEW e \in Entries, NEW freed \in live,
             freed.begin = s, freed.end = e,
             firstContig[s] = s, lastContig[s] = e, SoundFree(e),
             Release(s, e, MergeLeft(s), MergeRight(e)),
             live' = live \ {freed}, UNCHANGED wild
      PROVE  SafeInv'
  <2>1. Partition'
    BY <1>1, <1>7, ReleaseKeepsPartition
  <2>2. s <= e /\ Blocks(freed) = s..e
    BY <1>1, <1>7, FieldsAreEntries DEF Blocks
  <2>3. \A i \in s..e : i \in MergeLeft(s)..MergeRight(e)
    <3>1. MergeLeft(s) <= s /\ e <= MergeRight(e)
      BY <1>1, <1>7, MergeBounds
    <3>2. PICK l, r \in Nat : l = MergeLeft(s) /\ r = MergeRight(e)
      BY <1>1, <1>7, MergeBounds, EntriesAreNat
    <3> QED
      BY <1>7, <3>1, <3>2, EntriesAreNat
  <2>4. \A i \in s..e : i \in Entries /\ type'[i] = Avail
    BY <1>1, <1>7, <2>3, RangeInTable, ReleaseEffect
  <2>5. \A i \in Entries : i \notin s..e => type'[i] = type[i]
    BY <1>1, <1>7, ReleaseEffect
  <2>6. \A run \in live' : run \in live /\ Blocks(run) \cap s..e = {}
    BY <1>7, <2>2 DEF SafeInv, Accounting
  <2>7. LiveAreRuns'
    <3> SUFFICES ASSUME NEW run \in live'
                 PROVE  /\ run.begin <= run.end
                        /\ firstContig'[run.begin] = run.begin
                        /\ lastContig'[run.begin] = run.end
      BY DEF LiveAreRuns
    <3>1. /\ run.begin \in Entries /\ run.begin \in Nat /\ run.end \in Nat
          /\ run.begin <= run.end
          /\ firstContig[run.begin] = run.begin
          /\ lastContig[run.begin] = run.end
      BY <2>6, EntriesAreNat DEF SafeInv, IInv, TypeOK, Runs, LiveAreRuns
    <3>2. run.begin \in Blocks(run)
      BY <3>1 DEF Blocks
    <3>3. type[run.begin] = Resrv /\ run.begin \notin s..e
      BY <2>6, <3>1, <3>2 DEF SafeInv, Accounting
    <3>4. run.begin \notin MergeLeft(s)..MergeRight(e)
      BY <1>1, <1>7, <2>5, <3>1, <3>3, ReleaseEffect DEF Avail, Resrv
    <3> QED
      BY <1>1, <1>7, <3>1, <3>4, ReleaseEffect
  <2>8. Accounting'
    <3>1. \A i \in Entries :
            type'[i] = Resrv <=> i \in firmware' \/ \E run \in live' : i \in Blocks(run)
      <4> SUFFICES ASSUME NEW i \in Entries
                   PROVE  type'[i] = Resrv <=>
                            \/ i \in firmware'
                            \/ \E run \in live' : i \in Blocks(run)
        OBVIOUS
      <4>1. CASE i \in s..e
        <5>1. i \notin firmware'
          BY <1>3, <2>2, <4>1 DEF SafeInv, Accounting
        <5> QED
          BY <2>4, <2>6, <4>1, <5>1 DEF Avail, Resrv
      <4>2. CASE i \notin s..e
        <5>1. (\E run \in live' : i \in Blocks(run))
                <=> (\E run \in live : i \in Blocks(run))
          BY <1>7, <2>2, <4>2
        <5> QED
          BY <1>3, <2>5, <4>2, <5>1 DEF SafeInv, Accounting
      <4> QED
        BY <4>1, <4>2
    <3> QED
      BY <1>3, <2>6, <3>1 DEF SafeInv, Accounting, Blocks
  <2> QED
    BY <1>2, <1>3, <1>4, <1>5, <1>7, <2>1, <2>7, <2>8 DEF SafeInv, NoWild
<1> QED
  BY <1>6, <1>7, SafeFreeReleases

LEMMA NextSafeInv == SafeInv /\ [SafeNext]_vars => SafeInv'
<1> SUFFICES ASSUME SafeInv, [SafeNext]_vars PROVE SafeInv'
  OBVIOUS
<1>1. CASE BootEntry
  BY <1>1, BootEntrySafe
<1>2. CASE \E size \in Sizes : Allocate(size)
  BY <1>2, InputAssumption, AllocateSafe
<1>3. CASE \E address \in Addresses : SafeFree(address)
  BY <1>3, InputAssumption, FreeSafe
<1>4. CASE UNCHANGED vars
  BY <1>4 DEF vars, SafeInv, IInv, TypeOK, WalkAdvances, NoWild, Partition, RunOf,
              LiveAreRuns, Accounting, Booting, BootAhead, TopTaken
<1> QED
  BY <1>1, <1>2, <1>3, <1>4 DEF SafeNext, SafeFree

LEMMA SafeInvariant == SafeSpec => []SafeInv
BY InitSafeInv, NextSafeInv, PTL DEF SafeSpec

-----------------------------------------------------------------------------
(***************************************************************************)
(* Under SafeSpec the runs partition the table (kern_mem.c:72-292).        *)
(***************************************************************************)
THEOREM RunsPartition == SafeSpec => []Partition
<1>1. SafeInv => Partition
  BY DEF SafeInv
<1> QED
  BY SafeInvariant, <1>1, PTL

(***************************************************************************)
(* Under SafeSpec each grant stays exactly one run, so that mm_free frees  *)
(* what mm_allocate granted.                                               *)
(***************************************************************************)
THEOREM GrantsAreRuns == SafeSpec => []LiveAreRuns
<1>1. SafeInv => LiveAreRuns
  BY DEF SafeInv
<1> QED
  BY SafeInvariant, <1>1, PTL

(***************************************************************************)
(* Under SafeSpec no block is lost and none is given away twice.           *)
(***************************************************************************)
THEOREM BlocksAccounted == SafeSpec => []Accounting
<1>1. SafeInv => Accounting
  BY DEF SafeInv
<1> QED
  BY SafeInvariant, <1>1, PTL

(***************************************************************************)
(* Under SafeSpec no loop of the memory manager leaves the table.          *)
(***************************************************************************)
THEOREM NeverWild == SafeSpec => []NoWild
<1>1. SafeInv => NoWild
  BY DEF SafeInv
<1> QED
  BY SafeInvariant, <1>1, PTL

-----------------------------------------------------------------------------
(* bestFit misses no run *)

LEMMA WalkClosedVisited ==
  ASSUME TableOK, NEW h \in Visited, lastContig[h] + 1 < ListEnd
  PROVE  lastContig[h] + 1 \in Visited
<1>1. h \in Hops /\ h < ListEnd /\ h \in Entries
  BY HopsAreEntries DEF Visited
<1>2. lastContig[h] + 1 \in Hops
  BY <1>1 DEF Hops
<1>3. \A S \in SUBSET Hops : WalkClosed(S) => lastContig[h] + 1 \in S
  <2> SUFFICES ASSUME NEW S \in SUBSET Hops, WalkClosed(S)
               PROVE  lastContig[h] + 1 \in S
    OBVIOUS
  <2>1. h \in S
    BY DEF Visited
  <2> QED
    BY <1>1, <2>1 DEF WalkClosed
<1> QED
  BY <1>2, <1>3 DEF Visited

\* The first missed start of a run would follow a run that is visited
LEMMA WalkVisitsRuns ==
  ASSUME TableOK, Partition
  PROVE  \A h \in Entries : h < ListEnd /\ firstContig[h] = h => h \in Visited
<1> DEFINE missed == {h \in Entries : /\ h < ListEnd /\ firstContig[h] = h
                                     /\ h \notin Visited}
<1> SUFFICES ASSUME missed # {} PROVE FALSE
  OBVIOUS
<1>1. missed \subseteq Nat
  BY EntriesAreNat
<1>2. PICK h \in missed : \A n \in missed : h <= n
  <2> HIDE DEF missed
  <2> QED
    BY <1>1, MinOfNat
<1>3. h \in Entries /\ h \in Nat /\ h < ListEnd /\ firstContig[h] = h
  BY <1>2, EntriesAreNat
<1>4. CASE h = 0
  <2>1. 0 \in Visited
    BY <1>3, <1>4 DEF Visited, Hops, WalkClosed
  <2> QED
    BY <1>2, <1>4, <2>1
<1>5. CASE h # 0
  <2>1. h - 1 \in Entries /\ lastContig[h - 1] = h - 1
    BY <1>3, <1>5, PreviousRunEnds
  <2>2. PICK g \in Entries : g = firstContig[h - 1]
    BY <2>1, FieldsAreEntries
  <2>3. g \in RunOf(h - 1)
    BY <2>1, <2>2, FieldsAreEntries DEF RunOf
  <2>4. firstContig[g] = g /\ lastContig[g] = h - 1 /\ g < h
    BY <1>3, <2>1, <2>2, <2>3, SameRun, FieldsAreEntries
  <2>5. g \notin missed
    BY <1>2, <1>3, <2>4, EntriesAreNat
  <2>6. g \in Visited
    BY <1>3, <2>4, <2>5, EntriesAreNat
  <2>7. lastContig[g] + 1 = h
    BY <1>3, <2>4
  <2>8. h \in Visited
    BY <1>3, <2>6, <2>7, WalkClosedVisited
  <2> QED
    BY <1>2, <2>8
<1> QED
  BY <1>4, <1>5

(***************************************************************************)
(* Under SafeSpec bestFit grants a request whenever some free run is long  *)
(* enough, and from a smallest such run (kern_mem.c:541-572).              *)
(***************************************************************************)
THEOREM BestFitSearches == SafeSpec => []BestFitIsBest
<1>1. ASSUME SafeInv PROVE BestFitIsBest
  <2> SUFFICES ASSUME Ready, NEW size \in Sizes \ {0}
               PROVE  LET fits == {h \in FreeRuns : HoleSize(h) >= size} IN
                      /\ Holes(size) = fits
                      /\ fits # {} => /\ BestFit(size) \in fits
                                      /\ \A h \in fits :
                                           HoleSize(BestFit(size)) <= HoleSize(h)
    BY DEF BestFitIsBest
  <2>1. TableOK /\ Partition /\ size \in Nat /\ type[ListEnd] = Resrv
    BY <1>1, IInvTable, InputAssumption, TopReserved DEF SafeInv, Ready
  <2>2. \A h \in Visited : h \in Entries /\ firstContig[h] = h
    BY <2>1, VisitedStartRuns
  <2>3. \A h \in FreeRuns : h \in Visited
    <3> SUFFICES ASSUME NEW h \in FreeRuns PROVE h \in Visited
      OBVIOUS
    <3>1. h \in Entries /\ firstContig[h] = h /\ h # ListEnd
      BY <2>1 DEF FreeRuns, Avail, Resrv
    <3>2. h < ListEnd
      BY <3>1, EntriesAreNat
    <3> QED
      BY <2>1, <3>1, <3>2, WalkVisitsRuns
  <2>4. Holes(size) = {h \in FreeRuns : HoleSize(h) >= size}
    BY <2>2, <2>3 DEF Holes, FreeRuns
  <2>5. Holes(size) # {} =>
          /\ BestFit(size) \in Holes(size)
          /\ \A h \in Holes(size) : HoleSize(BestFit(size)) <= HoleSize(h)
    BY <2>1, BestFitIsAHole
  <2> QED
    BY <2>4, <2>5
<1> QED
  BY SafeInvariant, <1>1, PTL

-----------------------------------------------------------------------------
(* The abstract heap *)

LEMMA RunsAreRanges ==
  /\ Runs = Owners!Ranges
  /\ Entries = Owners!AllBlocks
BY DEF Runs, Owners!Ranges, Entries, Owners!AllBlocks

LEMMA BootRefines ==
  ASSUME SafeInv, BootEntry
  PROVE  Owners!HeapNext \/ UNCHANGED <<live, firmware>>
<1> DEFINE region == memMap[booted + 1]
           b == ReserveStart(region)
           e == LastReserved(region)
<1>1. live = {} /\ live' = live
  BY DEF SafeInv, BootEntry
<1>2. booted + 1 \in 1..Len(memMap)
  BY InputAssumption, LenProperties DEF BootEntry, SafeInv, IInv, TypeOK, Booting
<1>3. \/ UNCHANGED firmware
      \/ Reserving(region) /\ firmware' = firmware \cup b..e
  BY DEF BootEntry, ReserveAt, Reserving, LastReserved
<1>4. CASE Reserving(region) /\ firmware' = firmware \cup b..e
  <2>1. b \in Entries /\ e \in Entries
    BY <1>2, <1>4, RegionArguments DEF SafeInv
  <2>2. b..e \in SUBSET Owners!AllBlocks
    BY <2>1, RangeInTable, RunsAreRanges
  <2>3. Owners!Withhold(b..e)
    BY <1>1, <1>4 DEF Owners!Withhold
  <2> QED
    BY <2>2, <2>3 DEF Owners!HeapNext
<1> QED
  BY <1>1, <1>3, <1>4

LEMMA AllocateRefines ==
  ASSUME SafeInv, NEW size \in Sizes, Allocate(size)
  PROVE  Owners!HeapNext \/ UNCHANGED <<live, firmware>>
<1> DEFINE grant == [begin |-> BestFit(size),
                     end   |-> AllocateEnd(size, BestFit(size))]
<1>1. UNCHANGED firmware
  BY DEF Allocate
<1>2. \/ UNCHANGED live
      \/ Granted(size) /\ live' = live \cup {grant}
  BY DEF Allocate
<1>3. CASE Granted(size) /\ live' = live \cup {grant}
  <2>1. TableOK /\ Partition /\ size \in Nat
    BY IInvTable, InputAssumption DEF SafeInv
  <2>2. PICK b, e \in Entries :
          /\ b = BestFit(size) /\ e = AllocateEnd(size, b) /\ b <= e
          /\ firstContig[b] = b /\ type[b] = Avail /\ e <= lastContig[b]
    BY <1>3, <2>1, GrantInHole
  <2>3. grant \in Owners!Ranges /\ Owners!BlocksOf(grant) = b..e
    BY <2>2, RunsAreRanges DEF Runs, Owners!BlocksOf
  <2>4. \A i \in b..e : i \in Entries /\ type[i] = Avail
    <3> SUFFICES ASSUME NEW i \in b..e PROVE i \in Entries /\ type[i] = Avail
      OBVIOUS
    <3>1. i \in Entries
      BY RangeInTable
    <3>2. i \in RunOf(b)
      BY <2>1, <2>2, <3>1, FieldsAreEntries DEF RunOf
    <3> QED
      BY <2>1, <2>2, <3>1, <3>2, SameRun
  <2>5. b..e # {}
    BY <2>2, EntriesAreNat
  <2>6. \A i \in b..e : i \notin firmware /\ \A run \in live : i \notin Blocks(run)
    BY <2>4 DEF SafeInv, Accounting, Avail, Resrv
  <2>7. Owners!Free(grant)
    BY <2>3, <2>5, <2>6 DEF Owners!Free, Owners!BlocksOf, Blocks
  <2> QED
    BY <1>1, <1>3, <2>3, <2>7 DEF Owners!HeapNext, Owners!Grant
<1> QED
  BY <1>1, <1>2, <1>3

LEMMA FreeRefines ==
  ASSUME SafeInv, NEW address \in Nat, SafeFree(address)
  PROVE  Owners!HeapNext \/ UNCHANGED <<live, firmware>>
<1>1. UNCHANGED firmware
  BY DEF SafeFree, Free
<1>2. PICK freed \in live : live' = live \/ live' = live \ {freed}
  BY SafeFreeReleases
<1>3. freed \in Owners!Ranges
  BY RunsAreRanges DEF SafeInv, IInv, TypeOK
<1>4. CASE live' = live \ {freed}
  BY <1>1, <1>3, <1>4 DEF Owners!HeapNext, Owners!GiveBack
<1> QED
  BY <1>1, <1>2, <1>4

(***************************************************************************)
(* Under SafeSpec the memory manager implements the abstract heap, with    *)
(* the grants as the owned ranges and the blocks reserved at boot as the   *)
(* withheld ones.                                                          *)
(***************************************************************************)
THEOREM ImplementsHeap == SafeSpec => HeapRefined
<1>1. SafeInit => Owners!HeapInit
  BY DEF SafeInit, Init, Owners!HeapInit
<1>2. SafeInv /\ [SafeNext]_vars => [Owners!HeapNext]_(Owners!heapVars)
  <2> SUFFICES ASSUME SafeInv, [SafeNext]_vars
               PROVE  Owners!HeapNext \/ UNCHANGED <<live, firmware>>
    BY DEF Owners!heapVars
  <2>1. CASE BootEntry
    BY <2>1, BootRefines
  <2>2. CASE \E size \in Sizes : Allocate(size)
    BY <2>2, AllocateRefines
  <2>3. CASE \E address \in Addresses : SafeFree(address)
    BY <2>3, InputAssumption, FreeRefines
  <2>4. CASE UNCHANGED vars
    BY <2>4 DEF vars
  <2> QED
    BY <2>1, <2>2, <2>3, <2>4 DEF SafeNext, SafeFree
<1> QED
  BY SafeInvariant, <1>1, <1>2, PTL DEF SafeSpec, HeapRefined, Owners!HeapSpec

-----------------------------------------------------------------------------
(* What the boot reserves *)

LEMMA Products ==
  ASSUME NEW a \in Int, NEW c \in Int, NEW m \in Nat \ {0}
  PROVE  /\ a * m \in Int
         /\ (a + 1) * m = a * m + m
         /\ (a - c) * m = a * m - c * m
         /\ a < c <=> a * m < c * m
         /\ a <= c <=> a * m <= c * m
<1>1. /\ a * m \in Int /\ c * m \in Int
      /\ (a + 1) * m = a * m + m /\ (c + 1) * m = c * m + m
      /\ (a - c) * m = a * m - c * m
  OBVIOUS
<1>2. a < c => a * m + m <= c * m
  OBVIOUS
<1>3. c < a => c * m + m <= a * m
  OBVIOUS
<1> QED
  BY <1>1, <1>2, <1>3

LEMMA Quotient ==
  ASSUME NEW a \in Nat, NEW m \in Nat \ {0}
  PROVE  /\ a \div m \in Nat
         /\ (a \div m) * m <= a /\ a < (a \div m) * m + m
         /\ a % m = 0 => a = (a \div m) * m
         /\ a < m => a % m = a
OBVIOUS

LEMMA ExactQuotient ==
  ASSUME NEW a \in Nat, NEW m \in Nat \ {0}
  PROVE  (a * m) \div m = a
<1>1. PICK q \in Nat : q = (a * m) \div m /\ q * m <= a * m /\ a * m < q * m + m
  <2>1. a * m \in Nat
    OBVIOUS
  <2> QED
    BY <2>1, Quotient
<1>2. q <= a /\ (q + 1) * m = q * m + m /\ (a < q + 1 <=> a * m < (q + 1) * m)
  BY <1>1, Products
<1> QED
  BY <1>1, <1>2

\* A region of n whole blocks from b on has its countdown end at the last
LEMMA WholeCountdown ==
  ASSUME NEW b \in Entries, NEW n \in Nat \ {0}, b + n <= NumEntries,
         BlockLength > 1
  PROVE  /\ ~NothingToReserve(n * BlockLength, b)
         /\ ReserveEnd(n * BlockLength, b) = b + n - 1
<1> DEFINE B == BlockLength
<1>1. B \in Nat /\ B > 1 /\ WordMod \in Nat \ {0} /\ NumEntries \in Nat /\ MemStart \in Nat \ {0}
  BY LayoutAssumption
<1>2. b \in Nat /\ ListEnd = NumEntries - 1
  BY EntriesAreNat DEF ListEnd
<1>3. n * B < WordMod /\ n * B \in Nat /\ n * B >= B
  <2>1. n * B <= NumEntries * B /\ 1 * B <= n * B /\ n * B \in Int /\ NumEntries * B \in Int
    BY <1>1, <1>2, Products
  <2>2. NumEntries * B + MemStart <= WordMod
    BY <1>1, <2>1, AddressAssumption DEF Limit
  <2> HIDE DEF B
  <2>3. PICK x, y \in Int : x = n * B /\ y = NumEntries * B
    BY <2>1
  <2> QED
    BY <1>1, <2>1, <2>2, <2>3
<1> HIDE DEF B
<1>4. ~NothingToReserve(n * B, b)
  <2>1. (n * B) \div B = n
    BY <1>1, ExactQuotient
  <2>2. PICK q \in Nat : q = n \div B /\ q * B <= n
    BY <1>1, Quotient
  <2>3. q <= n - 1
    <3>1. q * 2 <= q * B
      BY <1>1, <2>2
    <3>2. q * B \in Int
      BY <1>1, <2>2
    <3> QED
      BY <2>2, <3>1, <3>2
  <2>4. ~ (n * B = 0) /\ ~ (b > ListEnd) /\ ~ (b + q > ListEnd)
    BY <1>1, <1>2, <1>3, <2>2, <2>3
  <2> QED
    BY <2>1, <2>2, <2>4 DEF NothingToReserve, B
<1>5. ReserveEnd(n * B, b) = b + n - 1
  <2> DEFINE S == {e \in b..ListEnd : (n * B - (e - b + 1) * B) % WordMod = 0} \cup {ListEnd}
  <2>1. b + n - 1 \in S
    <3>1. b + n - 1 \in b..ListEnd /\ (b + n - 1) - b + 1 = n
      BY <1>1, <1>2
    <3>2. (n * B - n * B) % WordMod = 0
      BY <1>1, <1>3
    <3> QED
      BY <3>1, <3>2
  <2>2. ASSUME NEW e \in S PROVE b + n - 1 <= e
    <3> SUFFICES ASSUME e \in b..ListEnd, (n * B - (e - b + 1) * B) % WordMod = 0,
                        e < b + n - 1
                 PROVE  FALSE
      BY <1>1, <1>2, <2>2
    <3>1. PICK k \in Int : k = e - b + 1 /\ 1 <= k /\ k < n
      BY <1>1, <1>2
    <3>2. k * B \in Int /\ k * B < n * B /\ 0 < k * B
      <4>1. k * B < n * B /\ k * B \in Int
        BY <1>1, <3>1, Products
      <4>2. 0 * B < k * B /\ 0 * B = 0
        BY <1>1, <3>1, Products
      <4> QED
        BY <4>1, <4>2
    <3>3. PICK d \in Nat \ {0} : d = n * B - k * B /\ d < WordMod
      BY <1>1, <1>3, <3>2
    <3>4. d % WordMod = d
      BY <1>1, <3>3, Quotient
    <3> QED
      BY <3>1, <3>3, <3>4
  <2>3. S \subseteq Nat
    BY <1>1, <1>2
  <2>4. PICK x : x = Min(S)
    OBVIOUS
  <2>5. x \in S /\ x <= b + n - 1
    BY <2>1, <2>3, <2>4, MinOfNat
  <2>6. x = b + n - 1
    BY <1>1, <1>2, <2>2, <2>3, <2>5
  <2>7. ~ (n * B < B)
    BY <1>1, <1>3
  <2>8. ReserveEnd(n * B, b) = Min(S)
    BY <2>7, Zenon DEF ReserveEnd, B
  <2> QED
    BY <2>4, <2>6, <2>8, Zenon
<1> QED
  BY <1>4, <1>5 DEF B

\* The blocks a region of whole blocks touches are those mm_reserveat counts
LEMMA RegionExact ==
  ASSUME NEW region \in [base : Nat, length : Nat, type : Nat],
         WholeBlocks(region), NEW i \in Entries
  PROVE  Touches(region, i) <=>
           Reserving(region) /\ i \in ReserveStart(region)..LastReserved(region)
<1> DEFINE B == BlockLength
           M == MemStart
           base == region.base
           length == region.length
<1>1. CASE Skipped(region)
  BY <1>1 DEF Touches, Reserving
<1>2. CASE ~Skipped(region)
  <2>1. /\ base \in Nat /\ length \in Nat /\ i \in Nat
        /\ B \in Nat /\ B > 1 /\ M \in Nat \ {0} /\ WordMod \in Nat \ {0} /\ NumEntries \in Nat
    BY <1>2, LayoutAssumption, EntriesAreNat DEF WholeBlocks
  <2>2. /\ base + length > M /\ base + length <= M + NumEntries * B
        /\ base < M \/ (base - M) % B = 0
        /\ (base + length - M) % B = 0
    BY <1>2, <2>1 DEF WholeBlocks, Skipped, Limit
  <2>3. NumEntries * B \in Nat /\ M + NumEntries * B <= WordMod
    BY <2>1, AddressAssumption DEF Limit
  <2> HIDE DEF B, M, base, length
  <2>4. PICK last \in Nat : base + length - M = last * B
    <3>1. PICK d \in Nat : d = base + length - M
      BY <2>1, <2>2
    <3>2. d % B = 0
      BY <2>1, <2>2, <3>1
    <3>3. d \div B \in Nat /\ d = (d \div B) * B
      BY <2>1, <3>1, <3>2, Quotient
    <3> QED
      BY <3>1, <3>3, Zenon
  <2>5. PICK from \in Nat : IF base < M THEN from = 0 ELSE base - M = from * B
    <3>1. CASE base < M
      BY <3>1
    <3>2. CASE ~ (base < M)
      <4>1. PICK d \in Nat : d = base - M
        BY <2>1, <3>2
      <4>2. d % B = 0
        BY <2>2, <3>2, <4>1
      <4>3. d \div B \in Nat /\ d = (d \div B) * B
        BY <2>1, <4>1, <4>2, Quotient
      <4>4. PICK q \in Nat : d = q * B
        BY <4>3, Zenon
      <4> QED
        BY <3>2, <4>1, <4>4
    <3> QED
      BY <3>1, <3>2
  <2>6. PICK fb, lb, n \in Nat : /\ fb = from * B /\ lb = last * B
                                /\ n = last - from
                                /\ last <= NumEntries /\ last > 0
    <3>1. /\ from * B \in Nat /\ last * B \in Nat
          /\ 0 * B = 0 /\ 0 < last * B /\ last * B <= NumEntries * B
          /\ from * B <= last * B
      <4>1. from * B \in Nat /\ last * B \in Nat /\ 0 * B = 0
        BY <2>1
      <4>2. PICK x, y, z \in Nat : x = from * B /\ y = last * B /\ z = NumEntries * B
        BY <2>3, <4>1
      <4>3. 0 < y /\ y <= z
        BY <2>1, <2>2, <2>4, <4>2
      <4>4. x <= y
        <5>1. CASE base < M
          <6>1. from = 0
            BY <2>5, <5>1
          <6>2. x = 0
            BY <4>1, <4>2, <6>1
          <6> QED
            BY <6>2
        <5>2. CASE ~ (base < M)
          BY <2>1, <2>4, <2>5, <4>2, <5>2
        <5> QED
          BY <5>1, <5>2
      <4> QED
        BY <4>1, <4>2, <4>3, <4>4
    <3>2. from <= last /\ last <= NumEntries /\ 0 < last
      BY <2>1, <3>1, Products
    <3> QED
      BY <3>1, <3>2
  <2>7. Touches(region, i) <=> from <= i /\ i < last
    <3>1. PICK ib \in Nat : ib = i * B /\ (i + 1) * B = ib + B
      BY <2>1, Products
    <3>2. /\ last > i <=> lb > ib
          /\ from < i + 1 <=> fb < ib + B
      BY <2>1, <2>6, <3>1, Products
    <3>3. base + length > M + ib <=> lb > ib
      BY <2>1, <2>4, <2>6, <3>1
    <3>4. base < M + (ib + B) <=> fb < ib + B
      <4>1. CASE base < M
        <5>1. fb = 0
          BY <2>1, <2>5, <2>6, <4>1
        <5> QED
          BY <2>1, <3>1, <4>1, <5>1
      <4>2. CASE ~ (base < M)
        BY <2>1, <2>5, <2>6, <3>1, <4>2
      <4> QED
        BY <4>1, <4>2
    <3>5. Touches(region, i) <=> base < M + (ib + B) /\ base + length > M + ib
      BY <1>2, <3>1 DEF Touches, base, length, B, M
    <3> QED
      BY <2>1, <2>6, <3>2, <3>3, <3>4, <3>5
  <2>8. ReserveLength(region) = n * B
    <3>1. PICK s \in Nat : /\ s = lb - fb
                           /\ s = IF base < M THEN length - (M - base) ELSE length
      <4>1. CASE base < M
        <5>1. fb = 0
          BY <2>1, <2>5, <2>6, <4>1
        <5> QED
          BY <2>1, <2>4, <2>6, <4>1, <5>1
      <4>2. CASE ~ (base < M)
        BY <2>1, <2>4, <2>5, <2>6, <4>2
      <4> QED
        BY <4>1, <4>2
    <3>2. s < WordMod
      <4>1. PICK z \in Nat : z = NumEntries * B
        BY <2>3
      <4> QED
        BY <2>1, <2>2, <2>3, <3>1, <4>1
    <3>3. s % WordMod = s
      BY <2>1, <3>1, <3>2, Quotient
    <3>4. n * B = s
      BY <2>1, <2>6, <3>1, Products
    <3> QED
      BY <3>1, <3>3, <3>4 DEF ReserveLength, base, length, M
  <2>9. from < last => ReserveStart(region) = from
    <3> SUFFICES ASSUME from < last PROVE ReserveStart(region) = from
      OBVIOUS
    <3>1. CASE base < M
      <4>1. EntryOf(M) = 0
        <5>1. M - M = 0 /\ 0 % WordMod = 0
          BY <2>1
        <5>2. (0 * B) \div B = 0 /\ 0 * B = 0
          BY <2>1, ExactQuotient
        <5> QED
          BY <5>1, <5>2 DEF EntryOf, M, B
      <4> QED
        BY <2>5, <3>1, <4>1 DEF ReserveStart, base, M
    <3>2. CASE ~ (base < M)
      <4>1. base < WordMod /\ fb < WordMod
        <5>1. fb < lb
          BY <2>1, <2>6, Products
        <5>2. PICK z \in Nat : z = NumEntries * B
          BY <2>3
        <5> QED
          BY <2>1, <2>2, <2>3, <2>4, <2>5, <2>6, <3>2, <5>1, <5>2
      <4>2. base % WordMod = base /\ fb % WordMod = fb
        BY <2>1, <2>6, <4>1, Quotient
      <4>3. EntryOf(base) = fb \div B
        BY <2>5, <2>6, <3>2, <4>2 DEF EntryOf, M, B
      <4>4. fb \div B = from
        BY <2>1, <2>6, ExactQuotient
      <4> QED
        BY <3>2, <4>2, <4>3, <4>4 DEF ReserveStart, base, M
    <3> QED
      BY <3>1, <3>2
  <2>10. CASE from < last
    <3>1. from \in Entries /\ n \in Nat \ {0} /\ from + n <= NumEntries /\ from + n - 1 = last - 1
      BY <2>1, <2>6, <2>10 DEF Entries
    <3>2. /\ ~NothingToReserve(n * B, from)
          /\ ReserveEnd(n * B, from) = from + n - 1
      BY <2>1, <3>1, WholeCountdown DEF B
    <3>3. Reserving(region)
      BY <1>2, <2>8, <2>9, <2>10, <3>2 DEF Reserving
    <3>4. LastReserved(region) = last - 1
      BY <2>8, <2>9, <2>10, <3>1, <3>2 DEF LastReserved
    <3>5. i \in from..(last - 1) <=> from <= i /\ i < last
      BY <2>1
    <3> QED
      BY <2>7, <2>9, <2>10, <3>3, <3>4, <3>5
  <2>11. CASE ~ (from < last)
    <3>1. n = 0 /\ ~ (from <= i /\ i < last)
      BY <2>1, <2>6, <2>11
    <3>2. n * B = 0
      BY <2>1, <3>1
    <3>3. ~Reserving(region)
      BY <2>8, <3>2 DEF Reserving, NothingToReserve
    <3> QED
      BY <2>7, <3>1, <3>3
  <2> QED
    BY <2>10, <2>11
<1> QED
  BY <1>1, <1>2

(***************************************************************************)
(* Under SafeSpec prepare_memory_manager (kern_mem.c:519-537) reserves,    *)
(* for regions of whole blocks, exactly the blocks they touch.             *)
(***************************************************************************)
THEOREM BootReservesExactly == SafeSpec => []ReservedExactly
<1>1. SafeInit => ReservedExactly
  BY DEF SafeInit, Init, ReservedExactly
<1>2. ASSUME SafeInv, ReservedExactly, BootEntry, SafeInv' PROVE ReservedExactly'
  <2> DEFINE region == memMap[booted + 1]
             reserved == IF Reserving(region)
                         THEN ReserveStart(region)..LastReserved(region) ELSE {}
  <2>1. /\ memMap' = memMap /\ booted' = booted + 1 /\ booted \in Nat /\ ~wild'
        /\ booted + 1 \in 1..Len(memMap)
    BY <1>2, InputAssumption, LenProperties
    DEF BootEntry, SafeInv, NoWild, IInv, TypeOK, Booting
  <2>2. region \in [base : Nat, length : Nat, type : Nat]
    <3>1. memMap \in Seq([base : Nat, length : Nat, type : Nat])
      BY <1>2, InputAssumption DEF SafeInv, IInv, TypeOK
    <3> QED
      BY <2>1, <3>1, ElementOfSeq
  <2>3. firmware' = firmware \cup reserved
    BY <1>2, <2>1 DEF BootEntry, ReserveAt, Reserving, LastReserved
  <2>4. reserved \subseteq Entries
    <3>1. CASE Reserving(region)
      BY <1>2, <2>1, <3>1, RegionArguments, RangeInTable DEF SafeInv
    <3> QED
      BY <3>1
  <2> SUFFICES ASSUME \A k \in 1..(booted + 1) : WholeBlocks(memMap[k])
               PROVE  firmware' = {i \in Entries :
                                    \E k \in 1..(booted + 1) : Touches(memMap[k], i)}
    BY <2>1 DEF ReservedExactly, WholeBlocks, Touches, Skipped
  <2>5. \A k \in 1..booted : k \in 1..(booted + 1)
    BY <2>1
  <2>6. firmware = {i \in Entries : \E k \in 1..booted : Touches(memMap[k], i)}
    BY <1>2, <2>5 DEF ReservedExactly
  <2>7. \A i \in Entries : Touches(region, i) <=> i \in reserved
    <3>1. WholeBlocks(region)
      BY <2>1
    <3> HIDE DEF region
    <3> QED
      BY <2>2, <3>1, RegionExact
  <2>8. \A k : k \in 1..(booted + 1) <=> k \in 1..booted \/ k = booted + 1
    BY <2>1
  <2> HIDE DEF reserved
  <2> QED
    BY <2>3, <2>4, <2>6, <2>7, <2>8
<1>3. ASSUME SafeInv, ReservedExactly, [SafeNext]_vars, SafeInv' PROVE ReservedExactly'
  <2>1. CASE BootEntry
    BY <1>2, <1>3, <2>1
  <2>2. CASE UNCHANGED <<memMap, booted, firmware>>
    BY <1>3, <2>2 DEF ReservedExactly
  <2>3. BootEntry \/ UNCHANGED <<memMap, booted, firmware>>
    BY <1>3 DEF SafeNext, Allocate, Free, vars
  <2> QED
    BY <2>1, <2>2, <2>3
<1> QED
  BY SafeInvariant, <1>1, <1>3, PTL DEF SafeSpec
=============================================================================
