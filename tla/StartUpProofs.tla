---------------------------- MODULE StartUpProofs ----------------------------
(***************************************************************************)
(* What holds of start-up for every computer, layout and user: the layout  *)
(* of memory is sound, the heap keeps its promises while start-up is       *)
(* quiet, and what is in the buffers of the filesystem is on the disk.     *)
(***************************************************************************)
EXTENDS StartUp, KernMemSafeProofs, PciProofs

-----------------------------------------------------------------------------
(* The arithmetic of prepare_memory_manager *)

\* The maps the firmware hands over
Maps == Seq([base : Nat, length : Nat, type : Nat])

-----------------------------------------------------------------------------
(* Numbers *)

LEMMA LeastOfNat ==
  ASSUME NEW S, S \subseteq Nat, S # {}
  PROVE  Min(S) \in S /\ \A y \in S : Min(S) <= y
<1>1. PICK x \in S : \A y \in S : ~ (<<y, x>> \in OpToRel(<, Nat))
  BY NatLessThanWellFounded, WFMin
<1>2. \A y \in S : x <= y
  <2> SUFFICES ASSUME NEW y \in S, ~(x <= y) PROVE FALSE
    OBVIOUS
  <2>1. y \in Nat /\ x \in Nat /\ y < x
    OBVIOUS
  <2> QED
    BY <1>1, <2>1 DEF OpToRel
<1> QED
  BY <1>2 DEF Min

LEMMA DivBounds ==
  ASSUME NEW a \in Nat, NEW d \in Nat \ {0}
  PROVE  /\ a \div d \in Nat
         /\ (a \div d) * d \in Nat /\ (a \div d) * d <= a
         /\ a < (a \div d) * d + d
OBVIOUS

LEMMA DivAtLeast ==
  ASSUME NEW a \in Nat, NEW d \in Nat \ {0}, NEW k \in Nat, k * d <= a
  PROVE  k <= a \div d
<1>1. a < (a \div d) * d + d /\ a \div d \in Nat
  BY DivBounds
<1>2. ASSUME k >= (a \div d) + 1 PROVE FALSE
  <2>1. \A q \in Nat : k >= q + 1 => k * d >= q * d + d
    OBVIOUS
  <2> QED
    BY <1>1, <1>2, <2>1
<1> QED
  BY <1>1, <1>2

LEMMA WordOfSmall ==
  ASSUME NEW n \in Nat, n < LayoutMod
  PROVE  Word(n) = n
BY SizesAssumption DEF Word

-----------------------------------------------------------------------------
(* The largest region *)

LEMMA CandidateFields ==
  ASSUME NEW map \in Maps
  PROVE  /\ Len(map) \in Nat /\ DOMAIN map = 1..Len(map)
         /\ \A i \in Candidates(map) :
              /\ i \in Nat \ {0} /\ i <= Len(map)
              /\ map[i].base \in Nat /\ map[i].length \in Nat
              /\ map[i].length > 0 /\ map[i].base >= LowLimit
<1>1. Len(map) \in Nat /\ DOMAIN map = 1..Len(map)
  BY LenProperties DEF Maps
<1>2. \A i \in 1..Len(map) : map[i] \in [base : Nat, length : Nat, type : Nat]
  BY ElementOfSeq DEF Maps
<1> QED
  BY <1>1, <1>2 DEF Candidates

\* Of the first n candidates one is longest, if there are any
LongestUpTo(map, n) ==
  LET first == {i \in Candidates(map) : i <= n} IN
  first # {} => \E i \in first : \A j \in first : map[j].length <= map[i].length

LEMMA LongestExists ==
  ASSUME NEW map \in Maps
  PROVE  \A n \in Nat : LongestUpTo(map, n)
<1> DEFINE without == {n \in Nat : ~LongestUpTo(map, n)}
<1> SUFFICES ASSUME without # {} PROVE FALSE
  OBVIOUS
<1>1. PICK n \in without : \A k \in without : n <= k
  <2> HIDE DEF without
  <2>1. without \subseteq Nat
    BY DEF without
  <2> QED
    BY <2>1, LeastOfNat
<1>2. \A i \in Candidates(map) : i \in Nat \ {0} /\ map[i].length \in Nat
  BY CandidateFields
<1>3. n # 0
  BY <1>1, <1>2 DEF LongestUpTo
<1>4. LongestUpTo(map, n - 1)
  BY <1>1, <1>3
<1>5. LongestUpTo(map, n)
  <2> DEFINE before == {i \in Candidates(map) : i <= n - 1}
             first  == {i \in Candidates(map) : i <= n}
  <2>1. CASE n \notin Candidates(map)
    <3>1. first = before
      BY <1>2, <2>1
    <3> QED
      BY <1>4, <3>1 DEF LongestUpTo
  <2>2. CASE n \in Candidates(map)
    <3>1. first = before \cup {n}
      BY <1>2, <2>2
    <3>2. CASE before = {}
      BY <1>2, <3>1, <3>2 DEF LongestUpTo
    <3>3. CASE before # {}
      <4>1. PICK i \in before : \A j \in before : map[j].length <= map[i].length
        BY <1>4, <3>3 DEF LongestUpTo
      <4>2. CASE map[n].length <= map[i].length
        BY <1>2, <3>1, <4>1, <4>2 DEF LongestUpTo
      <4>3. CASE ~ (map[n].length <= map[i].length)
        <5>1. \A j \in first : map[j].length <= map[n].length
          <6>1. \A j \in before : map[j].length \in Nat
            BY <1>2
          <6>2. map[n].length \in Nat /\ map[i].length \in Nat
            BY <1>2, <2>2
          <6> QED
            BY <3>1, <4>1, <4>3, <6>1, <6>2
        <5> QED
          BY <2>2, <3>1, <5>1 DEF LongestUpTo
      <4> QED
        BY <4>2, <4>3
    <3> QED
      BY <3>2, <3>3
  <2> QED
    BY <2>1, <2>2
<1> QED
  BY <1>1, <1>5

LEMMA LargestIsCandidate ==
  ASSUME NEW map \in Maps, Candidates(map) # {}
  PROVE  Largest(map) \in Candidates(map)
<1> DEFINE longest == {i \in Candidates(map) :
                         \A j \in Candidates(map) : map[j].length <= map[i].length}
<1>1. Len(map) \in Nat /\ \A i \in Candidates(map) : i \in Nat /\ i <= Len(map)
  BY CandidateFields
<1>2. {i \in Candidates(map) : i <= Len(map)} = Candidates(map)
  BY <1>1
<1>3. longest # {}
  BY <1>1, <1>2, LongestExists DEF LongestUpTo
<1>4. longest \subseteq Nat
  BY <1>1
<1>5. Min(longest) \in longest
  <2> HIDE DEF longest
  <2> QED
    BY <1>3, <1>4, LeastOfNat
<1> QED
  BY <1>5 DEF Largest

LEMMA MemoryEndIsWord ==
  ASSUME NEW map \in Maps, Candidates(map) # {}
  PROVE  MemoryEnd(map) \in Nat /\ MemoryEnd(map) < LayoutMod
<1>1. Len(map) \in 1..Len(map)
  BY LargestIsCandidate, CandidateFields
<1>2. map[Len(map)] \in [base : Nat, length : Nat, type : Nat]
  BY <1>1, ElementOfSeq DEF Maps
<1>3. map[Len(map)].base - 1 + map[Len(map)].length \in Int
  BY <1>2
<1> QED
  BY <1>3, SizesAssumption DEF MemoryEnd, Word

-----------------------------------------------------------------------------
(***************************************************************************)
(* In an Ordinary map manager and table lie in the largest region, and the *)
(* blocks between them and the end of memory (kern_mem.c:481-510, 30-37).  *)
(***************************************************************************)
THEOREM LayoutAlwaysFits ==
  ASSUME NEW map \in Maps
  PROVE  LayoutFits(map)
<1> SUFFICES ASSUME Ordinary(map)
             PROVE  /\ Prepared(map)
                    /\ map[Largest(map)].base = BlockBase(map)
                    /\ AfterTable(map) <= MemoryStart(map)
                    /\ MemoryStart(map) <= map[Largest(map)].base
                                             + map[Largest(map)].length
                    /\ EntriesOf(map) >= 2 /\ BlockLengthOf(map) >= 1
                    /\ MemoryStart(map) + EntriesOf(map) * BlockLengthOf(map)
                         <= MemoryEnd(map)
  BY DEF LayoutFits
<1>1. PICK B, L \in Nat : /\ B = map[Largest(map)].base
                          /\ L = map[Largest(map)].length
                          /\ B >= LowLimit /\ L > 0
  <2>1. Largest(map) \in Candidates(map)
    BY LargestIsCandidate DEF Ordinary
  <2> QED
    BY <2>1, CandidateFields
<1>2. PICK E \in Nat \ {0}, S \in Nat, M \in Nat :
        E = EntryBytes /\ S = SpareBytes /\ M = ManagerBytes
  BY SizesAssumption
<1>3. PICK q \in Nat : /\ q = L \div (E + S)
                       /\ q * E \in Nat /\ q * E <= L
  <2>1. E + S \in Nat \ {0}
    BY <1>2
  <2>2. PICK q \in Nat : q = L \div (E + S) /\ q * (E + S) <= L
    BY <1>1, <2>1, DivBounds
  <2>3. q * E \in Nat /\ q * (E + S) = q * E + q * S /\ q * S \in Nat
    BY <1>2, <2>2
  <2> QED
    BY <1>1, <2>2, <2>3
<1>4. PICK D \in Nat : D = MemoryEnd(map) /\ D < LayoutMod
  BY MemoryEndIsWord DEF Ordinary
<1>5. PICK share \in Nat : share = q * E
  BY <1>3
<1>6. B + L <= LayoutMod /\ B + M + 2 * E < share /\ share + (share \div E) <= D
  BY <1>1, <1>2, <1>3, <1>4, <1>5 DEF Ordinary
<1>7. LayoutMod \in Nat /\ B # 0
  BY <1>1, SizesAssumption
<1>8. BlockBase(map) = B /\ BlockBytes(map) = L
  <2>1. Word(B) = B /\ Word(L) = L
    BY <1>1, <1>6, <1>7, WordOfSmall
  <2> QED
    BY <1>1, <2>1 DEF BlockBase, BlockBytes, Ordinary
<1>9. TableEnd(map) = share - 1 /\ MemoryStart(map) = share
  <2>1. TableEnd(map) = Word(share - 1)
    BY <1>2, <1>3, <1>5, <1>8 DEF TableEnd
  <2>2. share - 1 \in Nat /\ share < LayoutMod
    <3>1. share <= L /\ B >= 1
      BY <1>1, <1>3, <1>5, <1>7
    <3>2. share > 0
      BY <1>1, <1>2, <1>6
    <3> QED
      BY <1>1, <1>6, <1>7, <3>1, <3>2
  <2>3. TableEnd(map) = share - 1
    BY <1>7, <2>1, <2>2, WordOfSmall
  <2>4. MemoryStart(map) = Word(share)
    BY <2>3, <2>2 DEF MemoryStart
  <2> QED
    BY <2>2, <2>3, <2>4, WordOfSmall
<1>10. PICK t \in Nat : t = share - 1 - B - M /\ t >= 2 * E
  BY <1>1, <1>2, <1>5, <1>6
<1>11. PICK n \in Nat : n = EntriesOf(map) /\ n = t \div E
  <2>1. TableLength(map) = share - 1 - B
    <3>1. share - 1 - B \in Nat /\ share - 1 - B < LayoutMod
      BY <1>1, <1>2, <1>3, <1>5, <1>6, <1>7, <1>10
    <3> QED
      BY <1>8, <1>9, <3>1, WordOfSmall DEF TableLength
  <2>2. Word(t) = t
    BY <1>1, <1>2, <1>3, <1>5, <1>6, <1>7, <1>10, WordOfSmall
  <2>3. EntriesOf(map) = t \div E
    BY <1>2, <1>10, <2>1, <2>2 DEF EntriesOf
  <2> QED
    BY <1>2, <1>10, <2>3, DivBounds
<1>12. /\ n >= 2 /\ n * E <= t /\ n * E \in Nat
  BY <1>2, <1>10, <1>11, DivBounds, DivAtLeast
<1>13. n <= share \div E /\ share \div E \in Nat
  <2>1. n * E <= share
    BY <1>1, <1>2, <1>5, <1>10, <1>12
  <2> QED
    BY <1>2, <1>5, <1>11, <2>1, DivAtLeast, DivBounds
<1>14. PICK room \in Nat : room = D - share /\ room >= n
  BY <1>4, <1>5, <1>6, <1>11, <1>13
<1>15. PICK each \in Nat : each = room \div n /\ each >= 1 /\ n * each <= room
  <2>1. PICK each \in Nat : each = room \div n /\ each * n <= room
    BY <1>11, <1>12, <1>14, DivBounds
  <2>2. 1 * n <= room
    BY <1>11, <1>14
  <2>3. each >= 1
    BY <1>11, <1>12, <1>14, <2>1, <2>2, DivAtLeast
  <2> QED
    BY <1>11, <2>1, <2>3
<1>16. BlockLengthOf(map) = each
  <2>1. Word(room) = room
    BY <1>4, <1>5, <1>7, <1>14, WordOfSmall
  <2> QED
    BY <1>4, <1>9, <1>11, <1>14, <1>15, <2>1 DEF BlockLengthOf
<1>17. AfterTable(map) <= MemoryStart(map)
  <2>1. AfterTable(map) = B + M + n * E
    BY <1>2, <1>8, <1>11 DEF AfterTable
  <2> QED
    BY <1>1, <1>2, <1>5, <1>9, <1>10, <1>12, <2>1
<1>18. MemoryStart(map) + EntriesOf(map) * BlockLengthOf(map) <= MemoryEnd(map)
  <2>1. n * each \in Nat
    BY <1>11, <1>15
  <2> QED
    BY <1>4, <1>5, <1>9, <1>11, <1>14, <1>15, <1>16, <2>1
<1>19. Prepared(map)
  <2>1. share - 1 # 0
    BY <1>1, <1>2, <1>5, <1>6, <1>7
  <2> QED
    BY <1>7, <1>8, <1>9, <2>1 DEF Prepared
<1>20. MemoryStart(map) <= map[Largest(map)].base + map[Largest(map)].length
  BY <1>1, <1>3, <1>5, <1>9
<1> QED
  BY <1>1, <1>8, <1>11, <1>12, <1>15, <1>16, <1>17, <1>18, <1>19, <1>20

-----------------------------------------------------------------------------
(* Addresses of blocks *)

\* No block's address wraps, so each leads back to its entry
LEMMA AddressOfEntry ==
  ASSUME IInv, NEW b \in Entries
  PROVE  Address(b) \in Nat /\ EntryOf(Address(b)) = b
<1>1. memMap \in MemMaps /\ memMap \in Maps
  BY InputAssumption DEF IInv, TypeOK, Maps
<1>2. /\ Ordinary(memMap) /\ WordMod = LayoutMod
      /\ MemStart = MemoryStart(memMap)
      /\ NumEntries = EntriesOf(memMap)
      /\ BlockLength = BlockLengthOf(memMap)
  BY <1>1, LayoutOfMaps
<1>3. /\ MemStart + NumEntries * BlockLength <= MemoryEnd(memMap)
      /\ MemoryEnd(memMap) \in Nat /\ MemoryEnd(memMap) < WordMod
  BY <1>1, <1>2, LayoutAlwaysFits, MemoryEndIsWord DEF LayoutFits, Ordinary
<1>4. /\ b \in Nat /\ b < NumEntries /\ b * BlockLength \in Nat
      /\ NumEntries * BlockLength \in Nat
  BY EntriesAreNat, LayoutAssumption DEF Entries
<1>5. b * BlockLength <= NumEntries * BlockLength
  BY <1>4, LayoutAssumption
<1>6. b * BlockLength < WordMod
  BY <1>3, <1>4, <1>5, LayoutAssumption
<1>7. (Address(b) - MemStart) % WordMod = b * BlockLength
  <2>1. Address(b) - MemStart = b * BlockLength
    BY <1>4, LayoutAssumption DEF Address
  <2>2. \A n \in Nat : n < WordMod => n % WordMod = n
    BY LayoutAssumption
  <2> QED
    BY <1>4, <1>6, <2>1, <2>2
<1>8. (b * BlockLength) \div BlockLength = b
  BY <1>4, LayoutAssumption
<1> QED
  BY <1>4, <1>7, <1>8, LayoutAssumption DEF EntryOf, Address

-----------------------------------------------------------------------------
(***************************************************************************)
(* The invariant.  A hole that waits to be marked is still what bestFit    *)
(* would find; what the user was told of is still granted; and the disk is *)
(* there when its boot sector has been looked at.                          *)
(***************************************************************************)
HoleWaits ==
  hole # NoHole => /\ place \in Allocating /\ Granted(Request)
                   /\ hole = BestFit(Request)

OnDisk == {"fat", "read fat", "root", "read root", "info"}

QuietInv ==
  /\ SafeInv
  /\ place # "memory" => ~Booting
  /\ mine \subseteq live
  /\ HoleWaits
  /\ list.size \in Nat
  /\ <<machine, volume>> \in Computers
  /\ place \in OnDisk => volume # NoVolume

LEMMA VolumeFields ==
  ASSUME <<machine, volume>> \in Computers, volume # NoVolume
  PROVE  /\ volume \in VolumeKinds
         /\ volume.fatSize \in Nat /\ RootSectors \in Nat
<1>1. volume \in VolumeKinds
  BY StartUpAssumption
<1>2. volume.rootEntries * DirEntryWords \in Nat
  <2>1. volume.rootEntries \in Nat
    BY <1>1 DEF VolumeKinds
  <2> QED
    BY <2>1, StartUpAssumption
<1>3. RootSectors \in Nat
  <2>1. PICK words \in Nat : words = volume.rootEntries * DirEntryWords
    BY <1>2
  <2> QED
    BY <2>1, DivBounds, StartUpAssumption DEF RootSectors
<1> QED
  BY <1>1, <1>3 DEF VolumeKinds

LEMMA RequestIsNat ==
  ASSUME place \in Allocating, list.size \in Nat,
         <<machine, volume>> \in Computers, place \in OnDisk => volume # NoVolume
  PROVE  Request \in Nat
<1>1. CASE place \in {"fat", "root"}
  <2>1. volume.fatSize \in Nat /\ RootSectors \in Nat
    BY <1>1, VolumeFields DEF OnDisk
  <2>2. \A n \in Nat : n * SectorWords \in Nat
    BY StartUpAssumption
  <2> QED
    BY <1>1, <2>1, <2>2 DEF Request
<1>2. CASE place \in {"struct", "array", "device", "mbr", "info"}
  BY <1>2, StartUpAssumption DEF Request
<1>3. CASE place = "grow"
  BY <1>3 DEF Request, GrownSize
<1> QED
  BY <1>1, <1>2, <1>3 DEF Allocating

\* What bestFit finds is determined by the table
LEMMA SameTableSameHole ==
  ASSUME UNCHANGED table, NEW n
  PROVE  Granted(n)' = Granted(n) /\ BestFit(n)' = BestFit(n)
BY DEF table, Granted, BestFit, Holes, HoleSize, Visited, WalkClosed, Hops

LEMMA SameRequest ==
  ASSUME UNCHANGED <<place, list, volume>>
  PROVE  Request' = Request
BY DEF Request, RootSectors, GrownSize

-----------------------------------------------------------------------------
(* The steps *)

LEMMA MemoryUnchanged ==
  ASSUME SafeInv, UNCHANGED memoryVars
  PROVE  SafeInv'
BY NextSafeInv DEF memoryVars

\* Marking the blocks of the hole that is waiting is mm_allocate
LEMMA MarksSafe ==
  ASSUME SafeInv, ~Booting, NEW size \in Nat, Granted(size),
         MarkBlocks(size, BestFit(size))
  PROVE  /\ SafeInv'
         /\ live \subseteq live' /\ Booting' = Booting
<1>1. Ready
  BY DEF Ready, SafeInv, NoWild
<1>2. Allocate(size)
  BY <1>1 DEF Allocate, MarkBlocks
<1>3. live \subseteq live'
  BY DEF MarkBlocks
<1>4. Booting' = Booting
  BY DEF MarkBlocks, Booting
<1> QED
  BY <1>2, <1>3, <1>4, AllocateSafe

LEMMA GetsSafe ==
  ASSUME QuietInv, NEW here \in Allocating, Gets(here)
  PROVE  /\ SafeInv' /\ ~Booting' /\ hole' = NoHole
         /\ live \subseteq live'
<1>1. Request \in Nat /\ Granted(Request) /\ hole = BestFit(Request) /\ ~Booting
  BY RequestIsNat DEF Gets, QuietInv, HoleWaits, Allocating
<1>2. MarkBlocks(Request, BestFit(Request))
  BY <1>1 DEF Gets
<1> HIDE DEF Request, BestFit
<1>3. SafeInv' /\ live \subseteq live' /\ Booting' = Booting
  BY <1>1, <1>2, MarksSafe DEF QuietInv
<1> QED
  BY <1>1, <1>3 DEF Gets

LEMMA FindHoleQuiet ==
  ASSUME QuietInv, FindHole
  PROVE  QuietInv'
<1>1. SafeInv' /\ Booting' = Booting
  BY MemoryUnchanged DEF QuietInv, FindHole, memoryVars, vars, Booting
<1>2. HoleWaits'
  <2>1. CASE Granted(Request) /\ hole' = BestFit(Request) /\ UNCHANGED place
    <3>1. UNCHANGED table /\ UNCHANGED <<place, list, volume>>
      BY <2>1 DEF FindHole, memoryVars, vars, table, listVars, diskVars
    <3>2. Request' = Request
      BY <3>1, SameRequest
    <3>3. PICK n : n = Request
      OBVIOUS
    <3>4. Granted(n)' /\ BestFit(n)' = BestFit(n)
      BY <2>1, <3>1, <3>3, SameTableSameHole
    <3>5. Granted(Request)' /\ hole' = BestFit(Request)'
      BY <2>1, <3>2, <3>3, <3>4 DEF Granted, BestFit, Holes
    <3> QED
      BY <2>1, <3>5 DEF HoleWaits, FindHole
  <2>2. CASE UNCHANGED hole
    BY <2>2 DEF HoleWaits, FindHole, NoHole
  <2> QED
    BY <2>1, <2>2 DEF FindHole
<1> QED
  BY <1>1, <1>2 DEF QuietInv, FindHole, memoryVars, vars, pciVars, listVars,
                    diskVars, userVars, Allocating, OnDisk

\* The steps of kernel_main that leave the memory manager alone
LEMMA ElsewhereQuiet ==
  ASSUME QuietInv, UNCHANGED <<memoryVars, hole, machine, volume, mine>>,
         hole = NoHole, place # "memory", list'.size = list.size,
         place' \in OnDisk => volume # NoVolume
  PROVE  QuietInv'
<1>1. SafeInv' /\ Booting' = Booting
  BY MemoryUnchanged DEF QuietInv, memoryVars, vars, Booting
<1>2. mine' \subseteq live'
  BY DEF QuietInv, memoryVars, vars
<1> QED
  BY <1>1, <1>2 DEF QuietInv, HoleWaits

\* The steps that end a call of mm_allocate
LEMMA GetsQuiet ==
  ASSUME QuietInv, NEW here \in Allocating, Gets(here),
         UNCHANGED <<machine, volume, mine>>, list'.size \in Nat,
         place' \in OnDisk => volume # NoVolume
  PROVE  QuietInv'
<1>1. SafeInv' /\ ~Booting' /\ hole' = NoHole /\ live \subseteq live'
  BY GetsSafe
<1>2. mine' \subseteq live'
  BY <1>1 DEF QuietInv
<1> QED
  BY <1>1, <1>2 DEF QuietInv, HoleWaits

LEMMA PrepareMemoryQuiet ==
  ASSUME QuietInv, PrepareMemory
  PROVE  QuietInv'
<1>1. hole = NoHole
  BY DEF QuietInv, HoleWaits, PrepareMemory, Allocating
<1>2. SafeInv'
  BY NextSafeInv DEF PrepareMemory, QuietInv, SafeNext, memoryVars
<1>3. UNCHANGED live
  BY DEF PrepareMemory, BootEntry, memoryVars, vars
<1>4. place' # "memory" => ~Booting'
  BY DEF PrepareMemory, Booting, memoryVars, vars
<1>5. place' \notin OnDisk
  BY DEF PrepareMemory, OnDisk
<1> QED
  BY <1>1, <1>2, <1>3, <1>4, <1>5
  DEF QuietInv, HoleWaits, PrepareMemory, pciVars, listVars, diskVars, userVars

LEMMA NotAllocating ==
  ASSUME QuietInv, place \notin Allocating
  PROVE  hole = NoHole
BY DEF QuietInv, HoleWaits

LEMMA ReadSectorsQuiet ==
  ASSUME QuietInv, NEW here \in {"read mbr", "read fat", "read root"},
         NEW buffer, NEW sectors, NEW next, ReadSectors(here, buffer, sectors, next)
  PROVE  QuietInv'
<1>1. hole = NoHole
  BY NotAllocating DEF ReadSectors, Allocating
<1>2. volume # NoVolume /\ place # "memory"
  BY DEF ReadSectors
<1>3. UNCHANGED <<memoryVars, hole, machine, volume, mine, list>>
  BY DEF ReadSectors, pciVars, listVars, userVars
<1> QED
  BY <1>1, <1>2, <1>3, ElsewhereQuiet

LEMMA GetBufferQuiet ==
  ASSUME QuietInv,
         NEW here \in {"mbr", "fat", "root"}, NEW next, GetBuffer(here, next),
         next \in OnDisk => volume # NoVolume
  PROVE  QuietInv'
<1>1. /\ Gets(here) /\ here \in Allocating /\ place' = next
      /\ UNCHANGED <<machine, volume, mine, list>>
  BY DEF GetBuffer, Allocating, pciVars, listVars, diskVars, userVars
<1>2. list'.size \in Nat
  BY <1>1 DEF QuietInv
<1> QED
  BY <1>1, <1>2, GetsQuiet

LEMMA MainQuiet ==
  ASSUME QuietInv, kernel_main, ~grown'
  PROVE  QuietInv'
<1> USE DEF pciVars, listVars, diskVars, userVars
<1>1. CASE PrepareMemory
  BY <1>1, PrepareMemoryQuiet
<1>2. CASE FindHole
  BY <1>2, FindHoleQuiet
<1>3. CASE GetStruct
  <2>1. Gets("struct") /\ list'.size \in Nat /\ place' \notin OnDisk
    BY <1>3 DEF GetStruct, QuietInv, OnDisk
  <2> QED
    BY <1>3, <2>1, GetsQuiet DEF GetStruct, Allocating
<1>4. CASE initArray
  <2>1. Gets("array") /\ list'.size \in Nat /\ place' \notin OnDisk
    BY <1>4, StartUpAssumption DEF initArray, ArrayAt, OnDisk
  <2> QED
    BY <1>4, <2>1, GetsQuiet DEF initArray, Allocating
<1>5. CASE Enumerate
  <2>1. hole = NoHole /\ place # "memory" /\ place' \notin OnDisk
    BY <1>5, NotAllocating DEF Enumerate, Allocating, OnDisk
  <2>2. UNCHANGED machine
    BY <1>5 DEF Enumerate, CheckHostBus, SkipFunction, ReturnFromBus, CheckFunction
  <2> QED
    BY <1>5, <2>1, <2>2, ElsewhereQuiet DEF Enumerate
<1>6. CASE WriteDevice
  <2>1. Gets("device") /\ list'.size \in Nat /\ place' \notin OnDisk
    BY <1>6 DEF WriteDevice, QuietInv, OnDisk
  <2> QED
    BY <1>6, <2>1, GetsQuiet DEF WriteDevice, Allocating
<1>7. CASE CopyList
  <2>1. Gets("grow") /\ list'.size \in Nat /\ place' \notin OnDisk
    BY <1>7 DEF CopyList, QuietInv, OnDisk
  <2> QED
    BY <1>7, <2>1, GetsQuiet DEF CopyList, Allocating
<1>8. CASE FreeList
  BY <1>8 DEF FreeList
<1>9. CASE InsertDevice
  <2>1. hole = NoHole /\ place # "memory" /\ place' \notin OnDisk
    BY <1>9, NotAllocating DEF InsertDevice, Allocating, OnDisk
  <2>2. list'.size = list.size
    BY <1>9 DEF InsertDevice, Longer
  <2> QED
    BY <1>9, <2>1, <2>2, ElsewhereQuiet DEF InsertDevice
<1>10. CASE SelectReader
  <2>1. hole = NoHole /\ place # "memory" /\ place' \notin OnDisk
    BY <1>10, NotAllocating DEF SelectReader, Allocating, OnDisk
  <2> QED
    BY <1>10, <2>1, ElsewhereQuiet DEF SelectReader
<1>11. CASE LoadBootSector
  <2>1. CASE GetBuffer("mbr", "read mbr")
    BY <2>1, GetBufferQuiet DEF OnDisk
  <2>2. CASE \E next \in {"fat", "spin"} : ReadSectors("read mbr", "mbr", 1, next)
    BY <2>2, ReadSectorsQuiet
  <2> QED
    BY <1>11, <2>1, <2>2 DEF LoadBootSector
<1>12. CASE LoadFat
  <2>1. CASE GetBuffer("fat", "read fat")
    <3>1. volume # NoVolume
      BY <2>1 DEF GetBuffer, Gets, QuietInv, OnDisk
    <3> QED
      BY <2>1, <3>1, GetBufferQuiet
  <2>2. CASE ReadSectors("read fat", "fat", volume.fatSize, "root")
    BY <2>2, ReadSectorsQuiet
  <2> QED
    BY <1>12, <2>1, <2>2 DEF LoadFat
<1>13. CASE LoadRootDirectory
  <2>1. CASE GetBuffer("root", "read root")
    <3>1. volume # NoVolume
      BY <2>1 DEF GetBuffer, Gets, QuietInv, OnDisk
    <3> QED
      BY <2>1, <3>1, GetBufferQuiet
  <2>2. CASE ReadSectors("read root", "root", RootSectors, "info")
    BY <2>2, ReadSectorsQuiet
  <2> QED
    BY <1>13, <2>1, <2>2 DEF LoadRootDirectory
<1>14. CASE InstallFat12
  <2>1. Gets("info") /\ list'.size \in Nat /\ place' \notin OnDisk
    BY <1>14 DEF InstallFat12, QuietInv, OnDisk
  <2> QED
    BY <1>14, <2>1, GetsQuiet DEF InstallFat12, Allocating
<1> QED
  BY <1>1, <1>2, <1>3, <1>4, <1>5, <1>6, <1>7, <1>8, <1>9, <1>10, <1>11, <1>12,
     <1>13, <1>14 DEF kernel_main

-----------------------------------------------------------------------------
(* The user's commands *)

\* While it is quiet a command leaves the hole as bestFit found it
LEMMA InterruptKeepsHole ==
  ASSUME QuietInv, Interrupts, ~hasty'
  PROVE  HoleWaits'
<1>1. UNCHANGED <<place, hole, list, volume>>
  BY DEF Interrupts, listVars, diskVars
<1>2. CASE hole = NoHole
  BY <1>1, <1>2 DEF HoleWaits
<1>3. CASE hole # NoHole
  <2>1. UNCHANGED table
    BY <1>3 DEF Interrupts
  <2>2. PICK n : n = Request
    OBVIOUS
  <2>3. Request' = n
    BY <1>1, <2>2, SameRequest
  <2>4. Granted(n)' = Granted(n) /\ BestFit(n)' = BestFit(n)
    BY <2>1, SameTableSameHole
  <2>5. Granted(n) /\ hole = BestFit(n) /\ place \in Allocating
    BY <1>3, <2>2 DEF QuietInv, HoleWaits
  <2>6. Granted(Request)' /\ BestFit(Request)' = BestFit(n)
    BY <2>3, <2>4, <2>5 DEF Granted, BestFit, Holes
  <2> QED
    BY <1>1, <2>5, <2>6 DEF HoleWaits
<1> QED
  BY <1>2, <1>3

LEMMA InterruptQuiet ==
  ASSUME QuietInv, Interrupts, ~hasty', SafeInv', Booting' = Booting,
         mine' \subseteq live'
  PROVE  QuietInv'
<1>1. HoleWaits'
  BY InterruptKeepsHole
<1> QED
  BY <1>1 DEF QuietInv, Interrupts, pciVars, listVars, diskVars

LEMMA AllocMemQuiet ==
  ASSUME QuietInv, NEW size \in Sizes, AllocMem(size), ~hasty'
  PROVE  QuietInv'
<1>1. size \in Nat /\ ~Booting
  BY InputAssumption DEF AllocMem, Ready
<1>2. SafeInv' /\ Booting' = Booting /\ live \subseteq live'
  <2>1. CASE UNCHANGED memoryVars
    BY <2>1, MemoryUnchanged DEF QuietInv, memoryVars, vars, Booting
  <2>2. CASE Granted(size) /\ MarkBlocks(size, BestFit(size))
    BY <1>1, <2>2, MarksSafe DEF QuietInv
  <2> QED
    BY <2>1, <2>2 DEF AllocMem
<1>3. mine' \subseteq live'
  BY <1>2 DEF AllocMem, QuietInv
<1> QED
  BY <1>2, <1>3, InterruptQuiet DEF AllocMem

LEMMA FreeMemReleases ==
  ASSUME QuietInv, NEW run \in mine, FreeMem(run)
  PROVE  SafeInv' /\ Booting' = Booting /\ live \ {run} \subseteq live'
<1>1. run \in live /\ IInv
  BY DEF QuietInv, SafeInv
<1>2. /\ run = [begin |-> run.begin, end |-> run.end]
      /\ run.begin \in Entries /\ lastContig[run.begin] = run.end
  BY <1>1 DEF QuietInv, SafeInv, IInv, TypeOK, Runs, LiveAreRuns
<1>3. PICK address \in Nat :
        address = Address(run.begin) /\ EntryOf(address) = run.begin
  BY <1>1, <1>2, AddressOfEntry
<1>4. SafeFree(address)
  BY <1>1, <1>2, <1>3 DEF FreeMem, SafeFree, FreesGrant
<1>5. SafeInv'
  BY <1>4, FreeSafe DEF QuietInv
<1>6. Booting' = Booting
  BY <1>4 DEF SafeFree, Free, Booting
<1>7. live \ {run} \subseteq live'
  <2>1. PICK freed \in live :
          /\ freed.begin = EntryOf(address)
          /\ live' = live \/ live' = live \ {freed}
    BY <1>4, SafeFreeReleases DEF QuietInv
  <2>2. /\ freed = [begin |-> freed.begin, end |-> freed.end]
        /\ lastContig[freed.begin] = freed.end
    BY <2>1 DEF QuietInv, SafeInv, IInv, TypeOK, Runs, LiveAreRuns
  <2>3. freed = run
    BY <1>2, <1>3, <2>1, <2>2
  <2> QED
    BY <2>1, <2>3
<1> QED
  BY <1>5, <1>6, <1>7

LEMMA FreeMemQuiet ==
  ASSUME QuietInv, NEW run \in mine, FreeMem(run), ~hasty'
  PROVE  QuietInv'
<1>1. mine' \subseteq live'
  BY FreeMemReleases DEF FreeMem, QuietInv
<1> QED
  BY <1>1, FreeMemReleases, InterruptQuiet DEF FreeMem

-----------------------------------------------------------------------------
(* Quiet once means quiet so far *)

StartInv == Quiet => QuietInv

LEMMA MainKeepsHistory ==
  ASSUME kernel_main
  PROVE  UNCHANGED hasty /\ (UNCHANGED grown \/ grown' = TRUE)
<1> USE DEF listVars, userVars
<1>1. CASE PrepareMemory \/ FindHole \/ GetStruct \/ initArray \/ Enumerate
  BY <1>1 DEF PrepareMemory, FindHole, GetStruct, initArray, Enumerate
<1>2. CASE WriteDevice \/ CopyList \/ FreeList \/ InsertDevice \/ SelectReader
  BY <1>2 DEF WriteDevice, CopyList, FreeList, InsertDevice, SelectReader
<1>3. CASE LoadBootSector
  BY <1>3 DEF LoadBootSector, GetBuffer, ReadSectors
<1>4. CASE LoadFat \/ LoadRootDirectory \/ InstallFat12
  BY <1>4 DEF LoadFat, LoadRootDirectory, InstallFat12, GetBuffer, ReadSectors
<1> QED
  BY <1>1, <1>2, <1>3, <1>4 DEF kernel_main

LEMMA QuietBefore ==
  ASSUME [StartNext]_startVars, Quiet'
  PROVE  Quiet
<1>1. CASE kernel_main
  <2>1. hasty' = hasty /\ (grown => grown')
    <3>1. hasty' = hasty /\ (grown' = grown \/ grown' = TRUE)
      BY <1>1, MainKeepsHistory
    <3>2. CASE grown' = grown
      BY <3>1, <3>2, Zenon
    <3>3. CASE grown' = TRUE
      BY <3>1, <3>3, Zenon
    <3> QED
      BY <3>1, <3>2, <3>3, Zenon
  <2> QED
    BY <2>1, Zenon DEF Quiet
<1>2. CASE user_input
  <2>1. Interrupts
    BY <1>2 DEF user_input, AllocMem, FreeMem
  <2>2. grown' = grown /\ (hasty => hasty')
    BY <2>1, Zenon DEF Interrupts, listVars
  <2> QED
    BY <2>2, Zenon DEF Quiet
<1>3. CASE UNCHANGED startVars
  <2>1. hasty' = hasty /\ grown' = grown
    BY <1>3 DEF startVars, listVars, userVars
  <2> QED
    BY <2>1, Zenon DEF Quiet
<1> QED
  BY <1>1, <1>2, <1>3 DEF StartNext

LEMMA InitStartInv == StartInit => StartInv
<1> SUFFICES ASSUME StartInit PROVE QuietInv
  BY DEF StartInv
<1>1. SafeInv
  BY InitSafeInv DEF StartInit
<1>2. <<machine, volume>> \in Computers
  <2>1. PICK computer \in Computers : machine = computer[1] /\ volume = computer[2]
    BY DEF StartInit
  <2> QED
    BY <2>1, StartUpAssumption
<1> QED
  BY <1>1, <1>2 DEF StartInit, QuietInv, HoleWaits, OnDisk, ArrayAt

LEMMA NextStartInv == StartInv /\ [StartNext]_startVars => StartInv'
<1> SUFFICES ASSUME StartInv, [StartNext]_startVars, Quiet' PROVE QuietInv'
  BY DEF StartInv
<1>1. QuietInv /\ ~hasty' /\ ~grown'
  BY QuietBefore DEF StartInv, Quiet
<1>2. CASE kernel_main
  BY <1>1, <1>2, MainQuiet
<1>3. CASE \E size \in Sizes : AllocMem(size)
  BY <1>1, <1>3, AllocMemQuiet
<1>4. CASE \E run \in mine : FreeMem(run)
  BY <1>1, <1>4, FreeMemQuiet
<1>5. CASE UNCHANGED startVars
  <2>1. UNCHANGED <<memoryVars, hole, machine, volume, mine, list, place>>
    BY <1>5 DEF startVars, pciVars, listVars, diskVars, userVars
  <2>2. SafeInv' /\ Booting' = Booting
    BY <1>1, <2>1, MemoryUnchanged DEF QuietInv, memoryVars, vars, Booting
  <2>3. HoleWaits'
    BY <1>1, <2>1, SameRequest
    DEF QuietInv, HoleWaits, memoryVars, vars, Granted, BestFit, Holes, HoleSize,
        Visited, WalkClosed, Hops
  <2>4. mine' \subseteq live'
    BY <1>1, <2>1 DEF QuietInv, memoryVars, vars
  <2> QED
    BY <1>1, <2>1, <2>2, <2>3, <2>4 DEF QuietInv
<1> QED
  BY <1>2, <1>3, <1>4, <1>5 DEF StartNext, user_input

(***************************************************************************)
(* For every computer, layout and user: as long as no command comes        *)
(* between bestFit and the marks it leads to and the list is not moved,    *)
(* kernel_main and the shell share the heap safely (kernel.c:36-48 with    *)
(* kern_mem.c:146-246).                                                    *)
(***************************************************************************)
THEOREM HeapIsKept == StartSpec => []HeapKept
<1>1. ASSUME StartInv PROVE HeapKept
  <2> SUFFICES ASSUME Quiet
               PROVE  /\ Accounting /\ ~wild
                      /\ hole # NoHole => \A i \in ToMark : type[i] = Avail
    BY DEF HeapKept
  <2>1. QuietInv
    BY <1>1 DEF StartInv
  <2>2. Accounting /\ ~wild
    BY <2>1 DEF QuietInv, SafeInv, NoWild
  <2>3. ASSUME hole # NoHole, NEW i \in ToMark PROVE type[i] = Avail
    <3>1. PICK size \in Nat : size = Request /\ Granted(size) /\ hole = BestFit(size)
      BY <2>1, <2>3, RequestIsNat DEF QuietInv, HoleWaits
    <3>2. TableOK /\ Partition
      BY <2>1, IInvTable DEF QuietInv, SafeInv
    <3>3. PICK b, e \in Entries :
            /\ b = BestFit(size) /\ e = AllocateEnd(size, b) /\ b <= e
            /\ firstContig[b] = b /\ type[b] = Avail /\ e <= lastContig[b]
      BY <3>1, <3>2, GrantInHole
    <3>4. i \in b..e
      BY <2>3, <3>1, <3>3 DEF ToMark
    <3>5. i \in Entries
      BY <3>3, <3>4, RangeInTable
    <3>6. i \in RunOf(b)
      BY <3>2, <3>3, <3>4, <3>5, FieldsAreEntries DEF RunOf
    <3> QED
      BY <3>2, <3>3, <3>5, <3>6, SameRun
  <2> QED
    BY <2>2, <2>3
<1> QED
  BY InitStartInv, NextStartInv, <1>1, PTL DEF StartSpec

-----------------------------------------------------------------------------
(***************************************************************************)
(* The buffers.  Each holds what it should from the end of its own reading *)
(* on, and nothing is read any more once the functions are set.            *)
(***************************************************************************)
CacheInv ==
  /\ cached \in [mbr : Nat, fat : Nat, root : Nat]
  /\ <<machine, volume>> \in Computers
  /\ place \in OnDisk \/ installed => volume # NoVolume
  /\ installed => place = "spin"
  /\ ~broken /\ (installed \/ place \in {"root", "read root", "info"}) =>
       cached.fat = volume.fatSize
  /\ ~broken /\ (installed \/ place = "info") => cached.root = RootSectors

\* A command leaves the disk's variables as they are
LEMMA CacheUntouched ==
  ASSUME CacheInv, UNCHANGED <<place, machine, diskVars>>
  PROVE  CacheInv'
BY DEF CacheInv, diskVars, RootSectors

\* So does kernel_main before it reads the boot sector
LEMMA CacheBefore ==
  ASSUME CacheInv, UNCHANGED <<machine, diskVars>>, place # "spin",
         place' \notin OnDisk
  PROVE  CacheInv'
BY DEF CacheInv, diskVars, RootSectors, OnDisk

LEMMA ReadEnds ==
  ASSUME NEW here, NEW buffer \in {"mbr", "fat", "root"}, NEW sectors \in Nat,
         NEW next, ReadSectors(here, buffer, sectors, next), CacheInv
  PROVE  /\ \/ UNCHANGED <<place, cached, broken>>
            \/ /\ place' = next
               /\ \E good \in 0..sectors :
                    /\ cached' = [cached EXCEPT ![buffer] = good]
                    /\ ~broken' => ~broken /\ good = sectors
         /\ cached' \in [mbr : Nat, fat : Nat, root : Nat]
         /\ place = here /\ volume # NoVolume
         /\ UNCHANGED <<machine, volume>>
<1>1. PICK good \in 0..sectors :
        \/ UNCHANGED <<place, cached, broken>>
        \/ /\ place' = next
           /\ cached' = [cached EXCEPT ![buffer] = good]
           /\ broken' = (broken \/ good < sectors)
  BY DEF ReadSectors
<1>2. CASE UNCHANGED <<place, cached, broken>>
  BY <1>2 DEF ReadSectors, pciVars, CacheInv
<1>3. ASSUME place' = next, cached' = [cached EXCEPT ![buffer] = good],
             broken' = (broken \/ good < sectors)
      PROVE  /\ ~broken' => ~broken /\ good = sectors
             /\ cached' \in [mbr : Nat, fat : Nat, root : Nat]
  <2>1. ~broken' => ~broken /\ ~(good < sectors)
    BY <1>3, Zenon
  <2>2. ~(good < sectors) => good = sectors
    OBVIOUS
  <2>3. cached' \in [mbr : Nat, fat : Nat, root : Nat]
    <3>1. good \in Nat /\ cached \in [mbr : Nat, fat : Nat, root : Nat]
      <4>1. good \in Nat
        OBVIOUS
      <4>2. cached \in [mbr : Nat, fat : Nat, root : Nat]
        BY Zenon DEF CacheInv
      <4> QED
        BY <4>1, <4>2
    <3>2. CASE buffer = "mbr"
      BY <1>3, <3>1, <3>2
    <3>3. CASE buffer = "fat"
      BY <1>3, <3>1, <3>3
    <3>4. CASE buffer = "root"
      BY <1>3, <3>1, <3>4
    <3> QED
      BY <3>2, <3>3, <3>4
  <2> QED
    BY <2>1, <2>2, <2>3
<1> QED
  BY <1>1, <1>2, <1>3 DEF ReadSectors, pciVars

LEMMA LoadFatCache ==
  ASSUME CacheInv, ReadSectors("read fat", "fat", volume.fatSize, "root"),
         UNCHANGED installed
  PROVE  CacheInv'
<1>1. volume # NoVolume /\ place = "read fat" /\ ~installed
  BY DEF ReadSectors, CacheInv
<1>2. PICK size \in Nat : size = volume.fatSize
  BY <1>1, VolumeFields DEF CacheInv
<1>3. /\ \/ UNCHANGED <<place, cached, broken>>
         \/ /\ place' = "root"
            /\ ~broken' => cached'.fat = size
      /\ cached' \in [mbr : Nat, fat : Nat, root : Nat]
      /\ UNCHANGED <<machine, volume>>
  <2>1. /\ \/ UNCHANGED <<place, cached, broken>>
           \/ /\ place' = "root"
              /\ \E good \in 0..size :
                   /\ cached' = [cached EXCEPT !["fat"] = good]
                   /\ ~broken' => ~broken /\ good = size
        /\ cached' \in [mbr : Nat, fat : Nat, root : Nat]
        /\ UNCHANGED <<machine, volume>>
    BY <1>2, ReadEnds
  <2>2. cached \in [mbr : Nat, fat : Nat, root : Nat]
    BY DEF CacheInv
  <2>3. \A good : [cached EXCEPT !["fat"] = good].fat = good
    BY <2>2
  <2> QED
    BY <2>1, <2>3, Zenon
<1> QED
  BY <1>1, <1>2, <1>3 DEF CacheInv, OnDisk, RootSectors

LEMMA LoadRootCache ==
  ASSUME CacheInv, ReadSectors("read root", "root", RootSectors, "info"),
         UNCHANGED installed
  PROVE  CacheInv'
<1>1. volume # NoVolume /\ place = "read root" /\ ~installed
  BY DEF ReadSectors, CacheInv
<1>2. PICK size \in Nat : size = RootSectors
  BY <1>1, VolumeFields DEF CacheInv
<1>3. /\ \/ UNCHANGED <<place, cached, broken>>
         \/ /\ place' = "info"
            /\ \E good \in 0..size :
                 /\ cached' = [cached EXCEPT !["root"] = good]
                 /\ ~broken' => ~broken /\ good = size
      /\ cached' \in [mbr : Nat, fat : Nat, root : Nat]
      /\ UNCHANGED <<machine, volume>>
  BY <1>2, ReadEnds
<1>4. /\ \/ UNCHANGED <<place, cached, broken>>
         \/ /\ place' = "info"
            /\ ~broken' => ~broken /\ cached'.root = size /\ cached'.fat = cached.fat
  <2>1. cached \in [mbr : Nat, fat : Nat, root : Nat]
    BY DEF CacheInv
  <2> QED
    BY <1>3, <2>1
<1>5. RootSectors' = size
  BY <1>2, <1>3 DEF RootSectors
<1> QED
  <2>1. CASE UNCHANGED <<place, cached, broken>>
    BY <1>1, <1>2, <1>3, <1>5, <2>1 DEF CacheInv, OnDisk
  <2>2. ASSUME place' = "info",
               ~broken' => ~broken /\ cached'.root = size /\ cached'.fat = cached.fat
        PROVE  CacheInv'
    <3>1. ~broken' => cached'.fat = volume'.fatSize /\ cached'.root = RootSectors'
      BY <1>1, <1>3, <1>5, <2>2 DEF CacheInv
    <3> QED
      BY <1>1, <1>3, <2>2, <3>1 DEF CacheInv, OnDisk
  <2> QED
    BY <1>4, <2>1, <2>2

LEMMA LoadBootCache ==
  ASSUME CacheInv, NEW next \in {"fat", "spin"},
         ReadSectors("read mbr", "mbr", 1, next), UNCHANGED installed
  PROVE  CacheInv'
<1>1. volume # NoVolume /\ place = "read mbr" /\ ~installed
  BY DEF ReadSectors, CacheInv
<1>2. /\ place' \in {"read mbr", next}
      /\ cached' \in [mbr : Nat, fat : Nat, root : Nat]
      /\ UNCHANGED <<machine, volume>>
  BY <1>1, ReadEnds
<1> QED
  BY <1>1, <1>2 DEF CacheInv, OnDisk, RootSectors

\* The buffers themselves are taken from the heap
LEMMA BufferCache ==
  ASSUME CacheInv,
         \/ GetBuffer("mbr", "read mbr")
         \/ GetBuffer("fat", "read fat")
         \/ GetBuffer("root", "read root")
  PROVE  CacheInv'
<1>1. /\ <<place, place'>> \in {<<"mbr", "read mbr">>, <<"fat", "read fat">>,
                                <<"root", "read root">>}
      /\ UNCHANGED <<machine, diskVars>>
  BY DEF GetBuffer, Gets, pciVars
<1> QED
  BY <1>1 DEF CacheInv, OnDisk, RootSectors, diskVars

LEMMA MainCache ==
  ASSUME CacheInv, kernel_main
  PROVE  CacheInv'
<1>1. CASE PrepareMemory \/ GetStruct \/ initArray \/ WriteDevice \/ CopyList
           \/ FreeList \/ InsertDevice
  <2>1. UNCHANGED <<machine, diskVars>> /\ place # "spin" /\ place' \notin OnDisk
    BY <1>1 DEF PrepareMemory, GetStruct, initArray, WriteDevice, CopyList,
      FreeList, InsertDevice, Gets, pciVars, OnDisk
  <2> QED
    BY <2>1, CacheBefore
<1>2. CASE FindHole
  <2>1. /\ UNCHANGED <<machine, diskVars>> /\ place \in Allocating
        /\ place' = place \/ place' = "null"
    BY <1>2 DEF FindHole, pciVars
  <2> QED
    BY <2>1, CacheUntouched, CacheBefore DEF Allocating, OnDisk
<1>3. CASE Enumerate
  <2>1. UNCHANGED machine
    BY <1>3 DEF Enumerate, CheckHostBus, SkipFunction, ReturnFromBus,
      CheckFunction, pciVars
  <2>2. UNCHANGED diskVars /\ place # "spin" /\ place' \notin OnDisk
    BY <1>3 DEF Enumerate, OnDisk
  <2> QED
    BY <2>1, <2>2, CacheBefore
<1>4. CASE SelectReader
  <2>1. /\ place = "select" /\ place' \in {"mbr", "spin"}
        /\ UNCHANGED <<machine, volume, cached, installed, broken>>
    BY <1>4 DEF SelectReader, pciVars
  <2> QED
    BY <2>1 DEF CacheInv, OnDisk, RootSectors
<1>5. CASE LoadBootSector
  BY <1>5, BufferCache, LoadBootCache DEF LoadBootSector
<1>6. CASE LoadFat
  BY <1>6, BufferCache, LoadFatCache DEF LoadFat
<1>7. CASE LoadRootDirectory
  BY <1>7, BufferCache, LoadRootCache DEF LoadRootDirectory
<1>8. CASE InstallFat12
  BY <1>8 DEF InstallFat12, Gets, CacheInv, OnDisk, RootSectors, pciVars
<1> QED
  BY <1>1, <1>2, <1>3, <1>4, <1>5, <1>6, <1>7, <1>8 DEF kernel_main

LEMMA InitCacheInv == StartInit => CacheInv
<1> SUFFICES ASSUME StartInit PROVE CacheInv
  OBVIOUS
<1>1. <<machine, volume>> \in Computers
  <2>1. PICK computer \in Computers : machine = computer[1] /\ volume = computer[2]
    BY DEF StartInit
  <2> QED
    BY <2>1, StartUpAssumption
<1> QED
  BY <1>1 DEF StartInit, CacheInv, OnDisk

LEMMA NextCacheInv == CacheInv /\ [StartNext]_startVars => CacheInv'
<1> SUFFICES ASSUME CacheInv, [StartNext]_startVars PROVE CacheInv'
  OBVIOUS
<1>1. CASE kernel_main
  BY <1>1, MainCache
<1>2. CASE user_input
  <2>1. Interrupts
    BY <1>2 DEF user_input, AllocMem, FreeMem
  <2> QED
    BY <2>1, CacheUntouched DEF Interrupts, pciVars
<1>3. CASE UNCHANGED startVars
  BY <1>3, CacheUntouched DEF startVars, pciVars
<1> QED
  BY <1>1, <1>2, <1>3 DEF StartNext

(***************************************************************************)
(* For every computer, layout and user: when the filesystem's functions    *)
(* are set, the FAT and the root directory in memory are those of the      *)
(* disk, unless a read was given up or failed in its middle                *)
(* (kern_disk.c:87-118).                                                   *)
(***************************************************************************)
THEOREM CacheIsOfDisk == StartSpec => []CacheIsDisk
<1>1. CacheInv => CacheIsDisk
  BY DEF CacheInv, CacheIsDisk
<1> QED
  BY InitCacheInv, NextCacheInv, <1>1, PTL DEF StartSpec

-----------------------------------------------------------------------------
(* The search for devices is that of Pci *)

LEMMA StartStepIsPci ==
  ASSUME [StartNext]_startVars
  PROVE  [PciNext]_pciVars
<1>1. CASE Enumerate
  BY <1>1 DEF Enumerate, PciNext
<1>2. CASE kernel_main /\ ~Enumerate
  <2>1. UNCHANGED pciVars
    BY <1>2 DEF kernel_main, PrepareMemory, FindHole, GetStruct, initArray,
      WriteDevice, CopyList, FreeList, InsertDevice, SelectReader, LoadBootSector,
      LoadFat, LoadRootDirectory, InstallFat12, GetBuffer, ReadSectors
  <2> QED
    BY <2>1
<1>3. CASE user_input
  BY <1>3 DEF user_input, AllocMem, FreeMem, Interrupts
<1>4. CASE UNCHANGED startVars
  BY <1>4 DEF startVars
<1> QED
  BY <1>1, <1>2, <1>3, <1>4 DEF StartNext

(***************************************************************************)
(* For every computer, layout and user, also with the allocations and the  *)
(* interrupts in between: the list of devices is made of functions that    *)
(* are there, none twice, none but function 0 without function 0 before    *)
(* it, and with one host no device of bus 0 is missed (kern_pci.c:57-103). *)
(***************************************************************************)
THEOREM StartUpFinds == StartSpec => []SearchFinds
<1>1. StartInit => PciInv
  BY InitPciInv DEF StartInit
<1>2. PciInv /\ [StartNext]_startVars => PciInv'
  BY StartStepIsPci, NextPciInv
<1> QED
  BY <1>1, <1>2, PciInvMeans, PTL DEF StartSpec

-----------------------------------------------------------------------------
(***************************************************************************)
(* The words of a run.  Runs with no block in common have no word in       *)
(* common, and a grant has all the words that were asked for.              *)
(***************************************************************************)
Extent(run) == Address(run.begin)..(Address(run.end + 1) - 1)

Covers(run, n) == Address(run.begin) + n <= Address(run.end + 1)

LEMMA AddressesRise ==
  /\ \A b \in Nat : Address(b) \in Nat
  /\ \A b, e \in Nat : b <= e => Address(b) <= Address(e)
  /\ \A b, e \in Nat : b < e => Address(b) < Address(e)
<1>1. \A b \in Nat : b * BlockLength \in Nat
  BY LayoutAssumption
<1>2. \A b, e \in Nat : b <= e => b * BlockLength <= e * BlockLength
  BY LayoutAssumption
<1>3. \A b, e \in Nat : b < e => b * BlockLength < e * BlockLength
  BY LayoutAssumption
<1> QED
  BY <1>1, <1>2, <1>3, LayoutAssumption DEF Address

\* A grant as a run, its words in the table's memory
LEMMA RunWords ==
  ASSUME NEW run \in Runs, run.begin <= run.end
  PROVE  /\ run.begin \in Nat /\ run.end \in Nat
         /\ Address(run.begin) \in Nat /\ Address(run.end + 1) \in Nat
         /\ Address(run.begin) \in Extent(run)
         /\ Extent(run) \subseteq Words
<1>1. /\ run.begin \in Nat /\ run.end \in Nat
      /\ run.end + 1 \in Nat /\ run.end + 1 <= NumEntries /\ NumEntries \in Nat
  BY LayoutAssumption DEF Runs, Entries
<1>2. /\ Address(run.begin) \in Nat /\ Address(run.end + 1) \in Nat
      /\ Address(run.begin) < Address(run.end + 1)
      /\ Address(run.end + 1) <= Address(NumEntries) /\ Address(NumEntries) \in Nat
  BY <1>1, AddressesRise
<1>3. Limit = Address(NumEntries)
  BY DEF Limit, Address
<1>4. \A at \in Extent(run) : at \in Words
  BY <1>2, <1>3 DEF Extent, Words
<1> QED
  BY <1>1, <1>2, <1>4 DEF Extent

LEMMA ExtentsApart ==
  ASSUME NEW run \in Runs, run.begin <= run.end,
         NEW other \in Runs, other.begin <= other.end,
         Blocks(run) \cap Blocks(other) = {}
  PROVE  Extent(run) \cap Extent(other) = {}
<1>1. /\ run.begin \in Nat /\ run.end \in Nat /\ run.end + 1 \in Nat
      /\ other.begin \in Nat /\ other.end \in Nat /\ other.end + 1 \in Nat
      /\ Address(run.begin) \in Nat /\ Address(run.end + 1) \in Nat
      /\ Address(other.begin) \in Nat /\ Address(other.end + 1) \in Nat
  BY RunWords, AddressesRise
<1>2. CASE run.end < other.begin
  <2>1. Address(run.end + 1) <= Address(other.begin)
    BY <1>1, <1>2, AddressesRise
  <2> QED
    BY <1>1, <2>1 DEF Extent
<1>3. CASE other.end < run.begin
  <2>1. Address(other.end + 1) <= Address(run.begin)
    BY <1>1, <1>3, AddressesRise
  <2> QED
    BY <1>1, <2>1 DEF Extent
<1>4. CASE run.end >= other.begin /\ other.end >= run.begin
  <2>1. \/ run.begin \in Blocks(run) \cap Blocks(other)
        \/ other.begin \in Blocks(run) \cap Blocks(other)
    BY <1>1, <1>4 DEF Blocks
  <2> QED
    BY <2>1
<1> QED
  BY <1>1, <1>2, <1>3, <1>4

\* A hole is marked as far as the request needs
LEMMA GrantCovers ==
  ASSUME TableOK, Partition, NEW size \in Nat, Granted(size),
         NEW b \in Nat, b = BestFit(size),
         NEW e \in Nat, e = AllocateEnd(size, b), b <= e
  PROVE  Address(b) + size <= Address(e + 1)
<1>1. size <= (e - b + 1) * BlockLength
  <2>1. CASE size < BlockLength
    <3>1. e = b
      BY <2>1 DEF AllocateEnd
    <3>2. (e - b + 1) * BlockLength = BlockLength
      BY <3>1, LayoutAssumption
    <3> QED
      BY <2>1, <3>2, LayoutAssumption
  <2>2. CASE ~ (size < BlockLength)
    <3> DEFINE enough == {n \in b..ListEnd : size <= (n - b + 1) * BlockLength}
    <3>1. b \in Entries /\ firstContig[b] = b /\ HoleSize(b) >= size
      <4>1. b \in Visited /\ HoleSize(b) >= size
        BY BestFitIsAHole DEF Granted, Holes
      <4> QED
        BY <4>1, VisitedStartRuns, EntriesAreNat
    <3>2. lastContig[b] \in enough
      <4>1. PICK n \in Nat : n = lastContig[b] /\ n \in b..ListEnd
        BY <3>1, FieldsAreEntries
      <4>2. PICK m \in Nat : m = (n - b + 1) * BlockLength
        <5>1. n - b + 1 \in Nat
          BY <4>1
        <5> QED
          BY <5>1, LayoutAssumption
      <4>3. size <= m
        BY <3>1, <4>1, <4>2 DEF HoleSize
      <4> QED
        BY <4>1, <4>2, <4>3
    <3>3. e = Min(enough \cup {ListEnd})
      BY <2>2 DEF AllocateEnd
    <3>4. enough \subseteq b..ListEnd /\ b..ListEnd \subseteq Nat /\ ListEnd \in Nat
      BY EntriesAreNat
    <3>5. \A n \in enough : /\ size <= (n - b + 1) * BlockLength
                            /\ n \in Nat /\ n <= ListEnd
      BY EntriesAreNat
    <3> HIDE DEF enough
    <3>6. e \in enough \cup {ListEnd} /\ e <= lastContig[b]
      BY <3>2, <3>3, <3>4, MinOfNat
    <3>7. e \in enough
      <4>1. PICK n \in enough : n = lastContig[b] /\ n \in Nat /\ n <= ListEnd
        BY <3>2, <3>5
      <4>2. e <= n
        BY <3>6, <4>1
      <4> QED
        BY <3>4, <3>6, <4>1, <4>2
    <3> QED
      BY <3>5, <3>7
  <2> QED
    BY <2>1, <2>2
<1>2. PICK k \in Nat : k = e - b + 1 /\ e + 1 = b + k
  OBVIOUS
<1>3. (b + k) * BlockLength = b * BlockLength + k * BlockLength
  BY LayoutAssumption
<1>4. b * BlockLength \in Nat /\ k * BlockLength \in Nat
  BY LayoutAssumption
<1> QED
  BY <1>1, <1>2, <1>3, <1>4, LayoutAssumption DEF Address

\* What a call of mm_allocate adds to the grants
LEMMA FreshGrant ==
  ASSUME QuietInv, NEW here \in Allocating, Gets(here), QuietInv'
  PROVE  \E new \in Runs :
           /\ new \notin live /\ live' = live \cup {new}
           /\ new.begin <= new.end /\ hole = new.begin
           /\ Covers(new, Request)
           /\ \A run \in live : Extent(run) \cap Extent(new) = {}
<1>1. PICK size \in Nat : /\ size = Request /\ Granted(size) /\ hole = BestFit(size)
                          /\ ~Booting
  BY RequestIsNat DEF Gets, QuietInv, HoleWaits, Allocating
<1>2. TableOK /\ Partition /\ Ready
  BY <1>1, IInvTable DEF QuietInv, SafeInv, Ready, NoWild
<1>3. PICK b, e \in Entries :
        /\ b = BestFit(size) /\ e = AllocateEnd(size, b) /\ b <= e
        /\ firstContig[b] = b /\ type[b] = Avail /\ e <= lastContig[b]
  BY <1>1, <1>2, GrantInHole
<1>4. PICK new \in Runs : new = [begin |-> b, end |-> e]
  BY DEF Runs
<1>5. live' = live \cup {new}
  <2>1. MarkBlocks(size, b)
    BY <1>1, <1>3 DEF Gets
  <2>2. \A past : ~AllocateRunsAway(size, b, e, past)
    BY <1>1, <1>2, <1>3, AllocateNeverRunsAway DEF QuietInv
  <2> QED
    BY <1>3, <1>4, <2>1, <2>2 DEF MarkBlocks
<1>6. b \in Nat /\ e \in Nat /\ b \in Blocks(new)
  BY <1>3, <1>4, EntriesAreNat DEF Blocks
<1>7. new \notin live
  BY <1>3, <1>6 DEF QuietInv, SafeInv, Accounting, Avail, Resrv
<1>8. \A run \in live : Extent(run) \cap Extent(new) = {}
  <2> SUFFICES ASSUME NEW run \in live PROVE Extent(run) \cap Extent(new) = {}
    OBVIOUS
  <2>1. run \in Runs /\ run.begin <= run.end /\ new.begin <= new.end
    BY <1>3, <1>4 DEF QuietInv, SafeInv, IInv, TypeOK, LiveAreRuns
  <2>2. Blocks(run) \cap Blocks(new) = {}
    <3>1. \A r, o \in live' : r # o => Blocks(r) \cap Blocks(o) = {}
      BY DEF QuietInv, SafeInv, Accounting, Blocks
    <3> QED
      BY <1>5, <1>7, <3>1
  <2> QED
    BY <2>1, <2>2, ExtentsApart
<1>9. Covers(new, size)
  BY <1>1, <1>2, <1>3, <1>4, <1>6, GrantCovers DEF Covers
<1> QED
  BY <1>1, <1>3, <1>4, <1>5, <1>7, <1>8, <1>9

-----------------------------------------------------------------------------
(***************************************************************************)
(* The list of devices.  Its elements are in a run of kernel_main's, and   *)
(* each of them points to the first word of another one, where the struct  *)
(* of the function visited then is.                                        *)
(***************************************************************************)
Kept == live \ mine

ListIn(run) ==
  /\ list.array = Address(run.begin) /\ Covers(run, list.size)
  /\ list.used <= list.size
  /\ \A i \in 1..list.used : \E other \in Kept \ {run} :
       /\ ram[list.array + (i - 1)] = <<Address(other.begin)>>
       /\ ram[Address(other.begin)] = visited[i]

\* The struct of the function visited last, not in the list yet
DeviceBeside(run) ==
  \E other \in Kept \ {run} :
    /\ dev = Address(other.begin) /\ ram[Address(other.begin)] = Last(visited)

Early     == {"memory", "struct", "array"}
Inserting == {"grow", "free", "insert"}

Pending == IF place \in {"device", "grow", "free", "insert"} THEN 1 ELSE 0

ListInv ==
  /\ DOMAIN ram = Words
  /\ list \in [array : Nat, used : Nat, size : Nat]
  /\ place \in Early => list.used = 0
  /\ place \notin Early \cup {"null"} =>
       \E run \in Kept : ListIn(run) /\ (place \in Inserting => DeviceBeside(run))
  /\ list.used = 0 \/ \E run \in Kept : ListIn(run)
  /\ place # "null" => Len(visited) = list.used + Pending
  /\ place = "insert" => list.used < list.size

LEMMA GrantFields ==
  ASSUME QuietInv, NEW run \in live
  PROVE  /\ run \in Runs /\ run.begin <= run.end
         /\ Address(run.begin) \in Nat /\ Address(run.begin) \in Extent(run)
         /\ Extent(run) \subseteq Words
<1>1. run \in Runs /\ run.begin <= run.end
  BY DEF QuietInv, SafeInv, IInv, TypeOK, LiveAreRuns
<1> QED
  BY <1>1, RunWords

LEMMA GrantsApart ==
  ASSUME QuietInv, NEW run \in live, NEW other \in live, run # other
  PROVE  Extent(run) \cap Extent(other) = {}
<1>1. Blocks(run) \cap Blocks(other) = {}
  BY DEF QuietInv, SafeInv, Accounting
<1> QED
  BY <1>1, GrantFields, ExtentsApart

\* Where the elements are
LEMMA ElementWords ==
  ASSUME QuietInv, ListInv, NEW run \in Kept, ListIn(run),
         NEW n \in Nat, n < list.size
  PROVE  list.array + n \in Extent(run)
<1>1. run \in live /\ Address(run.begin) \in Nat
  BY GrantFields DEF Kept
<1>2. Address(run.end + 1) \in Nat
  BY <1>1, GrantFields, RunWords
<1>3. list.size \in Nat
  BY DEF ListInv
<1> QED
  BY <1>1, <1>2, <1>3 DEF ListIn, Covers, Extent

\* Memory that is written in none of kernel_main's runs keeps the list
LEMMA ListStays ==
  ASSUME QuietInv, ListInv, NEW run \in Kept, ListIn(run),
         Kept \subseteq Kept', UNCHANGED list,
         \A i \in 1..list.used : visited'[i] = visited[i],
         \A grant \in Kept : \A at \in Extent(grant) : ram'[at] = ram[at]
  PROVE  run \in Kept' /\ ListIn(run)'
<1>1. \A i \in 1..list.used : \E other \in Kept' \ {run} :
        /\ ram'[list.array + (i - 1)] = <<Address(other.begin)>>
        /\ ram'[Address(other.begin)] = visited'[i]
  <2> SUFFICES ASSUME NEW i \in 1..list.used
               PROVE  \E other \in Kept' \ {run} :
                        /\ ram'[list.array + (i - 1)] = <<Address(other.begin)>>
                        /\ ram'[Address(other.begin)] = visited'[i]
    OBVIOUS
  <2>1. PICK other \in Kept \ {run} :
          /\ ram[list.array + (i - 1)] = <<Address(other.begin)>>
          /\ ram[Address(other.begin)] = visited[i]
    BY DEF ListIn
  <2>2. i - 1 \in Nat /\ i - 1 < list.size
    BY DEF ListIn, ListInv
  <2>3. list.array + (i - 1) \in Extent(run)
    BY <2>2, ElementWords
  <2>4. Address(other.begin) \in Extent(other)
    BY <2>1, GrantFields DEF Kept
  <2> QED
    BY <2>1, <2>3, <2>4
<1> QED
  BY <1>1 DEF ListIn, Covers, Address

LEMMA DeviceStays ==
  ASSUME QuietInv, NEW run \in Kept, DeviceBeside(run),
         Kept \subseteq Kept', UNCHANGED <<dev, visited>>,
         \A grant \in Kept : \A at \in Extent(grant) : ram'[at] = ram[at]
  PROVE  DeviceBeside(run)'
<1>1. PICK other \in Kept \ {run} :
        /\ dev = Address(other.begin) /\ ram[Address(other.begin)] = Last(visited)
  BY DEF DeviceBeside
<1>2. Address(other.begin) \in Extent(other)
  BY <1>1, GrantFields DEF Kept
<1>3. /\ other \in Kept' \ {run} /\ dev' = Address(other.begin)
      /\ ram'[Address(other.begin)] = Last(visited')
  BY <1>1, <1>2
<1> QED
  BY <1>3 DEF DeviceBeside, Address

\* Steps that leave the list, its memory and the search alone
LEMMA ListUntouched ==
  ASSUME QuietInv, ListInv, UNCHANGED <<ram, list, visited, dev>>,
         Kept \subseteq Kept',
         \/ place' = place
         \/ place' = "null"
         \/ place \in Early /\ place' \in Early
         \/ /\ place \notin Early \cup Inserting \cup {"device", "null"}
            /\ place' \notin Early \cup Inserting \cup {"device"}
  PROVE  ListInv'
<1>1. ASSUME NEW run \in Kept, ListIn(run)
      PROVE  run \in Kept' /\ ListIn(run)'
  BY <1>1, ListStays
<1>2. ASSUME NEW run \in Kept, DeviceBeside(run)
      PROVE  DeviceBeside(run)'
  BY <1>2, DeviceStays
<1>3. list'.used = 0 \/ \E run \in Kept' : ListIn(run)'
  BY <1>1 DEF ListInv
<1>4. place' \notin Early \cup {"null"} =>
        \E run \in Kept' : ListIn(run)' /\ (place' \in Inserting => DeviceBeside(run)')
  <2> SUFFICES ASSUME place' \notin Early \cup {"null"}
               PROVE  \E run \in Kept' :
                        ListIn(run)' /\ (place' \in Inserting => DeviceBeside(run)')
    OBVIOUS
  <2>1. place \notin Early \cup {"null"} /\ (place' \in Inserting => place \in Inserting)
    BY DEF Early, Inserting
  <2>2. PICK run \in Kept : ListIn(run) /\ (place \in Inserting => DeviceBeside(run))
    BY <2>1 DEF ListInv
  <2> QED
    BY <1>1, <1>2, <2>1, <2>2
<1>5. place' # "null" => Pending' = Pending
  BY DEF Pending, Early, Inserting
<1>6. place' = "insert" => list.used < list.size
  BY DEF ListInv, Early, Inserting
<1>7. place' \in Early => list.used = 0
  BY DEF ListInv, Early, Inserting
<1> QED
  BY <1>3, <1>4, <1>5, <1>6, <1>7 DEF ListInv, Early, Inserting

-----------------------------------------------------------------------------
(* The steps that touch the list *)

\* kernel_main's calls of mm_allocate add to what it has
LEMMA KeptGrows ==
  ASSUME QuietInv, UNCHANGED mine, live \subseteq live'
  PROVE  Kept \subseteq Kept'
BY DEF Kept

LEMMA FreshKept ==
  ASSUME QuietInv, NEW here \in Allocating, Gets(here), QuietInv', UNCHANGED mine
  PROVE  \E new \in Kept' :
           /\ Kept \subseteq Kept' /\ new \notin Kept /\ hole = new.begin
           /\ Covers(new, Request)
           /\ Address(new.begin) \in Nat /\ Address(new.end + 1) \in Nat
           /\ Address(new.begin) \in Extent(new) /\ Extent(new) \subseteq Words
           /\ \A run \in Kept : Extent(run) \cap Extent(new) = {}
<1>1. PICK new \in Runs :
        /\ new \notin live /\ live' = live \cup {new}
        /\ new.begin <= new.end /\ hole = new.begin
        /\ Covers(new, Request)
        /\ \A run \in live : Extent(run) \cap Extent(new) = {}
  BY FreshGrant
<1>2. new \in Kept' /\ new \notin Kept /\ Kept \subseteq Kept'
  BY <1>1 DEF Kept, QuietInv
<1>3. \A run \in Kept : Extent(run) \cap Extent(new) = {}
  BY <1>1 DEF Kept
<1> QED
  BY <1>1, <1>2, <1>3, RunWords

LEMMA InitArrayList ==
  ASSUME QuietInv, ListInv, PciInv, initArray, QuietInv'
  PROVE  ListInv'
<1>1. /\ place = "array" /\ place' = "enumerate" /\ Gets("array")
      /\ list' = [array |-> Address(hole), used |-> 0, size |-> InitialSize]
      /\ UNCHANGED <<mine, ram, visited, dev>>
  BY DEF initArray, Gets, ArrayAt, pciVars, userVars
<1>2. list.used = 0 /\ Len(visited) = 0
  BY <1>1 DEF ListInv, Early, Pending
<1>3. PICK new \in Kept' :
        /\ hole = new.begin /\ Covers(new, Request) /\ Address(new.begin) \in Nat
  BY <1>1, FreshKept DEF Allocating
<1>4. Request = InitialSize /\ InitialSize \in Nat
  BY <1>1, StartUpAssumption DEF Request
<1>5. list' \in [array : Nat, used : Nat, size : Nat]
  BY <1>1, <1>3, <1>4
<1>6. ListIn(new)'
  BY <1>1, <1>3, <1>4 DEF ListIn, Covers, Address
<1> QED
  BY <1>1, <1>2, <1>3, <1>5, <1>6 DEF ListInv, Early, Inserting, Pending

LEMMA EnumerateList ==
  ASSUME QuietInv, ListInv, PciInv, Enumerate
  PROVE  ListInv'
<1>1. /\ place = "enumerate" /\ UNCHANGED <<mine, live, ram, list, dev>>
  BY DEF Enumerate, memoryVars, vars, listVars, userVars
<1>2. Kept \subseteq Kept'
  BY <1>1 DEF Kept
<1>3. CASE UNCHANGED visited /\ place' \in {"enumerate", "select"}
  BY <1>1, <1>2, <1>3, ListUntouched DEF Early, Inserting
<1>4. CASE CheckFunction /\ place' = "device"
  <2>1. PICK f : visited' = Append(visited, f)
    BY <1>4 DEF CheckFunction
  <2>2. /\ visited \in Seq(Functions) /\ Len(visited) \in Nat
        /\ list.used \in Nat /\ Len(visited) = list.used
    BY <1>1 DEF PciInv, ListInv, Pending
  <2>3. Len(visited') = Len(visited) + 1 /\ \A i \in 1..list.used : visited'[i] = visited[i]
    BY <2>1, <2>2
  <2>4. PICK run \in Kept : ListIn(run)
    BY <1>1 DEF ListInv, Early
  <2>5. run \in Kept' /\ ListIn(run)'
    BY <1>1, <1>2, <2>3, <2>4, ListStays
  <2> QED
    BY <1>1, <1>4, <2>2, <2>3, <2>5 DEF ListInv, Early, Inserting, Pending
<1>5. \/ UNCHANGED visited /\ place' \in {"enumerate", "select"}
      \/ CheckFunction /\ place' = "device"
  BY <1>1 DEF Enumerate, CheckHostBus, SkipFunction, ReturnFromBus, pciVars
<1> QED
  BY <1>3, <1>4, <1>5

LEMMA WriteDeviceList ==
  ASSUME QuietInv, ListInv, PciInv, WriteDevice, QuietInv'
  PROVE  ListInv'
<1>1. /\ place = "device" /\ Gets("device") /\ dev' = Address(hole)
      /\ ram' = [ram EXCEPT ![Address(hole)] = Last(visited)]
      /\ place' = IF IsFull(list) THEN "grow" ELSE "insert"
      /\ UNCHANGED <<mine, list, visited>>
  BY DEF WriteDevice, Gets, pciVars, userVars
<1>2. PICK new \in Kept' :
        /\ Kept \subseteq Kept' /\ new \notin Kept /\ hole = new.begin
        /\ Address(new.begin) \in Extent(new) /\ Extent(new) \subseteq Words
        /\ \A run \in Kept : Extent(run) \cap Extent(new) = {}
  BY <1>1, FreshKept DEF Allocating
<1>3. \A grant \in Kept : \A at \in Extent(grant) : ram'[at] = ram[at]
  <2> SUFFICES ASSUME NEW grant \in Kept, NEW at \in Extent(grant) PROVE ram'[at] = ram[at]
    OBVIOUS
  <2>1. at # Address(new.begin)
    BY <1>2
  <2>2. at \in Words
    BY GrantFields DEF Kept
  <2> QED
    BY <1>1, <1>2, <2>1, <2>2 DEF ListInv
<1>4. PICK run \in Kept : ListIn(run)
  BY <1>1 DEF ListInv, Early
<1>5. run \in Kept' /\ ListIn(run)'
  BY <1>1, <1>2, <1>3, <1>4, ListStays
<1>6. DeviceBeside(run)'
  <2>1. ram'[Address(new.begin)] = Last(visited)
    BY <1>1, <1>2 DEF ListInv
  <2>2. new \in Kept' \ {run} /\ dev' = Address(new.begin)
    BY <1>1, <1>2, <1>4
  <2> QED
    BY <1>1, <2>1, <2>2 DEF DeviceBeside, Address
<1>7. place' = "insert" => list.used < list.size
  BY <1>1, <1>4 DEF IsFull, ListIn, ListInv
<1>8. /\ DOMAIN ram' = Words /\ list' \in [array : Nat, used : Nat, size : Nat]
      /\ Len(visited) = list.used + 1
  BY <1>1 DEF ListInv, Pending
<1> QED
  BY <1>1, <1>5, <1>6, <1>7, <1>8 DEF ListInv, Early, Inserting, Pending

\* While the list is copied the old one is still in use
LEMMA CopyListList ==
  ASSUME QuietInv, ListInv, CopyList, QuietInv'
  PROVE  ListInv'
<1>1. /\ place = "grow" /\ Gets("grow") /\ place' = "free"
      /\ ram' = Copied(ram, list, Address(hole))
      /\ UNCHANGED <<mine, list, visited, dev>>
  BY DEF CopyList, Gets, pciVars, userVars
<1>2. PICK new \in Kept' :
        /\ Kept \subseteq Kept' /\ hole = new.begin
        /\ Covers(new, Request)
        /\ Address(new.begin) \in Nat /\ Address(new.end + 1) \in Nat
        /\ \A run \in Kept : Extent(run) \cap Extent(new) = {}
  BY <1>1, FreshKept DEF Allocating
<1>3. list.size \in Nat /\ Request = 2 * list.size
  BY <1>1 DEF ListInv, Request, GrownSize
<1>4. \A grant \in Kept : \A at \in Extent(grant) : ram'[at] = ram[at]
  <2> SUFFICES ASSUME NEW grant \in Kept, NEW at \in Extent(grant) PROVE ram'[at] = ram[at]
    OBVIOUS
  <2>1. at \in Words /\ at \notin Extent(new)
    BY <1>2, GrantFields DEF Kept
  <2>2. at \notin Address(new.begin)..(Address(new.begin) + list.size - 1)
    BY <1>2, <1>3, <2>1 DEF Covers, Extent
  <2> QED
    BY <1>1, <1>2, <2>1, <2>2 DEF Copied, ListInv
<1>5. PICK run \in Kept : ListIn(run) /\ DeviceBeside(run)
  BY <1>1 DEF ListInv, Early, Inserting
<1>6. run \in Kept' /\ ListIn(run)'
  BY <1>1, <1>2, <1>4, <1>5, ListStays
<1>7. DeviceBeside(run)'
  BY <1>1, <1>2, <1>4, <1>5, DeviceStays
<1>8. DOMAIN ram' = Words /\ Len(visited) = list.used + 1
  BY <1>1 DEF Copied, ListInv, Pending
<1> QED
  BY <1>1, <1>6, <1>7, <1>8 DEF ListInv, Early, Inserting, Pending

LEMMA InsertDeviceList ==
  ASSUME QuietInv, ListInv, PciInv, InsertDevice
  PROVE  ListInv'
<1> DEFINE end == list.array + list.used
<1>1. /\ place = "insert" /\ place' = "enumerate"
      /\ ram' = [ram EXCEPT ![end] = <<dev>>]
      /\ list' = [list EXCEPT !.used = @ + 1]
      /\ UNCHANGED <<mine, live, visited>>
  BY DEF InsertDevice, Inserted, Longer, memoryVars, vars, pciVars, userVars
<1>2. PICK run \in Kept : ListIn(run) /\ DeviceBeside(run)
  BY <1>1 DEF ListInv, Early, Inserting
<1>3. /\ list.array \in Nat /\ list.used \in Nat /\ list.size \in Nat
      /\ list.used < list.size
      /\ Len(visited) = list.used + 1
      /\ list'.array = list.array /\ list'.used = list.used + 1
      /\ list'.size = list.size /\ list' \in [array : Nat, used : Nat, size : Nat]
      /\ DOMAIN ram = Words /\ DOMAIN ram' = Words
  BY <1>1 DEF ListInv, Pending
<1>4. end \in Extent(run) /\ end \in Words
  <2>1. end \in Extent(run)
    BY <1>2, <1>3, ElementWords
  <2> QED
    BY <2>1, GrantFields DEF Kept
<1>5. \A other \in Kept \ {run} : /\ Address(other.begin) # end
                                 /\ Address(other.begin) \in Words
  <2> SUFFICES ASSUME NEW other \in Kept \ {run}
               PROVE  Address(other.begin) # end /\ Address(other.begin) \in Words
    OBVIOUS
  <2>1. Address(other.begin) \in Extent(other) /\ Extent(other) \subseteq Words
    BY GrantFields DEF Kept
  <2>2. Extent(run) \cap Extent(other) = {}
    BY GrantsApart DEF Kept
  <2> QED
    BY <1>4, <2>1, <2>2
<1> HIDE DEF end
<1>6. \A at \in Words : at # end => ram'[at] = ram[at]
  BY <1>1, <1>3
<1>7. ram'[end] = <<dev>>
  BY <1>1, <1>3, <1>4
<1>8. \A i \in 1..(list.used + 1) : \E other \in Kept \ {run} :
        /\ ram'[list.array + (i - 1)] = <<Address(other.begin)>>
        /\ ram'[Address(other.begin)] = visited[i]
  <2> SUFFICES ASSUME NEW i \in 1..(list.used + 1)
               PROVE  \E other \in Kept \ {run} :
                        /\ ram'[list.array + (i - 1)] = <<Address(other.begin)>>
                        /\ ram'[Address(other.begin)] = visited[i]
    OBVIOUS
  <2>1. CASE i \in 1..list.used
    <3>1. PICK other \in Kept \ {run} :
            /\ ram[list.array + (i - 1)] = <<Address(other.begin)>>
            /\ ram[Address(other.begin)] = visited[i]
      BY <1>2, <2>1 DEF ListIn
    <3>2. list.array + (i - 1) \in Extent(run)
      BY <1>2, <1>3, <2>1, ElementWords
    <3>3. list.array + (i - 1) \in Words /\ list.array + (i - 1) # end
      BY <1>3, <2>1, <3>2, GrantFields DEF Kept, end
    <3> QED
      BY <1>5, <1>6, <3>1, <3>3
  <2>2. CASE i = list.used + 1
    <3>1. PICK other \in Kept \ {run} :
            dev = Address(other.begin) /\ ram[Address(other.begin)] = Last(visited)
      BY <1>2 DEF DeviceBeside
    <3>2. Last(visited) = visited[i] /\ list.array + (i - 1) = end
      BY <1>3, <2>2 DEF Last, end
    <3> QED
      BY <1>5, <1>6, <1>7, <3>1, <3>2
  <2> QED
    BY <1>3, <2>1, <2>2
<1>9. Kept' = Kept
  BY <1>1 DEF Kept
<1>10. ListIn(run)'
  <2>1. list'.array = Address(run.begin) /\ Covers(run, list'.size)
    BY <1>2, <1>3 DEF ListIn
  <2>2. list'.used <= list'.size
    BY <1>3
  <2>3. \A i \in 1..list'.used : \E other \in Kept' \ {run} :
          /\ ram'[list'.array + (i - 1)] = <<Address(other.begin)>>
          /\ ram'[Address(other.begin)] = visited'[i]
    <3>1. /\ list'.used = list.used + 1 /\ list'.array = list.array
          /\ visited' = visited /\ Kept' = Kept
      BY <1>1, <1>3, <1>9
    <3> QED
      BY <1>8, <3>1, Zenon
  <2> QED
    BY <2>1, <2>2, <2>3, Zenon DEF ListIn, Covers, Address
<1> QED
  BY <1>1, <1>3, <1>9, <1>10 DEF ListInv, Early, Inserting, Pending

LEMMA MainList ==
  ASSUME QuietInv, ListInv, PciInv, kernel_main, QuietInv', ~grown'
  PROVE  ListInv'
<1> USE DEF pciVars, listVars, diskVars, userVars
<1>1. CASE PrepareMemory \/ FindHole
  <2>1. UNCHANGED <<ram, list, visited, dev, live, mine>>
    BY <1>1 DEF PrepareMemory, BootEntry, FindHole, memoryVars, vars
  <2>2. Kept \subseteq Kept'
    BY <2>1 DEF Kept
  <2>3. CASE PrepareMemory
    <3>1. place \in Early /\ place' \in Early
      BY <2>3 DEF PrepareMemory, Early
    <3> QED
      BY <2>1, <2>2, <3>1, ListUntouched
  <2>4. CASE FindHole
    <3>1. place' = place \/ place' = "null"
      BY <2>4 DEF FindHole
    <3> QED
      BY <2>1, <2>2, <3>1, ListUntouched
  <2> QED
    BY <1>1, <2>3, <2>4
<1>2. CASE GetStruct
  <2>1. UNCHANGED <<ram, list, visited, dev, mine>> /\ Gets("struct")
    BY <1>2 DEF GetStruct
  <2>2. Kept \subseteq Kept'
    BY <2>1, GetsSafe, KeptGrows DEF Allocating
  <2>3. place \in Early /\ place' \in Early
    BY <1>2 DEF GetStruct, Gets, Early
  <2> QED
    BY <2>1, <2>2, <2>3, ListUntouched
<1>3. CASE initArray
  BY <1>3, InitArrayList
<1>4. CASE Enumerate
  BY <1>4, EnumerateList
<1>5. CASE WriteDevice
  BY <1>5, WriteDeviceList
<1>6. CASE CopyList
  BY <1>6, CopyListList
<1>7. CASE FreeList
  BY <1>7 DEF FreeList
<1>8. CASE InsertDevice
  BY <1>8, InsertDeviceList
<1>9. CASE \/ SelectReader
           \/ \E here \in {"read mbr", "read fat", "read root"} :
                \E buffer, sectors : \E next \in {"fat", "root", "info", "spin"} :
                  ReadSectors(here, buffer, sectors, next)
  <2>1. /\ UNCHANGED <<ram, list, visited, dev, live, mine>>
        /\ place \in {"select", "read mbr", "read fat", "read root"}
        /\ place' = place \/ place' \in {"mbr", "fat", "root", "info", "spin"}
    BY <1>9 DEF SelectReader, ReadSectors, memoryVars, vars
  <2>2. Kept \subseteq Kept'
    BY <2>1 DEF Kept
  <2> QED
    BY <2>1, <2>2, ListUntouched DEF Early, Inserting
<1>10. CASE \/ InstallFat12
            \/ GetBuffer("mbr", "read mbr")
            \/ GetBuffer("fat", "read fat")
            \/ GetBuffer("root", "read root")
  <2>1. PICK here \in Allocating : Gets(here) /\ here \in {"mbr", "fat", "root", "info"}
    BY <1>10 DEF InstallFat12, GetBuffer, Allocating
  <2>2. /\ UNCHANGED <<ram, list, visited, dev, mine>>
        /\ place \in {"mbr", "fat", "root", "info"}
        /\ place' \in {"read mbr", "read fat", "read root", "spin"}
    BY <1>10 DEF InstallFat12, GetBuffer, Gets
  <2>3. Kept \subseteq Kept'
    BY <2>1, <2>2, GetsSafe, KeptGrows
  <2> QED
    BY <2>2, <2>3, ListUntouched DEF Early, Inserting
<1>11. CASE LoadBootSector \/ LoadFat \/ LoadRootDirectory
  BY <1>9, <1>10, <1>11 DEF LoadBootSector, LoadFat, LoadRootDirectory
<1> QED
  BY <1>1, <1>2, <1>3, <1>4, <1>5, <1>6, <1>7, <1>8, <1>9, <1>10, <1>11
  DEF kernel_main

\* The user's commands only touch the user's grants
LEMMA UserList ==
  ASSUME QuietInv, ListInv, user_input
  PROVE  ListInv'
<1>1. Interrupts
  BY DEF user_input, AllocMem, FreeMem
<1>2. UNCHANGED <<ram, list, visited, dev, place>>
  BY <1>1 DEF Interrupts, pciVars, listVars
<1>3. Kept \subseteq Kept'
  <2>1. CASE \E size \in Sizes : AllocMem(size)
    <3>1. PICK size \in Sizes : AllocMem(size)
      BY <2>1
    <3>2. live \subseteq live' /\ mine' = mine \cup (live' \ live)
      BY <3>1 DEF AllocMem, MarkBlocks, memoryVars, vars
    <3> QED
      BY <3>2 DEF Kept
  <2>2. CASE \E run \in mine : FreeMem(run)
    <3>1. PICK run \in mine : FreeMem(run)
      BY <2>2
    <3>2. live \ {run} \subseteq live' /\ mine' = mine \ {run}
      BY <3>1, FreeMemReleases DEF FreeMem
    <3> QED
      BY <3>2 DEF Kept
  <2> QED
    BY <2>1, <2>2 DEF user_input
<1> QED
  BY <1>2, <1>3, ListUntouched

-----------------------------------------------------------------------------
(* The choice of the disk driver *)

SeesController == \E i \in DOMAIN visited : IsDiskController(visited[i])

ReaderInv == place \in Selected => (reader <=> SeesController)

\* Element i of the list is the i-th function that was visited
LEMMA ListMeans ==
  ASSUME QuietInv, ListInv
  PROVE  \A i \in 1..list.used : DeviceOf(i - 1) = visited[i]
<1> SUFFICES ASSUME NEW i \in 1..list.used PROVE DeviceOf(i - 1) = visited[i]
  OBVIOUS
<1>1. list.used # 0
  BY DEF ListInv
<1>2. PICK run \in Kept : ListIn(run)
  BY <1>1 DEF ListInv
<1>3. PICK other \in Kept \ {run} :
        /\ ram[list.array + (i - 1)] = <<Address(other.begin)>>
        /\ ram[Address(other.begin)] = visited[i]
  BY <1>2 DEF ListIn
<1>4. i - 1 \in Nat /\ i - 1 < list.size
  BY <1>2 DEF ListIn, ListInv
<1>5. list.array + (i - 1) \in DOMAIN ram
  BY <1>2, <1>4, ElementWords, GrantFields DEF Kept, ListInv
<1> QED
  BY <1>3, <1>5 DEF DeviceOf, ElementOf, WordAt

LEMMA SelectMeans ==
  ASSUME QuietInv, ListInv, PciInv, SelectReader
  PROVE  reader' <=> SeesController
<1>1. PICK yes \in [0..(list.used - 1) -> BOOLEAN] :
        /\ \A i \in DOMAIN yes : Taken(i, yes[i])
        /\ reader' = \E i \in DOMAIN yes : yes[i]
  BY DEF SelectReader
<1>2. place = "select"
  BY DEF SelectReader
<1>3. /\ Len(visited) = list.used /\ list.used \in Nat
      /\ DOMAIN visited = 1..list.used
  BY <1>2 DEF ListInv, Pending, PciInv
<1>4. \A i \in 0..(list.used - 1) : yes[i] <=> IsDiskController(visited[i + 1])
  <2> SUFFICES ASSUME NEW i \in 0..(list.used - 1)
               PROVE  yes[i] <=> IsDiskController(visited[i + 1])
    OBVIOUS
  <2>1. i + 1 \in 1..list.used /\ (i + 1) - 1 = i
    BY <1>3
  <2>2. DeviceOf(i) = visited[i + 1]
    BY <2>1, ListMeans
  <2>3. Len(visited[i + 1]) = 3
    <3>1. visited[i + 1] \in Functions
      BY <1>3, <2>1 DEF PciInv
    <3> QED
      BY <3>1 DEF Functions
  <2>4. Taken(i, yes[i])
    BY <1>1
  <2> QED
    BY <2>2, <2>3, <2>4 DEF Taken
<1>5. (\E i \in DOMAIN yes : yes[i]) <=> SeesController
  <2>1. ASSUME NEW i \in DOMAIN yes, yes[i] PROVE SeesController
    <3>1. i + 1 \in DOMAIN visited
      BY <1>3
    <3> QED
      BY <1>4, <2>1, <3>1 DEF SeesController
  <2>2. ASSUME NEW j \in DOMAIN visited, IsDiskController(visited[j])
        PROVE  \E i \in DOMAIN yes : yes[i]
    <3>1. j - 1 \in 0..(list.used - 1) /\ (j - 1) + 1 = j
      BY <1>3
    <3> QED
      BY <1>4, <2>2, <3>1
  <2> QED
    BY <2>1, <2>2 DEF SeesController
<1> QED
  BY <1>1, <1>5, Zenon

\* The driver once chosen stays, and nothing more is visited
LEMMA ReaderStays ==
  ASSUME [StartNext]_startVars, ~SelectReader
  PROVE  /\ UNCHANGED reader
         /\ place' \in Selected => place \in Selected /\ UNCHANGED <<machine, visited>>
<1> USE DEF pciVars, diskVars, Selected
<1>1. CASE PrepareMemory \/ GetStruct \/ initArray \/ WriteDevice \/ CopyList
           \/ FreeList \/ InsertDevice
  BY <1>1 DEF PrepareMemory, GetStruct, initArray, WriteDevice, CopyList, FreeList,
    InsertDevice
<1>2. CASE FindHole
  BY <1>2 DEF FindHole, Allocating
<1>3. CASE Enumerate
  BY <1>3 DEF Enumerate
<1>4. CASE LoadBootSector \/ LoadFat \/ LoadRootDirectory \/ InstallFat12
  BY <1>4 DEF LoadBootSector, LoadFat, LoadRootDirectory, InstallFat12, GetBuffer,
    ReadSectors, Gets
<1>5. CASE user_input
  <2>1. Interrupts
    BY <1>5 DEF user_input, AllocMem, FreeMem
  <2> QED
    BY <2>1 DEF Interrupts
<1>6. CASE UNCHANGED startVars
  BY <1>6 DEF startVars
<1> QED
  BY <1>1, <1>2, <1>3, <1>4, <1>5, <1>6 DEF StartNext, kernel_main

\* What is read of a function does not change
LEMMA SameController ==
  ASSUME UNCHANGED <<machine, visited>>
  PROVE  SeesController' <=> SeesController
<1>1. \A f : IsDiskController(f)' <=> IsDiskController(f)
  BY DEF IsDiskController, pciGetBaseClass, pciGetSubClass, pciGetProgIF, LowByte,
    Exists
<1>2. visited' = visited
  OBVIOUS
<1> QED
  BY <1>1, <1>2 DEF SeesController, IsDiskController, pciGetBaseClass,
    pciGetSubClass, pciGetProgIF, LowByte, Exists

LEMMA NextReaderInv ==
  ASSUME QuietInv, ListInv, PciInv, ReaderInv, [StartNext]_startVars
  PROVE  ReaderInv'
<1>1. CASE SelectReader
  <2>1. SeesController' <=> SeesController
    BY <1>1, SameController DEF SelectReader, pciVars
  <2>2. reader' <=> SeesController
    BY <1>1, SelectMeans
  <2> QED
    BY <2>1, <2>2, Zenon DEF ReaderInv
<1>2. CASE ~SelectReader
  <2> SUFFICES ASSUME place' \in Selected' PROVE reader' <=> SeesController'
    BY Zenon DEF ReaderInv
  <2>1. reader' = reader /\ place \in Selected /\ UNCHANGED <<machine, visited>>
    BY <1>2, ReaderStays DEF Selected
  <2> QED
    BY <2>1, SameController, Zenon DEF ReaderInv
<1> QED
  BY <1>1, <1>2

-----------------------------------------------------------------------------
(* All of it *)

WholeInv == PciInv /\ (Quiet => QuietInv /\ ListInv /\ ReaderInv)

LEMMA InitWholeInv == StartInit => WholeInv
<1> SUFFICES ASSUME StartInit PROVE WholeInv
  OBVIOUS
<1>1. PciInv
  BY InitPciInv DEF StartInit
<1>2. Quiet => QuietInv
  BY InitStartInv DEF StartInv
<1>3. ListInv
  BY DEF StartInit, PciInit, ListInv, ArrayAt, Early, Pending
<1>4. ReaderInv
  BY DEF StartInit, ReaderInv, Selected
<1> QED
  BY <1>1, <1>2, <1>3, <1>4 DEF WholeInv

LEMMA NextWholeInv == WholeInv /\ [StartNext]_startVars => WholeInv'
<1> SUFFICES ASSUME WholeInv, [StartNext]_startVars PROVE WholeInv'
  OBVIOUS
<1>1. PciInv /\ PciInv'
  BY StartStepIsPci, NextPciInv DEF WholeInv
<1>2. ASSUME Quiet' PROVE (QuietInv /\ ListInv /\ ReaderInv)'
  <2>1. QuietInv /\ ListInv /\ ReaderInv
    BY <1>2, QuietBefore DEF WholeInv
  <2>2. QuietInv'
    BY <1>2, <2>1, NextStartInv DEF StartInv
  <2>3. ListInv'
    <3>1. CASE kernel_main
      BY <1>1, <1>2, <2>1, <2>2, <3>1, MainList DEF Quiet
    <3>2. CASE user_input
      BY <2>1, <3>2, UserList
    <3>3. CASE UNCHANGED startVars
      <4>1. UNCHANGED <<ram, list, visited, dev, place, live, mine>>
        BY <3>3 DEF startVars, memoryVars, vars, pciVars, listVars, userVars
      <4>2. Kept \subseteq Kept'
        BY <4>1 DEF Kept
      <4> QED
        BY <2>1, <4>1, <4>2, ListUntouched
    <3> QED
      BY <3>1, <3>2, <3>3 DEF StartNext
  <2>4. ReaderInv'
    BY <1>1, <2>1, NextReaderInv
  <2> QED
    BY <2>2, <2>3, <2>4
<1> QED
  BY <1>1, <1>2 DEF WholeInv

(***************************************************************************)
(* For every computer, layout and user: as long as start-up is quiet the   *)
(* list holds the functions that were visited, in their order              *)
(* (kernel.c:39-44 with dynamic_array.c:11-32).                            *)
(***************************************************************************)
THEOREM ListAlwaysHolds == StartSpec => []ListHolds
<1>1. WholeInv => ListHolds
  BY ListMeans DEF WholeInv, ListHolds
<1> QED
  BY InitWholeInv, NextWholeInv, <1>1, PTL DEF StartSpec

(***************************************************************************)
(* For every computer, layout and user: as long as start-up is quiet the   *)
(* disk driver is chosen exactly when a function that was visited passes   *)
(* the test, so what the list and the structs said of each was what the    *)
(* machine answers (kern_disk.c:11-23 with kern_pci.c:105-118).            *)
(***************************************************************************)
THEOREM ReaderAlwaysOfVisited == StartSpec => []ReaderOfVisited
<1>1. WholeInv => ReaderOfVisited
  BY DEF WholeInv, ReaderInv, ReaderOfVisited, SeesController
<1> QED
  BY InitWholeInv, NextWholeInv, <1>1, PTL DEF StartSpec

-----------------------------------------------------------------------------
(***************************************************************************)
(* The types, quiet or not.  After a command between bestFit and the marks *)
(* two grants may share a block, and the list grows over what it likes:    *)
(* the table still stays a table, and no word is anything but a pointer, a *)
(* struct or neither.                                                      *)
(***************************************************************************)
Stored == {<< >>} \cup {<<at>> : at \in Words} \cup Functions

MainTypes ==
  /\ place \in Places /\ hole \in Entries \cup {NoHole}
  /\ list \in [array : Nat, used : Nat, size : Nat]
  /\ ram \in [Words -> Stored]
  /\ dev \in Words /\ newArray \in Words /\ grown \in BOOLEAN

DriverTypes ==
  /\ reader \in BOOLEAN /\ attempt \in 1..3
  /\ installed \in BOOLEAN /\ broken \in BOOLEAN

UserTypes ==
  /\ mine \subseteq Runs /\ commands \in 0..MaxCommands /\ hasty \in BOOLEAN

TypesInv ==
  /\ IInv /\ PciInv /\ CacheInv
  /\ MainTypes /\ DriverTypes /\ UserTypes
  /\ place = "device" => visited # << >>

LEMMA AddressIsWord ==
  ASSUME NEW b \in Entries
  PROVE  Address(b) \in Words /\ Address(b) \in Nat /\ 0 \in Words
<1>1. b \in Nat /\ NumEntries \in Nat /\ b < NumEntries
  BY LayoutAssumption DEF Entries
<1>2. Address(b) \in Nat /\ Address(NumEntries) \in Nat
      /\ Address(b) < Address(NumEntries)
  BY <1>1, AddressesRise
<1>3. Limit = Address(NumEntries)
  BY DEF Limit, Address
<1> QED
  BY <1>2, <1>3 DEF Words

\* Marking any blocks leaves a table, even if they are no hole any more
LEMMA MarksTable ==
  ASSUME IInv, NEW size \in Nat, NEW start \in Entries, MarkBlocks(size, start)
  PROVE  IInv'
<1>1. TableOK
  BY IInvTable
<1>2. PICK e \in Entries : e = AllocateEnd(size, start) /\ start <= e
  BY AllocateEndInTable
<1>3. CASE wild' = TRUE /\ UNCHANGED <<table, live>>
  BY <1>3 DEF MarkBlocks, IInv, TypeOK, WalkAdvances, table
<1>4. ASSUME NEW past, ~AllocateRunsAway(size, start, e, past),
             Carve(start, e, RestEnd(size, start, e)),
             live' = live \cup {[begin |-> start, end |-> e]}, UNCHANGED wild
      PROVE  IInv'
  <2>1. firstContig[e] <= start
    <3>1. CASE size < BlockLength
      BY <1>1, <1>2, <3>1, FieldsAreEntries DEF AllocateEnd
    <3>2. CASE size >= BlockLength
      BY <1>1, <1>2, <1>4, <3>2, FieldsAreEntries DEF AllocateRunsAway, MissesBegin
    <3> QED
      BY <3>1, <3>2, LayoutAssumption
  <2>2. TableOK'
    BY <1>1, <1>2, <1>4, <2>1, CarveKeepsOrder
  <2>3. live' \subseteq Runs
    BY <1>2, <1>4 DEF IInv, TypeOK, Runs
  <2> QED
    BY <1>4, <2>2, <2>3 DEF IInv, TypeOK, TableOK, Fields, MarkBlocks
<1> QED
  BY <1>2, <1>3, <1>4 DEF MarkBlocks

LEMMA SameTypes ==
  ASSUME IInv, UNCHANGED memoryVars
  PROVE  IInv'
BY NextIInv DEF memoryVars

LEMMA GetsTable ==
  ASSUME TypesInv, NEW here \in Allocating, Gets(here)
  PROVE  /\ IInv' /\ hole' = NoHole
         /\ Address(hole) \in Words /\ Address(hole) \in Nat
<1>1. place \in Allocating /\ hole \in Entries
  BY DEF Gets, TypesInv, MainTypes
<1>2. Request \in Nat
  BY <1>1, RequestIsNat DEF TypesInv, MainTypes, CacheInv
<1>3. IInv'
  <2> HIDE DEF Request
  <2> QED
    BY <1>1, <1>2, MarksTable DEF Gets, TypesInv
<1> QED
  BY <1>1, <1>3, AddressIsWord DEF Gets

\* What the steps of kernel_main leave alone of the types
LEMMA MainKeeps ==
  ASSUME TypesInv, kernel_main
  PROVE  PciInv' /\ CacheInv' /\ UserTypes'
<1>1. PciInv'
  BY StartStepIsPci, NextPciInv DEF TypesInv, StartNext
<1>2. CacheInv'
  BY MainCache DEF TypesInv
<1>3. UNCHANGED userVars
  BY DEF kernel_main, PrepareMemory, FindHole, GetStruct, initArray, Enumerate,
    WriteDevice, CopyList, FreeList, InsertDevice, SelectReader, LoadBootSector,
    LoadFat, LoadRootDirectory, InstallFat12, GetBuffer, ReadSectors
<1> QED
  BY <1>1, <1>2, <1>3 DEF TypesInv, UserTypes, userVars

LEMMA FindHoleTypes ==
  ASSUME TypesInv, FindHole
  PROVE  hole' \in Entries \cup {NoHole} /\ place' \in Places
<1>1. Request \in Nat
  BY RequestIsNat DEF TypesInv, MainTypes, CacheInv, FindHole
<1>2. Granted(Request) => BestFit(Request) \in Entries
  <2>1. PICK n \in Nat : n = Request
    BY <1>1
  <2>2. TableOK
    BY IInvTable DEF TypesInv
  <2>3. Granted(n) => BestFit(n) \in Entries
    BY <2>2, BestFitIsAHole, HolesInTable DEF Granted
  <2> QED
    BY <2>1, <2>3
<1> HIDE DEF Request, BestFit
<1> QED
  BY <1>2 DEF FindHole, TypesInv, MainTypes, Places

\* What is copied was in memory before, or is something else
LEMMA CopiedTypes ==
  ASSUME NEW memory \in [Words -> Stored], NEW a, NEW new
  PROVE  Copied(memory, a, new) \in [Words -> Stored]
<1>1. \A at : WordAt(memory, at) \in Stored
  BY DEF WordAt, Stored
<1> QED
  BY <1>1 DEF Copied

LEMMA WriteDeviceTypes ==
  ASSUME TypesInv, WriteDevice
  PROVE  /\ ram' \in [Words -> Stored] /\ dev' \in Words
         /\ place' \in Places \ {"device"}
<1>1. Address(hole) \in Words
  BY GetsTable DEF WriteDevice, Allocating
<1>2. Last(visited) \in Functions
  <2>1. visited \in Seq(Functions) /\ visited # << >>
    BY DEF TypesInv, PciInv, WriteDevice, Gets
  <2>2. Len(visited) \in 1..Len(visited)
    BY <2>1, EmptySeq, LenProperties
  <2> QED
    BY <2>1, <2>2, ElementOfSeq DEF Last
<1> QED
  BY <1>1, <1>2 DEF WriteDevice, TypesInv, MainTypes, Stored, Places

\* The steps that change the list and what is in memory
LEMMA ListTypes ==
  ASSUME TypesInv, WriteDevice \/ CopyList \/ FreeList \/ InsertDevice
  PROVE  MainTypes' /\ place' # "device"
<1>1. CASE WriteDevice
  <2>1. /\ ram' \in [Words -> Stored] /\ dev' \in Words
        /\ place' \in Places \ {"device"}
    BY <1>1, WriteDeviceTypes
  <2>2. hole' = NoHole /\ UNCHANGED <<list, newArray, grown>>
    BY <1>1 DEF WriteDevice, Gets
  <2> QED
    BY <2>1, <2>2 DEF TypesInv, MainTypes
<1>2. CASE CopyList
  <2>1. Address(hole) \in Words
    BY <1>2, GetsTable DEF CopyList, Allocating
  <2>2. ram' \in [Words -> Stored]
    BY <1>2, CopiedTypes DEF CopyList, TypesInv, MainTypes
  <2>3. hole' = NoHole /\ place' = "free" /\ newArray' = Address(hole)
        /\ UNCHANGED <<list, dev, grown>>
    BY <1>2 DEF CopyList, Gets
  <2> QED
    BY <2>1, <2>2, <2>3 DEF TypesInv, MainTypes, Places
<1>3. CASE FreeList
  <2>1. list' \in [array : Nat, used : Nat, size : Nat]
    <3>1. newArray \in Nat /\ list \in [array : Nat, used : Nat, size : Nat]
      BY LayoutAssumption DEF TypesInv, MainTypes, Words
    <3> QED
      BY <1>3, <3>1 DEF FreeList, Grown, GrownSize
  <2>2. place' = "insert" /\ grown' = TRUE /\ UNCHANGED <<hole, ram, dev, newArray>>
    BY <1>3 DEF FreeList
  <2> QED
    BY <2>1, <2>2 DEF TypesInv, MainTypes, Places
<1>4. CASE InsertDevice
  <2>1. list' \in [array : Nat, used : Nat, size : Nat]
    BY <1>4 DEF InsertDevice, Longer, TypesInv, MainTypes
  <2>2. ram' \in [Words -> Stored]
    <3>1. <<dev>> \in Stored /\ ram \in [Words -> Stored]
      BY DEF TypesInv, MainTypes, Stored
    <3> QED
      BY <1>4, <3>1 DEF InsertDevice, Inserted
  <2>3. place' = "enumerate" /\ UNCHANGED <<hole, dev, newArray, grown>>
    BY <1>4 DEF InsertDevice
  <2> QED
    BY <2>1, <2>2, <2>3 DEF TypesInv, MainTypes, Places
<1> QED
  BY <1>1, <1>2, <1>3, <1>4

\* A try after the first or the second one
LEMMA NextTry == 1 \in 1..3 /\ \A n \in 1..3 : n < 3 => n + 1 \in 1..3
OBVIOUS

LEMMA ReadTypes ==
  ASSUME TypesInv, NEW here \in {"read mbr", "read fat", "read root"},
         NEW buffer, NEW sectors, NEW next \in {"fat", "root", "info", "spin"},
         ReadSectors(here, buffer, sectors, next), UNCHANGED installed
  PROVE  IInv' /\ MainTypes' /\ DriverTypes' /\ place' # "device"
<1>1. /\ UNCHANGED <<memoryVars, hole, list, ram, dev, newArray, grown, reader>>
      /\ place' = place \/ place' = next
      /\ place = here
  BY DEF ReadSectors, listVars
<1>2. broken' \in BOOLEAN
  <2>1. \E good : broken' = broken \/ broken' = (broken \/ good < sectors)
    BY Zenon DEF ReadSectors
  <2>2. broken \in BOOLEAN
    BY Zenon DEF TypesInv, DriverTypes
  <2> QED
    BY <2>1, <2>2, Zenon
<1>3. IInv'
  BY <1>1, SameTypes DEF TypesInv
<1>4. MainTypes' /\ place' # "device"
  BY <1>1 DEF TypesInv, MainTypes, Places
<1>5. DriverTypes'
  <2>1. attempt \in 1..3
    BY DEF TypesInv, DriverTypes
  <2>2. attempt' \in 1..3
    <3>1. attempt' = 1 \/ (attempt < 3 /\ attempt' = attempt + 1)
      BY Zenon DEF ReadSectors
    <3> QED
      BY <2>1, <3>1, NextTry, Zenon
  <2>3. UNCHANGED <<reader, installed>>
    BY <1>1
  <2> QED
    BY <1>2, <2>2, <2>3, Zenon DEF TypesInv, DriverTypes
<1> QED
  BY <1>3, <1>4, <1>5

LEMMA BufferTypes ==
  ASSUME TypesInv, NEW here \in {"mbr", "fat", "root"},
         NEW next \in {"read mbr", "read fat", "read root"}, GetBuffer(here, next)
  PROVE  IInv' /\ MainTypes' /\ DriverTypes' /\ place' # "device"
<1>1. IInv' /\ hole' = NoHole
  BY GetsTable DEF GetBuffer, Allocating
<1>2. /\ place' = next
      /\ UNCHANGED <<list, ram, dev, newArray, grown>>
      /\ UNCHANGED <<reader, attempt, installed, broken>>
  BY DEF GetBuffer, listVars, diskVars
<1> QED
  BY <1>1, <1>2 DEF TypesInv, MainTypes, DriverTypes, Places

LEMMA StepTypes ==
  ASSUME TypesInv, kernel_main
  PROVE  IInv' /\ MainTypes' /\ DriverTypes' /\ (place' = "device" => visited' # << >>)
<1> USE DEF listVars, diskVars
<1>1. CASE PrepareMemory
  <2>1. IInv'
    BY <1>1, BootEntryStep, SameTypes DEF PrepareMemory, TypesInv
  <2>2. /\ place' \in {"memory", "struct"}
        /\ UNCHANGED <<hole, listVars, diskVars>>
    BY <1>1 DEF PrepareMemory
  <2> QED
    BY <2>1, <2>2 DEF TypesInv, MainTypes, DriverTypes, Places
<1>2. CASE FindHole
  <2>1. /\ place' = place \/ place' = "null"
        /\ UNCHANGED <<memoryVars, visited, listVars, diskVars>>
    BY <1>2 DEF FindHole, pciVars
  <2>2. hole' \in Entries \cup {NoHole} /\ place' \in Places
    BY <1>2, FindHoleTypes
  <2>3. IInv'
    BY <2>1, SameTypes DEF TypesInv
  <2> QED
    BY <2>1, <2>2, <2>3 DEF TypesInv, MainTypes, DriverTypes
<1>3. CASE GetStruct
  <2>1. IInv' /\ hole' = NoHole
    BY <1>3, GetsTable DEF GetStruct, Allocating
  <2>2. place' = "array" /\ UNCHANGED <<listVars, diskVars>>
    BY <1>3 DEF GetStruct
  <2> QED
    BY <2>1, <2>2 DEF TypesInv, MainTypes, DriverTypes, Places
<1>4. CASE initArray
  <2>1. IInv' /\ hole' = NoHole /\ Address(hole) \in Nat
    BY <1>4, GetsTable DEF initArray, Allocating
  <2>2. /\ place' = "enumerate" /\ list' = ArrayAt(Address(hole), InitialSize)
        /\ UNCHANGED <<ram, dev, newArray, grown, diskVars>>
    BY <1>4 DEF initArray
  <2>3. list' \in [array : Nat, used : Nat, size : Nat]
    BY <2>1, <2>2, StartUpAssumption DEF ArrayAt
  <2> QED
    BY <2>1, <2>2, <2>3 DEF TypesInv, MainTypes, DriverTypes, Places
<1>5. CASE Enumerate
  <2>1. IInv' /\ UNCHANGED <<hole, listVars, diskVars>>
    BY <1>5, SameTypes DEF Enumerate, TypesInv
  <2>2. place' \in {"enumerate", "device", "select"}
    BY <1>5 DEF Enumerate
  <2>3. place' = "device" => visited' # << >>
    <3>1. place' = "device" => /\ visited' = Append(visited, Current)
                               /\ Current \in DOMAIN machine
      BY <1>5 DEF Enumerate, CheckFunction, Exists
    <3>2. visited \in Seq(Functions) /\ DOMAIN machine \subseteq Functions
      BY MachineFields DEF TypesInv, PciInv
    <3>3. \A f \in Functions : Append(visited, f) # << >>
      <4> SUFFICES ASSUME NEW f \in Functions PROVE Append(visited, f) # << >>
        OBVIOUS
      <4>1. Len(Append(visited, f)) = Len(visited) + 1 /\ Len(visited) \in Nat
        BY <3>2, AppendProperties, LenProperties
      <4> QED
        BY <4>1, EmptySeq
    <3> QED
      BY <3>1, <3>2, <3>3
  <2> QED
    BY <2>1, <2>2, <2>3 DEF TypesInv, MainTypes, DriverTypes, Places
<1>6. CASE WriteDevice \/ CopyList \/ FreeList \/ InsertDevice
  <2>1. MainTypes' /\ place' # "device"
    BY <1>6, ListTypes
  <2>2. UNCHANGED diskVars
    BY <1>6 DEF WriteDevice, CopyList, FreeList, InsertDevice
  <2>3. IInv'
    <3>1. CASE WriteDevice \/ CopyList
      BY <3>1, GetsTable DEF WriteDevice, CopyList, Allocating
    <3>2. CASE FreeList
      <4>1. FreedByGrowth(list) \in Nat
        BY DEF FreedByGrowth, TypesInv, MainTypes
      <4> QED
        BY <3>2, <4>1, FreeStep DEF FreeList, TypesInv
    <3>3. CASE InsertDevice
      BY <3>3, SameTypes DEF InsertDevice, TypesInv
    <3> QED
      BY <1>6, <3>1, <3>2, <3>3
  <2> QED
    BY <2>1, <2>2, <2>3 DEF TypesInv, DriverTypes
<1>7. CASE SelectReader
  <2>1. IInv' /\ UNCHANGED <<hole, listVars, attempt, installed, broken>>
    BY <1>7, SameTypes DEF SelectReader, TypesInv
  <2>2. place' \in {"mbr", "spin"}
    BY <1>7 DEF SelectReader
  <2>3. reader' \in BOOLEAN
    BY <1>7, Zenon DEF SelectReader
  <2> QED
    BY <2>1, <2>2, <2>3 DEF TypesInv, MainTypes, DriverTypes, Places
<1>8. CASE LoadBootSector \/ LoadFat \/ LoadRootDirectory
  <2>1. IInv' /\ MainTypes' /\ DriverTypes' /\ place' # "device"
    BY <1>8, ReadTypes, BufferTypes DEF LoadBootSector, LoadFat, LoadRootDirectory
  <2> QED
    BY <2>1
<1>9. CASE InstallFat12
  <2>1. IInv' /\ hole' = NoHole
    BY <1>9, GetsTable DEF InstallFat12, Allocating
  <2>2. /\ place' = "spin" /\ installed' = TRUE
        /\ UNCHANGED <<listVars, reader, attempt, broken>>
    BY <1>9 DEF InstallFat12
  <2> QED
    BY <2>1, <2>2 DEF TypesInv, MainTypes, DriverTypes, Places
<1> QED
  BY <1>1, <1>2, <1>3, <1>4, <1>5, <1>6, <1>7, <1>8, <1>9 DEF kernel_main

LEMMA UserStepTypes ==
  ASSUME TypesInv, user_input
  PROVE  TypesInv'
<1>1. /\ Interrupts /\ UNCHANGED <<pciVars, place, hole, listVars, diskVars>>
      /\ commands < MaxCommands /\ commands' = commands + 1
  BY DEF user_input, AllocMem, FreeMem, Interrupts
<1>2. IInv' /\ mine' \subseteq Runs
  <2>1. ASSUME NEW size \in Sizes, AllocMem(size)
        PROVE  IInv' /\ mine' \subseteq Runs
    <3>1. size \in Nat /\ TableOK
      BY InputAssumption, IInvTable DEF TypesInv
    <3>2. IInv'
      <4>1. CASE UNCHANGED memoryVars
        BY <4>1, SameTypes DEF TypesInv
      <4>2. CASE Granted(size) /\ MarkBlocks(size, BestFit(size))
        <5>1. BestFit(size) \in Entries
          BY <3>1, <4>2, BestFitIsAHole, HolesInTable DEF Granted
        <5> QED
          BY <3>1, <4>2, <5>1, MarksTable DEF TypesInv
      <4> QED
        BY <2>1, <4>1, <4>2 DEF AllocMem
    <3>3. mine' \subseteq mine \cup live'
      BY <2>1 DEF AllocMem
    <3> QED
      BY <3>2, <3>3 DEF TypesInv, UserTypes, IInv, TypeOK
  <2>2. ASSUME NEW run \in mine, FreeMem(run)
        PROVE  IInv' /\ mine' \subseteq Runs
    <3>1. Address(run.begin) \in Nat
      <4>1. run.begin \in Entries
        BY DEF TypesInv, UserTypes, Runs
      <4> QED
        BY <4>1, AddressIsWord
    <3>2. IInv'
      BY <2>2, <3>1, FreeStep DEF FreeMem, TypesInv
    <3> QED
      BY <2>2, <3>2 DEF FreeMem, TypesInv, UserTypes
  <2> QED
    BY <2>1, <2>2 DEF user_input
<1>3. hasty' \in BOOLEAN
  BY <1>1, Zenon DEF Interrupts
<1>4. UserTypes'
  <2>1. commands' \in 0..MaxCommands
    BY <1>1, StartUpAssumption DEF TypesInv, UserTypes
  <2> QED
    BY <1>2, <1>3, <2>1 DEF UserTypes
<1>5. PciInv'
  BY <1>1, NextPciInv DEF TypesInv
<1>6. CacheInv'
  BY <1>1, CacheUntouched DEF TypesInv, pciVars
<1>7. MainTypes' /\ DriverTypes' /\ (place' = "device" => visited' # << >>)
  BY <1>1 DEF TypesInv, MainTypes, DriverTypes, pciVars, listVars, diskVars
<1> QED
  BY <1>2, <1>4, <1>5, <1>6, <1>7 DEF TypesInv

LEMMA InitTypesInv == StartInit => TypesInv
<1> SUFFICES ASSUME StartInit PROVE TypesInv
  OBVIOUS
<1>1. IInv
  BY InitIInv DEF StartInit, SafeInit
<1>2. PciInv /\ CacheInv
  BY InitPciInv, InitCacheInv DEF StartInit
<1>3. 0 \in Words
  BY EntriesAreNat, AddressIsWord
<1>4. MainTypes
  BY <1>3 DEF StartInit, MainTypes, Places, ArrayAt, Stored
<1>5. DriverTypes
  <2>1. attempt = 1 /\ attempt \in 1..3
    BY DEF StartInit
  <2> QED
    BY <2>1, Zenon DEF StartInit, DriverTypes
<1>6. UserTypes
  <2>1. 0 \in 0..MaxCommands
    BY StartUpAssumption
  <2> QED
    BY <2>1 DEF StartInit, UserTypes
<1>7. place # "device"
  BY DEF StartInit
<1> QED
  BY <1>1, <1>2, <1>4, <1>5, <1>6, <1>7 DEF TypesInv

LEMMA NextTypesInv == TypesInv /\ [StartNext]_startVars => TypesInv'
<1> SUFFICES ASSUME TypesInv, [StartNext]_startVars PROVE TypesInv'
  OBVIOUS
<1>1. CASE kernel_main
  BY <1>1, MainKeeps, StepTypes DEF TypesInv
<1>2. CASE user_input
  BY <1>2, UserStepTypes
<1>3. CASE UNCHANGED startVars
  <2>1. UNCHANGED <<memoryVars, pciVars, place, hole, listVars, diskVars, userVars>>
    BY <1>3 DEF startVars
  <2>2. IInv' /\ PciInv'
    BY <2>1, SameTypes, NextPciInv DEF TypesInv
  <2>3. CacheInv'
    BY <2>1, CacheUntouched DEF TypesInv, pciVars
  <2> QED
    BY <2>1, <2>2, <2>3 DEF TypesInv, MainTypes, DriverTypes, UserTypes, pciVars,
      listVars, diskVars, userVars
<1> QED
  BY <1>1, <1>2, <1>3 DEF StartNext

(***************************************************************************)
(* For every computer, layout and user, hasty or not: the heap's table     *)
(* keeps its shape when a command changes it under a waiting hole          *)
(* (kern_mem.c:146 with kernel.c:36-48), no word is written that is not a  *)
(* pointer into memory or a struct, and no read is tried a fourth time     *)
(* (ata.c:7-52).                                                           *)
(***************************************************************************)
THEOREM StartUpTypeOK == StartSpec => []StartTypeOK
<1>1. TypesInv => StartTypeOK
  BY PciInvMeans DEF TypesInv, StartTypeOK, IInv, CacheInv, MainTypes, DriverTypes,
    UserTypes, Stored
<1> QED
  BY InitTypesInv, NextTypesInv, <1>1, PTL DEF StartSpec

-----------------------------------------------------------------------------
\* The table and the blocks find their place for every map that is looked at
\* (kern_mem.c:481-510, 30-37), whatever its regions are.
THEOREM LayoutAlwaysSound == StartSpec => []LayoutSound
<1>1. LayoutSound
  <2>1. ASSUME NEW map \in LayoutMaps PROVE LayoutFits(map)
    <3>1. map \in Maps
      BY StartUpAssumption DEF Maps
    <3> QED
      BY <3>1, LayoutAlwaysFits
  <2> QED
    BY <2>1 DEF LayoutSound
<1> QED
  BY <1>1, PTL
=============================================================================
