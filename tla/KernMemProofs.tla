---------------------------- MODULE KernMemProofs ----------------------------
(***************************************************************************)
(* What holds of the memory manager whatever its callers do: the types,    *)
(* and that no entry's run ends before it or starts after it.              *)
(***************************************************************************)
EXTENDS KernMem, TLAPS, WellFoundedInduction, SequenceTheorems

-----------------------------------------------------------------------------
(* Minima and entries *)

\* A set of naturals that is not empty has a least member, and Min is it.
LEMMA MinOfNat ==
  ASSUME NEW S, S \subseteq Nat, S # {}
  PROVE  Min(S) \in S /\ \A y \in S : Min(S) <= y
<1>1. PICK x \in S : \A y \in S : ~ (<<y, x>> \in OpToRel(<, Nat))
  BY NatLessThanWellFounded, WFMin
<1>2. \A y \in S : x <= y
  <2> SUFFICES ASSUME NEW y \in S, ~(x <= y) PROVE FALSE
    OBVIOUS
  <2>1. y \in Nat /\ x \in Nat /\ y < x
    OBVIOUS
  <2> QED
    BY <1>1, <2>1 DEF OpToRel
<1>3. \E z \in S : \A y \in S : z =< y
  BY <1>2
<1> QED
  BY <1>3 DEF Min

LEMMA EntriesAreNat ==
  /\ Entries \subseteq Nat
  /\ ListEnd \in Entries
  /\ \A i \in Entries : i \in Nat /\ i <= ListEnd
  /\ 0 \in Entries
BY LayoutAssumption DEF Entries, ListEnd

LEMMA RangeInTable ==
  ASSUME NEW b \in Entries, NEW e \in Entries
  PROVE  b..e \subseteq Entries
BY LayoutAssumption DEF Entries

\* Every address has an entry number, maybe past the table
LEMMA EntryOfNat ==
  ASSUME NEW address \in Int
  PROVE  EntryOf(address) \in Nat
<1> DEFINE d == (address - MemStart) % WordMod
<1>1. d \in Nat
  BY LayoutAssumption
<1>2. d \div BlockLength \in Nat
  <2> HIDE DEF d
  <2> QED
    BY <1>1, LayoutAssumption
<1> QED
  BY <1>2 DEF EntryOf

-----------------------------------------------------------------------------
(* The table alone *)

Fields ==
  /\ type \in [Entries -> {Avail, Resrv}]
  /\ firstContig \in [Entries -> Entries]
  /\ lastContig \in [Entries -> Entries]

TableOK == Fields /\ WalkAdvances

LEMMA FieldsAreEntries ==
  ASSUME TableOK
  PROVE  \A i \in Entries :
           /\ i \in Nat /\ i <= ListEnd
           /\ firstContig[i] \in Entries /\ firstContig[i] \in Nat
           /\ lastContig[i] \in Entries /\ lastContig[i] \in Nat
           /\ firstContig[i] <= i /\ i <= lastContig[i] /\ lastContig[i] <= ListEnd
BY EntriesAreNat DEF TableOK, Fields, WalkAdvances

\* The entries bestFit moves to are in the table, and not its last
LEMMA HopsAreEntries ==
  ASSUME TableOK
  PROVE  Hops \subseteq Entries /\ \A h \in Hops : h < ListEnd
<1>1. \A i \in Entries : lastContig[i] + 1 \in Nat
  BY FieldsAreEntries
<1>2. Hops \subseteq Nat /\ \A h \in Hops : h < ListEnd
  BY <1>1 DEF Hops
<1> QED
  BY <1>2, LayoutAssumption DEF Entries, ListEnd

\* Reservation and allocation stop inside the table.
LEMMA ReserveEndInTable ==
  ASSUME NEW size \in Nat, NEW b \in Entries
  PROVE  ReserveEnd(size, b) \in Entries /\ b <= ReserveEnd(size, b)
<1> DEFINE S == {e \in b..ListEnd :
                   (size - (e - b + 1) * BlockLength) % WordMod = 0} \cup {ListEnd}
<1>1. S \subseteq b..ListEnd /\ S # {}
  BY EntriesAreNat
<1>2. b..ListEnd \subseteq Nat /\ b..ListEnd \subseteq Entries
  BY EntriesAreNat DEF Entries, ListEnd
<1>3. Min(S) \in b..ListEnd
  <2> HIDE DEF S
  <2> QED
    BY <1>1, <1>2, MinOfNat
<1> QED
  BY <1>2, <1>3, EntriesAreNat DEF ReserveEnd

LEMMA AllocateEndInTable ==
  ASSUME NEW size \in Nat, NEW b \in Entries
  PROVE  AllocateEnd(size, b) \in Entries /\ b <= AllocateEnd(size, b)
<1> DEFINE S == {e \in b..ListEnd : size <= (e - b + 1) * BlockLength}
                  \cup {ListEnd}
<1>1. S \subseteq b..ListEnd /\ S # {}
  BY EntriesAreNat
<1>2. b..ListEnd \subseteq Nat /\ b..ListEnd \subseteq Entries
  BY EntriesAreNat DEF Entries, ListEnd
<1>3. Min(S) \in b..ListEnd
  <2> HIDE DEF S
  <2> QED
    BY <1>1, <1>2, MinOfNat
<1> QED
  BY <1>2, <1>3, EntriesAreNat DEF AllocateEnd

\* What bestFit answers is one of the holes it saw, and none is smaller.
LEMMA BestFitIsAHole ==
  ASSUME TableOK, NEW size \in Nat, Holes(size) # {}
  PROVE  /\ BestFit(size) \in Holes(size)
         /\ \A h \in Holes(size) : HoleSize(BestFit(size)) <= HoleSize(h)
<1> DEFINE lengths == {HoleSize(h) : h \in Holes(size)}
           smallest == {h \in Holes(size) : HoleSize(h) = Min(lengths)}
<1>1. Holes(size) \subseteq Entries
  BY HopsAreEntries DEF Holes, Visited
<1>2. \A h \in Entries : HoleSize(h) \in Nat
  <2> SUFFICES ASSUME NEW h \in Entries PROVE HoleSize(h) \in Nat
    OBVIOUS
  <2> DEFINE length == lastContig[h] - firstContig[h] + 1
  <2>1. length \in Nat
    BY FieldsAreEntries
  <2> HIDE DEF length
  <2>2. length * BlockLength \in Nat
    BY <2>1, LayoutAssumption
  <2> QED
    BY <2>2 DEF HoleSize, length
<1>3. Min(lengths) \in lengths /\ \A n \in lengths : Min(lengths) <= n
  <2>1. lengths \subseteq Nat /\ lengths # {}
    BY <1>1, <1>2
  <2> HIDE DEF lengths
  <2> QED
    BY <2>1, MinOfNat
<1>4. Min(smallest) \in smallest
  <2>1. smallest \subseteq Nat /\ smallest # {}
    BY <1>1, <1>3, EntriesAreNat
  <2> HIDE DEF smallest
  <2> QED
    BY <2>1, MinOfNat
<1>5. BestFit(size) = Min(smallest)
  BY DEF BestFit
<1> QED
  BY <1>3, <1>4, <1>5

LEMMA HolesInTable ==
  ASSUME TableOK, NEW size, NEW h \in Holes(size)
  PROVE  h \in Entries /\ h < ListEnd /\ type[h] = Avail
BY HopsAreEntries DEF Holes, Visited

-----------------------------------------------------------------------------
(* The two ways a table changes *)

\* Taking blocks out of a run that starts no later keeps the table ordered.
LEMMA CarveKeepsOrder ==
  ASSUME TableOK, NEW b \in Entries, NEW e \in Entries, b <= e,
         firstContig[e] <= b, NEW stop, Carve(b, e, stop)
  PROVE  TableOK'
<1> USE EntriesAreNat
<1>1. type' \in [Entries -> {Avail, Resrv}]
  BY DEF TableOK, Fields, Carve
<1>2. \A i \in Entries : firstContig'[i] \in Entries /\ firstContig'[i] <= i
  <2> SUFFICES ASSUME NEW i \in Entries
               PROVE  firstContig'[i] \in Entries /\ firstContig'[i] <= i
    OBVIOUS
  <2>1. CASE i \in b..e
    BY <2>1 DEF Carve
  <2>2. CASE i \in (e + 1)..stop
    <3>1. e + 1 \in Entries /\ ~ (i \in b..e) /\ e + 1 <= i
      BY <2>2, LayoutAssumption DEF Entries
    <3> QED
      BY <2>2, <3>1 DEF Carve
  <2>3. CASE ~ (i \in b..e) /\ ~ (i \in (e + 1)..stop)
    BY <2>3, FieldsAreEntries DEF Carve
  <2> QED
    BY <2>1, <2>2, <2>3
<1>3. \A i \in Entries : lastContig'[i] \in Entries /\ i <= lastContig'[i]
  <2> SUFFICES ASSUME NEW i \in Entries
               PROVE  lastContig'[i] \in Entries /\ i <= lastContig'[i]
    OBVIOUS
  <2>1. CASE i \in b..e
    BY <2>1 DEF Carve
  <2>2. CASE ~ (i \in b..e) /\ i \in firstContig[e]..(b - 1)
    <3>1. b - 1 \in Entries /\ i <= b - 1
      BY <2>2, LayoutAssumption DEF Entries
    <3> QED
      BY <2>2, <3>1 DEF Carve
  <2>3. CASE ~ (i \in b..e) /\ ~ (i \in firstContig[e]..(b - 1))
    BY <2>3, FieldsAreEntries DEF Carve
  <2> QED
    BY <2>1, <2>2, <2>3
<1>4. /\ firstContig' \in [Entries -> Entries]
      /\ lastContig' \in [Entries -> Entries]
  <2>1. DOMAIN firstContig' = Entries /\ DOMAIN lastContig' = Entries
    BY DEF Carve
  <2>2. /\ firstContig' = [i \in Entries |-> firstContig'[i]]
        /\ lastContig' = [i \in Entries |-> lastContig'[i]]
    BY DEF Carve
  <2> QED
    BY <1>2, <1>3, <2>2
<1> QED
  BY <1>1, <1>2, <1>3, <1>4 DEF TableOK, Fields, WalkAdvances

\* The merged run reaches from an entry not after s to one not before e.
LEMMA MergeBounds ==
  ASSUME TableOK, NEW s \in Entries, NEW e \in Entries
  PROVE  /\ MergeLeft(s) \in Entries /\ MergeLeft(s) <= s
         /\ MergeRight(e) \in Entries /\ e <= MergeRight(e)
<1>1. MergeLeft(s) \in Entries /\ MergeLeft(s) <= s
  <2>1. CASE s # 0 /\ type[s - 1] = Avail
    <3>1. s - 1 \in Entries
      BY <2>1, LayoutAssumption DEF Entries
    <3> QED
      BY <2>1, <3>1, FieldsAreEntries DEF MergeLeft
  <2>2. CASE ~ (s # 0 /\ type[s - 1] = Avail)
    BY <2>2, EntriesAreNat DEF MergeLeft
  <2> QED
    BY <2>1, <2>2
<1>2. MergeRight(e) \in Entries /\ e <= MergeRight(e)
  <2>1. CASE e + 2 <= ListEnd /\ type[e + 2] = Avail
    <3>1. e + 2 \in Entries /\ e \in Nat
      BY <2>1, LayoutAssumption DEF Entries, ListEnd
    <3> QED
      BY <2>1, <3>1, FieldsAreEntries DEF MergeRight
  <2>2. CASE ~ (e + 2 <= ListEnd /\ type[e + 2] = Avail)
    BY <2>2, EntriesAreNat DEF MergeRight
  <2> QED
    BY <2>1, <2>2
<1> QED
  BY <1>1, <1>2

\* Freeing a run and merging it keeps the table ordered, right or wrong as
\* the choice of the right neighbour may be.
LEMMA ReleaseKeepsOrder ==
  ASSUME TableOK, NEW s \in Entries, NEW e \in Entries, e = lastContig[s],
         NEW left \in Entries, left <= s,
         NEW right \in Entries, e <= right,
         Release(s, e, left, right)
  PROVE  TableOK'
<1> USE EntriesAreNat
<1>1. type' \in [Entries -> {Avail, Resrv}]
  BY DEF TableOK, Fields, Release
<1>2. s <= e
  BY FieldsAreEntries
<1>3. \A i \in Entries : firstContig'[i] \in Entries /\ firstContig'[i] <= i
  <2> SUFFICES ASSUME NEW i \in Entries
               PROVE  firstContig'[i] \in Entries /\ firstContig'[i] <= i
    OBVIOUS
  <2>1. firstContig'[i] \in {left, firstContig[i]}
    BY DEF Release
  <2>2. firstContig'[i] = left => left <= i
    BY <1>2, FieldsAreEntries DEF Release
  <2> QED
    BY <2>1, <2>2, FieldsAreEntries
<1>4. \A i \in Entries : lastContig'[i] \in Entries /\ i <= lastContig'[i]
  <2> SUFFICES ASSUME NEW i \in Entries
               PROVE  lastContig'[i] \in Entries /\ i <= lastContig'[i]
    OBVIOUS
  <2>1. CASE i \in s..e \/ i \in left..(s - 1)
    BY <1>2, <2>1, FieldsAreEntries DEF Release
  <2>2. CASE ~ (i \in s..e \/ i \in left..(s - 1))
    BY <2>2, FieldsAreEntries DEF Release
  <2> QED
    BY <2>1, <2>2
<1>5. /\ firstContig' \in [Entries -> Entries]
      /\ lastContig' \in [Entries -> Entries]
  <2>1. /\ firstContig' = [i \in Entries |-> firstContig'[i]]
        /\ lastContig' = [i \in Entries |-> lastContig'[i]]
    BY DEF Release
  <2> QED
    BY <1>3, <1>4, <2>1
<1> QED
  BY <1>1, <1>3, <1>4, <1>5 DEF TableOK, Fields, WalkAdvances

-----------------------------------------------------------------------------
(* The actions *)

IInv == TypeOK /\ WalkAdvances

LEMMA IInvTable ==
  ASSUME IInv
  PROVE  TableOK
BY DEF IInv, TypeOK, TableOK, Fields

LEMMA InitIInv == Init => IInv
<1> SUFFICES ASSUME Init PROVE IInv
  OBVIOUS
<1>1. Len(memMap) \in Nat
  BY InputAssumption, LenProperties DEF Init
<1> QED
  BY <1>1, EntriesAreNat DEF Init, IInv, TypeOK, WalkAdvances, Avail

\* What the loop of prepare_memory_manager hands to mm_reserveat
LEMMA ReserveArguments ==
  ASSUME IInv, Booting
  PROVE  /\ ReserveLength(memMap[booted + 1]) \in Nat
         /\ ReserveStart(memMap[booted + 1]) \in Nat
         /\ booted + 1 \in 0..Len(memMap)
<1> DEFINE region == memMap[booted + 1]
<1>1. Len(memMap) \in Nat /\ booted + 1 \in 1..Len(memMap)
  BY InputAssumption DEF IInv, TypeOK, Booting
<1>2. region.base \in Nat /\ region.length \in Nat
  <2>1. memMap \in Seq([base : Nat, length : Nat, type : Nat])
    BY InputAssumption DEF IInv, TypeOK
  <2>2. region \in [base : Nat, length : Nat, type : Nat]
    BY <1>1, <2>1, ElementOfSeq
  <2> QED
    BY <2>2
<1>3. ReserveStart(region) \in Nat
  <2>1. region.base % WordMod \in Int /\ MemStart \in Int
    BY <1>2, LayoutAssumption
  <2> QED
    BY <2>1, EntryOfNat DEF ReserveStart
<1>4. ReserveLength(region) \in Nat
  BY <1>2, LayoutAssumption DEF ReserveLength
<1> QED
  BY <1>1, <1>3, <1>4

\* A reservation that runs to its end takes a range of the table whose last
\* entry's run starts no later than the range.
LEMMA ReservedRange ==
  ASSUME TableOK, NEW size \in Nat, NEW b \in Nat, ~NothingToReserve(size, b),
         NEW past, ~ReserveRunsAway(size, b, ReserveEnd(size, b), past)
  PROVE  /\ b \in Entries
         /\ ReserveEnd(size, b) \in Entries
         /\ b <= ReserveEnd(size, b)
         /\ firstContig[ReserveEnd(size, b)] <= b
<1>1. b \in Entries
  BY LayoutAssumption DEF NothingToReserve, Entries, ListEnd
<1>2. PICK e \in Entries : e = ReserveEnd(size, b) /\ b <= e
  BY <1>1, ReserveEndInTable
<1>3. firstContig[e] <= b
  <2>1. CASE size < BlockLength
    BY <1>1, <1>2, <2>1, FieldsAreEntries DEF ReserveEnd
  <2>2. CASE size >= BlockLength
    BY <1>1, <1>2, <2>2, FieldsAreEntries DEF ReserveRunsAway, MissesBegin
  <2> QED
    BY <2>1, <2>2, LayoutAssumption
<1> QED
  BY <1>1, <1>2, <1>3

LEMMA BootEntryStep == IInv /\ BootEntry => IInv'
<1> SUFFICES ASSUME IInv, BootEntry PROVE IInv'
  OBVIOUS
<1> DEFINE region == memMap[booted + 1]
           size == ReserveLength(region)
           b == ReserveStart(region)
           e == ReserveEnd(size, b)
<1>1. size \in Nat /\ b \in Nat /\ booted + 1 \in 0..Len(memMap)
  BY ReserveArguments DEF BootEntry
<1>2. TableOK
  BY IInvTable
<1>3. CASE UNCHANGED <<table, firmware, wild>>
  BY <1>1, <1>3 DEF BootEntry, IInv, TypeOK, WalkAdvances, table
<1>4. CASE wild' = TRUE /\ UNCHANGED <<table, firmware>>
  BY <1>1, <1>4 DEF BootEntry, IInv, TypeOK, WalkAdvances, table
<1>5. ASSUME ~NothingToReserve(size, b), NEW past,
             ~ReserveRunsAway(size, b, e, past),
             Carve(b, e, RestEnd(size, b, e)),
             firmware' = firmware \cup b..e, UNCHANGED wild
      PROVE  IInv'
  <2>1. /\ b \in Entries /\ e \in Entries
        /\ b <= e /\ firstContig[e] <= b
    BY <1>1, <1>2, <1>5, ReservedRange
  <2>4. TableOK'
    BY <1>2, <1>5, <2>1, CarveKeepsOrder
  <2>5. firmware' \subseteq Entries
    BY <1>5, <2>1, RangeInTable DEF IInv, TypeOK
  <2> QED
    BY <1>1, <1>5, <2>4, <2>5 DEF IInv, TypeOK, TableOK, Fields, BootEntry
<1>6. \/ UNCHANGED <<table, firmware, wild>>
      \/ wild' = TRUE /\ UNCHANGED <<table, firmware>>
      \/ /\ ~NothingToReserve(size, b)
         /\ \E past \in PastEnd : ~ReserveRunsAway(size, b, e, past)
         /\ Carve(b, e, RestEnd(size, b, e))
         /\ firmware' = firmware \cup b..e
         /\ UNCHANGED wild
  BY DEF BootEntry, ReserveAt
<1> QED
  <2> HIDE DEF region, size, b, e
  <2> QED
    BY <1>3, <1>4, <1>5, <1>6

\* A grant that runs to its end, in the same way
LEMMA AllocatedRange ==
  ASSUME TableOK, NEW size \in Nat, Granted(size),
         NEW past, ~AllocateRunsAway(size, BestFit(size),
                                     AllocateEnd(size, BestFit(size)), past)
  PROVE  /\ BestFit(size) \in Entries
         /\ AllocateEnd(size, BestFit(size)) \in Entries
         /\ BestFit(size) <= AllocateEnd(size, BestFit(size))
         /\ firstContig[AllocateEnd(size, BestFit(size))] <= BestFit(size)
<1>1. PICK b \in Entries : b = BestFit(size)
  BY BestFitIsAHole, HolesInTable DEF Granted
<1>2. PICK e \in Entries : e = AllocateEnd(size, b) /\ b <= e
  BY AllocateEndInTable
<1>3. firstContig[e] <= b
  <2>1. CASE size < BlockLength
    BY <1>2, <2>1, FieldsAreEntries DEF AllocateEnd
  <2>2. CASE size >= BlockLength
    BY <1>1, <1>2, <2>2, FieldsAreEntries DEF AllocateRunsAway, MissesBegin
  <2> QED
    BY <2>1, <2>2, LayoutAssumption
<1> QED
  BY <1>1, <1>2, <1>3

LEMMA AllocateStep ==
  ASSUME IInv, NEW size \in Nat, Allocate(size)
  PROVE  IInv'
<1> DEFINE b == BestFit(size)
           e == AllocateEnd(size, b)
<1>1. TableOK
  BY IInvTable
<1>2. CASE UNCHANGED <<table, live, wild>>
  BY <1>2 DEF Allocate, IInv, TypeOK, WalkAdvances, table
<1>3. CASE wild' = TRUE /\ UNCHANGED <<table, live>>
  BY <1>3 DEF Allocate, IInv, TypeOK, WalkAdvances, table
<1>4. ASSUME Granted(size), NEW past, ~AllocateRunsAway(size, b, e, past),
             Carve(b, e, RestEnd(size, b, e)),
             live' = live \cup {[begin |-> b, end |-> e]}, UNCHANGED wild
      PROVE  IInv'
  <2>1. /\ b \in Entries /\ e \in Entries
        /\ b <= e /\ firstContig[e] <= b
    BY <1>1, <1>4, AllocatedRange
  <2>2. TableOK'
    BY <1>1, <1>4, <2>1, CarveKeepsOrder
  <2>3. live' \subseteq Runs
    BY <1>4, <2>1 DEF IInv, TypeOK, Runs
  <2> QED
    BY <1>4, <2>2, <2>3 DEF IInv, TypeOK, TableOK, Fields, Allocate
<1>5. \/ UNCHANGED <<table, live, wild>>
      \/ wild' = TRUE /\ UNCHANGED <<table, live>>
      \/ /\ Granted(size)
         /\ \E past \in PastEnd : ~AllocateRunsAway(size, b, e, past)
         /\ Carve(b, e, RestEnd(size, b, e))
         /\ live' = live \cup {[begin |-> b, end |-> e]}
         /\ UNCHANGED wild
  BY DEF Allocate
<1> QED
  <2> HIDE DEF b, e
  <2> QED
    BY <1>2, <1>3, <1>4, <1>5

\* mm_free only touches the table for the first entry of a run in it.
LEMMA FreedEntry ==
  ASSUME NEW address \in Nat, NEW past, ~Refused(address, past),
         ~FreeRunsAway(EntryOf(address), past)
  PROVE  /\ EntryOf(address) \in Entries
         /\ firstContig[EntryOf(address)] = EntryOf(address)
<1>1. EntryOf(address) \in Nat
  BY EntryOfNat
<1>2. EntryOf(address) \in Entries
  BY DEF FreeRunsAway
<1>3. ~ (EntryOf(address) > ListEnd)
  BY <1>1, <1>2, LayoutAssumption DEF Entries, ListEnd
<1> QED
  BY <1>2, <1>3 DEF Refused

LEMMA FreeStep ==
  ASSUME IInv, NEW address \in Nat, Free(address)
  PROVE  IInv'
<1> DEFINE s == EntryOf(address)
           e == lastContig[s]
<1>1. TableOK
  BY IInvTable
<1>2. CASE UNCHANGED <<table, live, wild>>
  BY <1>2 DEF Free, IInv, TypeOK, WalkAdvances, table
<1>3. CASE wild' = TRUE /\ UNCHANGED <<table, live>>
  BY <1>3 DEF Free, IInv, TypeOK, WalkAdvances, table
<1>4. ASSUME NEW past, ~Refused(address, past), ~FreeRunsAway(s, past),
             Release(s, e, MergeLeft(s), MergeRight(e)),
             live' = {run \in live : run.begin # s}, UNCHANGED wild
      PROVE  IInv'
  <2>1. s \in Entries /\ e \in Entries
    BY <1>1, <1>4, FreedEntry, FieldsAreEntries
  <2>2. TableOK'
    <3> HIDE DEF s
    <3> QED
      BY <1>1, <1>4, <2>1, MergeBounds, ReleaseKeepsOrder
  <2> QED
    BY <1>4, <2>2 DEF IInv, TypeOK, TableOK, Fields, Free
<1>5. \/ UNCHANGED <<table, live, wild>>
      \/ wild' = TRUE /\ UNCHANGED <<table, live>>
      \/ /\ \E past \in PastEnd : ~Refused(address, past) /\ ~FreeRunsAway(s, past)
         /\ Release(s, e, MergeLeft(s), MergeRight(e))
         /\ live' = {run \in live : run.begin # s}
         /\ UNCHANGED wild
  BY DEF Free
<1> QED
  <2> HIDE DEF s, e
  <2> QED
    BY <1>2, <1>3, <1>4, <1>5

LEMMA NextIInv == IInv /\ [Next]_vars => IInv'
<1> SUFFICES ASSUME IInv, [Next]_vars PROVE IInv'
  OBVIOUS
<1>1. CASE BootEntry
  BY <1>1, BootEntryStep
<1>2. CASE \E size \in Sizes : Allocate(size)
  BY <1>2, InputAssumption, AllocateStep
<1>3. CASE \E address \in Addresses : Free(address)
  BY <1>3, InputAssumption, FreeStep
<1>4. CASE UNCHANGED vars
  BY <1>4 DEF vars, IInv, TypeOK, WalkAdvances
<1> QED
  BY <1>1, <1>2, <1>3, <1>4 DEF Next

-----------------------------------------------------------------------------
(***************************************************************************)
(* For every layout, map and caller, the fields of the table stay inside   *)
(* the table (kern_mem.c:72-292).                                          *)
(***************************************************************************)
THEOREM TypeCorrect == Spec => []TypeOK
<1>1. IInv => TypeOK
  BY DEF IInv
<1> QED
  BY InitIInv, NextIInv, <1>1, PTL DEF Spec

(***************************************************************************)
(* For every layout, map and caller, no run ends before one of its entries *)
(* or starts after it, so that each turn of bestFit's loop                 *)
(* (kern_mem.c:550-570) moves up and mm_allocate terminates.               *)
(***************************************************************************)
THEOREM WalkAlwaysAdvances == Spec => []WalkAdvances
<1>1. IInv => WalkAdvances
  BY DEF IInv
<1> QED
  BY InitIInv, NextIInv, <1>1, PTL DEF Spec
=============================================================================
