------------------------------- MODULE KernMem -------------------------------
(***************************************************************************)
(* The physical memory manager of the kernel (kern_mem.c): the block table *)
(* built by mm_initialize, the reservations prepare_memory_manager makes   *)
(* for the firmware's memory map, and mm_allocate (with the bestFit        *)
(* allocator) and mm_free.                                                 *)
(*                                                                         *)
(* An entry of the C table is a type and two pointers, firstContig and     *)
(* lastContig, to the first and the last entry of its contiguous run.      *)
(* Here an entry is its index and each field is a function of the index.   *)
(* The layout prepare_memory_manager computes (how many entries, how long  *)
(* a block is, where the blocks start) is given by constants.              *)
(***************************************************************************)
EXTENDS Integers, Sequences, FiniteSetsExt

CONSTANTS
  NumEntries,   \* _mmNumEntries: entries of the block table
  BlockLength,  \* _mmBlockLength: bytes of a block
  MemStart,     \* _memStart: address of block 0
  WordMod,      \* one more than the largest size_t, 2^32 in the build
  MemMaps,      \* memory maps the firmware may hand over
  Sizes,        \* request sizes of the callers of mm_allocate
  Addresses,    \* addresses callers may pass to mm_free
  PastEnd       \* what the RAM just past the table may hold, see below

(***************************************************************************)
(* Several loops read the entry one past _mmListEnd, which is not part of  *)
(* the table.  What they do depends on the bytes found there:              *)
(*   "zero"    the RAM was never written, as on the emulator the kernel    *)
(*             is run on: the fields read as type 0 and NULL pointers;     *)
(*   "benign"  bytes that look like a RESRV run whose lastContig is        *)
(*             _mmListEnd;                                                 *)
(*   "hostile" any other bytes: they look like a free run or a run that    *)
(*             ends far above the table.                                   *)
(***************************************************************************)
Contents == {"zero", "benign", "hostile"}

Entries == 0..(NumEntries - 1)
ListEnd == NumEntries - 1

Avail == 0
Resrv == 1

ASSUME LayoutAssumption ==
  /\ NumEntries \in Nat \ {0, 1}
  /\ BlockLength \in Nat \ {0}
  /\ MemStart \in Nat \ {0}
  /\ WordMod \in Nat \ {0}
  /\ PastEnd \subseteq Contents

ASSUME InputAssumption ==
  /\ \A map \in MemMaps : map \in Seq([base : Nat, length : Nat, type : Nat])
  /\ Sizes \subseteq Nat
  /\ Addresses \subseteq Nat

VARIABLES
  memMap,       \* the firmware's memory map
  booted,       \* regions of it prepare_memory_manager has handled
  type,         \* Avail or Resrv, per entry
  firstContig,  \* first entry of the run, per entry
  lastContig,   \* last entry of the run, per entry
  live,         \* history: grants of mm_allocate not yet given back
  firmware,     \* history: blocks reserved by mm_reserveat
  wild          \* a loop ran off the table, or the table got a bad pointer

table == <<type, firstContig, lastContig>>
vars  == <<memMap, booted, type, firstContig, lastContig, live, firmware, wild>>

Runs == [begin : Entries, end : Entries]
Blocks(run) == run.begin .. run.end

-----------------------------------------------------------------------------
(* Addresses and entries *)

\* (address - _memStart) / _mmBlockLength, in unsigned arithmetic
EntryOf(address) == ((address - MemStart) % WordMod) \div BlockLength

\* The address mm_free still accepts although no block starts there
Limit == MemStart + NumEntries * BlockLength

-----------------------------------------------------------------------------
(***************************************************************************)
(* Taking the blocks b..e out of their run.  mm_reserveat and mm_allocate  *)
(* have each a path for a request below one block and one for the others;  *)
(* the four copies differ only in the entry whose lastContig ends the run  *)
(* that is left above e.                                                   *)
(***************************************************************************)
\* A mutant: the rest always runs to the table's end
RestEndAtTop(size, b, e) == ListEnd

RestEnd(size, b, e) ==
  IF size < BlockLength THEN lastContig[b]
  ELSE IF e < ListEnd THEN lastContig[e + 1] ELSE ListEnd

Carve(b, e, stop) ==
  /\ type' = [i \in Entries |-> IF i \in b..e THEN Resrv ELSE type[i]]
  /\ firstContig' = [i \in Entries |->
       IF i \in b..e THEN b
       ELSE IF i \in (e + 1)..stop THEN e + 1 ELSE firstContig[i]]
  /\ lastContig' = [i \in Entries |->
       IF i \in b..e THEN e
       ELSE IF i \in firstContig[e]..(b - 1) THEN b - 1 ELSE lastContig[i]]

\* The loop from firstContig up to b never meets b when it starts above it
MissesBegin(size, b, e) == size >= BlockLength /\ firstContig[e] > b

-----------------------------------------------------------------------------
(* mm_reserveat and the loop of prepare_memory_manager that calls it *)

NothingToReserve(size, b) ==
  \/ size = 0
  \/ b > ListEnd
  \/ b + (size \div BlockLength) \div BlockLength > ListEnd

\* A mutant: the block is reserved before the count is looked at
ReserveEndLate(size, b) ==
  IF size < BlockLength THEN b
  ELSE Min({e \in b..ListEnd :
              (size - (e - b) * BlockLength) % WordMod = 0} \cup {ListEnd})

\* The countdown is unsigned: it stops at zero exactly or at _mmListEnd
ReserveEnd(size, b) ==
  IF size < BlockLength THEN b
  ELSE Min({e \in b..ListEnd :
              (size - (e - b + 1) * BlockLength) % WordMod = 0} \cup {ListEnd})

\* The loop tests for _mmListEnd only after it has moved past its first entry
StartsAtEnd(size, b) == b = ListEnd /\ size > BlockLength

ReserveRunsAway(size, b, e, past) ==
  \/ StartsAtEnd(size, b)
  \/ MissesBegin(size, b, e)
  \/ size >= BlockLength /\ e = ListEnd /\ past = "hostile"

ReserveAt(size, b) ==
  LET e == ReserveEnd(size, b) IN
  \/ /\ NothingToReserve(size, b)
     /\ UNCHANGED <<table, firmware, wild>>
  \/ /\ ~NothingToReserve(size, b)
     /\ \E past \in PastEnd : ReserveRunsAway(size, b, e, past)
     /\ wild' = TRUE
     /\ UNCHANGED <<table, firmware>>
  \/ /\ ~NothingToReserve(size, b)
     /\ \E past \in PastEnd : ~ReserveRunsAway(size, b, e, past)
     /\ Carve(b, e, RestEnd(size, b, e))
     /\ firmware' = firmware \cup b..e
     /\ UNCHANGED wild

\* Regions the loop leaves alone: available, or wholly below the blocks
Skipped(region) ==
  region.type = 1 \/ region.base + region.length <= MemStart

\* The 64-bit base and length are cut to the 32 bits of a pointer
ReserveStart(region) ==
  IF region.base < MemStart THEN EntryOf(MemStart)
  ELSE EntryOf(region.base % WordMod)

ReserveLength(region) ==
  IF region.base < MemStart
  THEN (region.length - (MemStart - region.base)) % WordMod
  ELSE region.length % WordMod

Booting == booted < Len(memMap)

BootEntry ==
  /\ ~wild /\ Booting
  /\ booted' = booted + 1
  /\ LET region == memMap[booted + 1] IN
     \/ /\ Skipped(region)
        /\ UNCHANGED <<table, firmware, wild>>
     \/ /\ ~Skipped(region)
        /\ ReserveAt(ReserveLength(region), ReserveStart(region))
  /\ UNCHANGED <<memMap, live>>

-----------------------------------------------------------------------------
(***************************************************************************)
(* bestFit walks from entry 0 to the entry after each run's lastContig,    *)
(* and stops at _mmListEnd or one past it.  Visited is what it looks at:   *)
(* the least set of entries that holds 0 and the successor of each member. *)
(***************************************************************************)
Hops == {h \in {0} \cup {lastContig[i] + 1 : i \in Entries} : h < ListEnd}

WalkClosed(S) ==
  0 \in S /\ \A h \in S : lastContig[h] + 1 < ListEnd => lastContig[h] + 1 \in S

Visited ==
  LET closed == {S \in SUBSET Hops : WalkClosed(S)}
  IN  {h \in Hops : \A S \in closed : h \in S}

\* A mutant: one block too many
HoleSizePlusOne(h) == (lastContig[h] - firstContig[h] + 2) * BlockLength

HoleSize(h) == (lastContig[h] - firstContig[h] + 1) * BlockLength

\* A mutant: the type is not looked at
HolesOfAnyType(size) == {h \in Visited : HoleSize(h) >= size}

Holes(size) == {h \in Visited : type[h] = Avail /\ HoleSize(h) >= size}

\* A mutant: first fit
FirstFit(size) == Min(Holes(size))

\* The first of the smallest holes that are large enough
BestFit(size) ==
  LET holes    == Holes(size)
      smallest == Min({HoleSize(h) : h \in holes})
  IN  Min({h \in holes : HoleSize(h) = smallest})

AllocateEnd(size, b) ==
  IF size < BlockLength THEN b
  ELSE Min({e \in b..ListEnd : size <= (e - b + 1) * BlockLength} \cup {ListEnd})

AllocateRunsAway(size, b, e, past) ==
  \/ MissesBegin(size, b, e)
  \/ size >= BlockLength /\ e = ListEnd /\ past # "benign"

Granted(size) == size > 0 /\ Holes(size) # {}

Ready == ~wild /\ ~Booting

Allocate(size) ==
  LET b == BestFit(size)
      e == AllocateEnd(size, b)
  IN
  /\ Ready
  /\ \/ /\ ~Granted(size)
        /\ UNCHANGED <<table, live, wild>>
     \/ /\ Granted(size)
        /\ \E past \in PastEnd : AllocateRunsAway(size, b, e, past)
        /\ wild' = TRUE
        /\ UNCHANGED <<table, live>>
     \/ /\ Granted(size)
        /\ \E past \in PastEnd : ~AllocateRunsAway(size, b, e, past)
        /\ Carve(b, e, RestEnd(size, b, e))
        /\ live' = live \cup {[begin |-> b, end |-> e]}
        /\ UNCHANGED wild
  /\ UNCHANGED <<memMap, booted, firmware>>

-----------------------------------------------------------------------------
(***************************************************************************)
(* mm_free.  The run that starts at s is freed and merged with its         *)
(* neighbours.  The right neighbour is looked for one entry too far: the   *)
(* code tests entry e + 2 where the run after e starts at e + 1.           *)
(***************************************************************************)
Refused(address, past) ==
  \/ address < MemStart
  \/ address > Limit
  \/ IF EntryOf(address) > ListEnd
     THEN past # "hostile"
     ELSE \/ firstContig[EntryOf(address)] # EntryOf(address)
          \/ type[EntryOf(address)] = Avail

\* Reads of the entry past the table whose pointers then reach the table
FreeRunsAway(s, past) ==
  s \in Entries => lastContig[s] + 1 = ListEnd /\ past # "benign"

\* A mutant: looks at the entry after s
MergeLeftAfter(s) ==
  IF s < ListEnd /\ type[s + 1] = Avail THEN firstContig[s + 1] ELSE s

\* A mutant: takes one entry of the left neighbour, not the run
MergeLeftOne(s) == IF s # 0 /\ type[s - 1] = Avail THEN s - 1 ELSE s

MergeLeft(s) == IF s # 0 /\ type[s - 1] = Avail THEN firstContig[s - 1] ELSE s

\* A mutant: takes lastContig for the end of a half-open range
MergeRightPastEnd(e) ==
  IF e + 2 <= ListEnd /\ type[e + 2] = Avail THEN lastContig[e + 2] + 1 ELSE e

\* A mutant: does not look at the type
MergeRightOfAnyType(e) == IF e + 2 <= ListEnd THEN lastContig[e + 2] ELSE e

MergeRight(e) ==
  IF e + 2 <= ListEnd /\ type[e + 2] = Avail THEN lastContig[e + 2] ELSE e

Release(s, e, left, right) ==
  LET merged == left # s \/ right # e IN
  /\ type' = [i \in Entries |-> IF i \in s..e THEN Avail ELSE type[i]]
  /\ firstContig' = [i \in Entries |->
       IF merged /\ i \in s..e THEN left
       ELSE IF right # e /\ i \in (e + 1)..lastContig[e + 1] THEN left
       ELSE firstContig[i]]
  /\ lastContig' = [i \in Entries |->
       IF (merged /\ i \in s..e) \/ i \in left..(s - 1) THEN right
       ELSE lastContig[i]]

Free(address) ==
  LET s == EntryOf(address) IN
  /\ Ready
  /\ \/ /\ \E past \in PastEnd : Refused(address, past)
        /\ UNCHANGED <<table, live, wild>>
     \/ /\ \E past \in PastEnd : ~Refused(address, past) /\ FreeRunsAway(s, past)
        /\ wild' = TRUE
        /\ UNCHANGED <<table, live>>
     \/ /\ \E past \in PastEnd : ~Refused(address, past) /\ ~FreeRunsAway(s, past)
        /\ Release(s, lastContig[s], MergeLeft(s), MergeRight(lastContig[s]))
        /\ live' = {run \in live : run.begin # s}
        /\ UNCHANGED wild
  /\ UNCHANGED <<memMap, booted, firmware>>

-----------------------------------------------------------------------------
(* mm_initialize leaves a single free run; the map is the firmware's *)
Init ==
  /\ memMap \in MemMaps
  /\ booted = 0
  /\ type = [i \in Entries |-> Avail]
  /\ firstContig = [i \in Entries |-> 0]
  /\ lastContig = [i \in Entries |-> ListEnd]
  /\ live = {}
  /\ firmware = {}
  /\ wild = FALSE

Next ==
  \/ BootEntry
  \/ \E size \in Sizes : Allocate(size)
  \/ \E address \in Addresses : Free(address)

\* Callers that may pass any size and any address, as the shell's commands do
Spec == Init /\ [][Next]_vars

\* Callers that only give back, once, what they were granted
FreesGrant(address) == \E run \in live : run.begin = EntryOf(address)

LegalNext ==
  \/ BootEntry
  \/ \E size \in Sizes : Allocate(size)
  \/ \E address \in Addresses : FreesGrant(address) /\ Free(address)

LegalSpec == Init /\ [][LegalNext]_vars

-----------------------------------------------------------------------------
(* Every variable has its type. *)
TypeOK ==
  /\ memMap \in MemMaps
  /\ booted \in 0..Len(memMap)
  /\ type \in [Entries -> {Avail, Resrv}]
  /\ firstContig \in [Entries -> Entries]
  /\ lastContig \in [Entries -> Entries]
  /\ live \subseteq Runs
  /\ firmware \subseteq Entries
  /\ wild \in BOOLEAN

(***************************************************************************)
(* Whatever the callers do, an entry's run never ends before it nor starts *)
(* after it.  The walk of bestFit moves to lastContig + 1, so it is this   *)
(* that makes mm_allocate terminate, even in a table that mm_free has      *)
(* damaged (kern_mem.c:550-570).                                           *)
(***************************************************************************)
WalkAdvances ==
  \A i \in Entries : firstContig[i] <= i /\ i <= lastContig[i]

(***************************************************************************)
(* mm_allocate only hands out blocks whose type says they are available    *)
(* (kern_mem.h:10, "0 = AVAIL, 1 = RESRV").                                *)
(***************************************************************************)
OnlyAvailGranted ==
  [][\A run \in live' \ live : \A i \in Blocks(run) : type[i] = Avail]_vars
=============================================================================
