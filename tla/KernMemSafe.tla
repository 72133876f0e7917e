----------------------------- MODULE KernMemSafe -----------------------------
(***************************************************************************)
(* The use of the memory manager under which it keeps its promises.        *)
(*                                                                         *)
(* KernMem models mm_reserveat and mm_free as they are, and they go wrong  *)
(* for some memory maps and some frees.  Here are the maps and the frees   *)
(* they are right for, and the invariants that then relate the table to    *)
(* what callers own.  Nothing in the kernel enforces the conditions; they  *)
(* say what a caller would have to know about the table.                   *)
(***************************************************************************)
EXTENDS KernMem

(***************************************************************************)
(* The memory maps.  A region that fills the table to its end may only be  *)
(* followed by regions that start inside it, any other one only by regions *)
(* above it; no region of several blocks starts in the last entry; and one *)
(* region covers the last entry, which bestFit never considers.            *)
(***************************************************************************)
Reserving(region) ==
  ~Skipped(region) /\ ~NothingToReserve(ReserveLength(region), ReserveStart(region))

LastReserved(region) == ReserveEnd(ReserveLength(region), ReserveStart(region))

Follows(region, next) ==
  IF LastReserved(region) = ListEnd
  THEN ReserveStart(next) >= ReserveStart(region)
  ELSE ReserveStart(next) > LastReserved(region)

OrderlyMap(map) ==
  /\ \A i, j \in 1..Len(map) :
       i < j /\ Reserving(map[i]) /\ Reserving(map[j]) => Follows(map[i], map[j])
  /\ \A i \in 1..Len(map) :
       Reserving(map[i]) => ~StartsAtEnd(ReserveLength(map[i]), ReserveStart(map[i]))
  /\ \E i \in 1..Len(map) : Reserving(map[i]) /\ LastReserved(map[i]) = ListEnd

\* The RAM past the table, which mm_reserveat reads when it fills the table,
\* must not send it further up.
ASSUME PastEndAssumption == "hostile" \notin PastEnd

\* The blocks end below memoryEnd, a 32-bit word (kern_mem.c:483, 510)
ASSUME AddressAssumption == Limit <= WordMod

(***************************************************************************)
(* The frees.  mm_free tests entry e + 2 for the right neighbour of a run  *)
(* that ends at e.  That is right when the run at e + 1 goes on to e + 2,  *)
(* and harmless when e + 2 is reserved; otherwise the run at e + 1 is one  *)
(* block and mm_free takes the run after it for the neighbour.             *)
(***************************************************************************)
SoundFree(e) ==
  /\ e + 2 <= ListEnd
  /\ lastContig[e + 1] > e + 1 \/ type[e + 2] = Resrv

SafeInit == Init /\ OrderlyMap(memMap)

SafeNext ==
  \/ BootEntry
  \/ \E size \in Sizes : Allocate(size)
  \/ \E address \in Addresses :
       FreesGrant(address) /\ SoundFree(lastContig[EntryOf(address)]) /\ Free(address)

SafeSpec == SafeInit /\ [][SafeNext]_vars

-----------------------------------------------------------------------------
(***************************************************************************)
(* The runs partition the table: the entries of a run agree on where it    *)
(* starts, where it ends and whether it is free.  Every loop over a run in *)
(* kern_mem.c, and the hole sizes bestFit compares, rely on it.            *)
(***************************************************************************)
RunOf(i) == firstContig[i]..lastContig[i]

Partition ==
  \A i \in Entries : \A j \in RunOf(i) :
    /\ firstContig[j] = firstContig[i]
    /\ lastContig[j] = lastContig[i]
    /\ type[j] = type[i]

(***************************************************************************)
(* Each grant is exactly one run of the table, so that mm_free, which is   *)
(* given no size, frees what mm_allocate granted: no block is leaked and   *)
(* none of a neighbour's is freed.                                         *)
(***************************************************************************)
LiveAreRuns ==
  \A run \in live :
    /\ run.begin <= run.end
    /\ firstContig[run.begin] = run.begin
    /\ lastContig[run.begin] = run.end

(***************************************************************************)
(* An entry is RESRV exactly when the firmware or a caller has its block,  *)
(* and never both: mm_allocate, mm_free and mm_reserveat neither lose a    *)
(* block nor give one away twice.                                          *)
(***************************************************************************)
Accounting ==
  /\ \A i \in Entries :
       type[i] = Resrv <=> i \in firmware \/ \E run \in live : i \in Blocks(run)
  /\ \A run \in live : Blocks(run) \cap firmware = {}
  /\ \A run, other \in live :
       run # other => Blocks(run) \cap Blocks(other) = {}

(***************************************************************************)
(* No loop of the memory manager leaves the table.                         *)
(***************************************************************************)
NoWild == ~wild

(***************************************************************************)
(* bestFit, which follows the chain of runs, finds what a search of the    *)
(* whole table would: a smallest free run that is large enough whenever    *)
(* there is one, and otherwise none.                                       *)
(***************************************************************************)
FreeRuns == {i \in Entries : firstContig[i] = i /\ type[i] = Avail}

BestFitIsBest ==
  Ready => \A size \in Sizes \ {0} :
    LET fits == {h \in FreeRuns : HoleSize(h) >= size} IN
    /\ Holes(size) = fits
    /\ fits # {} => /\ BestFit(size) \in fits
                    /\ \A h \in fits : HoleSize(BestFit(size)) <= HoleSize(h)

(***************************************************************************)
(* The countdown of mm_reserveat only ends in time for a number of whole   *)
(* blocks; otherwise it wraps and all blocks up to the table's end are     *)
(* reserved.  And a region that starts inside a block lacks its last one.  *)
(***************************************************************************)
WholeBlocks(region) ==
  \/ Skipped(region)
  \/ /\ BlockLength > 1 /\ region.base + region.length <= Limit
     /\ region.base < MemStart \/ (region.base - MemStart) % BlockLength = 0
     /\ (region.base + region.length - MemStart) % BlockLength = 0

Touches(region, i) ==
  /\ ~Skipped(region)
  /\ region.base < MemStart + (i + 1) * BlockLength
  /\ region.base + region.length > MemStart + i * BlockLength

(***************************************************************************)
(* As long as the regions of the map are of whole blocks, what the boot    *)
(* reserves is what they touch: "Keep reserving blocks until the requested *)
(* amount is reserved" (kern_mem.c:110), no block less and none more.      *)
(***************************************************************************)
ReservedExactly ==
  (\A k \in 1..booted : WholeBlocks(memMap[k])) =>
    firmware = {i \in Entries : \E k \in 1..booted : Touches(memMap[k], i)}

\* The heap the table implements
Owners == INSTANCE Heap WITH NumBlocks <- NumEntries, owned <- live,
                             withheld <- firmware

(***************************************************************************)
(* The memory manager implements the heap: a grant is of blocks nobody     *)
(* holds, a free gives back one grant and leaves the others alone.         *)
(***************************************************************************)
HeapRefined == Owners!HeapSpec
=============================================================================
