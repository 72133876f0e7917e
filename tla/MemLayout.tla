------------------------------- MODULE MemLayout -------------------------------
(***************************************************************************)
(* Where prepare_memory_manager puts the table of blocks and the blocks    *)
(* (kern_mem.c).  The table goes to the start of the largest available     *)
(* region, the blocks follow it, up to the end of the last region of the   *)
(* map.  All of it is arithmetic on 32-bit words; the values are what      *)
(* KernMem has as constants.                                               *)
(***************************************************************************)
EXTENDS Integers, Sequences, FiniteSetsExt

CONSTANTS
  LayoutMod,     \* one more than the largest word, 2^32
  EntryBytes,    \* sizeof(struct MemoryManagerEntry), 16
  ManagerBytes,  \* sizeof(struct MemoryManager), 40
  SpareBytes,    \* 64: bytes of memory for which there is an entry
  LowLimit       \* 0x90000: regions that start below it are passed over

ASSUME SizesAssumption ==
  /\ LayoutMod \in Nat \ {0} /\ EntryBytes \in Nat \ {0}
  /\ ManagerBytes \in Nat /\ SpareBytes \in Nat /\ LowLimit \in Nat \ {0}

\* A number as a 32-bit word
Word(n) == n % LayoutMod

-----------------------------------------------------------------------------
(* The scan of the map *)

Candidates(map) ==
  {i \in DOMAIN map : map[i].type = 1 /\ map[i].length > 0 /\ map[i].base >= LowLimit}

\* The first of the longest
Largest(map) ==
  Min({i \in Candidates(map) :
         \A j \in Candidates(map) : map[j].length <= map[i].length})

\* largestMemoryBlock, the 64-bit base as a pointer
BlockBase(map) == IF Candidates(map) = {} THEN 0 ELSE Word(map[Largest(map)].base)

\* A mutant: the size is that of each region that is looked at
BlockBytesOfLast(map) == Word(map[Max(Candidates(map))].length)

BlockBytes(map) == Word(map[Largest(map)].length)

\* memoryEnd, of the last region whatever its type
MemoryEnd(map) ==
  LET final == map[Len(map)] IN Word(final.base - 1 + final.length)

-----------------------------------------------------------------------------
(* The layout *)

\* mmEnd: the table's share of the region, counted from 0, not from its base
TableEnd(map) ==
  Word((BlockBytes(map) \div (EntryBytes + SpareBytes)) * EntryBytes - 1)

MemoryStart(map) == Word(TableEnd(map) + 1)

\* With neither the kernel goes on without a memory manager
Prepared(map) == BlockBase(map) # 0 /\ TableEnd(map) # 0

\* create_memory_manager is given their difference
TableLength(map) == Word(TableEnd(map) - BlockBase(map))

\* mm_initialize
EntriesOf(map) == Word(TableLength(map) - ManagerBytes) \div EntryBytes

BlockLengthOf(map) ==
  LET each == Word(MemoryEnd(map) - MemoryStart(map)) \div EntriesOf(map)
  IN  IF each = 0 THEN 1 ELSE each

-----------------------------------------------------------------------------
(***************************************************************************)
(* What the arithmetic takes for granted of the map: the largest region    *)
(* lies below 4 GiB, its base is no more than a fifth of its length away   *)
(* from 0, with room for the manager and two entries (a region at 1 MiB    *)
(* has to have 5 MiB), and a word for each entry's block follows.          *)
(***************************************************************************)
Ordinary(map) ==
  /\ Candidates(map) # {}
  /\ LET region == map[Largest(map)]
         share  == (region.length \div (EntryBytes + SpareBytes)) * EntryBytes
     IN  /\ region.base + region.length <= LayoutMod
         /\ region.base + ManagerBytes + 2 * EntryBytes < share
         /\ share + (share \div EntryBytes) <= MemoryEnd(map)

\* The first address after the table
AfterTable(map) == BlockBase(map) + ManagerBytes + EntriesOf(map) * EntryBytes

(***************************************************************************)
(* In such a map the manager and its table lie inside the largest region,  *)
(* the blocks begin behind them and end before the last region does, and   *)
(* there are blocks enough for KernMem (kern_mem.c:481-510, 30-37).        *)
(***************************************************************************)
LayoutFits(map) ==
  Ordinary(map) =>
    /\ Prepared(map)
    /\ map[Largest(map)].base = BlockBase(map)
    /\ AfterTable(map) <= MemoryStart(map)
    /\ MemoryStart(map) <= map[Largest(map)].base + map[Largest(map)].length
    /\ EntriesOf(map) >= 2 /\ BlockLengthOf(map) >= 1
    /\ MemoryStart(map) + EntriesOf(map) * BlockLengthOf(map) <= MemoryEnd(map)
=============================================================================
