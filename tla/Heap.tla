--------------------------------- MODULE Heap ---------------------------------
(***************************************************************************)
(* What the memory manager promises its callers: a range of blocks, while  *)
(* it is granted, belongs to one caller alone and is none of the blocks    *)
(* withheld at boot.  Nothing is said of tables, runs or of which free     *)
(* range a request gets.                                                   *)
(***************************************************************************)
EXTENDS Integers

CONSTANT NumBlocks   \* a natural number

VARIABLES
  owned,      \* ranges granted and not given back
  withheld    \* blocks no caller may ever be granted

heapVars == <<owned, withheld>>

AllBlocks == 0..(NumBlocks - 1)
Ranges == [begin : AllBlocks, end : AllBlocks]
BlocksOf(range) == range.begin .. range.end

Free(range) ==
  /\ BlocksOf(range) # {}
  /\ BlocksOf(range) \cap withheld = {}
  /\ \A other \in owned : BlocksOf(range) \cap BlocksOf(other) = {}

HeapInit == owned = {} /\ withheld = {}

\* Only before the first grant
Withhold(blocks) ==
  /\ owned = {}
  /\ withheld' = withheld \cup blocks
  /\ UNCHANGED owned

Grant(range) ==
  /\ Free(range)
  /\ owned' = owned \cup {range}
  /\ UNCHANGED withheld

GiveBack(range) ==
  /\ range \in owned
  /\ owned' = owned \ {range}
  /\ UNCHANGED withheld

HeapNext ==
  \/ \E blocks \in SUBSET AllBlocks : Withhold(blocks)
  \/ \E range \in Ranges : Grant(range) \/ GiveBack(range)

HeapSpec == HeapInit /\ [][HeapNext]_heapVars
=============================================================================
