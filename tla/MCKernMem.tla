------------------------------ MODULE MCKernMem ------------------------------
(* Instances of KernMem small enough for TLC. *)
EXTENDS KernMem

Region(b, l, t) == [base |-> b, length |-> l, type |-> t]

MCSizes == {0, 1, 2, 4, 6}
\* the start of every block, the middle of one, and what lies around them
MCAddresses == {MemStart - 1, MemStart + 3, Limit + 1}
                 \cup {MemStart + i * BlockLength : i \in 0..NumEntries}

\* With MemStart = 4, BlockLength = 2 and n blocks, the blocks end at 4 + 2n
MCMaps ==
  LET top == Limit IN
  { << >>,
    \* a short region below the blocks, a free one and a reserved top that is
    \* not a number of blocks
    <<Region(0, 3, 2), Region(6, 4, 1), Region(top - 3, 3, 2)>>,
    \* a region that straddles _memStart and a reserved top
    <<Region(2, 4, 2), Region(top - 2, 2, 2)>>,
    \* a region of part of a block, then a larger one from the same block
    <<Region(8, 1, 2), Region(8, 4, 2)>>,
    \* regions in falling order, the last past the end
    <<Region(top - 4, 4, 2), Region(6, 4, 3), Region(60, 4, 2)>>,
    \* a region above the largest pointer, and one that starts in the last block
    <<Region(64 + 8, 2, 2), Region(top - 2, 3, 2)>> }

(* What Spec's later steps depend on: the history variables decide nothing
   there, nor does the map once its regions are handled. *)
MCView == <<IF Booting THEN <<memMap, booted>> ELSE << >>, table, wild>>
=============================================================================
