---------------------------- MODULE MCKernMemSafe ----------------------------
(* Instances of KernMemSafe small enough for TLC. *)
EXTENDS KernMemSafe

Region(b, l, t) == [base |-> b, length |-> l, type |-> t]

MCSizes == {0, 1, 2, 3, 4, 6}
MCAddresses == MemStart..Limit

\* With MemStart = 4, BlockLength = 2 and n blocks, the blocks end at 4 + 2n
MCMaps ==
  LET top == Limit IN
  { \* a region below the blocks, a free one, a reserved top of less than a block
    <<Region(0, 3, 2), Region(6, 4, 1), Region(top - 1, 1, 2)>>,
    \* a region that straddles _memStart, and a top that is not a number of
    \* blocks, followed by a region inside what the top region reserved
    <<Region(2, 4, 2), Region(top - 4, 3, 2), Region(top - 2, 1, 2)>>,
    \* a region inside a block and a reserved top of one block
    <<Region(10, 1, 3), Region(top - 2, 2, 2), Region(64 + 62, 4, 2)>>,
    \* regions of whole blocks
    <<Region(2, 4, 2), Region(top - 6, 2, 2), Region(top - 4, 4, 2)>>,
    \* disorderly maps, which SafeSpec leaves out
    <<Region(top - 4, 4, 2), Region(6, 4, 3)>>,
    << >> }
=============================================================================
