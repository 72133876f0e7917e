------------------------------ MODULE MCAtaPio -------------------------------
(* Instances of AtaPio small enough for TLC. *)
EXTENDS AtaPio

MCBuffers == {"x"}

Asking(lba, offset, length) ==
  [lba |-> lba, offset |-> offset, length |-> length, buf |-> "x"]

\* across two sectors, exactly one (and the one after it is rewritten), four
\* with both ends cut, an offset of more than a sector, past the disk
MCRequests ==
  {Asking(0, 1, 2), Asking(1, 0, 2), Asking(0, 1, 6), Asking(0, 3, 1),
   Asking(3, 1, 2)}
=============================================================================
