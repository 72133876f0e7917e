------------------------------- MODULE FatBytes -------------------------------
(***************************************************************************)
(* FAT entries of 12 bits in bytes (fat12.c): two entries share the second *)
(* of three bytes.  bytes is a function from offsets to 0..255.            *)
(***************************************************************************)
EXTENDS Integers

\* clusterNumber * 1.5, and clusterNumber + clusterNumber / 2
Offset(c) == c + c \div 2

\* fat12_get_cluster; fat12_load_file has a copy of it
GetEntry(bytes, c) ==
  LET word == bytes[Offset(c)] + 256 * bytes[Offset(c) + 1]
  IN  IF c % 2 = 0 THEN word % 4096 ELSE word \div 16

\* A mutant: the byte the entries share is not kept
SetEntryAlone(bytes, c, value) ==
  LET o == Offset(c) IN
  IF c % 2 = 0
  THEN [bytes EXCEPT ![o] = value % 256, ![o + 1] = (value \div 256) % 16]
  ELSE [bytes EXCEPT ![o] = (value * 16) % 256, ![o + 1] = (value \div 16) % 256]

\* fat12_set_cluster, in memory
SetEntry(bytes, c, value) ==
  LET o == Offset(c) IN
  IF c % 2 = 0
  THEN [bytes EXCEPT ![o] = value % 256,
                     ![o + 1] = ((@ \div 16) * 16) + ((value \div 256) % 16)]
  ELSE [bytes EXCEPT ![o] = (@ % 16) + ((value * 16) % 256),
                     ![o + 1] = (value \div 16) % 256]

\* How many bytes it then sends to the disk
BytesSent == 3

-----------------------------------------------------------------------------
(* The same by the half-bytes of the FAT: entry c has those from 3c on *)

Digit(x, j) == CASE j = 0 -> x % 16
                 [] j = 1 -> (x \div 16) % 16
                 [] j = 2 -> (x \div 256) % 16

HalfByte(bytes, i) == Digit(bytes[i \div 2], i % 2)

\* An entry whose digits are new where the write of entry c, cut after n
\* bytes, has reached them, and old elsewhere
Mixed(old, new, e, c, n) ==
  LET digit(j) == Digit(IF 3 * e + j \in (2 * Offset(c))..(2 * (Offset(c) + n) - 1)
                        THEN new ELSE old, j)
  IN  digit(0) + 16 * digit(1) + 256 * digit(2)

(***************************************************************************)
(* Setting an entry sets it and no other, getting one gives what was set,  *)
(* and bytes sent to the disk, all three or the first of them, change the  *)
(* entries there as Mixed says (fat12.c:55-84).                            *)
(***************************************************************************)
PackingSound(bytes, onDisk, c, e, value, n) ==
  LET set  == SetEntry(bytes, c, value)
      sent == [i \in DOMAIN onDisk |->
                 IF i \in Offset(c)..(Offset(c) + n - 1) THEN set[i] ELSE onDisk[i]]
  IN  /\ GetEntry(set, e) = IF e = c THEN value ELSE GetEntry(bytes, e)
      /\ GetEntry(sent, e) = Mixed(GetEntry(onDisk, e), GetEntry(set, e), e, c, n)
=============================================================================
