---------------------------------- MODULE Pci ----------------------------------
(***************************************************************************)
(* The search for PCI functions at start-up (kern_pci.c): which function   *)
(* of the machine is looked at, in which order, and what is read of it.    *)
(*                                                                         *)
(* The machine is its configuration space: for each function that exists,  *)
(* the bytes the kernel reads.  The calls of pciCheckBus are a stack; each *)
(* has a place in its own loops.                                           *)
(***************************************************************************)
EXTENDS Integers, Sequences, SequencesExt

CONSTANTS
  Machines,      \* the configuration spaces considered
  NumSlots,      \* devices of a bus, 32
  NumFunctions   \* functions of a device, 8

\* Offsets in a function's configuration space, as in the code
RevisionAt     == 8
ProgIFAt       == 9
SubClassAt     == 10
BaseClassAt    == 11
HeaderTypeAt   == 14
PrimaryBusAt   == 24
SecondaryBusAt == 25

ByteOffsets == {RevisionAt, ProgIFAt, SubClassAt, BaseClassAt, HeaderTypeAt,
                PrimaryBusAt, SecondaryBusAt}

Functions == (0..255) \X (0..(NumSlots - 1)) \X (0..(NumFunctions - 1))

ASSUME MachineAssumption ==
  /\ NumSlots \in Nat \ {0} /\ NumFunctions \in 2..256
  /\ \A m \in Machines : /\ DOMAIN m \subseteq Functions
                         /\ \A f \in DOMAIN m : m[f] \in [ByteOffsets -> 0..255]

VARIABLES
  machine,   \* the configuration space
  host,      \* pciEnumerate's counter, NumFunctions when it is done
  calls,     \* calls of pciCheckBus under way, the last one on top
  visited    \* history: functions given to pciCheckFunction, in order

pciVars == <<machine, host, calls, visited>>

-----------------------------------------------------------------------------
(* Reading the configuration space *)

\* The vendor is all ones where no function is
Exists(f) == f \in DOMAIN machine

\* The low byte of pciConfigReadWord: the word that holds the offset, for the
\* offset's last bit plays no part
LowByte(f, offset) == IF Exists(f) THEN machine[f][offset - (offset % 2)] ELSE 255

pciGetBaseClass(f)    == LowByte(f, BaseClassAt)
pciGetSubClass(f)     == LowByte(f, SubClassAt)
pciGetProgIF(f)       == LowByte(f, ProgIFAt)
pciGetHeaderType(f)   == LowByte(f, HeaderTypeAt)
pciGetSecondaryBus(f) == LowByte(f, SecondaryBusAt)

-----------------------------------------------------------------------------
(* The loops *)

SingleHost == (pciGetHeaderType(<<0, 0, 0>>) \div 128) % 2 = 0

\* headerType & 0x80 != 0 is headerType & 1
TestsFunctions(f) == pciGetHeaderType(f) % 2 = 1

IsBridge(f) == pciGetBaseClass(f) = 6 /\ pciGetSubClass(f) = 4

Call(bus) == [bus |-> bus, slot |-> 0, func |-> 0]

Top      == Last(calls)
Under(c) == Append(Front(calls), c)

Current == <<Top.bus, Top.slot, Top.func>>

\* A mutant: the return for a device that is not there is missing
NextOfAbsent(c) ==
  LET f == <<c.bus, c.slot, c.func>>
      more == IF c.func = 0 THEN TestsFunctions(f)
              ELSE c.func + 1 < NumFunctions
  IN  IF more THEN [c EXCEPT !.func = @ + 1]
      ELSE [c EXCEPT !.slot = @ + 1, !.func = 0]

\* Where pciCheckDevice and pciCheckBus go after a function
NextPlace(c) ==
  LET f == <<c.bus, c.slot, c.func>>
      more == IF c.func = 0 THEN Exists(f) /\ TestsFunctions(f)
              ELSE c.func + 1 < NumFunctions
  IN  IF more THEN [c EXCEPT !.func = @ + 1]
      ELSE [c EXCEPT !.slot = @ + 1, !.func = 0]

\* pciEnumerate.  With several hosts it stops at the first one that exists
CheckHostBus ==
  /\ calls = << >> /\ host < NumFunctions
  /\ \/ /\ SingleHost
        /\ calls' = <<Call(0)>> /\ host' = NumFunctions
     \/ /\ ~SingleHost /\ ~Exists(<<0, 0, host>>)
        /\ calls' = <<Call(host)>> /\ host' = host + 1
     \/ /\ ~SingleHost /\ Exists(<<0, 0, host>>)
        /\ host' = NumFunctions /\ UNCHANGED calls
  /\ UNCHANGED <<machine, visited>>

\* The loops pass over a function that is not there
SkipFunction ==
  /\ calls # << >> /\ Top.slot < NumSlots /\ ~Exists(Current)
  /\ calls' = Under(NextPlace(Top))
  /\ UNCHANGED <<machine, host, visited>>

\* pciCheckFunction; what it does with the function is in StartUp
CheckFunction ==
  /\ calls # << >> /\ Top.slot < NumSlots /\ Exists(Current)
  /\ visited' = Append(visited, Current)
  /\ calls' = Under(NextPlace(Top)) \o
              IF IsBridge(Current) THEN <<Call(pciGetSecondaryBus(Current))>>
              ELSE << >>
  /\ UNCHANGED <<machine, host>>

ReturnFromBus ==
  /\ calls # << >> /\ Top.slot = NumSlots
  /\ calls' = Front(calls)
  /\ UNCHANGED <<machine, host, visited>>

Enumerated == calls = << >> /\ host = NumFunctions

PciInit ==
  machine \in Machines /\ host = 0 /\ calls = << >> /\ visited = << >>

PciNext == CheckHostBus \/ SkipFunction \/ CheckFunction \/ ReturnFromBus

PciSpec == PciInit /\ [][PciNext]_pciVars

-----------------------------------------------------------------------------
PciTypeOK ==
  /\ machine \in Machines /\ host \in 0..NumFunctions
  /\ calls \in Seq([bus : 0..255, slot : 0..NumSlots, func : 0..(NumFunctions - 1)])
  /\ visited \in Seq(Functions)

(***************************************************************************)
(* What goes into the list of devices is there, and is there once; a       *)
(* further function of a device is looked for only behind its function 0,  *)
(* as PCI demands; and with one host no device of bus 0 is missed          *)
(* (kern_pci.c:57-103).  Which further functions and buses the search      *)
(* misses is in PciProofs.                                                 *)
(***************************************************************************)
SearchFinds ==
  /\ \A i \in DOMAIN visited : Exists(visited[i])
  /\ \A i, j \in DOMAIN visited : i # j => visited[i] # visited[j]
  /\ \A i \in DOMAIN visited : visited[i][3] # 0 =>
       \E j \in 1..(i - 1) : visited[j] = <<visited[i][1], visited[i][2], 0>>
  /\ Enumerated /\ SingleHost =>
       \A f \in DOMAIN machine : f[1] = 0 /\ f[3] = 0 =>
         \E i \in DOMAIN visited : visited[i] = f
=============================================================================
