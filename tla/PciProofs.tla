------------------------------- MODULE PciProofs -------------------------------
(***************************************************************************)
(* For every machine the search visits what VisitsSeen says, from which    *)
(* SearchFinds follows.  It never calls itself, for no function is taken   *)
(* for a bridge; so one place in the order of functions says how far it    *)
(* has come.                                                               *)
(***************************************************************************)
EXTENDS Pci, TLAPS, SequenceTheorems

(***************************************************************************)
(* Which functions the kernel sees, told without its loops: those of bus 0 *)
(* of a machine with one host; of a machine with nothing at 0:0:0 also     *)
(* those of the buses below the first function that exists at 0:0; and of  *)
(* a device only the first, if its header type is even.  No bridge is ever *)
(* followed: the class byte read is the subclass.                          *)
(***************************************************************************)
HostBuses == IF SingleHost THEN {0}
             ELSE {k \in 0..(NumFunctions - 1) : \A i \in 0..k : ~Exists(<<0, 0, i>>)}

Seen == {f \in DOMAIN machine :
           /\ f[1] \in HostBuses
           /\ f[3] # 0 => /\ <<f[1], f[2], 0>> \in DOMAIN machine
                          /\ machine[<<f[1], f[2], 0>>][HeaderTypeAt] % 2 = 1}

Precedes(f, g) ==
  \/ f[1] < g[1]
  \/ f[1] = g[1] /\ f[2] < g[2]
  \/ f[1] = g[1] /\ f[2] = g[2] /\ f[3] < g[3]

(***************************************************************************)
(* The search visits functions in rising order, only ones that it sees,    *)
(* and when it is done all of those (kern_pci.c:57-125).  This is what the *)
(* code does, not what its comments ask for: "Check for multiple           *)
(* functions" (92) and "Detect secondary busses" (120) want more of them.  *)
(***************************************************************************)
VisitsSeen ==
  /\ \A i, j \in DOMAIN visited : i < j => Precedes(visited[i], visited[j])
  /\ \A i \in DOMAIN visited : visited[i] \in Seen
  /\ Enumerated => \A f \in Seen : \E i \in DOMAIN visited : visited[i] = f

Calls == [bus : 0..255, slot : 0..NumSlots, func : 0..(NumFunctions - 1)]

\* Before the place of the call c
BeforeCall(f, c) ==
  \/ f[1] < c.bus
  \/ f[1] = c.bus /\ f[2] < c.slot
  \/ f[1] = c.bus /\ f[2] = c.slot /\ f[3] < c.func

Reached(f) ==
  \/ calls = << >> /\ f[1] < host
  \/ \E c \in Calls : calls = <<c>> /\ BeforeCall(f, c)

\* Where a call can be
CallOK(c) ==
  /\ c.bus \in HostBuses
  /\ IF SingleHost THEN host = NumFunctions ELSE host = c.bus + 1
  /\ c.slot = NumSlots => c.func = 0
  /\ c.func # 0 => /\ <<c.bus, c.slot, 0>> \in DOMAIN machine
                   /\ machine[<<c.bus, c.slot, 0>>][HeaderTypeAt] % 2 = 1

PciInv ==
  /\ machine \in Machines /\ host \in 0..NumFunctions
  /\ calls = << >> \/ \E c \in Calls : calls = <<c>> /\ CallOK(c)
  /\ calls = << >> /\ host < NumFunctions =>
       IF SingleHost THEN host = 0 ELSE \A i \in 0..(host - 1) : ~Exists(<<0, 0, i>>)
  /\ visited \in Seq(Functions)
  /\ \A i \in 1..Len(visited) : visited[i] \in Seen /\ Reached(visited[i])
  /\ \A i, j \in 1..Len(visited) : i < j => Precedes(visited[i], visited[j])
  /\ \A f \in Seen : Reached(f) => \E i \in 1..Len(visited) : visited[i] = f

LEMMA MachineFields ==
  ASSUME machine \in Machines
  PROVE  /\ DOMAIN machine \subseteq Functions
         /\ \A f \in DOMAIN machine : machine[f] \in [ByteOffsets -> 0..255]
BY MachineAssumption

LEMMA FunctionFields ==
  ASSUME NEW f \in Functions
  PROVE  /\ f = <<f[1], f[2], f[3]>>
         /\ f[1] \in 0..255 /\ f[2] \in 0..(NumSlots - 1)
         /\ f[3] \in 0..(NumFunctions - 1)
BY DEF Functions

\* Class and subclass are read from the same word, and 6 is not 4
LEMMA NoBridge ==
  ASSUME NEW f
  PROVE  ~IsBridge(f)
BY DEF IsBridge, pciGetBaseClass, pciGetSubClass, LowByte, BaseClassAt, SubClassAt

LEMMA TestsHeader ==
  ASSUME NEW f \in DOMAIN machine
  PROVE  TestsFunctions(f) <=> machine[f][HeaderTypeAt] % 2 = 1
<1>1. HeaderTypeAt - (HeaderTypeAt % 2) = HeaderTypeAt
  BY DEF HeaderTypeAt
<1> QED
  BY <1>1 DEF TestsFunctions, pciGetHeaderType, LowByte, Exists

\* A call moves over its function, and with it over all the functions of a
\* slot that are not to be seen
LEMMA NextPlaceMoves ==
  ASSUME PciInv, NEW c \in Calls, calls = <<c>>, c.slot < NumSlots
  PROVE  /\ NextPlace(c) \in Calls /\ CallOK(NextPlace(c))
         /\ \A f \in Seen : BeforeCall(f, NextPlace(c)) <=>
                              BeforeCall(f, c) \/ f = <<c.bus, c.slot, c.func>>
<1> DEFINE first == <<c.bus, c.slot, 0>>
           here  == <<c.bus, c.slot, c.func>>
           more  == IF c.func = 0 THEN Exists(here) /\ TestsFunctions(here)
                    ELSE c.func + 1 < NumFunctions
<1>1. CallOK(c)
  <2>1. PICK d \in Calls : calls = <<d>> /\ CallOK(d)
    BY DEF PciInv
  <2> QED
    BY <2>1
<1>2. /\ c.bus \in 0..255 /\ c.slot \in 0..NumSlots /\ c.func \in 0..(NumFunctions - 1)
      /\ c.slot \in Nat /\ c.func \in Nat
      /\ NumSlots \in Nat /\ NumFunctions \in Nat /\ NumFunctions > 1
  BY MachineAssumption DEF Calls
<1>3. \A f \in Seen : /\ f = <<f[1], f[2], f[3]>>
                      /\ f[1] \in Nat /\ f[2] \in Nat /\ f[3] \in Nat
                      /\ f[3] < NumFunctions /\ f \in DOMAIN machine
                      /\ f[3] # 0 => /\ <<f[1], f[2], 0>> \in DOMAIN machine
                                     /\ machine[<<f[1], f[2], 0>>][HeaderTypeAt] % 2 = 1
  <2> SUFFICES ASSUME NEW f \in Seen
               PROVE  /\ f = <<f[1], f[2], f[3]>>
                      /\ f[1] \in Nat /\ f[2] \in Nat /\ f[3] \in Nat
                      /\ f[3] < NumFunctions /\ f \in DOMAIN machine
                      /\ f[3] # 0 => /\ <<f[1], f[2], 0>> \in DOMAIN machine
                                     /\ machine[<<f[1], f[2], 0>>][HeaderTypeAt] % 2 = 1
    OBVIOUS
  <2>1. f \in Functions
    BY MachineFields DEF PciInv, Seen
  <2> QED
    BY <1>2, <2>1, FunctionFields DEF Seen
<1>4. more => IF c.func = 0
              THEN first \in DOMAIN machine /\ machine[first][HeaderTypeAt] % 2 = 1
              ELSE c.func + 1 < NumFunctions
  BY TestsHeader DEF Exists
<1>5. CASE more
  <2>1. NextPlace(c) = [c EXCEPT !.func = @ + 1]
    BY <1>5 DEF NextPlace
  <2>2. /\ NextPlace(c) \in Calls /\ NextPlace(c).bus = c.bus
        /\ NextPlace(c).slot = c.slot /\ NextPlace(c).func = c.func + 1
    BY <1>2, <1>4, <1>5, <2>1 DEF Calls
  <2>3. CallOK(NextPlace(c))
    BY <1>1, <1>2, <1>4, <1>5, <2>2 DEF CallOK
  <2>4. \A f \in Seen : BeforeCall(f, NextPlace(c)) <=> BeforeCall(f, c) \/ f = here
    <3> SUFFICES ASSUME NEW f \in Seen
                 PROVE  BeforeCall(f, NextPlace(c)) <=> BeforeCall(f, c) \/ f = here
      OBVIOUS
    <3>1. PICK x, y, z \in Nat : x = f[1] /\ y = f[2] /\ z = f[3] /\ f = <<x, y, z>>
      <4>1. f[1] \in Nat /\ f[2] \in Nat /\ f[3] \in Nat /\ f = <<f[1], f[2], f[3]>>
        BY <1>3, Zenon
      <4> QED
        BY <4>1, Zenon
    <3> HIDE DEF more
    <3>2. f = here <=> x = c.bus /\ y = c.slot /\ z = c.func
      BY <3>1
    <3>3. BeforeCall(f, c) <=>
            \/ x < c.bus
            \/ x = c.bus /\ y < c.slot
            \/ x = c.bus /\ y = c.slot /\ z < c.func
      BY <3>1 DEF BeforeCall
    <3>4. BeforeCall(f, NextPlace(c)) <=>
            \/ x < c.bus
            \/ x = c.bus /\ y < c.slot
            \/ x = c.bus /\ y = c.slot /\ z < c.func + 1
      BY <2>2, <3>1 DEF BeforeCall
    <3> QED
      BY <1>2, <3>2, <3>3, <3>4
  <2> QED
    BY <2>2, <2>3, <2>4
<1>6. CASE ~more
  <2>1. NextPlace(c) = [c EXCEPT !.slot = @ + 1, !.func = 0]
    BY <1>6 DEF NextPlace
  <2>2. /\ NextPlace(c) \in Calls /\ NextPlace(c).bus = c.bus
        /\ NextPlace(c).slot = c.slot + 1 /\ NextPlace(c).func = 0
    <3> HIDE DEF more
    <3>1. NextPlace(c) = [bus |-> c.bus, slot |-> c.slot + 1, func |-> 0]
      BY <2>1 DEF Calls
    <3>2. c.slot + 1 \in 0..NumSlots /\ 0 \in 0..(NumFunctions - 1)
      BY <1>2
    <3> QED
      BY <1>2, <3>1, <3>2 DEF Calls
  <2>3. CallOK(NextPlace(c))
    <3> HIDE DEF more
    <3> QED
      BY <1>1, <1>2, <2>2 DEF CallOK
  <2>4. \A f \in Seen : f[1] = c.bus /\ f[2] = c.slot => f[3] <= c.func
    <3>1. SUFFICES ASSUME NEW f \in Seen, f[1] = c.bus, f[2] = c.slot, ~(f[3] <= c.func)
                   PROVE  FALSE
      BY Zenon
    <3>2. PICK z \in Nat : z = f[3] /\ z < NumFunctions /\ z > c.func
      <4>1. f[3] \in Nat /\ f[3] < NumFunctions
        BY <1>3, <3>1
      <4>2. f[3] > c.func
        BY <1>2, <3>1, <4>1
      <4> QED
        BY <4>1, <4>2
    <3>3. <<f[1], f[2], 0>> = first /\ z # 0
      BY <1>2, <3>1, <3>2
    <3>4. first \in DOMAIN machine /\ machine[first][HeaderTypeAt] % 2 = 1
      BY <1>3, <3>2, <3>3
    <3>5. CASE c.func = 0
      <4>1. here = first /\ Exists(here) /\ TestsFunctions(here)
        BY <3>4, <3>5, TestsHeader DEF Exists
      <4> QED
        BY <1>6, <3>5, <4>1
    <3>6. CASE c.func # 0
      <4>1. ~(c.func + 1 < NumFunctions)
        BY <1>6, <3>6
      <4> QED
        BY <1>2, <3>2, <4>1
    <3> QED
      BY <3>5, <3>6
  <2>5. \A f \in Seen : BeforeCall(f, NextPlace(c)) <=> BeforeCall(f, c) \/ f = here
    <3> SUFFICES ASSUME NEW f \in Seen
                 PROVE  BeforeCall(f, NextPlace(c)) <=> BeforeCall(f, c) \/ f = here
      OBVIOUS
    <3> HIDE DEF more
    <3>1. PICK x, y, z \in Nat : x = f[1] /\ y = f[2] /\ z = f[3] /\ f = <<x, y, z>>
      <4>1. f[1] \in Nat /\ f[2] \in Nat /\ f[3] \in Nat /\ f = <<f[1], f[2], f[3]>>
        BY <1>3, Zenon
      <4> QED
        BY <4>1, Zenon
    <3>2. f = here <=> x = c.bus /\ y = c.slot /\ z = c.func
      BY <3>1
    <3>3. BeforeCall(f, c) <=>
            \/ x < c.bus
            \/ x = c.bus /\ y < c.slot
            \/ x = c.bus /\ y = c.slot /\ z < c.func
      BY <3>1 DEF BeforeCall
    <3>4. BeforeCall(f, NextPlace(c)) <=>
            \/ x < c.bus
            \/ x = c.bus /\ y < c.slot + 1
            \/ x = c.bus /\ y = c.slot + 1 /\ z < 0
      BY <2>2, <3>1 DEF BeforeCall
    <3>5. x = c.bus /\ y = c.slot => z <= c.func
      BY <2>4, <3>1
    <3> QED
      BY <1>2, <3>2, <3>3, <3>4, <3>5
  <2> QED
    BY <2>2, <2>3, <2>5
<1> QED
  BY <1>5, <1>6

-----------------------------------------------------------------------------
(* The steps *)

LEMMA OneCall ==
  ASSUME NEW c
  PROVE  /\ <<c>> # << >> /\ Last(<<c>>) = c /\ Front(<<c>>) = << >>
         /\ \A d : Append(Front(<<c>>), d) = <<d>> /\ (<<c>> = <<d>> => c = d)
<1>1. Front(<<c>>) = << >>
  BY DEF Front
<1>2. \A d : Append(<< >>, d) = <<d>>
  OBVIOUS
<1>3. Last(<<c>>) = c
  BY DEF Last
<1>4. \A d : <<c>> = <<d>> => c = d
  OBVIOUS
<1> QED
  BY <1>1, <1>2, <1>3, <1>4

LEMMA SeenFields ==
  ASSUME machine \in Machines, NEW f \in Seen
  PROVE  /\ f \in Functions /\ f[1] \in Nat /\ f[2] \in 0..(NumSlots - 1)
         /\ f[3] \in Nat /\ f[1] \in HostBuses /\ f[1] < NumFunctions
<1>1. f \in Functions /\ f[1] \in HostBuses
  BY MachineFields DEF Seen
<1>2. HostBuses \subseteq 0..(NumFunctions - 1)
  BY MachineAssumption DEF HostBuses
<1> QED
  BY <1>1, <1>2, FunctionFields, MachineAssumption

\* What is to be seen does not change
LEMMA SameMachine ==
  ASSUME UNCHANGED machine
  PROVE  /\ SingleHost' = SingleHost /\ HostBuses' = HostBuses /\ Seen' = Seen
         /\ \A f : Exists(f)' = Exists(f)
<1>1. \A f : Exists(f)' = Exists(f)
  BY DEF Exists
<1>2. SingleHost' = SingleHost
  BY DEF SingleHost, pciGetHeaderType, LowByte, Exists
<1>3. HostBuses' = HostBuses
  BY <1>2 DEF HostBuses, Exists
<1> QED
  BY <1>1, <1>2, <1>3 DEF Seen

\* A step after which as much has been seen as before
LEMMA NothingNew ==
  ASSUME PciInv, UNCHANGED <<machine, visited>>, host' \in 0..NumFunctions,
         \A f \in Seen : Reached(f)' <=> Reached(f),
         calls' = << >> \/ \E c \in Calls : calls' = <<c>> /\ CallOK(c)',
         calls' = << >> /\ host' < NumFunctions =>
           IF SingleHost THEN host' = 0 ELSE \A i \in 0..(host' - 1) : ~Exists(<<0, 0, i>>)
  PROVE  PciInv'
<1>1. Seen' = Seen /\ SingleHost' = SingleHost /\ \A f : Exists(f)' = Exists(f)
  BY SameMachine
<1>2. machine' \in Machines /\ visited' \in Seq(Functions)
  BY DEF PciInv
<1>3. (\A i \in 1..Len(visited) : visited[i] \in Seen /\ Reached(visited[i]))'
  <2> SUFFICES ASSUME NEW i \in 1..Len(visited')
               PROVE  (visited[i] \in Seen /\ Reached(visited[i]))'
    OBVIOUS
  <2>1. PICK f \in Seen : f = visited[i] /\ Reached(f)
    BY DEF PciInv
  <2>2. Reached(f)' /\ f \in Seen' /\ f = visited'[i]
    BY <1>1, <2>1
  <2> QED
    BY <2>2 DEF Reached
<1>4. \A f \in Seen' : Reached(f)' => \E i \in 1..Len(visited') : visited'[i] = f
  BY <1>1 DEF PciInv
<1>5. \A i, j \in 1..Len(visited') : i < j => Precedes(visited'[i], visited'[j])
  BY DEF PciInv
<1>6. calls' = << >> /\ host' < NumFunctions =>
        IF SingleHost' THEN host' = 0
        ELSE \A i \in 0..(host' - 1) : ~Exists(<<0, 0, i>>)'
  BY <1>1
<1> QED
  BY <1>1, <1>2, <1>3, <1>4, <1>5, <1>6 DEF PciInv

LEMMA HostStep ==
  ASSUME PciInv, CheckHostBus
  PROVE  PciInv'
<1>1. /\ calls = << >> /\ host \in Nat /\ host < NumFunctions
      /\ NumFunctions \in 2..256 /\ NumSlots \in Nat \ {0}
      /\ UNCHANGED <<machine, visited>>
  BY MachineAssumption DEF CheckHostBus, PciInv
<1>2. IF SingleHost THEN host = 0 ELSE \A i \in 0..(host - 1) : ~Exists(<<0, 0, i>>)
  BY <1>1 DEF PciInv
<1>3. \A f \in Seen : Reached(f) <=> f[1] < host
  BY <1>1, OneCall DEF Reached
<1>4. \A f \in Seen : f[1] \in Nat /\ f[1] \in HostBuses /\ f[1] < NumFunctions
                     /\ f[2] \in Nat /\ f[3] \in Nat
  BY SeenFields, MachineAssumption DEF PciInv
<1>5. SingleHost' = SingleHost /\ HostBuses' = HostBuses
  BY <1>1, SameMachine
<1>6. ASSUME NEW bus \in 0..255, calls' = <<Call(bus)>>, host' \in 0..NumFunctions,
             bus \in HostBuses, bus = host,
             IF SingleHost THEN host' = NumFunctions ELSE host' = bus + 1
      PROVE  PciInv'
  <2>1. /\ Call(bus) \in Calls /\ Call(bus).bus = bus
        /\ Call(bus).slot = 0 /\ Call(bus).func = 0
    BY <1>1 DEF Call, Calls
  <2>2. CallOK(Call(bus))'
    BY <1>1, <1>5, <1>6, <2>1 DEF CallOK
  <2>3. \A f \in Seen : Reached(f)' <=> BeforeCall(f, Call(bus))
    BY <1>6, <2>1, OneCall DEF Reached
  <2>4. \A f \in Seen : BeforeCall(f, Call(bus)) <=> f[1] < host
    BY <1>1, <1>4, <1>6, <2>1 DEF BeforeCall
  <2>5. \A f \in Seen : Reached(f)' <=> Reached(f)
    BY <1>3, <2>3, <2>4
  <2>6. calls' # << >>
    BY <1>6
  <2> QED
    BY <1>1, <1>6, <2>1, <2>2, <2>5, <2>6, NothingNew
<1>7. CASE SingleHost /\ calls' = <<Call(0)>> /\ host' = NumFunctions
  <2>1. 0 \in HostBuses /\ host = 0
    BY <1>2, <1>7 DEF HostBuses
  <2> QED
    BY <1>1, <1>6, <1>7, <2>1
<1>8. CASE ~SingleHost /\ ~Exists(<<0, 0, host>>) /\ calls' = <<Call(host)>>
           /\ host' = host + 1
  <2>1. host \in HostBuses
    BY <1>1, <1>2, <1>8 DEF HostBuses
  <2>2. host \in 0..255
    BY <1>1
  <2> QED
    BY <1>1, <1>6, <1>8, <2>1, <2>2
<1>9. CASE ~SingleHost /\ Exists(<<0, 0, host>>) /\ host' = NumFunctions
           /\ UNCHANGED calls
  <2>1. \A k \in HostBuses : k < host
    BY <1>1, <1>9 DEF HostBuses
  <2>2. \A f \in Seen : Reached(f)' <=> Reached(f)
    BY <1>1, <1>3, <1>4, <1>9, <2>1, OneCall DEF Reached
  <2> QED
    BY <1>1, <1>9, <2>2, NothingNew
<1> QED
  BY <1>7, <1>8, <1>9 DEF CheckHostBus

LEMMA SkipStep ==
  ASSUME PciInv, SkipFunction
  PROVE  PciInv'
<1>1. PICK c \in Calls : calls = <<c>> /\ CallOK(c)
  BY DEF PciInv, SkipFunction
<1>2. /\ c.slot < NumSlots /\ ~Exists(<<c.bus, c.slot, c.func>>)
      /\ calls' = <<NextPlace(c)>>
      /\ UNCHANGED <<machine, host, visited>>
  BY <1>1, OneCall DEF SkipFunction, Top, Current, Under
<1>3. PICK d \in Calls :
        /\ d = NextPlace(c) /\ CallOK(d)
        /\ \A f \in Seen : BeforeCall(f, d) <=>
                             BeforeCall(f, c) \/ f = <<c.bus, c.slot, c.func>>
  BY <1>1, <1>2, NextPlaceMoves
<1>4. \A f \in Seen : f # <<c.bus, c.slot, c.func>>
  BY <1>2 DEF Seen, Exists
<1>5. \A f \in Seen : Reached(f)' <=> Reached(f)
  BY <1>1, <1>2, <1>3, <1>4, OneCall DEF Reached
<1>6. CallOK(d)'
  BY <1>2, <1>3, SameMachine DEF CallOK
<1>7. host' \in 0..NumFunctions /\ calls' # << >>
  BY <1>2 DEF PciInv
<1> QED
  BY <1>2, <1>3, <1>5, <1>6, <1>7, NothingNew

LEMMA ReturnStep ==
  ASSUME PciInv, ReturnFromBus
  PROVE  PciInv'
<1>1. PICK c \in Calls : calls = <<c>> /\ CallOK(c)
  BY DEF PciInv, ReturnFromBus
<1>2. c.slot = NumSlots /\ calls' = << >> /\ UNCHANGED <<machine, host, visited>>
  BY <1>1, OneCall DEF ReturnFromBus, Top
<1>3. /\ c.bus \in HostBuses /\ c.bus \in Nat
      /\ IF SingleHost THEN host = NumFunctions ELSE host = c.bus + 1
  <2>1. c.bus \in 0..255
    BY DEF Calls
  <2> QED
    BY <1>1, <2>1 DEF CallOK
<1>4. NumSlots \in Nat /\ NumFunctions \in Nat
  BY MachineAssumption
<1>5. \A f \in Seen : Reached(f)' <=> Reached(f)
  <2> SUFFICES ASSUME NEW f \in Seen PROVE Reached(f)' <=> Reached(f)
    OBVIOUS
  <2>1. PICK x, y \in Nat : /\ x = f[1] /\ y = f[2] /\ x \in HostBuses
                            /\ y < NumSlots /\ x < NumFunctions
    BY <1>4, SeenFields DEF PciInv
  <2>2. Reached(f) <=> x <= c.bus
    BY <1>1, <1>2, <1>3, <2>1, OneCall DEF Reached, BeforeCall
  <2>3. Reached(f)' <=> x < host
    BY <1>2, <2>1, OneCall DEF Reached
  <2>4. SingleHost => x = c.bus /\ x < host
    BY <1>3, <1>4, <2>1 DEF HostBuses
  <2> QED
    BY <1>3, <2>1, <2>2, <2>3, <2>4
<1>6. host' < NumFunctions =>
        IF SingleHost THEN host' = 0 ELSE \A i \in 0..(host' - 1) : ~Exists(<<0, 0, i>>)
  <2>1. CASE SingleHost
    BY <1>2, <1>3, <1>4, <2>1
  <2>2. CASE ~SingleHost
    BY <1>2, <1>3, <2>2 DEF HostBuses
  <2> QED
    BY <2>1, <2>2
<1>7. host' \in 0..NumFunctions
  BY <1>2 DEF PciInv
<1> QED
  BY <1>2, <1>5, <1>6, <1>7, NothingNew

LEMMA CheckStep ==
  ASSUME PciInv, CheckFunction
  PROVE  PciInv'
<1>1. PICK c \in Calls : calls = <<c>> /\ CallOK(c)
  BY DEF PciInv, CheckFunction
<1> DEFINE here == <<c.bus, c.slot, c.func>>
<1>2. /\ c.slot < NumSlots /\ Exists(here)
      /\ visited' = Append(visited, here)
      /\ UNCHANGED <<machine, host>>
  BY <1>1, OneCall DEF CheckFunction, Top, Current
<1>3. PICK d \in Calls :
        /\ d = NextPlace(c) /\ CallOK(d)
        /\ \A f \in Seen : BeforeCall(f, d) <=> BeforeCall(f, c) \/ f = here
  BY <1>1, <1>2, NextPlaceMoves
<1>4. calls' = <<d>>
  <2>1. calls' = <<d>> \o << >>
    BY <1>1, <1>3, NoBridge, OneCall DEF CheckFunction, Top, Current, Under
  <2> QED
    BY <2>1
<1>5. /\ c.bus \in Nat /\ c.slot \in Nat /\ c.func \in Nat
      /\ here[1] = c.bus /\ here[2] = c.slot /\ here[3] = c.func
  BY MachineAssumption DEF Calls
<1>6. here \in Seen /\ here \in Functions
  <2>1. here \in DOMAIN machine
    BY <1>2 DEF Exists
  <2>2. here \in Seen
    BY <1>1, <1>5, <2>1 DEF Seen, CallOK
  <2> QED
    BY <2>2, SeenFields DEF PciInv
<1>7. /\ visited \in Seq(Functions) /\ Len(visited) \in Nat
      /\ visited' \in Seq(Functions) /\ Len(visited') = Len(visited) + 1
      /\ visited'[Len(visited) + 1] = here
      /\ \A i \in 1..Len(visited) : visited'[i] = visited[i]
  BY <1>2, <1>6 DEF PciInv
<1>8. \A f : Reached(f) <=> BeforeCall(f, c)
  BY <1>1, OneCall DEF Reached
<1>9. \A f : Reached(f)' <=> BeforeCall(f, d)
  BY <1>4, <1>3, OneCall DEF Reached
<1>10. (\A i \in 1..Len(visited) : visited[i] \in Seen /\ Reached(visited[i]))'
  <2> SUFFICES ASSUME NEW i \in 1..Len(visited')
               PROVE  (visited[i] \in Seen /\ Reached(visited[i]))'
    OBVIOUS
  <2>1. PICK f \in Seen : f = visited'[i] /\ BeforeCall(f, d)
    <3>1. CASE i \in 1..Len(visited)
      BY <1>3, <1>7, <1>8, <3>1 DEF PciInv
    <3>2. CASE i = Len(visited) + 1
      BY <1>3, <1>6, <1>7, <3>2
    <3> QED
      BY <1>7, <3>1, <3>2
  <2>2. Reached(f)' /\ f \in Seen'
    BY <1>2, <1>9, <2>1, SameMachine
  <2> QED
    BY <2>1, <2>2 DEF Reached
<1>11. (\A i, j \in 1..Len(visited) : i < j => Precedes(visited[i], visited[j]))'
  <2> SUFFICES ASSUME NEW i \in 1..Len(visited'), NEW j \in 1..Len(visited'), i < j
               PROVE  Precedes(visited'[i], visited'[j])
    BY DEF Precedes
  <2>1. CASE j \in 1..Len(visited)
    <3>1. i \in 1..Len(visited)
      BY <1>7, <2>1
    <3> QED
      BY <1>7, <2>1, <3>1 DEF PciInv
  <2>2. CASE j = Len(visited) + 1
    <3>1. i \in 1..Len(visited)
      BY <1>7, <2>2
    <3>2. BeforeCall(visited[i], c)
      BY <1>8, <3>1 DEF PciInv
    <3> QED
      BY <1>5, <1>7, <2>2, <3>1, <3>2 DEF BeforeCall, Precedes
  <2> QED
    BY <1>7, <2>1, <2>2
<1>12. (\A f \in Seen : Reached(f) => \E i \in 1..Len(visited) : visited[i] = f)'
  <2> SUFFICES ASSUME NEW f \in Seen, BeforeCall(f, d)
               PROVE  \E i \in 1..Len(visited') : visited'[i] = f
    BY <1>2, <1>9, SameMachine
  <2>1. CASE f = here
    BY <1>7, <2>1
  <2>2. CASE f # here
    <3>1. PICK i \in 1..Len(visited) : visited[i] = f
      BY <1>3, <1>8, <2>2 DEF PciInv
    <3> QED
      BY <1>7, <3>1
  <2> QED
    BY <2>1, <2>2
<1>13. CallOK(d)'
  BY <1>2, <1>3, SameMachine DEF CallOK
<1>14. machine' \in Machines /\ host' \in 0..NumFunctions /\ calls' # << >>
  BY <1>2, <1>4 DEF PciInv
<1> QED
  BY <1>4, <1>3, <1>7, <1>10, <1>11, <1>12, <1>13, <1>14 DEF PciInv

LEMMA InitPciInv == PciInit => PciInv
<1> SUFFICES ASSUME PciInit PROVE PciInv
  OBVIOUS
<1>1. \A f \in Seen : ~Reached(f)
  <2> SUFFICES ASSUME NEW f \in Seen, Reached(f) PROVE FALSE
    OBVIOUS
  <2>1. f[1] \in Nat
    BY SeenFields DEF PciInit
  <2>2. f[1] < 0
    BY OneCall DEF Reached, PciInit
  <2> QED
    BY <2>1, <2>2
<1>2. visited = << >> /\ calls = << >> /\ host = 0 /\ machine \in Machines
  BY DEF PciInit
<1>3. host \in 0..NumFunctions
  BY <1>2, MachineAssumption
<1> QED
  BY <1>1, <1>2, <1>3 DEF PciInv

LEMMA NextPciInv == PciInv /\ [PciNext]_pciVars => PciInv'
<1> SUFFICES ASSUME PciInv, [PciNext]_pciVars PROVE PciInv'
  OBVIOUS
<1>1. CASE UNCHANGED pciVars
  <2>1. UNCHANGED <<machine, host, calls, visited>>
    BY <1>1 DEF pciVars
  <2>2. \A c : CallOK(c)' <=> CallOK(c)
    BY <2>1, SameMachine DEF CallOK
  <2>3. \A f \in Seen : Reached(f)' <=> Reached(f)
    BY <2>1 DEF Reached
  <2>4. /\ host' \in 0..NumFunctions
        /\ calls' = << >> \/ \E c \in Calls : calls' = <<c>> /\ CallOK(c)'
        /\ calls' = << >> /\ host' < NumFunctions =>
             IF SingleHost THEN host' = 0
             ELSE \A i \in 0..(host' - 1) : ~Exists(<<0, 0, i>>)
    BY <2>1, <2>2 DEF PciInv
  <2> QED
    BY <2>1, <2>3, <2>4, NothingNew
<1> QED
  BY <1>1, HostStep, SkipStep, ReturnStep, CheckStep DEF PciNext

\* Two functions, one before the other, are two
LEMMA PrecedesDiffers ==
  ASSUME NEW f \in Functions, NEW g \in Functions, Precedes(f, g)
  PROVE  f # g
BY FunctionFields DEF Precedes

\* A function that is seen is visited after function 0 of its device
LEMMA FirstBefore ==
  ASSUME PciInv, NEW i \in 1..Len(visited), visited[i][3] # 0
  PROVE  \E j \in 1..(i - 1) : visited[j] = <<visited[i][1], visited[i][2], 0>>
<1>1. PICK f \in Seen : f = visited[i] /\ Reached(f) /\ f[3] # 0
  BY DEF PciInv
<1>2. PICK x, y, z \in Nat : /\ f = <<x, y, z>> /\ x = f[1] /\ y = f[2] /\ z = f[3]
                             /\ z > 0
  <2>1. f \in Functions
    BY SeenFields DEF PciInv
  <2>2. /\ f = <<f[1], f[2], f[3]>>
        /\ f[1] \in Nat /\ f[2] \in Nat /\ f[3] \in Nat
    <3>1. /\ f = <<f[1], f[2], f[3]>>
          /\ f[1] \in 0..255 /\ f[2] \in 0..(NumSlots - 1)
          /\ f[3] \in 0..(NumFunctions - 1)
      BY <2>1, FunctionFields, Zenon
    <3>2. \A k \in Int : \A n \in 0..(k - 1) : n \in Nat
      OBVIOUS
    <3>3. NumSlots \in Int /\ NumFunctions \in Int /\ \A n \in 0..255 : n \in Nat
      BY MachineAssumption
    <3> QED
      BY <3>1, <3>2, <3>3, Zenon
  <2> QED
    BY <1>1, <2>2
<1>3. PICK g : g = <<x, y, 0>>
  OBVIOUS
<1>4. g \in Seen
  <2>1. g \in DOMAIN machine /\ x \in HostBuses
    BY <1>1, <1>2, <1>3 DEF Seen
  <2>2. g[1] = x /\ g[3] = 0
    BY <1>3
  <2> QED
    BY <2>1, <2>2 DEF Seen
<1>5. Reached(g)
  <2>1. ASSUME NEW c \in Calls, BeforeCall(f, c)
        PROVE  BeforeCall(g, c)
    <3>1. c.bus \in 0..255 /\ c.slot \in 0..NumSlots /\ c.func \in 0..(NumFunctions - 1)
      BY DEF Calls
    <3> QED
      BY <1>2, <1>3, <2>1, <3>1, MachineAssumption DEF BeforeCall
  <2>2. f[1] = g[1]
    BY <1>2, <1>3
  <2> QED
    BY <1>1, <2>1, <2>2 DEF Reached
<1>6. PICK j \in 1..Len(visited) : visited[j] = g
  BY <1>4, <1>5 DEF PciInv
<1>7. ~Precedes(f, g) /\ f # g
  BY <1>2, <1>3 DEF Precedes
<1>8. i # j /\ ~(i < j)
  BY <1>1, <1>6, <1>7 DEF PciInv
<1>9. j \in 1..(i - 1)
  <2>1. Len(visited) \in Nat
    BY DEF PciInv
  <2> QED
    BY <1>8, <2>1
<1> QED
  BY <1>1, <1>2, <1>3, <1>6, <1>9

LEMMA InvFinds ==
  ASSUME PciInv, VisitsSeen
  PROVE  SearchFinds
<1>1. DOMAIN visited = 1..Len(visited) /\ Len(visited) \in Nat
  BY DEF PciInv
<1>2. \A i \in DOMAIN visited : Exists(visited[i]) /\ visited[i] \in Functions
  BY SeenFields DEF PciInv, VisitsSeen, Seen, Exists
<1>3. \A i, j \in DOMAIN visited : i # j => visited[i] # visited[j]
  <2>1. \A i, j \in DOMAIN visited : i < j => visited[i] # visited[j]
    BY <1>2, PrecedesDiffers DEF VisitsSeen
  <2>2. \A i, j \in DOMAIN visited : i # j => i < j \/ j < i
    BY <1>1
  <2> QED
    BY <2>1, <2>2, Zenon
<1>4. \A i \in DOMAIN visited : visited[i][3] # 0 =>
        \E j \in 1..(i - 1) : visited[j] = <<visited[i][1], visited[i][2], 0>>
  BY <1>1, FirstBefore
<1>5. Enumerated /\ SingleHost =>
        \A f \in DOMAIN machine : f[1] = 0 /\ f[3] = 0 =>
          \E i \in DOMAIN visited : visited[i] = f
  <2> SUFFICES ASSUME Enumerated, SingleHost, NEW f \in DOMAIN machine,
                      f[1] = 0, f[3] = 0
               PROVE  \E i \in DOMAIN visited : visited[i] = f
    OBVIOUS
  <2>1. f \in Seen
    BY DEF Seen, HostBuses
  <2> QED
    BY <2>1 DEF VisitsSeen
<1> QED
  BY <1>2, <1>3, <1>4, <1>5 DEF SearchFinds

LEMMA PciInvMeans ==
  ASSUME PciInv
  PROVE  PciTypeOK /\ VisitsSeen /\ SearchFinds
<1>1. DOMAIN visited = 1..Len(visited)
  BY DEF PciInv
<1>2. Enumerated => \A f \in Seen : \E i \in DOMAIN visited : visited[i] = f
  <2> SUFFICES ASSUME Enumerated, NEW f \in Seen
               PROVE  \E i \in DOMAIN visited : visited[i] = f
    OBVIOUS
  <2>1. Reached(f)
    BY SeenFields DEF Enumerated, Reached, PciInv
  <2> QED
    BY <1>1, <2>1 DEF PciInv
<1>3. calls \in Seq([bus : 0..255, slot : 0..NumSlots, func : 0..(NumFunctions - 1)])
  <2>1. \A c \in Calls : <<c>> \in Seq(Calls)
    OBVIOUS
  <2>2. calls \in Seq(Calls)
    <3>1. << >> \in Seq(Calls)
      OBVIOUS
    <3>2. calls = << >> \/ \E c \in Calls : calls = <<c>>
      BY Zenon DEF PciInv
    <3> QED
      BY <2>1, <3>1, <3>2, Zenon
  <2> QED
    BY <2>2 DEF Calls
<1>4. PciTypeOK /\ VisitsSeen
  BY <1>1, <1>2, <1>3 DEF PciInv, PciTypeOK, VisitsSeen
<1> QED
  BY <1>4, InvFinds

(***************************************************************************)
(* For every machine, whatever its functions answer: only functions that   *)
(* are there are visited, none twice, none but function 0 without function *)
(* 0 before it, and with one host no device of bus 0 is missed             *)
(* (kern_pci.c:57-103).                                                    *)
(***************************************************************************)
THEOREM SearchAlwaysFinds == PciSpec => []SearchFinds
BY InitPciInv, NextPciInv, PciInvMeans, PTL DEF PciSpec

(***************************************************************************)
(* For every machine, which functions those are: exactly the ones the      *)
(* search can see, in order (kern_pci.c:57-125).                           *)
(***************************************************************************)
THEOREM SearchVisitsSeen == PciSpec => []VisitsSeen
BY InitPciInv, NextPciInv, PciInvMeans, PTL DEF PciSpec
=============================================================================
