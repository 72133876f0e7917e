----------------------------- MODULE AtaPioProofs -----------------------------
(***************************************************************************)
(* Proofs about AtaPio, for every sector size, disk and set of requests.   *)
(***************************************************************************)
EXTENDS AtaPio, TLAPS

ReqTypes == [lba : Nat, offset : Nat, length : Nat, buf : Buffers]

LEMMA MinOfTwo ==
  ASSUME NEW a \in Int, NEW b \in Int
  PROVE  Min({a, b}) = IF a <= b THEN a ELSE b
<1>1. \E x \in {a, b} : \A y \in {a, b} : x <= y
  OBVIOUS
<1> QED BY <1>1 DEF Min

(* Products with the sector size, which the prover is not good at. *)
LEMMA Product ==
  ASSUME NEW a \in Int, NEW b \in Int, NEW c \in Nat
  PROVE  /\ a * c \in Int
         /\ (a + b) * c = a * c + b * c
         /\ (a - b) * c = a * c - b * c
         /\ (a + 1) * c = a * c + c
         /\ (a - 1) * c = a * c - c
         /\ a <= b => a * c <= b * c
OBVIOUS

LEMMA DivMod ==
  ASSUME NEW a \in Nat, NEW c \in Nat \ {0}
  PROVE  /\ a \div c \in Nat /\ a % c \in 0..(c - 1)
         /\ a = (a \div c) * c + (a % c)
OBVIOUS

(* Where the bytes of a request begin and end. *)
LEMMA Layout ==
  ASSUME request \in ReqTypes
  PROVE  /\ Offset \in Offsets /\ FirstSector \in Nat
         /\ NumSectors \in Nat \ {0} /\ LastSector \in Nat
         /\ LastSector = FirstSector + NumSectors - 1
         /\ Start = FirstSector * SectorSize + Offset
         /\ (NumSectors - 1) * SectorSize <= request.length + Offset
         /\ request.length + Offset < NumSectors * SectorSize
         /\ InFirst = IF SectorSize - Offset <= request.length
                      THEN SectorSize - Offset ELSE request.length
<1> DEFINE S == SectorSize
           l == request.length
           q == ((l % S) + Offset) \div S
<1>1. S \in Nat \ {0} /\ request.lba \in Nat /\ request.offset \in Nat /\ l \in Nat
  BY DiskAssumption DEF ReqTypes
<1>2. /\ request.offset \div S \in Nat /\ request.offset % S \in 0..(S - 1)
      /\ request.offset = (request.offset \div S) * S + (request.offset % S)
  BY <1>1, DivMod
<1>3. Offset \in Offsets /\ FirstSector \in Nat /\ Offset \in Nat
  BY <1>1, <1>2 DEF Offset, FirstSector, Offsets
<1>4. Start = FirstSector * S + Offset
  <2>1. FirstSector * S = request.lba * S + (request.offset \div S) * S
    BY <1>1, <1>2, Product DEF FirstSector
  <2>2. request.lba * S \in Int /\ (request.offset \div S) * S \in Int
    BY <1>1, <1>2, Product
  <2>3. Start = request.lba * S + request.offset
    BY DEF Start
  <2>4. Offset = request.offset % S
    BY DEF Offset
  <2> DEFINE x == request.lba * S
             y == (request.offset \div S) * S
             z == FirstSector * S
             o == request.offset % S
  <2>5. z = x + y /\ Start = x + request.offset /\ Offset = o
    BY <2>1, <2>3, <2>4
  <2>6. request.offset = y + o /\ o \in Int /\ x \in Int /\ y \in Int
    BY <1>2, <2>2
  <2>7. Start = z + Offset
    <3> HIDE DEF x, y, z, o
    <3> QED BY <2>5, <2>6
  <2> QED BY <2>7
<1>5. l \div S \in Nat /\ l % S \in 0..(S - 1) /\ l = (l \div S) * S + (l % S)
  BY <1>1, DivMod
<1>6. /\ q \in Nat /\ ((l % S) + Offset) % S \in 0..(S - 1)
      /\ (l % S) + Offset = q * S + (((l % S) + Offset) % S)
  <2>1. (l % S) + Offset \in Nat
    BY <1>3, <1>5
  <2> HIDE DEF S
  <2> QED BY <2>1, <1>1, DivMod
<1>7. NumSectors = l \div S + q + 1 /\ NumSectors \in Nat \ {0}
  BY <1>5, <1>6 DEF NumSectors
<1>8. /\ (NumSectors - 1) * S <= l + Offset
      /\ l + Offset < NumSectors * S
  <2> DEFINE d == l \div S
             r == ((l % S) + Offset) % S
  <2>1. (d + q) * S = d * S + q * S /\ d * S \in Int /\ q * S \in Int
    BY <1>1, <1>5, <1>6, Product
  <2>2. (d + q + 1) * S = (d + q) * S + S
    BY <1>1, <1>5, <1>6, Product
  <2>3. l + Offset = (d + q) * S + r
    <3>1. l = d * S + (l % S) /\ (l % S) + Offset = q * S + r
      BY <1>5, <1>6
    <3>2. l \in Int /\ l % S \in Int /\ Offset \in Int /\ r \in Int
      BY <1>1, <1>3, <1>5, <1>6
    <3> HIDE DEF d, q, r, S, l
    <3> QED BY <2>1, <3>1, <3>2
  <2>4. NumSectors - 1 = d + q /\ NumSectors = d + q + 1
    BY <1>5, <1>6, <1>7
  <2>5. r \in 0..(S - 1)
    BY <1>6
  <2>6. (d + q) * S \in Int
    BY <2>1
  <2> HIDE DEF d, q, r, S
  <2>7. (d + q + 1) * S = (d + q) * S + S /\ S \in Int
    BY <2>2, <1>1
  <2> QED BY <2>3, <2>4, <2>5, <2>6, <2>7
<1>9. LastSector \in Nat /\ LastSector = FirstSector + NumSectors - 1
  BY <1>3, <1>7 DEF LastSector
<1>10. InFirst = IF S - Offset <= l THEN S - Offset ELSE l
  BY <1>1, <1>3, MinOfTwo DEF InFirst
<1> QED BY <1>3, <1>4, <1>7, <1>8, <1>9, <1>10

-----------------------------------------------------------------------------
(* What is sent for a sector is what the caller asks of it. *)

LEMMA AskedType ==
  ASSUME request \in ReqTypes, before \in [Sectors -> Sector], NEW s \in Sectors
  PROVE  Asked(s) \in Sector
<1>1. SectorSize \in Nat /\ request.length \in Nat /\ request.buf \in Buffers
  BY DiskAssumption DEF ReqTypes
<1>2. s * SectorSize \in Int /\ Start \in Int
  <2>1. s \in Int /\ request.lba \in Int /\ request.offset \in Int
    BY DiskAssumption DEF Sectors, ReqTypes
  <2> QED BY <2>1, <1>1, Product DEF Start
<1>3. before[s] \in Sector
  OBVIOUS
<1> SUFFICES ASSUME NEW b \in Offsets PROVE Asked(s)[b] \in Byte
  BY DEF Asked, Sector
<1>4. before[s][b] \in Byte
  BY <1>3 DEF Sector
<1> DEFINE k == s * SectorSize + b - Start
<1>5. Asked(s)[b] = IF k \in 0..(request.length - 1) THEN FromBuffer(k) ELSE before[s][b]
  BY DEF Asked
<1>6. k \in 0..(request.length - 1) => FromBuffer(k) \in Byte
  <2> HIDE DEF k
  <2> QED BY <1>1 DEF FromBuffer, Byte
<1> QED BY <1>4, <1>5, <1>6

\* How far into the request a byte is, from the first sector
LEMMA Place ==
  ASSUME request \in ReqTypes, NEW s \in Int, NEW b \in Int
  PROVE  /\ (s - FirstSector) * SectorSize \in Int
         /\ s * SectorSize + b - Start
              = (s - FirstSector) * SectorSize + b - Offset
<1>1. SectorSize \in Nat /\ FirstSector \in Int /\ Offset \in Int
  BY Layout, DiskAssumption DEF Offsets
<1>2. /\ (s - FirstSector) * SectorSize = s * SectorSize - FirstSector * SectorSize
      /\ s * SectorSize \in Int /\ FirstSector * SectorSize \in Int
  BY <1>1, Product
<1>3. Start = FirstSector * SectorSize + Offset
  BY Layout
<1> DEFINE x == s * SectorSize
           y == FirstSector * SectorSize
           z == (s - FirstSector) * SectorSize
<1>4. z = x - y /\ x \in Int /\ y \in Int /\ Start = y + Offset
  BY <1>2, <1>3
<1>5. z \in Int /\ x + b - Start = z + b - Offset
  <2> HIDE DEF x, y, z
  <2> QED BY <1>1, <1>4
<1> QED BY <1>5

LEMMA FirstAsAsked ==
  ASSUME request \in ReqTypes, first \in {before[FirstSector], Asked(FirstSector)}
  PROVE  FirstMerged = Asked(FirstSector)
<1>1. /\ SectorSize \in Nat \ {0} /\ FirstSector \in Int /\ Offset \in Offsets
      /\ request.length \in Nat
  BY Layout, DiskAssumption DEF ReqTypes
<1> SUFFICES ASSUME NEW b \in Offsets PROVE FirstMerged[b] = Asked(FirstSector)[b]
  BY DEF FirstMerged, Asked
<1>2. b \in Int /\ b < SectorSize /\ b >= 0 /\ Offset \in Int /\ Offset >= 0
  BY <1>1 DEF Offsets
<1>3. FirstSector * SectorSize + b - Start = b - Offset
  <2>1. (FirstSector - FirstSector) * SectorSize = 0
    BY <1>1
  <2>2. FirstSector * SectorSize + b - Start
          = (FirstSector - FirstSector) * SectorSize + b - Offset
    BY <1>1, <1>2, Place
  <2> QED BY <2>1, <2>2, <1>2
<1>4. Asked(FirstSector)[b] =
        IF b - Offset \in 0..(request.length - 1)
        THEN FromBuffer(b - Offset) ELSE before[FirstSector][b]
  BY <1>3 DEF Asked
<1>5. b - Offset \in 0..(request.length - 1) <=> b \in Offset..(Offset + InFirst - 1)
  BY <1>1, <1>2, Layout
<1>6. FirstMerged[b] = IF b \in Offset..(Offset + InFirst - 1)
                       THEN FromBuffer(b - Offset) ELSE first[b]
  BY DEF FirstMerged
<1> QED BY <1>4, <1>5, <1>6

LEMMA LastAsAsked ==
  ASSUME request \in ReqTypes, NumSectors > 1,
         last \in {before[LastSector], Asked(LastSector)}
  PROVE  LastMerged = Asked(LastSector)
<1>1. /\ SectorSize \in Nat \ {0} /\ FirstSector \in Int /\ Offset \in Offsets
      /\ request.length \in Nat /\ LastSector \in Int /\ NumSectors \in Nat
  BY Layout, DiskAssumption DEF ReqTypes
<1> SUFFICES ASSUME NEW b \in Offsets PROVE LastMerged[b] = Asked(LastSector)[b]
  BY DEF LastMerged, Asked
<1>2. b \in Int /\ b < SectorSize /\ b >= 0 /\ Offset \in Int /\ Offset >= 0
  BY <1>1 DEF Offsets
<1> DEFINE x == (NumSectors - 2) * SectorSize
           y == (NumSectors - 1) * SectorSize
           k == y + b - Offset
<1>3. /\ y = x + SectorSize /\ x \in Int /\ x >= 0
      /\ y <= request.length + Offset
  <2>1. NumSectors - 2 \in Nat /\ NumSectors - 1 = (NumSectors - 2) + 1
    BY <1>1
  <2>2. ((NumSectors - 2) + 1) * SectorSize = x + SectorSize /\ x \in Int
    BY <1>1, <2>1, Product
  <2>3. 0 * SectorSize <= x /\ 0 * SectorSize = 0
    BY <1>1, <2>1, Product
  <2>4. y <= request.length + Offset
    BY Layout
  <2>5. y = x + SectorSize
    BY <2>1, <2>2
  <2> QED BY <2>2, <2>3, <2>4, <2>5
<1>4. LastSector * SectorSize + b - Start = k
  <2>1. LastSector - FirstSector = NumSectors - 1
    BY <1>1, Layout
  <2>2. LastSector * SectorSize + b - Start
          = (LastSector - FirstSector) * SectorSize + b - Offset
    BY <1>1, <1>2, Place
  <2> QED BY <2>1, <2>2
<1>5. InFirst = SectorSize - Offset
  <2> HIDE DEF x, y
  <2> QED BY <1>1, <1>2, <1>3, Layout
<1>6. AfterMiddle + b = k
  <2>1. AfterMiddle = InFirst + x
    BY DEF AfterMiddle
  <2> HIDE DEF x, y
  <2> QED BY <1>1, <1>2, <1>3, <1>5, <2>1
<1>7. k \in 0..(request.length - 1)
        <=> InFirst < request.length /\ AfterMiddle + b < request.length
  <2>1. k = y + b - Offset /\ y \in Int
    BY <1>1, <1>3
  <2> HIDE DEF x, y, k
  <2>2. k \in Int
    BY <1>2, <2>1
  <2>3. k = x + SectorSize + b - Offset
    BY <1>1, <1>2, <1>3, <2>1
  <2>4. k >= SectorSize - Offset
    BY <1>1, <1>2, <1>3, <2>3
  <2>5. k >= 0
    BY <1>1, <1>2, <2>2, <2>4, Layout DEF Offsets
  <2> QED BY <1>1, <1>2, <1>5, <1>6, <2>2, <2>4, <2>5
<1>8. Asked(LastSector)[b] =
        IF k \in 0..(request.length - 1)
        THEN FromBuffer(k) ELSE before[LastSector][b]
  BY <1>4 DEF Asked
<1>9. LastMerged[b] = IF InFirst < request.length /\ AfterMiddle + b < request.length
                      THEN FromBuffer(AfterMiddle + b) ELSE last[b]
  BY DEF LastMerged
<1> HIDE DEF k
<1> QED BY <1>6, <1>7, <1>8, <1>9

LEMMA BetweenAsAsked ==
  ASSUME request \in ReqTypes,
         NEW s \in Int, FirstSector < s, s < LastSector
  PROVE  Between(s) = Asked(s)
<1>1. /\ SectorSize \in Nat \ {0} /\ FirstSector \in Int /\ Offset \in Offsets
      /\ request.length \in Nat /\ LastSector \in Int /\ NumSectors \in Nat
      /\ LastSector = FirstSector + NumSectors - 1
  BY Layout, DiskAssumption DEF ReqTypes
<1> SUFFICES ASSUME NEW b \in Offsets PROVE Between(s)[b] = Asked(s)[b]
  BY DEF Between, Asked
<1>2. b \in Int /\ b < SectorSize /\ b >= 0 /\ Offset \in Int /\ Offset >= 0
  BY <1>1 DEF Offsets
<1> DEFINE w == (s - FirstSector - 1) * SectorSize
           x == (s - FirstSector) * SectorSize
           y == (NumSectors - 1) * SectorSize
           k == x + b - Offset
<1>3. /\ w \in Int /\ w >= 0 /\ x = w + SectorSize /\ y \in Int
      /\ x + SectorSize <= y
      /\ y <= request.length + Offset
  <2>1. /\ s - FirstSector - 1 \in Nat /\ s - FirstSector \in Int
        /\ (s - FirstSector) + 1 \in Int /\ NumSectors - 1 \in Int
        /\ (s - FirstSector) + 1 <= NumSectors - 1
    BY <1>1
  <2>2. w \in Int /\ w = x - SectorSize /\ x \in Int
    BY <1>1, <2>1, Product
  <2>3. 0 * SectorSize <= w /\ 0 * SectorSize = 0
    BY <1>1, <2>1, Product
  <2>4. ((s - FirstSector) + 1) * SectorSize = x + SectorSize
    BY <1>1, <2>1, Product
  <2>5. ((s - FirstSector) + 1) * SectorSize <= y /\ y \in Int
    BY <1>1, <2>1, Product
  <2>6. y <= request.length + Offset
    BY Layout
  <2>7. x + SectorSize <= y
    BY <2>4, <2>5
  <2>8. x = w + SectorSize
    <3> HIDE DEF w, x
    <3> QED BY <1>1, <2>2
  <2> QED BY <2>2, <2>3, <2>5, <2>6, <2>7, <2>8
<1>4. s * SectorSize + b - Start = k
  BY <1>1, <1>2, Place
<1>5. InFirst = SectorSize - Offset
  <2> HIDE DEF w, x, y
  <2> QED BY <1>1, <1>2, <1>3, Layout
<1>6. InFirst + w + b = k /\ k \in 0..(request.length - 1)
  <2>1. k = x + b - Offset /\ x \in Int
    BY <1>1, <1>3
  <2> HIDE DEF w, x, y, k
  <2>2. InFirst + w + b = k /\ k \in Int
    BY <1>1, <1>2, <1>3, <1>5, <2>1
  <2>3. k >= SectorSize - Offset
    BY <1>1, <1>2, <1>3, <2>1
  <2>4. k >= 0
    BY <1>1, <1>2, <2>2, <2>3 DEF Offsets
  <2>5. k < request.length
    BY <1>1, <1>2, <1>3, <2>1
  <2> QED BY <1>1, <2>2, <2>4, <2>5
<1>7. Asked(s)[b] = FromBuffer(k)
  BY <1>4, <1>6 DEF Asked
<1>8. Between(s)[b] = FromBuffer(InFirst + w + b)
  BY DEF Between
<1> QED BY <1>6, <1>7, <1>8

LEMMA SentAsAsked ==
  ASSUME request \in ReqTypes,
         NEW s \in Int, FirstSector <= s, s <= LastSector,
         first \in {before[FirstSector], Asked(FirstSector)},
         last \in {before[LastSector], Asked(LastSector)}
  PROVE  ToSend(s) = Asked(s)
<1>1. FirstSector \in Int /\ LastSector \in Int /\ NumSectors \in Nat
      /\ LastSector = FirstSector + NumSectors - 1
  BY Layout
<1>2. CASE s = FirstSector
  BY <1>2, FirstAsAsked DEF ToSend
<1>3. CASE s # FirstSector /\ s = LastSector
  BY <1>1, <1>3, LastAsAsked DEF ToSend
<1>4. CASE s # FirstSector /\ s # LastSector
  BY <1>1, <1>4, BetweenAsAsked DEF ToSend
<1> QED BY <1>2, <1>3, <1>4

\* Sectors outside the request are to stay
LEMMA OthersAsked ==
  ASSUME request \in ReqTypes, before \in [Sectors -> Sector],
         NEW s \in Sectors, s < FirstSector \/ s > LastSector
  PROVE  Asked(s) = before[s]
<1>1. /\ SectorSize \in Nat \ {0} /\ FirstSector \in Int /\ Offset \in Offsets
      /\ request.length \in Nat /\ LastSector \in Int /\ NumSectors \in Nat
      /\ LastSector = FirstSector + NumSectors - 1 /\ s \in Int
  BY Layout, DiskAssumption DEF ReqTypes, Sectors
<1>2. before[s] \in Sector
  OBVIOUS
<1> SUFFICES ASSUME NEW b \in Offsets PROVE Asked(s)[b] = before[s][b]
  BY <1>2 DEF Asked, Sector
<1>3. b \in Int /\ b < SectorSize /\ b >= 0 /\ Offset \in Int /\ Offset >= 0
  BY <1>1 DEF Offsets
<1> DEFINE x == (s - FirstSector) * SectorSize
           z == NumSectors * SectorSize
           k == x + b - Offset
<1>4. s * SectorSize + b - Start = k /\ x \in Int
  BY <1>1, <1>3, Place
<1>5. k \notin 0..(request.length - 1)
  <2>1. CASE s < FirstSector
    <3>1. s - FirstSector <= -1 /\ s - FirstSector \in Int
      BY <1>1, <2>1
    <3>2. x <= (-1) * SectorSize /\ (-1) * SectorSize = -SectorSize
      BY <1>1, <3>1, Product
    <3>3. k < 0
      <4>1. k = x + b - Offset
        OBVIOUS
      <4> HIDE DEF x, k
      <4> QED BY <1>1, <1>3, <1>4, <3>2, <4>1
    <3> QED BY <3>3
  <2>2. CASE s > LastSector
    <3>1. NumSectors <= s - FirstSector /\ s - FirstSector \in Int
      BY <1>1, <2>2
    <3>2. z <= x /\ z \in Int
      BY <1>1, <3>1, Product
    <3>3. request.length + Offset < z
      BY Layout
    <3>4. k > request.length
      <4>1. k = x + b - Offset
        OBVIOUS
      <4> HIDE DEF x, z, k
      <4> QED BY <1>1, <1>3, <1>4, <3>2, <3>3, <4>1
    <3>5. k \in Int
      BY <1>3, <1>4
    <3> HIDE DEF k
    <3> QED BY <1>1, <3>4, <3>5
  <2> QED BY <2>1, <2>2
<1> QED BY <1>4, <1>5 DEF Asked

-----------------------------------------------------------------------------
(***************************************************************************)
(* The inductive invariant: SectorsWhole needs that the sectors read keep  *)
(* being old or as asked while some of the new ones are on the disk, and   *)
(* that the device, when it takes a sector, is at the one the driver       *)
(* sends, also when commands were dropped; OkUnlessMissed needs how far    *)
(* the disk is written.                                                    *)
(***************************************************************************)
OldOrAsked(s, content) == content \in {before[s], Asked(s)}

FirstRead ==
  pc \in {"readLast", "command", "data", "wait"} =>
    FirstSector \in Sectors /\ OldOrAsked(FirstSector, first)

LastRead ==
  pc \in {"command", "data", "wait"} =>
    LastSector \in Sectors /\ OldOrAsked(LastSector, last)

CommandInList ==
  /\ pc \in {"command", "data"} => command \in 1..Len(Commands)
  /\ pc = "data" => sent < Commands[command].count

NotBusy == pc \in {"idle", "readFirst", "readLast"} => ~device.busy

Writing ==
  device.busy =>
    /\ device.at \in FirstSector..LastSector
    /\ given = Asked(device.at)
    /\ device.wants > 0

\* The device is where the driver is, or wants nothing more
InStep ==
  /\ pc = "command" /\ device.busy => device.wants = 1
  /\ pc = "data" /\ device.busy =>
       \/ sent = 0 /\ device.wants = 1 /\ missed
       \/ /\ sent > 0
          /\ device.at = Commands[command].at + sent - 1
          /\ device.wants = Commands[command].count - sent + 1
  /\ pc = "data" /\ ~device.busy =>
       \/ device.wants = 0
       \/ /\ device.at = Commands[command].at + sent
          /\ device.wants = Commands[command].count - sent

Reached ==
  IF pc = "command" THEN Commands[command].at
  ELSE IF pc = "data" THEN Commands[command].at + sent ELSE LastSector + 1

Progress ==
  ~missed /\ pc \in {"command", "data", "wait"} =>
    \A s \in Sectors : s \in FirstSector..(Reached - 1) =>
      disk[s] = Asked(s) \/ (device.busy /\ s = device.at)

NoResult == pc # "idle" => result = "none"

IInv ==
  /\ TypeOK /\ SectorsWhole /\ FirstRead /\ LastRead /\ CommandInList
  /\ NotBusy /\ Writing /\ InStep /\ Progress /\ NoResult /\ OkUnlessMissed

LEMMA CommandList ==
  ASSUME request \in ReqTypes
  PROVE  /\ Commands \in Seq([at : Nat, count : Nat \ {0}])
         /\ Len(Commands) \in 1..3
         /\ Commands[1].at = FirstSector
         /\ \A c \in 1..Len(Commands) :
              /\ Commands[c].at \in Nat /\ Commands[c].count \in Nat \ {0}
              /\ FirstSector <= Commands[c].at
              /\ Commands[c].at + Commands[c].count - 1 <= LastSector
              /\ c < Len(Commands) =>
                   Commands[c + 1].at = Commands[c].at + Commands[c].count
              /\ c = Len(Commands) =>
                   Commands[c].at + Commands[c].count - 1 = LastSector
<1>1. /\ FirstSector \in Nat /\ LastSector \in Nat /\ NumSectors \in Nat \ {0}
      /\ LastSector = FirstSector + NumSectors - 1
  BY Layout
<1> DEFINE one   == [at |-> FirstSector, count |-> 1]
           rest  == [at |-> FirstSector + 1, count |-> NumSectors - 2]
           final == [at |-> LastSector, count |-> 1]
<1>2. CASE NumSectors = 1
  <2>1. Commands = <<one>>
    BY <1>2 DEF Commands
  <2> QED BY <1>1, <1>2, <2>1
<1>3. CASE NumSectors = 2
  <2>1. Commands = <<one, final>>
    BY <1>3 DEF Commands
  <2> QED BY <1>1, <1>3, <2>1
<1>4. CASE NumSectors > 2
  <2>1. Commands = <<one, rest, final>>
    BY <1>4 DEF Commands
  <2>2. NumSectors - 2 \in Nat \ {0}
    BY <1>1, <1>4
  <2> QED BY <1>1, <1>4, <2>1, <2>2
<1> QED BY <1>1, <1>2, <1>3, <1>4

LEMMA SameRequest ==
  ASSUME request' = request, before' = before
  PROVE  /\ FirstSector' = FirstSector /\ LastSector' = LastSector
         /\ Commands' = Commands
         /\ \A s : Asked(s)' = Asked(s)
         /\ \A s, content : OldOrAsked(s, content)' <=> OldOrAsked(s, content)
<1>1. /\ FirstSector' = FirstSector /\ Offset' = Offset /\ Start' = Start
      /\ NumSectors' = NumSectors
  BY DEF FirstSector, Offset, Start, NumSectors
<1>2. LastSector' = LastSector
  BY <1>1 DEF LastSector
<1>3. Commands' = Commands
  BY <1>1, <1>2 DEF Commands
<1>4. \A s : Asked(s)' = Asked(s)
  BY <1>1 DEF Asked, FromBuffer
<1> QED BY <1>1, <1>2, <1>3, <1>4 DEF OldOrAsked

LEMMA InitInv == Init => IInv
<1> SUFFICES ASSUME Init PROVE IInv
  OBVIOUS
<1>1. 0 \in Sectors
  BY DiskAssumption DEF Sectors
<1>2. FirstContents \in [Sectors -> Sector]
  <2> SUFFICES ASSUME NEW s \in Sectors, NEW b \in Offsets
               PROVE  s * SectorSize + b \in Nat
    BY DEF FirstContents, Sector, Byte
  <2>1. s \in Nat /\ b \in Nat /\ SectorSize \in Nat
    BY DiskAssumption DEF Sectors, Offsets
  <2>2. s * SectorSize \in Int /\ 0 * SectorSize <= s * SectorSize
        /\ 0 * SectorSize = 0
    BY <2>1, Product
  <2> QED BY <2>1, <2>2
<1>3. disk \in [Sectors -> Sector] /\ disk[0] \in Sector
  BY <1>1, <1>2 DEF Init
<1>4. request \in ReqTypes
  BY DEF Init, NoRequest, ReqTypes
<1>5. TypeOK
  <2>1. given \in Sector /\ first \in Sector /\ last \in Sector
        /\ before \in [Sectors -> Sector]
    BY <1>3 DEF Init
  <2>2. device \in [busy : BOOLEAN, failed : BOOLEAN, at : Nat, wants : Nat]
    BY DEF Init, Idle
  <2>3. /\ pc = "idle" /\ attempt = 1 /\ command = 1 /\ sent = 0
        /\ result = "none"
    BY DEF Init
  <2>4. missed \in BOOLEAN
    BY DEF Init
  <2> QED BY <1>3, <1>4, <2>1, <2>2, <2>3, <2>4 DEF TypeOK, ReqTypes
<1>6. SectorsWhole
  BY DEF Init, SectorsWhole
<1> QED BY <1>5, <1>6 DEF Init, IInv, FirstRead, LastRead, CommandInList, NotBusy,
           Writing, InStep, Progress, NoResult, OkUnlessMissed, Idle

-----------------------------------------------------------------------------
(* Every step keeps the invariant: one lemma for each action. *)

LEMMA StartWriteInv ==
  ASSUME IInv, NEW r \in Requests, StartWrite(r)
  PROVE  IInv'
<1>1. TypeOK'
  <2>1. request' \in ReqTypes
    BY DiskAssumption DEF ReqTypes, StartWrite
  <2>2. attempt' \in 1..3 /\ result' = "none" /\ pc' = "readFirst"
    BY DEF StartWrite
  <2>4. missed' \in BOOLEAN
    BY DEF StartWrite
  <2>3. UNCHANGED <<disk, device, given, first, last, command, sent>> /\ before' = disk
    BY DEF StartWrite
  <2> QED BY <2>1, <2>2, <2>3, <2>4 DEF IInv, TypeOK, ReqTypes
<1>2. SectorsWhole'
  BY DEF StartWrite, SectorsWhole
<1> QED BY <1>1, <1>2 DEF StartWrite, IInv, FirstRead, LastRead, CommandInList, NotBusy,
           Writing, InStep, Progress, NoResult, OkUnlessMissed

\* What a step that changes neither request nor disk keeps
LEMMA KeepsWhole ==
  ASSUME IInv, request' = request, before' = before, disk' = disk
  PROVE  SectorsWhole'
BY SameRequest DEF IInv, SectorsWhole

LEMMA TryAgainInv ==
  ASSUME IInv, TryAgain, ~device.busy, pc # "idle",
         UNCHANGED <<disk, device, given, request, before, sent>>,
         first' \in Sector, last' \in Sector, command' \in 1..3
  PROVE  IInv'
<1>1. TypeOK'
  <2>1. /\ attempt' \in 1..3 /\ pc' \in {"idle", "readFirst"}
        /\ result' \in {"none", "ok", "error"}
    BY DEF IInv, TypeOK, TryAgain
  <2>2. missed' \in BOOLEAN
    BY DEF IInv, TypeOK, TryAgain
  <2> QED BY <2>1, <2>2 DEF IInv, TypeOK
<1>2. SectorsWhole'
  BY KeepsWhole
<1>3. pc' \in {"idle", "readFirst"} /\ ~device'.busy
  BY DEF TryAgain
<1>4. NoResult' /\ OkUnlessMissed'
  BY DEF IInv, NoResult, OkUnlessMissed, TryAgain
<1> QED BY <1>1, <1>2, <1>3, <1>4 DEF IInv, FirstRead, LastRead, CommandInList,
           NotBusy, Writing, InStep, Progress

LEMMA ReadFirstInv ==
  ASSUME IInv, ReadFirst
  PROVE  IInv'
<1>1. ~device.busy
  BY DEF IInv, NotBusy, ReadFirst
<1>2. CASE TryAgain /\ first' = first
  <2>1. first' \in Sector /\ last' \in Sector /\ command' \in 1..3 /\ pc # "idle"
    BY <1>2 DEF IInv, TypeOK, ReadFirst
  <2> QED BY <1>1, <1>2, <2>1, TryAgainInv DEF ReadFirst
<1>3. CASE /\ FirstSector \in Sectors /\ first' = disk[FirstSector]
           /\ pc' = "readLast" /\ UNCHANGED <<attempt, result, missed>>
  <2>1. TypeOK'
    BY <1>3 DEF IInv, TypeOK, ReadFirst
  <2>2. SectorsWhole' /\ request' = request /\ before' = before
    BY KeepsWhole DEF ReadFirst
  <2>3. FirstRead'
    <3>1. OldOrAsked(FirstSector, disk[FirstSector])
      BY <1>3 DEF IInv, SectorsWhole, OldOrAsked
    <3> QED BY <1>3, <2>2, <3>1, SameRequest DEF FirstRead, OldOrAsked
  <2>4. NoResult' /\ OkUnlessMissed' /\ ~device'.busy
    BY <1>1, <1>3 DEF ReadFirst, IInv, NoResult, OkUnlessMissed
  <2> QED BY <1>3, <2>1, <2>2, <2>3, <2>4 DEF IInv, LastRead, CommandInList, NotBusy,
             Writing, InStep, Progress
<1> QED BY <1>2, <1>3 DEF ReadFirst

LEMMA ReadLastInv ==
  ASSUME IInv, ReadLast
  PROVE  IInv'
<1>1. ~device.busy /\ result = "none"
  BY DEF IInv, NotBusy, NoResult, ReadLast
<1>2. CASE TryAgain /\ UNCHANGED <<last, command>>
  <2>1. first' \in Sector /\ last' \in Sector /\ command' \in 1..3 /\ pc # "idle"
    BY <1>2 DEF IInv, TypeOK, ReadLast
  <2> QED BY <1>1, <1>2, <2>1, TryAgainInv DEF ReadLast
<1>3. CASE /\ LastSector \in Sectors /\ last' = disk[LastSector]
           /\ pc' = "command" /\ command' = 1
           /\ UNCHANGED <<attempt, result, missed>>
  <2>1. TypeOK'
    BY <1>3 DEF IInv, TypeOK, ReadLast
  <2>2. SectorsWhole' /\ request' = request /\ before' = before
    BY KeepsWhole DEF ReadLast
  <2>3. request \in ReqTypes
    BY DEF IInv, TypeOK, ReqTypes
  <2>4. FirstRead'
    BY <2>2, SameRequest DEF IInv, FirstRead, OldOrAsked, ReadLast
  <2>5. LastRead'
    <3>1. OldOrAsked(LastSector, disk[LastSector])
      BY <1>3 DEF IInv, SectorsWhole, OldOrAsked
    <3> QED BY <1>3, <2>2, <3>1, SameRequest DEF LastRead, OldOrAsked
  <2>6. CommandInList'
    BY <1>3, <2>2, <2>3, SameRequest, CommandList DEF CommandInList
  <2>7. Progress'
    <3>1. Reached' = FirstSector
      BY <1>3, <2>2, <2>3, SameRequest, CommandList DEF Reached
    <3>2. FirstSector \in Int /\ FirstSector' = FirstSector
      BY <2>2, <2>3, Layout, SameRequest
    <3> QED BY <3>1, <3>2 DEF Progress
  <2>8. ~device'.busy /\ result' = "none"
    BY <1>1, <1>3 DEF ReadLast
  <2> QED BY <1>3, <2>1, <2>2, <2>4, <2>5, <2>6, <2>7, <2>8 DEF IInv, NotBusy,
             Writing, InStep, NoResult, OkUnlessMissed
<1> QED BY <1>2, <1>3 DEF ReadLast

LEMMA SendCommandInv ==
  ASSUME IInv, SendCommand
  PROVE  IInv'
<1>1. request' = request /\ before' = before /\ disk' = disk /\ given' = given
      /\ first' = first /\ last' = last /\ command' = command /\ sent' = 0
      /\ pc = "command" /\ pc' = "data" /\ result' = result /\ attempt' = attempt
  BY DEF SendCommand
<1>2. request \in ReqTypes /\ result = "none" /\ missed \in BOOLEAN
  BY <1>1 DEF IInv, TypeOK, ReqTypes, NoResult
<1>3. command \in 1..Len(Commands)
  BY <1>1 DEF IInv, CommandInList
<1>4. /\ Commands[command].at \in Nat /\ Commands[command].count \in Nat \ {0}
  BY <1>2, <1>3, CommandList
<1>5. FirstRead' /\ LastRead'
  BY <1>1, SameRequest DEF IInv, FirstRead, LastRead, OldOrAsked
<1>6. CommandInList'
  BY <1>1, <1>3, <1>4, SameRequest DEF CommandInList
<1>7. NotBusy' /\ NoResult' /\ OkUnlessMissed' /\ SectorsWhole'
  BY <1>1, <1>2, KeepsWhole DEF NotBusy, NoResult, OkUnlessMissed
<1>8. CASE device.busy /\ missed' = TRUE /\ device' = device
  <2>1. TypeOK'
    <3>1. missed' \in BOOLEAN
      BY <1>8
    <3> QED BY <1>1, <1>8, <3>1 DEF IInv, TypeOK
  <2>2. Writing'
    BY <1>1, <1>8, SameRequest DEF IInv, Writing
  <2>3. InStep'
    BY <1>1, <1>8 DEF IInv, InStep
  <2>4. Progress'
    BY <1>8 DEF Progress
  <2> QED BY <1>5, <1>6, <1>7, <2>1, <2>2, <2>3, <2>4 DEF IInv
<1>9. ASSUME ~device.busy, NEW failed \in BOOLEAN, missed' = missed,
             device' = [busy |-> FALSE, failed |-> failed,
                        at |-> Commands[command].at,
                        wants |-> IF failed THEN 0 ELSE Commands[command].count]
      PROVE  IInv'
  <2>1. TypeOK'
    <3>1. missed' \in BOOLEAN
      BY <1>2, <1>9
    <3>2. device' \in [busy : BOOLEAN, failed : BOOLEAN, at : Nat, wants : Nat]
      BY <1>4, <1>9
    <3> QED BY <1>1, <3>1, <3>2 DEF IInv, TypeOK
  <2>2. ~device'.busy
    BY <1>9
  <2>3. Writing'
    BY <2>2 DEF Writing
  <2>4. InStep'
    <3>1. \/ device'.wants = 0
          \/ /\ device'.at = Commands[command].at + 0
             /\ device'.wants = Commands[command].count - 0
      BY <1>4, <1>9
    <3>2. Commands' = Commands
      BY <1>1, SameRequest
    <3> QED BY <1>1, <2>2, <3>1, <3>2 DEF InStep
  <2>5. Progress'
    <3>1. Reached = Commands[command].at /\ Reached' = Commands[command].at + 0
      BY <1>1, SameRequest DEF Reached
    <3>2. Reached' = Reached
      BY <1>4, <3>1
    <3> QED BY <1>1, <1>9, <3>2, SameRequest DEF IInv, Progress
  <2> QED BY <1>5, <1>6, <1>7, <2>1, <2>3, <2>4, <2>5 DEF IInv
<1> QED BY <1>8, <1>9 DEF SendCommand

LEMMA RefusedInv ==
  ASSUME IInv, Refused
  PROVE  IInv'
<1>1. first' \in Sector /\ last' \in Sector /\ command' \in 1..3 /\ pc # "idle"
  BY DEF IInv, TypeOK, Refused
<1> QED BY <1>1, TryAgainInv DEF Refused

LEMMA NextOfThree ==
  ASSUME NEW i \in 1..3, NEW n \in 1..3, i < n
  PROVE  i + 1 \in 1..n /\ i + 1 \in 1..3
OBVIOUS

LEMMA SendSectorInv ==
  ASSUME IInv, SendSector
  PROVE  IInv'
<1>1. /\ request' = request /\ before' = before /\ disk' = disk
      /\ first' = first /\ last' = last /\ result' = result /\ attempt' = attempt
      /\ pc = "data" /\ ~device.busy /\ sent' = sent + 1
      /\ pc' \in {"data", "command", "wait"}
  BY DEF SendSector
<1> DEFINE C == Commands[command]
<1>2. /\ request \in ReqTypes /\ result = "none" /\ missed \in BOOLEAN
      /\ sent \in Nat /\ command \in 1..3 /\ before \in [Sectors -> Sector]
      /\ device \in [busy : BOOLEAN, failed : BOOLEAN, at : Nat, wants : Nat]
  BY <1>1 DEF IInv, TypeOK, ReqTypes, NoResult
<1>3. command \in 1..Len(Commands) /\ sent < C.count
  BY <1>1 DEF IInv, CommandInList
<1>4. /\ C.at \in Nat /\ C.count \in Nat \ {0}
      /\ FirstSector <= C.at /\ C.at + C.count - 1 <= LastSector
      /\ command < Len(Commands) => Commands[command + 1].at = C.at + C.count
      /\ command = Len(Commands) => C.at + C.count - 1 = LastSector
      /\ Len(Commands) \in 1..3
      /\ FirstSector \in Nat /\ LastSector \in Nat
  BY <1>2, <1>3, CommandList, Layout
<1> HIDE DEF C
<1>nat. C.at \in Nat /\ C.count \in Nat /\ sent \in Nat /\ LastSector \in Nat
  BY <1>2, <1>4
<1>5. /\ OldOrAsked(FirstSector, first) /\ FirstSector \in Sectors
      /\ OldOrAsked(LastSector, last) /\ LastSector \in Sectors
  BY <1>1 DEF IInv, FirstRead, LastRead
<1>6. FirstRead' /\ LastRead'
  BY <1>1, <1>5, SameRequest DEF FirstRead, LastRead, OldOrAsked
<1>7. NotBusy' /\ NoResult' /\ OkUnlessMissed' /\ SectorsWhole'
  BY <1>1, <1>2, KeepsWhole DEF NotBusy, NoResult, OkUnlessMissed
\* where the driver goes
<1>8. \/ pc' = "data" /\ command' = command /\ sent + 1 < C.count
      \/ pc' = "command" /\ command' = command + 1 /\ sent + 1 = C.count
           /\ command < Len(Commands)
      \/ pc' = "wait" /\ command' = command /\ sent + 1 = C.count
           /\ command = Len(Commands)
  <2>1. \/ sent + 1 < C.count /\ UNCHANGED <<pc, command>>
        \/ ~(sent + 1 < C.count) /\ command < Len(Commands)
             /\ pc' = "command" /\ command' = command + 1
        \/ ~(sent + 1 < C.count) /\ ~(command < Len(Commands))
             /\ pc' = "wait" /\ UNCHANGED command
    BY <1>1 DEF SendSector, C
  <2> QED BY <1>1, <1>2, <1>3, <1>4, <2>1
<1>9. Commands' = Commands /\ LastSector' = LastSector /\ FirstSector' = FirstSector
  BY <1>1, SameRequest
<1>10. CommandInList' /\ command' \in 1..3
  <2>1. CASE pc' = "data" /\ command' = command /\ sent + 1 < C.count
    <3>1. command' \in 1..Len(Commands') /\ sent' < Commands'[command'].count
      BY <1>1, <1>3, <1>9, <2>1 DEF C
    <3> QED BY <1>2, <2>1, <3>1 DEF CommandInList
  <2>2. CASE pc' = "command" /\ command' = command + 1 /\ command < Len(Commands)
    <3>1. command' \in 1..Len(Commands) /\ command' \in 1..3
      <4>1. command \in 1..3
        BY <1>2
      <4>2. Len(Commands) \in 1..3
        BY <1>2, CommandList
      <4>3. command < Len(Commands) /\ command' = command + 1
        BY <2>2
      <4>4. command + 1 \in 1..Len(Commands) /\ command + 1 \in 1..3
        BY <4>1, <4>2, <4>3, NextOfThree
      <4> QED BY <4>3, <4>4
    <3> QED BY <1>9, <2>2, <3>1 DEF CommandInList
  <2>3. CASE pc' = "wait" /\ command' = command
    BY <1>2, <2>3 DEF CommandInList
  <2> QED BY <1>8, <2>1, <2>2, <2>3
<1>11. Reached = C.at + sent /\ Reached' = C.at + sent + 1
  <2>1. Reached = C.at + sent
    BY <1>1 DEF Reached, C
  <2>2. Reached' = IF pc' = "command" THEN Commands[command'].at
                   ELSE IF pc' = "data" THEN Commands[command'].at + sent'
                   ELSE LastSector + 1
    BY <1>9 DEF Reached
  <2>3. CASE pc' = "data" /\ command' = command
    <3>1. Reached' = C.at + (sent + 1)
      BY <1>1, <2>2, <2>3 DEF C
    <3> QED BY <1>2, <1>nat, <2>1, <3>1
  <2>4. CASE pc' = "command" /\ command' = command + 1 /\ sent + 1 = C.count
             /\ command < Len(Commands)
    <3>1. Reached' = C.at + C.count
      BY <1>4, <2>2, <2>4
    <3>2. Reached' = C.at + (sent + 1)
      BY <2>4, <3>1
    <3> QED BY <1>2, <1>nat, <2>1, <3>2
  <2>5. CASE pc' = "wait" /\ sent + 1 = C.count /\ command = Len(Commands)
    <3>1. Reached' = LastSector + 1
      BY <2>2, <2>5
    <3>2. C.at + (sent + 1) - 1 = LastSector
      BY <1>4, <2>5
    <3> QED BY <1>2, <1>nat, <2>1, <3>1, <3>2
  <2> QED BY <1>8, <2>1, <2>3, <2>4, <2>5
<1>12. CASE device.wants = 0 /\ missed' = TRUE /\ UNCHANGED <<given, device>>
  <2>1. TypeOK'
    <3>1. missed' \in BOOLEAN /\ sent' \in Nat
      BY <1>1, <1>2, <1>12
    <3>2. missed' \in BOOLEAN
      BY <1>12
    <3> QED BY <1>1, <1>10, <1>12, <3>1, <3>2 DEF IInv, TypeOK
  <2>2. Writing' /\ InStep' /\ Progress'
    BY <1>1, <1>12 DEF Writing, InStep, Progress
  <2> QED BY <1>6, <1>7, <1>10, <2>1, <2>2 DEF IInv
<1>13. CASE /\ device.wants > 0 /\ given' = ToSend(C.at + sent)
            /\ device' = [device EXCEPT !.busy = TRUE] /\ missed' = missed
  <2>1. device.at = C.at + sent /\ device.wants = C.count - sent
    BY <1>1, <1>13 DEF IInv, InStep, C
  <2>2. /\ device'.busy /\ device'.at = device.at /\ device'.wants = device.wants
        /\ device' \in [busy : BOOLEAN, failed : BOOLEAN, at : Nat, wants : Nat]
    BY <1>2, <1>13
  <2>3. C.at + sent \in FirstSector..LastSector
    <3>1. FirstSector <= C.at /\ sent < C.count /\ C.at + C.count - 1 <= LastSector
          /\ FirstSector \in Nat
      BY <1>3, <1>4
    <3> QED BY <1>nat, <3>1
  <2>4. given' = Asked(C.at + sent)
    <3>1. C.at + sent \in Int /\ FirstSector <= C.at + sent /\ C.at + sent <= LastSector
      BY <1>2, <1>4, <2>3
    <3> QED BY <1>2, <1>5, <1>13, <3>1, SentAsAsked DEF OldOrAsked
  <2>5. C.at + sent \in Sectors
    BY <1>5, <2>3, <1>4, DiskAssumption DEF Sectors
  <2>6. TypeOK'
    <3>1. given' \in Sector
      BY <1>2, <2>4, <2>5, AskedType
    <3>2. sent' \in Nat
      BY <1>1, <1>2
    <3>3. missed' \in BOOLEAN
      BY <1>2, <1>13
    <3> QED BY <1>1, <1>10, <2>2, <3>1, <3>2, <3>3 DEF IInv, TypeOK
  <2>7. Writing'
    <3>1. device'.at = C.at + sent /\ device'.wants > 0
      BY <1>13, <2>1, <2>2
    <3>2. \A s : Asked(s)' = Asked(s)
      BY <1>1, SameRequest
    <3> QED BY <1>9, <2>3, <2>4, <3>1, <3>2 DEF Writing
  <2>8. InStep'
    <3>1. CASE pc' = "data" /\ command' = command
      <4>1. sent' > 0 /\ device'.at = C.at + sent' - 1 /\ device'.wants = C.count - sent' + 1
        <5>1. device'.at = C.at + sent /\ device'.wants = C.count - sent /\ sent' = sent + 1
          BY <1>1, <2>1, <2>2
        <5> QED BY <1>nat, <5>1
      <4> QED BY <1>9, <2>2, <3>1, <4>1 DEF InStep, C
    <3>2. CASE pc' = "command" /\ sent + 1 = C.count
      <4>1. device'.wants = 1
        BY <1>2, <1>4, <2>1, <2>2, <3>2
      <4> QED BY <3>2, <4>1 DEF InStep
    <3>3. CASE pc' = "wait"
      BY <3>3 DEF InStep
    <3> QED BY <1>8, <3>1, <3>2, <3>3
  <2>9. Progress'
    <3> SUFFICES ASSUME ~missed, NEW s \in Sectors, s \in FirstSector..(C.at + sent)
                 PROVE  disk[s] = Asked(s) \/ s = device.at
      <4>1. \A s : Asked(s)' = Asked(s)
        BY <1>1, SameRequest
      <4>2. Reached' - 1 = C.at + sent
        BY <1>2, <1>4, <1>11
      <4> QED BY <1>1, <1>9, <1>13, <2>2, <4>1, <4>2 DEF Progress
    <3>1. CASE s = C.at + sent
      BY <2>1, <3>1
    <3>2. CASE s # C.at + sent
      <4>1. s \in FirstSector..(Reached - 1)
        BY <1>2, <1>4, <1>11, <3>2
      <4> QED BY <1>1, <4>1 DEF IInv, Progress
    <3> QED BY <3>1, <3>2
  <2> QED BY <1>6, <1>7, <1>10, <2>6, <2>7, <2>8, <2>9 DEF IInv
<1> QED BY <1>12, <1>13 DEF SendSector, C

LEMMA ReturnInv ==
  ASSUME IInv, Return
  PROVE  IInv'
<1>1. /\ request' = request /\ before' = before /\ disk' = disk /\ missed' = missed
      /\ pc = "wait" /\ pc' = "idle" /\ ~device.busy /\ device' = device
      /\ given' = given /\ first' = first /\ last' = last /\ attempt' = attempt
      /\ command' = command /\ sent' = sent /\ result' = "ok"
  BY DEF Return, history
<1>2. TypeOK' /\ SectorsWhole'
  BY <1>1, KeepsWhole DEF IInv, TypeOK
<1>3. OkUnlessMissed'
  <2> SUFFICES ASSUME ~missed, NEW s \in Sectors PROVE disk[s] = Asked(s)
    BY <1>1, SameRequest DEF OkUnlessMissed, AllWritten
  <2>1. /\ request \in ReqTypes /\ before \in [Sectors -> Sector]
        /\ FirstSector \in Int /\ LastSector \in Int /\ s \in Int
    BY Layout DEF IInv, TypeOK, ReqTypes, Sectors
  <2>2. CASE s \in FirstSector..LastSector
    <3>1. Reached - 1 = LastSector
      BY <1>1, <2>1 DEF Reached
    <3> QED BY <1>1, <2>2, <3>1 DEF IInv, Progress
  <2>3. CASE s < FirstSector \/ s > LastSector
    BY <2>1, <2>3, OthersAsked DEF IInv, SectorsWhole
  <2> QED BY <2>1, <2>2, <2>3
<1> QED BY <1>1, <1>2, <1>3 DEF IInv, FirstRead, LastRead, CommandInList, NotBusy,
           Writing, InStep, Progress, NoResult

LEMMA DeviceDoneInv ==
  ASSUME IInv, DeviceDone
  PROVE  IInv'
<1>1. /\ UNCHANGED <<given, before, pc, request, attempt, first, last, command, sent, result>>
      /\ device.busy
  BY DEF DeviceDone, host
<1>2. /\ request \in ReqTypes /\ missed \in BOOLEAN /\ given \in Sector
      /\ device \in [busy : BOOLEAN, failed : BOOLEAN, at : Nat, wants : Nat]
      /\ disk \in [Sectors -> Sector] /\ sent \in Nat
  BY DEF IInv, TypeOK, ReqTypes
<1>3. /\ pc \in {"command", "data", "wait"} /\ result = "none"
      /\ device.at \in FirstSector..LastSector /\ given = Asked(device.at)
      /\ device.wants > 0
  BY <1>1 DEF IInv, NotBusy, Writing, NoResult, TypeOK
<1>4. FirstSector \in Sectors /\ LastSector \in Sectors /\ device.at \in Sectors
  BY <1>2, <1>3, DiskAssumption DEF IInv, FirstRead, LastRead, Sectors
<1>5. FirstRead' /\ LastRead' /\ CommandInList' /\ NoResult' /\ OkUnlessMissed'
  BY <1>1, <1>3, SameRequest
     DEF IInv, FirstRead, LastRead, CommandInList, NoResult, OkUnlessMissed, OldOrAsked
<1>6. CASE /\ disk' = [disk EXCEPT ![device.at] = given]
           /\ device' = [device EXCEPT !.busy = FALSE, !.at = @ + 1, !.wants = @ - 1]
           /\ missed' = missed
  <2>1. /\ ~device'.busy /\ device'.at = device.at + 1 /\ device'.wants = device.wants - 1
        /\ device' \in [busy : BOOLEAN, failed : BOOLEAN, at : Nat, wants : Nat]
    <3>1. device.at \in Nat /\ device.wants \in Nat /\ device.failed \in BOOLEAN
      BY <1>2
    <3>2. /\ device'.busy = FALSE /\ device'.at = device.at + 1
          /\ device'.wants = device.wants - 1
      BY <1>2, <1>6
    <3>3. device.at + 1 \in Nat /\ device.wants - 1 \in Nat
      BY <1>3, <3>1
    <3>4. device' \in [busy : BOOLEAN, failed : BOOLEAN, at : Nat, wants : Nat]
      BY <1>2, <1>6, <3>3
    <3> QED BY <3>2, <3>4
  <2>2. TypeOK'
    <3>1. disk' \in [Sectors -> Sector]
      BY <1>2, <1>4, <1>6
    <3>2. missed' \in BOOLEAN
      BY <1>2, <1>6
    <3> QED BY <1>1, <2>1, <3>1, <3>2 DEF IInv, TypeOK
  <2>3. SectorsWhole'
    <3> SUFFICES ASSUME NEW s \in Sectors PROVE disk'[s] \in {before[s], Asked(s)}
      BY <1>1, SameRequest DEF SectorsWhole
    <3>1. disk'[s] = IF s = device.at THEN Asked(s) ELSE disk[s]
      BY <1>2, <1>3, <1>6
    <3> QED BY <3>1 DEF IInv, SectorsWhole
  <2>4. NotBusy' /\ Writing'
    BY <2>1 DEF NotBusy, Writing
  <2>5. InStep'
    <3> SUFFICES ASSUME pc = "data"
                 PROVE  \/ device'.wants = 0
                        \/ /\ device'.at = Commands[command].at + sent
                           /\ device'.wants = Commands[command].count - sent
      BY <1>1, <2>1, SameRequest DEF InStep
    <3>1. CASE device.wants = 1
      BY <2>1, <3>1
    <3>2. CASE /\ device.at = Commands[command].at + sent - 1
               /\ device.wants = Commands[command].count - sent + 1
      <4>1. Commands[command].at \in Nat /\ Commands[command].count \in Nat
        BY <1>2, CommandList DEF IInv, CommandInList
      <4> QED BY <1>2, <2>1, <3>2, <4>1
    <3> QED BY <1>1, <3>1, <3>2 DEF IInv, InStep
  <2>6. Progress'
    <3> SUFFICES ASSUME ~missed, NEW s \in Sectors, s \in FirstSector..(Reached - 1)
                 PROVE  disk'[s] = Asked(s)
      <4>1. Reached' = Reached /\ FirstSector' = FirstSector
        BY <1>1, SameRequest DEF Reached
      <4> QED BY <1>1, <1>6, <4>1, SameRequest DEF Progress
    <3>1. disk'[s] = IF s = device.at THEN Asked(s) ELSE disk[s]
      BY <1>2, <1>3, <1>6
    <3>2. disk[s] = Asked(s) \/ s = device.at
      BY <1>3 DEF IInv, Progress
    <3> QED BY <3>1, <3>2
  <2> QED BY <1>5, <2>2, <2>3, <2>4, <2>5, <2>6 DEF IInv
<1>7. CASE /\ device' = [device EXCEPT !.busy = FALSE, !.failed = TRUE, !.wants = 0]
           /\ missed' = TRUE /\ disk' = disk
  <2>1. /\ ~device'.busy /\ device'.wants = 0
        /\ device' \in [busy : BOOLEAN, failed : BOOLEAN, at : Nat, wants : Nat]
    BY <1>2, <1>7
  <2>2. TypeOK'
    <3>1. missed' \in BOOLEAN
      BY <1>7
    <3> QED BY <1>1, <1>7, <2>1, <3>1 DEF IInv, TypeOK
  <2>3. SectorsWhole'
    BY <1>1, <1>7, KeepsWhole
  <2>4. NotBusy' /\ Writing' /\ InStep' /\ Progress'
    BY <1>7, <2>1 DEF NotBusy, Writing, InStep, Progress
  <2> QED BY <1>5, <2>2, <2>3, <2>4 DEF IInv
<1> QED BY <1>6, <1>7 DEF DeviceDone

LEMMA StutterInv ==
  ASSUME IInv, UNCHANGED vars
  PROVE  IInv'
<1>1. /\ UNCHANGED <<disk, device, given, pc, request, attempt, first, last>>
      /\ UNCHANGED <<command, sent, result, before, missed>>
  BY DEF vars, host, history
<1>2. TypeOK' /\ SectorsWhole'
  BY <1>1, KeepsWhole DEF IInv, TypeOK
<1>3. Reached' = Reached
  BY <1>1, SameRequest DEF Reached
<1>4. FirstRead' /\ LastRead' /\ CommandInList' /\ NotBusy' /\ NoResult'
  BY <1>1, SameRequest DEF IInv, FirstRead, LastRead, CommandInList, NotBusy, NoResult,
     OldOrAsked
<1>5. Writing' /\ InStep'
  BY <1>1, SameRequest DEF IInv, Writing, InStep
<1>6. Progress'
  BY <1>1, <1>3, SameRequest DEF IInv, Progress
<1>7. OkUnlessMissed'
  BY <1>1, SameRequest DEF IInv, OkUnlessMissed, AllWritten
<1> QED BY <1>2, <1>4, <1>5, <1>6, <1>7 DEF IInv

LEMMA StepInv == IInv /\ [Next]_vars => IInv'
<1> SUFFICES ASSUME IInv, [Next]_vars PROVE IInv'
  OBVIOUS
<1>1. ASSUME NEW r \in Requests, StartWrite(r) PROVE IInv'
  BY <1>1, StartWriteInv
<1>2. CASE Driver
  BY <1>2, ReadFirstInv, ReadLastInv, SendCommandInv, RefusedInv, SendSectorInv,
     ReturnInv DEF Driver
<1>3. CASE DeviceDone
  BY <1>3, DeviceDoneInv
<1>4. CASE UNCHANGED vars
  BY <1>4, StutterInv
<1> QED BY <1>1, <1>2, <1>3, <1>4 DEF Next

LEMMA Invariant == Spec => []IInv
<1>1. Init => IInv
  BY InitInv
<1>2. IInv /\ [Next]_vars => IInv'
  BY StepInv
<1> QED BY <1>1, <1>2, PTL DEF Spec

-----------------------------------------------------------------------------
(* Every variable of the driver and the device has its type, whatever is   *)
(* asked and whatever the device does.                                     *)
THEOREM TypeCorrect == Spec => []TypeOK
<1>1. IInv => TypeOK
  BY DEF IInv
<1> QED BY <1>1, Invariant, PTL

(* At every moment each sector is as it was before the call or as the      *)
(* caller asked, for every request, sector size and failure of the device. *)
THEOREM SectorsStayWhole == Spec => []SectorsWhole
<1>1. IInv => SectorsWhole
  BY DEF IInv
<1> QED BY <1>1, Invariant, PTL

(* A call that returned 0 wrote every byte if the device dropped nothing   *)
(* of its last try.                                                        *)
THEOREM OkIsWritten == Spec => []OkUnlessMissed
<1>1. IInv => OkUnlessMissed
  BY DEF IInv
<1> QED BY <1>1, Invariant, PTL
===============================================================================
