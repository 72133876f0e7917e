------------------------------ MODULE Fat12Proofs ------------------------------
(***************************************************************************)
(* Proofs about the FAT12 driver, for every volume, set of names and       *)
(* sizes, disk at the start, power loss and refused write.                 *)
(***************************************************************************)
EXTENDS Fat12, FiniteSetTheorems, SequenceTheorems, WellFoundedInduction, TLAPS

-----------------------------------------------------------------------------
(* Entries in bytes *)

Byte == 0..255

LEMMA DigitType ==
  ASSUME NEW x \in Nat, NEW j \in 0..2
  PROVE  Digit(x, j) \in 0..15
BY DEF Digit

\* An entry is its three digits
LEMMA Digits ==
  ASSUME NEW x \in FatValues
  PROVE  x = Digit(x, 0) + 16 * Digit(x, 1) + 256 * Digit(x, 2)
<1>1. x \in 0..4095
  BY DEF FatValues
<1>2. Digit(x, 0) = x % 16 /\ Digit(x, 1) = (x \div 16) % 16 /\ Digit(x, 2) = (x \div 256) % 16
  BY DEF Digit
<1>3. x = (x % 16) + 16 * (x \div 16) /\ x \div 16 \in 0..255
  BY <1>1
<1>4. x \div 16 = ((x \div 16) % 16) + 16 * (x \div 256)
  BY <1>1
<1>5. (x \div 256) % 16 = x \div 256
  BY <1>1
<1> HIDE DEF Digit
<1> QED
  BY <1>1, <1>2, <1>3, <1>4, <1>5

LEMMA MixedSame ==
  ASSUME NEW x \in FatValues, NEW e, NEW c, NEW n
  PROVE  Mixed(x, x, e, c, n) = x
BY Digits DEF Mixed

LEMMA MixedType ==
  ASSUME NEW x \in FatValues, NEW y \in FatValues, NEW e, NEW c, NEW n
  PROVE  Mixed(x, y, e, c, n) \in FatValues
<1> DEFINE of(j) == IF 3 * e + j \in (2 * Offset(c))..(2 * (Offset(c) + n) - 1)
                    THEN y ELSE x
<1>1. \A j \in 0..2 : of(j) \in Nat
  BY DEF FatValues
<1>2. \A j \in 0..2 : Digit(of(j), j) \in 0..15
  BY <1>1, DigitType
<1>3. Mixed(x, y, e, c, n) = Digit(of(0), 0) + 16 * Digit(of(1), 1) + 256 * Digit(of(2), 2)
  BY DEF Mixed
<1>4. /\ Digit(of(0), 0) \in 0..15 /\ Digit(of(1), 1) \in 0..15
      /\ Digit(of(2), 2) \in 0..15
  BY <1>2
<1>5. \A i, j, k \in 0..15 : i + 16 * j + 256 * k \in FatValues
  BY DEF FatValues
<1> HIDE DEF of
<1> QED
  BY <1>3, <1>4, <1>5

\* Three bytes hold the whole entry
LEMMA MixedWhole ==
  ASSUME NEW x \in FatValues, NEW y \in FatValues, NEW c \in Nat
  PROVE  Mixed(x, y, c, c, BytesSent) = y
<1>1. \A j \in 0..2 : 3 * c + j \in (2 * Offset(c))..(2 * (Offset(c) + 3) - 1)
  BY DEF Offset
<1> QED
  BY <1>1, Digits DEF Mixed, BytesSent

LEMMA WordDigits ==
  ASSUME NEW p \in Byte, NEW q \in Byte
  PROVE  /\ (p + 256 * q) % 4096 \in FatValues
         /\ ((p + 256 * q) % 4096) % 16 = p % 16
         /\ (((p + 256 * q) % 4096) \div 16) % 16 = (p \div 16) % 16
         /\ (((p + 256 * q) % 4096) \div 256) % 16 = q % 16
         /\ (p + 256 * q) \div 16 \in FatValues
         /\ ((p + 256 * q) \div 16) % 16 = (p \div 16) % 16
         /\ (((p + 256 * q) \div 16) \div 16) % 16 = q % 16
         /\ (((p + 256 * q) \div 16) \div 256) % 16 = (q \div 16) % 16
<1>1. PICK a \in 0..15, b \in 0..15 : p = a + 16 * b
  <2>1. p % 16 \in 0..15 /\ p \div 16 \in 0..15 /\ p = (p % 16) + 16 * (p \div 16)
    BY DEF Byte
  <2> QED
    BY <2>1
<1>2. PICK d \in 0..15, e \in 0..15 : q = d + 16 * e
  <2>1. q % 16 \in 0..15 /\ q \div 16 \in 0..15 /\ q = (q % 16) + 16 * (q \div 16)
    BY DEF Byte
  <2> QED
    BY <2>1
<1>3. /\ p % 16 = a /\ (p \div 16) % 16 = b
      /\ q % 16 = d /\ (q \div 16) % 16 = e
  BY <1>1, <1>2
<1>4. (p + 256 * q) % 4096 = a + 16 * b + 256 * d
  BY <1>1, <1>2
<1>5. (p + 256 * q) \div 16 = b + 16 * d + 256 * e
  BY <1>1, <1>2
<1>6. /\ (p + 256 * q) % 4096 \in FatValues
      /\ ((p + 256 * q) % 4096) % 16 = a
      /\ (((p + 256 * q) % 4096) \div 16) % 16 = b
      /\ (((p + 256 * q) % 4096) \div 256) % 16 = d
  <2>1. PICK x : x = (p + 256 * q) % 4096
    OBVIOUS
  <2>2. /\ x \in FatValues /\ x % 16 = a /\ (x \div 16) % 16 = b
        /\ (x \div 256) % 16 = d
    <3>1. x = a + 16 * b + 256 * d
      BY <1>4, <2>1
    <3> QED
      BY <3>1 DEF FatValues
  <2> QED
    BY <2>1, <2>2
<1>7. /\ (p + 256 * q) \div 16 \in FatValues
      /\ ((p + 256 * q) \div 16) % 16 = b
      /\ (((p + 256 * q) \div 16) \div 16) % 16 = d
      /\ (((p + 256 * q) \div 16) \div 256) % 16 = e
  <2>1. PICK x : x = (p + 256 * q) \div 16
    OBVIOUS
  <2>2. /\ x \in FatValues /\ x % 16 = b /\ (x \div 16) % 16 = d
        /\ (x \div 256) % 16 = e
    <3>1. x = b + 16 * d + 256 * e
      BY <1>5, <2>1
    <3>2. x \in FatValues /\ x % 16 = b
      BY <3>1 DEF FatValues
    <3>3. x \div 16 = d + 16 * e /\ x \div 256 = e
      BY <3>1
    <3>4. (d + 16 * e) % 16 = d /\ e % 16 = e
      OBVIOUS
    <3> QED
      BY <3>2, <3>3, <3>4
  <2> QED
    BY <2>1, <2>2
<1> QED
  BY <1>3, <1>6, <1>7

LEMMA Halves ==
  ASSUME NEW bytes, NEW i, NEW k, i \div 2 = k
  PROVE  /\ i % 2 = 0 => HalfByte(bytes, i) = bytes[k] % 16
         /\ i % 2 = 1 => HalfByte(bytes, i) = (bytes[k] \div 16) % 16
BY DEF HalfByte, Digit

\* fat12_get_cluster reads the three half-bytes of an entry
LEMMA GetDigits ==
  ASSUME NEW bytes, NEW e \in Nat,
         bytes[Offset(e)] \in Byte, bytes[Offset(e) + 1] \in Byte
  PROVE  /\ GetEntry(bytes, e) \in FatValues
         /\ \A j \in 0..2 : Digit(GetEntry(bytes, e), j) = HalfByte(bytes, 3 * e + j)
<1> DEFINE p == bytes[Offset(e)]
           q == bytes[Offset(e) + 1]
<1>1. CASE e % 2 = 0
  <2>1. GetEntry(bytes, e) = (p + 256 * q) % 4096
    BY <1>1 DEF GetEntry
  <2>2. /\ (3 * e + 0) \div 2 = Offset(e) /\ (3 * e + 0) % 2 = 0
        /\ (3 * e + 1) \div 2 = Offset(e) /\ (3 * e + 1) % 2 = 1
        /\ (3 * e + 2) \div 2 = Offset(e) + 1 /\ (3 * e + 2) % 2 = 0
    BY <1>1 DEF Offset
  <2>3. /\ HalfByte(bytes, 3 * e + 0) = p % 16
        /\ HalfByte(bytes, 3 * e + 1) = (p \div 16) % 16
        /\ HalfByte(bytes, 3 * e + 2) = q % 16
    BY <2>2 DEF HalfByte, Digit
  <2>4. /\ Digit(GetEntry(bytes, e), 0) = p % 16
        /\ Digit(GetEntry(bytes, e), 1) = (p \div 16) % 16
        /\ Digit(GetEntry(bytes, e), 2) = q % 16
    BY <2>1, WordDigits DEF Digit
  <2> QED
    BY <2>1, <2>3, <2>4, WordDigits
<1>2. CASE e % 2 = 1
  <2>1. GetEntry(bytes, e) = (p + 256 * q) \div 16
    BY <1>2 DEF GetEntry
  <2>2. /\ (3 * e + 0) \div 2 = Offset(e) /\ (3 * e + 0) % 2 = 1
        /\ (3 * e + 1) \div 2 = Offset(e) + 1 /\ (3 * e + 1) % 2 = 0
        /\ (3 * e + 2) \div 2 = Offset(e) + 1 /\ (3 * e + 2) % 2 = 1
    BY <1>2 DEF Offset
  <2>3. /\ HalfByte(bytes, 3 * e + 0) = (p \div 16) % 16
        /\ HalfByte(bytes, 3 * e + 1) = q % 16
        /\ HalfByte(bytes, 3 * e + 2) = (q \div 16) % 16
    BY <2>2 DEF HalfByte, Digit
  <2>4. /\ Digit(GetEntry(bytes, e), 0) = (p \div 16) % 16
        /\ Digit(GetEntry(bytes, e), 1) = q % 16
        /\ Digit(GetEntry(bytes, e), 2) = (q \div 16) % 16
    BY <2>1, WordDigits DEF Digit
  <2> QED
    BY <2>1, <2>3, <2>4, WordDigits
<1> QED
  BY <1>1, <1>2

LEMMA SetBytes ==
  ASSUME NEW m \in Nat, NEW bytes \in [0..m -> Byte], NEW c \in Nat,
         Offset(c) + 1 \in 0..m, NEW value \in FatValues
  PROVE  LET set == SetEntry(bytes, c, value)
             o   == Offset(c)
         IN  /\ set = [i \in 0..m |-> set[i]]
             /\ \A i \in 0..m : i \notin {o, o + 1} => set[i] = bytes[i]
             /\ c % 2 = 0 =>
                  /\ set[o] = value % 256
                  /\ set[o + 1] = ((bytes[o + 1] \div 16) * 16) + ((value \div 256) % 16)
             /\ c % 2 = 1 =>
                  /\ set[o] = (bytes[o] % 16) + ((value * 16) % 256)
                  /\ set[o + 1] = (value \div 16) % 256
<1>1. Offset(c) \in 0..m /\ Offset(c) # Offset(c) + 1
  BY DEF Offset
<1>2. PICK set : set = SetEntry(bytes, c, value)
  OBVIOUS
<1>3. CASE c % 2 = 0
  <2>1. set = [bytes EXCEPT ![Offset(c)] = value % 256,
                            ![Offset(c) + 1] = ((@ \div 16) * 16) + ((value \div 256) % 16)]
    BY <1>2, <1>3 DEF SetEntry
  <2>2. set = [i \in 0..m |-> set[i]]
    BY <2>1, ZenonT(30)
  <2>3. \A i \in 0..m : i \notin {Offset(c), Offset(c) + 1} => set[i] = bytes[i]
    BY <2>1
  <2>4. /\ set[Offset(c)] = value % 256
        /\ set[Offset(c) + 1] =
             ((bytes[Offset(c) + 1] \div 16) * 16) + ((value \div 256) % 16)
    BY <1>1, <2>1
  <2> QED
    BY <1>2, <1>3, <2>2, <2>3, <2>4
<1>4. CASE c % 2 = 1
  <2>1. set = [bytes EXCEPT ![Offset(c)] = (@ % 16) + ((value * 16) % 256),
                            ![Offset(c) + 1] = (value \div 16) % 256]
    BY <1>2, <1>4 DEF SetEntry
  <2>2. set = [i \in 0..m |-> set[i]]
    BY <2>1, ZenonT(30)
  <2>3. \A i \in 0..m : i \notin {Offset(c), Offset(c) + 1} => set[i] = bytes[i]
    BY <2>1
  <2>4. /\ set[Offset(c)] = (bytes[Offset(c)] % 16) + ((value * 16) % 256)
        /\ set[Offset(c) + 1] = (value \div 16) % 256
    BY <1>1, <2>1
  <2> QED
    BY <1>2, <1>4, <2>2, <2>3, <2>4
<1> QED
  BY <1>3, <1>4

\* The digits of the bytes that fat12_set_cluster makes
LEMMA MadeDigits ==
  ASSUME NEW b \in Byte, NEW v \in FatValues
  PROVE  /\ v % 256 \in Byte
         /\ (v % 256) % 16 = v % 16 /\ ((v % 256) \div 16) % 16 = (v \div 16) % 16
         /\ ((b \div 16) * 16) + ((v \div 256) % 16) \in Byte
         /\ (((b \div 16) * 16) + ((v \div 256) % 16)) % 16 = (v \div 256) % 16
         /\ ((((b \div 16) * 16) + ((v \div 256) % 16)) \div 16) % 16 = (b \div 16) % 16
         /\ (b % 16) + ((v * 16) % 256) \in Byte
         /\ ((b % 16) + ((v * 16) % 256)) % 16 = b % 16
         /\ (((b % 16) + ((v * 16) % 256)) \div 16) % 16 = v % 16
         /\ (v \div 16) % 256 \in Byte
         /\ ((v \div 16) % 256) % 16 = (v \div 16) % 16
         /\ (((v \div 16) % 256) \div 16) % 16 = (v \div 256) % 16
<1>1. PICK x \in 0..15, y \in 0..15, z \in 0..15 : v = x + 16 * y + 256 * z
  <2>1. Digit(v, 0) \in 0..15 /\ Digit(v, 1) \in 0..15 /\ Digit(v, 2) \in 0..15
    <3>1. v \in Nat
      BY DEF FatValues
    <3> QED
      BY <3>1, DigitType
  <2> QED
    BY <2>1, Digits
<1>2. PICK p \in 0..15, q \in 0..15 : b = p + 16 * q
  <2>1. b % 16 \in 0..15 /\ b \div 16 \in 0..15 /\ b = (b % 16) + 16 * (b \div 16)
    BY DEF Byte
  <2> QED
    BY <2>1
<1>3. /\ v % 16 = x /\ (v \div 16) % 16 = y /\ (v \div 256) % 16 = z
      /\ v % 256 = x + 16 * y /\ (v \div 16) % 256 = y + 16 * z
      /\ (v * 16) % 256 = 16 * x
  BY <1>1
<1>4. b % 16 = p /\ (b \div 16) % 16 = q /\ b \div 16 = q
  BY <1>2
<1>5. ASSUME NEW i \in 0..15, NEW j \in 0..15, NEW k, k = i + 16 * j
      PROVE  k \in Byte /\ k % 16 = i /\ (k \div 16) % 16 = j
  BY <1>5 DEF Byte
<1>6. v % 256 \in Byte /\ (v % 256) % 16 = x /\ ((v % 256) \div 16) % 16 = y
  <2>1. PICK k : k = v % 256
    OBVIOUS
  <2> QED
    BY <1>3, <1>5, <2>1
<1>7. /\ (v \div 16) % 256 \in Byte /\ ((v \div 16) % 256) % 16 = y
      /\ (((v \div 16) % 256) \div 16) % 16 = z
  <2>1. PICK k : k = (v \div 16) % 256
    OBVIOUS
  <2> QED
    BY <1>3, <1>5, <2>1
<1>8. /\ ((b \div 16) * 16) + ((v \div 256) % 16) \in Byte
      /\ (((b \div 16) * 16) + ((v \div 256) % 16)) % 16 = z
      /\ ((((b \div 16) * 16) + ((v \div 256) % 16)) \div 16) % 16 = q
  <2>1. PICK k : k = ((b \div 16) * 16) + ((v \div 256) % 16)
    OBVIOUS
  <2>2. k = z + 16 * q
    BY <1>3, <1>4, <2>1
  <2> QED
    BY <1>5, <2>1, <2>2
<1>9. /\ (b % 16) + ((v * 16) % 256) \in Byte
      /\ ((b % 16) + ((v * 16) % 256)) % 16 = p
      /\ (((b % 16) + ((v * 16) % 256)) \div 16) % 16 = x
  <2>1. PICK k : k = (b % 16) + ((v * 16) % 256)
    OBVIOUS
  <2>2. k = p + 16 * x
    BY <1>3, <1>4, <2>1
  <2> QED
    BY <1>5, <2>1, <2>2
<1> QED
  BY <1>3, <1>4, <1>6, <1>7, <1>8, <1>9

\* fat12_set_cluster changes the three half-bytes of an entry
LEMMA SetDigits ==
  ASSUME NEW m \in Nat, NEW bytes \in [0..m -> Byte], NEW c \in Nat,
         Offset(c) + 1 \in 0..m, NEW value \in FatValues
  PROVE  /\ SetEntry(bytes, c, value) \in [0..m -> Byte]
         /\ \A j \in 0..2 :
              HalfByte(SetEntry(bytes, c, value), 3 * c + j) = Digit(value, j)
         /\ \A i \in Nat : i \div 2 \in 0..m /\ i \notin (3 * c)..(3 * c + 2) =>
              HalfByte(SetEntry(bytes, c, value), i) = HalfByte(bytes, i)
<1> DEFINE o == Offset(c)
<1>1. PICK set : set = SetEntry(bytes, c, value)
  OBVIOUS
<1>2. o \in 0..m /\ bytes[o] \in Byte /\ bytes[o + 1] \in Byte
  BY DEF Offset
<1>3. /\ set = [i \in 0..m |-> set[i]]
      /\ \A i \in 0..m : i \notin {o, o + 1} => set[i] = bytes[i]
  BY <1>1, SetBytes
<1>4. CASE c % 2 = 0
  <2>1. /\ set[o] = value % 256
        /\ set[o + 1] = ((bytes[o + 1] \div 16) * 16) + ((value \div 256) % 16)
    BY <1>1, <1>4, SetBytes
  <2>2. /\ set[o] \in Byte /\ set[o] % 16 = value % 16
        /\ (set[o] \div 16) % 16 = (value \div 16) % 16
        /\ set[o + 1] \in Byte /\ set[o + 1] % 16 = (value \div 256) % 16
        /\ (set[o + 1] \div 16) % 16 = (bytes[o + 1] \div 16) % 16
    BY <1>2, <2>1, MadeDigits
  <2>3. /\ (3 * c + 0) \div 2 = o /\ (3 * c + 0) % 2 = 0
        /\ (3 * c + 1) \div 2 = o /\ (3 * c + 1) % 2 = 1
        /\ (3 * c + 2) \div 2 = o + 1 /\ (3 * c + 2) % 2 = 0
    BY <1>4 DEF Offset
  <2>4. /\ HalfByte(set, 3 * c + 0) = Digit(value, 0)
        /\ HalfByte(set, 3 * c + 1) = Digit(value, 1)
        /\ HalfByte(set, 3 * c + 2) = Digit(value, 2)
    <3>1. /\ HalfByte(set, 3 * c + 0) = set[o] % 16
          /\ HalfByte(set, 3 * c + 1) = (set[o] \div 16) % 16
          /\ HalfByte(set, 3 * c + 2) = set[o + 1] % 16
      BY <2>3, Halves
    <3> QED
      BY <2>2, <3>1 DEF Digit
  <2>5. ASSUME NEW i \in Nat, i \div 2 \in 0..m, i \notin (3 * c)..(3 * c + 2)
        PROVE  HalfByte(set, i) = HalfByte(bytes, i)
    <3>1. CASE i \div 2 \notin {o, o + 1}
      BY <1>3, <2>5, <3>1 DEF HalfByte
    <3>2. CASE i \div 2 \in {o, o + 1}
      <4>1. i \div 2 = o + 1 /\ i % 2 = 1
        BY <1>4, <2>5, <3>2 DEF Offset
      <4> QED
        BY <2>2, <4>1 DEF HalfByte, Digit
    <3> QED
      BY <3>1, <3>2
  <2>6. \A j \in 0..2 : HalfByte(set, 3 * c + j) = Digit(value, j)
    BY <2>4
  <2>7. set \in [0..m -> Byte]
    <3>1. \A i \in 0..m : set[i] \in Byte
      BY <1>3, <2>2
    <3> QED
      BY <1>3, <3>1
  <2> QED
    BY <1>1, <2>5, <2>6, <2>7
<1>5. CASE c % 2 = 1
  <2>1. /\ set[o] = (bytes[o] % 16) + ((value * 16) % 256)
        /\ set[o + 1] = (value \div 16) % 256
    BY <1>1, <1>5, SetBytes
  <2>2. /\ set[o] \in Byte /\ set[o] % 16 = bytes[o] % 16
        /\ (set[o] \div 16) % 16 = value % 16
        /\ set[o + 1] \in Byte /\ set[o + 1] % 16 = (value \div 16) % 16
        /\ (set[o + 1] \div 16) % 16 = (value \div 256) % 16
    BY <1>2, <2>1, MadeDigits
  <2>3. /\ (3 * c + 0) \div 2 = o /\ (3 * c + 0) % 2 = 1
        /\ (3 * c + 1) \div 2 = o + 1 /\ (3 * c + 1) % 2 = 0
        /\ (3 * c + 2) \div 2 = o + 1 /\ (3 * c + 2) % 2 = 1
    BY <1>5 DEF Offset
  <2>4. /\ HalfByte(set, 3 * c + 0) = Digit(value, 0)
        /\ HalfByte(set, 3 * c + 1) = Digit(value, 1)
        /\ HalfByte(set, 3 * c + 2) = Digit(value, 2)
    <3>1. /\ HalfByte(set, 3 * c + 0) = (set[o] \div 16) % 16
          /\ HalfByte(set, 3 * c + 1) = set[o + 1] % 16
          /\ HalfByte(set, 3 * c + 2) = (set[o + 1] \div 16) % 16
      BY <2>3, Halves
    <3> QED
      BY <2>2, <3>1 DEF Digit
  <2>5. ASSUME NEW i \in Nat, i \div 2 \in 0..m, i \notin (3 * c)..(3 * c + 2)
        PROVE  HalfByte(set, i) = HalfByte(bytes, i)
    <3>1. CASE i \div 2 \notin {o, o + 1}
      BY <1>3, <2>5, <3>1 DEF HalfByte
    <3>2. CASE i \div 2 \in {o, o + 1}
      <4>1. i \div 2 = o /\ i % 2 = 0
        BY <1>5, <2>5, <3>2 DEF Offset
      <4> QED
        BY <2>2, <4>1 DEF HalfByte, Digit
    <3> QED
      BY <3>1, <3>2
  <2>6. \A j \in 0..2 : HalfByte(set, 3 * c + j) = Digit(value, j)
    BY <2>4
  <2>7. set \in [0..m -> Byte]
    <3>1. \A i \in 0..m : set[i] \in Byte
      BY <1>3, <2>2
    <3> QED
      BY <1>3, <3>1
  <2> QED
    BY <1>1, <2>5, <2>6, <2>7
<1> QED
  BY <1>4, <1>5

(***************************************************************************)
(* For FATs of every length, in memory and on the disk, every entry and    *)
(* value, and wherever the write is cut: fat12_set_cluster sets its entry  *)
(* and no other, fat12_get_cluster gives what was set, and the bytes sent  *)
(* to the disk change its entries as Mixed says (fat12.c:55-84).           *)
(***************************************************************************)
THEOREM PackingAlwaysSound ==
  ASSUME NEW m \in Nat, NEW bytes \in [0..m -> Byte], NEW onDisk \in [0..m -> Byte],
         NEW c \in Nat, Offset(c) + 1 \in 0..m, NEW e \in Nat, Offset(e) + 1 \in 0..m,
         NEW value \in FatValues, NEW n \in 0..BytesSent
  PROVE  PackingSound(bytes, onDisk, c, e, value, n)
<1> DEFINE Sent(set) == [i \in DOMAIN onDisk |->
                           IF i \in Offset(c)..(Offset(c) + n - 1) THEN set[i] ELSE onDisk[i]]
<1>1. PICK set : set = SetEntry(bytes, c, value)
  OBVIOUS
<1>2. PICK sent : sent = Sent(set)
  OBVIOUS
<1>3. set \in [0..m -> Byte] /\ sent \in [0..m -> Byte]
  <2>1. set \in [0..m -> Byte]
    BY <1>1, SetDigits, Zenon
  <2>2. DOMAIN onDisk = 0..m
    OBVIOUS
  <2> QED
    BY <1>2, <2>1, <2>2
<1>4. Offset(e) \in 0..m /\ Offset(c) \in Nat
  BY DEF Offset
<1>5. ASSUME NEW b \in [0..m -> Byte]
      PROVE  /\ GetEntry(b, e) \in FatValues
             /\ \A j \in 0..2 : Digit(GetEntry(b, e), j) = HalfByte(b, 3 * e + j)
  <2>1. b[Offset(e)] \in Byte /\ b[Offset(e) + 1] \in Byte
    BY <1>4
  <2> QED
    BY <2>1, GetDigits
<1>6. \A j \in 0..2 : (3 * e + j) \div 2 \in 0..m /\ 3 * e + j \in Nat
  BY DEF Offset
<1>7. ASSUME NEW x \in FatValues, NEW y \in FatValues,
             \A j \in 0..2 : Digit(x, j) = Digit(y, j)
      PROVE  x = y
  <2>1. Digit(x, 0) = Digit(y, 0) /\ Digit(x, 1) = Digit(y, 1) /\ Digit(x, 2) = Digit(y, 2)
    BY <1>7
  <2> QED
    BY <2>1, Digits
<1>8. GetEntry(set, e) = IF e = c THEN value ELSE GetEntry(bytes, e)
  <2>1. CASE e = c
    <3>1. \A j \in 0..2 : Digit(GetEntry(set, e), j) = Digit(value, j)
      BY <1>1, <1>3, <1>5, <2>1, SetDigits
    <3> QED
      BY <1>3, <1>5, <1>7, <2>1, <3>1
  <2>2. CASE e # c
    <3>1. \A j \in 0..2 : 3 * e + j \notin (3 * c)..(3 * c + 2)
      BY <2>2
    <3>2. ASSUME NEW j \in 0..2
          PROVE  HalfByte(set, 3 * e + j) = HalfByte(bytes, 3 * e + j)
      <4>1. PICK i : i = 3 * e + j
        OBVIOUS
      <4>2. i \in Nat /\ i \div 2 \in 0..m /\ i \notin (3 * c)..(3 * c + 2)
        BY <1>6, <3>1, <4>1
      <4>3. HalfByte(SetEntry(bytes, c, value), i) = HalfByte(bytes, i)
        BY <4>2, SetDigits
      <4> QED
        BY <1>1, <4>1, <4>3
    <3>3. \A j \in 0..2 : Digit(GetEntry(set, e), j) = Digit(GetEntry(bytes, e), j)
      BY <1>3, <1>5, <3>2
    <3> QED
      BY <1>3, <1>5, <1>7, <2>2, <3>3
  <2> QED
    BY <2>1, <2>2
<1>9. GetEntry(sent, e) = Mixed(GetEntry(onDisk, e), GetEntry(set, e), e, c, n)
  <2> DEFINE reached(j) == 3 * e + j \in (2 * Offset(c))..(2 * (Offset(c) + n) - 1)
             digit(j) == Digit(IF reached(j) THEN GetEntry(set, e) ELSE GetEntry(onDisk, e), j)
  <2>1. ASSUME NEW j \in 0..2
        PROVE  Digit(GetEntry(sent, e), j) = digit(j)
    <3>1. Digit(GetEntry(sent, e), j) = HalfByte(sent, 3 * e + j)
      BY <1>3, <1>5
    <3>2. (3 * e + j) \div 2 \in Offset(c)..(Offset(c) + n - 1) <=> reached(j)
      <4>1. ASSUME NEW i \in Nat, NEW k \in Nat
            PROVE  i \div 2 \in k..(k + n - 1) <=> i \in (2 * k)..(2 * (k + n) - 1)
        BY DEF BytesSent
      <4>2. 3 * e + j \in Nat
        OBVIOUS
      <4> QED
        BY <1>4, <4>1, <4>2
    <3>3. (3 * e + j) \div 2 \in DOMAIN onDisk
      BY <1>6
    <3>4. sent[(3 * e + j) \div 2] =
            IF reached(j) THEN set[(3 * e + j) \div 2] ELSE onDisk[(3 * e + j) \div 2]
      BY <1>2, <3>2, <3>3
    <3>5. HalfByte(sent, 3 * e + j) =
            IF reached(j) THEN HalfByte(set, 3 * e + j) ELSE HalfByte(onDisk, 3 * e + j)
      BY <3>4 DEF HalfByte
    <3> QED
      BY <1>3, <1>5, <3>1, <3>5
  <2>2. /\ digit(0) = Digit(GetEntry(sent, e), 0)
        /\ digit(1) = Digit(GetEntry(sent, e), 1)
        /\ digit(2) = Digit(GetEntry(sent, e), 2)
    BY <2>1
  <2>3. Mixed(GetEntry(onDisk, e), GetEntry(set, e), e, c, n) =
          digit(0) + 16 * digit(1) + 256 * digit(2)
    BY DEF Mixed
  <2> HIDE DEF digit
  <2> QED
    BY <1>3, <1>5, <2>2, <2>3, Digits
<1> QED
  BY <1>1, <1>2, <1>8, <1>9 DEF PackingSound

-----------------------------------------------------------------------------
(* Helpers *)

LEMMA SmallestMember ==
  ASSUME NEW S, S \subseteq Nat, S # {}
  PROVE  Min(S) \in S /\ \A y \in S : Min(S) <= y
<1>1. PICK x \in S : \A y \in S : ~(<<y, x>> \in OpToRel(<, Nat))
  BY NatLessThanWellFounded, WFMin
<1>2. ASSUME NEW y \in S, ~(x <= y)
      PROVE  FALSE
  <2>1. y \in Nat /\ x \in Nat /\ y < x
    BY <1>2
  <2> QED
    BY <1>1, <2>1 DEF OpToRel
<1>3. \E z \in S : \A y \in S : z <= y
  BY <1>2
<1> QED
  BY <1>3 DEF Min

LEMMA LastMember ==
  ASSUME NEW S, NEW s \in Seq(S), s # << >>
  PROVE  Last(s) = s[Len(s)] /\ Last(s) \in S /\ Len(s) \in Nat \ {0}
BY DEF Last

LEMMA PartsType ==
  ASSUME NEW name \in Names
  PROVE  /\ name \in Seq(Texts) /\ Len(name) \in Nat \ {0}
         /\ Parts(name) \in Seq(Texts \cup {""}) /\ Len(Parts(name)) \in Nat \ {0}
<1>1. name \in Seq(Texts) /\ name # << >>
  BY NamesAssumption
<1>2. Len(name) \in Nat \ {0}
  BY <1>1
<1>3. name \in Seq(Texts \cup {""})
  BY <1>1, SeqMonotonic
<1>4. /\ Append(name, "") \in Seq(Texts \cup {""})
      /\ Len(Append(name, "")) = Len(name) + 1
  <2>1. PICK S : S = Texts \cup {""}
    OBVIOUS
  <2>2. name \in Seq(S) /\ "" \in S
    BY <1>3, <2>1
  <2>3. Append(name, "") \in Seq(S) /\ Len(Append(name, "")) = Len(name) + 1
    BY <2>2, AppendProperties
  <2> QED
    BY <2>1, <2>3
<1>5. CASE name \in WholeNames
  <2>1. Parts(name) = Append(name, "")
    BY <1>5 DEF Parts
  <2>2. Len(Parts(name)) \in Nat \ {0}
    <3>1. Len(Parts(name)) = Len(name) + 1
      BY <1>4, <2>1, Zenon
    <3> QED
      BY <1>2, <3>1
  <2> QED
    BY <1>1, <1>2, <1>4, <2>1, <2>2
<1>6. CASE name \notin WholeNames
  BY <1>1, <1>2, <1>3, <1>6 DEF Parts
<1> QED
  BY <1>5, <1>6

LEMMA CountedType ==
  ASSUME NEW f
  PROVE  CountedFree(f) \in Nat
<1>1. IsFiniteSet(DataClusters)
  BY FS_Interval, GeometryAssumption DEF DataClusters
<1>2. IsFiniteSet(FreeClusters(f))
  BY <1>1, FS_Subset DEF FreeClusters
<1>3. Cardinality(FreeClusters(f)) \in Nat
  BY <1>2, FS_CardinalityType
<1> QED
  BY <1>3, GeometryAssumption DEF CountedFree

LEMMA Geometry ==
  /\ FatIndex \subseteq FatValues /\ FatIndex \subseteq Nat /\ EndOfChain \notin FatIndex
  /\ EndOfChain \in FatValues /\ Free \in FatValues /\ Free # EndOfChain
  /\ Slots \subseteq Nat
BY GeometryAssumption DEF FatIndex, FatValues, EndOfChain, Free, Slots

LEMMA SentType ==
  ASSUME NEW f \in [FatIndex -> FatValues], diskFat \in [FatIndex -> FatValues],
         NEW c, NEW n
  PROVE  SentFat(f, c, n) \in [FatIndex -> FatValues]
BY MixedType DEF SentFat

\* The bytes sent for an entry leave the others, if these are as in memory
LEMMA SentSame ==
  ASSUME NEW f \in [FatIndex -> FatValues], diskFat \in [FatIndex -> FatValues],
         NEW c \in FatIndex, \A e \in FatIndex \ {c} : f[e] = diskFat[e], NEW n
  PROVE  /\ \A e \in FatIndex \ {c} : SentFat(f, c, n)[e] = f[e]
         /\ SentFat(f, c, BytesSent) = f
<1>1. \A e \in FatIndex \ {c} : Mixed(diskFat[e], f[e], e, c, n) = f[e]
  BY MixedSame
<1>2. \A e \in FatIndex \ {c} : Mixed(diskFat[e], f[e], e, c, BytesSent) = f[e]
  BY MixedSame
<1>3. Mixed(diskFat[c], f[c], c, c, BytesSent) = f[c]
  BY MixedWhole, Geometry
<1>4. \A e \in FatIndex : SentFat(f, c, BytesSent)[e] = f[e]
  BY <1>2, <1>3 DEF SentFat
<1> QED
  BY <1>1, <1>4 DEF SentFat

-----------------------------------------------------------------------------
(* The invariant *)

\* Where fat12_write_file is
WriterInv ==
  /\ pc # "idle" => job.name \in Names
  /\ pc = "names" => part \in 1..Len(Parts(job.name))
  /\ pc \in {"names", "fill"} => used = << >>
  /\ pc \in {"link", "entry", "data", "pad"} => FinalSlot \in Slots
  /\ pc \in {"entry", "data", "pad"} => used # << >>
  /\ pc \in {"data", "pad"} => part \in 1..Len(used)

FirstOf(chain) == IF chain = << >> THEN 0 ELSE chain[1]

\* All chains ever made are in the FAT in memory, also those whose entry was
\* overwritten
Linked ==
  \A s \in Slots : \A k \in 1..Len(chains[s]) :
    /\ chains[s][k] > 1
    /\ fat[chains[s][k]] =
         IF k = Len(chains[s]) THEN EndOfChain ELSE chains[s][k + 1]

Apart ==
  \A s, t \in Slots : s # t =>
    \A j \in 1..Len(chains[s]), k \in 1..Len(chains[t]) : chains[s][j] # chains[t][k]

FirstsInMemory ==
  \A s \in Slots \ Unfinished : dir[s].kind = "file" => dir[s].first = FirstOf(chains[s])

\* The chain that is being made
NewChain ==
  /\ \A k \in 1..Len(used) :
       /\ used[k] > 1
       /\ \A s \in Slots : \A j \in 1..Len(chains[s]) : used[k] # chains[s][j]
  /\ \A k \in 1..(Len(used) - 1) : fat[used[k]] = used[k + 1]
  /\ pc = "link" /\ used # << >> => fat[used[Len(used)]] = Free
  /\ pc = "entry" => fat[used[Len(used)]] = EndOfChain

MemoryInv ==
  ~lost =>
    /\ Linked /\ Apart /\ FirstsInMemory
    /\ pc \in {"link", "entry"} => NewChain
    /\ pc \in {"data", "pad"} => chains[FinalSlot] = used

DiskInv ==
  refusals = 0 =>
    /\ ~lost
    /\ fat = diskFat
    /\ \A s \in Slots : s \notin Unfinished => dir[s] = diskDir[s]
    /\ \A s \in Slots :
         diskDir[s].kind = "file" => diskDir[s].first = FirstOf(chains[s])

IInv == TypeOK /\ WriterInv /\ MemoryInv /\ DiskInv

LEMMA InitIInv == Init => IInv
<1> SUFFICES ASSUME Init PROVE IInv
  OBVIOUS
<1>1. PICK d \in Disks :
        /\ diskFat = d.fat /\ diskDir = d.dir /\ data = d.data
        /\ chains = d.chains /\ fat = d.fat /\ dir = d.dir
  BY DEF Init
<1>2. /\ d.fat \in [FatIndex -> FatValues] /\ d.dir \in [Slots -> DirSlot]
      /\ d.data \in [Sectors -> Content]
      /\ d.chains \in [Slots -> Seq(FatIndex)]
  BY DisksAssumption
<1>3. TypeOK
  <2>1. bytesFree \in Nat
    BY CountedType DEF Init
  <2>2. NoJob \in [name : Names \cup {<< >>}, size : Nat, slot : Nat]
    BY DEF NoJob
  <2>3. << >> \in Seq(FatIndex) /\ 0 \in 0..MaxFaults /\ 0 \in 0..MaxRefusals
    BY GeometryAssumption
  <2>4. restarts = 0 /\ refusals = 0 /\ lost = FALSE /\ wild = FALSE /\ part = 0
        /\ used = << >> /\ job = NoJob /\ pc = "idle"
    BY DEF Init
  <2>5. lost \in BOOLEAN /\ wild \in BOOLEAN
    BY <2>4
  <2>6. pc \in Phases /\ part \in Nat
    BY <2>4 DEF Phases
  <2> QED
    BY <1>1, <1>2, <2>1, <2>2, <2>3, <2>4, <2>5, <2>6 DEF TypeOK
<1>4. WriterInv
  BY DEF Init, WriterInv
<1>5. Linked
  BY <1>1, DisksAssumption DEF Linked
<1>6. Apart
  <2>1. \A s, t \in Slots : s # t => Range(d.chains[s]) \cap Range(d.chains[t]) = {}
    BY DisksAssumption
  <2>2. ASSUME NEW s \in Slots, NEW j \in 1..Len(chains[s])
        PROVE  chains[s][j] \in Range(d.chains[s])
    <3>1. chains[s] \in Seq(FatIndex)
      BY <1>1, <1>2
    <3> QED
      BY <1>1, <3>1 DEF Range
  <2>3. ASSUME NEW s \in Slots, NEW t \in Slots, s # t,
               NEW j \in 1..Len(chains[s]), NEW k \in 1..Len(chains[t])
        PROVE  chains[s][j] # chains[t][k]
    <3>1. Range(d.chains[s]) \cap Range(d.chains[t]) = {}
      BY <2>1, <2>3
    <3>2. chains[s][j] \in Range(d.chains[s]) /\ chains[t][k] \in Range(d.chains[t])
      BY <2>2
    <3> QED
      BY <3>1, <3>2
  <2> QED
    BY <2>3 DEF Apart
<1>7. \A s \in Slots : dir[s].kind = "file" => dir[s].first = FirstOf(chains[s])
  BY <1>1, DisksAssumption DEF FirstOf
<1>8. MemoryInv
  BY <1>5, <1>6, <1>7 DEF Init, MemoryInv, FirstsInMemory
<1>9. DiskInv
  BY <1>1, <1>7 DEF Init, DiskInv
<1> QED
  BY <1>3, <1>4, <1>8, <1>9 DEF IInv

-----------------------------------------------------------------------------
(* The steps *)

LEMMA StartWriteIInv ==
  ASSUME IInv, NEW name \in Names, NEW size \in FileSizes, StartWrite(name, size)
  PROVE  IInv'
<1> USE DEF disk, cache, writer, past, faults
<1>1. CASE WriteRefused(name, size)
  <2>1. UNCHANGED vars
    BY <1>1 DEF StartWrite, vars
  <2> QED
    BY <2>1 DEF IInv, TypeOK, WriterInv, MemoryInv, DiskInv, Linked, Apart,
         FirstsInMemory, NewChain, Unfinished, FinalSlot, FirstOf, vars
<1>2. CASE ~WriteRefused(name, size)
  <2>1. /\ pc = "idle" /\ pc' = "names" /\ used' = << >> /\ part' = 1
        /\ job' = [name |-> name, size |-> size, slot |-> FoundEntry(name)]
        /\ UNCHANGED <<disk, cache, past, faults, wild>>
    BY <1>2 DEF StartWrite
  <2>2. FoundEntry(name) \in Nat
    <3>1. PICK e : e \in SearchEnd(name)
      BY <1>2 DEF WriteRefused
    <3>2. e \in Slots /\ e \in EmptySlots
      BY <3>1 DEF SearchEnd, EmptySlots
    <3> DEFINE S == {s \in Slots : \E x \in SearchEnd(name) : s <= x /\ s..x \subseteq EmptySlots}
    <3>3. e \in S
      BY <3>1, <3>2 DEF Slots
    <3>4. S \subseteq Nat /\ S # {}
      BY <3>3, Geometry
    <3> QED
      BY <3>4, SmallestMember DEF FoundEntry
  <2>3. job' \in [name : Names \cup {<< >>}, size : Nat, slot : Nat]
    BY <2>1, <2>2, NamesAssumption
  <2>4. TypeOK'
    BY <2>1, <2>3 DEF IInv, TypeOK, Phases
  <2>5. WriterInv'
    <3>1. job'.name = name
      BY <2>1
    <3>2. Len(Parts(name)) \in Nat \ {0}
      BY PartsType
    <3>3. pc' = "names" /\ job'.name \in Names
      BY <2>1, <3>1
    <3>4. part' \in 1..Len(Parts(job'.name))
      BY <2>1, <3>1, <3>2
    <3> QED
      BY <2>1, <3>3, <3>4 DEF WriterInv
  <2>6. MemoryInv'
    <3>1. /\ MemoryInv /\ fat' = fat /\ dir' = dir /\ chains' = chains /\ lost' = lost
          /\ pc' \notin {"link", "entry", "data", "pad"}
      BY <2>1 DEF IInv
    <3>2. Unfinished = {} /\ Unfinished' = {}
      BY <2>1 DEF Unfinished
    <3>3. ASSUME ~lost
          PROVE  Linked' /\ Apart' /\ FirstsInMemory'
      <4>1. Linked /\ Apart /\ FirstsInMemory
        BY <3>1, <3>3 DEF MemoryInv
      <4>2. Linked' /\ Apart'
        BY <3>1, <4>1 DEF Linked, Apart
      <4>3. FirstsInMemory'
        BY <3>1, <3>2, <4>1 DEF FirstsInMemory, FirstOf
      <4> QED
        BY <4>2, <4>3
    <3> QED
      BY <3>1, <3>3 DEF MemoryInv
  <2>7. DiskInv'
    BY <2>1 DEF IInv, DiskInv, Unfinished, FirstOf
  <2> QED
    BY <2>4, <2>5, <2>6, <2>7 DEF IInv
<1> QED
  BY <1>1, <1>2

\* An entry of the directory that goes to the disk, or does not
LEMMA PutEntryFacts ==
  ASSUME TypeOK, NEW slot \in Slots, dir' \in [Slots -> DirSlot], PutEntry(slot)
  PROVE  /\ diskDir' \in [Slots -> DirSlot] /\ refusals' \in 0..MaxRefusals
         /\ refusals' = 0 =>
              /\ refusals = 0 /\ diskDir'[slot] = dir'[slot]
              /\ \A s \in Slots \ {slot} : diskDir'[s] = diskDir[s]
<1>1. CASE diskDir' = [diskDir EXCEPT ![slot] = dir'[slot]] /\ Reached
  <2>1. diskDir \in [Slots -> DirSlot] /\ dir'[slot] \in DirSlot
    BY DEF TypeOK
  <2>2. /\ diskDir' \in [Slots -> DirSlot] /\ diskDir'[slot] = dir'[slot]
        /\ \A s \in Slots \ {slot} : diskDir'[s] = diskDir[s]
    BY <1>1, <2>1
  <2> QED
    BY <1>1, <2>2 DEF Reached, TypeOK
<1>2. CASE UNCHANGED diskDir /\ Refused
  <2>1. refusals' \in 0..MaxRefusals /\ refusals' # 0
    BY <1>2, GeometryAssumption DEF TypeOK, Refused
  <2> QED
    BY <1>2, <2>1 DEF TypeOK
<1> QED
  BY <1>1, <1>2 DEF PutEntry

LEMMA WriteLongIInv ==
  ASSUME IInv, WriteLong
  PROVE  IInv'
<1> USE DEF disk, cache, writer, past, faults
<1>1. CASE LongSlot \notin Slots
  <2>1. UNCHANGED <<disk, cache, writer, past, faults>> /\ wild' = TRUE
    BY <1>1 DEF WriteLong, RunsOff
  <2> QED
    BY <2>1 DEF IInv, TypeOK, WriterInv, MemoryInv, DiskInv, Linked, Apart,
         FirstsInMemory, NewChain, Unfinished, FinalSlot, FirstOf
<1>2. CASE LongSlot \in Slots
  <2>1. PICK slot : slot = LongSlot
    OBVIOUS
  <2>2. PICK text : text = Parts(job.name)[part]
    OBVIOUS
  <2>3. /\ pc = "names" /\ slot \in Slots
        /\ dir' = [dir EXCEPT ![slot] =
                     [kind |-> "long", text |-> text, first |-> 0, size |-> 0]]
        /\ PutEntry(slot) /\ part' = part + 1
        /\ pc' = IF part = Len(Parts(job.name)) THEN "fill" ELSE "names"
        /\ UNCHANGED <<diskFat, data, fat, bytesFree, job, used, past,
                       restarts, lost, wild>>
    BY <1>2, <2>1, <2>2 DEF WriteLong
  <2>4. /\ job.name \in Names /\ part \in 1..Len(Parts(job.name)) /\ used = << >>
        /\ TypeOK
    BY <2>3 DEF IInv, WriterInv
  <2>5. text \in Texts \cup {""}
    <3>1. Parts(job.name) \in Seq(Texts \cup {""})
      BY <2>4, PartsType
    <3> QED
      BY <2>2, <2>4, <3>1, ElementOfSeq
  <2>6. dir' \in [Slots -> DirSlot]
    <3>1. [kind |-> "long", text |-> text, first |-> 0, size |-> 0] \in DirSlot
      <4>1. 0 \in FatValues /\ 0 \in Nat /\ "long" \in {"empty", "long", "file", "label"}
        BY DEF FatValues
      <4> QED
        BY <2>5, <4>1 DEF DirSlot
    <3> QED
      BY <2>3, <2>4, <3>1 DEF TypeOK
  <2>7. /\ diskDir' \in [Slots -> DirSlot] /\ refusals' \in 0..MaxRefusals
        /\ refusals' = 0 =>
              /\ refusals = 0 /\ diskDir'[slot] = dir'[slot]
              /\ \A s \in Slots \ {slot} : diskDir'[s] = diskDir[s]
    BY <2>3, <2>4, <2>6, PutEntryFacts
  <2>8. TypeOK'
    BY <2>3, <2>4, <2>6, <2>7 DEF TypeOK, Phases
  <2>9. WriterInv'
    <3>1. Len(Parts(job.name)) \in Nat /\ job' = job /\ used' = << >>
      BY <2>3, <2>4, PartsType
    <3>2. CASE part = Len(Parts(job.name))
      BY <2>3, <2>4, <3>1, <3>2 DEF WriterInv
    <3>3. CASE part # Len(Parts(job.name))
      <4>1. pc' = "names" /\ part' \in 1..Len(Parts(job.name))
        BY <2>3, <2>4, <3>1, <3>3
      <4> QED
        BY <2>4, <3>1, <4>1 DEF WriterInv
    <3> QED
      BY <3>2, <3>3
  <2>10. /\ \A s \in Slots \ {slot} : dir'[s] = dir[s]
         /\ dir'[slot].kind = "long"
    BY <2>3, <2>4 DEF TypeOK
  <2>11. MemoryInv'
    <3>1. MemoryInv /\ fat' = fat /\ chains' = chains /\ lost' = lost
      BY <2>3 DEF IInv
    <3>2. Unfinished = {} /\ Unfinished' = {} /\ pc' \notin {"link", "entry", "data", "pad"}
      BY <2>3 DEF Unfinished
    <3>3. ASSUME ~lost
          PROVE  Linked' /\ Apart' /\ FirstsInMemory'
      <4>1. Linked /\ Apart /\ FirstsInMemory
        BY <3>1, <3>3 DEF MemoryInv
      <4>2. Linked' /\ Apart'
        BY <3>1, <4>1 DEF Linked, Apart
      <4>3. FirstsInMemory'
        BY <2>10, <3>1, <3>2, <4>1 DEF FirstsInMemory, FirstOf
      <4> QED
        BY <4>2, <4>3
    <3> QED
      BY <3>1, <3>2, <3>3 DEF MemoryInv
  <2>12. DiskInv'
    BY <2>3, <2>7, <2>10 DEF IInv, DiskInv, Unfinished, FirstOf
  <2> QED
    BY <2>8, <2>9, <2>11, <2>12 DEF IInv
<1> QED
  BY <1>1, <1>2

LEMMA FillEntryIInv ==
  ASSUME IInv, FillEntry
  PROVE  IInv'
<1> USE DEF disk, cache, writer, past, faults
<1>1. CASE FinalSlot \notin Slots
  <2>1. UNCHANGED <<disk, cache, writer, past, faults>> /\ wild' = TRUE
    BY <1>1 DEF FillEntry, RunsOff
  <2> QED
    BY <2>1 DEF IInv, TypeOK, WriterInv, MemoryInv, DiskInv, Linked, Apart,
         FirstsInMemory, NewChain, Unfinished, FinalSlot, FirstOf
<1>2. CASE FinalSlot \in Slots
  <2>1. PICK slot : slot = FinalSlot
    OBVIOUS
  <2>2. /\ pc = "fill" /\ slot \in Slots /\ pc' = "link"
        /\ dir' = [dir EXCEPT ![slot] =
                     [kind |-> "file", text |-> job.name[1],
                      first |-> dir[slot].first, size |-> job.size]]
        /\ UNCHANGED <<disk, fat, bytesFree, job, used, part, past, faults, wild>>
    BY <1>2, <2>1 DEF FillEntry
  <2>3. job.name \in Names /\ used = << >> /\ TypeOK
    BY <2>2 DEF IInv, WriterInv
  <2>4. FinalSlot' = slot
    BY <2>1, <2>2 DEF FinalSlot
  <2>5. dir' \in [Slots -> DirSlot]
    <3>1. job.name[1] \in Texts /\ job.size \in Nat /\ dir[slot].first \in FatValues
      <4>1. job.name \in Seq(Texts) /\ Len(job.name) \in Nat \ {0}
        BY <2>3, PartsType
      <4>2. job.name[1] \in Texts
        BY <4>1
      <4>3. dir[slot] \in DirSlot /\ job.size \in Nat
        BY <2>2, <2>3 DEF TypeOK
      <4> QED
        BY <4>2, <4>3 DEF DirSlot
    <3>2. [kind |-> "file", text |-> job.name[1], first |-> dir[slot].first,
           size |-> job.size] \in DirSlot
      BY <3>1 DEF DirSlot
    <3> QED
      BY <2>2, <2>3, <3>2 DEF TypeOK
  <2>6. TypeOK'
    BY <2>2, <2>3, <2>5 DEF TypeOK, Phases
  <2>7. WriterInv'
    BY <2>2, <2>3, <2>4 DEF WriterInv
  <2>8. \A s \in Slots \ {slot} : dir'[s] = dir[s]
    BY <2>2, <2>3 DEF TypeOK
  <2>9. Unfinished' = {slot} /\ Unfinished = {}
    BY <2>2, <2>4 DEF Unfinished
  <2>10. MemoryInv'
    BY <2>2, <2>3, <2>8, <2>9
    DEF IInv, MemoryInv, Linked, Apart, FirstsInMemory, NewChain, FirstOf
  <2>11. DiskInv'
    BY <2>2, <2>8, <2>9 DEF IInv, DiskInv, FirstOf
  <2> QED
    BY <2>6, <2>7, <2>10, <2>11 DEF IInv
<1> QED
  BY <1>1, <1>2

\* A mark that is sent to the disk, or is refused there, or cut
LEMMA SetClusterFacts ==
  ASSUME TypeOK, NEW c \in FatIndex, NEW value \in FatValues, SetCluster(c, value)
  PROVE  /\ fat' = [fat EXCEPT ![c] = value]
         /\ fat' \in [FatIndex -> FatValues] /\ diskFat' \in [FatIndex -> FatValues]
         /\ refusals' \in 0..MaxRefusals
         /\ refusals' = 0 => refusals = 0
         /\ refusals' = 0 /\ fat = diskFat => fat' = diskFat'
<1>1. PICK f : f = [fat EXCEPT ![c] = value]
  OBVIOUS
<1>2. /\ f \in [FatIndex -> FatValues] /\ diskFat \in [FatIndex -> FatValues]
      /\ \A e \in FatIndex \ {c} : f[e] = fat[e]
  BY <1>1 DEF TypeOK
<1>3. fat' = f
  BY <1>1 DEF SetCluster
<1>4. CASE diskFat' = SentFat(fat', c, BytesSent) /\ Reached
  <2>1. diskFat' = SentFat(f, c, BytesSent)
    BY <1>3, <1>4
  <2>2. diskFat' \in [FatIndex -> FatValues]
    BY <1>2, <2>1, SentType
  <2>3. fat = diskFat => diskFat' = f
    BY <1>2, <2>1, SentSame
  <2> QED
    BY <1>1, <1>2, <1>3, <1>4, <2>2, <2>3 DEF Reached, TypeOK
<1>5. CASE (\E n \in Cuts(c) \cup {0} : diskFat' = SentFat(fat', c, n)) /\ Refused
  <2>1. PICK n : diskFat' = SentFat(f, c, n)
    BY <1>3, <1>5
  <2>2. diskFat' \in [FatIndex -> FatValues]
    BY <1>2, <2>1, SentType
  <2>3. refusals' \in 0..MaxRefusals /\ refusals' # 0
    BY <1>5, GeometryAssumption DEF TypeOK, Refused
  <2> QED
    BY <1>1, <1>2, <1>3, <2>2, <2>3
<1> QED
  BY <1>4, <1>5 DEF SetCluster

LEMMA NextFree ==
  ASSUME TypeOK, FreeFrom # {}
  PROVE  /\ Min(FreeFrom) \in FatIndex
         /\ used = << >> => Min(FreeFrom) > 1
         /\ fat[Min(FreeFrom)] = Free
         /\ used # << >> => Min(FreeFrom) > Last(used)
<1>1. FreeFrom \subseteq FatIndex
  BY DEF FreeFrom
<1>2. FreeFrom \subseteq Nat
  BY <1>1, Geometry
<1>3. Min(FreeFrom) \in FreeFrom
  BY <1>2, SmallestMember
<1>4. PICK c : c = Min(FreeFrom)
  OBVIOUS
<1>5. c \in FatIndex /\ c > (IF used = << >> THEN 1 ELSE Last(used)) /\ fat[c] = Free
  BY <1>3, <1>4 DEF FreeFrom
<1> QED
  BY <1>4, <1>5

\* The chains stay when a mark is set in none of them
LEMMA LinkedKept ==
  ASSUME TypeOK, Linked, NEW c, NEW value, fat' = [fat EXCEPT ![c] = value],
         UNCHANGED chains,
         \A s \in Slots : \A j \in 1..Len(chains[s]) : c # chains[s][j]
  PROVE  Linked'
<1>1. ASSUME NEW s \in Slots, NEW k \in 1..Len(chains[s])
      PROVE  fat'[chains[s][k]] = fat[chains[s][k]]
  <2>1. chains[s] \in Seq(FatIndex)
    BY DEF TypeOK
  <2>2. chains[s][k] \in FatIndex
    BY <2>1, ElementOfSeq
  <2>3. c # chains[s][k]
    OBVIOUS
  <2> QED
    BY <2>2, <2>3 DEF TypeOK
<1> QED
  BY <1>1 DEF Linked

\* Clusters of a chain are not free
LEMMA ChainsTaken ==
  ASSUME TypeOK, Linked, NEW s \in Slots, NEW k \in 1..Len(chains[s])
  PROVE  fat[chains[s][k]] # Free
<1>1. chains[s] \in Seq(FatIndex)
  BY DEF TypeOK
<1>2. CASE k = Len(chains[s])
  BY <1>2, Geometry DEF Linked
<1>3. CASE k # Len(chains[s])
  <2>1. k + 1 \in 1..Len(chains[s])
    BY <1>1, <1>3
  <2>2. chains[s][k + 1] > 1 /\ fat[chains[s][k]] = chains[s][k + 1]
    BY <1>3, <2>1 DEF Linked
  <2>3. chains[s][k + 1] \in FatIndex
    BY <1>1, <2>1, ElementOfSeq
  <2> QED
    BY <2>2, <2>3, Geometry DEF Free
<1> QED
  BY <1>2, <1>3

LEMMA LinkClusterIInv ==
  ASSUME IInv, LinkCluster
  PROVE  IInv'
<1> USE DEF disk, cache, writer, past, faults
<1>1. CASE FreeFrom = {}
  <2>1. UNCHANGED <<disk, cache, writer, past, faults>> /\ wild' = TRUE
    BY <1>1 DEF LinkCluster, RunsOff
  <2> QED
    BY <2>1 DEF IInv, TypeOK, WriterInv, MemoryInv, DiskInv, Linked, Apart,
         FirstsInMemory, NewChain, Unfinished, FinalSlot, FirstOf
<1>2. CASE FreeFrom # {}
  <2>1. PICK c : c = Min(FreeFrom)
    OBVIOUS
  <2>2. /\ pc = "link" /\ used' = Append(used, c)
        /\ \/ used = << >> /\ UNCHANGED <<fat, diskFat, refusals>>
           \/ used # << >> /\ SetCluster(Last(used), c)
        /\ UNCHANGED <<diskDir, data, dir, bytesFree, pc, job, part, past,
                       restarts, lost, wild>>
    BY <1>2, <2>1 DEF LinkCluster
  <2>3. TypeOK /\ WriterInv /\ MemoryInv /\ DiskInv /\ used \in Seq(FatIndex)
    BY DEF IInv, TypeOK
  <2>4. /\ c \in FatIndex /\ fat[c] = Free
        /\ used = << >> => c > 1
        /\ used # << >> => c > Last(used)
    BY <1>2, <2>1, <2>3, NextFree
  <2>5. c \in FatValues
    BY <2>4, Geometry
  <2>6. /\ used' \in Seq(FatIndex) /\ Len(used') = Len(used) + 1
        /\ used'[Len(used) + 1] = c /\ \A k \in 1..Len(used) : used'[k] = used[k]
        /\ used' # << >> /\ Len(used) \in Nat
    BY <2>2, <2>3, <2>4
  <2>7. used # << >> => /\ Last(used) = used[Len(used)] /\ Last(used) \in FatIndex
                        /\ Len(used) \in Nat \ {0}
    BY <2>3, LastMember
  <2>8. /\ fat' \in [FatIndex -> FatValues] /\ diskFat' \in [FatIndex -> FatValues]
        /\ refusals' \in 0..MaxRefusals
        /\ refusals' = 0 => refusals = 0
        /\ refusals' = 0 /\ fat = diskFat => fat' = diskFat'
        /\ used = << >> => fat' = fat
        /\ used # << >> => fat' = [fat EXCEPT ![Last(used)] = c]
    <3>1. CASE used = << >>
      BY <2>2, <2>3, <3>1 DEF TypeOK
    <3>2. CASE used # << >>
      BY <2>2, <2>3, <2>5, <2>7, <3>2, SetClusterFacts
    <3> QED
      BY <3>1, <3>2
  <2>9. TypeOK'
    BY <2>2, <2>3, <2>6, <2>8 DEF TypeOK
  <2>10. WriterInv'
    BY <2>2, <2>3 DEF WriterInv, FinalSlot
  <2>11. Unfinished' = Unfinished
    BY <2>2 DEF Unfinished, FinalSlot
  <2>12. ASSUME ~lost'
         PROVE  Linked' /\ Apart' /\ FirstsInMemory' /\ NewChain'
    <3>1. Linked /\ Apart /\ FirstsInMemory /\ NewChain
      BY <2>2, <2>3, <2>12 DEF MemoryInv
    <3>2. \A s \in Slots : \A j \in 1..Len(chains[s]) : c # chains[s][j]
      BY <2>3, <2>4, <3>1, ChainsTaken
    <3>3. used # << >> =>
            /\ Last(used) > 1
            /\ \A s \in Slots : \A j \in 1..Len(chains[s]) : Last(used) # chains[s][j]
      BY <2>7, <3>1 DEF NewChain
    <3>4. Linked'
      <4>1. CASE used = << >>
        BY <2>2, <2>8, <3>1, <4>1 DEF Linked
      <4>2. CASE used # << >>
        BY <2>2, <2>3, <2>8, <3>1, <3>3, <4>2, LinkedKept
      <4> QED
        BY <4>1, <4>2
    <3>5. Apart' /\ FirstsInMemory'
      BY <2>2, <2>11, <3>1 DEF Apart, FirstsInMemory, FirstOf
    <3>6. c > 1
      <4>1. c \in Nat
        BY <2>4, Geometry
      <4>2. CASE used # << >>
        <5>1. Last(used) \in Nat /\ Last(used) > 1 /\ c > Last(used)
          BY <2>4, <2>7, <3>3, <4>2, Geometry
        <5> QED
          BY <4>1, <5>1
      <4> QED
        BY <2>4, <4>2
    <3>7. \A k \in 1..Len(used') :
            /\ used'[k] > 1
            /\ \A s \in Slots : \A j \in 1..Len(chains'[s]) : used'[k] # chains'[s][j]
      <4>1. \A k \in 1..Len(used) :
              /\ used[k] > 1
              /\ \A s \in Slots : \A j \in 1..Len(chains[s]) : used[k] # chains[s][j]
        BY <3>1 DEF NewChain
      <4>2. chains' = chains
        BY <2>2
      <4>3. ASSUME NEW k \in 1..Len(used')
            PROVE  k \in 1..Len(used) \/ k = Len(used) + 1
        BY <2>6
      <4>4. ASSUME NEW k \in 1..Len(used'), k \in 1..Len(used)
            PROVE  /\ used'[k] > 1
                   /\ \A s \in Slots : \A j \in 1..Len(chains[s]) : used'[k] # chains[s][j]
        BY <2>6, <4>1, <4>4
      <4>5. /\ used'[Len(used) + 1] > 1
            /\ \A s \in Slots : \A j \in 1..Len(chains[s]) :
                 used'[Len(used) + 1] # chains[s][j]
        BY <2>6, <3>2, <3>6
      <4> QED
        BY <4>2, <4>3, <4>4, <4>5
    <3>8. \A k \in 1..(Len(used') - 1) : fat'[used'[k]] = used'[k + 1]
      <4> SUFFICES ASSUME NEW k \in 1..Len(used)
                   PROVE  fat'[used'[k]] = used'[k + 1]
        BY <2>6
      <4>1. used[k] \in FatIndex /\ used'[k] = used[k] /\ used # << >>
        BY <2>3, <2>6
      <4>2. CASE k = Len(used)
        BY <2>3, <2>6, <2>7, <2>8, <4>1, <4>2 DEF TypeOK
      <4>3. CASE k # Len(used)
        <5>1. k \in 1..(Len(used) - 1) /\ k + 1 \in 1..Len(used)
          BY <2>6, <4>3
        <5>2. fat[used[k]] = used[k + 1] /\ used[k + 1] > 1 /\ used'[k + 1] = used[k + 1]
          BY <2>6, <3>1, <5>1 DEF NewChain
        <5>3. fat[Last(used)] = Free
          BY <2>2, <2>7, <3>1, <4>1 DEF NewChain
        <5>4. used[k] # Last(used)
          BY <5>2, <5>3 DEF Free
        <5> QED
          BY <2>3, <2>8, <4>1, <5>2, <5>4 DEF TypeOK
      <4> QED
        BY <4>2, <4>3
    <3>9. fat'[used'[Len(used')]] = Free
      <4>1. CASE used = << >>
        BY <2>4, <2>6, <2>8, <4>1
      <4>2. CASE used # << >>
        <5>1. c # Last(used)
          BY <2>4, <2>7, <4>2, Geometry
        <5> QED
          BY <2>3, <2>4, <2>6, <2>8, <4>2, <5>1 DEF TypeOK
      <4> QED
        BY <4>1, <4>2
    <3>10. NewChain'
      BY <2>2, <3>7, <3>8, <3>9 DEF NewChain
    <3> QED
      BY <3>4, <3>5, <3>10
  <2>13. MemoryInv'
    BY <2>2, <2>12 DEF MemoryInv
  <2>14. DiskInv'
    BY <2>2, <2>3, <2>8, <2>11 DEF DiskInv, FirstOf
  <2> QED
    BY <2>9, <2>10, <2>13, <2>14 DEF IInv
<1> QED
  BY <1>1, <1>2

LEMMA EndChainIInv ==
  ASSUME IInv, EndChain
  PROVE  IInv'
<1> USE DEF disk, cache, writer, past, faults
<1>1. /\ pc = "link" /\ Len(used) = Needed(job.size) /\ pc' = "entry"
      /\ SetCluster(Last(used), EndOfChain)
      /\ UNCHANGED <<diskDir, data, dir, bytesFree, job, used, part, past,
                     restarts, lost, wild>>
  BY DEF EndChain
<1>2. TypeOK /\ WriterInv /\ MemoryInv /\ DiskInv /\ used \in Seq(FatIndex)
  BY DEF IInv, TypeOK
<1>3. used # << >>
  <2>1. job.size \in Nat
    BY <1>2 DEF TypeOK
  <2>2. Needed(job.size) # 0
    BY <2>1, GeometryAssumption DEF Needed
  <2> QED
    BY <1>1, <2>2
<1>4. Last(used) = used[Len(used)] /\ Last(used) \in FatIndex /\ Len(used) \in Nat \ {0}
  BY <1>2, <1>3, LastMember
<1>5. /\ fat' = [fat EXCEPT ![Last(used)] = EndOfChain]
      /\ fat' \in [FatIndex -> FatValues] /\ diskFat' \in [FatIndex -> FatValues]
      /\ refusals' \in 0..MaxRefusals
      /\ refusals' = 0 => refusals = 0
      /\ refusals' = 0 /\ fat = diskFat => fat' = diskFat'
  BY <1>1, <1>2, <1>4, SetClusterFacts, Geometry
<1>6. TypeOK'
  BY <1>1, <1>2, <1>5 DEF TypeOK, Phases
<1>7. WriterInv'
  BY <1>1, <1>2, <1>3 DEF WriterInv, FinalSlot
<1>8. Unfinished' = Unfinished
  BY <1>1 DEF Unfinished, FinalSlot
<1>9. ASSUME ~lost'
      PROVE  Linked' /\ Apart' /\ FirstsInMemory' /\ NewChain'
  <2>1. Linked /\ Apart /\ FirstsInMemory /\ NewChain
    BY <1>1, <1>2, <1>9 DEF MemoryInv
  <2>2. \A s \in Slots : \A j \in 1..Len(chains[s]) : Last(used) # chains[s][j]
    BY <1>4, <2>1 DEF NewChain
  <2>3. Linked'
    BY <1>1, <1>2, <1>5, <2>1, <2>2, LinkedKept
  <2>4. Apart' /\ FirstsInMemory'
    BY <1>1, <1>8, <2>1 DEF Apart, FirstsInMemory, FirstOf
  <2>5. ASSUME NEW k \in 1..(Len(used) - 1)
        PROVE  fat'[used[k]] = used[k + 1]
    <3>1. /\ k \in 1..Len(used) /\ k + 1 \in 1..Len(used)
      BY <1>4
    <3>2. used[k] \in FatIndex /\ fat[used[k]] = used[k + 1] /\ used[k + 1] > 1
      BY <1>2, <2>1, <3>1 DEF NewChain
    <3>3. fat[Last(used)] = Free
      BY <1>1, <1>3, <1>4, <2>1 DEF NewChain
    <3> QED
      BY <1>2, <1>5, <3>2, <3>3 DEF TypeOK, Free
  <2>6. fat'[used[Len(used)]] = EndOfChain
    BY <1>2, <1>4, <1>5 DEF TypeOK
  <2>7. NewChain'
    BY <1>1, <2>1, <2>5, <2>6 DEF NewChain
  <2> QED
    BY <2>3, <2>4, <2>7
<1>10. MemoryInv'
  BY <1>1, <1>9 DEF MemoryInv
<1>11. DiskInv'
  BY <1>1, <1>2, <1>5, <1>8 DEF DiskInv, FirstOf
<1> QED
  BY <1>6, <1>7, <1>10, <1>11 DEF IInv

LEMMA WriteEntryIInv ==
  ASSUME IInv, WriteEntry
  PROVE  IInv'
<1> USE DEF disk, cache, writer, past, faults
<1>1. PICK slot : slot = FinalSlot
  OBVIOUS
<1>2. PICK first : first = used[1]
  OBVIOUS
<1>3. /\ pc = "entry" /\ pc' = "data" /\ part' = 1
      /\ dir' = [dir EXCEPT ![slot].first = first]
      /\ PutEntry(slot)
      /\ chains' = [chains EXCEPT ![slot] = used]
      /\ UNCHANGED <<diskFat, data, fat, bytesFree, job, used, stored,
                     restarts, lost, wild>>
  BY <1>1, <1>2 DEF WriteEntry
<1>4. TypeOK /\ WriterInv /\ MemoryInv /\ DiskInv /\ used \in Seq(FatIndex)
  BY DEF IInv, TypeOK
<1>5. slot \in Slots /\ used # << >> /\ Len(used) \in Nat \ {0}
  BY <1>1, <1>3, <1>4 DEF WriterInv
<1>6. first \in FatIndex /\ first \in FatValues
  <2>1. 1 \in 1..Len(used)
    BY <1>5
  <2>2. used[1] \in FatIndex
    BY <1>4, <2>1, ElementOfSeq
  <2> QED
    BY <1>2, <2>2, Geometry
<1>7. /\ dir' \in [Slots -> DirSlot] /\ dir'[slot].first = first
      /\ \A s \in Slots \ {slot} : dir'[s] = dir[s]
  <2>1. dir \in [Slots -> DirSlot] /\ dir[slot] \in DirSlot
    BY <1>4, <1>5 DEF TypeOK
  <2>2. PICK new : new = [dir[slot] EXCEPT !.first = first]
    OBVIOUS
  <2>3. new \in DirSlot /\ new.first = first
    BY <1>6, <2>1, <2>2 DEF DirSlot
  <2>4. dir' = [dir EXCEPT ![slot] = new]
    BY <1>3, <2>2
  <2> QED
    BY <1>5, <2>1, <2>3, <2>4
<1>8. /\ diskDir' \in [Slots -> DirSlot] /\ refusals' \in 0..MaxRefusals
      /\ refusals' = 0 =>
           /\ refusals = 0 /\ diskDir'[slot] = dir'[slot]
           /\ \A s \in Slots \ {slot} : diskDir'[s] = diskDir[s]
  BY <1>3, <1>4, <1>5, <1>7, PutEntryFacts
<1>9. /\ chains' \in [Slots -> Seq(FatIndex)] /\ chains'[slot] = used
      /\ \A s \in Slots \ {slot} : chains'[s] = chains[s]
  BY <1>3, <1>4, <1>5 DEF TypeOK
<1>10. TypeOK'
  BY <1>3, <1>4, <1>7, <1>8, <1>9 DEF TypeOK, Phases
<1>11. FinalSlot' = slot /\ Unfinished = {slot} /\ Unfinished' = {}
  BY <1>1, <1>3 DEF FinalSlot, Unfinished
<1>12. WriterInv'
  BY <1>3, <1>4, <1>5, <1>11 DEF WriterInv
<1>13. ASSUME ~lost'
       PROVE  Linked' /\ Apart' /\ FirstsInMemory'
  <2>1. Linked /\ Apart /\ FirstsInMemory /\ NewChain
    BY <1>3, <1>4, <1>13 DEF MemoryInv
  <2>2. ASSUME NEW k \in 1..Len(used)
        PROVE  /\ used[k] > 1
               /\ fat[used[k]] = IF k = Len(used) THEN EndOfChain ELSE used[k + 1]
    <3>1. CASE k = Len(used)
      BY <1>3, <2>1, <3>1 DEF NewChain
    <3>2. CASE k # Len(used)
      <4>1. k \in 1..(Len(used) - 1)
        BY <1>5, <3>2
      <4> QED
        BY <2>1, <3>2, <4>1 DEF NewChain
    <3> QED
      BY <3>1, <3>2
  <2>3. Linked'
    <3> SUFFICES ASSUME NEW s \in Slots, NEW k \in 1..Len(chains'[s])
                 PROVE  /\ chains'[s][k] > 1
                        /\ fat[chains'[s][k]] =
                             IF k = Len(chains'[s]) THEN EndOfChain ELSE chains'[s][k + 1]
      BY <1>3 DEF Linked
    <3>1. CASE s = slot
      BY <1>9, <2>2, <3>1
    <3>2. CASE s # slot
      BY <1>9, <2>1, <3>2 DEF Linked
    <3> QED
      BY <3>1, <3>2
  <2>4. Apart'
    <3> SUFFICES ASSUME NEW s \in Slots, NEW t \in Slots, s # t,
                        NEW j \in 1..Len(chains'[s]), NEW k \in 1..Len(chains'[t])
                 PROVE  chains'[s][j] # chains'[t][k]
      BY DEF Apart
    <3>1. CASE s = slot
      BY <1>9, <2>1, <3>1 DEF NewChain
    <3>2. CASE t = slot
      BY <1>9, <2>1, <3>2 DEF NewChain
    <3>3. CASE s # slot /\ t # slot
      BY <1>9, <2>1, <3>3 DEF Apart
    <3> QED
      BY <3>1, <3>2, <3>3
  <2>5. FirstsInMemory'
    <3> SUFFICES ASSUME NEW s \in Slots, dir'[s].kind = "file"
                 PROVE  dir'[s].first = FirstOf(chains'[s])
      BY DEF FirstsInMemory, FirstOf
    <3>1. CASE s = slot
      BY <1>2, <1>5, <1>7, <1>9, <3>1 DEF FirstOf
    <3>2. CASE s # slot
      BY <1>7, <1>9, <1>11, <2>1, <3>2 DEF FirstsInMemory
    <3> QED
      BY <3>1, <3>2
  <2> QED
    BY <2>3, <2>4, <2>5
<1>14. MemoryInv'
  BY <1>3, <1>9, <1>11, <1>13 DEF MemoryInv
<1>15. ASSUME refusals' = 0
       PROVE  DiskInv'
  <2>1. refusals = 0 /\ ~lost' /\ fat' = diskFat'
    BY <1>3, <1>4, <1>8, <1>15 DEF DiskInv
  <2>2. \A s \in Slots : dir'[s] = diskDir'[s]
    BY <1>4, <1>7, <1>8, <1>11, <1>15 DEF DiskInv
  <2>3. ASSUME NEW s \in Slots, diskDir'[s].kind = "file"
        PROVE  diskDir'[s].first = FirstOf(chains'[s])
    <3>1. CASE s = slot
      BY <1>2, <1>5, <1>7, <1>9, <2>2, <3>1 DEF FirstOf
    <3>2. CASE s # slot
      BY <1>4, <1>8, <1>9, <1>15, <2>3, <3>2 DEF DiskInv
    <3> QED
      BY <3>1, <3>2
  <2> QED
    BY <2>1, <2>2, <2>3 DEF DiskInv, FirstOf
<1>16. DiskInv'
  BY <1>15 DEF DiskInv
<1> QED
  BY <1>10, <1>12, <1>14, <1>16 DEF IInv

\* A sector that goes to the disk, or does not
LEMMA PutDataFacts ==
  ASSUME TypeOK, NEW content \in Content, PutData(content)
  PROVE  /\ data' \in [Sectors -> Content] /\ refusals' \in 0..MaxRefusals
         /\ refusals' = 0 => refusals = 0
         /\ \A sector \in Sectors \ {DataSector} : data'[sector] = data[sector]
<1>3. PICK at : at = DataSector
  OBVIOUS
<1>4. CASE /\ data' = IF DataSector \in Sectors
                      THEN [data EXCEPT ![DataSector] = content] ELSE data
           /\ Reached
  <2>1. data' = IF at \in Sectors THEN [data EXCEPT ![at] = content] ELSE data
    BY <1>3, <1>4
  <2>2. /\ data' \in [Sectors -> Content]
        /\ \A sector \in Sectors \ {at} : data'[sector] = data[sector]
    BY <2>1 DEF TypeOK
  <2> QED
    BY <1>3, <1>4, <2>2 DEF Reached, TypeOK
<1>5. CASE UNCHANGED data /\ Refused
  <2>1. refusals' \in 0..MaxRefusals /\ refusals' # 0
    BY <1>5, GeometryAssumption DEF TypeOK, Refused
  <2> QED
    BY <1>5, <2>1 DEF TypeOK
<1> QED
  BY <1>4, <1>5 DEF PutData

LEMMA PartType ==
  ASSUME NEW name \in Seq(Texts), NEW k \in Nat, NEW padded \in BOOLEAN
  PROVE  [of |-> name, part |-> k, padded |-> padded] \in Content
BY DEF Content

LEMMA WriteDataFacts ==
  ASSUME IInv, WriteData
  PROVE  /\ data' \in [Sectors -> Content] /\ refusals' \in 0..MaxRefusals
         /\ refusals' = 0 => refusals = 0
         /\ \A sector \in Sectors \ {DataSector} : data'[sector] = data[sector]
<1>1. TypeOK /\ job.name \in Names /\ part \in Nat /\ TRUE \in BOOLEAN /\ FALSE \in BOOLEAN
  BY DEF IInv, WriterInv, TypeOK, WriteData
<1>2. job.name \in Seq(Texts)
  BY <1>1, NamesAssumption
<1>3. CASE PutData([of |-> job.name, part |-> part, padded |-> TRUE])
  BY <1>1, <1>2, <1>3, PartType, PutDataFacts
<1>4. CASE PutData([of |-> job.name, part |-> part, padded |-> FALSE])
  BY <1>1, <1>2, <1>4, PartType, PutDataFacts
<1>5. CASE UNCHANGED <<data, refusals>>
  BY <1>1, <1>5 DEF TypeOK
<1> QED
  BY <1>3, <1>4, <1>5 DEF WriteData

LEMMA WriteDataIInv ==
  ASSUME IInv, WriteData
  PROVE  IInv'
<1> USE DEF disk, cache, writer, past, faults
<1>1. /\ data' \in [Sectors -> Content] /\ refusals' \in 0..MaxRefusals
      /\ refusals' = 0 => refusals = 0
  BY WriteDataFacts
<1>2. TypeOK /\ WriterInv /\ MemoryInv /\ DiskInv /\ used \in Seq(FatIndex)
  BY DEF IInv, TypeOK
<1>3. /\ pc = "data" /\ pc' \in {"data", "pad"}
      /\ part' = part \/ (part < Len(used) /\ part' = part + 1)
      /\ UNCHANGED <<diskFat, diskDir, cache, job, used, past, restarts, lost, wild>>
  BY DEF WriteData
<1>4. TypeOK' /\ WriterInv'
  <2>1. part \in 1..Len(used) /\ Len(used) \in Nat /\ FinalSlot' = FinalSlot
    BY <1>2, <1>3 DEF WriterInv, FinalSlot
  <2>2. part' \in 1..Len(used) /\ part' \in Nat
    BY <1>3, <2>1
  <2> QED
    BY <1>1, <1>2, <1>3, <2>1, <2>2 DEF TypeOK, WriterInv, Phases
<1>5. Unfinished' = Unfinished /\ FinalSlot' = FinalSlot
  BY <1>3 DEF Unfinished, FinalSlot
<1>6. MemoryInv'
  BY <1>2, <1>3, <1>5 DEF MemoryInv, Linked, Apart, FirstsInMemory, FirstOf
<1>7. DiskInv'
  BY <1>1, <1>2, <1>3, <1>5 DEF DiskInv, FirstOf
<1> QED
  BY <1>4, <1>6, <1>7 DEF IInv

LEMMA PadDataFacts ==
  ASSUME IInv, PadData
  PROVE  /\ data' \in [Sectors -> Content] /\ refusals' \in 0..MaxRefusals
         /\ refusals' = 0 => refusals = 0
         /\ \A sector \in Sectors \ {DataSector} : data'[sector] = data[sector]
<1>1. TypeOK /\ job.name \in Names /\ part \in Nat /\ TRUE \in BOOLEAN
  BY DEF IInv, WriterInv, TypeOK, PadData
<1>2. job.name \in Seq(Texts)
  BY <1>1, NamesAssumption
<1>3. \/ PutData([of |-> job.name, part |-> part, padded |-> TRUE])
      \/ PutData(Mangled)
  BY DEF PadData
<1>4. [of |-> job.name, part |-> part, padded |-> TRUE] \in Content
  BY <1>1, <1>2, PartType
<1>5. Mangled \in Content
  <2>1. << >> \in Seq(Texts) /\ 0 \in Nat
    OBVIOUS
  <2> QED
    BY <1>1, <2>1, PartType DEF Mangled
<1> QED
  BY <1>1, <1>3, <1>4, <1>5, PutDataFacts

LEMMA PadDataIInv ==
  ASSUME IInv, PadData
  PROVE  IInv'
<1> USE DEF disk, cache, writer, past, faults
<1>1. /\ data' \in [Sectors -> Content] /\ refusals' \in 0..MaxRefusals
      /\ refusals' = 0 => refusals = 0
  BY PadDataFacts
<1>2. TypeOK /\ WriterInv /\ MemoryInv /\ DiskInv
  BY DEF IInv
<1>3. /\ pc = "pad" /\ pc' = "idle" /\ job' = NoJob /\ used' = << >> /\ part' = 0
      /\ bytesFree' = (bytesFree - SpaceTaken) % FreeMod
      /\ UNCHANGED <<diskFat, diskDir, fat, dir, chains, restarts, lost, wild>>
  BY DEF PadData
<1>4. bytesFree' \in Nat
  <2>1. Len(used) \in Nat /\ bytesFree \in Nat
    BY <1>2 DEF TypeOK
  <2>2. Len(used) * BytesPerSector \in Int
    BY <2>1, GeometryAssumption
  <2>3. SpaceTaken \in Int
    BY <2>2, GeometryAssumption DEF SpaceTaken
  <2>4. bytesFree - SpaceTaken \in Int
    BY <2>1, <2>3
  <2> QED
    BY <1>3, <2>4, GeometryAssumption
<1>5. NoJob \in [name : Names \cup {<< >>}, size : Nat, slot : Nat]
  BY DEF NoJob
<1>6. TypeOK'
  BY <1>1, <1>2, <1>3, <1>4, <1>5 DEF TypeOK, Phases
<1>7. WriterInv'
  BY <1>3 DEF WriterInv
<1>8. Unfinished' = {} /\ Unfinished = {}
  BY <1>3 DEF Unfinished
<1>9. MemoryInv'
  BY <1>2, <1>3, <1>8 DEF MemoryInv, Linked, Apart, FirstsInMemory, FirstOf
<1>10. DiskInv'
  BY <1>1, <1>2, <1>3, <1>8 DEF DiskInv, FirstOf
<1> QED
  BY <1>6, <1>7, <1>9, <1>10 DEF IInv

\* The driver forgets what it did, and reads the cache anew
LEMMA StartAgainType ==
  ASSUME TypeOK, StartAgain, diskFat' \in [FatIndex -> FatValues]
  PROVE  TypeOK' /\ WriterInv'
<1>1. /\ pc' = "idle" /\ job' = NoJob /\ used' = << >> /\ part' = 0
      /\ fat' = diskFat' /\ dir' = diskDir /\ bytesFree' = CountedFree(fat')
      /\ restarts' = restarts + 1 /\ restarts + refusals < MaxFaults
      /\ UNCHANGED <<diskDir, data, past, refusals, wild>>
  BY DEF StartAgain
<1>2. bytesFree' \in Nat
  BY <1>1, CountedType
<1>3. NoJob \in [name : Names \cup {<< >>}, size : Nat, slot : Nat]
  BY DEF NoJob
<1>4. restarts' \in 0..MaxFaults
  BY <1>1, GeometryAssumption DEF TypeOK
<1>5. lost' \in BOOLEAN
  BY DEF StartAgain
<1>6. pc' \in Phases /\ used' \in Seq(FatIndex) /\ part' \in Nat
  BY <1>1 DEF Phases
<1>7. chains' = chains
  BY <1>1 DEF past
<1>8. TypeOK'
  BY <1>1, <1>2, <1>3, <1>4, <1>5, <1>6, <1>7 DEF TypeOK
<1>9. WriterInv'
  BY <1>1 DEF WriterInv
<1> QED
  BY <1>8, <1>9

\* The chains survive, if the FAT on the disk only lacks or has half a mark
\* in an entry that is in none of them
LEMMA StartAgainIInv ==
  ASSUME IInv, StartAgain, diskFat' \in [FatIndex -> FatValues],
         refusals = 0 =>
           \A s \in Slots : \A k \in 1..Len(chains[s]) :
             diskFat'[chains[s][k]] = fat[chains[s][k]]
  PROVE  IInv'
<1>1. /\ pc' = "idle" /\ fat' = diskFat' /\ dir' = diskDir
      /\ lost' = (refusals > 0)
      /\ chains' = chains /\ diskDir' = diskDir /\ refusals' = refusals
  BY DEF StartAgain, past
<1>2. TypeOK /\ MemoryInv /\ DiskInv /\ refusals \in 0..MaxRefusals
  BY DEF IInv, TypeOK
<1>3. TypeOK' /\ WriterInv'
  BY <1>2, StartAgainType
<1>4. Unfinished' = {}
  BY <1>1 DEF Unfinished
<1>5. ASSUME refusals = 0
      PROVE  Linked' /\ Apart' /\ FirstsInMemory'
  <2>1. Linked /\ Apart
    BY <1>2, <1>5 DEF DiskInv, MemoryInv
  <2>2. ASSUME NEW s \in Slots, NEW k \in 1..Len(chains[s])
        PROVE  fat'[chains[s][k]] = fat[chains[s][k]]
    BY <1>1, <1>5
  <2>3. Linked'
    BY <1>1, <2>1, <2>2 DEF Linked
  <2>4. Apart'
    BY <1>1, <2>1 DEF Apart
  <2>5. FirstsInMemory'
    BY <1>1, <1>2, <1>5 DEF FirstsInMemory, DiskInv, FirstOf
  <2> QED
    BY <2>3, <2>4, <2>5
<1>6. lost' = FALSE <=> refusals = 0
  <2>1. (refusals > 0) = FALSE <=> refusals = 0
    BY <1>2, GeometryAssumption
  <2> QED
    BY <1>1, <2>1, Zenon
<1>7. MemoryInv'
  BY <1>1, <1>5, <1>6 DEF MemoryInv
<1>8. DiskInv'
  BY <1>1, <1>2, <1>4, <1>6 DEF DiskInv, FirstOf
<1> QED
  BY <1>3, <1>7, <1>8 DEF IInv

LEMMA RestartIInv ==
  ASSUME IInv, Restart
  PROVE  IInv'
<1>1. StartAgain /\ diskFat' = diskFat
  BY DEF Restart
<1>2. diskFat' \in [FatIndex -> FatValues]
  BY <1>1 DEF IInv, TypeOK
<1>3. refusals = 0 => diskFat' = fat
  BY <1>1 DEF IInv, DiskInv
<1> QED
  BY <1>1, <1>2, <1>3, StartAgainIInv

\* The cluster whose mark is being written, and the mark
LEMMA MarkFacts ==
  ASSUME IInv, MarksNext
  PROVE  /\ Last(used) \in FatIndex /\ NextMark \in FatValues
         /\ ~lost => \A s \in Slots : \A j \in 1..Len(chains[s]) :
                       Last(used) # chains[s][j]
<1>1. /\ TypeOK /\ MemoryInv /\ used \in Seq(FatIndex) /\ used # << >> /\ pc = "link"
  BY DEF IInv, TypeOK, MarksNext
<1>2. Last(used) = used[Len(used)] /\ Last(used) \in FatIndex /\ Len(used) \in Nat \ {0}
  BY <1>1, LastMember
<1>3. NextMark \in FatValues
  <2>1. CASE Len(used) = Needed(job.size)
    BY <2>1, Geometry DEF NextMark
  <2>2. CASE Len(used) # Needed(job.size)
    <3>1. FreeFrom # {}
      BY <2>2 DEF MarksNext
    <3>2. Min(FreeFrom) \in FatIndex
      BY <1>1, <3>1, NextFree
    <3> QED
      BY <2>2, <3>2, Geometry DEF NextMark
  <2> QED
    BY <2>1, <2>2
<1>4. ASSUME ~lost, NEW s \in Slots, NEW j \in 1..Len(chains[s])
      PROVE  Last(used) # chains[s][j]
  <2>1. NewChain
    BY <1>1, <1>4 DEF MemoryInv
  <2> QED
    BY <1>2, <2>1 DEF NewChain
<1> QED
  BY <1>2, <1>3, <1>4

LEMMA RestartInMarkIInv ==
  ASSUME IInv, RestartInMark
  PROVE  IInv'
<1>1. PICK c : c = Last(used)
  OBVIOUS
<1>2. PICK f : f = [fat EXCEPT ![c] = NextMark]
  OBVIOUS
<1>3. PICK n : diskFat' = SentFat(f, c, n)
  BY <1>1, <1>2 DEF RestartInMark
<1>4. MarksNext /\ StartAgain
  BY DEF RestartInMark
<1>5. /\ c \in FatIndex /\ NextMark \in FatValues
      /\ ~lost => \A s \in Slots : \A j \in 1..Len(chains[s]) : c # chains[s][j]
  BY <1>1, <1>4, MarkFacts
<1>6. /\ fat \in [FatIndex -> FatValues] /\ diskFat \in [FatIndex -> FatValues]
      /\ chains \in [Slots -> Seq(FatIndex)]
  BY DEF IInv, TypeOK
<1>7. /\ f \in [FatIndex -> FatValues]
      /\ \A e \in FatIndex \ {c} : f[e] = fat[e]
  BY <1>2, <1>5, <1>6
<1>8. diskFat' \in [FatIndex -> FatValues]
  BY <1>3, <1>6, <1>7, SentType
<1>9. ASSUME refusals = 0, NEW s \in Slots, NEW k \in 1..Len(chains[s])
      PROVE  diskFat'[chains[s][k]] = fat[chains[s][k]]
  <2>1. ~lost /\ fat = diskFat
    BY <1>9 DEF IInv, DiskInv
  <2>2. chains[s][k] \in FatIndex \ {c}
    <3>1. chains[s] \in Seq(FatIndex)
      BY <1>6
    <3>2. chains[s][k] \in FatIndex
      BY <3>1, ElementOfSeq
    <3> QED
      BY <1>5, <2>1, <3>2
  <2>3. \A e \in FatIndex \ {c} : SentFat(f, c, n)[e] = f[e]
    BY <1>5, <1>6, <1>7, <2>1, SentSame
  <2> QED
    BY <1>3, <1>7, <2>2, <2>3
<1> QED
  BY <1>4, <1>8, <1>9, StartAgainIInv

LEMMA NextIInv == IInv /\ [Next]_vars => IInv'
<1> SUFFICES ASSUME IInv, [Next]_vars PROVE IInv'
  OBVIOUS
<1>1. ASSUME NEW name \in Names, NEW size \in FileSizes, StartWrite(name, size)
      PROVE  IInv'
  BY <1>1, StartWriteIInv
<1>2. CASE WriteLong
  BY <1>2, WriteLongIInv
<1>3. CASE FillEntry
  BY <1>3, FillEntryIInv
<1>4. CASE LinkCluster
  BY <1>4, LinkClusterIInv
<1>5. CASE EndChain
  BY <1>5, EndChainIInv
<1>6. CASE WriteEntry
  BY <1>6, WriteEntryIInv
<1>7. CASE WriteData
  BY <1>7, WriteDataIInv
<1>8. CASE PadData
  BY <1>8, PadDataIInv
<1>9. CASE Restart
  BY <1>9, RestartIInv
<1>10. CASE RestartInMark
  BY <1>10, RestartInMarkIInv
<1>11. CASE UNCHANGED vars
  BY <1>11 DEF IInv, TypeOK, WriterInv, MemoryInv, DiskInv, Linked, Apart,
       FirstsInMemory, NewChain, Unfinished, FinalSlot, FirstOf, vars, disk,
       cache, writer, past, faults
<1> QED
  BY <1>1, <1>2, <1>3, <1>4, <1>5, <1>6, <1>7, <1>8, <1>9, <1>10, <1>11 DEF Next, Write

LEMMA SpecIInv == Spec => []IInv
BY InitIInv, NextIInv, PTL DEF Spec

-----------------------------------------------------------------------------
(* What follows *)

(***************************************************************************)
(* Every variable of the driver has its type.                              *)
(***************************************************************************)
THEOREM TypeAlwaysOK == Spec => []TypeOK
<1>1. IInv => TypeOK
  BY DEF IInv
<1> QED
  BY <1>1, SpecIInv, PTL

\* Chains that are linked and apart are whole, for any directory with their
\* first clusters
LEMMA WholeChains ==
  ASSUME TypeOK, Linked, Apart, NEW files, files \subseteq Slots, NEW d,
         \A s \in files : d[s].first = FirstOf(chains[s])
  PROVE  ChainsOf(files, d, fat)
<1>1. \A s \in files : Complete(s, d, fat)
  BY DEF Complete, Linked, FirstOf
<1>2. ASSUME NEW s \in files, NEW t \in files, s # t
      PROVE  Range(chains[s]) \cap Range(chains[t]) = {}
  <2>1. chains[s] \in Seq(FatIndex) /\ chains[t] \in Seq(FatIndex)
    BY DEF TypeOK
  <2>2. DOMAIN chains[s] = 1..Len(chains[s]) /\ DOMAIN chains[t] = 1..Len(chains[t])
    BY <2>1
  <2> QED
    BY <1>2, <2>2 DEF Range, Apart
<1> QED
  BY <1>1, <1>2 DEF ChainsOf

(***************************************************************************)
(* Wherever power is lost, each file of the disk's directory has a whole   *)
(* chain of its own on the disk (fat12.c:437-485).                         *)
(***************************************************************************)
THEOREM ChainsAlwaysOnDisk == Spec => []ChainsOnDisk
<1>1. ASSUME IInv, refusals = 0
      PROVE  ChainsOf(OnDisk, diskDir, diskFat)
  <2>1. /\ TypeOK /\ Linked /\ Apart /\ fat = diskFat
        /\ \A s \in Slots :
             diskDir[s].kind = "file" => diskDir[s].first = FirstOf(chains[s])
    BY <1>1 DEF IInv, MemoryInv, DiskInv
  <2>2. OnDisk \subseteq Slots /\ \A s \in OnDisk : diskDir[s].first = FirstOf(chains[s])
    BY <2>1 DEF OnDisk
  <2> QED
    BY <2>1, <2>2, WholeChains
<1>2. IInv => ChainsOnDisk
  BY <1>1 DEF ChainsOnDisk
<1> QED
  BY <1>2, SpecIInv, PTL

(***************************************************************************)
(* Whichever of its writes the disk refuses, unnoticed, the files of the   *)
(* directory in memory have whole chains of their own (fat12.c:437-502).   *)
(***************************************************************************)
THEOREM ChainsAlwaysInMemory == Spec => []ChainsInMemory
<1>1. ASSUME IInv, ~lost
      PROVE  ChainsOf(InMemory \ Unfinished, dir, fat)
  <2>1. TypeOK /\ Linked /\ Apart /\ FirstsInMemory
    BY <1>1 DEF IInv, MemoryInv
  <2>2. PICK files : files = InMemory \ Unfinished
    OBVIOUS
  <2>3. files \subseteq Slots /\ \A s \in files : dir[s].first = FirstOf(chains[s])
    BY <2>1, <2>2 DEF InMemory, FirstsInMemory
  <2>4. ChainsOf(files, dir, fat)
    BY <2>1, <2>3, WholeChains
  <2> QED
    BY <2>2, <2>4
<1>2. IInv => ChainsInMemory
  BY <1>1 DEF ChainsInMemory
<1> QED
  BY <1>2, SpecIInv, PTL

(***************************************************************************)
(* While no write was refused, the cache is what the disk holds, but for   *)
(* the final entry while its clusters are being found (fat12.c:448-485).   *)
(***************************************************************************)
THEOREM CacheAlwaysFollows == Spec => []CacheFollowsDisk
<1>1. IInv => CacheFollowsDisk
  BY DEF IInv, DiskInv, CacheFollowsDisk, Unfinished
<1> QED
  BY <1>1, SpecIInv, PTL

LEMMA PackedType ==
  ASSUME NEW f \in [FatIndex -> FatValues]
  PROVE  Packed(f) \in [0..(2 * FatEntries) -> Byte]
<1>1. ASSUME NEW k \in Nat
      PROVE  HalfByteOf(f, k) \in 0..15
  <2>1. CASE k \div 3 \in FatIndex
    <3>1. f[k \div 3] \in Nat /\ k % 3 \in 0..2
      <4>1. PICK i : i = k \div 3
        OBVIOUS
      <4>2. f[i] \in FatValues
        BY <2>1, <4>1
      <4>3. FatValues \subseteq Nat
        BY DEF FatValues
      <4>4. k % 3 \in 0..2
        OBVIOUS
      <4> QED
        BY <4>1, <4>2, <4>3, <4>4
    <3>2. Digit(f[k \div 3], k % 3) \in 0..15
      BY <3>1, DigitType
    <3> QED
      BY <2>1, <3>2 DEF HalfByteOf
  <2>2. CASE k \div 3 \notin FatIndex
    BY <2>2 DEF HalfByteOf
  <2> QED
    BY <2>1, <2>2
<1>2. ASSUME NEW i \in 0..(2 * FatEntries)
      PROVE  HalfByteOf(f, 2 * i) + 16 * HalfByteOf(f, 2 * i + 1) \in Byte
  <2>1. 2 * i \in Nat /\ 2 * i + 1 \in Nat
    BY GeometryAssumption
  <2>2. HalfByteOf(f, 2 * i) \in 0..15 /\ HalfByteOf(f, 2 * i + 1) \in 0..15
    BY <1>1, <2>1
  <2> QED
    BY <2>2 DEF Byte
<1> QED
  BY <1>2 DEF Packed

LEMMA InPacked ==
  ASSUME NEW c \in FatIndex
  PROVE  c \in Nat /\ Offset(c) + 1 \in 0..(2 * FatEntries)
<1>1. c \in Nat /\ FatEntries \in Nat /\ c < FatEntries
  BY GeometryAssumption DEF FatIndex
<1>2. c \div 2 \in Nat /\ c \div 2 <= c
  BY <1>1
<1>3. Offset(c) = c + c \div 2
  BY DEF Offset
<1> QED
  BY <1>1, <1>2, <1>3

(***************************************************************************)
(* The entries in the steps of the driver are what the bytes of the FAT    *)
(* hold, in memory and on the disk, at each mark (fat12.c:55-84).          *)
(***************************************************************************)
THEOREM BytesAlwaysAgree == Spec => []BytesAgree
<1>1. ASSUME IInv, MarksNext, NEW e \in FatIndex, NEW n \in 0..BytesSent
      PROVE  PackingSound(Packed(fat), Packed(diskFat), Last(used), e, NextMark, n)
  <2>1. PICK m : m = 2 * FatEntries
    OBVIOUS
  <2>2. m \in Nat
    BY <2>1, GeometryAssumption
  <2>3. Packed(fat) \in [0..m -> Byte] /\ Packed(diskFat) \in [0..m -> Byte]
    BY <1>1, <2>1, PackedType DEF IInv, TypeOK
  <2>4. Last(used) \in FatIndex /\ NextMark \in FatValues
    BY <1>1, MarkFacts
  <2>5. /\ Last(used) \in Nat /\ Offset(Last(used)) + 1 \in 0..m
        /\ e \in Nat /\ Offset(e) + 1 \in 0..m
    BY <2>1, <2>4, InPacked
  <2> QED
    BY <2>2, <2>3, <2>4, <2>5, PackingAlwaysSound
<1>2. IInv => BytesAgree
  BY <1>1 DEF BytesAgree
<1> QED
  BY <1>2, SpecIInv, PTL

LEMMA OtherSectors ==
  ASSUME NEW a \in Int, NEW b \in Int, a # b
  PROVE  a * SectorsPerCluster # b * SectorsPerCluster
<1>1. (a - b) * SectorsPerCluster # 0
  BY GeometryAssumption
<1>2. (a - b) * SectorsPerCluster = a * SectorsPerCluster - b * SectorsPerCluster
  BY GeometryAssumption
<1> QED
  BY <1>1, <1>2, GeometryAssumption

\* The data of a file changes only its own sectors
LEMMA DataOfOthers ==
  ASSUME IInv, pc \in {"data", "pad"}, ~lost,
         \A sector \in Sectors \ {DataSector} : data'[sector] = data[sector],
         NEW s \in Slots, s # FinalSlot, NEW sector \in SectorsOf(s)
  PROVE  data'[sector] = data[sector]
<1>1. /\ chains[FinalSlot] = used /\ part \in 1..Len(used) /\ FinalSlot \in Slots
      /\ Apart /\ used \in Seq(FatIndex) /\ chains[s] \in Seq(FatIndex)
  BY DEF IInv, TypeOK, WriterInv, MemoryInv
<1>2. PICK c : c \in Range(chains[s]) /\ sector = (c - 2) * SectorsPerCluster
  BY DEF SectorsOf
<1>3. PICK j \in 1..Len(chains[s]) : c = chains[s][j]
  <2>1. DOMAIN chains[s] = 1..Len(chains[s])
    BY <1>1
  <2> QED
    BY <1>2, <2>1 DEF Range
<1>4. PICK d : d = used[part]
  OBVIOUS
<1>5. c # d
  BY <1>1, <1>3, <1>4 DEF Apart
<1>6. c \in Int /\ d \in Int
  <2>1. c \in FatIndex /\ d \in FatIndex
    BY <1>1, <1>3, <1>4, ElementOfSeq
  <2> QED
    BY <2>1, Geometry
<1>7. (c - 2) * SectorsPerCluster # (d - 2) * SectorsPerCluster
  <2>1. c - 2 \in Int /\ d - 2 \in Int /\ c - 2 # d - 2
    BY <1>5, <1>6
  <2> QED
    BY <2>1, OtherSectors
<1>8. sector # DataSector
  BY <1>2, <1>4, <1>7 DEF DataSector
<1>9. sector \in Sectors
  BY DEF SectorsOf
<1> QED
  BY <1>8, <1>9

(***************************************************************************)
(* Writing a file changes no sector of another one that a directory shows  *)
(* (fat12.c:495-512), whenever power is lost and whatever it left behind,  *)
(* unless the disk had refused marks by then.                              *)
(***************************************************************************)
THEOREM OthersAlwaysKept == Spec => OthersKept
<1>1. ASSUME IInv, [Next]_vars, NEW s \in OnDisk \cup InMemory,
             ~lost, pc # "idle", s # FinalSlot, NEW sector \in SectorsOf(s)
      PROVE  data'[sector] = data[sector]
  <2> USE DEF disk, past
  <2>0. s \in Slots
    BY DEF OnDisk, InMemory
  <2>1. CASE WriteData
    BY <1>1, <2>0, <2>1, WriteDataFacts, DataOfOthers DEF WriteData
  <2>2. CASE PadData
    BY <1>1, <2>0, <2>2, PadDataFacts, DataOfOthers DEF PadData
  <2>3. ASSUME NEW name \in Names, NEW size \in FileSizes, StartWrite(name, size)
        PROVE  data' = data
    BY <2>3 DEF StartWrite
  <2>4. CASE WriteLong
    BY <2>4 DEF WriteLong, RunsOff
  <2>5. CASE FillEntry
    BY <2>5 DEF FillEntry, RunsOff
  <2>6. CASE LinkCluster
    BY <2>6 DEF LinkCluster, RunsOff
  <2>7. CASE EndChain
    BY <2>7 DEF EndChain
  <2>8. CASE WriteEntry
    BY <2>8 DEF WriteEntry
  <2>9. CASE Restart \/ RestartInMark
    BY <2>9 DEF Restart, RestartInMark, StartAgain
  <2>10. CASE UNCHANGED vars
    BY <2>10 DEF vars
  <2> QED
    BY <1>1, <2>1, <2>2, <2>3, <2>4, <2>5, <2>6, <2>7, <2>8, <2>9, <2>10 DEF Next, Write
<1>2. IInv /\ [Next]_vars =>
        [\A s \in OnDisk \cup InMemory : lost \/ pc = "idle" \/ s = FinalSlot \/
           \A sector \in SectorsOf(s) : data'[sector] = data[sector]]_vars
  BY <1>1
<1> QED
  BY <1>2, SpecIInv, PTL DEF Spec, OthersKept

-----------------------------------------------------------------------------
(* The files that a power loss or a refused write costs *)

\* A chain in a FAT, to the end
IsChain(f, chain) ==
  \A k \in 1..Len(chain) :
    /\ chain[k] > 1
    /\ f[chain[k]] = IF k = Len(chain) THEN EndOfChain ELSE chain[k + 1]

LEMMA OneLess ==
  \A L, d \in Nat : \A j : d < L /\ j = L - d /\ j # L =>
    L - (d - 1) = j + 1 /\ d - 1 \in Nat /\ d - 1 < L
OBVIOUS

\* A chain that reaches its end has no cluster twice
LEMMA ChainOnce ==
  ASSUME NEW f, NEW chain \in Seq(FatIndex), IsChain(f, chain)
  PROVE  \A i, j \in 1..Len(chain) : chain[i] = chain[j] => i = j
<1> DEFINE L == Len(chain)
           Twice(j) == \E i \in 1..(j - 1) : chain[i] = chain[j]
           S == {d \in Nat : d < L /\ Twice(L - d)}
<1>1. L \in Nat
  OBVIOUS
<1>2. S = {}
  <2> SUFFICES ASSUME S # {} PROVE FALSE
    OBVIOUS
  <2>1. PICK d : d = Min(S)
    OBVIOUS
  <2>2. d \in Nat /\ d < L /\ Twice(L - d) /\ \A e \in S : d <= e
    BY <2>1, SmallestMember
  <2>3. PICK j : j = L - d
    OBVIOUS
  <2>4. j \in 1..L
    BY <1>1, <2>2, <2>3
  <2>5. PICK i \in 1..(j - 1) : chain[i] = chain[j]
    BY <2>2, <2>3
  <2>6. i \in 1..L /\ i # L /\ i + 1 \in 1..L /\ f[chain[i]] = chain[i + 1]
    BY <1>1, <2>4, <2>5 DEF IsChain
  <2>7. chain[i + 1] \in FatIndex
    BY <2>6, ElementOfSeq
  <2>8. j # L
    BY <2>4, <2>5, <2>6, <2>7, Geometry DEF IsChain
  <2>9. j + 1 \in 1..L /\ f[chain[j]] = chain[j + 1]
    BY <1>1, <2>4, <2>8 DEF IsChain
  <2>10. chain[i + 1] = chain[j + 1]
    BY <2>5, <2>6, <2>9
  <2>11. i + 1 \in 1..((j + 1) - 1)
    BY <2>4, <2>5
  <2>12. Twice(j + 1)
    BY <2>10, <2>11
  <2>13. L - (d - 1) = j + 1 /\ d - 1 \in Nat /\ d - 1 < L
    BY <1>1, <2>2, <2>3, <2>8, OneLess, Zenon
  <2>14. d - 1 \in S
    BY <2>12, <2>13
  <2> QED
    BY <2>2, <2>14
<1>3. ASSUME NEW i \in 1..L, NEW j \in 1..L, chain[i] = chain[j], i < j
      PROVE  FALSE
  <2>1. i \in 1..(j - 1) /\ L - (L - j) = j /\ L - j \in Nat /\ L - j < L
    BY <1>1, <1>3
  <2>2. Twice(j)
    BY <1>3, <2>1
  <2>3. L - j \in S
    BY <2>1, <2>2
  <2> QED
    BY <1>2, <2>3
<1> QED
  BY <1>1, <1>3

SectorAt(c) == (c - 2) * SectorsPerCluster

\* The file that is being written is not counted yet
Current == IF pc \in {"link", "entry", "data", "pad"} THEN {FinalSlot} ELSE {}

Spoilt == {s \in InMemory \ Current : ~Intact(s)}

\* The first n parts of the new file are on the disk
Sent(n) ==
  \A k \in 1..n : SectorAt(used[k]) \in Sectors =>
    data[SectorAt(used[k])] = [of |-> job.name, part |-> k, padded |-> TRUE]

Missing ==
  \/ pc \in {"data", "pad"} /\ ~Sent(part - 1)
  \/ pc = "pad" /\ ~LastThere

LossInv ==
  /\ pc = "pad" => part = Len(used)
  /\ ~lost => Cardinality(Spoilt) + (IF Missing THEN 1 ELSE 0) <= restarts + refusals

LEMMA SlotsFinite == \A S \in SUBSET Slots : IsFiniteSet(S) /\ Cardinality(S) \in Nat
<1>1. IsFiniteSet(Slots)
  BY GeometryAssumption, FS_Interval DEF Slots
<1> QED
  BY <1>1, FS_Subset, FS_CardinalityType

LEMMA NotMore ==
  ASSUME NEW S \in SUBSET Slots, NEW T \in SUBSET S
  PROVE  /\ Cardinality(T) \in Nat /\ Cardinality(S) \in Nat
         /\ Cardinality(T) <= Cardinality(S)
BY SlotsFinite, FS_Subset

LEMMA OneMore ==
  ASSUME NEW S \in SUBSET Slots, NEW s \in Slots, NEW T \in SUBSET (S \cup {s})
  PROVE  /\ Cardinality(T) \in Nat /\ Cardinality(S) \in Nat
         /\ Cardinality(T) <= Cardinality(S) + 1
<1>1. S \cup {s} \in SUBSET Slots
  OBVIOUS
<1>2. Cardinality(T) <= Cardinality(S \cup {s}) /\ Cardinality(T) \in Nat
  BY <1>1, NotMore
<1>3. IsFiniteSet(S) /\ Cardinality(S) \in Nat
  BY SlotsFinite
<1>4. Cardinality(S \cup {s}) \in {Cardinality(S), Cardinality(S) + 1}
  BY <1>3, FS_AddElement
<1> QED
  BY <1>2, <1>3, <1>4

LEMMA Counts == IInv => /\ restarts \in Nat /\ refusals \in Nat /\ Spoilt \in SUBSET Slots
BY GeometryAssumption DEF IInv, TypeOK, Spoilt, InMemory

\* A file whose chain and sectors stay is as intact as it was
LEMMA IntactSame ==
  ASSUME IInv, NEW s \in Slots, chains'[s] = chains[s],
         \A sector \in SectorsOf(s) : data'[sector] = data[sector]
  PROVE  Intact(s)' <=> Intact(s)
<1>1. PICK chain : chain = chains[s]
  OBVIOUS
<1>2. chain \in Seq(FatIndex)
  BY <1>1 DEF IInv, TypeOK
<1>3. PICK inside : inside = {k \in 1..Len(chain) : SectorAt(chain[k]) \in Sectors}
  OBVIOUS
<1>4. ASSUME NEW k \in inside
      PROVE  data'[SectorAt(chain[k])] = data[SectorAt(chain[k])]
  <2>1. SectorAt(chain[k]) \in SectorsOf(s)
    BY <1>1, <1>2, <1>3 DEF SectorsOf, SectorAt, Range
  <2> QED
    BY <2>1
<1>5. Intact(s) <=>
        \A k \in inside :
          /\ data[SectorAt(chain[k])].part = k /\ data[SectorAt(chain[k])].padded
          /\ \A j \in inside : data[SectorAt(chain[j])].of = data[SectorAt(chain[k])].of
  BY <1>1, <1>3 DEF Intact, IntactIn, SectorAt
<1>6. Intact(s)' <=>
        \A k \in inside :
          /\ data'[SectorAt(chain[k])].part = k /\ data'[SectorAt(chain[k])].padded
          /\ \A j \in inside : data'[SectorAt(chain[j])].of = data'[SectorAt(chain[k])].of
  BY <1>1, <1>3 DEF Intact, IntactIn, SectorAt
<1> QED
  BY <1>4, <1>5, <1>6

\* A file of which all parts were written is intact
LEMMA SentIntact ==
  ASSUME NEW slot, NEW name,
         \A k \in 1..Len(chains[slot]) : SectorAt(chains[slot][k]) \in Sectors =>
           data[SectorAt(chains[slot][k])] = [of |-> name, part |-> k, padded |-> TRUE]
  PROVE  Intact(slot)
<1>1. PICK chain : chain = chains[slot]
  OBVIOUS
<1>2. PICK inside : inside = {k \in 1..Len(chain) : SectorAt(chain[k]) \in Sectors}
  OBVIOUS
<1>3. \A k \in inside :
        data[SectorAt(chain[k])] = [of |-> name, part |-> k, padded |-> TRUE]
  BY <1>1, <1>2
<1>4. Intact(slot) <=>
        \A k \in inside :
          /\ data[SectorAt(chain[k])].part = k /\ data[SectorAt(chain[k])].padded
          /\ \A j \in inside : data[SectorAt(chain[j])].of = data[SectorAt(chain[k])].of
  BY <1>1, <1>2 DEF Intact, IntactIn, SectorAt
<1>5. \A k \in inside : /\ data[SectorAt(chain[k])].of = name
                        /\ data[SectorAt(chain[k])].part = k
                        /\ data[SectorAt(chain[k])].padded
  <2> SUFFICES ASSUME NEW k \in inside
               PROVE  /\ data[SectorAt(chain[k])].of = name
                      /\ data[SectorAt(chain[k])].part = k
                      /\ data[SectorAt(chain[k])].padded
    OBVIOUS
  <2>1. PICK held : held = data[SectorAt(chain[k])]
    OBVIOUS
  <2>2. held = [of |-> name, part |-> k, padded |-> TRUE]
    BY <1>3, <2>1
  <2>3. held.of = name /\ held.part = k /\ held.padded = TRUE
    BY <2>2
  <2> QED
    BY <2>1, <2>3, Zenon
<1> QED
  BY <1>4, <1>5, Zenon

LEMMA SentIntactNext ==
  \A slot, name :
    (\A k \in 1..Len(chains'[slot]) : SectorAt(chains'[slot][k]) \in Sectors =>
       data'[SectorAt(chains'[slot][k])] = [of |-> name, part |-> k, padded |-> TRUE])
    => Intact(slot)'
<1>1. \A slot, name :
        (\A k \in 1..Len(chains[slot]) : SectorAt(chains[slot][k]) \in Sectors =>
           data[SectorAt(chains[slot][k])] = [of |-> name, part |-> k, padded |-> TRUE])
        => Intact(slot)
  BY SentIntact
<1>2. (\A slot, name :
         (\A k \in 1..Len(chains[slot]) : SectorAt(chains[slot][k]) \in Sectors =>
            data[SectorAt(chains[slot][k])] = [of |-> name, part |-> k, padded |-> TRUE])
         => Intact(slot))'
  BY <1>1, PTL
<1> QED
  BY <1>2 DEF SectorAt

LEMMA InitLoss == Init => LossInv
<1> SUFFICES ASSUME Init PROVE LossInv
  OBVIOUS
<1>1. PICK d \in Disks : dir = d.dir /\ data = d.data /\ chains = d.chains
  BY DEF Init
<1>2. pc = "idle" /\ restarts = 0 /\ refusals = 0
  BY DEF Init
<1>3. Spoilt = {}
  BY <1>1, <1>2, FilesAssumption DEF Spoilt, InMemory, Intact
<1> QED
  BY <1>2, <1>3, FS_EmptySet DEF LossInv, Missing

LEMMA LossSame ==
  ASSUME LossInv, UNCHANGED <<dir, data, chains, pc, used, job, part, lost, restarts, refusals>>
  PROVE  LossInv'
BY DEF LossInv, Missing, Sent, LastThere, DataSector, Spoilt, InMemory, Current, FinalSlot,
       Intact

\* Steps that spoil no file, nor the one being written
LEMMA LossKept ==
  ASSUME IInv, IInv', LossInv, lost' = lost, restarts' = restarts, refusals' >= refusals,
         pc' = "pad" => part' = Len(used'),
         ~lost => Spoilt' \subseteq Spoilt,
         ~lost => ~Missing'
  PROVE  LossInv'
<1>1. SUFFICES ASSUME ~lost
               PROVE  Cardinality(Spoilt') + 0 <= restarts' + refusals'
  BY DEF LossInv
<1>2. /\ Cardinality(Spoilt') \in Nat /\ Cardinality(Spoilt) \in Nat
      /\ Cardinality(Spoilt') <= Cardinality(Spoilt)
  BY <1>1, Counts, NotMore
<1>3. Cardinality(Spoilt) <= restarts + refusals
  BY <1>1, <1>2, Counts DEF LossInv
<1>4. refusals' \in Nat /\ restarts \in Nat /\ refusals \in Nat
  BY Counts, GeometryAssumption DEF IInv, TypeOK
<1> QED
  BY <1>2, <1>3, <1>4

\* Steps before the data
LEMMA EarlierLoss ==
  ASSUME IInv, IInv', LossInv,
         WriteLong \/ FillEntry \/ LinkCluster \/ EndChain \/ WriteEntry
  PROVE  LossInv'
<1> USE DEF disk, cache, writer, past, faults
<1>1. CASE wild' = TRUE /\ UNCHANGED <<disk, cache, writer, past, faults>>
  BY <1>1, LossSame
<1>2. CASE ~RunsOff
  <2>1. PICK final : final = FinalSlot
    OBVIOUS
  <2>2. /\ data' = data /\ job' = job /\ UNCHANGED <<lost, restarts>> /\ FinalSlot' = final
        /\ pc \in {"names", "fill", "link", "entry"}
        /\ pc' \in {"names", "fill", "link", "entry", "data"}
        /\ pc \in {"link", "entry"} => pc' \in {"link", "entry", "data"}
    BY <1>2, <2>1 DEF WriteLong, FillEntry, LinkCluster, EndChain, WriteEntry, FinalSlot
  <2>3. refusals' >= refusals
    <3>1. refusals' = refusals \/ Refused
      BY <1>2 DEF WriteLong, FillEntry, LinkCluster, EndChain, WriteEntry, PutEntry,
                  SetCluster, Reached
    <3>2. refusals \in Nat
      BY Counts
    <3> QED
      BY <3>1, <3>2 DEF Refused
  <2>4. dir \in [Slots -> DirSlot] /\ chains \in [Slots -> Seq(FatIndex)]
    BY DEF IInv, TypeOK
  <2>5. ASSUME NEW s \in Slots, dir'[s].kind = "file", s \notin Current'
        PROVE  dir[s].kind = "file" /\ s \notin Current /\ chains'[s] = chains[s]
    <3>1. Current = {} \/ (Current = {final} /\ Current' = {final})
      BY <2>1, <2>2 DEF Current
    <3>2. s \notin Current
      BY <2>5, <3>1
    <3>3. CASE WriteLong
      <4>1. chains' = chains /\ LongSlot \in Slots
            /\ \E e : e.kind = "long" /\ dir' = [dir EXCEPT ![LongSlot] = e]
        BY <1>2, <3>3 DEF WriteLong
      <4> QED
        BY <2>4, <2>5, <3>2, <4>1
    <3>4. CASE FillEntry
      <4>1. /\ chains' = chains /\ pc' = "link" /\ FinalSlot \in Slots
            /\ \E e : dir' = [dir EXCEPT ![FinalSlot] = e]
        BY <1>2, <3>4 DEF FillEntry
      <4>2. s # FinalSlot
        BY <2>1, <2>2, <2>5, <4>1 DEF Current
      <4> QED
        BY <2>4, <2>5, <3>2, <4>1, <4>2
    <3>5. CASE LinkCluster \/ EndChain
      <4>1. chains' = chains /\ dir' = dir
        BY <1>2, <3>5 DEF LinkCluster, EndChain
      <4> QED
        BY <2>5, <3>2, <4>1
    <3>6. CASE WriteEntry
      <4>1. /\ pc' = "data" /\ dir' = [dir EXCEPT ![FinalSlot].first = used[1]]
            /\ chains' = [chains EXCEPT ![FinalSlot] = used]
        BY <3>6 DEF WriteEntry
      <4>2. s # FinalSlot
        BY <2>1, <2>2, <2>5, <4>1 DEF Current
      <4> QED
        BY <2>4, <2>5, <3>2, <4>1, <4>2
    <3> QED
      BY <3>3, <3>4, <3>5, <3>6
  <2>6. Spoilt' \subseteq Spoilt
    <3>1. ASSUME NEW s \in Spoilt'
          PROVE  s \in Spoilt
      <4>1. s \in Slots /\ dir'[s].kind = "file" /\ s \notin Current' /\ ~(Intact(s)')
        BY DEF Spoilt, InMemory
      <4>2. dir[s].kind = "file" /\ s \notin Current /\ chains'[s] = chains[s]
        BY <2>5, <4>1
      <4>3. ~Intact(s)
        BY <2>2, <4>1, <4>2, IntactSame
      <4> QED
        BY <4>1, <4>2, <4>3 DEF Spoilt, InMemory
    <3> QED
      BY <3>1
  <2>7. ~Missing'
    <3>1. CASE pc' # "data"
      BY <2>2, <3>1 DEF Missing
    <3>2. CASE pc' = "data"
      <4>1. part' = 1
        BY <1>2, <3>2 DEF WriteLong, FillEntry, LinkCluster, EndChain, WriteEntry
      <4> QED
        BY <3>2, <4>1 DEF Missing, Sent
    <3> QED
      BY <3>1, <3>2
  <2> QED
    BY <2>2, <2>3, <2>6, <2>7, LossKept
<1> QED
  BY <1>1, <1>2 DEF RunsOff

\* One more part goes to the disk, or is refused
LEMMA PartSent ==
  ASSUME IInv, ~lost, pc \in {"data", "pad"}, Sent(part - 1), NEW padded \in BOOLEAN,
         \/ data' = data
         \/ PutData([of |-> job.name, part |-> part, padded |-> padded])
  PROVE  /\ \A k \in 1..(part - 1) : SectorAt(used[k]) \in Sectors =>
              data'[SectorAt(used[k])] = [of |-> job.name, part |-> k, padded |-> TRUE]
         /\ PutData([of |-> job.name, part |-> part, padded |-> padded]) =>
              \/ Refused
              \/ SectorAt(used[part]) \in Sectors =>
                   data'[SectorAt(used[part])] =
                     [of |-> job.name, part |-> part, padded |-> padded]
<1>1. /\ chains[FinalSlot] = used /\ part \in 1..Len(used) /\ FinalSlot \in Slots
      /\ Linked /\ used \in Seq(FatIndex) /\ data \in [Sectors -> Content]
  BY DEF IInv, TypeOK, WriterInv, MemoryInv
<1>2. IsChain(fat, used)
  BY <1>1 DEF Linked, IsChain
<1>3. PICK at, content : /\ at = SectorAt(used[part])
                         /\ content = [of |-> job.name, part |-> part, padded |-> padded]
  OBVIOUS
<1>4. at = DataSector
  BY <1>3 DEF SectorAt, DataSector
<1>5. data' = data \/ (at \in Sectors /\ data' = [data EXCEPT ![at] = content])
  BY <1>3, <1>4 DEF PutData
<1>6. PutData(content) => Refused \/ (at \in Sectors => data'[at] = content)
  BY <1>1, <1>4 DEF PutData
<1>7. ASSUME NEW k \in 1..(part - 1), SectorAt(used[k]) \in Sectors
      PROVE  data'[SectorAt(used[k])] = [of |-> job.name, part |-> k, padded |-> TRUE]
  <2>1. PICK b, c : b = used[k] /\ c = used[part]
    OBVIOUS
  <2>2. k \in 1..Len(used) /\ k # part
    BY <1>1
  <2>3. b # c
    BY <1>1, <1>2, <2>1, <2>2, ChainOnce
  <2>4. b \in Int /\ c \in Int
    <3>1. b \in FatIndex /\ c \in FatIndex
      BY <1>1, <2>1, <2>2, ElementOfSeq
    <3> QED
      BY <3>1, Geometry
  <2>5. SectorAt(b) # SectorAt(c)
    <3>1. b - 2 \in Int /\ c - 2 \in Int /\ b - 2 # c - 2
      BY <2>3, <2>4
    <3> QED
      BY <3>1, OtherSectors DEF SectorAt
  <2>6. data'[SectorAt(b)] = data[SectorAt(b)]
    BY <1>1, <1>3, <1>5, <1>7, <2>1, <2>5
  <2> QED
    BY <1>7, <2>1, <2>6 DEF Sent
<1> QED
  BY <1>3, <1>6, <1>7

\* The other files are not spoilt by the data
LEMMA OthersIntact ==
  ASSUME IInv, ~lost, WriteData \/ PadData, NEW s \in InMemory, s # FinalSlot
  PROVE  Intact(s)' <=> Intact(s)
<1>1. /\ pc \in {"data", "pad"} /\ chains' = chains /\ s \in Slots
      /\ \A sector \in Sectors \ {DataSector} : data'[sector] = data[sector]
  BY WriteDataFacts, PadDataFacts DEF WriteData, PadData, past, InMemory
<1>2. \A sector \in SectorsOf(s) : data'[sector] = data[sector]
  BY <1>1, DataOfOthers
<1> QED
  BY <1>1, <1>2, IntactSame

LEMMA RefusedMore ==
  ASSUME IInv, refusals' = refusals \/ Refused
  PROVE  /\ refusals' \in Nat /\ refusals' >= refusals
         /\ Refused => refusals' = refusals + 1
BY Counts DEF Refused

LEMMA DataLoss ==
  ASSUME IInv, LossInv, WriteData
  PROVE  LossInv'
<1>1. /\ pc = "data" /\ job' = job /\ used' = used /\ UNCHANGED <<lost, restarts, dir, chains>>
      /\ \/ /\ part < Len(used) /\ part' = part + 1 /\ pc' = pc
            /\ PutData([of |-> job.name, part |-> part, padded |-> TRUE])
         \/ /\ part = Len(used) /\ part' = part /\ pc' = "pad"
            /\ \/ data' = data /\ refusals' = refusals /\ job.size % BytesPerSector = 0
               \/ PutData([of |-> job.name, part |-> part, padded |-> FALSE])
  BY DEF WriteData, past, cache
<1>2. SUFFICES ASSUME ~lost
               PROVE  Cardinality(Spoilt') + (IF Missing' THEN 1 ELSE 0) <= restarts' + refusals'
  <2>1. pc' = "pad" => part' = Len(used')
    BY <1>1
  <2> QED
    BY <1>1, <2>1 DEF LossInv
<1>3. refusals' = refusals \/ Refused
  BY <1>1 DEF PutData, Reached
<1>4. Spoilt' = Spoilt
  <2>1. Current' = Current /\ Current = {FinalSlot} /\ InMemory' = InMemory
    BY <1>1 DEF Current, FinalSlot, InMemory
  <2>2. \A s \in InMemory \ Current : Intact(s)' <=> Intact(s)
    BY <1>2, <2>1, OthersIntact
  <2> QED
    BY <2>1, <2>2 DEF Spoilt
<1>5. Missing' => Missing \/ Refused
  <2> SUFFICES ASSUME ~Missing, ~Refused PROVE ~Missing'
    OBVIOUS
  <2>1. Sent(part - 1) /\ part \in Nat /\ TRUE \in BOOLEAN /\ FALSE \in BOOLEAN
    BY <1>1 DEF Missing, IInv, TypeOK
  <2>2. ASSUME NEW k \in 1..(part' - 1), SectorAt(used[k]) \in Sectors
        PROVE  data'[SectorAt(used[k])] = [of |-> job.name, part |-> k, padded |-> TRUE]
    <3>1. CASE /\ part' = part + 1
               /\ PutData([of |-> job.name, part |-> part, padded |-> TRUE])
      <4>1. k \in 1..(part - 1) \/ k = part
        BY <2>1, <3>1
      <4> QED
        BY <1>1, <1>2, <2>1, <2>2, <3>1, <4>1, PartSent
    <3>2. CASE /\ part' = part
               /\ data' = data \/ PutData([of |-> job.name, part |-> part, padded |-> FALSE])
      BY <1>1, <1>2, <2>1, <2>2, <3>2, PartSent
    <3> QED
      BY <1>1, <3>1, <3>2
  <2>3. pc' = "pad" => LastThere'
    <3>1. PICK at : at = DataSector
      OBVIOUS
    <3>2. pc' = "pad" => DataSector' = at /\ at = SectorAt(used[part]) /\ part' = part
      BY <1>1, <3>1 DEF DataSector, SectorAt
    <3>3. CASE job.size % BytesPerSector = 0
      BY <1>1, <3>3 DEF LastThere
    <3>4. CASE pc' = "pad" /\ PutData([of |-> job.name, part |-> part, padded |-> FALSE])
      <4>1. at \in Sectors => data'[at] = [of |-> job.name, part |-> part, padded |-> FALSE]
        BY <1>1, <1>2, <2>1, <3>2, <3>4, PartSent
      <4>2. at \in Sectors => data'[at].of = job.name /\ data'[at].part = part
        BY <4>1
      <4> QED
        BY <1>1, <3>2, <3>4, <4>2 DEF LastThere
    <3> QED
      BY <1>1, <3>3, <3>4
  <2> QED
    BY <1>1, <2>2, <2>3 DEF Missing, Sent
<1>6. /\ Cardinality(Spoilt) + (IF Missing THEN 1 ELSE 0) <= restarts + refusals
      /\ Cardinality(Spoilt) \in Nat /\ restarts \in Nat /\ refusals \in Nat
  BY <1>2, Counts, SlotsFinite DEF LossInv
<1>7. refusals' \in Nat /\ refusals' >= refusals /\ (Refused => refusals' = refusals + 1)
  BY <1>3, RefusedMore
<1> QED
  BY <1>1, <1>4, <1>5, <1>6, <1>7

LEMMA PadLoss ==
  ASSUME IInv, LossInv, PadData
  PROVE  LossInv'
<1>1. /\ pc = "pad" /\ pc' = "idle" /\ UNCHANGED <<lost, restarts, dir, chains>>
      /\ LastThere => PutData([of |-> job.name, part |-> part, padded |-> TRUE])
      /\ \E content : PutData(content)
  BY DEF PadData
<1>2. SUFFICES ASSUME ~lost
               PROVE  Cardinality(Spoilt') <= restarts + refusals'
  <2>1. Cardinality(Spoilt') <= restarts + refusals' =>
          Cardinality(Spoilt') + 0 <= restarts + refusals'
    <3>1. Spoilt' \subseteq Slots
      BY <1>1 DEF Spoilt, InMemory
    <3>2. Cardinality(Spoilt') \in Nat
      BY <3>1, SlotsFinite
    <3> QED
      BY <3>2
  <2> QED
    BY <1>1, <2>1 DEF LossInv, Missing
<1>3. refusals' = refusals \/ Refused
  BY <1>1 DEF PutData, Reached
<1>4. PICK final : final = FinalSlot
  OBVIOUS
<1>5. /\ final \in Slots /\ chains[final] = used /\ part = Len(used) /\ part \in Nat
      /\ Current = {final} /\ Current' = {} /\ InMemory' = InMemory
  BY <1>1, <1>2, <1>4 DEF IInv, TypeOK, WriterInv, MemoryInv, LossInv, Current, InMemory
<1>6. ASSUME NEW s \in Spoilt', s # final
      PROVE  s \in Spoilt
  <2>1. s \in InMemory /\ ~(Intact(s)')
    BY <1>5 DEF Spoilt
  <2>2. ~Intact(s)
    BY <1>2, <1>4, <1>6, <2>1, OthersIntact
  <2> QED
    BY <1>5, <1>6, <2>1, <2>2 DEF Spoilt
<1>7. final \in Spoilt' => Missing \/ Refused
  <2> SUFFICES ASSUME ~Missing, ~Refused PROVE final \notin Spoilt'
    OBVIOUS
  <2>1. Sent(part - 1) /\ LastThere /\ TRUE \in BOOLEAN
    BY <1>1 DEF Missing
  <2>2. ASSUME NEW k \in 1..Len(used), SectorAt(used[k]) \in Sectors
        PROVE  data'[SectorAt(used[k])] = [of |-> job.name, part |-> k, padded |-> TRUE]
    <3>1. k \in 1..(part - 1) \/ k = part
      BY <1>5
    <3> QED
      BY <1>1, <1>2, <2>1, <2>2, <3>1, PartSent
  <2>3. PICK name : name = job.name
    OBVIOUS
  <2>4. \A k \in 1..Len(chains'[final]) : SectorAt(chains'[final][k]) \in Sectors =>
          data'[SectorAt(chains'[final][k])] = [of |-> name, part |-> k, padded |-> TRUE]
    BY <1>1, <1>5, <2>2, <2>3
  <2>5. Intact(final)'
    BY <2>4, SentIntactNext
  <2> QED
    BY <2>5 DEF Spoilt
<1>8. /\ Cardinality(Spoilt) + (IF Missing THEN 1 ELSE 0) <= restarts + refusals
      /\ Cardinality(Spoilt) \in Nat /\ restarts \in Nat /\ refusals \in Nat
      /\ Spoilt \in SUBSET Slots
  BY <1>2, Counts, SlotsFinite DEF LossInv
<1>9. refusals' \in Nat /\ refusals' >= refusals /\ (Refused => refusals' = refusals + 1)
  BY <1>3, RefusedMore
<1>10. CASE final \in Spoilt'
  <2>1. Spoilt' \in SUBSET (Spoilt \cup {final})
    BY <1>6
  <2>2. Cardinality(Spoilt') \in Nat /\ Cardinality(Spoilt') <= Cardinality(Spoilt) + 1
    BY <1>5, <1>8, <2>1, OneMore
  <2> QED
    BY <1>7, <1>8, <1>9, <1>10, <2>2
<1>11. CASE final \notin Spoilt'
  <2>1. Spoilt' \in SUBSET Spoilt
    BY <1>6, <1>11
  <2>2. Cardinality(Spoilt') \in Nat /\ Cardinality(Spoilt') <= Cardinality(Spoilt)
    BY <1>8, <2>1, NotMore
  <2> QED
    BY <1>8, <1>9, <2>2
<1> QED
  BY <1>10, <1>11

\* A power loss costs at most the file that is being written
LEMMA AgainLoss ==
  ASSUME IInv, LossInv, StartAgain
  PROVE  LossInv'
<1>1. /\ pc' = "idle" /\ dir' = diskDir /\ lost' = (refusals > 0) /\ refusals' = refusals
      /\ UNCHANGED <<data, chains>> /\ restarts' = restarts + 1
  BY DEF StartAgain, past
<1>2. restarts \in Nat /\ refusals \in Nat /\ Spoilt \in SUBSET Slots
      /\ Cardinality(Spoilt) \in Nat
  BY Counts, SlotsFinite
<1>3. CASE refusals = 0
  <2>1. ~lost /\ \A s \in Slots : s \notin Unfinished => dir[s] = diskDir[s]
    BY <1>3 DEF IInv, DiskInv
  <2>2. Cardinality(Spoilt) <= restarts + refusals
    BY <1>2, <2>1 DEF LossInv
  <2>3. Unfinished \subseteq Current /\ Current' = {}
    BY <1>1 DEF Unfinished, Current
  <2>4. ASSUME NEW s \in Spoilt', s \notin Current
        PROVE  s \in Spoilt
    <3>1. s \in Slots /\ diskDir[s].kind = "file" /\ ~Intact(s)
      BY <1>1 DEF Spoilt, InMemory, Intact
    <3> QED
      BY <2>1, <2>3, <2>4, <3>1 DEF Spoilt, InMemory
  <2>5. /\ Cardinality(Spoilt') \in Nat
        /\ Cardinality(Spoilt') <= Cardinality(Spoilt) + 1
    <3>1. CASE Current = {}
      <4>1. Spoilt' \in SUBSET Spoilt
        BY <2>4, <3>1
      <4> QED
        BY <1>2, <4>1, NotMore
    <3>2. CASE Current # {}
      <4>1. PICK final : final = FinalSlot
        OBVIOUS
      <4>2. Current = {final} /\ final \in Slots
        BY <3>2, <4>1 DEF Current, IInv, WriterInv
      <4>3. Spoilt' \in SUBSET (Spoilt \cup {final})
        BY <2>4, <4>2
      <4> QED
        BY <1>2, <4>2, <4>3, OneMore
    <3> QED
      BY <3>1, <3>2
  <2>6. Cardinality(Spoilt') + 0 <= restarts' + refusals'
    BY <1>1, <1>2, <2>2, <2>5
  <2> QED
    BY <1>1, <2>6 DEF LossInv, Missing
<1>4. CASE refusals # 0
  <2>1. lost'
    <3>1. refusals > 0
      BY <1>2, <1>4
    <3> QED
      BY <1>1, <3>1, Zenon
  <2> QED
    BY <1>1, <2>1 DEF LossInv
<1> QED
  BY <1>3, <1>4

LEMMA NextLoss == IInv /\ IInv' /\ LossInv /\ [Next]_vars => LossInv'
<1> SUFFICES ASSUME IInv, IInv', LossInv, [Next]_vars PROVE LossInv'
  OBVIOUS
<1> USE DEF disk, cache, writer, past, faults
<1>1. ASSUME NEW name \in Names, NEW size \in FileSizes, StartWrite(name, size)
      PROVE  LossInv'
  <2>1. /\ pc = "idle" /\ pc' \in {"idle", "names"}
        /\ UNCHANGED <<dir, data, chains, lost, restarts, refusals>>
    BY <1>1 DEF StartWrite
  <2>2. Spoilt' = Spoilt
    BY <2>1 DEF Spoilt, InMemory, Current, Intact
  <2>3. refusals \in Nat
    BY Counts
  <2> QED
    BY <2>1, <2>2, <2>3, LossKept DEF Missing
<1>2. CASE WriteLong \/ FillEntry \/ LinkCluster \/ EndChain \/ WriteEntry
  BY <1>2, EarlierLoss
<1>3. CASE WriteData
  BY <1>3, DataLoss
<1>4. CASE PadData
  BY <1>4, PadLoss
<1>5. CASE Restart \/ RestartInMark
  BY <1>5, AgainLoss DEF Restart, RestartInMark
<1>6. CASE UNCHANGED vars
  BY <1>6, LossSame DEF vars
<1> QED
  BY <1>1, <1>2, <1>3, <1>4, <1>5, <1>6 DEF Next, Write

(***************************************************************************)
(* Between writes no more files have lost their contents than power was    *)
(* lost or writes were refused (fat12.c:485-512), on every disk, wherever  *)
(* the losses and the refusals come, until the start after a refusal.      *)
(***************************************************************************)
THEOREM AtMostOneLostEach == Spec => []OneLostEach
<1>1. IInv /\ LossInv => OneLostEach
  <2> SUFFICES ASSUME IInv, LossInv, pc = "idle", ~lost
               PROVE  Cardinality({s \in InMemory : ~Intact(s)}) <= restarts + refusals
    BY DEF OneLostEach
  <2>1. Spoilt = {s \in InMemory : ~Intact(s)} /\ ~Missing
    BY DEF Spoilt, Current, Missing
  <2>2. Cardinality(Spoilt) + 0 <= restarts + refusals /\ Cardinality(Spoilt) \in Nat
    BY <2>1, Counts, SlotsFinite DEF LossInv
  <2> QED
    BY <2>1, <2>2, Counts
<1> QED
  BY <1>1, InitLoss, NextLoss, SpecIInv, PTL DEF Spec
=============================================================================
