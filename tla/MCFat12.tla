------------------------------- MODULE MCFat12 -------------------------------
(* Instances of Fat12 small enough for TLC. *)
EXTENDS Fat12

MCTexts == {"a", "b", "c", "d", "e"}
MCFull  == {"a", "b"}
MCShort == {<<"c">>, <<"d">>, <<"e">>}
\* a short name, one of two parts, and one whose two parts are full
MCLong  == {<<"c">>, <<"a", "c">>, <<"a", "b">>}
\* one, two and three parts
MCAnyLength == {<<"c">>, <<"a", "c">>, <<"a", "b", "c">>}

\* less than a sector, a whole one, and one and a half
MCFileSizes == {1, 2, 3}

\* the media and end-of-chain marks of entries 0 and 1
FatOf(links) == [c \in FatIndex |-> IF c = 0 THEN 4080 ELSE IF c = 1 THEN 4095
                 ELSE IF c \in DOMAIN links THEN links[c] ELSE Free]
DirOf(slots) == [s \in Slots |-> IF s + 1 \in DOMAIN slots THEN slots[s + 1]
                 ELSE EmptySlot]
Blank == [sector \in Sectors |-> [of |-> << >>, part |-> 0, padded |-> FALSE]]

Formatted == [fat |-> FatOf(<< >>), dir |-> DirOf(<< >>), data |-> Blank,
              chains |-> [s \in Slots |-> << >>], stored |-> {}]

\* a label, an empty file under a short name, and one of two clusters that
\* are not next to each other under a long name, which the short one follows
Installed ==
  [fat    |-> FatOf(2 :> 4 @@ 4 :> EndOfChain),
   dir    |-> DirOf(<<[EmptySlot EXCEPT !.kind = "label"],
                      [kind |-> "file", text |-> "e", first |-> 0, size |-> 0],
                      [EmptySlot EXCEPT !.kind = "long", !.text = "c"],
                      [kind |-> "file", text |-> "d", first |-> 2, size |-> 3]>>),
   data   |-> [Blank EXCEPT ![0] = [of |-> <<"c">>, part |-> 1, padded |-> TRUE],
                            ![2] = [of |-> <<"c">>, part |-> 2, padded |-> TRUE]],
   chains |-> [s \in Slots |-> IF s = 3 THEN <<2, 4>> ELSE << >>],
   stored |-> {}]

\* a file under a short name comes last
ShortLast == [Formatted EXCEPT !.dir = DirOf(<<
  [kind |-> "file", text |-> "e", first |-> 0, size |-> 0]>>)]

MCTidy  == {Formatted, Installed}
MCRough == {Installed, ShortLast}
=============================================================================
