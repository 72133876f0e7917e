------------------------------- MODULE Screen -------------------------------
(***************************************************************************)
(* What printing does to video memory and to the cursor (screen.c).  An    *)
(* offset of the code counts two bytes a cell; here cells are counted.     *)
(* The cursor lives in two registers of the video controller, a byte each, *)
(* which hold any number, on the screen or not.                            *)
(***************************************************************************)
EXTENDS Integers, SequencesExt

CONSTANTS
  Rows, Cols,  \* 25 and 80
  ByteMod,     \* 2^8
  Symbols      \* what else is printed, besides the characters named below

ASSUME ScreenAssumption ==
  /\ Rows \in Nat \ {0, 1} /\ Cols \in Nat \ {0}
  /\ ByteMod \in Nat \ {0} /\ ByteMod * ByteMod > Rows * Cols

NUL       == "nul"
Newline   == "newline"
Backspace == "backspace"
Blank     == " "
Error     == "E"
Chars     == Symbols \cup {NUL, Newline, Backspace, Blank, Error}

CursorMod == ByteMod * ByteMod

Size   == Rows * Cols
Cells  == 0..(Size - 1)
Screen == [cells : [Cells -> Chars], cursor : 0..(CursorMod - 1)]

OnScreen(s) == s.cursor < Size

\* The red E in the last cell; nothing else happens, the cursor stays
Complain(s) == [s EXCEPT !.cells[Size - 1] = Error]

ScrollUp(s) ==
  [cells  |-> [i \in Cells |->
                 IF i + Cols < Size THEN s.cells[i + Cols] ELSE NUL],
   cursor |-> s.cursor - Cols]

\* A mutant: the screen scrolls one character too late
SettleLate(s) == IF s.cursor <= Size THEN s ELSE ScrollUp(s)

\* The end of print_char
Settle(s) == IF OnScreen(s) THEN s ELSE ScrollUp(s)

\* print_char at the cursor, as kprint calls it; NUL ends the string
PrintChar(s, c) ==
  IF c = NUL THEN s
  ELSE IF ~ OnScreen(s) THEN Complain(s)
  ELSE IF c = Newline
    THEN Settle([s EXCEPT !.cursor = (s.cursor \div Cols + 1) * Cols])
  ELSE IF c = Backspace THEN [s EXCEPT !.cells[s.cursor] = Blank]
  ELSE Settle([cells |-> [s.cells EXCEPT ![s.cursor] = c],
               cursor |-> s.cursor + 1])

\* One character after the other
kprint(s, text) ==
  LET printed[n \in 0..Len(text)] ==
        IF n = 0 THEN s ELSE PrintChar(printed[n - 1], text[n])
  IN  printed[Len(text)]

\* Before cell 0 the column is negative, which print_char takes for "here"
kprint_backspace(s) ==
  LET at == IF s.cursor = 0 THEN 0 ELSE s.cursor - 1
  IN  IF at >= Size THEN Complain(s)
      ELSE [cells |-> [s.cells EXCEPT ![at] = Blank], cursor |-> at]

\* A mutant: the registers take any number
MoveCursorFar(s, n) == [s EXCEPT !.cursor = s.cursor + n]

\* set_cursor_offset(get_cursor_offset() + 2 * n)
MoveCursor(s, n) == [s EXCEPT !.cursor = (s.cursor + n) % CursorMod]

-----------------------------------------------------------------------------
(* The registers one by one: number 14 is the high byte, 15 the low one *)

Registers == {14, 15}

Byte(at, register) == IF register = 14 THEN at \div ByteMod ELSE at % ByteMod

SetByte(at, register, byte) ==
  IF register = 14 THEN (byte * ByteMod) + (at % ByteMod)
                   ELSE (at - (at % ByteMod)) + byte
=============================================================================
