------------------------------ MODULE Keyboard ------------------------------
(***************************************************************************)
(* The keyboard's interrupt handler (keyboard.c) without the key ENTER,    *)
(* which Console adds: the line in key_buffer, a C string in an array      *)
(* whose bytes after the terminator are left over from lines before, and   *)
(* its echo on the screen.                                                 *)
(*                                                                         *)
(* Each action is the handler's work for one scancode.                     *)
(***************************************************************************)
EXTENDS Screen, FiniteSetsExt

CONSTANTS
  BufferSize,  \* 256
  TabWidth,    \* 5
  TypingKeys,  \* scancodes that reach the default case, for instance F1 too
  Low, High    \* ascii_low and ascii_high: the characters that each may give
               \* without and with shift.  Both arrays are shorter than the
               \* index: past them, what lies there

ASSUME KeyboardAssumption ==
  /\ BufferSize \in Nat \ {0} /\ TabWidth \in Nat
  /\ Low \in [TypingKeys -> (SUBSET Chars) \ {{}}]
  /\ High \in [TypingKeys -> (SUBSET Chars) \ {{}}]

VARIABLES
  key_buffer,
  keys_down,          \* of the two shift keys; nothing reads the others
  NUM_LOCK_ENABLED,
  screen,             \* video memory and cursor
  wild,               \* "no", or why what the machine does is undefined
  line,               \* history: what was typed since ENTER
  strayed             \* history: the cursor was moved away from its end

keyboardVars == <<key_buffer, keys_down, NUM_LOCK_ENABLED, screen, wild,
                  line, strayed>>

Shifts == {"lshift", "rshift"}
Bytes  == 0..(BufferSize - 1)

-----------------------------------------------------------------------------
(* string.c *)

strlen(b) == Min({i \in Bytes : b[i] = NUL})

\* The string as a sequence
String(b) == [i \in 1..strlen(b) |-> b[i - 1]]

\* A mutant: the terminator is not written
AppendOpen(b, c) == [b EXCEPT ![strlen(b)] = c]

append(b, c) == [b EXCEPT ![strlen(b)] = c, ![strlen(b) + 1] = NUL]

\* append(b, ' '), n times
AppendBlanks(b, n) ==
  [i \in Bytes |-> IF i \in strlen(b)..(strlen(b) + n - 1) THEN Blank
                  ELSE IF i = strlen(b) + n THEN NUL ELSE b[i]]

\* n calls of append stay inside the array
Fits(b, n) == strlen(b) + n < BufferSize

\* With an empty line the byte before the array is cleared, which is padding
\* between it and keys_down
backspace(b) == [b EXCEPT ![strlen(b) - 1] = NUL]

Erase(b) == IF strlen(b) = 0 THEN b ELSE backspace(b)

-----------------------------------------------------------------------------
(* The handler, key by key *)

\* The result of n calls of append
Store(n, b) ==
  IF Fits(key_buffer, n)
  THEN key_buffer' = b /\ UNCHANGED wild
  ELSE wild' = "overflow" /\ UNCHANGED key_buffer

Type(c) ==
  /\ Store(1, append(key_buffer, c))
  /\ screen' = kprint(screen, <<c>>)
  /\ line' = IF c = NUL THEN line ELSE Append(line, c)
  /\ strayed' = (strayed \/ c \in {Newline, Backspace})
  /\ UNCHANGED <<keys_down, NUM_LOCK_ENABLED>>

PressTyping(key) ==
  /\ key \in TypingKeys
  /\ \E c \in IF keys_down = {} THEN Low[key] ELSE High[key] : Type(c)

PressTab ==
  LET blanks == [i \in 1..TabWidth |-> Blank]
  IN  /\ Store(TabWidth, AppendBlanks(key_buffer, TabWidth))
      /\ screen' = kprint(screen, blanks)
      /\ line' = line \o blanks
      /\ UNCHANGED <<keys_down, NUM_LOCK_ENABLED, strayed>>

PressBackspace ==
  /\ key_buffer' = Erase(key_buffer)
  /\ screen' = kprint_backspace(screen)
  /\ line' = IF line = << >> THEN line ELSE Front(line)
  /\ UNCHANGED <<keys_down, NUM_LOCK_ENABLED, wild, strayed>>

PressShift(key) ==
  /\ key \in Shifts
  /\ keys_down' = keys_down \cup {key}
  /\ UNCHANGED <<key_buffer, NUM_LOCK_ENABLED, screen, wild, line, strayed>>

ReleaseShift(key) ==
  /\ key \in Shifts
  /\ keys_down' = keys_down \ {key}
  /\ UNCHANGED <<key_buffer, NUM_LOCK_ENABLED, screen, wild, line, strayed>>

\* Both arrows fall through to UP, which does nothing, under num lock
PressArrow(n) ==
  /\ IF NUM_LOCK_ENABLED
     THEN UNCHANGED <<screen, strayed>>
     ELSE /\ screen' = MoveCursor(screen, n)
          /\ strayed' = TRUE
  /\ UNCHANGED <<key_buffer, keys_down, NUM_LOCK_ENABLED, wild, line>>

\* Line 163 compares where it should assign: the lock never goes off
PressNumLock ==
  /\ NUM_LOCK_ENABLED' = TRUE
  /\ UNCHANGED <<key_buffer, keys_down, screen, wild, line, strayed>>

\* UP, DOWN, CTRL, the other locks, and every other key's release
PressIdle == UNCHANGED keyboardVars
=============================================================================
