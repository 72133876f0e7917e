---------------------------- MODULE ConsoleProofs ----------------------------
(***************************************************************************)
(* Proofs about the console, for every size of the buffer and the screen,  *)
(* every keyboard and every order of keys, interrupts and start-up steps:  *)
(* the shell is given the line that was typed, a call through an empty     *)
(* entry of fs_functions is an early one, what is printed keeps the screen *)
(* a screen, and the line being typed stands before the cursor.            *)
(***************************************************************************)
EXTENDS Console, TLAPS, WellFoundedInduction, NaturalsInduction

-----------------------------------------------------------------------------
(* The line in key_buffer.  The history variable is the witness of what    *)
(* strlen looks for.                                                       *)

LineInBuffer ==
  /\ key_buffer \in [Bytes -> Chars]
  /\ line \in Seq(Chars)
  /\ Len(line) \in Bytes
  /\ key_buffer[Len(line)] = NUL
  /\ \A i \in 1..Len(line) : key_buffer[i - 1] = line[i] /\ line[i] # NUL

BufferInv ==
  /\ wild = "no" => LineInBuffer
  /\ pc \in BeforeHandler => line = << >>

\* strlen stops where the line does
LEMMA StrlenIsLen ==
  ASSUME LineInBuffer
  PROVE  strlen(key_buffer) = Len(line)
<1> DEFINE N == {i \in Bytes : key_buffer[i] = NUL}
<1>1. BufferSize \in Nat /\ Len(line) \in Nat
  BY KeyboardAssumption DEF LineInBuffer, Bytes
<1>2. Len(line) \in N
  BY DEF LineInBuffer
<1>3. ASSUME NEW i \in N
      PROVE  Len(line) <= i
  <2> SUFFICES ASSUME i < Len(line)
               PROVE  FALSE
    BY <1>1, <1>3 DEF Bytes
  <2>1. i + 1 \in 1..Len(line) /\ (i + 1) - 1 = i
    BY <1>1 DEF Bytes
  <2>2. key_buffer[(i + 1) - 1] # NUL
    BY <2>1 DEF LineInBuffer
  <2> QED
    BY <2>1, <2>2
<1>4. Min(N) \in N /\ \A i \in N : Min(N) <= i
  BY <1>2, <1>3 DEF Min
<1>5. Min(N) <= Len(line) /\ Len(line) <= Min(N) /\ Min(N) \in Nat
  BY <1>1, <1>2, <1>3, <1>4 DEF Bytes
<1> QED
  BY <1>1, <1>5 DEF strlen

\* The string is the line
LEMMA StringIsLine ==
  ASSUME LineInBuffer
  PROVE  /\ \E i \in Bytes : key_buffer[i] = NUL
         /\ String(key_buffer) = line
<1>1. strlen(key_buffer) = Len(line)
  BY StrlenIsLen
<1>2. String(key_buffer) = [i \in 1..Len(line) |-> line[i]]
  BY <1>1 DEF String, LineInBuffer
<1> QED
  BY <1>2 DEF LineInBuffer

\* What is typed is stored, or there is no room for it
LEMMA TypeKeepsLine ==
  ASSUME LineInBuffer, NEW c \in Chars, Type(c), wild = "no", wild' = "no"
  PROVE  LineInBuffer'
<1> DEFINE n == Len(line)
<1>1. strlen(key_buffer) = n /\ n \in Nat /\ BufferSize \in Nat
  BY StrlenIsLen, KeyboardAssumption DEF LineInBuffer, Bytes
<1>2. n + 1 < BufferSize /\ key_buffer' = append(key_buffer, c)
  BY <1>1 DEF Type, Store, Fits
<1>3. key_buffer' = [key_buffer EXCEPT ![n] = c, ![n + 1] = NUL]
  BY <1>1, <1>2 DEF append
<1>4. n \in Bytes /\ n + 1 \in Bytes /\ NUL \in Chars
  BY <1>1, <1>2 DEF Bytes, Chars
<1>5. key_buffer' \in [Bytes -> Chars] /\ key_buffer'[n] = c
      /\ key_buffer'[n + 1] = NUL
      /\ \A i \in 1..n : key_buffer'[i - 1] = key_buffer[i - 1]
  BY <1>1, <1>3, <1>4 DEF LineInBuffer, Bytes
<1>6. CASE c = NUL
  <2>1. line' = line
    BY <1>6 DEF Type
  <2> QED
    BY <1>4, <1>5, <1>6, <2>1 DEF LineInBuffer
<1>7. CASE c # NUL
  <2>1. line' = Append(line, c)
    BY <1>7 DEF Type
  <2>2. line' \in Seq(Chars) /\ Len(line') = n + 1 /\ line'[n + 1] = c
        /\ \A i \in 1..n : line'[i] = line[i]
    BY <2>1 DEF LineInBuffer
  <2>3. ASSUME NEW i \in 1..(n + 1)
        PROVE  key_buffer'[i - 1] = line'[i] /\ line'[i] # NUL
    <3>1. CASE i = n + 1
      BY <1>1, <1>5, <1>7, <2>2, <3>1
    <3>2. CASE i \in 1..n
      BY <1>5, <2>2, <3>2 DEF LineInBuffer
    <3> QED
      BY <1>1, <3>1, <3>2
  <2> QED
    BY <1>4, <1>5, <2>2, <2>3 DEF LineInBuffer
<1> QED
  BY <1>6, <1>7

\* TAB is that many blanks
LEMMA TabKeepsLine ==
  ASSUME LineInBuffer, PressTab, wild = "no", wild' = "no"
  PROVE  LineInBuffer'
<1> DEFINE n == Len(line)
           blanks == [i \in 1..TabWidth |-> Blank]
<1>1. /\ strlen(key_buffer) = n /\ n \in Nat /\ BufferSize \in Nat
      /\ TabWidth \in Nat
  BY StrlenIsLen, KeyboardAssumption DEF LineInBuffer, Bytes
<1>2. /\ n + TabWidth < BufferSize
      /\ key_buffer' = AppendBlanks(key_buffer, TabWidth)
      /\ line' = line \o blanks
  BY <1>1 DEF PressTab, Store, Fits
<1>3. key_buffer' = [i \in Bytes |->
                       IF i \in n..(n + TabWidth - 1) THEN Blank
                       ELSE IF i = n + TabWidth THEN NUL ELSE key_buffer[i]]
  BY <1>1, <1>2 DEF AppendBlanks
<1>4. Blank \in Chars /\ NUL \in Chars /\ Blank # NUL
  BY DEF Chars, Blank, NUL
<1>5. blanks \in Seq(Chars) /\ Len(blanks) = TabWidth
  BY <1>1, <1>4
<1>6. /\ line' \in Seq(Chars) /\ Len(line') = n + TabWidth
      /\ \A i \in 1..n : line'[i] = line[i]
      /\ \A i \in (n + 1)..(n + TabWidth) : line'[i] = Blank
  BY <1>1, <1>2, <1>5 DEF LineInBuffer
<1>7. key_buffer' \in [Bytes -> Chars]
  BY <1>3, <1>4 DEF LineInBuffer
<1>8. n + TabWidth \in Bytes
  BY <1>1, <1>2 DEF Bytes
<1>9. key_buffer'[n + TabWidth] = NUL
  BY <1>1, <1>3, <1>8
<1>10. ASSUME NEW i \in 1..(n + TabWidth)
       PROVE  key_buffer'[i - 1] = line'[i] /\ line'[i] # NUL
  <2>0. i - 1 \in Bytes
    BY <1>1, <1>8 DEF Bytes
  <2>1. CASE i \in 1..n
    <3>1. key_buffer'[i - 1] = key_buffer[i - 1]
      BY <1>1, <1>3, <2>0, <2>1
    <3> QED
      BY <1>6, <2>1, <3>1 DEF LineInBuffer
  <2>2. CASE i \in (n + 1)..(n + TabWidth)
    <3>1. key_buffer'[i - 1] = Blank
      BY <1>1, <1>3, <2>0, <2>2
    <3> QED
      BY <1>4, <1>6, <2>2, <3>1
  <2> QED
    BY <1>1, <2>1, <2>2
<1> QED
  BY <1>6, <1>7, <1>8, <1>9, <1>10 DEF LineInBuffer

\* BACKSPACE takes the last character, or nothing
LEMMA BackspaceKeepsLine ==
  ASSUME LineInBuffer, PressBackspace
  PROVE  LineInBuffer'
<1> DEFINE n == Len(line)
<1>1. strlen(key_buffer) = n /\ n \in Nat /\ BufferSize \in Nat
  BY StrlenIsLen, KeyboardAssumption DEF LineInBuffer, Bytes
<1>2. CASE n = 0
  <2>1. line = << >> /\ key_buffer' = key_buffer /\ line' = line
    BY <1>1, <1>2 DEF LineInBuffer, PressBackspace, Erase
  <2> QED
    BY <2>1 DEF LineInBuffer
<1>3. CASE n # 0
  <2>1. key_buffer' = [key_buffer EXCEPT ![n - 1] = NUL] /\ line' = Front(line)
    BY <1>1, <1>3 DEF LineInBuffer, PressBackspace, Erase, backspace
  <2>2. /\ line' \in Seq(Chars) /\ Len(line') = n - 1
        /\ \A i \in 1..(n - 1) : line'[i] = line[i]
    BY <1>1, <1>3, <2>1 DEF LineInBuffer, Front
  <2>3. n - 1 \in Bytes /\ NUL \in Chars
    BY <1>1, <1>3 DEF LineInBuffer, Bytes, Chars
  <2>4. /\ key_buffer' \in [Bytes -> Chars] /\ key_buffer'[n - 1] = NUL
        /\ \A i \in 1..(n - 1) : key_buffer'[i - 1] = key_buffer[i - 1]
    BY <1>1, <2>1, <2>3 DEF LineInBuffer, Bytes
  <2> QED
    BY <1>1, <2>2, <2>3, <2>4 DEF LineInBuffer
<1> QED
  BY <1>2, <1>3

\* ENTER empties it
LEMMA EnterEmpties ==
  ASSUME LineInBuffer, PressEnter
  PROVE  LineInBuffer'
<1>1. 0 \in Bytes /\ NUL \in Chars
  BY KeyboardAssumption DEF Bytes, Chars
<1>2. key_buffer' = [key_buffer EXCEPT ![0] = NUL] /\ line' = << >>
  BY DEF PressEnter
<1> QED
  BY <1>1, <1>2 DEF LineInBuffer

\* One key handled
LEMMA HandleKeepsLine ==
  ASSUME LineInBuffer, NEW key, Handle(key), wild = "no", wild' = "no"
  PROVE  LineInBuffer'
<1>1. ASSUME PressTyping(key)
      PROVE  LineInBuffer'
  <2>1. PICK c \in IF keys_down = {} THEN Low[key] ELSE High[key] : Type(c)
    BY <1>1 DEF PressTyping
  <2>2. c \in Chars
    BY <1>1, <2>1, KeyboardAssumption DEF PressTyping, Chars
  <2> QED
    BY <2>1, <2>2, TypeKeepsLine
<1>2. ASSUME UNCHANGED <<key_buffer, line>>
      PROVE  LineInBuffer'
  BY <1>2 DEF LineInBuffer
<1>3. CASE PressTab
  BY <1>3, TabKeepsLine
<1>4. CASE PressBackspace
  BY <1>4, BackspaceKeepsLine
<1>5. CASE PressEnter
  BY <1>5, EnterEmpties
<1>6. CASE PressShift(key) \/ ReleaseShift("lshift") \/ ReleaseShift("rshift")
  BY <1>2, <1>6 DEF PressShift, ReleaseShift
<1>7. CASE PressArrow(-1) \/ PressArrow(1) \/ PressNumLock \/ PressIdle
  BY <1>2, <1>7 DEF PressArrow, PressNumLock, PressIdle, keyboardVars
<1> QED
  BY <1>1, <1>3, <1>4, <1>5, <1>6, <1>7 DEF Handle

LEMMA BufferInit == Init => BufferInv
<1> SUFFICES ASSUME Init
             PROVE  BufferInv
  OBVIOUS
<1>1. 0 \in Bytes /\ NUL \in Chars
  BY KeyboardAssumption DEF Bytes, Chars
<1> QED
  BY <1>1 DEF Init, BufferInv, LineInBuffer

LEMMA BufferStep == BufferInv /\ [Next]_vars => BufferInv'
<1> SUFFICES ASSUME BufferInv, [Next]_vars
             PROVE  BufferInv'
  OBVIOUS
<1>1. ASSUME UNCHANGED <<key_buffer, line, wild>>,
             pc' \in BeforeHandler => pc \in BeforeHandler
      PROVE  BufferInv'
  BY <1>1 DEF BufferInv, LineInBuffer
<1>2. CASE UNCHANGED vars
  BY <1>1, <1>2 DEF vars, keyboardVars, kernelVars
<1>3. CASE Deliver \/ \E key \in Keys : Press(key)
  BY <1>1, <1>3 DEF Deliver, Press, keyboardVars, kernelVars
<1>4. CASE irq_handler
  <2>1. wild = "no" /\ LineInBuffer /\ pc' = pc
    BY <1>4 DEF irq_handler, Running, BufferInv, kernelVars
  <2>2. CASE HandlerInstalled
    <3>1. Handle(port60) /\ pc' \notin BeforeHandler
      BY <1>4, <2>1, <2>2 DEF irq_handler, HandlerInstalled
    <3> QED
      BY <2>1, <3>1, HandleKeepsLine DEF BufferInv
  <2>3. CASE ~ HandlerInstalled
    BY <1>1, <1>4, <2>1, <2>3 DEF irq_handler, keyboardVars
  <2> QED
    BY <2>2, <2>3
<1>5. CASE kernel_main
  <2>1. CASE irq_install
    BY <1>1, <2>1 DEF irq_install, keyboardVars, BeforeHandler
  <2>2. CASE init_keyboard
    <3>1. /\ key_buffer' = [i \in Bytes |-> NUL] /\ line' = line
          /\ line = << >> /\ pc' = "log"
      BY <2>2 DEF init_keyboard, Reach, BufferInv, BeforeHandler
    <3>2. 0 \in Bytes /\ NUL \in Chars
      BY KeyboardAssumption DEF Bytes, Chars
    <3> QED
      BY <3>1, <3>2 DEF BufferInv, LineInBuffer, BeforeHandler
  <2>3. CASE FindFilesystem \/ InstallFunction
    BY <1>1, <2>3 DEF FindFilesystem, InstallFunction, Reach, keyboardVars,
                      BeforeHandler
  <2>4. CASE LogStart \/ Greet \/ FirstPrompt
    BY <1>1, <2>4 DEF LogStart, Greet, FirstPrompt, Prints, keyboardVars,
                      BeforeHandler
  <2>5. CASE kprint_at
    <3>1. UNCHANGED <<key_buffer, line, wild, pc>>
      BY <2>5 DEF kprint_at
    <3> QED
      BY <1>1, <3>1
  <2> QED
    BY <1>5, <2>1, <2>2, <2>3, <2>4, <2>5 DEF kernel_main
<1> QED
  BY <1>2, <1>3, <1>4, <1>5 DEF Next

\* The string that user_input gets is the line typed since ENTER, for every
\* size of the buffer and every sequence of keys that fits in it (keyboard.c
\* with append and backspace of string.c).
THEOREM LineIsWhole == Spec => []BufferHoldsLine
<1>1. BufferInv => BufferHoldsLine
  BY StringIsLine DEF BufferInv, BufferHoldsLine
<1> QED
  BY BufferInit, BufferStep, <1>1, PTL DEF Spec

-----------------------------------------------------------------------------
(* The table of functions *)

TableInv ==
  /\ installed \in 0..Len(InstallOrder) /\ device \in {"fat12", "none"}
  /\ device = "fat12" /\ pc \in {"greet", "prompt", "spin"}
       => installed = Len(InstallOrder)
  /\ NullOnlyEarly

\* Every function the shell calls
ShellCalls == {"enumerate_files", "get_free_space", "get_total_space",
               "find_file", "load_file", "write_file"}

LEMMA FullTable ==
  ASSUME installed = Len(InstallOrder)
  PROVE  ShellCalls \subseteq fs
<1>1. installed = 6
  BY DEF InstallOrder
<1>2. /\ InstallOrder[1] \in fs /\ InstallOrder[2] \in fs
      /\ InstallOrder[3] \in fs /\ InstallOrder[4] \in fs
      /\ InstallOrder[5] \in fs /\ InstallOrder[6] \in fs
  BY <1>1 DEF fs
<1> QED
  BY <1>2 DEF InstallOrder, ShellCalls

LEMMA NullCallEarly ==
  ASSUME TableInv, NEW key, Handle(key), wild = "no", UNCHANGED kernelVars
  PROVE  NullOnlyEarly'
<1> SUFFICES ASSUME wild' = "null", device = "fat12", pc = "spin"
             PROVE  FALSE
  BY DEF NullOnlyEarly, kernelVars, TableInv
<1>1. ShellCalls \subseteq fs
  BY FullTable DEF TableInv
<1>2. ASSUME NEW functions, functions \subseteq ShellCalls
      PROVE  ~ NullCall(functions)
  BY <1>1, <1>2 DEF NullCall, Calls
<1>3. CASE PressEnter
  <2>1. \A next : ~ Says(next)
    BY DEF Says
  <2>2. ~ Undefined("stray store") /\ ~ CommandEnd
    BY DEF Undefined, CommandEnd
  <2>3. ~ AnswerMemory /\ ~ AnswerRead /\ ~ AnswerWrite
    BY <1>2, <2>1, <2>2 DEF AnswerMemory, AnswerRead, AnswerWrite, ShellCalls
  <2>4. ~ CommandFs
    <3> SUFFICES ASSUME NEW functions \in {{"enumerate_files"},
                                 {"get_free_space", "get_total_space"}}
                 PROVE  ~ NullCall(functions) /\ ~ Says("command")
      BY DEF CommandFs
    <3>1. functions \subseteq ShellCalls
      BY DEF ShellCalls
    <3> QED
      BY <1>2, <2>1, <3>1
  <2>5. ~ Command
    BY <2>1, <2>2, <2>4 DEF Command, CommandPrints, CommandAsks
  <2> QED
    BY <1>3, <2>3, <2>5 DEF PressEnter, user_input
<1>4. CASE PressTyping(key) \/ PressTab
  BY <1>4 DEF PressTyping, Type, PressTab, Store
<1>5. CASE PressBackspace \/ PressShift(key) \/ ReleaseShift("lshift")
           \/ ReleaseShift("rshift")
  BY <1>5 DEF PressBackspace, PressShift, ReleaseShift
<1>6. CASE PressArrow(-1) \/ PressArrow(1) \/ PressNumLock \/ PressIdle
  BY <1>6 DEF PressArrow, PressNumLock, PressIdle, keyboardVars
<1> QED
  BY <1>3, <1>4, <1>5, <1>6 DEF Handle

LEMMA TableStep == TableInv /\ [Next]_vars => TableInv'
<1> SUFFICES ASSUME TableInv, [Next]_vars
             PROVE  TableInv'
  OBVIOUS
<1>1. ASSUME UNCHANGED <<wild, kernelVars>>
      PROVE  TableInv'
  BY <1>1 DEF TableInv, NullOnlyEarly, kernelVars
<1>2. CASE UNCHANGED vars
  BY <1>1, <1>2 DEF vars, keyboardVars
<1>3. CASE Deliver \/ \E key \in Keys : Press(key)
  BY <1>1, <1>3 DEF Deliver, Press, keyboardVars
<1>4. CASE irq_handler
  <2>1. wild = "no" /\ UNCHANGED kernelVars
    BY <1>4 DEF irq_handler, Running
  <2>2. CASE HandlerInstalled
    <3>1. NullOnlyEarly'
      BY <1>4, <2>1, <2>2, NullCallEarly DEF irq_handler
    <3> QED
      BY <2>1, <3>1 DEF TableInv, kernelVars
  <2>3. CASE ~ HandlerInstalled
    BY <1>1, <1>4, <2>1, <2>3 DEF irq_handler, keyboardVars
  <2> QED
    BY <2>2, <2>3
<1>5. CASE kernel_main
  <2>1. wild = "no"
    BY <1>5 DEF kernel_main, Running
  <2>2. CASE irq_install \/ init_keyboard
    BY <2>1, <2>2 DEF irq_install, init_keyboard, Reach, keyboardVars,
                      TableInv, NullOnlyEarly
  <2>3. CASE FindFilesystem \/ LogStart \/ Greet \/ FirstPrompt
    BY <2>1, <2>3 DEF FindFilesystem, LogStart, Greet, FirstPrompt, Prints,
                      Reach, keyboardVars, TableInv, NullOnlyEarly
  <2>4. CASE InstallFunction
    <3>1. Len(InstallOrder) = 6
      BY DEF InstallOrder
    <3>2. UNCHANGED <<wild, device>>
      BY <2>4 DEF InstallFunction, keyboardVars
    <3>3. CASE installed < Len(InstallOrder)
      <4>1. installed' = installed + 1 /\ pc' = "install"
        BY <2>4, <3>3 DEF InstallFunction, Reach
      <4> QED
        BY <2>1, <3>1, <3>2, <3>3, <4>1 DEF TableInv, NullOnlyEarly
    <3>4. CASE ~ (installed < Len(InstallOrder))
      <4>1. installed' = installed
        BY <2>4, <3>4 DEF InstallFunction
      <4> QED
        BY <2>1, <3>1, <3>2, <3>4, <4>1 DEF TableInv, NullOnlyEarly
    <3> QED
      BY <3>3, <3>4
  <2>5. CASE kprint_at
    <3>1. UNCHANGED <<pc, wild, device, installed>>
      BY <2>5 DEF kprint_at
    <3> QED
      BY <3>1 DEF TableInv, NullOnlyEarly
  <2> QED
    BY <1>5, <2>2, <2>3, <2>4, <2>5 DEF kernel_main
<1> QED
  BY <1>2, <1>3, <1>4, <1>5 DEF Next

\* No command calls address 0 on a disk with a filesystem once kernel_main
\* spins: prepare_kernel_fs (kern_disk.c) has set every function that
\* user_input (kernel.c) calls.
THEOREM NullIsEarly == Spec => []NullOnlyEarly
<1>1. Init => TableInv
  BY DEF Init, TableInv, NullOnlyEarly, InstallOrder
<1>2. TableInv => NullOnlyEarly
  BY DEF TableInv
<1> QED
  BY <1>1, <1>2, TableStep, PTL DEF Spec

-----------------------------------------------------------------------------
(* Printing, character by character *)

LEMMA SmallestMember ==
  ASSUME NEW S, S \subseteq Nat, S # {}
  PROVE  Min(S) \in S /\ \A y \in S : Min(S) <= y
<1>1. PICK x \in S : \A y \in S : ~(<<y, x>> \in OpToRel(<, Nat))
  BY NatLessThanWellFounded, WFMin
<1>2. ASSUME NEW y \in S, ~(x <= y)
      PROVE  FALSE
  <2>1. y \in Nat /\ x \in Nat /\ y < x
    BY <1>2
  <2> QED
    BY <1>1, <2>1 DEF OpToRel
<1>3. \E z \in S : \A y \in S : z <= y
  BY <1>2
<1> QED
  BY <1>3 DEF Min

\* What w gives for n characters follows from what it gives for one less
PrintedNext(w, s, text, n) ==
  IF n = 0 THEN s ELSE PrintChar(w[n - 1], text[n])

Traces(w, s, text, m) == w = [n \in 0..m |-> PrintedNext(w, s, text, n)]

LEMMA PrintsExist ==
  ASSUME NEW s, NEW text, NEW N \in Nat
  PROVE  \E w : Traces(w, s, text, N)
<1> DEFINE S == {m \in 0..N : ~ \E w : Traces(w, s, text, m)}
<1>1. CASE S = {}
  <2>1. N \in 0..N
    OBVIOUS
  <2> QED
    BY <1>1, <2>1
<1>2. CASE S # {}
  <2>1. PICK m : m = Min(S)
    OBVIOUS
  <2>2. m \in S /\ \A k \in S : m <= k
    <3>1. S \subseteq Nat
      OBVIOUS
    <3> HIDE DEF S
    <3> QED
      BY <1>2, <2>1, <3>1, SmallestMember
  <2>3. m \in 0..N /\ ~ \E w : Traces(w, s, text, m)
    BY <2>2
  <2>4. PICK old : m # 0 => Traces(old, s, text, m - 1)
    <3>1. CASE m = 0
      BY <3>1
    <3>2. CASE m # 0
      <4>1. m - 1 \in 0..N /\ ~ (m <= m - 1)
        BY <2>3, <3>2
      <4>2. m - 1 \notin S
        BY <2>2, <4>1
      <4>3. \E w : Traces(w, s, text, m - 1)
        BY <4>1, <4>2
      <4> QED
        BY <4>3
    <3> QED
      BY <3>1, <3>2
  <2>5. PICK w : w = [n \in 0..m |-> PrintedNext(old, s, text, n)]
    OBVIOUS
  <2>6. ASSUME NEW n \in 0..m
        PROVE  PrintedNext(old, s, text, n) = PrintedNext(w, s, text, n)
    <3>1. CASE n = 0
      BY <3>1 DEF PrintedNext
    <3>2. CASE n # 0
      <4>1. n - 1 \in 0..(m - 1) /\ n - 1 \in 0..m /\ m # 0
        BY <2>3, <3>2
      <4>2. old[n - 1] = PrintedNext(old, s, text, n - 1)
        BY <2>4, <4>1 DEF Traces
      <4>3. w[n - 1] = PrintedNext(old, s, text, n - 1)
        BY <2>5, <4>1
      <4>4. old[n - 1] = w[n - 1]
        BY <4>2, <4>3
      <4> QED
        BY <3>2, <4>4, Zenon DEF PrintedNext
    <3> QED
      BY <3>1, <3>2
  <2>7. Traces(w, s, text, m)
    BY <2>5, <2>6 DEF Traces
  <2> QED
    BY <2>3, <2>7
<1> QED
  BY <1>1, <1>2

\* w[n] is the screen after n of the N characters of text
PrintsTo(w, s, text, N) ==
  /\ kprint(s, text) = w[N]
  /\ w[0] = s
  /\ \A n \in 0..(N - 1) : w[n + 1] = PrintChar(w[n], text[n + 1])

LEMMA PrintsOne ==
  \A s, text, N : N \in Nat /\ Len(text) = N => \E w : PrintsTo(w, s, text, N)
<1> SUFFICES ASSUME NEW s, NEW text, Len(text) \in Nat
             PROVE  \E w : PrintsTo(w, s, text, Len(text))
  BY Zenon
<1> DEFINE printed[n \in 0..Len(text)] ==
             IF n = 0 THEN s ELSE PrintChar(printed[n - 1], text[n])
<1>1. PICK v : Traces(v, s, text, Len(text))
  BY PrintsExist
<1>2. v = [n \in 0..Len(text) |-> IF n = 0 THEN s ELSE PrintChar(v[n - 1], text[n])]
  BY <1>1, Zenon DEF Traces, PrintedNext
<1>3. printed = [n \in 0..Len(text) |->
                   IF n = 0 THEN s ELSE PrintChar(printed[n - 1], text[n])]
  BY <1>2
<1>4. kprint(s, text) = printed[Len(text)]
  BY DEF kprint
<1> HIDE DEF printed
<1>5. printed[0] = s
  BY <1>3
<1>6. ASSUME NEW n \in 0..(Len(text) - 1)
      PROVE  printed[n + 1] = PrintChar(printed[n], text[n + 1])
  <2>1. n + 1 \in 0..Len(text) /\ n + 1 # 0 /\ (n + 1) - 1 = n
    OBVIOUS
  <2>2. printed[n + 1] = IF n + 1 = 0 THEN s
                         ELSE PrintChar(printed[(n + 1) - 1], text[n + 1])
    BY <1>3, <2>1
  <2> QED
    BY <2>1, <2>2
<1>7. PrintsTo(printed, s, text, Len(text))
  BY <1>4, <1>5, <1>6, Zenon DEF PrintsTo
<1> QED
  BY <1>7, Zenon

-----------------------------------------------------------------------------
(* The types *)

LEMMA Sizes ==
  /\ Rows \in Nat /\ Cols \in Nat \ {0} /\ CursorMod \in Nat
  /\ Size \in Nat /\ Cols <= Size /\ Size < CursorMod
  /\ Size - 1 \in Cells
<1>1. /\ Rows \in Nat \ {0, 1} /\ Cols \in Nat \ {0}
      /\ CursorMod \in Nat /\ CursorMod > Rows * Cols
  BY ScreenAssumption DEF CursorMod
<1>2. Rows * Cols \in Nat /\ Cols <= Rows * Cols
  BY <1>1
<1> QED
  BY <1>1, <1>2 DEF Size, Cells

LEMMA CharsAre ==
  NUL \in Chars /\ Newline \in Chars /\ Blank \in Chars /\ Error \in Chars
BY DEF Chars

\* The start of the next row is on the screen or just below it
LEMMA NextRow ==
  ASSUME NEW at \in Nat, at < Size
  PROVE  (at \div Cols + 1) * Cols \in 0..Size
<1>1. Rows \in Nat /\ Cols \in Nat \ {0} /\ Size = Rows * Cols
  BY Sizes DEF Size
<1>2. PICK q \in Nat : q = at \div Cols /\ q * Cols <= at
  BY <1>1
<1>3. q < Rows
  <2>1. q >= Rows => q * Cols >= Rows * Cols
    BY <1>1
  <2>2. q * Cols \in Nat /\ Rows * Cols \in Nat
    BY <1>1
  <2> QED
    BY <1>1, <1>2, <2>1, <2>2
<1>4. (q + 1) * Cols <= Rows * Cols /\ (q + 1) * Cols \in Nat
  BY <1>1, <1>3
<1> QED
  BY <1>1, <1>2, <1>4

LEMMA SettleType ==
  ASSUME NEW cells \in [Cells -> Chars], NEW at \in 0..Size
  PROVE  Settle([cells |-> cells, cursor |-> at]) \in Screen
<1> DEFINE s == [cells |-> cells, cursor |-> at]
<1>1. CASE OnScreen(s)
  BY <1>1, Sizes DEF Settle, OnScreen, Screen
<1>2. CASE ~OnScreen(s)
  <2>1. Settle(s) = [cells  |-> [i \in Cells |->
                        IF i + Cols < Size THEN cells[i + Cols] ELSE NUL],
                     cursor |-> at - Cols]
    BY <1>2 DEF Settle, ScrollUp
  <2>2. at - Cols \in 0..(CursorMod - 1)
    BY <1>2, Sizes DEF OnScreen
  <2>3. ASSUME NEW i \in Cells, i + Cols < Size PROVE cells[i + Cols] \in Chars
    BY <2>3, Sizes DEF Cells
  <2>4. [i \in Cells |-> IF i + Cols < Size THEN cells[i + Cols] ELSE NUL]
          \in [Cells -> Chars]
    BY <2>3, CharsAre
  <2> QED
    BY <2>1, <2>2, <2>4 DEF Screen
<1> QED
  BY <1>1, <1>2

LEMMA ComplainType ==
  ASSUME NEW s \in Screen
  PROVE  Complain(s) \in Screen
BY Sizes, CharsAre DEF Complain, Screen

LEMMA PrintCharType ==
  ASSUME NEW s \in Screen, NEW c \in Chars
  PROVE  PrintChar(s, c) \in Screen
<1>0. /\ s.cells \in [Cells -> Chars] /\ s.cursor \in 0..(CursorMod - 1)
      /\ s = [cells |-> s.cells, cursor |-> s.cursor]
  BY DEF Screen
<1>1. CASE c = NUL
  BY <1>1 DEF PrintChar
<1>2. CASE c # NUL /\ ~OnScreen(s)
  BY <1>2, ComplainType DEF PrintChar
<1>3. CASE c # NUL /\ OnScreen(s)
  <2>1. s.cursor \in Cells /\ s.cursor \in Nat /\ s.cursor < Size
    BY <1>0, <1>3, Sizes DEF OnScreen, Cells
  <2>2. CASE c = Newline
    <3>1. PICK at \in 0..Size : at = (s.cursor \div Cols + 1) * Cols
      BY <2>1, NextRow
    <3>2. PrintChar(s, c) = Settle([s EXCEPT !.cursor = at])
      BY <1>3, <2>2, <3>1 DEF PrintChar
    <3>3. [s EXCEPT !.cursor = at] = [cells |-> s.cells, cursor |-> at]
      BY <1>0
    <3> QED
      BY <1>0, <3>2, <3>3, SettleType
  <2>3. CASE c = Backspace /\ c # Newline
    <3>1. PrintChar(s, c) = [s EXCEPT !.cells[s.cursor] = Blank]
      BY <1>3, <2>3 DEF PrintChar
    <3> QED
      BY <2>1, <3>1, CharsAre DEF Screen
  <2>4. CASE c # Newline /\ c # Backspace
    <3>1. PrintChar(s, c) = Settle([cells |-> [s.cells EXCEPT ![s.cursor] = c],
                                    cursor |-> s.cursor + 1])
      BY <1>3, <2>4 DEF PrintChar
    <3>2. [s.cells EXCEPT ![s.cursor] = c] \in [Cells -> Chars]
          /\ s.cursor + 1 \in 0..Size
      BY <1>0, <2>1, Sizes
    <3> QED
      BY <3>1, <3>2, SettleType
  <2> QED
    BY <2>2, <2>3, <2>4
<1> QED
  BY <1>1, <1>2, <1>3

LEMMA kprintType ==
  ASSUME NEW s \in Screen, NEW text \in Seq(Chars)
  PROVE  kprint(s, text) \in Screen
<1> DEFINE N == Len(text)
<1>1. N \in Nat /\ \A n \in 1..N : text[n] \in Chars
  OBVIOUS
<1>2. PICK w : /\ kprint(s, text) = w[N] /\ w[0] = s
               /\ \A n \in 0..(N - 1) : w[n + 1] = PrintChar(w[n], text[n + 1])
  <2>1. PICK w : PrintsTo(w, s, text, N)
    BY <1>1, PrintsOne, Zenon
  <2> QED
    BY <2>1, Zenon DEF PrintsTo
<1> HIDE DEF N
<1> DEFINE S == {n \in 0..N : w[n] \notin Screen}
<1>3. CASE S = {}
  BY <1>1, <1>2, <1>3
<1>4. CASE S # {}
  <2>1. PICK m : m = Min(S)
    OBVIOUS
  <2>2. m \in S /\ \A k \in S : m <= k
    <3>1. S \subseteq Nat
      BY <1>1
    <3> HIDE DEF S
    <3> QED
      BY <1>4, <2>1, <3>1, SmallestMember
  <2>3. m # 0 /\ m \in 0..N
    BY <1>2, <2>2
  <2>4. m - 1 \in 0..(N - 1) /\ (m - 1) + 1 = m /\ m \in 1..N /\ m - 1 \notin S
    BY <1>1, <2>2, <2>3
  <2>5. w[m - 1] \in Screen
    BY <1>1, <2>4
  <2>6. w[m] = PrintChar(w[m - 1], text[m])
    BY <1>2, <2>4
  <2>7. w[m] \in Screen
    BY <1>1, <2>4, <2>5, <2>6, PrintCharType
  <2> QED
    BY <2>2, <2>7
<1> QED
  BY <1>3, <1>4

LEMMA BackspaceType ==
  ASSUME NEW s \in Screen
  PROVE  kprint_backspace(s) \in Screen
<1>1. PICK at \in Nat : at = (IF s.cursor = 0 THEN 0 ELSE s.cursor - 1)
                        /\ at \in 0..(CursorMod - 1)
  BY Sizes DEF Screen
<1>2. CASE at >= Size
  BY <1>1, <1>2, ComplainType DEF kprint_backspace
<1>3. CASE ~(at >= Size)
  <2>1. kprint_backspace(s) = [cells |-> [s.cells EXCEPT ![at] = Blank], cursor |-> at]
    BY <1>1, <1>3 DEF kprint_backspace
  <2>2. [s.cells EXCEPT ![at] = Blank] \in [Cells -> Chars]
    BY CharsAre DEF Screen
  <2> QED
    BY <1>1, <2>1, <2>2 DEF Screen
<1> QED
  BY <1>2, <1>3

-----------------------------------------------------------------------------
(* The types *)

LEMMA TextTypes ==
  ASSUME NEW text \in Outputs
  PROVE  <<Newline>> \o text \o PromptText \in Seq(Chars)
<1>1. text \in Seq(Chars) /\ PromptText \in Seq(Chars)
  <2>1. Symbols \subseteq Chars
    BY DEF Chars
  <2> QED
    BY <2>1, ConsoleAssumption
<1>2. <<Newline>> \in Seq(Chars)
  BY CharsAre
<1> QED
  BY <1>1, <1>2

KeyboardTypes ==
  /\ key_buffer \in [Bytes -> Chars] /\ keys_down \subseteq Shifts
  /\ NUM_LOCK_ENABLED \in BOOLEAN /\ screen \in Screen
  /\ wild \in {"no", "overflow", "null", "stray store"}
  /\ line \in Seq(Chars) /\ strayed \in BOOLEAN

ShellTypes ==
  /\ shell_context \in Contexts /\ halted \in BOOLEAN

\* append and backspace of string.c write characters
LEMMA StoreTypes ==
  ASSUME NEW b \in [Bytes -> Chars], NEW c \in Chars, NEW n \in Nat
  PROVE  /\ append(b, c) \in [Bytes -> Chars]
         /\ AppendBlanks(b, n) \in [Bytes -> Chars]
         /\ Erase(b) \in [Bytes -> Chars]
<1>1. append(b, c) \in [Bytes -> Chars]
  BY CharsAre DEF append
<1>2. AppendBlanks(b, n) \in [Bytes -> Chars]
  BY CharsAre DEF AppendBlanks
<1>3. Erase(b) \in [Bytes -> Chars]
  BY CharsAre DEF Erase, backspace
<1> QED
  BY <1>1, <1>2, <1>3

LEMMA TypeTypes ==
  ASSUME KeyboardTypes, NEW c \in Chars, Type(c)
  PROVE  KeyboardTypes'
<1>1. append(key_buffer, c) \in [Bytes -> Chars]
  BY StoreTypes DEF KeyboardTypes
<1>2. key_buffer' \in [Bytes -> Chars] /\ wild' \in {"no", "overflow", "null", "stray store"}
  BY <1>1 DEF Type, Store, KeyboardTypes
<1>3. screen' \in Screen
  <2>1. <<c>> \in Seq(Chars)
    OBVIOUS
  <2> QED
    BY <2>1, kprintType DEF Type, KeyboardTypes
<1>4. line' \in Seq(Chars)
  <2>1. line' = (IF c = NUL THEN line ELSE Append(line, c)) /\ line \in Seq(Chars)
    BY DEF Type, KeyboardTypes
  <2> QED
    BY <2>1
<1>5. strayed' \in BOOLEAN
  BY DEF Type, KeyboardTypes
<1> QED
  BY <1>2, <1>3, <1>4, <1>5 DEF Type, KeyboardTypes

LEMMA TabTypes ==
  ASSUME KeyboardTypes, PressTab
  PROVE  KeyboardTypes'
<1> DEFINE blanks == [i \in 1..TabWidth |-> Blank]
<1>1. AppendBlanks(key_buffer, TabWidth) \in [Bytes -> Chars]
  BY StoreTypes, CharsAre, KeyboardAssumption DEF KeyboardTypes
<1>2. key_buffer' \in [Bytes -> Chars] /\ wild' \in {"no", "overflow", "null", "stray store"}
  BY <1>1 DEF PressTab, Store, KeyboardTypes
<1>3. blanks \in Seq(Chars)
  BY CharsAre, KeyboardAssumption
<1>4. screen' = kprint(screen, blanks) /\ line' = line \o blanks
  BY DEF PressTab
<1> HIDE DEF blanks
<1>5. screen' \in Screen
  BY <1>3, <1>4, kprintType DEF KeyboardTypes
<1>6. line' \in Seq(Chars)
  <2>1. line \in Seq(Chars)
    BY DEF KeyboardTypes
  <2> QED
    BY <1>3, <1>4, <2>1
<1> QED
  BY <1>2, <1>5, <1>6 DEF PressTab, KeyboardTypes

LEMMA BackspaceTypes ==
  ASSUME KeyboardTypes, PressBackspace
  PROVE  KeyboardTypes'
<1>1. key_buffer' \in [Bytes -> Chars]
  BY StoreTypes, CharsAre DEF KeyboardTypes, PressBackspace
<1>2. screen' \in Screen
  BY BackspaceType DEF KeyboardTypes, PressBackspace
<1>3. line' \in Seq(Chars)
  <2>1. /\ line \in Seq(Chars)
        /\ line' = IF line = << >> THEN line ELSE SubSeq(line, 1, Len(line) - 1)
    BY DEF KeyboardTypes, PressBackspace, Front
  <2> QED
    BY <2>1
<1> QED
  BY <1>1, <1>2, <1>3 DEF PressBackspace, KeyboardTypes

LEMMA ArrowTypes ==
  ASSUME KeyboardTypes, NEW n \in Int, PressArrow(n)
  PROVE  KeyboardTypes'
<1>1. MoveCursor(screen, n) \in Screen
  <2>0. screen.cursor \in Int
    <3>1. screen.cursor \in 0..(CursorMod - 1)
      BY DEF KeyboardTypes, Screen
    <3> QED
      BY <3>1, Sizes
  <2>1. PICK at \in Int : at = screen.cursor + n
    BY <2>0
  <2>2. at % CursorMod \in 0..(CursorMod - 1)
    BY Sizes
  <2> QED
    BY <2>1, <2>2 DEF MoveCursor, KeyboardTypes, Screen
<1> QED
  BY <1>1 DEF PressArrow, KeyboardTypes

\* What the shell leaves
LEMMA EnterTypes ==
  ASSUME KeyboardTypes, ShellTypes, PressEnter
  PROVE  KeyboardTypes' /\ ShellTypes'
<1> DEFINE Whys == {"no", "overflow", "null", "stray store"}
           Good == /\ screen' \in Screen /\ wild' \in Whys
                   /\ ShellTypes'
<1>1. ASSUME NEW next \in Contexts, Says(next) PROVE Good
  <2>1. screen' \in Screen
    BY <1>1, TextTypes, kprintType DEF Says, KeyboardTypes
  <2> QED
    BY <1>1, <2>1 DEF Says, KeyboardTypes, ShellTypes
<1>2. ASSUME NEW why \in Whys, Undefined(why) PROVE Good
  BY <1>2 DEF Undefined, KeyboardTypes, ShellTypes
<1>3. ASSUME NEW functions, NullCall(functions) PROVE Good
  BY <1>2, <1>3 DEF NullCall
<1>4. "command" \in Contexts
  BY DEF Contexts
<1> HIDE DEF Good
<1>5. ASSUME AnswerMemory \/ AnswerRead \/ AnswerWrite PROVE Good
  BY <1>1, <1>2, <1>3, <1>4, <1>5 DEF AnswerMemory, AnswerRead, AnswerWrite
<1>6. ASSUME Command PROVE Good
  <2>1. CASE CommandPrints \/ CommandAsks
    BY <1>1, <1>4, <2>1 DEF CommandPrints, CommandAsks
  <2>2. CASE CommandFs
    BY <1>1, <1>3, <1>4, <2>2 DEF CommandFs
  <2>3. CASE CommandEnd
    <3>1. <<Newline>> \in Seq(Chars)
      BY CharsAre
    <3>2. screen' \in Screen
      BY <2>3, <3>1, kprintType DEF CommandEnd, KeyboardTypes
    <3> QED
      BY <2>3, <3>2 DEF CommandEnd, KeyboardTypes, ShellTypes, Good
  <2> QED
    BY <1>6, <2>1, <2>2, <2>3 DEF Command
<1>7. Good
  BY <1>5, <1>6 DEF PressEnter, user_input
<1>8. key_buffer' \in [Bytes -> Chars]
  BY CharsAre DEF PressEnter, KeyboardTypes
<1>9. line' \in Seq(Chars) /\ strayed' \in BOOLEAN
  BY DEF PressEnter, OnScreen
<1> QED
  BY <1>7, <1>8, <1>9 DEF PressEnter, KeyboardTypes, Good

LEMMA HandleTypes ==
  ASSUME KeyboardTypes, ShellTypes, NEW key, Handle(key)
  PROVE  KeyboardTypes' /\ ShellTypes'
<1>1. ASSUME UNCHANGED shellVars PROVE ShellTypes'
  BY <1>1 DEF shellVars, ShellTypes
<1>2. ASSUME PressTyping(key) PROVE KeyboardTypes'
  <2>1. PICK c \in IF keys_down = {} THEN Low[key] ELSE High[key] : Type(c)
    BY <1>2 DEF PressTyping
  <2>2. c \in Chars
    BY <1>2, <2>1, KeyboardAssumption DEF PressTyping, Chars
  <2> QED
    BY <2>1, <2>2, TypeTypes
<1>3. ASSUME PressTab PROVE KeyboardTypes'
  BY <1>3, TabTypes
<1>4. ASSUME PressBackspace PROVE KeyboardTypes'
  BY <1>4, BackspaceTypes
<1>5. ASSUME PressShift(key) \/ ReleaseShift("lshift") \/ ReleaseShift("rshift") PROVE KeyboardTypes'
  BY <1>5 DEF PressShift, ReleaseShift, KeyboardTypes
<1>6. ASSUME PressArrow(-1) \/ PressArrow(1) PROVE KeyboardTypes'
  BY <1>6, ArrowTypes
<1>7. ASSUME PressNumLock \/ PressIdle PROVE KeyboardTypes'
  BY <1>7 DEF PressNumLock, PressIdle, keyboardVars, KeyboardTypes
<1>8. CASE PressEnter
  BY <1>8, EnterTypes
<1>9. PressEnter \/ UNCHANGED shellVars
  BY DEF Handle
<1> QED
  BY <1>1, <1>2, <1>3, <1>4, <1>5, <1>6, <1>7, <1>8, <1>9 DEF Handle

KernelTypes ==
  /\ pc \in Places /\ calls \in Nat /\ message \in Seq(Chars) /\ step \in Steps
  /\ offset \in 0..(CursorMod - 1) /\ index \in Registers
  /\ device \in {"fat12", "none"} /\ installed \in 0..Len(InstallOrder)

DeviceTypes ==
  /\ held \in Seq(Keys) /\ Len(held) <= HeldMax
  /\ port60 \in Keys \cup {None} /\ irq1 \in BOOLEAN
  /\ keys \in 0..MaxKeys /\ firstKeyAt \in Places \cup {None}

LEMMA TypeParts ==
  TypeOK <=> KeyboardTypes /\ KernelTypes /\ ShellTypes /\ DeviceTypes
BY DEF TypeOK, KeyboardTypes, KernelTypes, ShellTypes, DeviceTypes

\* A byte of the cursor, and the cursor with a byte replaced
LEMMA ByteType ==
  ASSUME NEW at \in 0..(CursorMod - 1), NEW register \in Registers
  PROVE  Byte(at, register) \in 0..(ByteMod - 1)
<1>1. ByteMod \in Nat \ {0} /\ CursorMod = ByteMod * ByteMod
  BY ScreenAssumption DEF CursorMod
<1>2. PICK high \in Nat, low \in 0..(ByteMod - 1) :
        high = at \div ByteMod /\ low = at % ByteMod /\ at = ByteMod * high + low
  <2>1. at \in Nat
    BY <1>1
  <2> QED
    BY <1>1, <2>1
<1>3. high < ByteMod
  <2>1. high >= ByteMod => ByteMod * high >= ByteMod * ByteMod
    BY <1>1
  <2>2. ByteMod * high \in Nat /\ ByteMod * high <= at /\ at < ByteMod * ByteMod
    BY <1>1, <1>2
  <2> QED
    BY <1>1, <2>1, <2>2
<1> QED
  BY <1>1, <1>2, <1>3 DEF Byte

LEMMA SetByteType ==
  ASSUME NEW at \in 0..(CursorMod - 1), NEW register \in Registers,
         NEW byte \in 0..(ByteMod - 1)
  PROVE  SetByte(at, register, byte) \in 0..(CursorMod - 1)
<1>1. ByteMod \in Nat \ {0} /\ CursorMod = ByteMod * ByteMod
  BY ScreenAssumption DEF CursorMod
<1>2. PICK high, low \in 0..(ByteMod - 1) :
        /\ low = at % ByteMod /\ at = (high * ByteMod) + low
        /\ at - low = high * ByteMod
  <2>1. /\ Byte(at, 14) = at \div ByteMod /\ Byte(at, 14) \in 0..(ByteMod - 1)
        /\ Byte(at, 15) = at % ByteMod /\ Byte(at, 15) \in 0..(ByteMod - 1)
    BY ByteType DEF Registers, Byte
  <2>2. PICK high, low \in 0..(ByteMod - 1) : high = at \div ByteMod /\ low = at % ByteMod
    BY <2>1
  <2>3. at \in Nat
    BY <1>1
  <2>4. at = (high * ByteMod) + low
    BY <1>1, <2>2, <2>3
  <2>5. at - low = high * ByteMod
    <3>1. high * ByteMod \in Nat
      BY <1>1
    <3> QED
      BY <1>1, <2>4, <3>1
  <2> QED
    BY <2>2, <2>4, <2>5
<1>3. \A h, l \in 0..(ByteMod - 1) : (h * ByteMod) + l \in 0..(CursorMod - 1)
  <2> SUFFICES ASSUME NEW h \in 0..(ByteMod - 1), NEW l \in 0..(ByteMod - 1)
               PROVE  (h * ByteMod) + l \in 0..(CursorMod - 1)
    OBVIOUS
  <2>1. h * ByteMod <= (ByteMod - 1) * ByteMod /\ h * ByteMod \in Nat
    BY <1>1
  <2>2. (ByteMod - 1) * ByteMod = (ByteMod * ByteMod) - ByteMod
    BY <1>1
  <2> QED
    BY <1>1, <2>1, <2>2
<1>4. CASE register = 14
  <2>1. SetByte(at, register, byte) = (byte * ByteMod) + low
    BY <1>2, <1>4 DEF SetByte
  <2> QED
    BY <1>3, <2>1
<1>5. CASE register = 15
  <2>1. SetByte(at, register, byte) = (high * ByteMod) + byte
    BY <1>2, <1>5 DEF SetByte
  <2> QED
    BY <1>3, <2>1
<1> QED
  BY <1>4, <1>5 DEF Registers

\* What kprint_at leaves: characters on the screen, a cursor of two bytes
LEMMA PrintTypes ==
  ASSUME KeyboardTypes, KernelTypes, kprint_at
  PROVE  KeyboardTypes' /\ KernelTypes'
<1>1. /\ screen \in Screen /\ screen.cursor \in 0..(CursorMod - 1)
      /\ offset \in 0..(CursorMod - 1) /\ index \in Registers
      /\ 14 \in Registers /\ 15 \in Registers /\ message \in Seq(Chars)
  BY DEF KeyboardTypes, KernelTypes, Screen, Registers
<1>2. ASSUME screen' \in Screen, strayed' \in BOOLEAN, step' \in Steps,
             message' \in Seq(Chars), offset' \in 0..(CursorMod - 1),
             index' \in Registers
      PROVE  KeyboardTypes' /\ KernelTypes'
  BY <1>2 DEF kprint_at, KeyboardTypes, KernelTypes
<1>3. \A rest : AfterText(rest) \in Steps
  BY DEF AfterText, Steps
<1>4. CASE SelectHigh
  BY <1>1, <1>2, <1>4 DEF SelectHigh, Steps, KeyboardTypes
<1>5. CASE ReadHigh
  <2>1. Byte(screen.cursor, index) \in 0..(ByteMod - 1)
    BY <1>1, ByteType
  <2>2. 0 \in 0..(CursorMod - 1)
    BY Sizes
  <2>3. offset' \in 0..(CursorMod - 1)
    BY <1>1, <1>5, <2>1, <2>2, SetByteType DEF ReadHigh
  <2> QED
    BY <1>1, <1>2, <1>5, <2>3 DEF ReadHigh, Steps, KeyboardTypes
<1>6. CASE ReadLow
  <2>1. Byte(screen.cursor, 15) \in 0..(ByteMod - 1)
    BY <1>1, ByteType
  <2>2. offset' \in 0..(CursorMod - 1)
    BY <1>1, <1>6, <2>1, SetByteType DEF ReadLow
  <2> QED
    BY <1>1, <1>2, <1>3, <1>6, <2>2 DEF ReadLow, KeyboardTypes
<1>7. CASE PutChar
  <2>1. PICK here : here = [screen EXCEPT !.cursor = offset]
    OBVIOUS
  <2>2. PICK there : there = PrintChar(here, Head(message))
    OBVIOUS
  <2>3. here \in Screen
    BY <1>1, <2>1 DEF Screen
  <2>4. Head(message) \in Chars /\ Tail(message) \in Seq(Chars)
    BY <1>1, <1>7 DEF PutChar
  <2>5. there \in Screen
    BY <2>2, <2>3, <2>4, PrintCharType
  <2>6. /\ screen' = [there EXCEPT !.cursor = screen.cursor]
        /\ offset' = there.cursor /\ message' = Tail(message) /\ index' = index
        /\ step' = IF OnScreen(here) THEN "write" ELSE AfterText(Tail(message))
    BY <1>7, <2>1, <2>2 DEF PutChar
  <2>7. screen' \in Screen /\ offset' \in 0..(CursorMod - 1)
    BY <1>1, <2>5, <2>6 DEF Screen
  <2>8. step' \in Steps
    BY <1>3, <2>6 DEF Steps
  <2>9. strayed' \in BOOLEAN
    BY <1>7 DEF PutChar, Disturbs, OnScreen
  <2> QED
    BY <1>1, <1>2, <2>4, <2>6, <2>7, <2>8, <2>9
<1>8. ASSUME NEW register \in Registers, NEW share \in Registers,
             WriteByte(register, share), step' \in Steps
      PROVE  KeyboardTypes' /\ KernelTypes'
  <2>1. Byte(offset, share) \in 0..(ByteMod - 1)
    BY <1>1, <1>8, ByteType
  <2>2. PICK at \in 0..(CursorMod - 1) :
          at = SetByte(screen.cursor, register, Byte(offset, share))
    BY <1>1, <1>8, <2>1, SetByteType
  <2>3. screen' = [screen EXCEPT !.cursor = at]
    BY <1>8, <2>2 DEF WriteByte
  <2>4. screen' \in Screen
    BY <1>1, <2>3 DEF Screen
  <2>5. strayed' \in BOOLEAN
    BY <1>8 DEF WriteByte, Disturbs, OnScreen
  <2> QED
    BY <1>1, <1>2, <1>8, <2>4, <2>5 DEF WriteByte
<1>9. CASE WriteHigh
  BY <1>1, <1>8, <1>9 DEF WriteHigh, Steps
<1>10. CASE WriteLow
  BY <1>1, <1>3, <1>8, <1>10 DEF WriteLow
<1> QED
  BY <1>4, <1>5, <1>6, <1>7, <1>9, <1>10 DEF kprint_at

\* The texts of kernel_main are texts
LEMMA StartTextTypes ==
  /\ StartTexts \subseteq Seq(Chars)
  /\ {hint \o PromptText : hint \in StartTexts} \subseteq Seq(Chars)
<1>1. Symbols \cup {Newline} \subseteq Chars /\ Symbols \subseteq Chars
  BY DEF Chars
<1>2. StartTexts \subseteq Seq(Chars) /\ PromptText \in Seq(Chars)
  BY <1>1, ConsoleAssumption
<1>3. \A hint \in Seq(Chars) : hint \o PromptText \in Seq(Chars)
  BY <1>2
<1> QED
  BY <1>2, <1>3

LEMMA MainTypes ==
  ASSUME TypeOK, kernel_main
  PROVE  TypeOK'
<1> SUFFICES KeyboardTypes' /\ KernelTypes' /\ ShellTypes' /\ DeviceTypes'
  BY DEF TypeOK, KeyboardTypes, KernelTypes, ShellTypes, DeviceTypes
<1>1. KeyboardTypes /\ KernelTypes /\ ShellTypes /\ DeviceTypes
  BY TypeParts
<1>2. ASSUME UNCHANGED keyboardVars PROVE KeyboardTypes'
  BY <1>1, <1>2 DEF keyboardVars, KeyboardTypes
<1>3. ASSUME UNCHANGED deviceVars PROVE DeviceTypes'
  BY <1>1, <1>3 DEF deviceVars, DeviceTypes
<1>4. ASSUME UNCHANGED shellVars PROVE ShellTypes'
  BY <1>1, <1>4 DEF shellVars, ShellTypes
<1>5. ASSUME NEW place \in Places, Reach(place), device' = device,
             installed' \in 0..Len(InstallOrder)
      PROVE  KernelTypes'
  BY <1>1, <1>5 DEF Reach, printVars, KernelTypes
<1>6. CASE irq_install
  <2>1. screen' \in Screen
    BY <1>1, <1>6, StartTextTypes, kprintType DEF irq_install, KeyboardTypes
  <2>2. strayed' \in BOOLEAN
    BY <1>6 DEF irq_install, Disturbs, OnScreen
  <2>3. KeyboardTypes'
    BY <1>1, <1>6, <2>1, <2>2 DEF irq_install, KeyboardTypes
  <2>4. KernelTypes'
    BY <1>1, <1>6 DEF irq_install, printVars, KernelTypes, Places
  <2>5. DeviceTypes'
    BY <1>1, <1>6 DEF irq_install, DeviceTypes
  <2> QED
    BY <1>4, <1>6, <2>3, <2>4, <2>5 DEF irq_install
<1>7. CASE init_keyboard
  <2>1. key_buffer' \in [Bytes -> Chars]
    BY <1>7, CharsAre DEF init_keyboard
  <2>2. KeyboardTypes'
    BY <1>1, <1>7, <2>1 DEF init_keyboard, KeyboardTypes
  <2>3. "log" \in Places /\ installed \in 0..Len(InstallOrder)
    BY <1>1 DEF Places, KernelTypes
  <2>4. KernelTypes'
    BY <1>5, <1>7, <2>3 DEF init_keyboard
  <2> QED
    BY <1>3, <1>4, <1>7, <2>2, <2>4 DEF init_keyboard, Reach
<1>8. CASE FindFilesystem
  <2>1. "install" \in Places /\ "greet" \in Places /\ installed \in 0..Len(InstallOrder)
    BY <1>1 DEF Places, KernelTypes
  <2>2. KernelTypes'
    BY <1>5, <1>8, <2>1 DEF FindFilesystem
  <2> QED
    BY <1>2, <1>3, <1>4, <1>8, <2>2 DEF FindFilesystem, Reach
<1>9. CASE InstallFunction
  <2>1. installed' \in 0..Len(InstallOrder)
    BY <1>1, <1>9 DEF InstallFunction, KernelTypes, InstallOrder
  <2>2. "install" \in Places /\ "greet" \in Places
    BY DEF Places
  <2>3. KernelTypes'
    BY <1>5, <1>9, <2>1, <2>2 DEF InstallFunction
  <2> QED
    BY <1>2, <1>3, <1>4, <1>9, <2>3 DEF InstallFunction, Reach
<1>10. ASSUME NEW place, NEW number, NEW texts \in SUBSET Seq(Chars),
              NEW next \in Places, Prints(place, number, texts, next)
       PROVE  KeyboardTypes' /\ KernelTypes' /\ ShellTypes' /\ DeviceTypes'
  <2>1. /\ calls' \in Nat /\ message' \in Seq(Chars) /\ step' \in Steps
        /\ pc' \in Places
    BY <1>1, <1>10 DEF Prints, KernelTypes, Steps
  <2>2. KernelTypes'
    BY <1>1, <1>10, <2>1 DEF Prints, KernelTypes
  <2> QED
    BY <1>2, <1>3, <1>4, <1>10, <2>2 DEF Prints
<1>11. CASE LogStart \/ Greet \/ FirstPrompt
  <2>1. "filesystem" \in Places /\ "prompt" \in Places /\ "spin" \in Places
    BY DEF Places
  <2> QED
    BY <1>10, <1>11, <2>1, StartTextTypes, Zenon DEF LogStart, Greet, FirstPrompt
<1>12. CASE kprint_at
  <2>1. KeyboardTypes' /\ KernelTypes'
    BY <1>1, <1>12, PrintTypes
  <2> QED
    BY <1>3, <1>4, <1>12, <2>1 DEF kprint_at
<1> QED
  BY <1>6, <1>7, <1>8, <1>9, <1>11, <1>12 DEF kernel_main

LEMMA NextTypes == TypeOK /\ [Next]_vars => TypeOK'
<1> SUFFICES ASSUME TypeOK, [Next]_vars PROVE TypeOK'
  OBVIOUS
<1>1. KeyboardTypes /\ KernelTypes /\ ShellTypes /\ DeviceTypes
  BY TypeParts
<1>2. ASSUME UNCHANGED keyboardVars PROVE KeyboardTypes'
  BY <1>1, <1>2 DEF keyboardVars, KeyboardTypes
<1>3. ASSUME UNCHANGED kernelVars, index' = index \/ index' = 15 PROVE KernelTypes'
  BY <1>1, <1>3 DEF kernelVars, printVars, KernelTypes, Registers
<1>4. ASSUME UNCHANGED shellVars PROVE ShellTypes'
  BY <1>1, <1>4 DEF shellVars, ShellTypes
<1>5. CASE UNCHANGED vars
  <2>1. DeviceTypes'
    BY <1>1, <1>5 DEF vars, deviceVars, DeviceTypes
  <2> QED
    BY <1>2, <1>3, <1>4, <1>5, <2>1 DEF vars, TypeOK, KeyboardTypes, KernelTypes,
       ShellTypes, DeviceTypes
<1>6. CASE kernel_main
  BY <1>6, MainTypes
<1>7. CASE irq_handler
  <2>1. KeyboardTypes' /\ ShellTypes'
    <3>1. CASE HandlerInstalled
      BY <1>1, <1>7, <3>1, HandleTypes DEF irq_handler
    <3>2. CASE ~HandlerInstalled
      BY <1>2, <1>4, <1>7, <3>2 DEF irq_handler
    <3> QED
      BY <3>1, <3>2
  <2>2. DeviceTypes'
    BY <1>1, <1>7 DEF irq_handler, DeviceTypes
  <2>3. index' = index \/ index' = 15
    BY <1>7 DEF irq_handler
  <2>4. KernelTypes'
    BY <1>3, <1>7, <2>3 DEF irq_handler
  <2> QED
    BY <2>1, <2>2, <2>4 DEF TypeOK, KeyboardTypes, KernelTypes, ShellTypes,
       DeviceTypes
<1>8. CASE Deliver
  <2>1. held # << >> /\ held \in Seq(Keys) /\ Len(held) <= HeldMax /\ HeldMax \in Nat
    BY <1>1, <1>8, ConsoleAssumption DEF Deliver, DeviceTypes
  <2>2. Head(held) \in Keys /\ Tail(held) \in Seq(Keys) /\ Len(Tail(held)) <= HeldMax
    BY <2>1
  <2>3. DeviceTypes'
    BY <1>1, <1>8, <2>2 DEF Deliver, DeviceTypes
  <2> QED
    BY <1>2, <1>3, <1>4, <1>8, <2>3 DEF Deliver, TypeOK, KeyboardTypes, KernelTypes,
       ShellTypes, DeviceTypes
<1>9. ASSUME NEW key \in Keys, Press(key) PROVE TypeOK'
  <2>1. held \in Seq(Keys) /\ Len(held) < HeldMax /\ HeldMax \in Nat /\ MaxKeys \in Nat
    BY <1>1, <1>9, ConsoleAssumption DEF Press, MayPress, DeviceTypes
  <2>2. Append(held, key) \in Seq(Keys) /\ Len(Append(held, key)) <= HeldMax
    BY <2>1
  <2>3. keys + 1 \in 0..MaxKeys
    BY <1>1, <1>9, <2>1 DEF Press, MayPress, DeviceTypes
  <2>4. DeviceTypes'
    BY <1>1, <1>9, <2>2, <2>3 DEF Press, DeviceTypes, KernelTypes
  <2> QED
    BY <1>2, <1>3, <1>4, <1>9, <2>4 DEF Press, TypeOK, KeyboardTypes, KernelTypes,
       ShellTypes, DeviceTypes
<1> QED
  BY <1>5, <1>6, <1>7, <1>8, <1>9 DEF Next

LEMMA InitTypes == Init => TypeOK
<1> SUFFICES ASSUME Init PROVE TypeOK
  OBVIOUS
<1>1. screen \in Screen
  BY Sizes, CharsAre DEF Init, Screen
<1>2. KeyboardTypes
  <2>1. [i \in Bytes |-> NUL] \in [Bytes -> Chars] /\ << >> \in Seq(Chars)
    BY CharsAre
  <2> QED
    BY <1>1, <2>1 DEF Init, KeyboardTypes
<1>3. KernelTypes
  BY Sizes DEF Init, KernelTypes, Places, Steps, Registers, InstallOrder
<1>4. ShellTypes
  BY DEF Init, ShellTypes, Contexts
<1>5. DeviceTypes
  <2>1. << >> \in Seq(Keys) /\ Len(<< >>) <= HeldMax /\ 0 \in 0..MaxKeys
    <3>1. HeldMax \in Nat /\ MaxKeys \in Nat
      BY ConsoleAssumption
    <3> QED
      BY <3>1
  <2> QED
    BY <2>1 DEF Init, DeviceTypes
<1> QED
  BY <1>2, <1>3, <1>4, <1>5 DEF TypeOK, KeyboardTypes, KernelTypes, ShellTypes, DeviceTypes

(***************************************************************************)
(* Every variable of the console has its type: whatever is printed where,  *)
(* what is in video memory are characters and the cursor is what its       *)
(* registers can hold (screen.c).                                          *)
(***************************************************************************)
THEOREM TypeAlwaysOK == Spec => []TypeOK
BY InitTypes, NextTypes, PTL DEF Spec

-----------------------------------------------------------------------------
(* The line on the screen *)

\* The end of text stands before the cursor of s
Shows(s, text) ==
  /\ OnScreen(s)
  /\ \A i \in 1..Len(text) :
       i <= s.cursor => s.cells[s.cursor - i] = text[Len(text) + 1 - i]

LEMMA ShowsLine ==
  ASSUME NEW s \in Screen, NEW text \in Seq(Chars)
  PROVE  Shows(s, text) <=>
           /\ OnScreen(s)
           /\ \A i \in 1..Min({Len(text), s.cursor}) :
                s.cells[s.cursor - i] = text[Len(text) + 1 - i]
<1>1. PICK l, at \in Nat : l = Len(text) /\ at = s.cursor
  <2>1. s.cursor \in Nat
    BY Sizes DEF Screen
  <2> QED
    BY <2>1
<1>2. PICK m : m = Min({l, at})
  OBVIOUS
<1>3. m \in {l, at} /\ m <= l /\ m <= at
  BY <1>2, SmallestMember
<1>4. \A i : i \in 1..m <=> i \in 1..l /\ i <= at
  BY <1>3
<1> QED
  BY <1>1, <1>2, <1>4 DEF Shows

LEMMA CellBefore == \A at, k \in Nat : k <= at /\ at < Size => at - k \in Cells
BY Sizes DEF Cells

\* Printing a character adds it to the text, also when the screen scrolls
LEMMA PrintCharShows ==
  ASSUME NEW s \in Screen, NEW text \in Seq(Chars), Shows(s, text),
         NEW c \in Chars \ {NUL, Newline, Backspace}
  PROVE  Shows(PrintChar(s, c), Append(text, c))
<1>1. PICK l, at \in Nat : /\ l = Len(text) /\ at = s.cursor
                          /\ at < Size /\ at \in Cells
  BY Sizes DEF Shows, OnScreen, Screen, Cells
<1>2. PICK cells : cells = [s.cells EXCEPT ![at] = c]
  OBVIOUS
<1>3. /\ cells \in [Cells -> Chars] /\ cells[at] = c
      /\ \A j \in Cells : j # at => cells[j] = s.cells[j]
  BY <1>1, <1>2 DEF Screen
<1>4. PICK longer \in Seq(Chars) : longer = Append(text, c)
  <2>1. Append(text, c) \in Seq(Chars)
    OBVIOUS
  <2> QED
    BY <2>1, Zenon
<1>5. /\ Len(longer) = l + 1 /\ longer[l + 1] = c
      /\ \A i \in 1..l : longer[i] = text[i]
  BY <1>1, <1>4
<1>6. ASSUME NEW i \in 1..(l + 1), i <= at + 1
      PROVE  cells[(at + 1) - i] = longer[(l + 1) + 1 - i]
  <2>1. CASE i = 1
    <3>1. (at + 1) - i = at /\ (l + 1) + 1 - i = l + 1
      BY <2>1, <1>1
    <3> QED
      BY <1>3, <1>5, <3>1
  <2>2. CASE i # 1
    <3>1. /\ i - 1 \in 1..l /\ i - 1 <= at /\ (at + 1) - i = at - (i - 1)
          /\ (l + 1) + 1 - i = l + 1 - (i - 1) /\ l + 1 - (i - 1) \in 1..l
          /\ at - (i - 1) # at
      BY <1>1, <1>6, <2>2
    <3>2. at - (i - 1) \in Cells
      <4>1. i - 1 \in Nat /\ i - 1 <= at /\ at \in Nat /\ at < Size
        BY <1>1, <3>1
      <4> QED
        BY <1>1, <4>1, CellBefore, Zenon
    <3>3. s.cells[at - (i - 1)] = text[l + 1 - (i - 1)]
      BY <1>1, <3>1 DEF Shows
    <3> QED
      BY <1>3, <1>5, <3>1, <3>2, <3>3
  <2> QED
    BY <2>1, <2>2
<1>7. PrintChar(s, c) = Settle([cells |-> cells, cursor |-> at + 1])
  BY <1>1, <1>2 DEF PrintChar, OnScreen
<1>8. CASE at + 1 < Size
  <2>1. PrintChar(s, c) = [cells |-> cells, cursor |-> at + 1]
    BY <1>7, <1>8 DEF Settle, OnScreen
  <2>2. \A i \in 1..(l + 1) : i <= at + 1 =>
          cells[(at + 1) - i] = longer[(l + 1) + 1 - i]
    BY <1>6, Zenon
  <2>3. PICK shown : shown = PrintChar(s, c)
    OBVIOUS
  <2>4. shown.cells = cells /\ shown.cursor = at + 1
    BY <2>1, <2>3
  <2>5. Shows(shown, longer)
    <3>1. shown.cursor < Size
      BY <1>8, <2>4, Zenon
    <3>2. \A i \in 1..Len(longer) : i <= shown.cursor =>
            shown.cells[shown.cursor - i] = longer[Len(longer) + 1 - i]
      BY <1>5, <2>2, <2>4, Zenon
    <3> QED
      BY <3>1, <3>2, Zenon DEF Shows, OnScreen
  <2> QED
    BY <1>4, <2>3, <2>5, Zenon
<1>9. CASE ~(at + 1 < Size)
  <2>1. at + 1 = Size
    BY <1>1, <1>9, Sizes
  <2>2. PICK scrolled : scrolled = [i \in Cells |->
                           IF i + Cols < Size THEN cells[i + Cols] ELSE NUL]
    OBVIOUS
  <2>3. PrintChar(s, c) = [cells |-> scrolled, cursor |-> (at + 1) - Cols]
    <3>1. ~OnScreen([cells |-> cells, cursor |-> at + 1])
      BY <1>9 DEF OnScreen
    <3>2. PrintChar(s, c) = ScrollUp([cells |-> cells, cursor |-> at + 1])
      BY <1>7, <3>1 DEF Settle
    <3>3. ScrollUp([cells |-> cells, cursor |-> at + 1]) =
            [cells |-> [i \in Cells |-> IF i + Cols < Size THEN cells[i + Cols] ELSE NUL],
             cursor |-> (at + 1) - Cols]
      BY DEF ScrollUp
    <3> QED
      BY <2>2, <3>2, <3>3, Zenon
  <2>4. PICK now \in Nat : now = (at + 1) - Cols /\ now < Size
    BY <1>1, <2>1, Sizes
  <2>5. ASSUME NEW i \in 1..(l + 1), i <= now
        PROVE  scrolled[now - i] = longer[(l + 1) + 1 - i]
    <3>0. /\ i \in Nat /\ i >= 1 /\ i <= now
          /\ Cols \in Nat /\ Cols >= 1 /\ Size \in Nat
      BY <1>1, <2>5, Sizes
    <3>1. /\ now - i \in Cells /\ (now - i) + Cols = (at + 1) - i
          /\ (at + 1) - i < Size /\ i <= at + 1
      <4>1. now - i \in Nat /\ now - i <= Size - 1
        BY <2>4, <3>0
      <4>2. (now - i) + Cols = (at + 1) - i /\ (at + 1) - i < Size /\ i <= at + 1
        <5>1. (now - i) + Cols = (at + 1) - i
          BY <2>4, <3>0
        <5>2. (at + 1) - i < Size
          BY <1>1, <2>1, <3>0
        <5>3. i <= at + 1
          BY <1>1, <2>4, <3>0
        <5> QED
          BY <5>1, <5>2, <5>3
      <4> QED
        BY <3>0, <4>1, <4>2 DEF Cells
    <3>2. scrolled[now - i] = cells[(at + 1) - i]
      BY <2>2, <3>1
    <3> QED
      BY <1>6, <3>1, <3>2
  <2>6. PrintChar(s, c) = [cells |-> scrolled, cursor |-> now]
    BY <2>3, <2>4
  <2> QED
    BY <1>4, <1>5, <2>4, <2>5, <2>6 DEF Shows, OnScreen
<1> QED
  BY <1>8, <1>9

LEMMA OnePrinted ==
  ASSUME NEW s, NEW c
  PROVE  kprint(s, <<c>>) = PrintChar(s, c)
<1>1. Len(<<c>>) = 1 /\ <<c>>[1] = c
  OBVIOUS
<1>2. PICK w : /\ kprint(s, <<c>>) = w[1] /\ w[0] = s
               /\ \A n \in 0..0 : w[n + 1] = PrintChar(w[n], <<c>>[n + 1])
  <2>1. 1 \in Nat /\ 1 - 1 = 0
    OBVIOUS
  <2>2. PICK w : PrintsTo(w, s, <<c>>, 1)
    BY <1>1, <2>1, PrintsOne, Zenon
  <2> QED
    BY <2>1, <2>2, Zenon DEF PrintsTo
<1>3. w[1] = PrintChar(w[0], <<c>>[1])
  BY <1>2
<1> QED
  BY <1>1, <1>2, <1>3

\* Printing blanks adds them to the text
LEMMA BlanksShow ==
  ASSUME NEW s \in Screen, NEW text \in Seq(Chars), Shows(s, text), NEW N \in Nat
  PROVE  Shows(kprint(s, [i \in 1..N |-> Blank]), text \o [i \in 1..N |-> Blank])
<1> DEFINE blanks(n) == [i \in 1..n |-> Blank]
<1>1. Blank \in Chars \ {NUL, Newline, Backspace}
  BY CharsAre DEF Blank, NUL, Newline, Backspace
<1>2. \A n \in Nat : /\ blanks(n) \in Seq(Chars) /\ Len(blanks(n)) = n
                     /\ \A i \in 1..n : blanks(n)[i] = Blank
  BY <1>1
<1>3. ASSUME NEW n \in Nat
      PROVE  text \o blanks(n + 1) = Append(text \o blanks(n), Blank)
  BY <1>1
<1>4. text \o blanks(0) = text
  OBVIOUS
<1> HIDE DEF blanks
<1>5. PICK w : /\ kprint(s, blanks(N)) = w[N] /\ w[0] = s
               /\ \A n \in 0..(N - 1) : w[n + 1] = PrintChar(w[n], blanks(N)[n + 1])
  <2>1. PICK all : all = blanks(N)
    OBVIOUS
  <2>2. Len(all) = N
    BY <1>2, <2>1
  <2>3. PICK w : PrintsTo(w, s, all, N)
    BY <2>2, PrintsOne, Zenon
  <2> QED
    BY <2>1, <2>3, Zenon DEF PrintsTo
<1> DEFINE S == {n \in 0..N : ~(w[n] \in Screen /\ Shows(w[n], text \o blanks(n)))}
<1>6. CASE S = {}
  <2>1. Shows(w[N], text \o blanks(N))
    BY <1>6
  <2> QED
    BY <1>5, <2>1 DEF blanks
<1>7. CASE S # {}
  <2>1. PICK m : m = Min(S)
    OBVIOUS
  <2>2. m \in S /\ \A k \in S : m <= k
    <3>1. S \subseteq Nat
      OBVIOUS
    <3> HIDE DEF S
    <3> QED
      BY <1>7, <2>1, <3>1, SmallestMember
  <2>3. m # 0 /\ m \in 0..N
    BY <1>4, <1>5, <2>2
  <2>4. PICK k \in Nat : m = k + 1 /\ k \in 0..(N - 1) /\ k \notin S
    <3>1. m - 1 \in Nat /\ m = (m - 1) + 1 /\ m - 1 \in 0..(N - 1) /\ ~(m <= m - 1)
      BY <2>3
    <3>2. m - 1 \notin S
      BY <2>2, <3>1
    <3> QED
      BY <3>1, <3>2
  <2>5. w[k] \in Screen /\ Shows(w[k], text \o blanks(k))
    BY <2>4
  <2>6. w[m] = PrintChar(w[k], Blank)
    <3>1. k + 1 \in 1..N
      BY <2>4
    <3>2. blanks(N)[k + 1] = Blank
      BY <1>2, <3>1
    <3> QED
      BY <1>5, <2>4, <3>2
  <2>7. w[m] \in Screen
    BY <1>1, <2>5, <2>6, PrintCharType
  <2>8. text \o blanks(k) \in Seq(Chars)
    BY <1>2, <2>4
  <2>9. Shows(w[m], text \o blanks(m))
    BY <1>1, <1>3, <2>4, <2>5, <2>6, <2>8, PrintCharShows
  <2> QED
    BY <2>2, <2>7, <2>9
<1> QED
  BY <1>6, <1>7

\* Erasing takes the last character from both
LEMMA BackspaceShows ==
  ASSUME NEW s \in Screen, NEW text \in Seq(Chars), Shows(s, text)
  PROVE  Shows(kprint_backspace(s), IF text = << >> THEN text ELSE Front(text))
<1>1. PICK l, at, to \in Nat : /\ l = Len(text) /\ at = s.cursor
                              /\ to = (IF at = 0 THEN 0 ELSE at - 1)
                              /\ at < Size /\ to < Size /\ to \in Cells
  BY Sizes DEF Shows, OnScreen, Screen, Cells
<1>2. PICK cells : cells = [s.cells EXCEPT ![to] = Blank]
  OBVIOUS
<1>3. \A j \in Cells : j # to => cells[j] = s.cells[j]
  BY <1>1, <1>2 DEF Screen
<1>4. kprint_backspace(s) = [cells |-> cells, cursor |-> to]
  <2>1. to = (IF s.cursor = 0 THEN 0 ELSE s.cursor - 1) /\ ~(to >= Size)
    BY <1>1, Sizes
  <2>2. kprint_backspace(s) = [cells |-> [s.cells EXCEPT ![to] = Blank], cursor |-> to]
    BY <2>1 DEF kprint_backspace
  <2> QED
    BY <1>2, <2>2
<1>5. CASE text = << >>
  BY <1>1, <1>4, <1>5 DEF Shows, OnScreen
<1>6. CASE text # << >>
  <2>1. PICK front : front = Front(text)
    OBVIOUS
  <2>2. l - 1 \in Nat /\ Len(front) = l - 1 /\ \A i \in 1..(l - 1) : front[i] = text[i]
    <3>1. front = SubSeq(text, 1, Len(text) - 1) /\ l > 0
      BY <1>1, <1>6, <2>1 DEF Front
    <3> QED
      BY <1>1, <3>1
  <2>3. ASSUME NEW i \in 1..(l - 1), i <= to
        PROVE  cells[to - i] = front[(l - 1) + 1 - i]
    <3>1. /\ i + 1 \in 1..l /\ i + 1 <= at /\ to - i = at - (i + 1)
          /\ l + 1 - (i + 1) = (l - 1) + 1 - i /\ (l - 1) + 1 - i \in 1..(l - 1)
          /\ to - i # to
      <4>1. i \in Nat \ {0} /\ i <= l - 1 /\ to = at - 1 /\ l \in Nat /\ at \in Nat
        BY <1>1, <2>3
      <4> QED
        BY <4>1, <2>3
    <3>2. to - i \in Cells
      BY <1>1, <2>3, Sizes DEF Cells
    <3>3. s.cells[at - (i + 1)] = text[l + 1 - (i + 1)]
      BY <1>1, <3>1 DEF Shows
    <3> QED
      BY <1>3, <2>2, <3>1, <3>2, <3>3
  <2>4. OnScreen([cells |-> cells, cursor |-> to])
    BY <1>1 DEF OnScreen
  <2>5. Shows([cells |-> cells, cursor |-> to], front)
    BY <2>2, <2>3, <2>4 DEF Shows
  <2> QED
    BY <1>4, <1>6, <2>1, <2>5
<1> QED
  BY <1>5, <1>6

LineShown == wild = "no" /\ ~strayed => Shows(screen, line)

LEMMA ShownIsProperty ==
  ASSUME TypeOK
  PROVE  LineShown <=> ScreenShowsLine
<1>1. screen \in Screen /\ line \in Seq(Chars)
  BY DEF TypeOK
<1> QED
  BY <1>1, ShowsLine DEF LineShown, ScreenShowsLine

LEMMA EmptyShows ==
  ASSUME NEW s, OnScreen(s)
  PROVE  Shows(s, << >>)
BY DEF Shows

LEMMA HandleShows ==
  ASSUME TypeOK, LineShown, wild = "no", NEW key, Handle(key)
  PROVE  LineShown'
<1> SUFFICES ASSUME wild' = "no", ~strayed' PROVE Shows(screen', line')
  BY DEF LineShown
<1>1. screen \in Screen /\ line \in Seq(Chars) /\ (~strayed => Shows(screen, line))
  BY DEF TypeOK, LineShown
<1>2. CASE PressTyping(key)
  <2>1. PICK c \in IF keys_down = {} THEN Low[key] ELSE High[key] : Type(c)
    BY <1>2 DEF PressTyping
  <2>2. c \in Chars
    BY <1>2, <2>1, KeyboardAssumption DEF PressTyping, Chars
  <2>3. /\ ~strayed /\ c \notin {Newline, Backspace}
        /\ screen' = PrintChar(screen, c)
        /\ line' = IF c = NUL THEN line ELSE Append(line, c)
    BY <2>1, OnePrinted DEF Type
  <2>4. CASE c = NUL
    BY <1>1, <2>3, <2>4 DEF PrintChar
  <2>5. CASE c # NUL
    BY <1>1, <2>2, <2>3, <2>5, PrintCharShows
  <2> QED
    BY <2>4, <2>5
<1>3. CASE PressTab
  <2>1. /\ ~strayed
        /\ screen' = kprint(screen, [i \in 1..TabWidth |-> Blank])
        /\ line' = line \o [i \in 1..TabWidth |-> Blank]
    BY <1>3 DEF PressTab
  <2> QED
    BY <1>1, <2>1, BlanksShow, KeyboardAssumption
<1>4. CASE PressBackspace
  BY <1>1, <1>4, BackspaceShows DEF PressBackspace
<1>5. CASE PressEnter
  BY <1>5, EmptyShows DEF PressEnter
<1>6. CASE PressShift(key) \/ ReleaseShift("lshift") \/ ReleaseShift("rshift")
  BY <1>1, <1>6 DEF PressShift, ReleaseShift
<1>7. CASE PressArrow(-1) \/ PressArrow(1)
  BY <1>1, <1>7 DEF PressArrow
<1>8. CASE PressNumLock \/ PressIdle
  BY <1>1, <1>8 DEF PressNumLock, PressIdle, keyboardVars
<1> QED
  BY <1>2, <1>3, <1>4, <1>5, <1>6, <1>7, <1>8 DEF Handle

LEMMA NextShows == TypeOK /\ LineShown /\ [Next]_vars => LineShown'
<1> SUFFICES ASSUME TypeOK, LineShown, [Next]_vars PROVE LineShown'
  OBVIOUS
<1>1. ASSUME UNCHANGED <<wild, strayed, screen, line>> PROVE LineShown'
  BY <1>1 DEF LineShown
<1>2. CASE UNCHANGED vars
  BY <1>1, <1>2 DEF vars, keyboardVars
<1>3. CASE Deliver \/ \E key \in Keys : Press(key)
  BY <1>1, <1>3 DEF Deliver, Press, keyboardVars
<1>4. CASE irq_handler
  <2>1. wild = "no"
    BY <1>4 DEF irq_handler, Running
  <2>2. CASE HandlerInstalled
    BY <1>4, <2>1, <2>2, HandleShows DEF irq_handler
  <2>3. CASE ~HandlerInstalled
    BY <1>1, <1>4, <2>3 DEF irq_handler, keyboardVars
  <2> QED
    BY <2>2, <2>3
<1>5. CASE kernel_main
  <2>1. CASE FindFilesystem \/ InstallFunction
    BY <1>1, <2>1 DEF FindFilesystem, InstallFunction, keyboardVars
  <2>2. CASE LogStart \/ Greet \/ FirstPrompt
    BY <1>1, <2>2 DEF LogStart, Greet, FirstPrompt, Prints, keyboardVars
  <2>3. CASE init_keyboard
    BY <1>1, <2>3 DEF init_keyboard
  <2>4. ASSUME Disturbs, line' = line PROVE LineShown'
    <3>1. ~ strayed' => line' = << >> /\ OnScreen(screen')
      BY <2>4 DEF Disturbs
    <3> QED
      BY <3>1, EmptyShows DEF LineShown
  <2>5. CASE irq_install
    BY <2>4, <2>5 DEF irq_install
  <2>6. CASE kprint_at
    <3>1. UNCHANGED <<wild, line>>
      BY <2>6 DEF kprint_at
    <3>2. CASE SelectHigh \/ ReadHigh \/ ReadLow
      BY <1>1, <3>1, <3>2 DEF SelectHigh, ReadHigh, ReadLow
    <3>3. CASE PutChar \/ WriteHigh \/ WriteLow
      BY <2>4, <3>1, <3>3 DEF PutChar, WriteHigh, WriteLow, WriteByte
    <3> QED
      BY <2>6, <3>2, <3>3 DEF kprint_at
  <2> QED
    BY <1>5, <2>1, <2>2, <2>3, <2>5, <2>6 DEF kernel_main
<1> QED
  BY <1>2, <1>3, <1>4, <1>5 DEF Next

(***************************************************************************)
(* While nothing moved the cursor away, the user sees the line that ENTER  *)
(* will give to the shell: as much of its end as the screen has room for   *)
(* stands before the cursor (screen.c with keyboard.c), for every size of  *)
(* screen and buffer.                                                      *)
(***************************************************************************)
THEOREM LineAlwaysShown == Spec => []ScreenShowsLine
<1>1. Init => LineShown
  <2> SUFFICES ASSUME Init PROVE Shows(screen, line)
    BY DEF LineShown
  <2>1. OnScreen(screen)
    <3>1. screen.cursor = 0 /\ 0 < Size
      BY Sizes DEF Init
    <3> QED
      BY <3>1 DEF OnScreen
  <2> QED
    BY <2>1, EmptyShows DEF Init
<1>2. TypeOK /\ LineShown => ScreenShowsLine
  BY ShownIsProperty
<1> QED
  BY TypeAlwaysOK, <1>1, <1>2, NextShows, PTL DEF Spec
=============================================================================
