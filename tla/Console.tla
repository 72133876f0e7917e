------------------------------- MODULE Console -------------------------------
(***************************************************************************)
(* The kernel as its user meets it: kernel_main (kernel.c), which prepares *)
(* everything and then spins, the interrupts that it turns on before it    *)
(* has prepared anything (isr.c), the table of filesystem functions        *)
(* (kern_disk.c), and the shell, which runs in the keyboard's handler.     *)
(*                                                                         *)
(* A handler is one step: its gate keeps other interrupts out.  What       *)
(* kernel_main prints goes to the screen access by access, and a handler   *)
(* may print between any two.  Texts and their number are constants, and   *)
(* of the commands that a line can name, any: Keyboard follows the         *)
(* characters.                                                             *)
(*                                                                         *)
(* The keyboard controller keeps one scancode at port 0x60 and raises IRQ1 *)
(* when it puts it there.  It puts the next one only after a read.         *)
(***************************************************************************)
EXTENDS Keyboard

CONSTANTS
  StartTexts,  \* what kernel_main may print on its way
  Logs,        \* calls of kprint before it looks for a filesystem
  Greetings,   \* and after that, up to the first prompt
  Outputs,     \* what a command may print
  PromptText,  \* what every prompt looks like
  HeldMax,     \* scancodes the keyboard keeps
  MaxKeys,     \* bound: keys pressed
  MaxEarly,    \* bound: keys pressed before kernel_main spins
  HastyKeys    \* bound: those pressed then, or while others wait

ASSUME ConsoleAssumption ==
  /\ StartTexts \subseteq Seq(Symbols \cup {Newline}) /\ StartTexts # {}
  /\ Logs \in Nat /\ Greetings \in Nat
  /\ Outputs \subseteq Seq(Chars) /\ Outputs # {}
  /\ PromptText \in Seq(Symbols)
  /\ HeldMax \in Nat \ {0} /\ MaxKeys \in Nat /\ MaxEarly \in Nat

VARIABLES
  pc,             \* where kernel_main is
  calls,          \* how many calls of kprint it has made there
  message,        \* what is left of the text being printed
  step,           \* what kprint_at does next: an element of Steps
  offset,         \* kprint_at's local variable, as a cell
  index,          \* the register that the video controller has selected
  device,         \* there is a disk this kernel reads: "fat12" or "none"
  installed,      \* how many members of fs_functions are set
  shell_context,
  halted,         \* END
  held,           \* scancodes in the keyboard
  port60,         \* the controller's byte
  irq1,           \* the interrupt is pending
  keys,           \* keys pressed so far
  firstKeyAt      \* history: where kernel_main was at the first of them

printVars  == <<calls, message, step, offset>>
kernelVars == <<pc, printVars, device, installed>>
shellVars  == <<shell_context, halted>>
deviceVars == <<held, port60, irq1, keys, firstKeyAt>>
vars       == <<keyboardVars, kernelVars, shellVars, deviceVars, index>>

None == "none"

Keys == TypingKeys \cup Shifts \cup
        {"tab", "backspace", "enter", "left", "right", "num_lock", "idle",
         "lshift_up", "rshift_up"}

-----------------------------------------------------------------------------
(* The table of functions *)

\* A mutant: the last one is forgotten
InstallLess == <<"get_total_space", "get_free_space", "enumerate_files",
                 "find_file", "load_file">>

\* In the order of prepare_kernel_fs
InstallOrder == <<"get_total_space", "get_free_space", "enumerate_files",
                  "find_file", "load_file", "write_file">>

fs == {InstallOrder[i] : i \in 1..installed}

\* The places of kernel_main that matter here, in order.  The first is
\* before irq_install; the second before init_keyboard
Places == {"start", "interrupts", "log", "filesystem", "install", "greet",
           "prompt", "spin"}

BeforeHandler == {"start", "interrupts"}

HandlerInstalled == pc \notin BeforeHandler

-----------------------------------------------------------------------------
(* user_input *)

\* Contexts of the shell; 0 is "command"
Asking   == {"LOG_BLOCK", "ALLOC_MEM", "FREE_MEM", "PRINT_MEM"}
Contexts == {"command", "READ_FILE", "WRITE_FILE"} \cup Asking

\* Prints, and prompts for what comes next
Says(next) ==
  /\ \E output \in Outputs :
       screen' = kprint(screen, <<Newline>> \o output \o PromptText)
  /\ shell_context' = next
  /\ UNCHANGED <<wild, halted>>

Undefined(why) ==
  /\ wild' = why
  /\ UNCHANGED <<screen, shell_context, halted>>

\* A call through a member of fs_functions
Calls(functions) == functions \subseteq fs
NullCall(functions) == ~ Calls(functions) /\ Undefined("null")

\* The answer to a prompt
AnswerMemory == shell_context \in Asking /\ Says("command")

AnswerRead ==
  /\ shell_context = "READ_FILE"
  /\ \/ NullCall({"find_file"})
     \/ Calls({"find_file"}) /\ Says("command")            \* no such file
     \/ Calls({"find_file"}) /\ NullCall({"load_file"})
     \* fat12_load_file stores through bytesRead, which has no value
     \/ /\ Calls({"find_file", "load_file"})
        /\ Says("command") \/ Undefined("stray store")

AnswerWrite ==
  /\ shell_context = "WRITE_FILE"
  /\ \/ NullCall({"write_file"})
     \/ Calls({"write_file"}) /\ Says("command")

\* A command.  HELP, COM_TEST, ALLOC_MAP and unknown ones only print
CommandPrints == Says("command")

CommandAsks == \E next \in Contexts \ {"command"} : Says(next)

CommandFs ==
  \E functions \in {{"enumerate_files"},
                     {"get_free_space", "get_total_space"}} :
    \/ NullCall(functions)
    \/ Calls(functions) /\ Says("command")

CommandEnd ==
  /\ halted' = TRUE
  /\ screen' = kprint(screen, <<Newline>>)
  /\ UNCHANGED <<wild, shell_context>>

Command ==
  /\ shell_context = "command"
  /\ \/ CommandPrints
     \* the empty line names no command
     \/ strlen(key_buffer) # 0 /\ (CommandAsks \/ CommandFs \/ CommandEnd)

user_input == AnswerMemory \/ AnswerRead \/ AnswerWrite \/ Command

PressEnter ==
  /\ user_input
  /\ key_buffer' = [key_buffer EXCEPT ![0] = NUL]
  /\ line' = << >>
  /\ strayed' = ~ OnScreen(screen')
  /\ UNCHANGED <<keys_down, NUM_LOCK_ENABLED>>

-----------------------------------------------------------------------------
(* The keyboard and its controller *)

\* Otherwise nothing more is modelled
Running == wild = "no" /\ ~ halted

\* The bounds on typing
MayPress(key) ==
  /\ Running /\ keys < MaxKeys /\ Len(held) < HeldMax
  /\ pc # "spin" => keys < MaxEarly
  /\ pc # "spin" \/ held # << >> \/ port60 # None => key \in HastyKeys

\* A key goes down or up
Press(key) ==
  /\ MayPress(key)
  /\ held' = Append(held, key)
  /\ keys' = keys + 1
  /\ firstKeyAt' = IF firstKeyAt = None THEN pc ELSE firstKeyAt
  /\ UNCHANGED <<keyboardVars, kernelVars, shellVars, port60, irq1, index>>

Deliver ==
  /\ port60 = None /\ held # << >>
  /\ port60' = Head(held) /\ held' = Tail(held)
  /\ irq1' = TRUE
  /\ UNCHANGED <<keyboardVars, kernelVars, shellVars, keys, firstKeyAt, index>>

-----------------------------------------------------------------------------
(* Interrupts *)

\* keyboard_callback; the key is the one at the port
Handle(key) ==
  \/ PressTyping(key) /\ UNCHANGED shellVars
  \/ key = "tab" /\ PressTab /\ UNCHANGED shellVars
  \/ key = "backspace" /\ PressBackspace /\ UNCHANGED shellVars
  \/ key = "enter" /\ PressEnter
  \/ PressShift(key) /\ UNCHANGED shellVars
  \/ key = "lshift_up" /\ ReleaseShift("lshift") /\ UNCHANGED shellVars
  \/ key = "rshift_up" /\ ReleaseShift("rshift") /\ UNCHANGED shellVars
  \/ key = "left" /\ PressArrow(-1) /\ UNCHANGED shellVars
  \/ key = "right" /\ PressArrow(1) /\ UNCHANGED shellVars
  \/ key = "num_lock" /\ PressNumLock /\ UNCHANGED shellVars
  \/ key = "idle" /\ PressIdle /\ UNCHANGED shellVars

\* Keys whose handling does not reach the cursor's registers
Silent == Shifts \cup {"lshift_up", "rshift_up", "num_lock", "idle"} \cup
          IF NUM_LOCK_ENABLED THEN {"left", "right"} ELSE {}

\* A mutant: the byte is left at the port
HandlerForgetsPort ==
  /\ Running /\ pc # "start" /\ irq1
  /\ irq1' = FALSE
  /\ IF HandlerInstalled
     THEN Handle(port60) /\ index' = IF port60 \in Silent THEN index ELSE 15
     ELSE UNCHANGED <<keyboardVars, shellVars, index>>
  /\ UNCHANGED <<kernelVars, held, port60, keys, firstKeyAt>>

\* irq_handler for IRQ1.  The end of interrupt is sent in any case; nobody
\* reads the port when there is no handler
irq_handler ==
  /\ Running /\ pc # "start" /\ irq1
  /\ irq1' = FALSE
  /\ IF HandlerInstalled
     THEN /\ Handle(port60) /\ port60' = None
          \* every access to the cursor ends with its low byte
          /\ index' = IF port60 \in Silent THEN index ELSE 15
     ELSE UNCHANGED <<port60, keyboardVars, shellVars, index>>
  /\ UNCHANGED <<kernelVars, held, keys, firstKeyAt>>

-----------------------------------------------------------------------------
(* kprint, as kernel_main runs it: the cursor is read once, then each        *)
(* character is put after the one before and the cursor set behind it,       *)
(* whatever an interrupt printed meanwhile.  get_cursor_offset and           *)
(* set_cursor_offset select register 14, reach it, select 15 and reach that. *)
(* Selecting 15 is no step of its own: a handler leaves 15 selected anyway.  *)

Steps == {"read", "read_high", "read_low", "put",
          "write", "write_high", "write_low", "none"}

\* At the end of the message kprint_at returns
AfterText(rest) == IF rest = << >> THEN "none" ELSE "put"

\* port_byte_out(REG_SCREEN_CTRL, 14)
SelectHigh ==
  /\ \/ step = "read" /\ step' = "read_high"
     \/ step = "write" /\ step' = "write_high"
  /\ index' = 14
  /\ UNCHANGED <<message, offset, screen, strayed>>

ReadHigh ==
  /\ step = "read_high" /\ step' = "read_low"
  /\ offset' = SetByte(0, 14, Byte(screen.cursor, index)) /\ index' = 15
  /\ UNCHANGED <<message, screen, strayed>>

ReadLow ==
  /\ step = "read_low" /\ step' = AfterText(message)
  /\ offset' = SetByte(offset, 15, Byte(screen.cursor, 15))
  /\ UNCHANGED <<message, index, screen, strayed>>

\* The line being typed no longer stands before the cursor
Disturbs == strayed' = (line # << >> \/ ~ OnScreen(screen'))

\* print_char up to set_cursor_offset, which is not called off the screen
PutChar ==
  /\ step = "put" /\ message # << >>
  /\ LET here  == [screen EXCEPT !.cursor = offset]
         there == PrintChar(here, Head(message))
     IN  /\ screen' = [there EXCEPT !.cursor = screen.cursor]
         /\ offset' = there.cursor
         /\ step' = IF OnScreen(here) THEN "write" ELSE AfterText(Tail(message))
  /\ message' = Tail(message) /\ Disturbs
  /\ UNCHANGED index

\* A share of the offset goes to the register selected
WriteByte(register, share) ==
  /\ screen' = [screen EXCEPT
                  !.cursor = SetByte(@, register, Byte(offset, share))]
  /\ index' = 15 /\ Disturbs
  /\ UNCHANGED <<message, offset>>

WriteHigh == step = "write_high" /\ step' = "write_low" /\ WriteByte(index, 14)

WriteLow == step = "write_low" /\ step' = AfterText(message) /\ WriteByte(15, 15)

kprint_at ==
  /\ SelectHigh \/ ReadHigh \/ ReadLow \/ PutChar \/ WriteHigh \/ WriteLow
  /\ UNCHANGED <<key_buffer, keys_down, NUM_LOCK_ENABLED, wild, line, shellVars,
                 deviceVars, pc, calls, device, installed>>

-----------------------------------------------------------------------------
(* kernel_main *)

Reach(place) ==
  /\ pc' = place
  /\ UNCHANGED <<printVars, shellVars, deviceVars, index>>

\* clear_screen and the texts before isr_install; isr_install and the sti of
\* irq_install.  Initialising the interrupt controllers clears what was pending
irq_install ==
  /\ pc = "start" /\ pc' = "interrupts"
  /\ irq1' = FALSE
  /\ \E welcome \in StartTexts : screen' = kprint(screen, welcome)
  /\ Disturbs
  /\ UNCHANGED <<key_buffer, keys_down, NUM_LOCK_ENABLED, wild, line, shellVars,
                 printVars, index, device, installed, held, port60, keys,
                 firstKeyAt>>

\* Of the rest of irq_install, the memory manager and PCI this module keeps
\* only what they print
init_keyboard ==
  /\ pc = "interrupts" /\ Reach("log")
  /\ key_buffer' = [i \in Bytes |-> NUL]
  /\ UNCHANGED <<keys_down, NUM_LOCK_ENABLED, screen, wild, line, strayed,
                 device, installed>>

\* So many calls of kprint at a place, then the next place
Prints(place, number, texts, next) ==
  /\ pc = place
  /\ IF calls < number
     THEN /\ message' \in texts /\ step' = "read" /\ calls' = calls + 1
          /\ UNCHANGED pc
     ELSE calls' = 0 /\ pc' = next /\ UNCHANGED <<message, step>>
  /\ UNCHANGED <<keyboardVars, shellVars, deviceVars, offset, index, device,
                 installed>>

LogStart == Prints("log", Logs, StartTexts, "filesystem")

\* prepare_kernel_fs up to the functions: with no disk it reports that
FindFilesystem ==
  /\ pc = "filesystem"
  /\ Reach(IF device = "fat12" THEN "install" ELSE "greet")
  /\ UNCHANGED <<keyboardVars, device, installed>>

InstallFunction ==
  /\ pc = "install"
  /\ IF installed < Len(InstallOrder)
     THEN installed' = installed + 1 /\ Reach("install")
     ELSE Reach("greet") /\ UNCHANGED installed
  /\ UNCHANGED <<keyboardVars, device>>

\* What became of the filesystem, and the banner
Greet == Prints("greet", Greetings, StartTexts, "prompt")

FirstPrompt ==
  Prints("prompt", 1, {hint \o PromptText : hint \in StartTexts}, "spin")

kernel_main ==
  /\ Running
  /\ \/ step # "none" /\ kprint_at
     \/ /\ step = "none"
        /\ \/ irq_install \/ init_keyboard \/ LogStart \/ FindFilesystem
           \/ InstallFunction \/ Greet \/ FirstPrompt

-----------------------------------------------------------------------------
Init ==
  /\ key_buffer = [i \in Bytes |-> NUL]
  /\ keys_down = {} /\ NUM_LOCK_ENABLED = FALSE
  /\ screen = [cells |-> [i \in Cells |-> Blank], cursor |-> 0]
  /\ wild = "no" /\ line = << >> /\ strayed = FALSE
  /\ pc = "start" /\ device \in {"fat12", "none"} /\ installed = 0
  /\ calls = 0 /\ message = << >> /\ step = "none" /\ offset = 0 /\ index = 15
  /\ shell_context = "command" /\ halted = FALSE
  /\ held = << >> /\ port60 = None /\ irq1 = FALSE
  /\ keys = 0 /\ firstKeyAt = None

Next == kernel_main \/ irq_handler \/ Deliver \/ \E key \in Keys : Press(key)

Spec == Init /\ [][Next]_vars

\* The processor runs, an interrupt that is pending and let through is taken,
\* and the controller passes on what the keyboard has.  Nobody must type
FairSpec ==
  Spec /\ WF_vars(kernel_main) /\ WF_vars(irq_handler) /\ WF_vars(Deliver)

-----------------------------------------------------------------------------
(* Properties *)

TypeOK ==
  /\ key_buffer \in [Bytes -> Chars] /\ keys_down \subseteq Shifts
  /\ NUM_LOCK_ENABLED \in BOOLEAN /\ screen \in Screen
  /\ wild \in {"no", "overflow", "null", "stray store"}
  /\ line \in Seq(Chars) /\ strayed \in BOOLEAN
  /\ pc \in Places /\ calls \in Nat /\ message \in Seq(Chars) /\ step \in Steps
  /\ offset \in 0..(CursorMod - 1) /\ index \in Registers
  /\ device \in {"fat12", "none"} /\ installed \in 0..Len(InstallOrder)
  /\ shell_context \in Contexts /\ halted \in BOOLEAN
  /\ held \in Seq(Keys) /\ Len(held) <= HeldMax
  /\ port60 \in Keys \cup {None} /\ irq1 \in BOOLEAN
  /\ keys \in 0..MaxKeys /\ firstKeyAt \in Places \cup {None}

\* What user_input is given is the line typed since ENTER, though append and
\* backspace only move the terminator and ENTER clears only the first byte, so
\* that the array is full of earlier lines (keyboard.c with string.c)
BufferHoldsLine ==
  wild = "no" => /\ \E i \in Bytes : key_buffer[i] = NUL
                 /\ String(key_buffer) = line

\* The user sees the line that ENTER will give to the shell: its characters,
\* as many as are left on the screen, stand before the cursor.  Scrolling,
\* wrapping and erasing keep that, and while it is so the cursor is on
\* the screen (screen.c with keyboard.c).  The arrows end it, a newline or
\* backspace in the line, and what kernel_main prints beside a line that is
\* being typed; the next ENTER begins it again
ScreenShowsLine ==
  wild = "no" /\ ~ strayed =>
    /\ OnScreen(screen)
    /\ \A i \in 1..Min({Len(line), screen.cursor}) :
         screen.cells[screen.cursor - i] = line[Len(line) + 1 - i]

\* A command calls address 0 only when the disk has no filesystem this
\* kernel reads, or when it was typed before kernel_main was done
NullOnlyEarly == wild = "null" => device = "none" \/ pc # "spin"

EnterWaits == port60 = "enter" \/ \E i \in DOMAIN held : held[i] = "enter"

\* ENTER calls the shell, whatever kernel_main is doing, if no key was
\* pressed before init_keyboard
EnterOnTimeTaken ==
  EnterWaits /\ firstKeyAt \notin BeforeHandler ~> ~ EnterWaits \/ ~ Running

\* kernel.c, above user_input: "Callback from the keyboard driver whenever
\* enter is pressed"
EveryEnterTaken == EnterWaits ~> ~ EnterWaits \/ ~ Running
=============================================================================
