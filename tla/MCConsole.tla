------------------------------ MODULE MCConsole ------------------------------
(* Instances of Console small enough for TLC. *)
EXTENDS Console

MCSymbols == {"a", "A", "?", ">"}
\* a letter, and a key for which the tables are too short
MCTyping == {"letter", "f_key"}
MCLow    == "letter" :> {"a"} @@ "f_key" :> {"?", "A"}
MCHigh   == "letter" :> {"A"} @@ "f_key" :> {NUL, Newline, Backspace}

\* the end of a line of the log
MCTexts   == {<<Newline>>}
MCOutputs == {<< >>, <<"?", Newline>>}
MCPrompt  == <<">">>
=============================================================================
