SPECIFICATION FairSpec
CONSTANTS
  Rows = 2
  Cols = 3
  ByteMod = 4
  Symbols <- MCSymbols
  BufferSize = 5
  TabWidth = 2
  TypingKeys <- MCTyping
  Low <- MCLow
  High <- MCHigh
  StartTexts <- MCTexts
  Logs = 1
  Greetings = 1
  Outputs <- MCOutputs
  PromptText <- MCPrompt
  HeldMax = 1
  MaxKeys = 4
  MaxEarly = 2
  HastyKeys = {"letter", "enter"}
INVARIANTS
  TypeOK
  BufferHoldsLine
  ScreenShowsLine
  NullOnlyEarly
PROPERTIES
  EnterOnTimeTaken
\* END halts the processor, and the number of keys is bounded
CHECK_DEADLOCK FALSE
