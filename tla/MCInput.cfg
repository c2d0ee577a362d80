SPECIFICATION Spec
CONSTANTS
  Reader = {r1}
  a = a
  wide = wide
  Char = {a, wide}
  CR = CR
  LF = LF
  Comma = Comma
  Quote = Quote
  Blank = Blank
  Weof = Weof
  NarrowOf <- MCNarrowOf
  PutBackRoom = 1
  LineInit = 1
  MaxToken = 4
  MostChars = 5
  MostValue = 3
  Files <- MCFiles
  Lists <- MCLists
  OutOfMemory = TRUE
CHECK_DEADLOCK FALSE
INVARIANTS
  TypeOK LinesOfTheFile ReadsBack
PROPERTIES
  LoopEnds
