SPECIFICATION Spec
CONSTANTS
  Loc <- MCLoc
  Narrow <- MCNarrow
  Fixed <- MCFixed
  Length = 2
  Before <- MCBefore
  Shared <- MCShared
  Lead = "lead"
  Rest = "rest"
  Garbage = "garbage"
  Statements <- MCNarrowAppends
CHECK_DEADLOCK FALSE
INVARIANTS
  MeansWhatItSays
