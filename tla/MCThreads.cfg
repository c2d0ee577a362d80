SPECIFICATION Spec
CONSTANTS
  t1 = t1
  t2 = t2
  u1 = u1
  u2 = u2
  k1 = k1
  k2 = k2
  Letter = Letter
  Thread = {t1, t2}
  Nobody = Nobody
  Var = {s, u1, u2}
  Tmp = {k1, k2}
  Own <- MCOwn
  Stack <- MCStack
  PoolSize = 1
  Block = {b1, b2, b3, b4, b5}
  Unit = {Letter}
  Space = Letter
  Cases = {}
  Wild = Wild
  Raw = {x}
  RawText <- MCRawText
  MaxUnits = 2
  Granule = 2
  NullDesc = NullDesc
  NullPtr = NullPtr
  NoBlock = NoBlock
  Outcomes = {"exact"}
  Calls = 3
CHECK_DEADLOCK FALSE
INVARIANTS
  Sound WildOnlyIfRaced LockOrder
PROPERTIES
  LinesWhole CallsReturn OneAtATime
