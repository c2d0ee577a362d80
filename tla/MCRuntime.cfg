SPECIFICATION Spec
SYMMETRY Symmetry
CONSTANTS
  Var = {v1, v2}
  Tmp = {t1}
  PoolSize = 1
  Block = {b1, b2, b3}
  Capital = Capital
  Small = Small
  Unit = {Capital, Small}
  Space = Capital
  Cases <- MCCases
  Wild = Wild
  Long = Long
  Raw = {Long}
  RawText <- MCRawText
  MaxUnits = 2
  Granule = 2
  NullDesc = NullDesc
  NullPtr = NullPtr
  NoBlock = NoBlock
  Outcomes = {"rounded", "exact", "none"}
INVARIANTS
  OneOwner NoLeak PoolConserved TempBitExact TextFits NoWildText
PROPERTIES
  LossOnlyWhenExhausted
  ValueSemantics
