SPECIFICATION Spec
CONSTANTS
  Nul = Nul
  Space = Space
  Letter = Letter
  Unit = {Space, Letter}
  field1 = field1
  field3 = field3
  gap = gap
  broken = broken
  Fixed = {field1, field3}
  VarLen = {u}
  Cap <- MCCap
  Given = {gap, broken}
  Narrow = {broken}
  GivenText <- MCGivenText
PROPERTIES
  FieldSemanticsStrict
