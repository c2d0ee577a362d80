SPECIFICATION Spec
CONSTANTS
  Characters <- MCCharacters
  MostCharacters = 3
  Longer <- MCLonger
  Texts <- MCTexts
  Statements <- MCStatements
  Inner <- MCInner
  Litter = {"y", "&"}
  Room = 3
INVARIANTS
  NulsRenderAsSpaces
