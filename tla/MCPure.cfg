SPECIFICATION PureSpec
CONSTANTS
  MaxUnits = 30
  Requests = {1, 7, 16}
  Granule = 8
  Answers = {"rounded", "exact", "none"}
  Budget = 24
  MaxInt = 127
  Lengths = {29, 30}
  Blank = 32
  Letter = 65
  HighHalf = 55357
  LowHalf = 56832
  OtherLow = 56833
  MostText = 4
  MostPattern = 2
  MostStart = 5
  Units <- MCUnits
  CodeUnits <- MCUnits
  Texts <- MCTexts
  Patterns <- MCPatterns
  Starts <- MCStarts
  Blanks <- MCBlanks
  High <- MCHigh
  Low <- MCLow
  Bytes = {65, 128, 143, 144, 159, 160, 191, 193, 194, 224, 237, 240, 244, 245}
  Codes = {65, 127, 128, 2047, 2048, 55357, 56832, 65535}
  Wides = {63, 255, 256, 55357, 56832, 65535, 65536, 1114111, 1114112}
  MostBytes = 4
  MostCodes = 3
  ByteTexts <- MCByteTexts
  UnitTexts <- MCUnitTexts
  WideTexts <- MCWideTexts
  Caps = {1, 12}
  Ample = 40
CHECK_DEADLOCK FALSE
INVARIANTS
  Amortised SlackBounded
  ReadsInside SliceAsPromised RefusedOnOverflow
  FindsNearest FoundAtBoundary
  WindowInside TrimsExactly KeepsCharacters
  CapacityContract NoLoneSurrogate DecodesAsUnicode RoundTrip
