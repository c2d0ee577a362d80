-------------------------------- MODULE MCPure -------------------------------
(***************************************************************************)
(* Small instances of the modules whose state no other module shares: the  *)
(* buffer of one ustring (UStrGrowth) and a call of LEFT, RIGHT or MID     *)
(* (UStrSlice), of a search (UStrSearch), of a trim (UStrTrim) or of a     *)
(* converter (UStrCodec).  A behaviour is one of one of them, and the      *)
(* variables of the others keep what values they began with.               *)
(***************************************************************************)
EXTENDS UStrGrowth, UStrSlice, UStrSearch, UStrTrim, UStrCodec

CONSTANTS
  Blank, Letter, HighHalf, LowHalf, OtherLow,  \* units searched and trimmed
  MostText, MostPattern, MostStart,
  Lengths,               \* of long texts that are sliced
  Bytes, Codes, Wides,   \* next to which the converters change their mind
  MostBytes, MostCodes

TextsOver(S, n) == UNION {[1 .. k -> S] : k \in 0 .. n}

MCUnits    == {Blank, Letter, HighHalf, LowHalf, OtherLow}
MCTexts    == TextsOver(MCUnits, MostText)
MCPatterns == TextsOver(MCUnits, MostPattern)
MCBlanks   == {Blank}
MCHigh     == {HighHalf}
MCLow      == {LowHalf, OtherLow}
MCStarts   == -1 .. MostStart

(* Nothing is a blank to a search. *)
Searched == {t \in MCTexts : \A i \in DOMAIN t : t[i] # Blank}

(* Long texts have one letter, which tells the windows apart. *)
Sliced == TextsOver({Blank, Letter}, MostText) \cup
  UNION {{[i \in 1 .. n |-> IF i = p THEN Letter ELSE Blank] : p \in 1 .. n} :
           n \in Lengths}

(* The arguments next to a place where a slice of s changes its mind. *)
Near(s) ==
  LET edges == {-(MaxInt + 1), 0, Len(s), MaxInt - Len(s), MaxInt}
  IN  {n \in Ssize : \E e \in edges : n - e \in -2 .. 2}

MCByteTexts == TextsOver(Bytes, MostBytes)
MCUnitTexts == TextsOver(Codes, MostCodes)
MCWideTexts ==
  [w \in Widths |-> TextsOver({c \in Wides : c \in WChar(w)}, MostCodes)]

VARIABLE part  \* the module whose behaviour it is

pureVars == << growthVars, sliceVars, searchVars, trimVars, vars, part >>

-----------------------------------------------------------------------------
NoCall    == form = "plain" /\ text = << >> /\ pat = << >> /\ start = 1
NoSlice   == op = "left" /\ string = << >> /\ begin = 1 /\ units = 0 /\ from = 0 /\ taken = 0 /\ fate = "waiting"
             /\ slice = << >>
NoSearch  == at = 0 /\ res = NotYet
NoTrim    == mode = {"left"} /\ null = FALSE /\ first = 0 /\ last = 0
             /\ phase = "left"
NoConvert == way = "units" /\ width = 32 /\ src = << >> /\ pos = 1 /\ dst = << >>
             /\ count = 0 /\ cap = Ample /\ past = << >>

PureInit ==
  \/ /\ part = "growth"
     /\ GrowthInit /\ NoCall /\ NoSlice /\ NoSearch /\ NoTrim /\ NoConvert
  \/ /\ part = "slice" /\ string \in Sliced
     /\ begin \in Near(string) /\ units \in Near(string) /\ SliceInit
     /\ GrowthInit /\ NoCall /\ NoSearch /\ NoTrim /\ NoConvert
  \/ /\ part = "search" /\ text \in Searched /\ pat \in Patterns \cap Searched /\ SearchInit
     /\ GrowthInit /\ NoSlice /\ NoTrim /\ NoConvert
  \/ /\ part = "trim" /\ TrimInit /\ start = 1
     /\ GrowthInit /\ NoSlice /\ NoSearch /\ NoConvert
  \/ /\ part = "convert" /\ Init
     /\ GrowthInit /\ NoCall /\ NoSlice /\ NoSearch /\ NoTrim

(* A search and a trim share form, text and pat, and change none of them.  *)
PureNext ==
  /\ UNCHANGED part
  /\ \/ /\ part = "growth" /\ GrowthNext
        /\ UNCHANGED << sliceVars, searchVars, trimVars, vars >>
     \/ /\ part = "slice" /\ SliceNext
        /\ UNCHANGED << growthVars, searchVars, trimVars, vars >>
     \/ /\ part = "search" /\ SearchNext
        /\ UNCHANGED << growthVars, sliceVars, trimVars, vars >>
     \/ /\ part = "trim" /\ TrimNext
        /\ UNCHANGED << growthVars, sliceVars, searchVars, vars >>
     \/ /\ part = "convert" /\ Next
        /\ UNCHANGED << growthVars, sliceVars, searchVars, trimVars >>

PureSpec == PureInit /\ [][PureNext]_pureVars

=============================================================================
