------------------------------ MODULE UStrTrim ------------------------------
(***************************************************************************)
(* TRIM, LTRIM and RTRIM with their ANY and substring forms (ustr_trim.c). *)
(* The window first + 1 .. last of the text shrinks from the left, then    *)
(* from the right, one comparison a step.                                  *)
(***************************************************************************)
EXTENDS UStrUnits

CONSTANT Blanks  \* the space and the NUL

TrimForms == {"plain", "any", "ex"}
Ends      == {"left", "right"}

ASSUME TrimAssumption ==
  Blanks \subseteq Units /\ Blanks \cap (High \cup Low) = {}

VARIABLES
  mode,         \* the ends to strip
  null,         \* a set was passed whose descriptor has no buffer
  first, last,  \* the window
  phase         \* the end that is being stripped, or "done"

trimVars == << form, text, pat, mode, null, first, last, phase >>
operands == << form, text, pat, mode, null >>  \* what a call does not change

-----------------------------------------------------------------------------
(* Bug: blanks go whatever the set is. *)
StripsBlanksToo(c) == c \in Blanks \/ \E j \in DOMAIN pat : pat[j] = c

(* What the loop strips one by one: blanks when there is no set pointer. *)
Strips(c) == IF form = "plain" \/ null THEN c \in Blanks
             ELSE \E j \in DOMAIN pat : pat[j] = c

Stride == IF form = "ex" THEN Len(pat) ELSE 1

Room == IF form = "ex" THEN pat # << >> /\ last - first >= Len(pat)
        ELSE first < last

(* The units from i + 1 on are to be stripped. *)
Strippable(i) ==
  IF form = "ex" THEN \A j \in DOMAIN pat : text[i + j] = pat[j]
  ELSE Strips(text[i + 1])

TrimInit ==
  /\ form \in TrimForms /\ text \in Texts /\ pat \in Patterns
  /\ mode \in SUBSET Ends \ {{}}
  /\ null \in IF form = "any" /\ pat = << >> THEN BOOLEAN ELSE {FALSE}
  /\ first = 0 /\ last = Len(text) /\ phase = "left"

(* Bug: the window moves by one unit whatever was matched. *)
StripLeftByOne ==
  /\ phase = "left" /\ "left" \in mode /\ Room /\ Strippable(first)
  /\ first' = first + 1
  /\ UNCHANGED << operands, last, phase >>

StripLeft ==
  /\ phase = "left" /\ "left" \in mode /\ Room /\ Strippable(first)
  /\ first' = first + Stride
  /\ UNCHANGED << operands, last, phase >>

TurnRight ==
  /\ phase = "left" /\ ~ ("left" \in mode /\ Room /\ Strippable(first))
  /\ phase' = "right"
  /\ UNCHANGED << operands, first, last >>

(* Bug: the right end forgets what the left end has taken. *)
StripRightPastLeft ==
  /\ phase = "right" /\ "right" \in mode
  /\ pat # << >> /\ last >= Stride /\ Strippable(last - Stride)
  /\ last' = last - Stride
  /\ UNCHANGED << operands, first, phase >>

StripRight ==
  /\ phase = "right" /\ "right" \in mode /\ Room /\ Strippable(last - Stride)
  /\ last' = last - Stride
  /\ UNCHANGED << operands, first, phase >>

Finish ==
  /\ phase = "right" /\ ~ ("right" \in mode /\ Room /\ Strippable(last - Stride))
  /\ phase' = "done"
  /\ UNCHANGED << operands, first, last >>

TrimNext == StripLeft \/ TurnRight \/ StripRight \/ Finish

TrimSpec == TrimInit /\ [][TrimNext]_trimVars

-----------------------------------------------------------------------------
Kept     == SubSeq(text, first + 1, last)
CutLeft  == SubSeq(text, 1, first)
CutRight == SubSeq(text, last + 1, Len(text))

(* The units that go: those of the set, and without a set the blanks.  An  *)
(* empty set is one when its text has a buffer; when it has none the code  *)
(* finds no set pointer, and blanks go.                                    *)
Asked == IF form = "plain" \/ null THEN Blanks ELSE {pat[j] : j \in DOMAIN pat}

(* s is a run of what the call is asked to strip. *)
IsRun(s) ==
  IF form # "ex" THEN \A i \in DOMAIN s : s[i] \in Asked
  ELSE \/ s = << >>
       \/ /\ pat # << >> /\ Len(s) % Len(pat) = 0
          /\ \A i \in DOMAIN s : s[i] = pat[((i - 1) % Len(pat)) + 1]

(* Of a text, the first and the last piece as long as what is stripped. *)
Head1(s) == SubSeq(s, 1, Stride)
Tail1(s) == SubSeq(s, Len(s) - Stride + 1, Len(s))

(* The window stays a window of the text, so that the copy that follows    *)
(* reads nothing else, also when the string to strip is longer than what   *)
(* is left.                                                                *)
WindowInside == first \in 0 .. last /\ last \in 0 .. Len(text)

TrimTypeOK ==
  /\ form \in TrimForms /\ text \in Texts /\ pat \in Patterns
  /\ mode \in SUBSET Ends /\ null \in BOOLEAN
  /\ phase \in Ends \cup {"done"}
  /\ WindowInside

(* What is cut off each end that the caller chose is a run of blanks, of   *)
(* units of the set, or of whole copies of the string, and the run is as   *)
(* long as it can be: what is kept begins and ends with no other.          *)
TrimsExactly ==
  phase = "done" =>
    /\ IsRun(CutLeft) /\ IsRun(CutRight)
    /\ IF "left" \notin mode THEN first = 0
       ELSE Kept = << >> \/ Stride \notin 1 .. Len(Kept) \/ ~ IsRun(Head1(Kept))
    /\ IF "right" \notin mode THEN last = Len(text)
       ELSE Kept = << >> \/ Stride \notin 1 .. Len(Kept) \/ ~ IsRun(Tail1(Kept))

(* The manual (KeyPgTrim): TRIM ANY strips the characters that match one   *)
(* of the set.  Nothing matches one of an empty set, so nothing goes.  The *)
(* code refutes this for a set whose text has no buffer.                   *)
EmptySetStripsNothing ==
  phase = "done" /\ form = "any" /\ pat = << >> => Kept = text

(* Trimming never decodes, and blanks or a well-formed string cut off      *)
(* well-formed text leave well-formed text (the header of ustr_trim.c).    *)
KeepsCharacters ==
  WellFormed(text) /\ WellFormed(pat) /\ form # "any" => WellFormed(Kept)

=============================================================================
