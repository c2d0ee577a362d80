----------------------------- MODULE UStrSearch -----------------------------
(***************************************************************************)
(* INSTR and INSTRREV on ustrings and their ANY forms (ustr_search.c, and  *)
(* fb_hUStrStr of ustr_prim.c), one position of the scan at a time.        *)
(***************************************************************************)
EXTENDS UStrUnits, FiniteSetsExt

CONSTANT Starts  \* the start arguments

SearchForms == {"instr", "instrany", "instrrev", "instrrevany"}
AnyForms    == {"instrany", "instrrevany"}
Upward      == {"instr", "instrany"}
NotYet      == -1

ASSUME SearchAssumption == Starts \subseteq Int

VARIABLES
  start,  \* of the call, with form, text and pat
  at,     \* the position that is looked at, 0 before the scan
  res     \* the result

searchVars == << form, text, pat, start, at, res >>

-----------------------------------------------------------------------------
IsAny == form \in AnyForms

(* The last position that can match. *)
LastPos == IF IsAny THEN Len(text) ELSE Len(text) - Len(pat) + 1

(* Where the scan begins: a backward scan from the end, or clamped to it. *)
First == IF form \in Upward THEN start
         ELSE IF start < 0 \/ start > LastPos THEN LastPos ELSE start

(* Where it ends. *)
Final == IF form \in Upward THEN LastPos ELSE 1

Worthwhile ==
  /\ pat # << >> /\ LastPos >= 1
  /\ IF form \in Upward THEN start \in 1 .. LastPos ELSE start # 0

Matches(p) ==
  IF IsAny THEN \E j \in DOMAIN pat : pat[j] = text[p]
  ELSE \A j \in DOMAIN pat : text[p + j - 1] = pat[j]

SearchInit ==
  /\ form \in SearchForms /\ text \in Texts /\ pat \in Patterns /\ start \in Starts
  /\ at = 0 /\ res = NotYet

Begin ==
  /\ at = 0 /\ res = NotYet
  /\ IF Worthwhile THEN at' = First /\ UNCHANGED res
     ELSE res' = 0 /\ UNCHANGED at
  /\ UNCHANGED << form, text, pat, start >>

Scanning == at # 0 /\ res = NotYet

(* Bug: the result is counted from 0. *)
HitFromZero ==
  /\ Scanning /\ Matches(at) /\ res' = at - 1
  /\ UNCHANGED << form, text, pat, start, at >>

Hit ==
  /\ Scanning /\ Matches(at) /\ res' = at
  /\ UNCHANGED << form, text, pat, start, at >>

(* Bug: the last position is never tried. *)
MissShort ==
  /\ Scanning /\ ~ Matches(at)
  /\ LET next == IF form \in Upward THEN at + 1 ELSE at - 1
     IN  IF at = Final \/ next = Final THEN res' = 0 /\ UNCHANGED at
         ELSE at' = next /\ UNCHANGED res
  /\ UNCHANGED << form, text, pat, start >>

Miss ==
  /\ Scanning /\ ~ Matches(at)
  /\ IF at = Final THEN res' = 0 /\ UNCHANGED at
     ELSE /\ at' = IF form \in Upward THEN at + 1 ELSE at - 1
          /\ UNCHANGED res
  /\ UNCHANGED << form, text, pat, start >>

SearchNext == Begin \/ Hit \/ Miss

SearchSpec == SearchInit /\ [][SearchNext]_searchVars

-----------------------------------------------------------------------------
(* The positions at which the pattern, or a unit of the set, occurs. *)
Occurrences ==
  {p \in DOMAIN text :
     IF IsAny THEN text[p] \in {pat[j] : j \in DOMAIN pat}
     ELSE /\ pat # << >> /\ p + Len(pat) - 1 <= Len(text)
          /\ SubSeq(text, p, p + Len(pat) - 1) = pat}

Least(S)    == IF S = {} THEN 0 ELSE Min(S)
Greatest(S) == IF S = {} THEN 0 ELSE Max(S)

(* No comparison reads past the text, wherever the caller said to start.   *)
SearchTypeOK ==
  /\ form \in SearchForms /\ text \in Texts /\ pat \in Patterns /\ start \in Starts
  /\ at \in 0 .. Len(text) /\ res \in NotYet .. Len(text)
  /\ at # 0 => at + (IF IsAny THEN 1 ELSE Len(pat)) - 1 <= Len(text)

(* INSTR finds the first occurrence from start on; INSTRREV the last one   *)
(* that begins at or before it, or the last of all when it is negative:    *)
(* none for a start of 0, as the manual has it against the comment of the  *)
(* function, and the last of all for a start past the text, against the    *)
(* manual: StartPastTextFindsNothing says what is then refuted.            *)
FindsNearest ==
  res # NotYet =>
    CASE form \in Upward ->
           res = IF start < 1 THEN 0 ELSE Least({p \in Occurrences : p >= start})
      [] form \notin Upward /\ start < 0 -> res = Greatest(Occurrences)
      [] form \notin Upward /\ start >= 0 ->
           res = Greatest({p \in Occurrences : p <= start})

(* A text that is searched for in well-formed text is never found in the   *)
(* middle of a character (the header of ustr_search.c).                    *)
FoundAtBoundary ==
  WellFormed(text) /\ WellFormed(pat) /\ ~ IsAny /\ res > 0 => Boundary(text, res)

(* The manual (KeyPgInstrrev): zero is returned if start is greater than   *)
(* the length of the text.  The code starts at the end, which refutes it.  *)
StartPastTextFindsNothing ==
  res # NotYet /\ form \notin Upward /\ start > Len(text) => res = 0

=============================================================================
