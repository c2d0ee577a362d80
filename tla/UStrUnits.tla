------------------------------ MODULE UStrUnits -----------------------------
(***************************************************************************)
(* Code units as search and trim see them: opaque, except that some are    *)
(* the halves of surrogate pairs (FB_UISHIGHSUR and FB_UISLOWSUR of        *)
(* fb_ustring.h); and the operands that a search and a trim have alike.    *)
(***************************************************************************)
EXTENDS Integers, Sequences

CONSTANTS
  Units,     \* the code units
  High, Low, \* the high and the low halves
  Texts,     \* what is searched or trimmed
  Patterns   \* what is searched for or stripped: a string, or a set of units

ASSUME UnitsAssumption ==
  /\ High \subseteq Units /\ Low \subseteq Units /\ High \cap Low = {}
  /\ Texts \subseteq Seq(Units) /\ Patterns \subseteq Seq(Units)

VARIABLES form, text, pat  \* the function that is called, and its operands

(* Every unit is a whole character or a half next to its other half. *)
WellFormed(s) ==
  \A i \in DOMAIN s :
    /\ s[i] \in High => i < Len(s) /\ s[i + 1] \in Low
    /\ s[i] \in Low => i > 1 /\ s[i - 1] \in High

(* A character of s begins at p. *)
Boundary(s, p) == s[p] \notin Low \/ p = 1 \/ s[p - 1] \notin High

=============================================================================
