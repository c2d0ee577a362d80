------------------------------- MODULE MCInput -------------------------------
(***************************************************************************)
(* Small instances of UStrInput: every file up to a length over the        *)
(* characters that matter, every list of two short values.                 *)
(***************************************************************************)
EXTENDS UStrInput, TLC

CONSTANTS a, wide, MostChars, MostValue

(* The first byte of wide is that of another character. *)
MCNarrowOf == [c \in Cell |-> IF c = wide THEN a ELSE c]

(* No character past ASCII behind a CR: putting one back loses its other   *)
(* bytes, and the line is no longer that of the file.                      *)
MCFiles == {f \in SeqOf(Letter, MostChars) :
             \A i \in 1 .. Len(f) - 1 : f[i] = CR => f[i + 1] # wide}
MCLists == SeqOf(SeqOf({a, Comma, Blank}, MostValue), 2) \ {<< >>}

=============================================================================
