----------------------------- MODULE MCLowering -----------------------------
(***************************************************************************)
(* Small instances of UStrLowering: every assignment of up to three        *)
(* operands, however they are bracketed, and of four of fewer kinds.       *)
(***************************************************************************)
EXTENDS UStrLowering

(* Places: the ustrings u and v, the element e of an array, the field xu   *)
(* of a record x, a fixed-length w, two narrow strings.                    *)
MCLoc    == {"u", "v", "e", "xu", "w", "s", "t"}
MCNarrow == {"s", "t"}
MCFixed  == {"w"}
MCShared == {"q"}

(* Narrow strings hold whole characters. *)
MCBefore ==
  [p \in MCLoc |-> CASE p = "s" -> << Lead, Rest >>
                     [] p = "v" -> << >>
                     [] OTHER -> << p >>]

Dests ==
  {Leaf("VAR", "u", "u"), Leaf("VAR", "w", "w"), Leaf("IDX", "a", "e"),
   Leaf("IDX", "q", "e"), Leaf("FIELD", "f", "xu")}
  \cup {Leaf("DEREF", "p", p) : p \in {"u", "xu"}}

(* Calls: f reads its argument, g reads u on its own. *)
Called ==
  {Leaf("CALL", "u", "u"), Leaf("CALL", "a", "e"), Leaf("CALL", "x", "xu"),
   Leaf("CALL", NoSym, "u")}

Sources ==
  Dests \cup Called \cup
    {Leaf("VAR", "v", "v"), Leaf("VAR", "s", "s"), Leaf("VAR", "t", "t")}

(* Four operands are of fewer kinds. *)
Few == {Leaf("VAR", "u", "u"), Leaf("DEREF", "p", "u"), Leaf("CALL", "u", "u"),
        Leaf("VAR", "v", "v"), Leaf("VAR", "s", "s"), Leaf("VAR", "t", "t")}

(* The ways to bracket m terms, at most four.  What is no node is split at *)
(* its beginning.                                                          *)
Long(m) == {n \in Spans(m) : n[2] - n[1] > 1}
Node(c, m, n) ==
  (n[1] = 1 \/ c[<< 1, m >>] = n[1] - 1) /\ (n[2] = m \/ c[<< 1, m >>] = n[2])
Choices(m) ==
  {c \in [Long(m) -> 1 .. m] :
     \A n \in Long(m) : c[n] \in n[1] .. n[2] - 1 /\ (Node(c, m, n) \/ c[n] = n[1])}
Splits(m) ==
  {[n \in Spans(m) |-> IF n \in Long(m) THEN c[n] ELSE n[1]] : c \in Choices(m)}

Exprs(S, m) == [terms : [1 .. m -> S], split : Splits(m)]

MCAll == [l : Dests, r : UNION {Exprs(Sources, m) : m \in 1 .. 3} \cup Exprs(Few, 4)]

MCPlain == {s \in MCAll : Plain(s) /\ ~NarrowAlone(s)}

(* The statements u &= s. *)
MCNarrowAppends == {s \in MCAll : NarrowAlone(s) /\ Plain(s)}

=============================================================================
