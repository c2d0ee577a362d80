------------------------------- MODULE MCUsing ------------------------------
(***************************************************************************)
(* A small instance of UStrUsing: every short format, some longer ones,    *)
(* and no, one or two values, or three.                                    *)
(***************************************************************************)
EXTENDS UStrUsing

CONSTANTS Characters, MostCharacters, Longer, Texts

MCCharacters == {"x", "_", "!", "&", "\\", " ", "#"}

TextsUpTo(S, n) == UNION {[1 .. k -> S] : k \in 0 .. n}

Prints(formats, n) ==
  {[format |-> f, values |-> vs, newline |-> nl] :
     f \in formats, vs \in TextsUpTo(Texts, n), nl \in BOOLEAN}

(* "\  \" is wider than the buffer; "xxxx!" is more text than it takes.    *)
MCLonger ==
  { << "\\", " ", " ", "\\" >>,
    << "x", "!", "_", "&", "&", "x" >>,
    << "!", " ", "\\", " ", "\\" >>,
    << "&", "x", "\\", "\\", "!" >>,
    << "x", "x", "x", "x", "!" >>,
    << "!", "x", "x", "x" >> }

MCTexts == { << >>, << NUL >>, << "a", NUL, "b" >> }

MCStatements ==
  Prints(TextsUpTo(Characters, MostCharacters), 2) \cup Prints(Longer, 3)

MCInner ==
  { [format |-> << "!", "x", "&" >>, values |-> << << "c" >> >>, newline |-> TRUE],
    [format |-> << "x", "&", "x" >>, values |-> << << "c" >> >>, newline |-> FALSE] }

=============================================================================
