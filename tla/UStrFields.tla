----------------------------- MODULE UStrFields -----------------------------
(***************************************************************************)
(* What USTRING * N and the statements that write in place promise, in     *)
(* terms of texts alone: a fixed-length field holds the first units of     *)
(* what it was given, up to a NUL among them (doc/ustring.txt: "USTRING *  *)
(* N is NUL-terminated"), an append fills what room is left, and MID, LSET *)
(* and RSET write over the text there is and never make it longer.         *)
(***************************************************************************)
EXTENDS Integers, Sequences

CONSTANTS
  Fixed,      \* USTRING * N variables
  VarLen,     \* var-len USTRINGs
  Cap,        \* the units a field can hold
  Given,      \* other operands: literals and temps
  GivenText,  \* and their texts
  Narrow,     \* those of them that are narrow strings
  Nul,        \* the unit 0, which ends the text of a field
  Space       \* the unit that LSET and RSET pad with

VARIABLE val  \* the text of each variable

Value(o) == IF o \in Given THEN GivenText[o] ELSE val[o]
Operand  == Fixed \cup VarLen \cup (Given \ Narrow)

Clip(t, n)  == SubSeq(t, 1, IF Len(t) < n THEN Len(t) ELSE n)
Blanks(n)   == [i \in 1 .. n |-> Space]

(* t up to its first NUL. *)
Cut(t) ==
  SubSeq(t, 1, CHOOSE n \in 0 .. Len(t) : /\ n = Len(t) \/ t[n + 1] = Nul
                                          /\ \A i \in 1 .. n : t[i] # Nul)

Held(p, t)    == IF p \in Fixed THEN Cut(t) ELSE t
Becomes(p, t) == val' = [val EXCEPT ![p] = Held(p, t)]

Init == val = [p \in Fixed \cup VarLen |-> << >>]

Assign(p, o) ==
  Becomes(p, IF p \in Fixed THEN Clip(Value(o), Cap[p]) ELSE Value(o))

AppendFixed(f, o) == f \in Fixed /\ Becomes(f, Clip(val[f] \o Value(o), Cap[f]))

(* MID(p, start, units) = o: unit i of the text is replaced when it is one *)
(* of the units counted from start and o has a unit for it.                *)
Overlay(t, start, units, s) ==
  [i \in 1 .. Len(t) |->
     IF i - start + 1 \in DOMAIN s /\ (units < 0 \/ i < start + units)
     THEN s[i - start + 1] ELSE t[i]]

Mid(p, start, units, o) ==
  start > 0 /\ Becomes(p, Overlay(val[p], start, units, Value(o)))

LSet(p, o) ==
  Becomes(p, Clip(Value(o) \o Blanks(Len(val[p])), Len(val[p])))

RSet(p, o) ==
  LET n == Len(val[p])
      t == Clip(Value(o), n)
  IN  Becomes(p, Blanks(n - Len(t)) \o t)

(* SWAP with a fixed-length side moves text inside the texts there are.    *)
Fitted(t, n) == Clip(t \o Blanks(n), n)
Swap(p, q) ==
  val' = [val EXCEPT ![p] = Held(p, Fitted(val[q], Len(val[p]))),
                     ![q] = Held(q, Fitted(val[p], Len(val[q])))]

Next ==
  \E p \in Fixed \cup VarLen :
    \/ \E o \in Narrow : p \in Fixed /\ Assign(p, o)
    \/ \E o \in Operand :
         \/ Assign(p, o) \/ AppendFixed(p, o) \/ LSet(p, o) \/ RSet(p, o)
         \/ \E start \in 1 .. Len(val[p]), units \in -1 .. Len(val[p]) :
              Mid(p, start, units, o)
    \/ \E q \in Fixed : p # q /\ Swap(p, q)

Spec == Init /\ [][Next]_val

-----------------------------------------------------------------------------
(* What the code does instead where the two texts of MID are one: it takes *)
(* some of the units there, in what order memcpy leaves open; those        *)
(* outside the window stay as they are.                                    *)
MidOfSelf(p, start, units) ==
  \E t \in [1 .. Len(val[p]) -> {val[p][i] : i \in DOMAIN val[p]}] :
    /\ \A i \in DOMAIN t :
         i < start \/ (units >= 0 /\ i >= start + units) => t[i] = val[p][i]
    /\ Becomes(p, t)

NextUnordered ==
  \/ Next
  \/ \E p \in Fixed \cup VarLen :
       \E start \in 1 .. Len(val[p]), units \in -1 .. Len(val[p]) :
         MidOfSelf(p, start, units)

SpecUnordered == Init /\ [][NextUnordered]_val

=============================================================================
