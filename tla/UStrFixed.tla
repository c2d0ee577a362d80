------------------------------ MODULE UStrFixed -----------------------------
(***************************************************************************)
(* Fixed-length ustrings and the statements that write into a text without *)
(* resizing it, cell by cell.                                              *)
(*                                                                         *)
(* A USTRING * N is a bare buffer: N units of text at most and one cell    *)
(* for the terminator.  Its length is nowhere stored; every read walks to  *)
(* the first NUL (FB_USTRSETUP), every writer gets the capacity as an      *)
(* argument.  Covered: assignment and append into a field (ustr_assign.c,  *)
(* ustr_concat.c, ustr_conv.c), the MID statement (ustr_slice.c), LSET,    *)
(* RSET and SWAP with a fixed-length side (ustr_misc.c).  Var-len texts    *)
(* are values here; their memory is in UStrMemory.                         *)
(***************************************************************************)
EXTENDS Integers, Sequences

CONSTANTS
  Fixed,      \* USTRING * N variables
  VarLen,     \* var-len USTRINGs
  Cap,        \* N less the terminator, for each field
  Unit,       \* code units other than NUL
  Nul,        \* the unit 0
  Space,      \* the unit that LSET, RSET and SWAP pad with
  Given,      \* other operands: literals and temps
  GivenText,  \* their texts, of the length that is stored with them
  Narrow      \* those of them that are narrow strings, with the text decoded

Place == Fixed \cup VarLen
Cell  == Unit \cup {Nul}

ASSUME FieldAssumption ==
  /\ Fixed \cap VarLen = {} /\ Place \cap Given = {}
  /\ Cap \in [Fixed -> Nat]
  /\ Nul \notin Unit /\ Space \in Unit
  /\ Narrow \subseteq Given
  /\ GivenText \in [Given -> Seq(Cell)]

VARIABLES
  cells,  \* what each place holds: a field all its cells, a var-len ustring
          \* its text
  filled  \* history: the units that the assignment or append that last
          \* filled a field wrote there, NULs among them counted

vars == << cells, filled >>

-----------------------------------------------------------------------------
(* Reading *)

(* fb_hUStrLen: the units before the first NUL. *)
Walk(s) == CHOOSE n \in 0 .. Len(s) :
             /\ n = Len(s) \/ s[n + 1] = Nul
             /\ \A i \in 1 .. n : s[i] # Nul

Text(o) == CASE o \in Fixed  -> SubSeq(cells[o], 1, Walk(cells[o]))
             [] o \in VarLen -> cells[o]
             [] OTHER        -> GivenText[o]

-----------------------------------------------------------------------------
(* Writing *)

(* s with the units of t in place of those from position at + 1 on. *)
Put(s, at, t) ==
  [i \in DOMAIN s |-> IF i - at \in DOMAIN t THEN t[i - at] ELSE s[i]]

(* A field of n units and a terminator, holding t and NULs after it. *)
Filled(t, n) == Put([i \in 1 .. n + 1 |-> Nul], 0, t)

Blanks(n) == [i \in 1 .. n |-> Space]

(* Bug: the terminator's cell is counted as room. *)
ClipLate(t, n) == IF Len(t) > n + 1 THEN SubSeq(t, 1, n + 1) ELSE t

Clip(t, n) == IF Len(t) > n THEN SubSeq(t, 1, n) ELSE t

(* Bug: what lies past the terminator is left as it was. *)
StoredNotFilled(f, t) == Put(cells[f], 0, Clip(t, Cap[f]) \o << Nul >>)

(* fb_UStrAssignEx with fill_rem set, as the compiler sets it. *)
Stored(f, t) == Filled(Clip(t, Cap[f]), Cap[f])

-----------------------------------------------------------------------------

Init ==
  /\ cells = [p \in Place |-> IF p \in Fixed THEN Filled(<< >>, Cap[p]) ELSE << >>]
  /\ filled = [f \in Fixed |-> 0]

(* All cells of f are written: s, of which n units are text. *)
Fills(f, s, n) ==
  cells' = [cells EXCEPT ![f] = s] /\ filled' = [filled EXCEPT ![f] = n]

Assign(p, o) ==
  IF p \in Fixed THEN Fills(p, Stored(p, Text(o)), Len(Clip(Text(o), Cap[p])))
  ELSE cells' = [cells EXCEPT ![p] = Text(o)] /\ UNCHANGED filled

(* A narrow string decoded into a field: the scratch buffer is passed on   *)
(* as a fixed-length source, so its text is walked again.                  *)
AssignFromA(f, o) ==
  LET t == SubSeq(Text(o), 1, Walk(Text(o)))
  IN  f \in Fixed /\ o \in Narrow /\ Fills(f, Stored(f, t), Len(Clip(t, Cap[f])))

(* fb_UStrConcatAssign into a field: as many units as there is room for.   *)
AppendFixed(f, o) ==
  LET t == Text(f) \o Clip(Text(o), Cap[f] - Len(Text(f)))
  IN  /\ f \in Fixed
      /\ IF Text(o) = << >> THEN UNCHANGED vars
         ELSE Fills(f, Filled(t, Cap[f]), Len(t))

(* memcpy of t, which are the first units of s, to position at + 1 of s:   *)
(* where the two overlap the order in which units are copied shows.        *)
Smeared(s, at, t) == [i \in DOMAIN t |-> s[((i - 1) % at) + 1]]

CopyOver(s, at, t, self) ==
  {Put(s, at, t)} \cup
  IF self /\ at \in 1 .. Len(t) - 1 THEN {Put(s, at, Smeared(s, at, t))} ELSE {}

(* Bug: the room is counted from the start of the text. *)
CountedFromStart(p, start, units, o) ==
  LET most == IF units < 0 \/ units > Len(Text(o)) THEN Len(Text(o)) ELSE units
      room == Len(Text(p))
  IN  SubSeq(Text(o), 1, IF most > room THEN room ELSE most)

(* The MID statement.  Neither the text nor the units may run past what is *)
(* there.                                                                  *)
Counted(p, start, units, o) ==
  LET most == IF units < 0 \/ units > Len(Text(o)) THEN Len(Text(o)) ELSE units
      room == Len(Text(p)) - (start - 1)
  IN  SubSeq(Text(o), 1, IF most > room THEN room ELSE most)

Mid(p, start, units, o) ==
  /\ start \in 1 .. Len(Text(p))
  /\ \E s \in CopyOver(cells[p], start - 1, Counted(p, start, units, o), o = p) :
       cells' = [cells EXCEPT ![p] = s]
  /\ UNCHANGED filled

(* LSET and RSET: the width is the length of the text that is there. *)
LSet(p, o) ==
  LET n == Len(Text(p))
      t == Clip(Text(o), n)
  IN  cells' = [cells EXCEPT ![p] = Put(@, 0, t \o Blanks(n - Len(t)))] /\ UNCHANGED filled

RSet(p, o) ==
  LET n == Len(Text(p))
      t == Clip(Text(o), n)
  IN  cells' = [cells EXCEPT ![p] = Put(@, 0, Blanks(n - Len(t)) \o t)] /\ UNCHANGED filled

(* SWAP with a fixed-length side: unit by unit up to the longer text; a    *)
(* side whose text has ended gives a space and takes nothing.              *)
Taken(p, q) == [i \in 1 .. Len(Text(p)) |->
                  IF i <= Len(Text(q)) THEN Text(q)[i] ELSE Space]

Swap(p, q) ==
  /\ p # q /\ (p \in Fixed \/ q \in Fixed)
  /\ cells' = [cells EXCEPT ![p] = Put(@, 0, Taken(p, q)),
                            ![q] = Put(@, 0, Taken(q, p))]
  /\ UNCHANGED filled

Operand == Place \cup (Given \ Narrow)

Next ==
  \E p \in Place :
    \/ \E o \in Narrow : AssignFromA(p, o)
    \/ \E o \in Operand :
         \/ Assign(p, o) \/ AppendFixed(p, o)
         \/ LSet(p, o) \/ RSet(p, o)
         \/ \E start \in 0 .. Len(Text(p)) + 1, units \in -1 .. Len(Text(p)) :
              Mid(p, start, units, o)
    \/ \E q \in Place : Swap(p, q)

Spec == Init /\ [][Next]_vars

-----------------------------------------------------------------------------
(* A field is exactly its cells, the last of which is a terminator: no     *)
(* writer reaches it, whatever it was handed and however full the field.   *)
TypeOK ==
  /\ cells \in [Place -> Seq(Cell)]
  /\ \A f \in Fixed : Len(cells[f]) = Cap[f] + 1 /\ cells[f][Cap[f] + 1] = Nul

(* Past the units that last filled it a field carries NULs only: no writer *)
(* leaves stale units there (the comment on fill_rem in fb_UStrAssignEx),  *)
(* and the statements that write in place reach no further than the text.  *)
TailFilled ==
  \A f \in Fixed :
    /\ Len(Text(f)) <= filled[f]
    /\ \A i \in DOMAIN cells[f] : i > filled[f] => cells[f][i] = Nul

-----------------------------------------------------------------------------
(* Read through the walk, the cells implement texts (UStrFields), except   *)
(* that MID of a text onto itself may leave its units in another order.    *)

Fields == INSTANCE UStrFields WITH val <- [p \in Place |-> Text(p)]

FieldSemantics == Fields!SpecUnordered

(* Without that exception.  fb_hUStrMove is there "for in-place shifts     *)
(* (MID statement, ...)" (ustr_prim.c:79), so MID of a text onto itself is *)
(* to give what it gives of a copy of it.  fb_UStrAssignMid calls          *)
(* fb_hUStrCopyN instead, whose memcpy refutes this.                       *)
FieldSemanticsStrict == Fields!Spec

=============================================================================
