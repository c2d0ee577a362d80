---------------------------- MODULE UStrLowering ----------------------------
(***************************************************************************)
(* What the compiler makes of an assignment to a USTRING.  The expression  *)
(* is a tree of +; it is reassociated (hOptAssocADD), an assignment of a   *)
(* variable to itself is dropped (hOptSelfAssign), and what is left        *)
(* becomes one assignment of the whole expression, appends in place, or an *)
(* assignment followed by appends (hOptUStrAssignment).  The program then  *)
(* makes these calls one after the other: an operand is read when its call *)
(* is made, and by then the destination may hold half of the result.       *)
(*                                                                         *)
(* The node classes are those of the compiler's syntax tree.  Functions    *)
(* called in the expression read variables and write none; memory does not *)
(* run out (UStrRuntime has what happens then).                            *)
(***************************************************************************)
EXTENDS Integers, Sequences

CONSTANTS
  Loc,        \* places in memory that hold a text
  Narrow,     \* those that hold a STRING
  Fixed,      \* those that hold a USTRING * N
  Length,     \* the N
  Before,     \* what each place holds before the statement
  Shared,     \* parameters passed BYREF or by descriptor
  Lead, Rest, \* the halves of a character in a narrow text
  Garbage,    \* a unit made of the bytes of a narrow text
  Statements  \* assignments [l |-> destination, r |-> expression]

ASSUME LocAssumption ==
  /\ Narrow \subseteq Loc /\ Fixed \subseteq Loc /\ Narrow \cap Fixed = {}
  /\ Length \in Nat \ {0}
  /\ {Lead, Rest, Garbage} \subseteq STRING /\ Lead # Rest
  /\ Before \in [Loc -> Seq(STRING)] /\ \A p \in Fixed : Len(Before[p]) <= Length

(* A term names a symbol and reaches a place: a variable, an array         *)
(* element, a field, what a pointer points to, and a call that reads a     *)
(* place by way of its argument, or (without a symbol) on its own.         *)
Leaf(class, sym, p) == [class |-> class, sym |-> sym, at |-> p]
NoSym   == ""
Targets == {"VAR", "IDX", "FIELD", "DEREF"}
Leaves  == [class : Targets \cup {"CALL"}, sym : STRING, at : Loc]

(* An expression is a list of terms and how they are bracketed.  A node of *)
(* its tree stands for the terms n[1] to n[2]; if there are several it is  *)
(* a +, of the terms up to split[n] and of those behind.                   *)
Spans(m)    == {n \in (1 .. m) \X (1 .. m) : n[1] <= n[2]}
IsAdd(n)    == n[1] < n[2]
Root(e)     == << 1, Len(e.terms) >>
Left(e, n)  == << n[1], e.split[n] >>
Right(e, n) == << e.split[n] + 1, n[2] >>

IsTree(e) ==
  /\ e.terms \in Seq(Leaves) \ {<< >>}
  /\ e.split \in [Spans(Len(e.terms)) -> Nat]
  /\ \A n \in DOMAIN e.split : IsAdd(n) => e.split[n] \in n[1] .. n[2] - 1

ASSUME StatementAssumption ==
  \A s \in Statements :
    /\ s.l \in Leaves /\ s.l.class \in Targets /\ s.l.at \notin Narrow
    /\ IsTree(s.r)

VARIABLES
  stmt,  \* the statement
  expr,  \* its expression, with todo: the sums to be reassociated
  todo,
  code,  \* the calls made of it that are still to run
  stage, \* "source", or "running" once it is compiled
  store  \* the text at each place

vars == << stmt, expr, todo, code, stage, store >>

-----------------------------------------------------------------------------
(* Trees.                                                                  *)

(* The terms of a node. *)
Terms(e, n) == {e.terms[k] : k \in n[1] .. n[2]}

(* typeIsUstring of a node: + is wide when an operand is. *)
Wide(e, n) == \E x \in Terms(e, n) : x.at \notin Narrow

(* astIsSymbolOnTree: does the tree name sym, or anything that could be it? *)
Names(x, sym)     == x.class = "DEREF" \/ x.sym = sym \/ x.sym \in Shared
OnTree(sym, e, n) == \E x \in Terms(e, n) : Names(x, sym)

(* astIsTreeEqual with a destination, which contains no call. *)
TreeEqual(l, e, n) == ~IsAdd(n) /\ Terms(e, n) = {l}

(* hOptAssocADD: a + (b + c) becomes (a + b) + c, where the sum is wide. *)
Assoc(e, n) ==
  LET last  == e.split[Right(e, n)]
      inner == << n[1], last >>
  IN  IF Wide(e, n) /\ IsAdd(Right(e, n))
      THEN [e EXCEPT !.split = [@ EXCEPT ![n] = last, ![inner] = e.split[n]]]
      ELSE e

-----------------------------------------------------------------------------
(* The calls.                                                              *)

(* Of a node, or with conv of what it is when it is decoded. *)
Assigned(n) == [op |-> "assign", src |-> n, conv |-> FALSE]
Appended(n) == [op |-> "append", src |-> n, conv |-> FALSE]

(* Bug: every operand is appended as it is. *)
ConcatAssignRaw(e, n) == Appended(n)

(* hMultStrConcatAssign decodes a narrow operand before it appends it. *)
ConcatAssign(e, n) == [Appended(n) EXCEPT !.conv = ~Wide(e, n)]

(* The operands in the order hOptStrMultConcat reaches them. *)
Operands(e, n) ==
  LET upto[j \in n[1] .. n[2]] ==
        LET m == << n[1], j >>
        IN  IF IsAdd(m) THEN Append(upto[e.split[m]], Right(e, m)) ELSE << m >>
  IN  upto[n[2]]

Appends(e, ns) == [i \in DOMAIN ns |-> ConcatAssign(e, ns[i])]

(* hIsMultStrConcat: may the sum n be built up in l? *)
IsMultStrConcat(l, e, n) ==
  /\ IsAdd(n)
  /\ l.class \in {"VAR", "IDX"} => l.sym \notin Shared
  /\ l.class # "DEREF"
  /\ ~OnTree(l.sym, e, n)

(* Bug: x is not searched for other names of l. *)
GrowsByItself(l, e, n) ==
  IsAdd(n) /\ l.class \in {"VAR", "IDX"} /\ TreeEqual(l, e, Left(e, n))

(* Is the statement l = l + x, with an x that l may grow by in place? *)
GrowsInPlace(l, e, n) ==
  /\ IsAdd(n)
  /\ l.class \in {"VAR", "IDX"} /\ l.sym \notin Shared
  /\ TreeEqual(l, e, Left(e, n))
  /\ ~OnTree(l.sym, e, Right(e, n))

(* hOptUStrAssignment, past a statement whose right side is narrow. *)
OptUStrAssignment(l, e, n) ==
  CASE ~Wide(e, n) -> << Assigned(n) >>
    [] Wide(e, n) /\ GrowsInPlace(l, e, n) ->
         IF IsMultStrConcat(l, e, Right(e, n)) THEN Appends(e, Operands(e, Right(e, n)))
         ELSE << Appended(Right(e, n)) >>
    [] OTHER ->
         IF l.at \notin Fixed /\ IsMultStrConcat(l, e, n)
         THEN LET ns == Operands(e, n)
              IN  << Assigned(Head(ns)) >> \o Appends(e, Tail(ns))
         ELSE << Assigned(n) >>

(* astUpdate of a reassociated tree. *)
Lower(l, e) ==
  IF TreeEqual(l, e, Root(e)) THEN << >> ELSE OptUStrAssignment(l, e, Root(e))

-----------------------------------------------------------------------------
(* What the calls do.                                                      *)

(* A narrow text as units: a character of two bytes is one, and a half of  *)
(* one is a replacement character.                                         *)
Decode(b) ==
  LET from[i \in Nat \ {0}] ==
        CASE i >= Len(b) + 1 -> << >>
          [] i < Len(b) /\ b[i] = Lead /\ b[i + 1] = Rest -> << "whole" >> \o from[i + 2]
          [] OTHER -> << IF b[i] \in {Lead, Rest} THEN "replacement" ELSE b[i] >>
                        \o from[i + 1]
  IN  from[1]

(* The text of a node over the store s: a narrow sum joins bytes, a wide   *)
(* one units, and fb_UStrConcatUA, fb_UStrConcatAU decode the narrow side. *)
Eval(e, n, s) ==
  LET joined[x \in Spans(Len(e.terms))] ==
        LET side(y) == IF Wide(e, x) /\ ~Wide(e, y) THEN Decode(joined[y]) ELSE joined[y]
        IN  IF IsAdd(x) THEN side(Left(e, x)) \o side(Right(e, x))
            ELSE s[e.terms[x[1]].at]
  IN  joined[n]

Decoded(e, n, s) == IF Wide(e, n) THEN Eval(e, n, s) ELSE Decode(Eval(e, n, s))

(* A fixed-length destination keeps what fits. *)
Fit(p, t) == IF p \in Fixed /\ Len(t) > Length THEN SubSeq(t, 1, Length) ELSE t

Set(p, t) == store' = [store EXCEPT ![p] = Fit(p, t)]

Init ==
  /\ stmt \in Statements /\ expr = stmt.r /\ store = Before
  /\ todo = {n \in {Root(expr)} : IsAdd(n)}
  /\ code = << >> /\ stage = "source"

(* One call of hOptAssocADD, for a sum, which calls it for its sides.  The *)
(* left side comes first; they share no term, so the order is left open.   *)
Reassociate ==
  /\ stage = "source"
  /\ \E n \in todo :
       /\ expr' = Assoc(expr, n)
       /\ todo' = (todo \ {n})
                    \cup {x \in {Left(expr', n), Right(expr', n)} : IsAdd(x)}
  /\ UNCHANGED << stmt, code, stage, store >>

Compile ==
  /\ stage = "source" /\ todo = {}
  /\ code' = Lower(stmt.l, expr) /\ stage' = "running"
  /\ UNCHANGED << stmt, expr, todo, store >>

(* Make the next call. *)
Call(op) ==
  /\ code # << >> /\ Head(code).op = op
  /\ code' = Tail(code)
  /\ UNCHANGED << stmt, expr, todo, stage >>

(* fb_UStrAssign, and fb_UStrAssignFromA for a narrow source. *)
Assign ==
  /\ Call("assign")
  /\ Set(stmt.l.at, Decoded(expr, Head(code).src, store))

(* fb_UStrConcatAssign takes its source for a ustring, whatever it is. *)
ConcatAssignCall ==
  /\ Call("append")
  /\ LET c == Head(code)
         t == Eval(expr, c.src, store)
     IN  Set(stmt.l.at, store[stmt.l.at] \o
               CASE Wide(expr, c.src) -> t
                 [] ~Wide(expr, c.src) /\ c.conv -> Decode(t)
                 [] OTHER -> [i \in DOMAIN t |-> Garbage])

Next == Reassociate \/ Compile \/ Assign \/ ConcatAssignCall

Spec == Init /\ [][Next]_vars

-----------------------------------------------------------------------------
(* What the properties rest on.                                            *)

(* What is read of the destination shows: no term reads it by a name that  *)
(* the compiler does not take for it, if it may be built up in place.      *)
BuiltUp(l) == l.class # "DEREF" /\ (l.class \in {"VAR", "IDX"} => l.sym \notin Shared)
Plain(s) ==
  BuiltUp(s.l) => \A x \in Terms(s.r, Root(s.r)) : x.at = s.l.at => Names(x, s.l.sym)

(* All that is appended is a narrow text. *)
NarrowAlone(s) ==
  /\ GrowsInPlace(s.l, s.r, Root(s.r))
  /\ ~IsAdd(Right(s.r, Root(s.r))) /\ ~Wide(s.r, Right(s.r, Root(s.r)))

(* Every half of a character is next to the other one. *)
Whole(b) ==
  \A i \in DOMAIN b :
    /\ b[i] = Lead => i < Len(b) /\ b[i + 1] = Rest
    /\ b[i] = Rest => i > 1 /\ b[i - 1] = Lead

PlainStatements == \A s \in Statements : Plain(s)
NothingNarrowAlone == \A s \in Statements : ~NarrowAlone(s)
WholeCharacters == \A p \in Narrow : Whole(Before[p])

-----------------------------------------------------------------------------
(* The statement means what it says: the calls leave in the destination    *)
(* the value the expression had before the first of them, clamped to the   *)
(* destination, and change nothing else.  Hazards: an operand that is the  *)
(* destination under another name (a pointer, a BYREF parameter, an array  *)
(* descriptor) and is read half built; a narrow operand taken for units.   *)
MeansWhatItSays ==
  stage = "running" /\ code = << >> =>
    store = [Before EXCEPT ![stmt.l.at] =
               Fit(stmt.l.at, Decoded(stmt.r, Root(stmt.r), Before))]

(* No append reads the text it appends to: fb_UStrConcatAssign takes the   *)
(* address of the source before it reallocates the destination, so of the  *)
(* appends the compiler emits none may be to the text it reads.            *)
AppendsOtherText ==
  \A i \in DOMAIN code :
    code[i].op = "append" =>
      \A x \in Terms(expr, code[i].src) : x.at # stmt.l.at

=============================================================================
