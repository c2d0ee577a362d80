----------------------------- MODULE UStrValues ------------------------------
(***************************************************************************)
(* What the language promises of var-len USTRINGs: each variable and each  *)
(* intermediate result holds a text of its own.  A call changes the        *)
(* variable it names and takes the intermediate results it is given;       *)
(* nothing else changes.  Memory can run out, and the promise says what    *)
(* may be lost then: a copy may come out empty, an append may not happen,  *)
(* an intermediate result may be missing (it then reads as empty); an      *)
(* assignment from an intermediate result always succeeds.                 *)
(***************************************************************************)
EXTENDS Sequences, Integers

CONSTANTS
  Var,      \* variables
  Temps,    \* places for intermediate results
  Raw,      \* literals and raw sources
  RawText,  \* the text of each
  Nothing,  \* an operand that is missing, and reads as empty
  MaxUnits, \* the length of the longest text
  Space,    \* a blank
  Cases     \* the case mappings

VARIABLES
  val,    \* the text of each variable (empty when out of scope)
  temp,   \* the text of each intermediate result (empty when there is none)
  scope,  \* variables in scope
  held    \* places that hold an intermediate result

vars == << val, temp, scope, held >>

Empty == << >>

(* What an operand reads as. *)
Value(o) == CASE o \in scope -> val[o]
              [] o \in held  -> temp[o]
              [] o \in Raw   -> RawText[o]
              [] OTHER       -> Empty

Operand == scope \cup held \cup Raw \cup {Nothing}

(* Module-level variables are in scope from the start. *)
Init ==
  /\ val = [v \in Var |-> Empty] /\ temp = [t \in Temps |-> Empty]
  /\ scope \subseteq Var /\ held = {}

-----------------------------------------------------------------------------

(* The intermediate results among used are gone. *)
Take(used) ==
  /\ held' = held \ used
  /\ temp' = [t \in Temps |-> IF t \in used THEN Empty ELSE temp[t]]

(* They are gone, and txt is the result: in a place that was free, or, for *)
(* want of memory, nowhere.  Empty text needs no place.                    *)
TakeAndGive(used, txt) ==
  \/ Take(used)
  \/ \E t \in Temps \ held :
       /\ held' = (held \ used) \cup {t}
       /\ temp' = [s \in Temps |-> IF s = t THEN txt
                                   ELSE IF s \in used THEN Empty ELSE temp[s]]

Set(v, txt) == val' = [val EXCEPT ![v] = txt]

Fragments(txt) == {SubSeq(txt, i, j) : i, j \in 1 .. Len(txt)} \cup {Empty}

-----------------------------------------------------------------------------

Enter(v) ==
  /\ v \notin scope /\ scope' = scope \cup {v}
  /\ UNCHANGED << held, val, temp >>

Store(v, src) ==
  /\ Take({src})
  /\ Set(v, Value(src)) \/ (src \notin held /\ Set(v, Empty))

EnterWith(v, src) ==
  /\ v \notin scope /\ scope' = scope \cup {v}
  /\ Store(v, src)

Assign(v, src) ==
  /\ v \in scope /\ UNCHANGED scope
  /\ Store(v, src)

Extend(v, src) ==
  /\ v \in scope /\ UNCHANGED scope
  /\ Take({src})
  /\ Set(v, val[v] \o Value(src)) \/ UNCHANGED val

SwapVars(v, w) ==
  /\ v \in scope /\ w \in scope
  /\ UNCHANGED << scope, held, temp >>
  /\ val' = [val EXCEPT ![v] = val[w], ![w] = val[v]]

Leave(v) ==
  /\ v \in scope /\ scope' = scope \ {v}
  /\ UNCHANGED << held, temp >>
  /\ Set(v, Empty)

Return(v) ==
  /\ v \in scope /\ scope' = scope \ {v}
  /\ Set(v, Empty)
  /\ TakeAndGive({}, val[v])

Join(a, b) == TakeAndGive({a, b}, Value(a) \o Value(b))

Cut(src) == \E txt \in Fragments(Value(src)) : TakeAndGive({src}, txt)

Recase(src) ==
  \E table \in Cases :
    TakeAndGive({src}, [i \in DOMAIN Value(src) |-> table[Value(src)[i]]])

Repeat(src) ==
  LET unit == IF Value(src) = Empty THEN Space ELSE Value(src)[1]
  IN  \E n \in 0 .. MaxUnits : TakeAndGive({src}, [i \in 1 .. n |-> unit])

Read(a, b) == Take({a, b})

(* A call that is part of an expression changes no variable. *)
Expression ==
  /\ UNCHANGED << scope, val >>
  /\ \/ \E a, b \in Operand : Read(a, b) \/ Join(a, b)
     \/ \E src \in Operand : Cut(src) \/ Recase(src) \/ Repeat(src)

Next ==
  \/ \E v \in Var : Enter(v) \/ Leave(v) \/ Return(v)
  \/ \E v \in Var, src \in Operand :
       EnterWith(v, src) \/ Assign(v, src) \/ Extend(v, src)
  \/ \E v, w \in Var : SwapVars(v, w)
  \/ Expression

Spec == Init /\ [][Next]_vars

=============================================================================
