------------------------------ MODULE UStrUsing -----------------------------
(***************************************************************************)
(* PRINT USING with ustrings: fb_PrintUsingInit, fb_PrintUsingUStr and     *)
(* fb_PrintUsingEnd of io_printusg.c, one iteration of their loops at a    *)
(* time, as the statements of one thread call them.                        *)
(*                                                                         *)
(* The format string is kept in a context of the thread, with a pointer    *)
(* into it and the number of characters that are left.  Every value takes  *)
(* the parser on to the end of its field and past the text behind it.  The *)
(* call for the last value already frees the format, and leaves the        *)
(* pointer where it is; fb_PrintUsingEnd, which always follows, looks for  *)
(* text there once more.  An argument may be a call of a FUNCTION that     *)
(* executes a PRINT USING itself.                                          *)
(*                                                                         *)
(* Of the number formats there is only their first character.              *)
(***************************************************************************)
EXTENDS Integers, Sequences, SequencesExt

CONSTANTS
  Statements, \* what the program prints
  Inner,      \* what a FUNCTION in an argument prints, as part of that
  Litter,     \* characters that may be found where the format was freed
  Room        \* BUFFERLEN

NUL       == "0"
Newline   == "newline"
Space     == " "
Backslash == "\\"
Escape    == "_"

(* Characters at which fb_PrintUsingFmtStr stops. *)
Stops == {"!", Backslash, "&", "#"}

ASSUME UsingAssumption ==
  /\ Room \in Nat \ {0}
  /\ Statements \cup Inner \subseteq
       [format : Seq(STRING), values : Seq(Seq(STRING)), newline : BOOLEAN]
  /\ Litter # {} /\ Litter \subseteq STRING

VARIABLES
  ctx,   \* FB_PRINTUSGCTX: the format, whether it is allocated, the next
         \* character, how many are left
  stack, \* the statements being executed, the innermost last: what they
         \* print, how many values they have printed, their output, whether
         \* the context was their own all the time, and how many values they
         \* had printed when it was taken from them
  at,    \* where the thread is
  back,  \* where fb_PrintUsingFmtStr returns to
  buf,   \* the text it has collected
  width  \* strchars

vars == << ctx, stack, at, back, buf, width >>

-----------------------------------------------------------------------------
Top      == Last(stack)
WithTop(s) == [stack EXCEPT ![Len(stack)] = s]
Value    == Top.values[Top.done + 1]

Say(t) == stack' = WithTop([Top EXCEPT !.said = @ \o t])

(* What may be read k characters on, if that is within the count. *)
Seen(k) ==
  IF k >= ctx.chars THEN {}
  ELSE IF ctx.live THEN {ctx.fmt[ctx.ptr + k]} ELSE Litter

Forward(k) == ctx' = [ctx EXCEPT !.ptr = @ + k, !.chars = @ - k]

(* Out of a function, whose variables are gone. *)
Goto(place) == at' = place /\ back' = "idle" /\ buf' = << >> /\ width' = -1

(* A call of fb_PrintUsingFmtStr. *)
Text(then) == at' = "text" /\ back' = then /\ buf' = << >>

Freed == [fmt |-> << >>, live |-> FALSE, ptr |-> 0, chars |-> 0]

Init ==
  /\ ctx = Freed /\ stack = << >> /\ at = "idle" /\ back = "idle"
  /\ buf = << >> /\ width = -1

-----------------------------------------------------------------------------
(* fb_PrintUsingInit: the context is taken over, whose ever it was. *)
Start(s) ==
  /\ ctx' = [fmt |-> s.format, live |-> TRUE, ptr |-> 1, chars |-> Len(s.format)]
  /\ stack' = Append([i \in DOMAIN stack |->
                        [stack[i] EXCEPT !.own = FALSE, !.lost = stack[i].done]],
                     [format |-> s.format, values |-> s.values,
                      newline |-> s.newline, done |-> 0, said |-> << >>,
                      own |-> TRUE, lost |-> 0])
  /\ Goto("argument")

Begin == at = "idle" /\ \E s \in Statements : Start(s)

(* The FUNCTION in the next argument. *)
Nest ==
  /\ at = "argument" /\ Len(stack) = 1 /\ Top.own
  /\ Top.done < Len(Top.values)
  /\ \E s \in Inner : Start(s)

(* Bug: the restart forgets the pointer. *)
CallKeepsPointer ==
  /\ at = "argument" /\ Top.done < Len(Top.values)
  /\ ctx' = IF ctx.chars = 0 /\ ctx.live
            THEN [ctx EXCEPT !.chars = Len(ctx.fmt)] ELSE ctx
  /\ width' = -1
  /\ Text("field") /\ UNCHANGED stack

(* fb_PrintUsingUStr, with the restart of an exhausted format. *)
Call ==
  /\ at = "argument" /\ Top.done < Len(Top.values)
  /\ ctx' = IF ctx.chars = 0 /\ ctx.live
            THEN [ctx EXCEPT !.ptr = 1, !.chars = Len(ctx.fmt)] ELSE ctx
  /\ width' = -1
  /\ Text("field") /\ UNCHANGED stack

-----------------------------------------------------------------------------
(* fb_PrintUsingFmtStr *)

TextChar ==
  /\ at = "text" /\ Len(buf) < Room
  /\ \E c \in Seen(0) :
       /\ c \notin Stops
       /\ IF c = Escape /\ ctx.chars > 1
          THEN \E n \in Seen(1) : buf' = Append(buf, n) /\ Forward(2)
          ELSE buf' = Append(buf, c) /\ Forward(1)
  /\ UNCHANGED << stack, at, back, width >>

TextEnd ==
  /\ at = "text"
  /\ ctx.chars = 0 \/ Len(buf) >= Room \/ Seen(0) \cap Stops # {}
  /\ Say(buf) /\ at' = back /\ buf' = << >> /\ back' = "idle"
  /\ UNCHANGED << ctx, width >>

-----------------------------------------------------------------------------
(* The loop of fb_PrintUsingUStr *)

Blanks(n) == [i \in 1 .. n |-> Space]

(* The text in a field of w units. *)
Filled(v, w) ==
  IF Len(v) < w THEN v \o Blanks(w - Len(v))
  ELSE [i \in 1 .. w |-> IF v[i] = NUL THEN Space ELSE v[i]]

At(c) == at = "field" /\ c \in Seen(0)

(* The field is done: print what it holds, step over it, and any text.     *)
Put(t) ==
  /\ Say(t) /\ Forward(1)
  /\ Text("finish") /\ UNCHANGED width

FirstUnit ==
  At("!") /\ Put(IF Value = << >> THEN << Space >> ELSE << Value[1] >>)

Whole == At("&") /\ Put(Value)

Open ==
  /\ At(Backslash) /\ width = -1 /\ Seen(1) \cap {Space, Backslash} # {}
  /\ width' = 1 /\ Forward(1)
  /\ UNCHANGED << stack, at, back, buf >>

Blank ==
  /\ At(Space) /\ width > -1
  /\ width' = width + 1 /\ Forward(1)
  /\ UNCHANGED << stack, at, back, buf >>

(* Bug: the closing backslash is not counted. *)
CloseNotCounted ==
  /\ At(Backslash) /\ width > 0
  /\ Put(Filled(Value, IF width > Room THEN Room ELSE width))

Close ==
  /\ At(Backslash) /\ width > 0
  /\ Put(Filled(Value, IF width + 1 > Room THEN Room ELSE width + 1))

(* What is at the pointer is no field for a text. *)
Misplaced(c) ==
  /\ c \notin {"!", "&"}
  /\ c = Space  => width = -1
  /\ c = Backslash => width = -1 /\ (ctx.chars = 1 \/ Seen(1) \ {Space, Backslash} # {})

(* Bug: the loop is not left. *)
NoFieldGoesOn ==
  /\ at = "field"
  /\ ctx.chars = 0 \/ \E c \in Seen(0) : Misplaced(c)
  /\ IF ctx.chars = 0 THEN Text("finish") ELSE UNCHANGED << at, back, buf >>
  /\ UNCHANGED << ctx, stack, width >>

NoField ==
  /\ at = "field"
  /\ ctx.chars = 0 \/ \E c \in Seen(0) : Misplaced(c)
  /\ Text("finish") /\ UNCHANGED << ctx, stack, width >>

(* The end of fb_PrintUsingUStr.  The last value of a statement that does  *)
(* not end with a semicolon prints the new line and frees the format.      *)
Finish ==
  /\ at = "finish"
  /\ LET last == Top.newline /\ Top.done + 1 = Len(Top.values)
     IN  /\ stack' = WithTop([Top EXCEPT !.done = @ + 1,
                               !.said = IF last THEN Append(@, Newline) ELSE @])
         /\ ctx' = [ctx EXCEPT !.live = @ /\ ~ last]
  /\ Goto("argument")

(* fb_PrintUsingEnd *)
End ==
  /\ at = "argument" /\ Top.done = Len(Top.values)
  /\ Text("end") /\ UNCHANGED << ctx, stack, width >>

Leave ==
  /\ at = "end"
  /\ ctx' = Freed
  /\ stack' = Front(stack)
  /\ Goto(IF Len(stack) = 1 THEN "idle" ELSE "argument")

Step ==
  \/ Call \/ TextChar \/ TextEnd
  \/ FirstUnit \/ Whole \/ Open \/ Blank \/ Close \/ NoField
  \/ Finish \/ End \/ Leave

Next == Begin \/ Nest \/ Step

(* A thread that is executing a statement goes on. *)
Spec == Init /\ [][Next]_vars /\ WF_vars(Step)

-----------------------------------------------------------------------------
(* What the manual promises *)

(* An item of a format: a literal character, or a field.  A field of width *)
(* 0 takes the whole text, one of width -1 is none for a text.             *)
Literal(c) == [field |-> FALSE, ch |-> c, width |-> 0]
Field(w)   == [field |-> TRUE, ch |-> Space, width |-> w]

Closing(f, i) ==
  {j \in i + 1 .. Len(f) :
     f[j] = Backslash /\ \A k \in i + 1 .. j - 1 : f[k] = Space}

(* A character behind the escape is no field. *)
Escaped(f, i) == f[i] = Escape /\ i < Len(f)

(* The item that begins at i, and the characters it takes in the format. *)
ItemAt(f, i) ==
  CASE f[i] = "!" -> Field(1)
    [] f[i] = "&" -> Field(0)
    [] f[i] = Backslash /\ Closing(f, i) # {} ->
         Field((CHOOSE j \in Closing(f, i) : TRUE) - i + 1)
    [] f[i] = Backslash /\ Closing(f, i) = {} -> Field(-1)
    [] f[i] = "#" -> Field(-1)
    [] OTHER -> Literal(f[IF Escaped(f, i) THEN i + 1 ELSE i])

TakenBy(f, i) ==
  IF Escaped(f, i) THEN 2
  ELSE IF ItemAt(f, i).width > 1 THEN ItemAt(f, i).width ELSE 1

(* The pieces P from the first on, the one behind piece i being i + K[i],  *)
(* and E behind the last.                                                  *)
Joined(P, K, E) ==
  LET from[i \in Nat] == IF i \in DOMAIN P THEN P[i] \o from[i + K[i]] ELSE E
  IN  from[1]

Items(f) ==
  Joined([i \in DOMAIN f |-> << ItemAt(f, i) >>],
         [i \in DOMAIN f |-> TakenBy(f, i)], << >>)

FieldsIn(items) == {i \in DOMAIN items : items[i].field}

(* The first field from item i on, if there is one, and the text before. *)
NextField(items, i) ==
  CHOOSE j \in i .. Len(items) + 1 :
    /\ j <= Len(items) => items[j].field
    /\ \A k \in i .. j - 1 : ~ items[k].field

Lead(items, i) == [k \in 1 .. NextField(items, i) - i |-> items[i + k - 1].ch]

(* A format with a field, without one that is no field for a text, and     *)
(* without more literal text in one piece than the buffer takes.           *)
WellFormed(items) ==
  /\ FieldsIn(items) # {}
  /\ \A i \in FieldsIn(items) : items[i].width >= 0
  /\ \A i \in DOMAIN items : Len(Lead(items, i)) <= Room

(* Behind the last field the format is gone through again. *)
Following(items, i) ==
  LET j == NextField(items, i + 1)
  IN  IF j <= Len(items) THEN j ELSE NextField(items, 1)

Ahead(items, i) ==
  Lead(items, i + 1)
    \o (IF NextField(items, i + 1) <= Len(items) THEN << >> ELSE Lead(items, 1))

(* The fields of n values. *)
Taken(items, n) ==
  LET field[d \in 0 .. n] ==
        IF d = 0 THEN 0 ELSE Following(items, field[d - 1])
  IN  field

(* A text that fills a field between backslashes has blanks for its NULs;  *)
(* a shorter one, and a field of one unit, keep them.                      *)
Shown(v, w) ==
  LET m == IF w > Room THEN Room ELSE w
      Kept(j) == IF v[j] = NUL /\ w > 1 /\ Len(v) >= m THEN Space ELSE v[j]
  IN  IF w = 0 THEN v
      ELSE [j \in 1 .. m |-> IF j <= Len(v) THEN Kept(j) ELSE Space]

(* Every value in its field, behind the literal text in front of that, and *)
(* the text behind the last.                                               *)
Promised(s) ==
  LET items == Items(s.format)
      n     == Len(s.values)
      taken == Taken(items, n)
  IN  Joined([d \in 1 .. n |-> Ahead(items, taken[d - 1])
                                  \o Shown(s.values[d], items[taken[d]].width)],
             [d \in 1 .. n |-> 1],
             Lead(items, taken[n] + 1))

(* A field of the format is behind that of the last value. *)
FieldLeft(s) ==
  LET items == Items(s.format)
      n     == Len(s.values)
  IN  \E j \in FieldsIn(items) : j > Taken(items, n)[n]

(* Of the first d values only; before there is one, nothing is printed.    *)
Begun(s, d) ==
  IF d = 0 THEN << >>
  ELSE Promised([format |-> s.format, values |-> SubSeq(s.values, 1, d)])

(* The new line at the end. *)
Final(s) == IF s.newline /\ s.values # << >> THEN << Newline >> ELSE << >>

(* The text that may be found where the format was. *)
Remains(s) ==
  UNION {[1 .. n -> Litter] : n \in {k \in 0 .. Room : k <= Len(s.format)}}

-----------------------------------------------------------------------------
TypeOK ==
  /\ at \in {"idle", "argument", "text", "field", "finish", "end"}
  /\ ctx.chars >= 0 /\ (ctx.live => ctx.ptr + ctx.chars = Len(ctx.fmt) + 1)
  /\ Len(buf) <= Room /\ width >= -1
  /\ at # "idle" => stack # << >>

(* A statement that had the context for itself prints every value in its   *)
(* field and all the text around, whatever the fields, their order and the *)
(* number of values, and nothing else -- unless it frees the format with a *)
(* field left over: then no more may follow than the format was long and   *)
(* the buffer takes, of what is found in its place.  One whose argument    *)
(* executed a PRINT USING has printed what was due up to there, and has    *)
(* its new line: no value behind that, and no text.                        *)
PrintsAsPromised ==
  at = "end" /\ WellFormed(Items(Top.format)) =>
    \/ Top.own /\ Top.said = Promised(Top) \o Final(Top)
    \/ /\ Top.own /\ FieldLeft(Top) /\ Final(Top) # << >>
       /\ \E rest \in Remains(Top) : Top.said = Promised(Top) \o Final(Top) \o rest
    \/ ~ Top.own /\ Top.said = Begun(Top, Top.lost) \o Final(Top)

-----------------------------------------------------------------------------
(* What the source says of one of these values *)

(* NULs in a field between backslashes are printed as blanks, "as in the   *)
(* narrow and wide versions" (io_printusg.c:654).  Those of a text that is *)
(* shorter than the field are not (line 647).                              *)
NulsRenderAsSpaces ==
  at = "end" /\ Top.own /\ WellFormed(Items(Top.format)) =>
    LET items == Items(Top.format)
    IN  (\A i \in FieldsIn(items) : items[i].width > 1) =>
          \A k \in DOMAIN Top.said : Top.said[k] # NUL

(* Every statement ends, for every format: malformed ones, and what is     *)
(* found where a format was freed.                                         *)
StatementsEnd == (at # "idle") ~> (at = "idle")

=============================================================================
