------------------------------ MODULE UStrSlice -----------------------------
(***************************************************************************)
(* LEFT, RIGHT and MID of a ustring (ustr_slice.c), over signed arguments  *)
(* as wide as the machine's: every position and count in                   *)
(* -(MaxInt + 1) .. MaxInt can be passed.                                  *)
(***************************************************************************)
EXTENDS UStrSizes, Sequences

CONSTANTS
  CodeUnits,   \* the code units
  MaxInt   \* the largest ssize_t

ASSUME SliceAssumption == MaxInt \in Nat /\ 2 * MaxUnits < MaxInt

Ops      == {"left", "right", "mid"}
Fates    == {"waiting", "clamped", "copied", "null", "refused", "toobig"}
Ssize    == -(MaxInt + 1) .. MaxInt
Subjects == {s \in Seq(CodeUnits) : Len(s) <= MaxUnits}

VARIABLES
  op, string, begin, units,  \* the call; begin, where MID starts
  from, taken,             \* the window, chosen by Clamp
  fate,                    \* what became of the request
  slice                    \* the text of the result

sliceVars == << op, string, begin, units, from, taken, fate, slice >>
call      == << op, string, begin, units >>

-----------------------------------------------------------------------------
(* Bug: the last unit is past the end. *)
NothingFromLast == \/ string = << >> \/ begin <= 0
                   \/ begin >= Len(string) \/ units = 0

Nothing == string = << >> \/ begin <= 0 \/ begin > Len(string) \/ units = 0

(* Signed overflow is undefined: the build wraps the sum or compares as if *)
(* it had not overflowed.                                                  *)
Sums(a, b) == IF a + b <= MaxInt THEN {a + b}
              ELSE {a + b, a + b - 2 * (MaxInt + 1)}

AtMost(n) == IF n > Len(string) THEN Len(string) ELSE n

(* Bug: what reaches past the end is not cut to it. *)
MidCountUncut(n, sum) == n

MidCount(n, sum) == IF sum > Len(string) THEN Len(string) - (begin - 1) ELSE n

SliceInit ==
  /\ op \in Ops /\ string \in Subjects /\ begin \in Ssize /\ units \in Ssize
  /\ op # "mid" => begin = 1
  /\ from = 0 /\ taken = 0 /\ fate = "waiting" /\ slice = << >>

Left ==
  /\ op = "left" /\ from' = 0 /\ taken' = AtMost(units)

Right ==
  /\ op = "right" /\ taken' = AtMost(units)
  /\ from' = IF taken' > 0 THEN Len(string) - taken' ELSE 0

Mid ==
  /\ op = "mid"
  /\ IF Nothing THEN from' = 0 /\ taken' = 0
     ELSE /\ from' = begin - 1
          /\ LET n == IF units < 0 THEN Len(string) ELSE units
             IN  \E sum \in Sums(begin - 1, n) : taken' = MidCount(n, sum)

Clamp ==
  /\ fate = "waiting" /\ fate' = "clamped"
  /\ Left \/ Right \/ Mid
  /\ UNCHANGED << call, slice >>

NoText ==
  /\ fate = "clamped" /\ taken <= 0
  /\ fate' = "null" /\ UNCHANGED << call, from, taken, slice >>

(* The temp is not allocated: the size is too big, or malloc refuses. *)
Refuse ==
  /\ fate = "clamped" /\ taken > 0
  /\ fate' = IF TooBig(taken) THEN "toobig" ELSE "refused"
  /\ UNCHANGED << call, from, taken, slice >>

Copy ==
  /\ fate = "clamped" /\ taken > 0 /\ ~ TooBig(taken)
  /\ fate' = "copied" /\ slice' = SubSeq(string, from + 1, from + taken)
  /\ UNCHANGED << call, from, taken >>

SliceNext == Clamp \/ NoText \/ Refuse \/ Copy

SliceSpec == SliceInit /\ [][SliceNext]_sliceVars

-----------------------------------------------------------------------------
Between(s, i, j) == IF j < i THEN << >> ELSE SubSeq(s, i, j)
Lesser(a, b)      == IF a < b THEN a ELSE b

(* What the manual promises of function o on s. *)
PromisedSlice(o, s, p, n) ==
  CASE o = "left"  -> Between(s, 1, Lesser(n, Len(s)))
    [] o = "right" -> IF n <= 0 THEN << >>
                      ELSE Between(s, Len(s) - Lesser(n, Len(s)) + 1, Len(s))
    [] o = "mid"   -> IF p \notin 1 .. Len(s) THEN << >>
                      ELSE IF n < 0 \/ n > Len(s) - p THEN Between(s, p, Len(s))
                      ELSE Between(s, p, p + n - 1)

Expected == PromisedSlice(op, string, begin, units)

SliceTypeOK ==
  /\ op \in Ops /\ string \in Subjects /\ begin \in Ssize /\ units \in Ssize
  /\ from \in 0 .. MaxUnits /\ taken \in Ssize
  /\ fate \in Fates /\ slice \in Subjects

(* Whatever was asked for, and even when begin + units overflows, a window *)
(* that is small enough to be allocated lies within the text: the copy     *)
(* reads nothing else.                                                     *)
ReadsInside == taken \in 1 .. MaxUnits => from + taken <= Len(string)

(* begin + units is more than the machine's integers hold.                 *)
Overflows == op = "mid" /\ begin - 1 + units > MaxInt

Ended == fate \in {"copied", "null", "toobig"}

(* The call ends with the text the manual promises, for every argument of  *)
(* the width, unless malloc refuses; or, where begin + units overflows and *)
(* the build wraps the sum, with no text, against the manual               *)
(* (KeyPgMidfunction: all that is left of the text, however large the      *)
(* count).  It never ends with another.                                    *)
SliceAsPromised == Ended => slice = Expected \/ (slice = << >> /\ Overflows)

(* Only a count so large that begin + units overflows is ever refused for  *)
(* its size: nothing that fits is.                                         *)
RefusedOnOverflow == fate = "toobig" => Overflows

=============================================================================
