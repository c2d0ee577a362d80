--------------------------- MODULE UStrSizesProofs --------------------------
(***************************************************************************)
(* Invariants about sizes and places, for all of them.  UStrGrowth and     *)
(* UStrSlice: every largest request, every granule that is a multiple of   *)
(* eight, every width of the machine's integers of which the largest       *)
(* request is less than half.  UStrUsing: every format, and every size of  *)
(* the buffer for its text.                                                *)
(*                                                                         *)
(* Most of it is about PRINT USING, which goes through a format character  *)
(* by character and is to print what the manual says of its fields.  The   *)
(* items of a format come first; then what is still to be printed behind   *)
(* so many items and values, Rest; then texts that are put together;       *)
(* then what holds of a statement at each place of the code, and how each  *)
(* step of the parser leads from one to the next; last the statements in   *)
(* execution and the invariant, PrintInv.                                  *)
(***************************************************************************)
EXTENDS UStrGrowth, UStrSlice, UStrUsing, SequenceTheorems, FiniteSetTheorems,
        WellFoundedInduction, TLAPS

-----------------------------------------------------------------------------
(* The cost of the allocation policy, by the usual argument with a         *)
(* potential.  A buffer that was just obtained has an eighth of its text   *)
(* to spare; filling it costs writes, and nine units of credit per unit    *)
(* written are enough to have len units of credit when it is full, which   *)
(* is what moving the text will cost.                                      *)

(* What multiplication by a fixed positive number does to order. *)
LEMMA TimesMonotone ==
  ASSUME NEW a \in Nat, NEW b \in Nat, NEW g \in Nat, a <= b
  PROVE  a * g <= b * g
  <1>1. PICK k \in Nat : b = a + k  OBVIOUS
  <1>2. b * g = a * g + k * g /\ k * g \in Nat  BY <1>1
  <1> QED BY <1>2

(* hUStrRoundSize: a multiple of eight, no smaller than the request. *)
LEMMA RoundSizeFacts ==
  ASSUME NEW n \in Nat
  PROVE  /\ RoundSize(n) \in Nat /\ n <= RoundSize(n)
         /\ 8 * (RoundSize(n) \div 8) = RoundSize(n)
  <1> DEFINE q == (n + (Granule - 1)) \div Granule
  <1>1. Granule \in Nat \ {0} /\ Granule % 8 = 0
    BY SizeAssumption, GrowthAssumption
  <1>2. q \in Nat /\ n + (Granule - 1) = q * Granule + ((n + (Granule - 1)) % Granule)
        /\ (n + (Granule - 1)) % Granule \in 0 .. (Granule - 1)
    BY <1>1
  <1>3. RoundSize(n) = q * Granule
    BY DEF RoundSize
  <1>4. PICK g \in Nat : Granule = 8 * g
    BY <1>1
  <1>5. q * Granule = 8 * (q * g) /\ q * g \in Nat /\ q * Granule \in Nat
    BY <1>2, <1>4
  <1> HIDE DEF q
  <1>6. n <= q * Granule
    BY <1>1, <1>2, <1>5
  <1>7. (8 * (q * g)) \div 8 = q * g
    BY <1>5
  <1> QED BY <1>3, <1>5, <1>6, <1>7

(* It keeps the order of the requests. *)
LEMMA RoundSizeMonotone ==
  ASSUME NEW m \in Nat, NEW n \in Nat, m <= n
  PROVE  RoundSize(m) <= RoundSize(n)
  <1> DEFINE p == (m + (Granule - 1)) \div Granule
             q == (n + (Granule - 1)) \div Granule
  <1>1. Granule \in Nat \ {0}
    BY SizeAssumption
  <1>2. p \in Nat /\ q \in Nat /\ p <= q
    BY <1>1
  <1>3. RoundSize(m) = p * Granule /\ RoundSize(n) = q * Granule
    BY DEF RoundSize
  <1> HIDE DEF p, q
  <1> QED BY <1>1, <1>2, <1>3, TimesMonotone

(* The size fb_hUStrRealloc asks for: nine eighths of the rounded request. *)
LEMMA GrownFacts ==
  ASSUME NEW n \in Nat
  PROVE  /\ Grown(n) \in Nat /\ RoundSize(n) <= Grown(n)
         /\ 8 * Grown(n) = 9 * RoundSize(n)
  BY RoundSizeFacts DEF Grown

LEMMA GrownMonotone ==
  ASSUME NEW m \in Nat, NEW n \in Nat, m <= n
  PROVE  Grown(m) <= Grown(n)
  BY GrownFacts, RoundSizeFacts, RoundSizeMonotone

(* No buffer is not too large for no text. *)
LEMMA NothingFits == 0 - 0 \div 8 <= Grown(0)
  BY GrownFacts

(* A buffer costs a new one's worth at most when it is obtained. *)
LEMMA NewBufferFits ==
  ASSUME NEW n \in Nat, NEW room \in Nat, RoundSize(n) <= room, room <= Grown(n)
  PROVE  /\ n <= room /\ room - room \div 8 <= Grown(n)
         /\ n - n \div 8 <= Grown(n)
  BY RoundSizeFacts, GrownFacts

-----------------------------------------------------------------------------
(* The credit: nine per unit written, less the units moved that nothing    *)
(* forced, and enough in hand to move the text when the buffer is full.    *)
Credit(c, l, w, s) == c <= 9 * w /\ c + 9 * l <= 9 * w + 8 * s

Paid == Credit(copied - forced, len, written, size)

GrowthInv == GrowthTypeOK /\ SlackBounded /\ Paid

(* A new buffer needs none of it, however large it is. *)
LEMMA CreditOfNew ==
  ASSUME NEW c \in Nat, NEW l \in Nat, NEW w \in Nat, NEW s \in Nat,
         NEW n \in Nat, NEW t \in Nat, Credit(c, l, w, s)
  PROVE  Credit(c, n, w + n, t)
  BY DEF Credit

(* A new buffer, whatever malloc answered, keeps the invariant. *)
LEMMA NewBufferKeeps ==
  ASSUME GrowthInv, NEW n \in Nat, NEW room \in Nat, NEW got \in {"rounded", "exact", "none"},
         RoundSize(n) <= room, room <= Grown(n),
         NewBuffer(n, room, got), UNCHANGED << copied, forced >>
  PROVE  GrowthInv'
  <1>1. n <= room /\ room - room \div 8 <= Grown(n) /\ n - n \div 8 <= Grown(n)
    BY NewBufferFits
  <1>2. CASE got = "none"
    BY <1>2, NothingFits DEF GrowthInv, GrowthTypeOK, SlackBounded, Paid, Credit, NewBuffer
  <1>3. CASE got # "none"
    <2>1. size' \in {n, room} /\ len' = n
          /\ written' = written + n /\ copied' = copied /\ forced' = forced
      BY <1>3 DEF NewBuffer, Tally
    <2>2. n <= size' /\ size' \in Nat
      BY <1>1, <2>1
    <2>3. GrowthTypeOK'
      BY <2>1, <2>2 DEF GrowthInv, GrowthTypeOK
    <2>4. Paid'
      <3>1. /\ copied - forced \in Nat /\ len \in Nat /\ written \in Nat /\ size \in Nat
            /\ Credit(copied - forced, len, written, size)
        BY DEF GrowthInv, GrowthTypeOK, Paid
      <3>2. Credit(copied - forced, n, written + n, size')
        BY <2>2, <3>1, CreditOfNew
      <3>3. Credit(copied' - forced', len', written', size')
        BY <2>1, <3>2
      <3> QED BY <3>3 DEF Paid
    <2>5. SlackBounded'
      BY <1>1, <2>1 DEF SlackBounded
    <2> QED BY <2>3, <2>4, <2>5 DEF GrowthInv
  <1> QED BY <1>2, <1>3

(* Keeping the buffer for n units keeps it, if they fit and are not few. *)
LEMMA WriteKeeps ==
  ASSUME GrowthInv, NEW n \in Nat, NEW k \in Nat,
         n <= size, size - size \div 8 <= Grown(n), n <= len + k,
         len' = n, Tally(k), UNCHANGED << size, copied, forced >>
  PROVE  GrowthInv'
  BY DEF GrowthInv, GrowthTypeOK, SlackBounded, Paid, Credit, Tally

(* Moving the text keeps it: into a buffer an eighth larger the credit pays *)
(* for the move, into one of the bare size the refusal does.               *)
LEMMA MoveKeeps ==
  ASSUME GrowthInv, NEW k \in Nat \ {0}, NEW got, size < len + k,
         len' = len + k, Move(len + k, got), Tally(k)
  PROVE  GrowthInv'
  <1> DEFINE n == len + k
  <1>1. n \in Nat
    BY DEF GrowthInv, GrowthTypeOK
  <1>2. /\ RoundSize(n) \in Nat /\ n <= RoundSize(n) /\ Grown(n) \in Nat
        /\ RoundSize(n) <= Grown(n) /\ 8 * Grown(n) = 9 * RoundSize(n)
    BY <1>1, RoundSizeFacts, GrownFacts
  <1>3. /\ len \in Nat /\ size \in Nat /\ copied \in Nat /\ written \in Nat
        /\ forced \in Nat /\ forced <= copied
        /\ len <= size /\ copied - forced <= 9 * written
        /\ copied - forced + 9 * len <= 9 * written + 8 * size
    BY DEF GrowthInv, GrowthTypeOK, Paid, Credit
  <1>4. len' = n /\ written' = written + k /\ n = len + k /\ copied' = copied + len
    BY DEF Tally, Move
  <1>5. \/ size' = Grown(n) /\ forced' = forced
        \/ size' = n /\ forced' = forced + len
    BY DEF Move
  <1> HIDE DEF n
  <1>6. GrowthTypeOK' /\ SlackBounded'
    <2>1. CASE size' = Grown(n) /\ forced' = forced
      BY <1>1, <1>2, <1>3, <1>4, <2>1 DEF GrowthTypeOK, SlackBounded
    <2>2. CASE size' = n /\ forced' = forced + len
      BY <1>1, <1>2, <1>3, <1>4, <2>2 DEF GrowthTypeOK, SlackBounded
    <2> QED BY <1>5, <2>1, <2>2
  <1>7. Paid'
    <2>1. CASE size' = Grown(n) /\ forced' = forced
      BY <1>1, <1>2, <1>3, <1>4, <2>1 DEF Paid, Credit
    <2>2. CASE size' = n /\ forced' = forced + len
      BY <1>1, <1>2, <1>3, <1>4, <2>2 DEF Paid, Credit
    <2> QED BY <1>5, <2>1, <2>2
  <1> QED BY <1>6, <1>7 DEF GrowthInv

-----------------------------------------------------------------------------

(* The invariant holds at the start and is kept by every step. *)
LEMMA GrowthInitially == GrowthInit => GrowthInv
  BY NothingFits DEF GrowthInit, GrowthInv, GrowthTypeOK, SlackBounded, Paid, Credit

(* fb_hUStrAlloc asks for the rounded size. *)
LEMMA InitFromKeeps ==
  ASSUME GrowthInv, NEW n \in Requests, NEW got \in Answers, InitFrom(n, got)
  PROVE  GrowthInv'
  <1>1. n \in Nat /\ got \in {"rounded", "exact", "none"}
    BY SizeAssumption, GrowthAssumption
  <1>2. RoundSize(n) \in Nat /\ RoundSize(n) <= Grown(n)
    BY <1>1, RoundSizeFacts, GrownFacts
  <1> QED BY <1>1, <1>2, NewBufferKeeps DEF InitFrom

(* fb_UStrAssignEx keeps the buffer, or asks for the grown size. *)
LEMMA AssignKeeps ==
  ASSUME GrowthInv, NEW n \in Requests, NEW got \in Answers, Assign(n, got)
  PROVE  GrowthInv'
  <1>1. n \in Nat /\ got \in {"rounded", "exact", "none"}
    BY SizeAssumption, GrowthAssumption
  <1>2. RoundSize(n) <= Grown(n) /\ Grown(n) \in Nat
    BY <1>1, GrownFacts
  <1>3. CASE n = len \/ ~ Misfit(size, n, FALSE)
    <2>1. n <= size /\ size - size \div 8 <= Grown(n)
      BY <1>1, <1>2, <1>3 DEF GrowthInv, GrowthTypeOK, SlackBounded, Misfit
    <2>2. len' = n /\ Tally(n) /\ UNCHANGED << size, copied, forced >>
      BY <1>3 DEF Assign
    <2>3. n <= len + n
      BY <1>1 DEF GrowthInv, GrowthTypeOK
    <2> QED BY <1>1, <2>1, <2>2, <2>3, WriteKeeps
  <1>4. CASE ~ (n = len \/ ~ Misfit(size, n, FALSE))
    BY <1>1, <1>2, <1>4, NewBufferKeeps DEF Assign
  <1> QED BY <1>3, <1>4

(* So did the temp whose buffer an assignment takes. *)
LEMMA AdoptKeeps ==
  ASSUME GrowthInv, NEW n \in Requests, NEW got \in Answers, Adopt(n, got)
  PROVE  GrowthInv'
  <1>1. n \in Nat /\ got \in {"rounded", "exact", "none"}
    BY SizeAssumption, GrowthAssumption
  <1>2. RoundSize(n) <= Grown(n) /\ Grown(n) \in Nat
    BY <1>1, GrownFacts
  <1> QED BY <1>1, <1>2, NewBufferKeeps DEF Adopt

(* A step that changes nothing keeps it. *)
LEMMA GrowthStutters == GrowthInv /\ UNCHANGED growthVars => GrowthInv'
  BY DEF growthVars, GrowthInv, GrowthTypeOK, SlackBounded, Paid, Credit

(* fb_UStrConcatAssign writes behind the text, or moves it first, or gives *)
(* up.                                                                     *)
LEMMA ExtendKeeps ==
  ASSUME GrowthInv, NEW k \in Requests, NEW got \in Answers, Extend(k, got)
  PROVE  GrowthInv'
  <1>1. k \in Nat \ {0} /\ len \in Nat /\ size \in Nat /\ len + k \in Nat
    BY SizeAssumption, GrowthAssumption DEF GrowthInv, GrowthTypeOK
  <1>2. CASE ~ Misfit(size, len + k, TRUE)
    <2>1. len' = len + k /\ Tally(k) /\ UNCHANGED << size, copied, forced >>
      BY <1>2 DEF Extend
    <2>2. len + k <= size
      BY <1>1, <1>2 DEF Misfit
    <2>3. size - size \div 8 <= Grown(len + k)
      <3>1. Grown(len) <= Grown(len + k) /\ Grown(len) \in Nat
            /\ Grown(len + k) \in Nat
        BY <1>1, GrownMonotone, GrownFacts
      <3>2. size - size \div 8 <= Grown(len)
        BY <1>2 DEF GrowthInv, SlackBounded
      <3> QED BY <1>1, <3>1, <3>2
    <2> QED BY <1>1, <1>2, <2>1, <2>2, <2>3, WriteKeeps
  <1>3. CASE Misfit(size, len + k, TRUE) /\ got # "none"
    <2>1. len' = len + k /\ Move(len + k, got) /\ Tally(k)
      BY <1>3 DEF Extend
    <2>2. size < len + k
      BY <1>1, <1>3 DEF Misfit, GrowthInv, GrowthTypeOK
    <2> QED BY <1>1, <2>1, <2>2, MoveKeeps
  <1>4. CASE Misfit(size, len + k, TRUE) /\ got = "none"
    BY <1>4, GrowthStutters DEF Extend
  <1> QED BY <1>2, <1>3, <1>4

(* Every step of a run keeps the invariant. *)
LEMMA GrowthKeepsInv == GrowthInv /\ [GrowthNext]_growthVars => GrowthInv'
  <1> SUFFICES ASSUME GrowthInv, [GrowthNext]_growthVars PROVE GrowthInv'
    OBVIOUS
  <1>1. CASE Delete
    BY <1>1, NothingFits DEF Delete, GrowthInv, GrowthTypeOK, SlackBounded, Paid, Credit
  <1>2. ASSUME NEW n \in Requests, NEW got \in Answers,
               InitFrom(n, got) \/ Assign(n, got) \/ Adopt(n, got) \/ Extend(n, got)
        PROVE  GrowthInv'
    BY <1>2, InitFromKeeps, AssignKeeps, AdoptKeeps, ExtendKeeps
  <1>3. CASE UNCHANGED growthVars
    BY <1>3, GrowthStutters
  <1> QED BY <1>1, <1>2, <1>3 DEF GrowthNext

(* The invariant holds in every reachable state. *)
THEOREM GrowthInvariance == GrowthSpec => []GrowthInv
  BY GrowthInitially, GrowthKeepsInv, PTL DEF GrowthSpec

(* Lengths and sizes are numbers and the text fits its buffer, under any   *)
(* mix of the calls that use the allocator.                                *)
THEOREM GrowthTypes == GrowthSpec => []GrowthTypeOK
  <1>1. GrowthInv => GrowthTypeOK  BY DEF GrowthInv
  <1> QED BY <1>1, GrowthInvariance, PTL

(* Appends in a loop are amortised O(1): no run moves more than nine units *)
(* per unit it writes, beyond those it moved because malloc refused the    *)
(* generous size and granted the bare one.                                 *)
THEOREM AppendIsAmortised == GrowthSpec => []Amortised
  <1>1. GrowthInv => Amortised  BY DEF GrowthInv, GrowthTypeOK, Paid, Credit, Amortised
  <1> QED BY <1>1, GrowthInvariance, PTL

(* A buffer is never needlessly large for the text it holds. *)
THEOREM SlackIsBounded == GrowthSpec => []SlackBounded
  <1>1. GrowthInv => SlackBounded  BY DEF GrowthInv
  <1> QED BY <1>1, GrowthInvariance, PTL

-----------------------------------------------------------------------------
(* The window of a slice.                                                  *)

USE DEF Ops, Fates

LEMMA TextFacts ==
  ASSUME NEW s \in Subjects
  PROVE  /\ Len(s) \in 0 .. MaxUnits /\ Len(s) \in Int
         /\ s \in [1 .. Len(s) -> CodeUnits] /\ s \in Seq(CodeUnits)
         /\ (s = << >>) <=> (Len(s) = 0)
<1>1. PICK n \in 0 .. MaxUnits : s \in [1 .. n -> CodeUnits]
  BY DEF Subjects
<1>2. n \in Nat /\ s \in Seq(CodeUnits)
  BY <1>1, SizeAssumption, SliceAssumption
<1>3. Len(s) = n
  BY <1>1, <1>2
<1> QED
  BY <1>1, <1>2, <1>3, SizeAssumption, SliceAssumption

LEMMA PieceIsText ==
  ASSUME NEW s \in Subjects, NEW f \in 0 .. MaxUnits, NEW n \in 1 .. MaxUnits,
         f + n <= Len(s)
  PROVE  SubSeq(s, f + 1, f + n) \in Subjects
<1>1. f \in Nat /\ n \in Nat /\ Len(s) \in Nat /\ Len(s) <= MaxUnits
  BY TextFacts, SizeAssumption, SliceAssumption
<1>2. SubSeq(s, f + 1, f + n) = [i \in 1 .. n |-> s[f + i]]
  BY <1>1, TextFacts
<1>3. \A i \in 1 .. n : s[f + i] \in CodeUnits
  BY <1>1, TextFacts
<1>4. SubSeq(s, f + 1, f + n) \in [1 .. n -> CodeUnits]
  BY <1>2, <1>3
<1>5. n \in 0 .. MaxUnits
  BY SizeAssumption, SliceAssumption
<1> QED
  BY <1>4, <1>5 DEF Subjects

(* The count that MID settles on: what is left of the text, or a count so  *)
(* large that the sum has wrapped, and then no buffer can hold it.         *)
LEMMA MidWindow ==
  ASSUME NEW L \in 1 .. MaxUnits, NEW p \in 1 .. L, NEW u \in Ssize, u # 0,
         NEW n, n = (IF u < 0 THEN L ELSE u),
         NEW sum \in Sums(p - 1, n),
         NEW k, k = (IF sum > L THEN L - (p - 1) ELSE n)
  PROVE  /\ k \in Ssize /\ k > 0
         /\ k <= MaxUnits => (p - 1) + k <= L
         /\ k > MaxUnits => p - 1 + u > MaxInt
         /\ k <= MaxUnits => k = (IF u < 0 \/ u > L - p THEN L - p + 1 ELSE u)
<1>1. L \in Int /\ p \in Int /\ u \in Int /\ MaxInt \in Nat /\ MaxUnits \in Nat
      /\ 2 * MaxUnits < MaxInt /\ L <= MaxUnits /\ L >= 1 /\ p >= 1 /\ p <= L
      /\ u <= MaxInt /\ u >= -(MaxInt + 1)
  BY SizeAssumption, SliceAssumption DEF Ssize
<1>2. n \in Int /\ n >= 1 /\ n <= MaxInt
  BY <1>1
<1>3. CASE p - 1 + n <= MaxInt
  <2>1. sum = p - 1 + n
    BY <1>3 DEF Sums
  <2> QED
    BY <1>1, <1>2, <1>3, <2>1 DEF Ssize
<1>4. CASE p - 1 + n > MaxInt
  <2>1. u = n /\ n > MaxUnits
    BY <1>1, <1>2, <1>4
  <2>2. CASE sum = p - 1 + n
    BY <1>1, <1>2, <1>4, <2>1, <2>2 DEF Ssize
  <2>3. CASE sum = p - 1 + n - 2 * (MaxInt + 1)
    BY <1>1, <1>2, <1>4, <2>1, <2>3 DEF Ssize
  <2>4. sum \in {p - 1 + n, p - 1 + n - 2 * (MaxInt + 1)}
    BY <1>1, <1>2, <1>4 DEF Sums
  <2> QED
    BY <2>2, <2>3, <2>4
<1> QED
  BY <1>1, <1>2, <1>3, <1>4

LEMMA ExpectedStays ==
  ASSUME op' = op, string' = string, begin' = begin, units' = units
  PROVE  Expected' = Expected
BY DEF Expected

(* What Clamp establishes about the window, for the steps that follow it.  *)
Huge == taken > MaxUnits => Overflows

Foreseen ==
  fate = "clamped" =>
    /\ taken <= 0 => Expected = << >>
    /\ taken \in 1 .. MaxUnits => Expected = SubSeq(string, from + 1, from + taken)

Pending == fate \in {"waiting", "clamped"} => slice = << >>

SliceInv == SliceTypeOK /\ ReadsInside /\ Huge /\ Foreseen /\ Pending
            /\ SliceAsPromised /\ RefusedOnOverflow

LEMMA SliceInitially == SliceInit => SliceInv
<1> SUFFICES ASSUME SliceInit PROVE SliceInv
  OBVIOUS
<1>1. << >> \in Subjects
  <2>1. 0 \in 0 .. MaxUnits
    BY SizeAssumption, SliceAssumption
  <2>2. << >> \in [1 .. 0 -> CodeUnits]
    OBVIOUS
  <2> QED
    BY <2>1, <2>2 DEF Subjects
<1>2. SliceTypeOK
  BY <1>1, SizeAssumption, SliceAssumption DEF SliceInit, SliceTypeOK, Ssize
<1> QED
  BY <1>2, SizeAssumption, SliceAssumption
  DEF SliceInit, SliceInv, ReadsInside, Huge, Foreseen, Pending, SliceAsPromised, Ended, Overflows, RefusedOnOverflow

LEMMA ClampKeepsInv ==
  ASSUME SliceInv, Clamp
  PROVE  SliceInv'
<1> DEFINE L == Len(string)
<1>1. /\ string \in Subjects /\ begin \in Int /\ units \in Int /\ MaxInt \in Nat
      /\ units \in Ssize /\ MaxUnits \in Nat /\ 2 * MaxUnits < MaxInt
      /\ L \in Nat /\ L <= MaxUnits /\ (string = << >> <=> L = 0)
  BY TextFacts, SizeAssumption, SliceAssumption DEF SliceInv, SliceTypeOK, Ssize
<1>2. /\ fate' = "clamped" /\ UNCHANGED << op, string, begin, units, slice >>
      /\ Left \/ Right \/ Mid
  BY DEF Clamp, call
<1> DEFINE Goal == /\ from' \in 0 .. MaxUnits /\ taken' \in Ssize
                   /\ ReadsInside' /\ Huge' /\ Foreseen'
<1>3. ASSUME Left PROVE Goal
  <2>1. op = "left" /\ from' = 0 /\ taken' = AtMost(units)
    BY <1>3 DEF Left
  <2>2. /\ taken' = Lesser(units, L) /\ taken' \in Ssize
        /\ taken' <= L /\ from' \in 0 .. MaxUnits
    BY <1>1, <2>1 DEF AtMost, Lesser, Ssize
  <2>3. ReadsInside' /\ Huge'
    BY <1>1, <1>2, <2>1, <2>2 DEF ReadsInside, Huge
  <2>4. Expected = Between(string, 1, taken')
    BY <2>1, <2>2 DEF Expected, PromisedSlice
  <2>5. Foreseen'
    BY <1>1, <1>2, <2>1, <2>2, <2>4 DEF Foreseen, Expected, PromisedSlice, Between, Ssize
  <2> QED
    BY <2>2, <2>3, <2>5
<1>4. ASSUME Right PROVE Goal
  <2>1. /\ op = "right" /\ taken' = AtMost(units)
        /\ from' = IF taken' > 0 THEN L - taken' ELSE 0
    BY <1>4 DEF Right
  <2>2. /\ taken' = Lesser(units, L) /\ taken' \in Ssize
        /\ taken' <= L /\ from' \in 0 .. MaxUnits
    BY <1>1, <2>1 DEF AtMost, Lesser, Ssize
  <2>3. ReadsInside' /\ Huge'
    BY <1>1, <1>2, <2>1, <2>2 DEF ReadsInside, Huge, Ssize
  <2>4. Expected = IF units <= 0 THEN << >> ELSE Between(string, L - taken' + 1, L)
    BY <2>1, <2>2 DEF Expected, PromisedSlice
  <2>5. Expected' = Expected
    BY <1>2, ExpectedStays
  <2>6. taken' <= 0 => Expected = << >>
    BY <1>1, <2>1, <2>2, <2>4 DEF Between, AtMost, Ssize
  <2>7. ASSUME taken' \in 1 .. MaxUnits
        PROVE  Expected = SubSeq(string, from' + 1, from' + taken')
    <3>0. taken' \in Int /\ taken' >= 1
      BY <1>1, <2>7
    <3>1. units > 0 /\ from' = L - taken'
      <4>1. from' = L - taken'
        BY <2>1, <3>0
      <4>2. CASE units > L
        BY <1>1, <4>1, <4>2
      <4>3. CASE ~ (units > L)
        BY <1>1, <2>1, <3>0, <4>1, <4>3 DEF AtMost
      <4> QED
        BY <4>2, <4>3
    <3>2. from' + 1 = L - taken' + 1 /\ from' + taken' = L /\ ~ (L < L - taken' + 1)
      BY <1>1, <3>0, <3>1
    <3>3. Expected = Between(string, L - taken' + 1, L) /\ ~ (units <= 0)
      BY <1>1, <2>4, <3>1
    <3>4. Expected = SubSeq(string, L - taken' + 1, L)
      BY <3>2, <3>3 DEF Between
    <3> QED
      BY <3>2, <3>4
  <2>8. Foreseen'
    BY <1>2, <2>5, <2>6, <2>7 DEF Foreseen
  <2> QED
    BY <2>2, <2>3, <2>8
<1>5. ASSUME Mid, Nothing PROVE Goal
  <2>1. op = "mid" /\ from' = 0 /\ taken' = 0
    BY <1>5 DEF Mid
  <2>2. from' \in 0 .. MaxUnits /\ taken' \in Ssize /\ ReadsInside' /\ Huge'
    BY <1>1, <2>1 DEF Ssize, ReadsInside, Huge
  <2>3. ASSUME begin \notin 1 .. L PROVE Foreseen'
    <3>1. Expected = << >> /\ Expected' = Expected
      BY <1>2, <2>1, <2>3, ExpectedStays DEF Expected, PromisedSlice
    <3> QED
      BY <2>1, <3>1 DEF Foreseen
  <2>4. ASSUME begin \in 1 .. L PROVE Foreseen'
    <3>1. units = 0 /\ begin - 1 < begin
      BY <1>1, <1>5, <2>4 DEF Nothing
    <3>2. Expected = Between(string, begin, begin + units - 1)
      BY <1>1, <2>1, <2>4, <3>1 DEF Expected, PromisedSlice
    <3>3. Expected = << >>
      BY <1>1, <3>1, <3>2 DEF Between
    <3>4. Expected' = Expected
      BY <1>2, ExpectedStays
    <3> QED
      BY <1>2, <2>1, <3>3, <3>4 DEF Foreseen
  <2>5. Foreseen'
    BY <2>3, <2>4
  <2> QED
    BY <2>2, <2>5
<1>6. ASSUME Mid, ~ Nothing PROVE Goal
  <2> DEFINE n == IF units < 0 THEN L ELSE units
  <2>1. PICK sum \in Sums(begin - 1, n) :
          op = "mid" /\ from' = begin - 1 /\ taken' = MidCount(n, sum)
    BY <1>6 DEF Mid
  <2>2. L \in 1 .. MaxUnits /\ begin \in 1 .. L /\ units # 0
    BY <1>1, <1>6 DEF Nothing
  <2>3. taken' = IF sum > L THEN L - (begin - 1) ELSE n
    BY <2>1 DEF MidCount
  <2>4. /\ taken' \in Ssize /\ taken' > 0
        /\ taken' <= MaxUnits => (begin - 1) + taken' <= L
        /\ taken' > MaxUnits => begin - 1 + units > MaxInt
        /\ taken' <= MaxUnits =>
             taken' = IF units < 0 \/ units > L - begin THEN L - begin + 1 ELSE units
    BY <1>1, <2>1, <2>2, <2>3, MidWindow
  <2>5. from' \in 0 .. MaxUnits /\ taken' \in Int
    BY <1>1, <2>1, <2>2, <2>4 DEF Ssize
  <2>6. ReadsInside' /\ Huge'
    <3>1. ReadsInside'
      BY <1>1, <1>2, <2>1, <2>4, <2>5 DEF ReadsInside
    <3>2. op' = "mid" /\ begin' = begin /\ units' = units
      BY <1>2, <2>1
    <3>3. Huge'
      BY <2>4, <3>2 DEF Huge, Overflows
    <3> QED
      BY <3>1, <3>3
  <2>7. Expected' = Expected
    BY <1>2, ExpectedStays
  <2>8. ASSUME taken' \in 1 .. MaxUnits
        PROVE  Expected = SubSeq(string, from' + 1, from' + taken')
    <3>1. CASE units < 0 \/ units > L - begin
      <4>1. Expected = Between(string, begin, L)
        BY <2>1, <2>2, <3>1 DEF Expected, PromisedSlice
      <4>2. from' + 1 = begin /\ from' + taken' = L /\ ~ (L < begin)
        BY <1>1, <2>1, <2>2, <2>4, <2>8, <3>1
      <4> QED
        BY <4>1, <4>2 DEF Between
    <3>2. CASE ~ (units < 0 \/ units > L - begin)
      <4>1. Expected = Between(string, begin, begin + units - 1)
        BY <2>1, <2>2, <3>2 DEF Expected, PromisedSlice
      <4>2. from' + 1 = begin /\ from' + taken' = begin + units - 1
            /\ ~ (begin + units - 1 < begin)
        BY <1>1, <2>1, <2>2, <2>4, <2>8, <3>2
      <4> QED
        BY <4>1, <4>2 DEF Between
    <3> QED
      BY <3>1, <3>2
  <2>9. Foreseen'
    <3>1. ~ (taken' <= 0)
      BY <2>4, <2>5
    <3> QED
      BY <1>2, <2>7, <2>8, <3>1 DEF Foreseen
  <2> QED
    BY <2>4, <2>5, <2>6, <2>9
<1>7. Goal
  BY <1>2, <1>3, <1>4, <1>5, <1>6
<1>8. SliceTypeOK'
  BY <1>2, <1>7 DEF SliceInv, SliceTypeOK
<1>9. SliceAsPromised' /\ RefusedOnOverflow' /\ Pending'
  BY <1>2 DEF SliceInv, Clamp, Pending, SliceAsPromised, Ended, Overflows, RefusedOnOverflow
<1> QED
  BY <1>7, <1>8, <1>9 DEF SliceInv

LEMMA OthersKeepInv ==
  ASSUME SliceInv, NoText \/ Refuse \/ Copy \/ UNCHANGED sliceVars
  PROVE  SliceInv'
<1> USE DEF SliceInv
<1>0. taken \in Int /\ MaxUnits \in Nat
  BY SizeAssumption, SliceAssumption DEF SliceTypeOK, Ssize
<1>1. UNCHANGED << call, from, taken >>
  BY DEF NoText, Refuse, Copy, sliceVars, call
<1>2. UNCHANGED << op, string, begin, units >> /\ Expected' = Expected /\ Overflows' = Overflows
  BY <1>1, ExpectedStays DEF call, Overflows
<1>3. ReadsInside' /\ Huge'
  BY <1>1, <1>2 DEF ReadsInside, Huge, Overflows
<1>4. CASE NoText
  <2>1. fate' = "null" /\ slice' = slice /\ taken <= 0 /\ fate = "clamped"
    BY <1>4 DEF NoText
  <2>2. SliceTypeOK' /\ Foreseen' /\ RefusedOnOverflow' /\ Pending'
    BY <1>1, <1>2, <2>1 DEF SliceTypeOK, Foreseen, RefusedOnOverflow, Pending
  <2>3. SliceAsPromised'
    BY <1>0, <1>2, <2>1 DEF SliceAsPromised, Ended, Foreseen, Pending
  <2> QED
    BY <1>3, <2>2, <2>3
<1>5. CASE Refuse
  <2>1. /\ fate' = (IF TooBig(taken) THEN "toobig" ELSE "refused")
        /\ slice' = slice /\ taken > 0 /\ fate = "clamped"
    BY <1>5 DEF Refuse
  <2>2. SliceTypeOK' /\ Foreseen' /\ Pending' /\ slice' = << >>
    BY <1>1, <1>2, <2>1 DEF SliceTypeOK, Foreseen, Pending, Fates
  <2>3. RefusedOnOverflow'
    BY <1>0, <1>2, <2>1 DEF RefusedOnOverflow, Huge, TooBig
  <2>4. SliceAsPromised'
    BY <2>1, <2>2, <2>3 DEF SliceAsPromised, Ended, Overflows, RefusedOnOverflow
  <2> QED
    BY <1>3, <2>2, <2>3, <2>4
<1>6. CASE Copy
  <2>1. /\ fate = "clamped" /\ fate' = "copied"
        /\ slice' = SubSeq(string, from + 1, from + taken) /\ taken \in 1 .. MaxUnits
    BY <1>0, <1>6 DEF Copy, TooBig
  <2>2. slice' \in Subjects
    BY <2>1, PieceIsText DEF ReadsInside, SliceTypeOK
  <2>3. SliceTypeOK' /\ Foreseen' /\ RefusedOnOverflow' /\ Pending'
    BY <1>1, <1>2, <2>1, <2>2 DEF SliceTypeOK, Foreseen, RefusedOnOverflow, Pending
  <2>4. Expected = SubSeq(string, from + 1, from + taken)
    BY <2>1 DEF Foreseen
  <2>5. SliceAsPromised'
    <3>1. slice' = Expected'
      BY <1>2, <2>1, <2>4, Zenon
    <3> QED
      BY <3>1 DEF SliceAsPromised, Ended
  <2> QED
    BY <1>3, <2>3, <2>5
<1>7. CASE UNCHANGED sliceVars
  BY <1>2, <1>3, <1>7
  DEF sliceVars, SliceTypeOK, Foreseen, Pending, SliceAsPromised, Ended, Overflows, RefusedOnOverflow
<1> QED
  BY <1>4, <1>5, <1>6, <1>7

THEOREM SliceInvariance == SliceSpec => []SliceInv
<1>1. SliceInv /\ [SliceNext]_sliceVars => SliceInv'
  BY ClampKeepsInv, OthersKeepInv DEF SliceNext
<1> QED
  BY SliceInitially, <1>1, PTL DEF SliceSpec

(* Types of the state of a slice, its window among them.                   *)
THEOREM SliceTypes == SliceSpec => []SliceTypeOK
BY SliceInvariance, PTL DEF SliceInv

(* LEFT, RIGHT and MID copy nothing from outside their text, whatever      *)
(* arguments they are given and whether or not begin + units wraps.        *)
THEOREM SlicesReadInside == SliceSpec => []ReadsInside
BY SliceInvariance, PTL DEF SliceInv

(* They end with the text the manual promises, whatever their arguments,   *)
(* or without text when begin + units overflowed.                          *)
THEOREM SlicesAreAsPromised == SliceSpec => []SliceAsPromised
BY SliceInvariance, PTL DEF SliceInv

(* Nothing is refused for its size unless begin + units overflowed.        *)
THEOREM OnlyOverflowIsRefused == SliceSpec => []RefusedOnOverflow
BY SliceInvariance, PTL DEF SliceInv

-----------------------------------------------------------------------------
(* The pointer of PRINT USING into its format, and the text in front of a  *)
(* field.  Of the statements in execution it matters only that they are a  *)
(* sequence, and one is there.                                             *)

Context == [fmt : Seq(STRING), live : BOOLEAN, ptr : Nat, chars : Nat]

InFormat(c) ==
  /\ c \in Context
  /\ c.live => c.ptr + c.chars = Len(c.fmt) + 1 /\ c.ptr >= 1

Stacked(s) == \E S : s \in Seq(S)

Collected(b) == b \in Seq(STRING) /\ Len(b) <= Room

Places == {"idle", "argument", "text", "field", "finish", "end"}

UsingTypes ==
  /\ InFormat(ctx)
  /\ Stacked(stack) /\ (at # "idle" => stack # << >>)
  /\ at \in Places /\ (at = "text" => back \in {"field", "finish", "end"})
  /\ Collected(buf)
  /\ width \in Int /\ width >= -1

LEMMA UsingTypesImply == UsingTypes => TypeOK
BY DEF UsingTypes, InFormat, Context, Collected, Places, TypeOK

LEMMA Nothing1 == Collected(<< >>)
BY EmptySeq, UsingAssumption DEF Collected

LEMMA TopChanges ==
  ASSUME Stacked(stack), stack # << >>, NEW x
  PROVE  Stacked(WithTop(x)) /\ WithTop(x) # << >>
<1>1. PICK S : stack \in Seq(S)
  BY DEF Stacked
<1> DEFINE T == S \cup {x}
           n == Len(stack)
<1>2. stack \in Seq(T) /\ x \in T
  BY <1>1, SeqMonotonic
<1>3. n \in 1 .. Len(stack)
  BY <1>1, EmptySeq
<1> HIDE DEF T, n
<1>4. [stack EXCEPT ![n] = x] \in Seq(T) /\ Len([stack EXCEPT ![n] = x]) = Len(stack)
  BY <1>2, <1>3, ExceptSeq
<1>5. [stack EXCEPT ![n] = x] # << >>
  BY <1>3, <1>4, EmptySeq
<1> QED
  BY <1>4, <1>5 DEF WithTop, Stacked, n

LEMMA Speaks ==
  ASSUME Stacked(stack), stack # << >>, NEW t, Say(t)
  PROVE  Stacked(stack') /\ stack' # << >>
BY TopChanges DEF Say

(* Characters on, within the count. *)
LEMMA OnwardIn ==
  ASSUME InFormat(ctx), NEW k \in Nat, k <= ctx.chars, Forward(k)
  PROVE  InFormat(ctx')
<1> DEFINE F == Seq(STRING)
<1>1. ctx \in [fmt : F, live : BOOLEAN, ptr : Nat, chars : Nat]
  BY DEF InFormat, Context
<1>2. ctx.live => ctx.ptr + ctx.chars = Len(ctx.fmt) + 1 /\ ctx.ptr >= 1
  BY DEF InFormat
<1>3. ctx' = [ctx EXCEPT !.ptr = @ + k, !.chars = @ - k]
  BY DEF Forward
<1>4. ctx.ptr + k \in Nat /\ ctx.chars - k \in Nat
  BY <1>1
<1> HIDE DEF F
<1>5. /\ ctx' \in [fmt : F, live : BOOLEAN, ptr : Nat, chars : Nat]
      /\ ctx'.fmt = ctx.fmt /\ ctx'.live = ctx.live
      /\ ctx'.ptr = ctx.ptr + k /\ ctx'.chars = ctx.chars - k
  BY <1>1, <1>3, <1>4
<1>6. ctx'.live => ctx'.ptr + ctx'.chars = Len(ctx'.fmt) + 1 /\ ctx'.ptr >= 1
  BY <1>1, <1>2, <1>5
<1> QED
  BY <1>5, <1>6 DEF InFormat, Context, F

LEMMA SeenWithin ==
  ASSUME InFormat(ctx), NEW k \in Nat, NEW c \in Seen(k)
  PROVE  k < ctx.chars /\ c \in STRING
<1>1. k < ctx.chars
  BY DEF Seen, InFormat, Context
<1>2. CASE ctx.live
  <2>1. /\ ctx.ptr \in Nat /\ ctx.chars \in Nat /\ ctx.fmt \in Seq(STRING)
        /\ ctx.ptr + ctx.chars = Len(ctx.fmt) + 1 /\ ctx.ptr >= 1
    BY <1>2 DEF InFormat, Context
  <2>2. ctx.ptr + k \in 1 .. Len(ctx.fmt)
    BY <1>1, <2>1, LenProperties
  <2>3. c = ctx.fmt[ctx.ptr + k]
    BY <1>1, <1>2, <2>1 DEF Seen
  <2> QED
    BY <1>1, <2>1, <2>2, <2>3, ElementOfSeq
<1>3. CASE ~ ctx.live
  BY <1>1, <1>3, UsingAssumption DEF Seen, InFormat, Context
<1> QED
  BY <1>2, <1>3 DEF InFormat, Context

LEMMA FreedIn == InFormat(Freed)
<1> DEFINE F == Seq(STRING)
           B == << >>
<1>1. B \in F
  BY EmptySeq
<1> HIDE DEF F, B
<1>2. [fmt |-> B, live |-> FALSE, ptr |-> 0, chars |-> 0]
        \in [fmt : F, live : BOOLEAN, ptr : Nat, chars : Nat]
  BY <1>1
<1> QED
  BY <1>2, Zenon DEF InFormat, Context, Freed, F, B

LEMMA UsingStarts ==
  ASSUME UsingTypes, NEW s \in Statements \cup Inner, Start(s)
  PROVE  UsingTypes'
<1> DEFINE f == s.format
           F == Seq(STRING)
<1>1. f \in F /\ Len(f) \in Nat
  BY UsingAssumption, LenProperties
<1>2. ctx' = [fmt |-> f, live |-> TRUE, ptr |-> 1, chars |-> Len(f)]
  BY DEF Start
<1> HIDE DEF f, F
<1>3. /\ ctx' \in [fmt : F, live : BOOLEAN, ptr : Nat, chars : Nat]
      /\ ctx'.ptr + ctx'.chars = Len(ctx'.fmt) + 1 /\ ctx'.ptr >= 1
  BY <1>1, <1>2
<1>4. InFormat(ctx')
  BY <1>3 DEF InFormat, Context, F
<1>5. Stacked(stack') /\ stack' # << >>
  <2> DEFINE own(i) == [stack[i] EXCEPT !.own = FALSE, !.lost = stack[i].done]
             r == [format |-> s.format, values |-> s.values, newline |-> s.newline,
                   done |-> 0, said |-> << >>, own |-> TRUE, lost |-> 0]
             U == {own(i) : i \in DOMAIN stack} \cup {r}
             t == [i \in DOMAIN stack |-> own(i)]
  <2>1. PICK S : stack \in Seq(S)
    BY DEF UsingTypes, Stacked
  <2>2. Len(stack) \in Nat /\ DOMAIN stack = 1 .. Len(stack)
    BY <2>1, LenProperties
  <2>3. stack' = Append(t, r)
    BY DEF Start
  <2>4. \A i \in DOMAIN stack : own(i) \in U
    OBVIOUS
  <2>5. r \in U
    OBVIOUS
  <2> HIDE DEF own, r, U
  <2>6. t \in [1 .. Len(stack) -> U]
    BY <2>2, <2>4
  <2>7. t \in Seq(U)
    BY <2>2, <2>6, SeqDef
  <2> HIDE DEF t
  <2>8. Append(t, r) \in Seq(U) /\ Append(t, r) # << >>
    BY <2>5, <2>7, AppendProperties
  <2> QED
    BY <2>3, <2>8 DEF Stacked
<1>6. at' = "argument" /\ buf' = << >> /\ width' = -1
  BY DEF Start, Goto
<1> QED
  BY <1>4, <1>5, <1>6, Nothing1 DEF UsingTypes, Places

(* A field was filled or passed: one character on, then the text behind.   *)
LEMMA FieldPut ==
  ASSUME UsingTypes, at = "field", NEW c \in Seen(0), NEW t, Put(t)
  PROVE  UsingTypes'
<1>1. 1 <= ctx.chars
  BY SeenWithin DEF UsingTypes, InFormat, Context
<1>2. InFormat(ctx')
  BY <1>1, OnwardIn DEF UsingTypes, Put
<1>3. Stacked(stack') /\ stack' # << >>
  BY Speaks DEF UsingTypes, Put
<1> QED
  BY <1>2, <1>3, Nothing1 DEF UsingTypes, Places, Put, Text

(* One character of a field was counted. *)
LEMMA FieldGrows ==
  ASSUME UsingTypes, at = "field", NEW c \in Seen(0), Forward(1),
         width' \in Int, width' >= -1, UNCHANGED << stack, at, back, buf >>
  PROVE  UsingTypes'
<1>1. 1 <= ctx.chars
  BY SeenWithin DEF UsingTypes, InFormat, Context
<1>2. InFormat(ctx')
  BY <1>1, OnwardIn DEF UsingTypes
<1> QED
  BY <1>2 DEF UsingTypes, Places

LEMMA TextGrows ==
  ASSUME UsingTypes, TextChar
  PROVE  UsingTypes'
<1>1. at = "text" /\ Len(buf) < Room /\ UNCHANGED << stack, at, back, width >>
  BY DEF TextChar
<1>2. PICK k \in {1, 2} : /\ Forward(k)
                          /\ \E n \in Seen(k - 1) : buf' = Append(buf, n)
  <2>1. PICK c \in Seen(0) :
               IF c = Escape /\ ctx.chars > 1
               THEN \E n \in Seen(1) : buf' = Append(buf, n) /\ Forward(2)
               ELSE buf' = Append(buf, c) /\ Forward(1)
    BY DEF TextChar
  <2>2. 1 - 1 = 0 /\ 2 - 1 = 1
    OBVIOUS
  <2>3. CASE \E n \in Seen(1) : buf' = Append(buf, n) /\ Forward(2)
    BY <2>2, <2>3
  <2>4. CASE buf' = Append(buf, c) /\ Forward(1)
    BY <2>1, <2>2, <2>4
  <2> QED
    BY <2>1, <2>3, <2>4
<1>3. PICK n \in Seen(k - 1) : buf' = Append(buf, n)
  BY <1>2
<1>4. k - 1 \in Nat /\ k \in Nat
  OBVIOUS
<1>5. k - 1 < ctx.chars /\ n \in STRING
  BY <1>4, SeenWithin DEF UsingTypes
<1>6. k <= ctx.chars
  BY <1>4, <1>5 DEF UsingTypes, InFormat, Context
<1>7. InFormat(ctx')
  BY <1>2, <1>4, <1>6, OnwardIn DEF UsingTypes
<1>8. buf \in Seq(STRING) /\ Len(buf) \in Nat
  BY LenProperties DEF UsingTypes, Collected
<1>9. Append(buf, n) \in Seq(STRING) /\ Len(Append(buf, n)) = Len(buf) + 1
  BY <1>5, <1>8, AppendProperties
<1>10. Collected(buf')
  BY <1>1, <1>3, <1>8, <1>9, UsingAssumption DEF Collected
<1> QED
  BY <1>1, <1>7, <1>10 DEF UsingTypes

LEMMA CallTypes ==
  ASSUME UsingTypes, Call
  PROVE  UsingTypes'
<1> DEFINE F == Seq(STRING)
<1>1. ctx \in [fmt : F, live : BOOLEAN, ptr : Nat, chars : Nat]
  BY DEF UsingTypes, InFormat, Context
<1>2. Len(ctx.fmt) \in Nat
  BY <1>1, LenProperties
<1>3. /\ at = "argument" /\ width' = -1 /\ stack' = stack /\ at' = "text"
      /\ back' = "field" /\ buf' = << >>
  BY DEF Call, Text
<1>4. InFormat(ctx')
  <2>1. CASE ctx.chars = 0 /\ ctx.live
    <3>1. ctx' = [ctx EXCEPT !.ptr = 1, !.chars = Len(ctx.fmt)]
      BY <2>1 DEF Call
    <3> HIDE DEF F
    <3>2. /\ ctx' \in [fmt : F, live : BOOLEAN, ptr : Nat, chars : Nat]
          /\ ctx'.fmt = ctx.fmt /\ ctx'.ptr = 1 /\ ctx'.chars = Len(ctx.fmt)
      BY <1>1, <1>2, <3>1
    <3>3. ctx'.ptr + ctx'.chars = Len(ctx'.fmt) + 1 /\ ctx'.ptr >= 1
      BY <1>2, <3>2
    <3> QED
      BY <3>2, <3>3 DEF InFormat, Context, F
  <2>2. CASE ~ (ctx.chars = 0 /\ ctx.live)
    <3>1. ctx' = ctx
      BY <2>2 DEF Call
    <3> QED
      BY <3>1 DEF UsingTypes
  <2> QED
    BY <2>1, <2>2
<1> QED
  BY <1>3, <1>4, Nothing1 DEF UsingTypes, Places

LEMMA FinishTypes ==
  ASSUME UsingTypes, Finish
  PROVE  UsingTypes'
<1> DEFINE F == Seq(STRING)
<1>1. ctx \in [fmt : F, live : BOOLEAN, ptr : Nat, chars : Nat]
  BY DEF UsingTypes, InFormat, Context
<1>2. PICK last \in BOOLEAN : ctx' = [ctx EXCEPT !.live = @ /\ ~ last]
  <2>1. (Top.newline /\ Top.done + 1 = Len(Top.values)) \in BOOLEAN
    BY Zenon
  <2> QED
    BY <2>1, Zenon DEF Finish
<1>3. at = "finish" /\ Goto("argument") /\ \E x : stack' = WithTop(x)
  BY Zenon DEF Finish
<1>4. Stacked(stack') /\ stack' # << >>
  BY <1>3, TopChanges DEF UsingTypes
<1>5. InFormat(ctx')
  <2> HIDE DEF F
  <2>1. /\ ctx' \in [fmt : F, live : BOOLEAN, ptr : Nat, chars : Nat]
        /\ ctx'.fmt = ctx.fmt /\ ctx'.ptr = ctx.ptr /\ ctx'.chars = ctx.chars
        /\ ctx'.live => ctx.live
    BY <1>1, <1>2
  <2>2. ctx'.live => ctx'.ptr + ctx'.chars = Len(ctx'.fmt) + 1 /\ ctx'.ptr >= 1
    BY <2>1 DEF UsingTypes, InFormat
  <2> QED
    BY <2>1, <2>2 DEF InFormat, Context, F
<1> QED
  BY <1>3, <1>4, <1>5, Nothing1 DEF UsingTypes, Places, Goto

LEMMA LeaveTypes ==
  ASSUME UsingTypes, Leave
  PROVE  UsingTypes'
<1>1. /\ ctx' = Freed /\ stack' = Front(stack) /\ at = "end" /\ stack # << >>
      /\ Goto(IF Len(stack) = 1 THEN "idle" ELSE "argument")
  BY DEF Leave, UsingTypes
<1>2. PICK S : stack \in Seq(S)
  BY DEF UsingTypes, Stacked
<1> DEFINE n == Len(stack)
           t == SubSeq(stack, 1, n - 1)
<1>3. n \in Nat \ {0}
  BY <1>1, <1>2, EmptySeq
<1>4. t \in Seq(S) /\ Len(t) = n - 1
  <2>1. \A i \in 1 .. n - 1 : stack[i] \in S
    BY <1>2, <1>3, ElementOfSeq
  <2> HIDE DEF n
  <2>2. n - 1 \in Nat /\ 1 \in Int /\ n - 1 \in Int /\ ((n - 1) - 1) + 1 = n - 1
    BY <1>3
  <2>3. ~ (1 <= n - 1) => n - 1 = 0
    BY <1>3
  <2>4. t \in Seq(S) /\ Len(t) = IF 1 <= n - 1 THEN ((n - 1) - 1) + 1 ELSE 0
    BY <2>1, <2>2, SubSeqProperties
  <2> QED
    BY <2>2, <2>3, <2>4
<1>5. stack' = t
  BY <1>1 DEF Front
<1> HIDE DEF t
<1>6. n # 1 => t # << >>
  BY <1>3, <1>4, EmptySeq
<1> QED
  BY <1>1, <1>4, <1>5, <1>6, FreedIn, Nothing1 DEF UsingTypes, Places, Goto, Stacked

LEMMA StepTypes ==
  ASSUME UsingTypes, Step
  PROVE  UsingTypes'
<1>1. ASSUME TextEnd  PROVE UsingTypes'
  <2>1. at = "text" /\ Say(buf) /\ at' = back /\ buf' = << >> /\ UNCHANGED << ctx, width >>
    BY <1>1 DEF TextEnd
  <2>2. Stacked(stack') /\ stack' # << >>
    BY <2>1, Speaks DEF UsingTypes
  <2> QED
    BY <2>1, <2>2, Nothing1 DEF UsingTypes, Places
<1>2. ASSUME FirstUnit \/ Whole \/ Close  PROVE UsingTypes'
  <2>1. at = "field" /\ \E c \in Seen(0) : \E t : Put(t)
    BY <1>2, Zenon DEF FirstUnit, Whole, Close, At
  <2> QED
    BY <2>1, FieldPut
<1>3. ASSUME Open  PROVE UsingTypes'
  <2>1. at = "field" /\ width' = 1 /\ Forward(1) /\ UNCHANGED << stack, at, back, buf >>
        /\ Seen(0) # {}
    BY <1>3 DEF Open, At
  <2> QED
    BY <2>1, FieldGrows
<1>4. ASSUME Blank  PROVE UsingTypes'
  <2>1. at = "field" /\ width' = width + 1 /\ Forward(1)
        /\ UNCHANGED << stack, at, back, buf >> /\ Seen(0) # {}
    BY <1>4 DEF Blank, At
  <2>2. width' \in Int /\ width' >= -1
    BY <2>1 DEF UsingTypes
  <2> QED
    BY <2>1, <2>2, FieldGrows
<1>5. ASSUME NoField \/ End  PROVE UsingTypes'
  <2>1. /\ at \in {"field", "argument"} /\ UNCHANGED << ctx, stack, width >>
        /\ at' = "text" /\ back' \in {"finish", "end"} /\ buf' = << >>
    BY <1>5 DEF NoField, End, Text
  <2> QED
    BY <2>1, Nothing1 DEF UsingTypes, Places
<1> QED
  BY <1>1, <1>2, <1>3, <1>4, <1>5, CallTypes, TextGrows, FinishTypes, LeaveTypes
  DEF Step

(* The pointer and the count of PRINT USING stay within the format as long *)
(* as it is allocated, and the text in front of a field within its buffer  *)
(* (io_printusg.c:579, io_printusg.c:235): for every format, malformed     *)
(* ones included, any values, and whatever is found where a format was     *)
(* freed.                                                                  *)
THEOREM UsingStaysInside == Spec => []TypeOK
<1>1. Init => UsingTypes
  BY FreedIn, Nothing1, EmptySeq DEF Init, UsingTypes, Places, Stacked
<1>2. UsingTypes /\ [Next]_vars => UsingTypes'
  <2> SUFFICES ASSUME UsingTypes, [Next]_vars  PROVE UsingTypes'
    OBVIOUS
  <2>1. CASE Begin \/ Nest
    BY <2>1, UsingStarts DEF Begin, Nest
  <2>2. CASE Step
    BY <2>2, StepTypes
  <2>3. CASE UNCHANGED vars
    BY <2>3 DEF vars, UsingTypes, InFormat
  <2> QED
    BY <2>1, <2>2, <2>3 DEF Next
<1> QED
  BY <1>1, <1>2, UsingTypesImply, PTL DEF Spec

-----------------------------------------------------------------------------
(* What PRINT USING prints.  First recursion along a sequence, as in       *)
(* UStrInputProofs, with something behind the last piece.                  *)

(* Induction down from n + 1 to 1: a set that holds k whenever it holds    *)
(* all that is above k holds every number.  The intervals 0 .. n + 1 - k   *)
(* of the numbers it misses would have a least one under inclusion.        *)
LEMMA DownTo ==
  ASSUME NEW n \in Nat, NEW G,
         \A k \in 1 .. n + 1 : (\A j \in k + 1 .. n + 1 : j \in G) => k \in G
  PROVE  \A k \in 1 .. n + 1 : k \in G
<1> SUFFICES ASSUME NEW l \in 1 .. n + 1, l \notin G  PROVE FALSE
  OBVIOUS
<1> DEFINE M  == {k \in 1 .. n + 1 : k \notin G}
           Up == {0 .. n + 1 - k : k \in M}
<1>1. Up \subseteq FiniteSubsetsOf(Nat)
  <2> SUFFICES ASSUME NEW k \in M
               PROVE  0 .. n + 1 - k \in SUBSET Nat /\ IsFiniteSet(0 .. n + 1 - k)
    BY DEF FiniteSubsetsOf
  <2>1. n + 1 - k \in Int /\ 0 \in Int
    OBVIOUS
  <2>2. IsFiniteSet(0 .. n + 1 - k)
    BY <2>1, FS_Interval
  <2> QED
    BY <2>2
<1>2. Up # {}
  OBVIOUS
<1>3. PICK X \in Up : \A Y \in Up : ~ (<< Y, X >> \in StrictSubsetOrdering(Nat))
  BY <1>1, <1>2, WFMin, FS_StrictSubsetOrderingWellFounded
<1>4. PICK k \in M : X = 0 .. n + 1 - k
  OBVIOUS
<1>5. PICK j \in k + 1 .. n + 1 : j \notin G
  OBVIOUS
<1>6. j \in M /\ j > k
  BY <1>5
<1>7. /\ 0 .. n + 1 - j \subseteq 0 .. n + 1 - k
      /\ n + 1 - k \notin 0 .. n + 1 - j /\ n + 1 - k \in 0 .. n + 1 - k
  BY <1>6
<1>8. 0 .. n + 1 - j # 0 .. n + 1 - k
  BY <1>7
<1>9. 0 .. n + 1 - j \in SUBSET Nat /\ 0 .. n + 1 - k \in SUBSET Nat
  OBVIOUS
<1>10. << 0 .. n + 1 - j, 0 .. n + 1 - k >> \in StrictSubsetOrdering(Nat)
  BY <1>7, <1>8, <1>9 DEF StrictSubsetOrdering
<1> QED
  BY <1>3, <1>4, <1>6, <1>10

(* What Joined makes of the pieces from each place on. *)
IsTails(g, P, K, E) ==
  g = [i \in Nat |-> IF i \in DOMAIN P THEN P[i] \o g[i + K[i]] ELSE E]

Tails(P, K, E) == CHOOSE g : IsTails(g, P, K, E)

PiecesOf(S, P, K, E) ==
  P \in Seq(Seq(S)) /\ K \in [1 .. Len(P) -> Nat \ {0}] /\ E \in Seq(S)

LEMMA JoinedIsTails ==
  ASSUME NEW P, NEW K, NEW E
  PROVE  Joined(P, K, E) = Tails(P, K, E)[1]
BY DEF Joined, Tails, IsTails

LEMMA TailsExist ==
  ASSUME NEW S, NEW P, NEW K, NEW E, PiecesOf(S, P, K, E)
  PROVE  IsTails(Tails(P, K, E), P, K, E)
<1> DEFINE n == Len(P)
           Solves(k, g) ==
             /\ g = [i \in Nat |-> g[i]]
             /\ \A i \in Nat :
                  i \notin 1 .. k - 1 =>
                    g[i] = IF i \in 1 .. n THEN P[i] \o g[i + K[i]] ELSE E
           G == {k \in 1 .. n + 1 : \E g : Solves(k, g)}
<1>1. n \in Nat /\ DOMAIN P = 1 .. n /\ K \in [1 .. n -> Nat \ {0}]
  BY DEF PiecesOf
<1>2. ASSUME NEW k \in 1 .. n + 1, \A j \in k + 1 .. n + 1 : j \in G
      PROVE  k \in G
  <2>1. CASE k = n + 1
    <3> DEFINE g == [i \in Nat |-> E]
    <3>1. \A i \in Nat : g[i] = E
      OBVIOUS
    <3>2. g = [i \in Nat |-> g[i]]
      OBVIOUS
    <3> HIDE DEF g, n
    <3>3. \A i \in Nat : i \notin 1 .. (n + 1) - 1 => i \notin 1 .. n
      BY <1>1
    <3>4. Solves(n + 1, g)
      BY <3>1, <3>2, <3>3
    <3> HIDE DEF Solves
    <3> QED
      BY <2>1, <3>4
  <2>2. CASE k # n + 1
    <3> HIDE DEF n
    <3>1. k \in 1 .. n /\ k + 1 \in k + 1 .. n + 1 /\ k \in Nat
      BY <1>1, <2>2
    <3>2. PICK g : Solves(k + 1, g)
      BY <1>2, <3>1
    <3> DEFINE h == [i \in Nat |-> IF i = k THEN P[k] \o g[k + K[k]] ELSE g[i]]
    <3>3. K[k] \in Nat \ {0} /\ k + K[k] \in Nat /\ k + K[k] # k
      BY <1>1, <3>1
    <3>4. ASSUME NEW i \in Nat, i \notin 1 .. k - 1
          PROVE  h[i] = IF i \in 1 .. n THEN P[i] \o h[i + K[i]] ELSE E
      <4>1. CASE i = k
        <5>1. h[k] = P[k] \o g[k + K[k]] /\ h[k + K[k]] = g[k + K[k]]
          BY <3>1, <3>3
        <5> HIDE DEF h
        <5> QED
          BY <3>1, <4>1, <5>1
      <4>2. CASE i # k
        <5>1. i \notin 1 .. (k + 1) - 1
          BY <3>1, <3>4, <4>2
        <5>2. g[i] = IF i \in 1 .. n THEN P[i] \o g[i + K[i]] ELSE E
          BY <3>2, <5>1
        <5>3. h[i] = g[i]
          BY <4>2
        <5>4. CASE i \in 1 .. n
          <6>1. K[i] \in Nat \ {0}
            BY <1>1, <5>4
          <6>2. i + K[i] \in Nat /\ i + K[i] # k
            BY <3>1, <5>1, <5>4, <6>1
          <6>3. h[i + K[i]] = g[i + K[i]]
            BY <6>2
          <6> HIDE DEF h
          <6> QED
            BY <5>2, <5>3, <5>4, <6>3
        <5>5. CASE i \notin 1 .. n
          BY <5>2, <5>3, <5>5
        <5> QED
          BY <5>4, <5>5
      <4> QED
        BY <4>1, <4>2
    <3>5. h = [i \in Nat |-> h[i]]
      OBVIOUS
    <3> HIDE DEF h
    <3>6. Solves(k, h)
      BY <3>4, <3>5
    <3> HIDE DEF Solves
    <3> QED
      BY <3>6
  <2> QED
    BY <2>1, <2>2
<1> HIDE DEF G
<1>3. 1 \in G
  <2> HIDE DEF n
  <2>1. \A k \in 1 .. n + 1 : k \in G
    BY <1>1, <1>2, DownTo
  <2> QED
    BY <1>1, <2>1
<1>4. PICK g : Solves(1, g)
  BY <1>3 DEF G
<1>5. IsTails(g, P, K, E)
  <2> DEFINE X(i) == IF i \in DOMAIN P THEN P[i] \o g[i + K[i]] ELSE E
  <2>1. \A i \in Nat : i \notin 1 .. 1 - 1
    OBVIOUS
  <2>2. g = [i \in Nat |-> g[i]] /\ \A i \in Nat : g[i] = X(i)
    BY <1>1, <1>4, <2>1
  <2> HIDE DEF X
  <2>3. g = [i \in Nat |-> X(i)]
    BY <2>2
  <2> QED
    BY <2>3 DEF X, IsTails
<1> QED
  BY <1>5 DEF Tails

(* From each place on there is a text: piece by piece, then E. *)
PieceByPiece(S, P, K, E, i) ==
  /\ Tails(P, K, E)[i] \in Seq(S)
  /\ i \in 1 .. Len(P) => Tails(P, K, E)[i] = P[i] \o Tails(P, K, E)[i + K[i]]
  /\ i > Len(P) => Tails(P, K, E)[i] = E

LEMMA TailsFacts ==
  ASSUME NEW S, NEW P, NEW K, NEW E, PiecesOf(S, P, K, E), NEW i \in Nat \ {0}
  PROVE  PieceByPiece(S, P, K, E, i)
<1> DEFINE g == Tails(P, K, E)
           n == Len(P)
           G == {k \in 1 .. n + 1 : g[k] \in Seq(S)}
<1>1. n \in Nat /\ DOMAIN P = 1 .. n /\ K \in [1 .. n -> Nat \ {0}] /\ E \in Seq(S)
      /\ \A k \in 1 .. n : P[k] \in Seq(S)
  BY DEF PiecesOf
<1>2. IsTails(g, P, K, E)
  BY TailsExist
<1> HIDE DEF g, n
<1>3. \A k \in Nat : g[k] = IF k \in 1 .. n THEN P[k] \o g[k + K[k]] ELSE E
  BY <1>1, <1>2 DEF IsTails
<1>4. \A k \in Nat : k > n => g[k] = E
  BY <1>1, <1>3
<1>5. ASSUME NEW k \in 1 .. n + 1, \A j \in k + 1 .. n + 1 : j \in G
      PROVE  k \in G
  <2>1. CASE k = n + 1
    BY <1>1, <1>4, <2>1
  <2>2. CASE k # n + 1
    <3>1. k \in 1 .. n /\ K[k] \in Nat \ {0} /\ P[k] \in Seq(S) /\ k \in Nat
      BY <1>1, <2>2
    <3> DEFINE j == k + K[k]
    <3>2. j \in Nat /\ j > k
      BY <3>1
    <3>3. g[k] = P[k] \o g[j]
      BY <1>3, <3>1
    <3> HIDE DEF j
    <3>4. g[j] \in Seq(S)
      <4>1. CASE j > n
        BY <1>1, <1>4, <3>2, <4>1
      <4>2. CASE ~ (j > n)
        <5>1. j \in k + 1 .. n + 1
          BY <1>1, <3>1, <3>2, <4>2
        <5> QED
          BY <1>5, <5>1
      <4> QED
        BY <4>1, <4>2
    <3>5. P[k] \o g[j] \in Seq(S)
      BY <3>1, <3>4, ConcatProperties
    <3> QED
      BY <3>3, <3>5
  <2> QED
    BY <2>1, <2>2
<1> HIDE DEF G
<1>6. \A k \in 1 .. n + 1 : k \in G
  BY <1>1, <1>5, DownTo
<1>7. i \in 1 .. n + 1 \/ i > n
  BY <1>1
<1>8. g[i] \in Seq(S)
  BY <1>1, <1>4, <1>6, <1>7 DEF G
<1> QED
  BY <1>3, <1>4, <1>8 DEF PieceByPiece, g, n

-----------------------------------------------------------------------------
(* The items of a format *)

Unit == STRING \cup {Space, Newline}
Item == [field : BOOLEAN, ch : Unit, width : Int]

LEMMA Distinct ==
  /\ Backslash # "!" /\ Backslash # "&" /\ Backslash # "#"
  /\ Space # "!" /\ Space # "&" /\ Space # "#" /\ Space # Backslash
  /\ Escape # "!" /\ Escape # "&" /\ Escape # "#" /\ Escape # Backslash
BY Zenon DEF Space, Backslash, Escape

LEMMA LiteralMade ==
  ASSUME NEW c \in STRING
  PROVE  /\ Literal(c) \in Item /\ ~ Literal(c).field /\ Literal(c).ch = c
         /\ Literal(c).width = 0
<1>1. c \in Unit
  BY DEF Unit
<1> HIDE DEF Unit
<1> QED
  BY <1>1 DEF Item, Literal

LEMMA FieldMade ==
  ASSUME NEW w \in Int
  PROVE  Field(w) \in Item /\ Field(w).field /\ Field(w).width = w
<1>1. Space \in Unit
  BY DEF Unit
<1> HIDE DEF Unit
<1> QED
  BY <1>1 DEF Item, Field

(* A format and a place in it. *)
InPlace(f, p) == f \in Seq(STRING) /\ p \in 1 .. Len(f)

LEMMA LiteralHere ==
  ASSUME NEW f, NEW p, InPlace(f, p), f[p] \notin Stops
  PROVE  /\ ItemAt(f, p) = Literal(f[IF Escaped(f, p) THEN p + 1 ELSE p])
         /\ TakenBy(f, p) = IF Escaped(f, p) THEN 2 ELSE 1
         /\ p + TakenBy(f, p) <= Len(f) + 1
         /\ f[IF Escaped(f, p) THEN p + 1 ELSE p] \in STRING
<1>1. f[p] # "!" /\ f[p] # "&" /\ f[p] # "#" /\ f[p] # Backslash
  BY DEF Stops
<1> DEFINE q == IF Escaped(f, p) THEN p + 1 ELSE p
<1>2. ItemAt(f, p) = Literal(f[q])
  BY <1>1 DEF ItemAt
<1>3. f \in Seq(STRING) /\ p \in 1 .. Len(f) /\ Len(f) \in Nat
  BY LenProperties DEF InPlace
<1>4. q \in 1 .. Len(f)
  BY <1>3 DEF Escaped
<1> HIDE DEF q
<1>5. f[q] \in STRING
  BY <1>3, <1>4, ElementOfSeq
<1>6. Literal(f[q]).width = 0
  BY <1>5, LiteralMade
<1>7. TakenBy(f, p) = IF Escaped(f, p) THEN 2 ELSE 1
  BY <1>2, <1>6 DEF TakenBy
<1>8. p + TakenBy(f, p) <= Len(f) + 1
  BY <1>3, <1>7 DEF Escaped
<1> QED
  BY <1>2, <1>5, <1>7, <1>8 DEF q

LEMMA FirstHere ==
  ASSUME NEW f, NEW p, InPlace(f, p), f[p] = "!"
  PROVE  ItemAt(f, p) = Field(1) /\ TakenBy(f, p) = 1
<1>1. ItemAt(f, p) = Field(1)
  BY Distinct DEF ItemAt
<1> QED
  BY <1>1, FieldMade, Distinct DEF TakenBy, Escaped

LEMMA WholeHere ==
  ASSUME NEW f, NEW p, InPlace(f, p), f[p] = "&"
  PROVE  ItemAt(f, p) = Field(0) /\ TakenBy(f, p) = 1
<1>1. ItemAt(f, p) = Field(0)
  BY Distinct DEF ItemAt
<1> QED
  BY <1>1, FieldMade, Distinct DEF TakenBy, Escaped

LEMMA NumberHere ==
  ASSUME NEW f, NEW p, InPlace(f, p), f[p] = "#"
  PROVE  ItemAt(f, p) = Field(-1) /\ TakenBy(f, p) = 1
<1>1. ItemAt(f, p) = Field(-1)
  BY Distinct DEF ItemAt
<1> QED
  BY <1>1, FieldMade, Distinct DEF TakenBy, Escaped

(* The backslash at p is closed by that at q. *)
ClosedAt(f, p, q) ==
  /\ q \in p + 1 .. Len(f) /\ f[q] = Backslash
  /\ \A k \in p + 1 .. q - 1 : f[k] = Space

LEMMA ClosedHere ==
  ASSUME NEW f, NEW p, InPlace(f, p), f[p] = Backslash, NEW q, ClosedAt(f, p, q)
  PROVE  ItemAt(f, p) = Field(q - p + 1) /\ TakenBy(f, p) = q - p + 1
<1>1. p \in Nat /\ Len(f) \in Nat /\ q \in Nat /\ q > p
  BY LenProperties DEF InPlace, ClosedAt
<1>2. q \in Closing(f, p)
  BY DEF Closing, ClosedAt
<1>3. ASSUME NEW j \in Closing(f, p)  PROVE j = q
  <2>1. /\ j \in p + 1 .. Len(f) /\ f[j] = Backslash
        /\ \A k \in p + 1 .. j - 1 : f[k] = Space
    BY DEF Closing
  <2>2. CASE j < q
    BY <1>1, <2>1, <2>2, Distinct DEF ClosedAt
  <2>3. CASE q < j
    BY <1>1, <2>1, <2>3, Distinct DEF ClosedAt
  <2> QED
    BY <1>1, <2>1, <2>2, <2>3
<1>4. (CHOOSE j \in Closing(f, p) : TRUE) = q
  BY <1>2, <1>3
<1>5. ItemAt(f, p) = Field(q - p + 1)
  BY <1>2, <1>4, Distinct DEF ItemAt
<1>6. q - p + 1 \in Int /\ q - p + 1 > 1
  BY <1>1
<1>7. Field(q - p + 1).width = q - p + 1
  BY <1>6, FieldMade
<1> QED
  BY <1>5, <1>6, <1>7, Distinct DEF TakenBy, Escaped

LEMMA OpenHere ==
  ASSUME NEW f, NEW p, InPlace(f, p), f[p] = Backslash,
         ~ \E q : ClosedAt(f, p, q)
  PROVE  ItemAt(f, p) = Field(-1) /\ TakenBy(f, p) = 1
<1>1. Closing(f, p) = {}
  BY DEF Closing, ClosedAt
<1>2. ItemAt(f, p) = Field(-1)
  BY <1>1, Distinct DEF ItemAt
<1> QED
  BY <1>2, FieldMade, Distinct DEF TakenBy, Escaped

LEMMA ItemTypes ==
  ASSUME NEW f, NEW p, InPlace(f, p)
  PROVE  /\ ItemAt(f, p) \in Item /\ (f[p] \in Stops <=> ItemAt(f, p).field)
         /\ TakenBy(f, p) \in Nat \ {0} /\ p + TakenBy(f, p) <= Len(f) + 1
<1>1. p \in Nat /\ Len(f) \in Nat /\ p <= Len(f)
  BY LenProperties DEF InPlace
<1>2. CASE f[p] \notin Stops
  <2> DEFINE c == f[IF Escaped(f, p) THEN p + 1 ELSE p]
  <2>1. /\ ItemAt(f, p) = Literal(c) /\ c \in STRING
        /\ TakenBy(f, p) = IF Escaped(f, p) THEN 2 ELSE 1
        /\ p + TakenBy(f, p) <= Len(f) + 1
    BY <1>2, LiteralHere
  <2> HIDE DEF c
  <2>2. Literal(c) \in Item /\ ~ Literal(c).field
    BY <2>1, LiteralMade
  <2> QED
    BY <1>2, <2>1, <2>2
<1>3. CASE f[p] \in Stops
  <2> DEFINE Fits(w) == /\ ItemAt(f, p) = Field(w) /\ TakenBy(f, p) \in Nat \ {0}
                        /\ p + TakenBy(f, p) <= Len(f) + 1
  <2>1. \E w \in Int : Fits(w)
    <3>1. CASE f[p] = "!"
      BY <1>1, <3>1, FirstHere
    <3>2. CASE f[p] = "&"
      BY <1>1, <3>2, WholeHere
    <3>3. CASE f[p] = "#"
      BY <1>1, <3>3, NumberHere
    <3>4. ASSUME NEW q, f[p] = Backslash, ClosedAt(f, p, q)
          PROVE  \E w \in Int : Fits(w)
      <4>1. q \in p + 1 .. Len(f)
        BY <3>4 DEF ClosedAt
      <4>2. q - p + 1 \in Nat \ {0} /\ p + (q - p + 1) <= Len(f) + 1
        BY <1>1, <4>1
      <4>3. q - p + 1 \in Int
        BY <4>2
      <4>4. Fits(q - p + 1)
        BY <3>4, <4>2, ClosedHere
      <4> QED
        BY <4>3, <4>4
    <3>5. CASE f[p] = Backslash /\ ~ \E q : ClosedAt(f, p, q)
      BY <1>1, <3>5, OpenHere
    <3> HIDE DEF Fits
    <3> QED
      BY <1>3, <3>1, <3>2, <3>3, <3>4, <3>5 DEF Stops
  <2>2. PICK w \in Int : Fits(w)
    BY <2>1
  <2>3. Field(w) \in Item /\ Field(w).field
    BY FieldMade
  <2> QED
    BY <1>3, <2>2, <2>3
<1> QED
  BY <1>2, <1>3

ItemPieces(f) == [i \in DOMAIN f |-> << ItemAt(f, i) >>]
Strides(f)    == [i \in DOMAIN f |-> TakenBy(f, i)]

(* The items from place p on. *)
From(f, p) == Tails(ItemPieces(f), Strides(f), << >>)[p]

LEMMA ItemsAreFrom ==
  ASSUME NEW f
  PROVE  Items(f) = From(f, 1)
BY JoinedIsTails DEF Items, From, ItemPieces, Strides

LEMMA ItemsBySteps ==
  ASSUME NEW f \in Seq(STRING)
  PROVE  /\ PiecesOf(Item, ItemPieces(f), Strides(f), << >>)
         /\ Len(ItemPieces(f)) = Len(f)
<1> DEFINE n == Len(f)
           T == Seq(Item)
           P == ItemPieces(f)
<1>1. n \in Nat /\ DOMAIN f = 1 .. n
  BY LenProperties
<1>2. \A p \in 1 .. n : /\ << ItemAt(f, p) >> \in T /\ TakenBy(f, p) \in Nat \ {0}
  <2> SUFFICES ASSUME NEW p \in 1 .. n
               PROVE  << ItemAt(f, p) >> \in T /\ TakenBy(f, p) \in Nat \ {0}
    OBVIOUS
  <2>1. InPlace(f, p)
    BY DEF InPlace
  <2>2. ItemAt(f, p) \in Item /\ TakenBy(f, p) \in Nat \ {0}
    BY <2>1, ItemTypes
  <2> HIDE DEF n
  <2> QED
    BY <2>2
<1> HIDE DEF T, n
<1>3. P \in [1 .. n -> T] /\ Strides(f) \in [1 .. n -> Nat \ {0}]
  BY <1>1, <1>2 DEF ItemPieces, Strides
<1> HIDE DEF P
<1>4. P \in Seq(T) /\ Len(P) = n
  BY <1>1, <1>3, SeqDef
<1>5. << >> \in Seq(Item)
  BY EmptySeq
<1> QED
  BY <1>3, <1>4, <1>5 DEF PiecesOf, T, P, n

LEMMA FromFacts ==
  ASSUME NEW f \in Seq(STRING), NEW p \in Nat \ {0}
  PROVE  /\ From(f, p) \in Seq(Item)
         /\ p \in 1 .. Len(f) =>
              From(f, p) = << ItemAt(f, p) >> \o From(f, p + TakenBy(f, p))
         /\ p > Len(f) => From(f, p) = << >>
<1> DEFINE P == ItemPieces(f)
           K == Strides(f)
<1>1. PiecesOf(Item, P, K, << >>) /\ Len(P) = Len(f) /\ DOMAIN f = 1 .. Len(f)
  BY ItemsBySteps, LenProperties
<1>2. p \in 1 .. Len(f) => P[p] = << ItemAt(f, p) >> /\ K[p] = TakenBy(f, p)
  BY <1>1 DEF ItemPieces, Strides
<1> HIDE DEF P, K
<1>3. /\ Tails(P, K, << >>)[p] \in Seq(Item)
      /\ p \in 1 .. Len(P) => Tails(P, K, << >>)[p] = P[p] \o Tails(P, K, << >>)[p + K[p]]
      /\ p > Len(P) => Tails(P, K, << >>)[p] = << >>
  <2>1. PieceByPiece(Item, P, K, << >>, p)
    BY <1>1, TailsFacts
  <2> QED
    BY <2>1, Zenon DEF PieceByPiece
<1>4. \A q : From(f, q) = Tails(P, K, << >>)[q]
  BY DEF From, P, K
<1> QED
  BY <1>1, <1>2, <1>3, <1>4

(* In front of place p are the first i items. *)
Parsed(f, p, i) ==
  /\ p \in 1 .. Len(f) + 1 /\ i \in 0 .. Len(Items(f))
  /\ Len(From(f, p)) = Len(Items(f)) - i
  /\ \A k \in 1 .. Len(Items(f)) - i : From(f, p)[k] = Items(f)[i + k]

LEMMA ItemsTyped ==
  ASSUME NEW f \in Seq(STRING)
  PROVE  /\ Items(f) \in Seq(Item) /\ Len(Items(f)) \in Nat
         /\ DOMAIN Items(f) = 1 .. Len(Items(f))
         /\ \A i \in 1 .. Len(Items(f)) : Items(f)[i] \in Item
<1>1. Items(f) \in Seq(Item)
  <2>1. 1 \in Nat \ {0}
    OBVIOUS
  <2>2. From(f, 1) \in Seq(Item)
    BY <2>1, FromFacts, Zenon
  <2> QED
    BY <2>2, ItemsAreFrom, Zenon
<1> QED
  BY <1>1, LenProperties, ElementOfSeq

LEMMA ParsedFirst ==
  ASSUME NEW f \in Seq(STRING)
  PROVE  Parsed(f, 1, 0)
<1>1. Len(f) \in Nat /\ Len(Items(f)) \in Nat
  BY ItemsTyped, LenProperties
<1>2. \A k \in 1 .. Len(Items(f)) : 0 + k = k
  BY <1>1
<1> QED
  BY <1>1, <1>2, ItemsAreFrom DEF Parsed

LEMMA ParsedOn ==
  ASSUME NEW f \in Seq(STRING), NEW p \in 1 .. Len(f), NEW i, Parsed(f, p, i)
  PROVE  /\ i + 1 \in 1 .. Len(Items(f)) /\ i \in Nat
         /\ Items(f)[i + 1] = ItemAt(f, p)
         /\ Parsed(f, p + TakenBy(f, p), i + 1)
<1> DEFINE q == p + TakenBy(f, p)
           L == Len(Items(f))
           s == From(f, q)
           h == << ItemAt(f, p) >>
<1>1. InPlace(f, p)
  BY DEF InPlace
<1>2. ItemAt(f, p) \in Item /\ TakenBy(f, p) \in Nat \ {0} /\ q <= Len(f) + 1
  BY <1>1, ItemTypes
<1>3. p \in Nat \ {0} /\ Len(f) \in Nat /\ L \in Nat
  BY LenProperties, ItemsTyped
<1>4. q \in 1 .. Len(f) + 1 /\ q \in Nat \ {0}
  BY <1>2, <1>3
<1>5. From(f, p) = h \o s
  BY <1>3, FromFacts
<1>6. s \in Seq(Item)
  BY <1>4, FromFacts
<1>7. h \in Seq(Item) /\ Len(h) = 1 /\ h[1] = ItemAt(f, p)
  BY <1>2
<1> HIDE DEF s, h, q
<1>8. /\ Len(h \o s) = 1 + Len(s) /\ Len(s) \in Nat
      /\ \A k \in 1 .. 1 + Len(s) : (h \o s)[k] = IF k <= 1 THEN h[k] ELSE s[k - 1]
  <2>1. /\ Len(h \o s) = Len(h) + Len(s)
        /\ \A k \in 1 .. Len(h) + Len(s) :
             (h \o s)[k] = IF k <= Len(h) THEN h[k] ELSE s[k - Len(h)]
    BY <1>6, <1>7, ConcatProperties, Zenon
  <2>2. Len(s) \in Nat
    BY <1>6, LenProperties
  <2> QED
    BY <1>7, <2>1, <2>2
<1> HIDE DEF L
<1>9. /\ i \in 0 .. L /\ 1 + Len(s) = L - i
      /\ \A k \in 1 .. L - i : (h \o s)[k] = Items(f)[i + k]
  BY <1>5, <1>8 DEF Parsed, L
<1>10. i + 1 \in 1 .. L /\ i + 1 \in 0 .. L /\ Len(s) = L - (i + 1) /\ 1 \in 1 .. L - i /\ i \in Nat
  BY <1>3, <1>8, <1>9
<1>11. Items(f)[i + 1] = ItemAt(f, p)
  BY <1>7, <1>8, <1>9, <1>10
<1>12. ASSUME NEW k \in 1 .. L - (i + 1)  PROVE s[k] = Items(f)[(i + 1) + k]
  <2>1. k + 1 \in 1 .. L - i /\ k + 1 \in 1 .. 1 + Len(s) /\ ~ (k + 1 <= 1)
        /\ (k + 1) - 1 = k /\ i + (k + 1) = (i + 1) + k
    BY <1>3, <1>10, <1>12
  <2> QED
    BY <1>8, <1>9, <2>1
<1> QED
  BY <1>4, <1>10, <1>11, <1>12 DEF Parsed, L, s, q

LEMMA ParsedLast ==
  ASSUME NEW f \in Seq(STRING), NEW p, NEW i, Parsed(f, p, i)
  PROVE  p = Len(f) + 1 <=> i = Len(Items(f))
<1>1. Len(f) \in Nat /\ Len(Items(f)) \in Nat /\ p \in 1 .. Len(f) + 1
      /\ i \in 0 .. Len(Items(f)) /\ Len(From(f, p)) = Len(Items(f)) - i
  BY LenProperties, ItemsTyped DEF Parsed
<1>2. CASE p = Len(f) + 1
  <2>1. p \in Nat \ {0} /\ p > Len(f)
    BY <1>1, <1>2
  <2>2. Len(From(f, p)) = 0
    BY <2>1, FromFacts, EmptySeq
  <2> QED
    BY <1>1, <1>2, <2>2
<1>3. CASE p # Len(f) + 1
  <2>1. p \in 1 .. Len(f)
    BY <1>1, <1>3
  <2>2. i + 1 \in 1 .. Len(Items(f))
    BY <2>1, ParsedOn
  <2> QED
    BY <1>1, <1>3, <2>2
<1> QED
  BY <1>2, <1>3

-----------------------------------------------------------------------------
(* The fields of the items *)

NextAt(items, i, j) ==
  /\ j \in i .. Len(items) + 1
  /\ j <= Len(items) => items[j].field
  /\ \A k \in i .. j - 1 : ~ items[k].field

LEMMA NextFacts ==
  ASSUME NEW items, Len(items) \in Nat, NEW i \in 1 .. Len(items) + 1
  PROVE  /\ NextAt(items, i, NextField(items, i))
         /\ \A j : NextAt(items, i, j) => j = NextField(items, i)
<1> DEFINE n == Len(items)
           G == {k \in 1 .. n + 1 : \E j : NextAt(items, k, j)}
<1>1. n \in Nat
  OBVIOUS
<1>2. ASSUME NEW k \in 1 .. n + 1, \A j \in k + 1 .. n + 1 : j \in G
      PROVE  k \in G
  <2>1. CASE k = n + 1
    <3>1. NextAt(items, k, k)
      BY <1>1, <2>1 DEF NextAt
    <3> QED
      BY <3>1
  <2>2. CASE k # n + 1 /\ items[k].field
    <3>1. NextAt(items, k, k)
      BY <1>1, <2>2 DEF NextAt
    <3> QED
      BY <3>1
  <2>3. CASE k # n + 1 /\ ~ items[k].field
    <3>1. k + 1 \in k + 1 .. n + 1
      BY <1>1, <2>3
    <3>2. PICK j : NextAt(items, k + 1, j)
      BY <1>2, <3>1
    <3>3. NextAt(items, k, j)
      BY <1>1, <2>3, <3>2 DEF NextAt
    <3> QED
      BY <3>3
  <2> QED
    BY <2>1, <2>2, <2>3
<1>3. \E j : NextAt(items, i, j)
  <2> HIDE DEF G
  <2>1. \A k \in 1 .. n + 1 : k \in G
    BY <1>1, <1>2, DownTo
  <2> QED
    BY <2>1 DEF G
<1>4. ASSUME NEW j, NEW k, NextAt(items, i, j), NextAt(items, i, k)
      PROVE  j = k
  <2>1. j \in Int /\ k \in Int /\ j >= i /\ k >= i /\ j <= n + 1 /\ k <= n + 1
    BY <1>4 DEF NextAt
  <2>2. ~ (j < k) /\ ~ (k < j)
    BY <1>1, <1>4, <2>1 DEF NextAt
  <2> QED
    BY <2>1, <2>2
<1>5. NextField(items, i) = CHOOSE j \in i .. n + 1 : NextAt(items, i, j)
  BY DEF NextField, NextAt
<1>6. \E j \in i .. n + 1 : NextAt(items, i, j)
  BY <1>3 DEF NextAt
<1>7. NextAt(items, i, NextField(items, i))
  BY <1>5, <1>6
<1> QED
  BY <1>4, <1>7

(* The character c in front of t, and pieces put together. *)
Pre(c, t)      == << c >> \o t
Left3(a, b, c)  == (a \o b) \o c
Right3(a, b, c) == a \o (b \o c)

LEMMA PreFacts ==
  ASSUME NEW S, NEW c \in S, NEW t \in Seq(S)
  PROVE  /\ Pre(c, t) \in Seq(S) /\ Len(Pre(c, t)) = 1 + Len(t)
         /\ \A k \in 1 .. 1 + Len(t) : Pre(c, t)[k] = IF k = 1 THEN c ELSE t[k - 1]
<1> DEFINE h == << c >>
<1>1. h \in Seq(S) /\ Len(h) = 1 /\ h[1] = c
  OBVIOUS
<1>2. Len(t) \in Nat
  BY LenProperties
<1>3. Pre(c, t) = h \o t
  BY DEF Pre
<1> HIDE DEF h
<1>4. /\ h \o t \in Seq(S) /\ Len(h \o t) = Len(h) + Len(t)
      /\ \A k \in 1 .. Len(h) + Len(t) :
           (h \o t)[k] = IF k <= Len(h) THEN h[k] ELSE t[k - Len(h)]
  BY <1>1, ConcatProperties, Zenon
<1> QED
  BY <1>1, <1>2, <1>3, <1>4

LEMMA PreUnits ==
  ASSUME NEW c \in Unit, NEW t \in Seq(Unit)
  PROVE  /\ Pre(c, t) \in Seq(Unit) /\ Len(Pre(c, t)) = 1 + Len(t)
         /\ \A k \in 1 .. 1 + Len(t) : Pre(c, t)[k] = IF k = 1 THEN c ELSE t[k - 1]
BY PreFacts

LEMMA ThreePieces ==
  ASSUME NEW S, NEW a \in Seq(S), NEW b \in Seq(S), NEW c \in Seq(S)
  PROVE  Left3(a, b, c) = Right3(a, b, c) /\ Left3(a, b, c) \in Seq(S)
<1>1. a \o b \in Seq(S)
  BY ConcatProperties, Zenon
<1>2. (a \o b) \o c \in Seq(S)
  BY <1>1, ConcatProperties, Zenon
<1>3. Left3(a, b, c) = Right3(a, b, c)
  BY ConcatAssociative DEF Left3, Right3
<1> QED
  BY <1>2, <1>3, Zenon DEF Left3

IsItems(items) ==
  /\ items \in Seq(Item) /\ Len(items) \in Nat
  /\ \A i \in 1 .. Len(items) : items[i] \in Item

LEMMA LeadFacts ==
  ASSUME NEW items, IsItems(items), NEW i \in 1 .. Len(items) + 1
  PROVE  /\ Lead(items, i) \in Seq(Unit)
         /\ Len(Lead(items, i)) = NextField(items, i) - i
         /\ NextField(items, i) \in i .. Len(items) + 1
         /\ \A k \in 1 .. NextField(items, i) - i :
              Lead(items, i)[k] = items[i + k - 1].ch
<1> DEFINE n == NextField(items, i) - i
<1>1. NextField(items, i) \in i .. Len(items) + 1 /\ n \in Nat /\ Len(items) \in Nat
  BY NextFacts DEF NextAt, IsItems
<1>2. \A k \in 1 .. n : items[i + k - 1].ch \in Unit
  <2> SUFFICES ASSUME NEW k \in 1 .. n  PROVE items[i + k - 1].ch \in Unit
    OBVIOUS
  <2>1. i + k - 1 \in 1 .. Len(items)
    BY <1>1
  <2>2. items[i + k - 1] \in Item
    BY <2>1 DEF IsItems
  <2> HIDE DEF n
  <2> QED
    BY <2>2 DEF Item
<1>3. Lead(items, i) = [k \in 1 .. n |-> items[i + k - 1].ch]
  BY DEF Lead
<1> HIDE DEF n
<1>4. Lead(items, i) \in [1 .. n -> Unit]
  BY <1>2, <1>3
<1>5. Lead(items, i) \in Seq(Unit) /\ Len(Lead(items, i)) = n
  BY <1>1, <1>4, SeqDef
<1>6. \A k \in 1 .. n : Lead(items, i)[k] = items[i + k - 1].ch
  BY <1>3
<1> QED
  BY <1>1, <1>5, <1>6 DEF n

(* No text is in front of a field, or behind the last item. *)
LEMMA LeadStops ==
  ASSUME NEW items, IsItems(items), NEW i \in 1 .. Len(items) + 1,
         i <= Len(items) => items[i].field
  PROVE  NextField(items, i) = i /\ Lead(items, i) = << >>
<1>1. Len(items) \in Nat
  BY DEF IsItems
<1>2. NextAt(items, i, i)
  BY <1>1 DEF NextAt
<1>3. NextField(items, i) = i
  BY <1>1, <1>2, NextFacts
<1>4. Lead(items, i) \in Seq(Unit) /\ Len(Lead(items, i)) = 0
  BY <1>3, LeadFacts
<1> QED
  BY <1>3, <1>4, EmptySeq

LEMMA LeadGoesOn ==
  ASSUME NEW items, IsItems(items), NEW i \in 1 .. Len(items), ~ items[i].field
  PROVE  /\ NextField(items, i) = NextField(items, i + 1)
         /\ Lead(items, i) = Pre(items[i].ch, Lead(items, i + 1))
         /\ Len(Lead(items, i)) = 1 + Len(Lead(items, i + 1))
<1> DEFINE a == Lead(items, i)
           b == Lead(items, i + 1)
           c == items[i].ch
           N == NextField(items, i)
           M == NextField(items, i + 1)
<1>1. Len(items) \in Nat /\ i + 1 \in 1 .. Len(items) + 1 /\ i \in 1 .. Len(items) + 1
  BY DEF IsItems
<1>2. NextAt(items, i + 1, M)
  BY <1>1, NextFacts
<1>3. NextAt(items, i, M)
  BY <1>1, <1>2 DEF NextAt
<1>4. N = M
  BY <1>1, <1>3, NextFacts
<1>5. /\ a \in Seq(Unit) /\ Len(a) = N - i
      /\ \A k \in 1 .. N - i : a[k] = items[i + k - 1].ch
  BY <1>1, LeadFacts
<1>6. /\ b \in Seq(Unit) /\ Len(b) = M - (i + 1) /\ M \in i + 1 .. Len(items) + 1
      /\ \A k \in 1 .. M - (i + 1) : b[k] = items[(i + 1) + k - 1].ch
  BY <1>1, LeadFacts
<1>7. c \in Unit
  BY DEF IsItems, Item
<1> HIDE DEF a, b, c, N, M
<1>8. /\ Pre(c, b) \in Seq(Unit) /\ Len(Pre(c, b)) = 1 + Len(b)
      /\ \A k \in 1 .. 1 + Len(b) : Pre(c, b)[k] = IF k = 1 THEN c ELSE b[k - 1]
  <2>1. c \in Unit
    BY <1>7
  <2>2. b \in Seq(Unit)
    BY <1>6
  <2> QED
    BY <2>1, <2>2, PreUnits
<1>9. Len(a) = 1 + Len(b) /\ M \in Int /\ i \in Int
  BY <1>4, <1>5, <1>6
<1>10. ASSUME NEW k \in 1 .. Len(a)  PROVE a[k] = Pre(c, b)[k]
  <2>1. k \in 1 .. N - i /\ k \in 1 .. 1 + Len(b)
    BY <1>5, <1>9
  <2>2. CASE k = 1
    <3>1. i + k - 1 = i
      BY <1>9, <2>2
    <3> QED
      BY <1>5, <1>8, <2>1, <2>2, <3>1 DEF c
  <2>3. CASE k # 1
    <3>1. k - 1 \in 1 .. M - (i + 1) /\ (i + 1) + (k - 1) - 1 = i + k - 1
      BY <1>4, <1>9, <2>1, <2>3
    <3> QED
      BY <1>5, <1>6, <1>8, <2>1, <2>3, <3>1
  <2> QED
    BY <2>2, <2>3
<1>11. a = Pre(c, b)
  BY <1>5, <1>8, <1>9, <1>10, SeqEqual
<1> QED
  BY <1>4, <1>9, <1>11 DEF a, b, c, N, M

(* Induction up from 0. *)
LEMMA UpTo ==
  ASSUME NEW n \in Nat, NEW G, 0 \in G, \A k \in 0 .. n - 1 : k \in G => k + 1 \in G
  PROVE  \A k \in 0 .. n : k \in G
<1> DEFINE H == {k \in 1 .. n + 1 : n + 1 - k \in G}
<1>1. ASSUME NEW k \in 1 .. n + 1, \A j \in k + 1 .. n + 1 : j \in H
      PROVE  k \in H
  <2>1. CASE k = n + 1
    BY <2>1
  <2>2. CASE k # n + 1
    <3>1. k + 1 \in H
      BY <1>1, <2>2
    <3>2. n - k \in G /\ n - k \in 0 .. n - 1
      <4>1. n + 1 - (k + 1) = n - k
        OBVIOUS
      <4> QED
        BY <2>2, <3>1, <4>1
    <3>3. (n - k) + 1 = n + 1 - k
      OBVIOUS
    <3> QED
      BY <3>2, <3>3
  <2> QED
    BY <2>1, <2>2
<1> HIDE DEF H
<1>2. \A k \in 1 .. n + 1 : k \in H
  BY <1>1, DownTo
<1> SUFFICES ASSUME NEW k \in 0 .. n  PROVE k \in G
  OBVIOUS
<1>3. n + 1 - k \in H
  BY <1>2
<1>4. n + 1 - (n + 1 - k) = k
  OBVIOUS
<1> QED
  BY <1>3, <1>4 DEF H

IsTaken(g, items, n) ==
  g = [d \in 0 .. n |-> IF d = 0 THEN 0 ELSE Following(items, g[d - 1])]

LEMMA TakenChosen ==
  ASSUME NEW items, NEW n
  PROVE  Taken(items, n) = CHOOSE g : IsTaken(g, items, n)
BY DEF Taken, IsTaken

LEMMA TakenFacts ==
  ASSUME NEW items, NEW n \in Nat
  PROVE  /\ Taken(items, n)[0] = 0
         /\ \A d \in 1 .. n :
              Taken(items, n)[d] = Following(items, Taken(items, n)[d - 1])
<1> DEFINE X(g, d) == IF d = 0 THEN 0 ELSE Following(items, g[d - 1])
           Solves(k, g) == /\ g = [d \in 0 .. n |-> g[d]]
                           /\ \A d \in 0 .. k : g[d] = X(g, d)
           G == {k \in 0 .. n : \E g : Solves(k, g)}
<1>1. 0 \in G
  <2> DEFINE g == [d \in 0 .. n |-> 0]
  <2>1. Solves(0, g)
    OBVIOUS
  <2> HIDE DEF g, Solves
  <2> QED
    BY <2>1
<1>2. ASSUME NEW k \in 0 .. n - 1, k \in G  PROVE k + 1 \in G
  <2>1. PICK g : Solves(k, g)
    BY <1>2
  <2> DEFINE h == [d \in 0 .. n |-> IF d = k + 1 THEN Following(items, g[k]) ELSE g[d]]
  <2>2. /\ h = [d \in 0 .. n |-> h[d]] /\ k + 1 \in 0 .. n
        /\ h[k + 1] = Following(items, g[k])
        /\ \A d \in 0 .. n : d # k + 1 => h[d] = g[d]
    OBVIOUS
  <2> HIDE DEF h
  <2>3. ASSUME NEW d \in 0 .. k + 1  PROVE h[d] = X(h, d)
    <3>1. CASE d = k + 1
      <4>1. d - 1 = k /\ k \in 0 .. n /\ k # k + 1 /\ d # 0
        BY <3>1
      <4> QED
        BY <2>2, <3>1, <4>1
    <3>2. CASE d # k + 1
      <4>1. d \in 0 .. k /\ d \in 0 .. n
        BY <3>2
      <4>2. g[d] = X(g, d) /\ h[d] = g[d]
        BY <2>1, <2>2, <3>2, <4>1
      <4>3. d # 0 => d - 1 \in 0 .. n /\ d - 1 # k + 1
        BY <4>1
      <4> QED
        BY <2>2, <4>2, <4>3
    <3> QED
      BY <3>1, <3>2
  <2>4. Solves(k + 1, h)
    BY <2>2, <2>3
  <2> HIDE DEF Solves
  <2> QED
    BY <2>2, <2>4
<1>3. n \in G
  <2> HIDE DEF G
  <2>1. \A k \in 0 .. n : k \in G
    BY <1>1, <1>2, UpTo
  <2> QED
    BY <2>1
<1>4. PICK g : Solves(n, g)
  BY <1>3
<1>5. IsTaken(g, items, n)
  <2>1. g = [d \in 0 .. n |-> g[d]] /\ \A d \in 0 .. n : g[d] = X(g, d)
    BY <1>4
  <2> HIDE DEF X
  <2>2. g = [d \in 0 .. n |-> X(g, d)]
    BY <2>1
  <2> QED
    BY <2>2 DEF X, IsTaken
<1>6. IsTaken(Taken(items, n), items, n)
  BY <1>5, TakenChosen
<1> DEFINE t == Taken(items, n)
<1>7. \A d \in 0 .. n : t[d] = IF d = 0 THEN 0 ELSE Following(items, t[d - 1])
  <2> HIDE DEF t
  <2>1. IsTaken(t, items, n)
    BY <1>6 DEF t
  <2> QED
    BY <2>1 DEF IsTaken
<1> HIDE DEF t
<1>8. t[0] = 0 /\ \A d \in 1 .. n : t[d] = Following(items, t[d - 1])
  BY <1>7
<1> QED
  BY <1>8 DEF t

(* With a field there is always one that follows. *)
LEMMA FollowingFacts ==
  ASSUME NEW items, IsItems(items), FieldsIn(items) # {}, NEW i \in 0 .. Len(items)
  PROVE  /\ NextField(items, 1) <= Len(items)
         /\ Following(items, i) \in 1 .. Len(items)
         /\ items[Following(items, i)].field
<1>1. Len(items) \in Nat /\ DOMAIN items = 1 .. Len(items)
  BY LenProperties DEF IsItems
<1>2. i + 1 \in 1 .. Len(items) + 1 /\ 1 \in 1 .. Len(items) + 1
  BY <1>1
<1>3. NextAt(items, i + 1, NextField(items, i + 1)) /\ NextAt(items, 1, NextField(items, 1))
  BY <1>1, <1>2, NextFacts
<1>4. PICK j \in 1 .. Len(items) : items[j].field
  BY <1>1 DEF FieldsIn
<1>5. NextField(items, 1) <= Len(items)
  <2> SUFFICES ASSUME ~ (NextField(items, 1) <= Len(items))  PROVE FALSE
    OBVIOUS
  <2>1. j \in 1 .. NextField(items, 1) - 1
    BY <1>1, <1>3 DEF NextAt
  <2> QED
    BY <1>3, <1>4, <2>1 DEF NextAt
<1>6. CASE NextField(items, i + 1) <= Len(items)
  BY <1>1, <1>3, <1>5, <1>6 DEF NextAt, Following
<1>7. CASE ~ (NextField(items, i + 1) <= Len(items))
  BY <1>1, <1>3, <1>5, <1>7 DEF NextAt, Following
<1> QED
  BY <1>5, <1>6, <1>7

LEMMA TakenInside ==
  ASSUME NEW items, IsItems(items), FieldsIn(items) # {}, NEW n \in Nat
  PROVE  /\ \A d \in 0 .. n : Taken(items, n)[d] \in 0 .. Len(items)
         /\ \A d \in 1 .. n : /\ Taken(items, n)[d] \in 1 .. Len(items)
                              /\ items[Taken(items, n)[d]].field
<1> DEFINE t == Taken(items, n)
           G == {k \in 0 .. n : t[k] \in 0 .. Len(items)}
<1>1. t[0] = 0 /\ \A d \in 1 .. n : t[d] = Following(items, t[d - 1])
  BY TakenFacts
<1>2. Len(items) \in Nat
  BY DEF IsItems
<1> HIDE DEF t
<1>3. \A k \in 0 .. n : t[k] \in 0 .. Len(items)
  <2>1. 0 \in G
    BY <1>1, <1>2
  <2>2. ASSUME NEW k \in 0 .. n - 1, k \in G  PROVE k + 1 \in G
    <3>1. k + 1 \in 1 .. n /\ (k + 1) - 1 = k /\ k + 1 \in 0 .. n
      OBVIOUS
    <3>2. t[k + 1] = Following(items, t[k])
      BY <1>1, <3>1
    <3>3. Following(items, t[k]) \in 1 .. Len(items)
      BY <2>2, FollowingFacts
    <3>4. t[k + 1] \in 0 .. Len(items)
      BY <1>2, <3>2, <3>3
    <3> QED
      BY <3>1, <3>4
  <2> HIDE DEF G
  <2>3. \A k \in 0 .. n : k \in G
    BY <2>1, <2>2, UpTo
  <2> QED
    BY <2>3 DEF G
<1>4. ASSUME NEW d \in 1 .. n
      PROVE  t[d] \in 1 .. Len(items) /\ items[t[d]].field
  <2>1. d - 1 \in 0 .. n
    OBVIOUS
  <2>2. t[d - 1] \in 0 .. Len(items) /\ t[d] = Following(items, t[d - 1])
    BY <1>1, <1>3, <2>1
  <2> QED
    BY <2>2, FollowingFacts
<1> QED
  BY <1>3, <1>4 DEF t

-----------------------------------------------------------------------------
(* What is still to be printed *)

(* Items in front of which any number of values can be printed. *)
Printable(items, vs) ==
  /\ IsItems(items) /\ WellFormed(items)
  /\ vs \in Seq(Seq(STRING)) /\ Len(vs) \in Nat
  /\ \A d \in 1 .. Len(vs) : vs[d] \in Seq(STRING)

(* The field of value d, what it holds, and the text in front of it. *)
FieldOf(items, vs, d) == Taken(items, Len(vs))[d]
InField(items, vs, d) == Shown(vs[d], items[FieldOf(items, vs, d)].width)
InTurn(items, vs, d)  ==
  Ahead(items, FieldOf(items, vs, d - 1)) \o InField(items, vs, d)

Turns(items, vs) == [d \in 1 .. Len(vs) |-> InTurn(items, vs, d)]
Ones(vs)         == [d \in 1 .. Len(vs) |-> 1]
Behind(items, vs) == Lead(items, FieldOf(items, vs, Len(vs)) + 1)

(* From value d on. *)
Owed(items, vs, d) == Tails(Turns(items, vs), Ones(vs), Behind(items, vs))[d]

LEMMA PromisedIsOwed ==
  ASSUME NEW s
  PROVE  Promised(s) = Owed(Items(s.format), s.values, 1)
BY JoinedIsTails DEF Promised, Owed, Turns, Ones, Behind, InTurn, InField, FieldOf

LEMMA ShownTyped ==
  ASSUME NEW v \in Seq(STRING), NEW w \in Nat
  PROVE  Shown(v, w) \in Seq(Unit)
<1> DEFINE m == IF w > Room THEN Room ELSE w
           k(j) == IF v[j] = NUL /\ w > 1 /\ Len(v) >= m THEN Space ELSE v[j]
           b(j) == IF j <= Len(v) THEN k(j) ELSE Space
<1>1. m \in Nat /\ Len(v) \in Nat
  BY UsingAssumption, LenProperties
<1>2. \A j \in 1 .. m : b(j) \in Unit
  <2> SUFFICES ASSUME NEW j \in 1 .. m  PROVE b(j) \in Unit
    OBVIOUS
  <2>1. j <= Len(v) => j \in 1 .. Len(v)
    BY <1>1
  <2>2. j <= Len(v) => v[j] \in STRING
    BY <2>1, ElementOfSeq
  <2>3. Space \in Unit /\ STRING \subseteq Unit
    BY Zenon DEF Unit, Space
  <2> HIDE DEF m
  <2> QED
    BY <2>2, <2>3
<1>3. v \in Seq(Unit)
  BY SeqMonotonic DEF Unit
<1>4. w # 0 => Shown(v, w) = [j \in 1 .. m |-> b(j)]
  BY DEF Shown
<1>5. w = 0 => Shown(v, w) = v
  BY DEF Shown
<1> HIDE DEF m, b
<1>6. [j \in 1 .. m |-> b(j)] \in Seq(Unit)
  BY <1>1, <1>2, SeqDef
<1> QED
  BY <1>3, <1>4, <1>5, <1>6

LEMMA AheadTyped ==
  ASSUME NEW items, IsItems(items), NEW i \in 0 .. Len(items)
  PROVE  Ahead(items, i) \in Seq(Unit)
<1>1. i + 1 \in 1 .. Len(items) + 1 /\ 1 \in 1 .. Len(items) + 1
  BY DEF IsItems
<1>2. Lead(items, i + 1) \in Seq(Unit) /\ Lead(items, 1) \in Seq(Unit)
      /\ << >> \in Seq(Unit)
  BY <1>1, LeadFacts, EmptySeq
<1> DEFINE b == IF NextField(items, i + 1) <= Len(items) THEN << >> ELSE Lead(items, 1)
<1>3. b \in Seq(Unit) /\ Ahead(items, i) = Lead(items, i + 1) \o b
  BY <1>2, Zenon DEF Ahead
<1> HIDE DEF b
<1> QED
  BY <1>2, <1>3, ConcatProperties, Zenon

LEMMA FieldOfFacts ==
  ASSUME NEW items, NEW vs, Printable(items, vs)
  PROVE  /\ FieldOf(items, vs, 0) = 0
         /\ \A d \in 0 .. Len(vs) : FieldOf(items, vs, d) \in 0 .. Len(items)
         /\ \A d \in 1 .. Len(vs) :
              /\ FieldOf(items, vs, d) = Following(items, FieldOf(items, vs, d - 1))
              /\ FieldOf(items, vs, d) \in 1 .. Len(items)
              /\ items[FieldOf(items, vs, d)].field
BY TakenFacts, TakenInside DEF FieldOf, Printable, WellFormed

LEMMA InFieldTyped ==
  ASSUME NEW items, NEW vs, Printable(items, vs), NEW d \in 1 .. Len(vs)
  PROVE  InField(items, vs, d) \in Seq(Unit)
<1> DEFINE i == FieldOf(items, vs, d)
<1>1. i \in 1 .. Len(items) /\ items[i].field
  BY FieldOfFacts
<1> HIDE DEF i
<1>2. items[i] \in Item /\ items[i].width >= 0
  <2>1. i \in FieldsIn(items)
    BY <1>1, LenProperties DEF FieldsIn, Printable, IsItems
  <2> QED
    BY <1>1, <2>1 DEF Printable, IsItems, WellFormed
<1>3. items[i].width \in Nat
  BY <1>2 DEF Item
<1>4. vs[d] \in Seq(STRING)
  BY DEF Printable
<1> QED
  BY <1>3, <1>4, ShownTyped DEF InField, i

LEMMA TurnsTyped ==
  ASSUME NEW items, NEW vs, Printable(items, vs)
  PROVE  /\ PiecesOf(Unit, Turns(items, vs), Ones(vs), Behind(items, vs))
         /\ Len(Turns(items, vs)) = Len(vs)
<1> DEFINE n == Len(vs)
           T == Seq(Unit)
<1>1. n \in Nat
  BY DEF Printable
<1>2. \A d \in 1 .. n : InTurn(items, vs, d) \in T
  <2> SUFFICES ASSUME NEW d \in 1 .. n  PROVE InTurn(items, vs, d) \in T
    OBVIOUS
  <2>1. FieldOf(items, vs, d - 1) \in 0 .. Len(items)
    <3>1. d - 1 \in 0 .. n
      BY <1>1
    <3> QED
      BY <3>1, FieldOfFacts
  <2>2. Ahead(items, FieldOf(items, vs, d - 1)) \in Seq(Unit)
    BY <2>1, AheadTyped DEF Printable
  <2>3. InField(items, vs, d) \in Seq(Unit)
    BY InFieldTyped
  <2> QED
    BY <2>2, <2>3, ConcatProperties, Zenon DEF InTurn
<1>3. Behind(items, vs) \in T
  <2>1. n \in 0 .. n
    BY <1>1
  <2>2. FieldOf(items, vs, n) \in 0 .. Len(items) /\ Len(items) \in Nat
    BY <2>1, FieldOfFacts DEF Printable, IsItems
  <2>3. FieldOf(items, vs, n) + 1 \in 1 .. Len(items) + 1
    BY <2>2
  <2> QED
    BY <2>3, LeadFacts DEF Behind, Printable
<1> HIDE DEF n, T
<1>4. Turns(items, vs) \in [1 .. n -> T] /\ Ones(vs) \in [1 .. n -> Nat \ {0}]
  BY <1>2 DEF Turns, Ones, n
<1>5. Turns(items, vs) \in Seq(T) /\ Len(Turns(items, vs)) = n
  BY <1>1, <1>4, SeqDef
<1> QED
  BY <1>3, <1>4, <1>5 DEF PiecesOf, n, T

(* What is owed from value d on: its turn, then the next; in the end the   *)
(* text behind the last.                                                   *)
OwedAt(items, vs, d) ==
  /\ Owed(items, vs, d) \in Seq(Unit)
  /\ d \in 1 .. Len(vs) =>
       Owed(items, vs, d) = Left3(Ahead(items, FieldOf(items, vs, d - 1)),
                                  InField(items, vs, d), Owed(items, vs, d + 1))
  /\ d = Len(vs) + 1 => Owed(items, vs, d) = Behind(items, vs)

LEMMA OwedFacts ==
  ASSUME NEW items, NEW vs, Printable(items, vs), NEW d \in 1 .. Len(vs) + 1
  PROVE  OwedAt(items, vs, d)
<1> DEFINE P == Turns(items, vs)
           K == Ones(vs)
           E == Behind(items, vs)
           n == Len(vs)
<1>1. n \in Nat /\ d \in Nat \ {0} /\ d <= n + 1
  BY DEF Printable
<1>2. PiecesOf(Unit, P, K, E) /\ Len(P) = n
  BY TurnsTyped
<1>3. d \in 1 .. n => P[d] = InTurn(items, vs, d) /\ K[d] = 1
  BY DEF Turns, Ones
<1>4. \A k : Owed(items, vs, k) = Tails(P, K, E)[k]
  BY DEF Owed
<1> HIDE DEF P, K, E, n
<1>5. PieceByPiece(Unit, P, K, E, d)
  BY <1>1, <1>2, TailsFacts
<1>6. Tails(P, K, E)[d] \in Seq(Unit) /\ (d > n => Tails(P, K, E)[d] = E)
  BY <1>2, <1>5, Zenon DEF PieceByPiece
<1>7. ASSUME d \in 1 .. n
      PROVE  Owed(items, vs, d) = InTurn(items, vs, d) \o Owed(items, vs, d + 1)
  BY <1>2, <1>3, <1>4, <1>5, <1>7, Zenon DEF PieceByPiece
<1>8. d = n + 1 => d > n
  BY <1>1
<1>9. d \in 1 .. n =>
        Owed(items, vs, d) = Left3(Ahead(items, FieldOf(items, vs, d - 1)),
                                   InField(items, vs, d), Owed(items, vs, d + 1))
  BY <1>7, Zenon DEF InTurn, Left3
<1> QED
  BY <1>4, <1>6, <1>8, <1>9, Zenon DEF OwedAt, n, E

(* The same by the items that are gone through in the pass, i, and the     *)
(* values that have been printed, d.                                       *)
Due(items, vs, i, d) ==
  /\ i \in 0 .. Len(items) /\ d \in 0 .. Len(vs)
  /\ d < Len(vs) => FieldOf(items, vs, d + 1) = Following(items, i)

Rest(items, vs, i, d) ==
  IF d = Len(vs) THEN Lead(items, i + 1)
  ELSE Right3(Ahead(items, i), InField(items, vs, d + 1), Owed(items, vs, d + 2))

Two(a, b) == a \o b

LEMMA TwoPieces ==
  ASSUME NEW S, NEW a \in Seq(S), NEW b \in Seq(S)
  PROVE  /\ Two(a, b) \in Seq(S)
         /\ Two(<< >>, a) = a /\ Two(a, << >>) = a
BY ConcatProperties, ConcatEmptySeq, Zenon DEF Two

LEMMA RestTyped ==
  ASSUME NEW items, NEW vs, Printable(items, vs), NEW i, NEW d, Due(items, vs, i, d)
  PROVE  Rest(items, vs, i, d) \in Seq(Unit)
<1>1. /\ Len(vs) \in Nat /\ Len(items) \in Nat /\ i \in 0 .. Len(items)
      /\ d \in 0 .. Len(vs) /\ IsItems(items)
  BY DEF Printable, IsItems, Due
<1>2. CASE d = Len(vs)
  <2>1. i + 1 \in 1 .. Len(items) + 1
    BY <1>1
  <2> QED
    BY <1>1, <1>2, <2>1, LeadFacts DEF Rest
<1>3. CASE d # Len(vs)
  <2>1. d + 1 \in 1 .. Len(vs) /\ d + 2 \in 1 .. Len(vs) + 1
    BY <1>1, <1>3
  <2>2. /\ Ahead(items, i) \in Seq(Unit) /\ InField(items, vs, d + 1) \in Seq(Unit)
        /\ Owed(items, vs, d + 2) \in Seq(Unit)
    <3>1. OwedAt(items, vs, d + 2)
      BY <2>1, OwedFacts
    <3> QED
      BY <1>1, <2>1, <3>1, AheadTyped, InFieldTyped DEF OwedAt
  <2>3. Rest(items, vs, i, d)
          = Right3(Ahead(items, i), InField(items, vs, d + 1), Owed(items, vs, d + 2))
    BY <1>3 DEF Rest
  <2> QED
    BY <2>2, <2>3, ThreePieces
<1> QED
  BY <1>2, <1>3

(* Right behind the field of value d, the rest is what is owed. *)
LEMMA RestAtField ==
  ASSUME NEW items, NEW vs, Printable(items, vs), NEW d \in 0 .. Len(vs)
  PROVE  /\ Due(items, vs, FieldOf(items, vs, d), d)
         /\ Rest(items, vs, FieldOf(items, vs, d), d) = Owed(items, vs, d + 1)
<1> DEFINE i == FieldOf(items, vs, d)
           n == Len(vs)
<1>1. n \in Nat /\ Len(items) \in Nat /\ IsItems(items)
  BY DEF Printable, IsItems
<1>2. i \in 0 .. Len(items) /\ d + 1 \in 1 .. n + 1 /\ (d + 1) - 1 = d /\ (d + 1) + 1 = d + 2
  BY <1>1, FieldOfFacts
<1>3. d < n => FieldOf(items, vs, d + 1) = Following(items, i)
  <2>1. d < n => d + 1 \in 1 .. n
    BY <1>1
  <2> QED
    BY <1>2, <2>1, FieldOfFacts
<1>4. OwedAt(items, vs, d + 1)
  BY <1>2, OwedFacts
<1>5. Due(items, vs, i, d)
  BY <1>2, <1>3 DEF Due
<1>6. CASE d = n
  <2>1. Rest(items, vs, i, d) = Owed(items, vs, d + 1)
    BY <1>4, <1>6 DEF OwedAt, Behind, Rest
  <2> QED
    BY <1>5, <2>1
<1>7. CASE d # n
  <2>1. d + 1 \in 1 .. n /\ d + 2 \in 1 .. n + 1
    BY <1>1, <1>7
  <2>2. Owed(items, vs, d + 1)
          = Left3(Ahead(items, i), InField(items, vs, d + 1), Owed(items, vs, d + 2))
    BY <1>2, <1>4, <2>1 DEF OwedAt
  <2>3. /\ Ahead(items, i) \in Seq(Unit) /\ InField(items, vs, d + 1) \in Seq(Unit)
        /\ Owed(items, vs, d + 2) \in Seq(Unit)
    <3>1. OwedAt(items, vs, d + 2)
      BY <2>1, OwedFacts
    <3> QED
      BY <1>1, <1>2, <2>1, <3>1, AheadTyped, InFieldTyped DEF OwedAt
  <2>4. Rest(items, vs, i, d)
          = Right3(Ahead(items, i), InField(items, vs, d + 1), Owed(items, vs, d + 2))
    BY <1>7 DEF Rest
  <2> HIDE DEF i
  <2>5. Rest(items, vs, i, d) = Owed(items, vs, d + 1)
    BY <2>2, <2>3, <2>4, ThreePieces
  <2> QED
    BY <1>5, <2>5 DEF i
<1> QED
  BY <1>6, <1>7

LEMMA RestFirst ==
  ASSUME NEW items, NEW vs, Printable(items, vs)
  PROVE  Due(items, vs, 0, 0) /\ Rest(items, vs, 0, 0) = Owed(items, vs, 1)
<1>1. 0 \in 0 .. Len(vs) /\ 0 + 1 = 1
  BY DEF Printable
<1>2. FieldOf(items, vs, 0) = 0
  BY FieldOfFacts
<1> QED
  BY <1>1, <1>2, RestAtField

(* What is in front of the next field, from one literal item to the next. *)
LEMMA AheadGoesOn ==
  ASSUME NEW items, IsItems(items), NEW i \in Nat, i + 1 \in 1 .. Len(items),
         ~ items[i + 1].field
  PROVE  /\ Following(items, i) = Following(items, i + 1)
         /\ Ahead(items, i) = Pre(items[i + 1].ch, Ahead(items, i + 1))
<1> DEFINE c == items[i + 1].ch
           b == IF NextField(items, i + 2) <= Len(items) THEN << >> ELSE Lead(items, 1)
           t == Lead(items, i + 2)
<1>1. (i + 1) + 1 = i + 2 /\ i + 2 \in 1 .. Len(items) + 1 /\ 1 \in 1 .. Len(items) + 1
      /\ Len(items) \in Nat
  BY DEF IsItems
<1>2. /\ NextField(items, i + 1) = NextField(items, i + 2)
      /\ Lead(items, i + 1) = Pre(c, t)
  BY <1>1, LeadGoesOn
<1>3. Following(items, i) = Following(items, i + 1)
  BY <1>1, <1>2 DEF Following
<1>4. t \in Seq(Unit) /\ Lead(items, 1) \in Seq(Unit) /\ << >> \in Seq(Unit)
  BY <1>1, LeadFacts, EmptySeq
<1>5. b \in Seq(Unit)
  BY <1>4
<1>6. c \in Unit
  BY DEF IsItems, Item
<1>7. Ahead(items, i) = Pre(c, t) \o b
  BY <1>2, Zenon DEF Ahead
<1>8. Ahead(items, i + 1) = t \o b
  BY <1>1, Zenon DEF Ahead
<1> HIDE DEF b, c, t
<1>9. << c >> \in Seq(Unit)
  BY <1>6
<1>10. Left3(<< c >>, t, b) = Right3(<< c >>, t, b)
  <2> DEFINE h == << c >>
  <2>1. h \in Seq(Unit)
    BY <1>9
  <2> HIDE DEF h
  <2>2. Left3(h, t, b) = Right3(h, t, b)
    BY <1>4, <1>5, <2>1, ThreePieces
  <2> QED
    BY <2>2 DEF h
<1>11. Ahead(items, i) = Pre(c, Ahead(items, i + 1))
  BY <1>7, <1>8, <1>10, Zenon DEF Left3, Right3, Pre
<1> QED
  BY <1>3, <1>11 DEF c

LEMMA RestLiteral ==
  ASSUME NEW items, NEW vs, Printable(items, vs), NEW i, NEW d, Due(items, vs, i, d),
         i + 1 \in 1 .. Len(items), ~ items[i + 1].field
  PROVE  /\ Due(items, vs, i + 1, d)
         /\ Rest(items, vs, i, d) = Pre(items[i + 1].ch, Rest(items, vs, i + 1, d))
<1> DEFINE n == Len(vs)
           c == items[i + 1].ch
<1>1. /\ n \in Nat /\ Len(items) \in Nat /\ IsItems(items) /\ i \in Nat
      /\ d \in 0 .. n /\ (i + 1) + 1 = i + 2 /\ i + 1 \in 0 .. Len(items)
  BY DEF Printable, IsItems, Due
<1>2. /\ Following(items, i) = Following(items, i + 1)
      /\ Ahead(items, i) = Pre(c, Ahead(items, i + 1))
  BY <1>1, AheadGoesOn
<1>3. Due(items, vs, i + 1, d)
  BY <1>1, <1>2 DEF Due
<1>4. CASE d = n
  <2>1. Lead(items, i + 1) = Pre(c, Lead(items, i + 2))
    BY <1>1, LeadGoesOn
  <2>2. /\ Rest(items, vs, i, d) = Lead(items, i + 1)
        /\ Rest(items, vs, i + 1, d) = Lead(items, i + 2)
    BY <1>1, <1>4 DEF Rest
  <2> HIDE DEF c
  <2>3. Rest(items, vs, i, d) = Pre(c, Rest(items, vs, i + 1, d))
    BY <2>1, <2>2
  <2> QED
    BY <1>3, <2>3 DEF c
<1>5. CASE d # n
  <2> DEFINE a == Ahead(items, i + 1)
             u == InField(items, vs, d + 1)
             o == Owed(items, vs, d + 2)
             h == << c >>
  <2>1. d + 1 \in 1 .. n /\ d + 2 \in 1 .. n + 1
    BY <1>1, <1>5
  <2>2. a \in Seq(Unit) /\ u \in Seq(Unit) /\ o \in Seq(Unit)
    <3>1. OwedAt(items, vs, d + 2)
      BY <2>1, OwedFacts
    <3> QED
      BY <1>1, <2>1, <3>1, AheadTyped, InFieldTyped DEF OwedAt
  <2>3. c \in Unit
    BY <1>1 DEF IsItems, Item
  <2>4. /\ Rest(items, vs, i, d) = Right3(Ahead(items, i), u, o)
        /\ Rest(items, vs, i + 1, d) = Right3(a, u, o)
    BY <1>5 DEF Rest
  <2> HIDE DEF a, u, o, c
  <2>5. h \in Seq(Unit)
    BY <2>3
  <2> HIDE DEF h
  <2>6. Two(u, o) \in Seq(Unit)
    BY <2>2, TwoPieces
  <2>7. Left3(h, a, Two(u, o)) = Right3(h, a, Two(u, o))
    BY <2>2, <2>5, <2>6, ThreePieces
  <2>8. Right3(Pre(c, a), u, o) = Pre(c, Right3(a, u, o))
    BY <2>7, Zenon DEF Left3, Right3, Pre, Two, h
  <2>9. Rest(items, vs, i, d) = Pre(c, Rest(items, vs, i + 1, d))
    BY <1>2, <2>4, <2>8 DEF a
  <2> QED
    BY <1>3, <2>9 DEF c
<1> QED
  BY <1>4, <1>5

LEMMA RestField ==
  ASSUME NEW items, NEW vs, Printable(items, vs), NEW i, NEW d, Due(items, vs, i, d),
         d # Len(vs), i + 1 \in 1 .. Len(items), items[i + 1].field
  PROVE  /\ i + 1 = FieldOf(items, vs, d + 1)
         /\ Due(items, vs, i + 1, d + 1)
         /\ Rest(items, vs, i, d)
              = Two(InField(items, vs, d + 1), Rest(items, vs, i + 1, d + 1))
<1> DEFINE n == Len(vs)
           u == InField(items, vs, d + 1)
           o == Owed(items, vs, d + 2)
<1>1. /\ n \in Nat /\ Len(items) \in Nat /\ IsItems(items) /\ i \in Nat
      /\ d \in 0 .. n /\ d + 1 \in 1 .. n /\ (d + 1) + 1 = d + 2
      /\ d + 2 \in 1 .. n + 1 /\ d + 1 \in 0 .. n /\ d < n
      /\ i + 1 \in 1 .. Len(items) + 1 /\ i + 1 <= Len(items)
  BY DEF Printable, IsItems, Due
<1>2. NextField(items, i + 1) = i + 1 /\ Lead(items, i + 1) = << >>
  BY <1>1, LeadStops
<1>3. Following(items, i) = i + 1
  BY <1>1, <1>2 DEF Following
<1>4. i + 1 = FieldOf(items, vs, d + 1)
  BY <1>1, <1>3 DEF Due
<1>5. /\ Due(items, vs, i + 1, d + 1)
      /\ Rest(items, vs, i + 1, d + 1) = o
  BY <1>1, <1>4, RestAtField
<1>6. Ahead(items, i) = Two(<< >>, << >>)
  BY <1>1, <1>2, Zenon DEF Ahead, Two
<1>7. u \in Seq(Unit) /\ o \in Seq(Unit)
  <2>1. OwedAt(items, vs, d + 2)
    BY <1>1, OwedFacts
  <2> QED
    BY <1>1, <2>1, InFieldTyped DEF OwedAt
<1>8. Rest(items, vs, i, d) = Right3(Ahead(items, i), u, o)
  BY DEF Rest
<1> HIDE DEF u, o
<1>9. Ahead(items, i) = << >>
  <2>1. << >> \in Seq(Unit)
    BY EmptySeq
  <2> QED
    BY <1>6, <2>1, TwoPieces
<1>10. Two(u, o) \in Seq(Unit)
  BY <1>7, TwoPieces
<1>11. Right3(<< >>, u, o) = Two(<< >>, Two(u, o))
  BY Zenon DEF Right3, Two
<1>12. Rest(items, vs, i, d) = Two(u, Rest(items, vs, i + 1, d + 1))
  BY <1>5, <1>8, <1>9, <1>10, <1>11, TwoPieces
<1> QED
  BY <1>4, <1>5, <1>12 DEF u

(* At the end of the format it is as at the beginning, ... *)
LEMMA RestAgain ==
  ASSUME NEW items, NEW vs, Printable(items, vs), NEW d,
         Due(items, vs, Len(items), d), d # Len(vs)
  PROVE  /\ Due(items, vs, 0, d)
         /\ Rest(items, vs, Len(items), d) = Rest(items, vs, 0, d)
<1> DEFINE L == Len(items)
<1>1. L \in Nat /\ IsItems(items) /\ 0 \in 0 .. L /\ 0 + 1 = 1 /\ d \in 0 .. Len(vs)
      /\ 1 \in 1 .. L + 1 /\ L + 1 \in 1 .. L + 1 /\ ~ (L + 1 <= L)
      /\ FieldsIn(items) # {} /\ d < Len(vs)
  BY DEF Printable, IsItems, Due, WellFormed
<1>2. NextField(items, L + 1) = L + 1 /\ Lead(items, L + 1) = << >>
  BY <1>1, LeadStops
<1>3. NextField(items, 1) <= L
  BY <1>1, FollowingFacts
<1>4. Following(items, L) = Following(items, 0)
  BY <1>1, <1>2, <1>3 DEF Following
<1>5. Lead(items, 1) \in Seq(Unit)
  BY <1>1, LeadFacts
<1>6. Ahead(items, L) = Two(<< >>, Lead(items, 1)) /\ Ahead(items, 0) = Two(Lead(items, 1), << >>)
  BY <1>1, <1>2, <1>3, Zenon DEF Ahead, Two
<1>7. Ahead(items, L) = Ahead(items, 0)
  BY <1>5, <1>6, TwoPieces
<1> QED
  BY <1>1, <1>4, <1>7 DEF Due, Rest

(* ... and behind the last value nothing is left where the text ends. *)
LEMMA RestOver ==
  ASSUME NEW items, NEW vs, Printable(items, vs), NEW i, Due(items, vs, i, Len(vs)),
         i < Len(items) => items[i + 1].field
  PROVE  Rest(items, vs, i, Len(vs)) = << >>
<1>1. IsItems(items) /\ i \in 0 .. Len(items) /\ Len(items) \in Nat
  BY DEF Printable, IsItems, Due
<1>2. i + 1 \in 1 .. Len(items) + 1 /\ (i + 1 <= Len(items) => i < Len(items))
  BY <1>1
<1>3. Lead(items, i + 1) = << >>
  BY <1>1, <1>2, LeadStops
<1> QED
  BY <1>3 DEF Rest

-----------------------------------------------------------------------------
(* Texts put together *)

LEMMA TwoFacts ==
  ASSUME NEW S, NEW a \in Seq(S), NEW b \in Seq(S)
  PROVE  /\ Two(a, b) \in Seq(S) /\ Len(Two(a, b)) = Len(a) + Len(b)
         /\ \A k \in 1 .. Len(a) + Len(b) :
              Two(a, b)[k] = IF k <= Len(a) THEN a[k] ELSE b[k - Len(a)]
BY ConcatProperties, Zenon DEF Two

(* A field between backslashes is filled as promised, ... *)
LEMMA FilledIsShown ==
  ASSUME NEW v \in Seq(STRING), NEW w \in Nat, w > 1
  PROVE  /\ Filled(v, IF w > Room THEN Room ELSE w) \in Seq(Unit)
         /\ Filled(v, IF w > Room THEN Room ELSE w) = Shown(v, w)
<1> DEFINE m == IF w > Room THEN Room ELSE w
           k(j) == IF v[j] = NUL /\ w > 1 /\ Len(v) >= m THEN Space ELSE v[j]
           u == Shown(v, w)
           t == Filled(v, m)
<1>1. m \in Nat \ {0} /\ Len(v) \in Nat /\ v \in Seq(Unit)
  BY UsingAssumption, LenProperties, SeqMonotonic DEF Unit
<1>2. Space \in Unit
  BY Zenon DEF Unit, Space
<1>3. u \in Seq(Unit)
  BY ShownTyped
<1>4. u = [j \in 1 .. m |-> IF j <= Len(v) THEN k(j) ELSE Space]
  BY DEF Shown
<1> HIDE DEF m, u
<1>5. CASE Len(v) < m
  <2>1. \A j \in 1 .. m : k(j) = v[j]
    BY <1>1, <1>5
  <2> HIDE DEF k
  <2>2. Len(u) = m /\ \A j \in 1 .. m : u[j] = IF j <= Len(v) THEN v[j] ELSE Space
    BY <1>1, <1>4, <2>1
  <2> DEFINE e == Blanks(m - Len(v))
  <2>3. e \in Seq(Unit) /\ Len(e) = m - Len(v) /\ \A i \in 1 .. m - Len(v) : e[i] = Space
    <3> DEFINE r == m - Len(v)
    <3>1. r \in Nat
      BY <1>1, <1>5
    <3>2. e = [i \in 1 .. r |-> Space]
      BY DEF Blanks
    <3> HIDE DEF r, e
    <3>3. e \in [1 .. r -> Unit] /\ \A i \in 1 .. r : e[i] = Space
      BY <1>2, <3>2
    <3>4. e \in Seq(Unit) /\ Len(e) = r
      BY <3>1, <3>3, SeqDef
    <3> QED
      BY <3>3, <3>4 DEF r
  <2>4. t = Two(v, e)
    BY <1>5 DEF Filled, Two
  <2> HIDE DEF t, e
  <2>5. /\ t \in Seq(Unit) /\ Len(t) = Len(v) + Len(e)
        /\ \A i \in 1 .. Len(v) + Len(e) : t[i] = IF i <= Len(v) THEN v[i] ELSE e[i - Len(v)]
    BY <1>1, <2>3, <2>4, TwoFacts
  <2>6. ASSUME NEW i \in 1 .. Len(t)  PROVE t[i] = u[i]
    <3>1. i \in 1 .. m /\ i \in 1 .. Len(v) + Len(e)
      BY <1>1, <2>3, <2>5
    <3>2. ~ (i <= Len(v)) => i - Len(v) \in 1 .. m - Len(v)
      BY <1>1, <3>1
    <3> QED
      BY <2>2, <2>3, <2>5, <3>1, <3>2
  <2>7. Len(t) = Len(u)
    BY <1>1, <2>2, <2>3, <2>5
  <2>8. t = u
    BY <1>3, <2>5, <2>6, <2>7, SeqEqual
  <2> QED
    BY <1>3, <2>8 DEF t, u, m
<1>6. CASE ~ (Len(v) < m)
  <2> DEFINE b(i) == IF v[i] = NUL THEN Space ELSE v[i]
  <2>1. t = [i \in 1 .. m |-> b(i)]
    BY <1>6 DEF Filled
  <2>2. \A i \in 1 .. m : (IF i <= Len(v) THEN k(i) ELSE Space) = b(i)
    BY <1>1, <1>6
  <2> HIDE DEF b, k, t
  <2>3. t = u
    BY <1>4, <2>1, <2>2
  <2> QED
    BY <1>3, <2>3 DEF t, u, m
<1> QED
  BY <1>5, <1>6

(* ... and so are the fields of one character, and of all. *)
LEMMA FirstIsShown ==
  ASSUME NEW v \in Seq(STRING)
  PROVE  /\ Shown(v, 1) = IF v = << >> THEN << Space >> ELSE << v[1] >>
         /\ Shown(v, 0) = v
<1> DEFINE u == Shown(v, 1)
<1>1. Len(v) \in Nat /\ (v # << >> => Len(v) # 0) /\ Len(<< >>) = 0
  BY LenProperties, EmptySeq
<1>2. u = [j \in 1 .. 1 |-> IF j <= Len(v) THEN v[j] ELSE Space]
  BY UsingAssumption DEF Shown
<1>3. u \in Seq(Unit)
  BY ShownTyped
<1> HIDE DEF u
<1>4. Len(u) = 1 /\ u[1] = IF 1 <= Len(v) THEN v[1] ELSE Space
  BY <1>2
<1>5. u = << u[1] >>
  BY <1>2, <1>4
<1>6. u = IF v = << >> THEN << Space >> ELSE << v[1] >>
  <2>1. 1 <= Len(v) <=> v # << >>
    BY <1>1
  <2> DEFINE c == u[1]
  <2>2. c = IF v = << >> THEN Space ELSE v[1]
    BY <1>4, <2>1
  <2>3. u = << c >>
    BY <1>5
  <2> HIDE DEF c
  <2> QED
    BY <2>2, <2>3, Zenon
<1>7. Shown(v, 0) = v
  BY DEF Shown
<1> QED
  BY <1>6, <1>7 DEF u

(* The output, the text collected and what is still to come make up what   *)
(* was promised.                                                           *)
Made(said, buffer, rest, promised) == Left3(said, buffer, rest) = promised

LEMMA AppendIsTwo ==
  ASSUME NEW S, NEW t \in Seq(S), NEW c \in S
  PROVE  Append(t, c) = Two(t, << c >>)
BY AppendIsConcat, Zenon DEF Two

LEMMA MadeByChar ==
  ASSUME NEW said \in Seq(Unit), NEW t \in Seq(Unit), NEW c \in Unit,
         NEW rest \in Seq(Unit), NEW promised, Made(said, t, Pre(c, rest), promised)
  PROVE  Made(said, Append(t, c), rest, promised)
<1> DEFINE h == << c >>
<1>1. h \in Seq(Unit)
  OBVIOUS
<1>2. Append(t, c) = Two(t, h)
  BY AppendIsTwo
<1>3. Pre(c, rest) = Two(h, rest)
  BY Zenon DEF Pre, Two
<1> HIDE DEF h
<1>4. Two(t, h) \in Seq(Unit) /\ Two(h, rest) \in Seq(Unit)
  BY <1>1, TwoPieces
<1>5. Left3(t, h, rest) = Right3(t, h, rest)
  BY <1>1, ThreePieces
<1>6. Left3(said, t, Two(h, rest)) = Right3(said, t, Two(h, rest))
  BY <1>4, ThreePieces
<1>7. Left3(said, Two(t, h), rest) = Right3(said, Two(t, h), rest)
  BY <1>4, ThreePieces
<1>8. Right3(said, t, Two(h, rest)) = Right3(said, Two(t, h), rest)
  BY <1>5, Zenon DEF Left3, Right3, Two
<1> QED
  BY <1>2, <1>3, <1>6, <1>7, <1>8 DEF Made

LEMMA MadeBySaying ==
  ASSUME NEW said \in Seq(Unit), NEW t \in Seq(Unit), NEW rest \in Seq(Unit),
         NEW promised, Made(said, t, rest, promised)
  PROVE  Made(Two(said, t), << >>, rest, promised)
<1>1. Two(said, t) \in Seq(Unit)
  BY TwoPieces
<1>2. Two(Two(said, t), << >>) = Two(said, t)
  BY <1>1, TwoPieces
<1>3. Left3(Two(said, t), << >>, rest) = Left3(said, t, rest)
  BY <1>2, Zenon DEF Left3, Two
<1> QED
  BY <1>3 DEF Made

LEMMA MadeTwo ==
  ASSUME NEW said \in Seq(Unit), NEW rest \in Seq(Unit), NEW promised
  PROVE  Made(said, << >>, rest, promised) <=> Two(said, rest) = promised
<1>1. Two(said, << >>) = said
  BY TwoPieces
<1>2. Left3(said, << >>, rest) = Two(said, rest)
  BY <1>1, Zenon DEF Left3, Two
<1> QED
  BY <1>2 DEF Made

(* A field is printed. *)
LEMMA MadeByField ==
  ASSUME NEW said \in Seq(Unit), NEW t \in Seq(Unit), NEW rest \in Seq(Unit),
         NEW promised, Made(said, << >>, Two(t, rest), promised)
  PROVE  Made(Two(said, t), << >>, rest, promised)
<1>1. Two(t, rest) \in Seq(Unit) /\ Two(said, t) \in Seq(Unit)
  BY TwoPieces
<1>2. Two(said, Two(t, rest)) = promised
  BY <1>1, MadeTwo
<1>3. Left3(said, t, rest) = Right3(said, t, rest)
  BY ThreePieces
<1>4. Two(Two(said, t), rest) = promised
  BY <1>2, <1>3, Zenon DEF Left3, Right3, Two
<1> QED
  BY <1>1, <1>4, MadeTwo

LEMMA MadeWhole ==
  ASSUME NEW said \in Seq(Unit), NEW promised, Made(said, << >>, << >>, promised)
  PROVE  said = promised
<1>1. Two(said, << >>) = said
  BY TwoPieces
<1>2. Left3(said, << >>, << >>) = said
  BY <1>1, Zenon DEF Left3, Two
<1> QED
  BY <1>2 DEF Made

-----------------------------------------------------------------------------
(* Going through the format.  A format and values that can be printed with *)
(* it; place p, in front of which are i items, d values printed, of what   *)
(* was promised said is printed and t collected.                           *)

Job(f, vs) == f \in Seq(STRING) /\ Printable(Items(f), vs)

Here(f, vs, said, p, i, d, t) ==
  /\ Parsed(f, p, i)
  /\ Due(Items(f), vs, i, d)
  /\ Made(said, t, Rest(Items(f), vs, i, d), Owed(Items(f), vs, 1))

(* Behind i items is a field, or the end; what has been collected and the  *)
(* literals that follow fit into the buffer; a field follows.              *)
AtStop(f, i)  == i < Len(Items(f)) => Items(f)[i + 1].field
Fits(f, i, t) == Len(t) + Len(Lead(Items(f), i + 1)) <= Room
Comes(f, i)   == NextField(Items(f), i + 1) <= Len(Items(f))

LEMMA JobFacts ==
  ASSUME NEW f, NEW vs, Job(f, vs)
  PROVE  /\ f \in Seq(STRING) /\ Len(f) \in Nat /\ Printable(Items(f), vs)
         /\ IsItems(Items(f)) /\ WellFormed(Items(f)) /\ FieldsIn(Items(f)) # {}
         /\ Len(Items(f)) \in Nat \ {0} /\ DOMAIN Items(f) = 1 .. Len(Items(f))
         /\ Len(vs) \in Nat
         /\ \A i \in 1 .. Len(Items(f)) : Len(Lead(Items(f), i)) <= Room
         /\ \A i \in FieldsIn(Items(f)) : Items(f)[i].width >= 0
<1>1. f \in Seq(STRING) /\ Printable(Items(f), vs)
  BY DEF Job
<1>2. Len(f) \in Nat
  BY <1>1, LenProperties
<1>3. IsItems(Items(f)) /\ WellFormed(Items(f)) /\ Len(vs) \in Nat
  BY <1>1 DEF Printable
<1>4. Len(Items(f)) \in Nat /\ DOMAIN Items(f) = 1 .. Len(Items(f))
  BY <1>1, ItemsTyped
<1>5. FieldsIn(Items(f)) # {}
  BY <1>3 DEF WellFormed
<1>6. Len(Items(f)) # 0
  BY <1>4, <1>5 DEF FieldsIn
<1>7. /\ \A i \in 1 .. Len(Items(f)) : Len(Lead(Items(f), i)) <= Room
      /\ \A i \in FieldsIn(Items(f)) : Items(f)[i].width >= 0
  BY <1>3, <1>4 DEF WellFormed
<1> QED
  BY <1>1, <1>2, <1>3, <1>4, <1>5, <1>6, <1>7

LEMMA HereTyped ==
  ASSUME NEW f, NEW vs, Job(f, vs), NEW said, NEW p, NEW i, NEW d, NEW t,
         Here(f, vs, said, p, i, d, t)
  PROVE  /\ p \in 1 .. Len(f) + 1 /\ i \in 0 .. Len(Items(f)) /\ d \in 0 .. Len(vs)
         /\ Rest(Items(f), vs, i, d) \in Seq(Unit)
         /\ p = Len(f) + 1 <=> i = Len(Items(f))
         /\ p \in 1 .. Len(f) => /\ i + 1 \in 1 .. Len(Items(f))
                                 /\ Items(f)[i + 1] = ItemAt(f, p)
                                 /\ Parsed(f, p + TakenBy(f, p), i + 1)
<1>1. Parsed(f, p, i) /\ Due(Items(f), vs, i, d)
  BY DEF Here
<1>2. p \in 1 .. Len(f) + 1 /\ i \in 0 .. Len(Items(f))
  BY <1>1 DEF Parsed
<1>3. d \in 0 .. Len(vs)
  BY <1>1 DEF Due
<1> QED
  BY <1>1, <1>2, <1>3, JobFacts, RestTyped, ParsedLast, ParsedOn

(* At the beginning everything is to come. *)
LEMMA HereFirst ==
  ASSUME NEW f, NEW vs, Job(f, vs), NEW e \in Seq(Unit), Len(e) = 0
  PROVE  Here(f, vs, e, 1, 0, 0, << >>)
<1> DEFINE items == Items(f)
           w == Owed(items, vs, 1)
<1>1. Parsed(f, 1, 0)
  BY JobFacts, ParsedFirst
<1>2. Due(items, vs, 0, 0) /\ Rest(items, vs, 0, 0) = w
  BY JobFacts, RestFirst
<1>3. w \in Seq(Unit)
  BY <1>2, JobFacts, RestTyped
<1> HIDE DEF items, w
<1>4. e = << >>
  BY EmptySeq
<1>6. Two(e, w) = w
  BY <1>3, <1>4, TwoPieces
<1>7. Made(e, << >>, w, w)
  BY <1>3, <1>6, MadeTwo
<1> QED
  BY <1>1, <1>2, <1>7 DEF Here, items, w

(* Past a literal item. *)
LEMMA HereOn ==
  ASSUME NEW f, NEW vs, Job(f, vs), NEW said \in Seq(Unit), NEW p \in 1 .. Len(f),
         NEW i, NEW d, NEW t \in Seq(Unit), Here(f, vs, said, p, i, d, t),
         f[p] \notin Stops, NEW c, c = f[IF Escaped(f, p) THEN p + 1 ELSE p]
  PROVE  /\ Here(f, vs, said, p + TakenBy(f, p), i + 1, d, Append(t, c))
         /\ i + 1 \in 1 .. Len(Items(f))
         /\ Fits(f, i, t) => Fits(f, i + 1, Append(t, c))
         /\ Comes(f, i) => Comes(f, i + 1)
<1> DEFINE items == Items(f)
<1>1. /\ IsItems(items) /\ Printable(items, vs) /\ InPlace(f, p) /\ Len(items) \in Nat
      /\ Parsed(f, p, i) /\ Due(items, vs, i, d)
      /\ Made(said, t, Rest(items, vs, i, d), Owed(items, vs, 1))
  BY JobFacts DEF Here, InPlace
<1>2. /\ i + 1 \in 1 .. Len(items) /\ items[i + 1] = ItemAt(f, p)
      /\ Parsed(f, p + TakenBy(f, p), i + 1) /\ i \in 0 .. Len(items)
  BY HereTyped
<1>3. c \in STRING /\ items[i + 1] = Literal(c)
  BY <1>1, <1>2, LiteralHere
<1>4. ~ items[i + 1].field /\ items[i + 1].ch = c /\ c \in Unit
  BY <1>3, LiteralMade DEF Unit
<1>5. /\ Due(items, vs, i + 1, d)
      /\ Rest(items, vs, i, d) = Pre(c, Rest(items, vs, i + 1, d))
  <2> HIDE DEF items
  <2>1. /\ Printable(items, vs) /\ Due(items, vs, i, d)
        /\ i + 1 \in 1 .. Len(items) /\ ~ items[i + 1].field
    BY <1>1, <1>2, <1>4
  <2>2. /\ Due(items, vs, i + 1, d)
        /\ Rest(items, vs, i, d) = Pre(items[i + 1].ch, Rest(items, vs, i + 1, d))
    BY <2>1, RestLiteral
  <2> QED
    BY <1>4, <2>2
<1>6. Rest(items, vs, i + 1, d) \in Seq(Unit)
  BY <1>1, <1>5, RestTyped
<1>7. Made(said, Append(t, c), Rest(items, vs, i + 1, d), Owed(items, vs, 1))
  BY <1>1, <1>4, <1>5, <1>6, MadeByChar
<1>8. /\ NextField(items, i + 1) = NextField(items, i + 1 + 1)
      /\ Len(Lead(items, i + 1)) = 1 + Len(Lead(items, i + 1 + 1))
  BY <1>1, <1>2, <1>4, LeadGoesOn
<1>9. Len(Append(t, c)) = Len(t) + 1 /\ Len(t) \in Nat
  BY <1>4, AppendProperties, LenProperties
<1>10. Lead(items, i + 1 + 1) \in Seq(Unit)
  BY <1>1, <1>2, LeadFacts
<1>11. Len(Lead(items, i + 1 + 1)) \in Nat
  BY <1>10, LenProperties
<1>12. Fits(f, i, t) => Fits(f, i + 1, Append(t, c))
  BY <1>8, <1>9, <1>11, UsingAssumption DEF Fits
<1>13. Comes(f, i) => Comes(f, i + 1)
  BY <1>8 DEF Comes
<1> QED
  BY <1>2, <1>5, <1>7, <1>12, <1>13 DEF Here

(* A field follows, or the end, or the buffer is full. *)
LEMMA HereStops ==
  ASSUME NEW f, NEW vs, Job(f, vs), NEW said \in Seq(Unit), NEW p, NEW i, NEW d,
         NEW t \in Seq(Unit), Here(f, vs, said, p, i, d, t), Fits(f, i, t),
         p = Len(f) + 1 \/ Len(t) >= Room \/ (p \in 1 .. Len(f) /\ f[p] \in Stops)
  PROVE  Here(f, vs, Two(said, t), p, i, d, << >>) /\ AtStop(f, i)
<1> DEFINE items == Items(f)
<1>1. /\ IsItems(items) /\ Len(items) \in Nat
      /\ Parsed(f, p, i) /\ Due(items, vs, i, d)
      /\ Made(said, t, Rest(items, vs, i, d), Owed(items, vs, 1))
  BY JobFacts DEF Here
<1>2. /\ i \in 0 .. Len(items) /\ Rest(items, vs, i, d) \in Seq(Unit)
      /\ p = Len(f) + 1 <=> i = Len(items)
      /\ p \in 1 .. Len(f) => items[i + 1] = ItemAt(f, p)
  BY HereTyped
<1>3. Made(Two(said, t), << >>, Rest(items, vs, i, d), Owed(items, vs, 1))
  BY <1>1, <1>2, MadeBySaying
<1>4. ASSUME i < Len(items)  PROVE items[i + 1].field
  <2>1. i + 1 \in 1 .. Len(items) + 1
    BY <1>1, <1>2, <1>4
  <2>2. CASE Len(t) >= Room
    <3>1. /\ Lead(items, i + 1) \in Seq(Unit)
          /\ Len(Lead(items, i + 1)) = NextField(items, i + 1) - (i + 1)
          /\ NextField(items, i + 1) \in i + 1 .. Len(items) + 1
      BY <1>1, <2>1, LeadFacts
    <3>2. Len(t) \in Nat /\ Len(t) + Len(Lead(items, i + 1)) <= Room
      BY LenProperties DEF Fits
    <3>3. NextField(items, i + 1) = i + 1
      BY <1>1, <1>2, <2>2, <3>1, <3>2, UsingAssumption
    <3>4. NextAt(items, i + 1, NextField(items, i + 1))
      BY <1>1, <2>1, NextFacts
    <3> QED
      BY <1>1, <1>2, <1>4, <3>3, <3>4 DEF NextAt
  <2>3. CASE p \in 1 .. Len(f) /\ f[p] \in Stops
    <3>1. InPlace(f, p)
      BY <2>3, JobFacts DEF InPlace
    <3> QED
      BY <1>2, <2>3, <3>1, ItemTypes
  <2> QED
    BY <1>2, <1>4, <2>2, <2>3
<1> QED
  BY <1>1, <1>3, <1>4 DEF Here, AtStop

(* Past the field at p. *)
LEMMA HereField ==
  ASSUME NEW f, NEW vs, Job(f, vs), NEW said \in Seq(Unit), NEW p, NEW i, NEW d,
         Here(f, vs, said, p, i, d, << >>), i < Len(Items(f)), AtStop(f, i),
         d < Len(vs), NEW w \in Nat, ItemAt(f, p) = Field(w),
         NEW u \in Seq(Unit), u = Shown(vs[d + 1], w)
  PROVE  /\ Here(f, vs, Two(said, u), p + TakenBy(f, p), i + 1, d + 1, << >>)
         /\ Fits(f, i + 1, << >>) /\ FieldOf(Items(f), vs, d + 1) = i + 1
<1> DEFINE items == Items(f)
           none == << >>
<1>1. /\ IsItems(items) /\ Printable(items, vs) /\ Len(items) \in Nat /\ Len(vs) \in Nat
      /\ Parsed(f, p, i) /\ Due(items, vs, i, d)
      /\ Made(said, none, Rest(items, vs, i, d), Owed(items, vs, 1))
  BY JobFacts DEF Here
<1>2. /\ i \in 0 .. Len(items) /\ d \in 0 .. Len(vs) /\ p \in 1 .. Len(f)
      /\ i + 1 \in 1 .. Len(items) /\ items[i + 1] = ItemAt(f, p)
      /\ Parsed(f, p + TakenBy(f, p), i + 1)
  <2>1. /\ i \in 0 .. Len(items) /\ d \in 0 .. Len(vs) /\ p \in 1 .. Len(f) + 1
        /\ p # Len(f) + 1 /\ Len(f) \in Nat
    BY HereTyped, JobFacts
  <2>2. p \in 1 .. Len(f)
    BY <2>1
  <2>3. p \in 1 .. Len(f) => /\ i + 1 \in 1 .. Len(items)
                             /\ items[i + 1] = ItemAt(f, p)
                             /\ Parsed(f, p + TakenBy(f, p), i + 1)
    BY HereTyped
  <2> QED
    BY <2>1, <2>2, <2>3, Zenon
<1>3. items[i + 1].field /\ items[i + 1].width = w
  BY <1>2, FieldMade DEF AtStop
<1>4. d # Len(vs)
  BY <1>1, <1>2
<1>5. /\ i + 1 = FieldOf(items, vs, d + 1)
      /\ Due(items, vs, i + 1, d + 1)
      /\ Rest(items, vs, i, d)
           = Two(InField(items, vs, d + 1), Rest(items, vs, i + 1, d + 1))
  <2> HIDE DEF items
  <2>1. /\ Printable(items, vs) /\ Due(items, vs, i, d) /\ d # Len(vs)
        /\ i + 1 \in 1 .. Len(items) /\ items[i + 1].field
    BY <1>1, <1>2, <1>3, <1>4
  <2> QED
    BY <2>1, RestField
<1>6. InField(items, vs, d + 1) = Shown(vs[d + 1], w)
  BY <1>3, <1>5 DEF InField
<1>7. Shown(vs[d + 1], w) \in Seq(Unit)
  BY <1>1, <1>2, <1>4, <1>6, InFieldTyped
<1>8. Rest(items, vs, i + 1, d + 1) \in Seq(Unit)
  BY <1>1, <1>5, RestTyped
<1>9. Made(Two(said, u), none, Rest(items, vs, i + 1, d + 1), Owed(items, vs, 1))
  BY <1>1, <1>5, <1>6, <1>7, <1>8, MadeByField
<1>10. Fits(f, i + 1, none)
  <2>1. Len(none) = 0
    BY EmptySeq
  <2>2. i + 1 + 1 \in 1 .. Len(items) + 1
    BY <1>1, <1>2
  <2>3. Len(Lead(items, i + 1 + 1)) <= Room
    <3>1. CASE i + 1 + 1 <= Len(items)
      <4>1. i + 1 + 1 \in 1 .. Len(items)
        BY <1>1, <2>2, <3>1
      <4>2. \A k \in 1 .. Len(items) : Len(Lead(items, k)) <= Room
        BY JobFacts
      <4> HIDE DEF items
      <4> QED
        BY <4>1, <4>2
    <3>2. CASE ~ i + 1 + 1 <= Len(items)
      <4>1. Lead(items, i + 1 + 1) = << >>
        BY <1>1, <2>2, <3>2, LeadStops
      <4> QED
        BY <2>1, <4>1, UsingAssumption
    <3> QED
      BY <3>1, <3>2
  <2>4. Lead(items, i + 1 + 1) \in Seq(Unit)
    BY <1>1, <2>2, LeadFacts
  <2>5. Len(Lead(items, i + 1 + 1)) \in Nat
    BY <2>4, LenProperties
  <2> HIDE DEF none
  <2> QED
    BY <2>1, <2>3, <2>5, UsingAssumption DEF Fits
<1> QED
  BY <1>2, <1>5, <1>9, <1>10 DEF Here

-----------------------------------------------------------------------------
(* What holds at the places of a statement that has the context and the    *)
(* format for itself, and how its steps lead from one to the next.         *)

(* Its values are printed in fields that are behind. *)
Past(f, vs, i, d) == FieldOf(Items(f), vs, d) <= i

AtArgument(f, vs, d, said, p) ==
  \E i : /\ Here(f, vs, said, p, i, d, << >>)
         /\ IF d = 0 THEN i = 0 /\ said = << >> ELSE AtStop(f, i)

BeforeField(f, vs, d, said, p, t) ==
  \E i : Here(f, vs, said, p, i, d, t) /\ Fits(f, i, t) /\ Comes(f, i)

(* The field at p, or of which width w is counted up to there. *)
Opened(p, w) == IF w > 0 THEN p - w ELSE p

InsideField(f, vs, d, said, p, w) ==
  /\ p \in Nat /\ w \in Int /\ (w = -1 \/ w > 0)
  /\ w > 0 => /\ f[p - w] = Backslash
              /\ \A k \in p - w + 1 .. p - 1 : f[k] = Space
  /\ \E i : /\ Here(f, vs, said, Opened(p, w), i, d, << >>)
            /\ i < Len(Items(f)) /\ AtStop(f, i)

BehindField(f, vs, d, said, p, t) ==
  \E i : /\ Here(f, vs, said, p, i, d + 1, t)
         /\ Fits(f, i, t) /\ Past(f, vs, i, d + 1)

AtFinish(f, vs, d, said, p) ==
  \E i : /\ Here(f, vs, said, p, i, d + 1, << >>)
         /\ AtStop(f, i) /\ Past(f, vs, i, d + 1)

BeforeEnd(f, vs, said, p, t) ==
  \E i : Here(f, vs, said, p, i, Len(vs), t) /\ Fits(f, i, t)

AtEnd(f, vs, said) == said = Owed(Items(f), vs, 1)

(* At a stop behind the last value everything has been printed. *)
LEMMA WholeMade ==
  ASSUME NEW f, NEW vs, Job(f, vs), NEW said \in Seq(Unit), NEW p, NEW i,
         Here(f, vs, said, p, i, Len(vs), << >>), AtStop(f, i)
  PROVE  AtEnd(f, vs, said)
<1> DEFINE items == Items(f)
           w     == Owed(items, vs, 1)
<1>1. /\ Due(items, vs, i, Len(vs)) /\ Made(said, << >>, Rest(items, vs, i, Len(vs)), w)
      /\ i < Len(items) => items[i + 1].field
  BY DEF Here, AtStop
<1>2. Printable(items, vs)
  BY JobFacts
<1> HIDE DEF items, w
<1>3. Rest(items, vs, i, Len(vs)) = << >>
  BY <1>1, <1>2, RestOver
<1>4. Made(said, << >>, << >>, w)
  BY <1>1, <1>3
<1>5. said = w
  BY <1>4, MadeWhole
<1> QED
  BY <1>5 DEF AtEnd, items, w

(* A literal fits, whichever it is. *)
LEMMA FitsAlways ==
  ASSUME NEW f, NEW vs, Job(f, vs), NEW i \in 0 .. Len(Items(f)), NEW e, Len(e) = 0
  PROVE  Fits(f, i, e)
<1> DEFINE items == Items(f)
<1>1. Len(items) \in Nat /\ i + 1 \in 1 .. Len(items) + 1 /\ IsItems(items)
  BY JobFacts
<1>2. Len(Lead(items, i + 1)) <= Room
  <2>1. CASE i + 1 <= Len(items)
    <3>1. i + 1 \in 1 .. Len(items)
      BY <1>1, <2>1
    <3>2. \A k \in 1 .. Len(items) : Len(Lead(items, k)) <= Room
      BY JobFacts
    <3> HIDE DEF items
    <3> QED
      BY <3>1, <3>2
  <2>2. CASE ~ i + 1 <= Len(items)
    <3>1. Lead(items, i + 1) = << >> /\ Len(<< >>) = 0
      BY <1>1, <2>2, LeadStops, EmptySeq
    <3> QED
      BY <3>1, UsingAssumption
  <2> QED
    BY <2>1, <2>2
<1>3. Lead(items, i + 1) \in Seq(Unit)
  BY <1>1, LeadFacts
<1>4. Len(Lead(items, i + 1)) \in Nat
  BY <1>3, LenProperties
<1> QED
  BY <1>2, <1>4, UsingAssumption DEF Fits

(* A call goes on, or begins the format again. *)
LEMMA CallStage ==
  ASSUME NEW f, NEW vs, Job(f, vs), NEW d, d < Len(vs), NEW said, NEW p,
         AtArgument(f, vs, d, said, p), NEW e, e = << >>
  PROVE  BeforeField(f, vs, d, said, IF p = Len(f) + 1 THEN 1 ELSE p, e)
<1> DEFINE items == Items(f)
<1>1. PICK i : Here(f, vs, said, p, i, d, e) /\ (i = 0 \/ AtStop(f, i))
  BY Zenon DEF AtArgument
<1>2. /\ p \in 1 .. Len(f) + 1 /\ i \in 0 .. Len(items) /\ d \in 0 .. Len(vs)
      /\ p = Len(f) + 1 <=> i = Len(items)
  BY <1>1, HereTyped
<1>3. /\ IsItems(items) /\ FieldsIn(items) # {} /\ Len(items) \in Nat \ {0}
      /\ Len(f) \in Nat /\ f \in Seq(STRING) /\ Printable(items, vs) /\ Len(vs) \in Nat
  BY JobFacts
<1>4. Len(e) = 0
  BY EmptySeq
<1>5. NextField(items, 1) <= Len(items)
  <2>1. 0 \in 0 .. Len(items)
    BY <1>3
  <2> QED
    BY <1>3, <2>1, FollowingFacts
<1>6. 0 + 1 = 1 /\ 0 \in 0 .. Len(items)
  BY <1>3
<1>7. Comes(f, 0) /\ Fits(f, 0, e)
  BY <1>4, <1>5, <1>6, FitsAlways DEF Comes
<1>8. CASE p = Len(f) + 1
  <2>1. /\ Parsed(f, p, i) /\ Due(items, vs, i, d) /\ i = Len(items)
        /\ Made(said, e, Rest(items, vs, i, d), Owed(items, vs, 1))
    BY <1>1, <1>2, <1>8 DEF Here
  <2>2. d # Len(vs)
    BY <1>2, <1>3
  <2> HIDE DEF items
  <2>3. /\ Due(items, vs, 0, d)
        /\ Rest(items, vs, i, d) = Rest(items, vs, 0, d)
    BY <1>3, <2>1, <2>2, RestAgain
  <2>4. Parsed(f, 1, 0)
    BY <1>3, ParsedFirst
  <2>5. Made(said, e, Rest(items, vs, 0, d), Owed(items, vs, 1))
    BY <2>1, <2>3
  <2>6. Here(f, vs, said, 1, 0, d, e)
    BY <2>3, <2>4, <2>5 DEF Here, items
  <2> QED
    BY <1>7, <1>8, <2>6 DEF BeforeField
<1>9. CASE p # Len(f) + 1
  <2>1. i < Len(items) /\ i + 1 \in 1 .. Len(items)
    BY <1>2, <1>3, <1>9
  <2>2. Fits(f, i, e)
    BY <1>2, <1>4, FitsAlways
  <2>3. Comes(f, i)
    <3>1. CASE i = 0
      BY <1>7, <3>1
    <3>2. CASE i # 0
      <4>1. items[i + 1].field
        BY <1>1, <2>1, <3>2 DEF AtStop
      <4>2. NextField(items, i + 1) = i + 1
        <5> HIDE DEF items
        <5>1. i + 1 \in 1 .. Len(items) + 1
          BY <1>3, <2>1
        <5> QED
          BY <1>3, <4>1, <5>1, LeadStops
      <4> QED
        BY <1>2, <1>3, <2>1, <4>2 DEF Comes
    <3> QED
      BY <3>1, <3>2
  <2> QED
    BY <1>1, <1>9, <2>2, <2>3 DEF BeforeField
<1> QED
  BY <1>8, <1>9

(* A literal character is collected, ... *)
LEMMA TextStages ==
  ASSUME NEW f, NEW vs, Job(f, vs), NEW said \in Seq(Unit), NEW p \in 1 .. Len(f),
         NEW d, NEW t \in Seq(Unit), f[p] \notin Stops,
         NEW c, c = f[IF Escaped(f, p) THEN p + 1 ELSE p]
  PROVE  /\ BeforeField(f, vs, d, said, p, t) =>
              BeforeField(f, vs, d, said, p + TakenBy(f, p), Append(t, c))
         /\ BehindField(f, vs, d, said, p, t) =>
              BehindField(f, vs, d, said, p + TakenBy(f, p), Append(t, c))
         /\ BeforeEnd(f, vs, said, p, t) =>
              BeforeEnd(f, vs, said, p + TakenBy(f, p), Append(t, c))
<1> DEFINE q == p + TakenBy(f, p)
           u == Append(t, c)
<1>1. \A i, n : Here(f, vs, said, p, i, n, t) =>
        /\ Here(f, vs, said, q, i + 1, n, u)
        /\ Fits(f, i, t) => Fits(f, i + 1, u)
        /\ Comes(f, i) => Comes(f, i + 1)
  BY HereOn
<1>2. \A i, n : Here(f, vs, said, p, i, n, t) /\ Past(f, vs, i, n) => Past(f, vs, i + 1, n)
  <2> SUFFICES ASSUME NEW i, NEW n, Here(f, vs, said, p, i, n, t), Past(f, vs, i, n)
               PROVE  Past(f, vs, i + 1, n)
    OBVIOUS
  <2>1. i \in 0 .. Len(Items(f)) /\ n \in 0 .. Len(vs)
    BY HereTyped
  <2>2. FieldOf(Items(f), vs, n) \in 0 .. Len(Items(f))
    BY <2>1, JobFacts, FieldOfFacts
  <2> QED
    BY <2>1, <2>2, JobFacts DEF Past
<1> HIDE DEF q, u
<1>3. ASSUME BeforeField(f, vs, d, said, p, t)  PROVE BeforeField(f, vs, d, said, q, u)
  <2>1. PICK i : Here(f, vs, said, p, i, d, t) /\ Fits(f, i, t) /\ Comes(f, i)
    BY <1>3 DEF BeforeField
  <2> QED
    BY <1>1, <2>1 DEF BeforeField
<1>4. ASSUME BehindField(f, vs, d, said, p, t)  PROVE BehindField(f, vs, d, said, q, u)
  <2>1. PICK i : /\ Here(f, vs, said, p, i, d + 1, t)
                 /\ Fits(f, i, t) /\ Past(f, vs, i, d + 1)
    BY <1>4 DEF BehindField
  <2> QED
    BY <1>1, <1>2, <2>1 DEF BehindField
<1>5. ASSUME BeforeEnd(f, vs, said, p, t)  PROVE BeforeEnd(f, vs, said, q, u)
  <2>1. PICK i : Here(f, vs, said, p, i, Len(vs), t) /\ Fits(f, i, t)
    BY <1>5 DEF BeforeEnd
  <2> QED
    BY <1>1, <2>1 DEF BeforeEnd
<1> QED
  BY <1>3, <1>4, <1>5 DEF q, u

(* ... and what is collected is printed in front of a field or at the end. *)
LEMMA TextEndStages ==
  ASSUME NEW f, NEW vs, Job(f, vs), NEW said \in Seq(Unit), NEW p, NEW d,
         NEW t \in Seq(Unit),
         p = Len(f) + 1 \/ Len(t) >= Room \/ (p \in 1 .. Len(f) /\ f[p] \in Stops)
  PROVE  /\ BeforeField(f, vs, d, said, p, t) =>
              InsideField(f, vs, d, Two(said, t), p, -1)
         /\ BehindField(f, vs, d, said, p, t) => AtFinish(f, vs, d, Two(said, t), p)
         /\ BeforeEnd(f, vs, said, p, t) => AtEnd(f, vs, Two(said, t))
<1> DEFINE s == Two(said, t)
           items == Items(f)
<1>1. \A i, n : Here(f, vs, said, p, i, n, t) /\ Fits(f, i, t) =>
                  Here(f, vs, s, p, i, n, << >>) /\ AtStop(f, i)
  BY HereStops
<1>2. ASSUME BeforeField(f, vs, d, said, p, t)  PROVE InsideField(f, vs, d, s, p, -1)
  <2>1. PICK i : Here(f, vs, said, p, i, d, t) /\ Fits(f, i, t) /\ Comes(f, i)
    BY <1>2 DEF BeforeField
  <2>2. i \in 0 .. Len(items) /\ IsItems(items) /\ Len(items) \in Nat
    BY <2>1, HereTyped, JobFacts
  <2>3. i < Len(items)
    <3>1. NextField(items, i + 1) \in i + 1 .. Len(items) + 1
      <4> HIDE DEF items
      <4>1. i + 1 \in 1 .. Len(items) + 1
        BY <2>2
      <4> QED
        BY <2>2, <4>1, LeadFacts
    <3>2. NextField(items, i + 1) <= Len(items)
      BY <2>1 DEF Comes
    <3> QED
      BY <2>2, <3>1, <3>2
  <2>4. Opened(p, -1) = p /\ p \in Nat
    <3>1. p \in 1 .. Len(f) + 1 /\ Len(f) \in Nat
      BY <2>1, HereTyped, JobFacts
    <3> QED
      BY <3>1 DEF Opened
  <2> HIDE DEF s
  <2>5. Here(f, vs, s, Opened(p, -1), i, d, << >>) /\ AtStop(f, i)
    BY <1>1, <2>1, <2>4
  <2> QED
    BY <2>3, <2>4, <2>5 DEF InsideField
<1>3. ASSUME BehindField(f, vs, d, said, p, t)  PROVE AtFinish(f, vs, d, s, p)
  <2>1. PICK i : /\ Here(f, vs, said, p, i, d + 1, t)
                 /\ Fits(f, i, t) /\ Past(f, vs, i, d + 1)
    BY <1>3 DEF BehindField
  <2> HIDE DEF s
  <2> QED
    BY <1>1, <2>1 DEF AtFinish
<1>4. ASSUME BeforeEnd(f, vs, said, p, t)  PROVE AtEnd(f, vs, s)
  <2>1. PICK i : Here(f, vs, said, p, i, Len(vs), t) /\ Fits(f, i, t)
    BY <1>4 DEF BeforeEnd
  <2>2. Here(f, vs, s, p, i, Len(vs), << >>) /\ AtStop(f, i)
    BY <1>1, <2>1
  <2>3. s \in Seq(Unit)
    BY TwoPieces
  <2> QED
    BY <2>2, <2>3, WholeMade
<1> QED
  BY <1>2, <1>3, <1>4

(* Where a field is looked for there is one: it begins at o.               *)
InsideAt(f, vs, d, said, w, o, i) ==
  /\ Here(f, vs, said, o, i, d, << >>) /\ i < Len(Items(f)) /\ AtStop(f, i)
  /\ o \in 1 .. Len(f) /\ f[o] \in Stops /\ InPlace(f, o)
  /\ ItemAt(f, o).field /\ ItemAt(f, o).width >= 0
  /\ w \in Int /\ (w = -1 \/ w > 0)

LEMMA InsideFacts ==
  ASSUME NEW f, NEW vs, Job(f, vs), NEW d, NEW said, NEW p, NEW w,
         InsideField(f, vs, d, said, p, w)
  PROVE  \E i : InsideAt(f, vs, d, said, w, Opened(p, w), i)
<1> DEFINE o == Opened(p, w)
<1>1. PICK i : Here(f, vs, said, o, i, d, << >>) /\ i < Len(Items(f)) /\ AtStop(f, i)
  BY DEF InsideField
<1>2. w \in Int /\ (w = -1 \/ w > 0)
  BY DEF InsideField
<1>3. Len(f) \in Nat /\ f \in Seq(STRING) /\ Len(Items(f)) \in Nat \ {0}
  BY JobFacts
<1> HIDE DEF o
<1>4. /\ o \in 1 .. Len(f) + 1 /\ i \in 0 .. Len(Items(f))
      /\ o = Len(f) + 1 <=> i = Len(Items(f))
      /\ o \in 1 .. Len(f) =>
           i + 1 \in 1 .. Len(Items(f)) /\ Items(f)[i + 1] = ItemAt(f, o)
  BY <1>1, HereTyped
<1>5. o \in 1 .. Len(f)
  BY <1>1, <1>3, <1>4
<1>6. Items(f)[i + 1].field /\ ItemAt(f, o).field /\ i + 1 \in 1 .. Len(Items(f))
  BY <1>1, <1>4, <1>5 DEF AtStop
<1>7. InPlace(f, o)
  BY <1>3, <1>5 DEF InPlace
<1>8. f[o] \in Stops
  BY <1>6, <1>7, ItemTypes
<1>9. ItemAt(f, o).width >= 0
  <2>1. i + 1 \in FieldsIn(Items(f))
    BY <1>6, JobFacts DEF FieldsIn
  <2>2. Items(f)[i + 1].width >= 0
    BY <2>1, JobFacts
  <2> QED
    BY <1>4, <1>5, <2>2
<1> QED
  BY <1>1, <1>2, <1>5, <1>6, <1>7, <1>8, <1>9 DEF o, InsideAt

(* At a backslash that is not counted yet, and inside of a field, the      *)
(* field can be gone on with.  Nothing there is no field for a text.       *)
LEMMA FieldGoesOn ==
  ASSUME NEW f, NEW vs, Job(f, vs), NEW d, NEW said, NEW p, NEW w,
         InsideField(f, vs, d, said, p, w)
  PROVE  /\ p \in 1 .. Len(f)
         /\ w > 0 => /\ f[p] \in {Space, Backslash}
                     /\ f[p] = Backslash => ClosedAt(f, p - w, p)
         /\ ~ w > 0 => /\ w = -1 /\ f[p] \in {"!", "&", Backslash}
                       /\ f[p] = Backslash => /\ p + 1 \in 1 .. Len(f)
                                              /\ f[p + 1] \in {Space, Backslash}
<1> DEFINE o == Opened(p, w)
<1>1. PICK i : InsideAt(f, vs, d, said, w, o, i)
  BY InsideFacts
<1>2. /\ o \in 1 .. Len(f) /\ InPlace(f, o) /\ f[o] \in Stops
      /\ ItemAt(f, o).width >= 0 /\ w \in Int /\ (w = -1 \/ w > 0)
  BY <1>1 DEF InsideAt
<1>3. p \in Nat /\ Len(f) \in Nat
  BY JobFacts DEF InsideField
<1>4. o = IF w > 0 THEN p - w ELSE p
  BY DEF Opened
<1> HIDE DEF o
<1>5. ASSUME f[o] = Backslash  PROVE \E q : ClosedAt(f, o, q)
  <2>1. SUFFICES ASSUME ~ \E q : ClosedAt(f, o, q)  PROVE FALSE
    OBVIOUS
  <2>2. ItemAt(f, o) = Field(-1)
    BY <1>2, <1>5, <2>1, OpenHere
  <2>3. Field(-1).width = -1
    BY FieldMade
  <2> QED
    BY <1>2, <2>2, <2>3
<1>6. CASE w > 0
  <2>1. /\ o = p - w /\ f[o] = Backslash
        /\ \A k \in o + 1 .. p - 1 : f[k] = Space
    BY <1>4, <1>6 DEF InsideField
  <2>2. PICK q : ClosedAt(f, o, q)
    BY <1>5, <2>1
  <2>3. /\ q \in o + 1 .. Len(f) /\ f[q] = Backslash
        /\ \A k \in o + 1 .. q - 1 : f[k] = Space
    BY <2>2 DEF ClosedAt
  <2>4. q >= p
    BY <1>2, <1>3, <2>1, <2>3, Distinct
  <2>5. p \in 1 .. Len(f) /\ p \in o + 1 .. Len(f)
    BY <1>2, <1>3, <1>6, <2>1, <2>3, <2>4
  <2>6. f[p] \in {Space, Backslash}
    <3>1. CASE p = q
      BY <2>3, <3>1
    <3>2. CASE p # q
      <4>1. p \in o + 1 .. q - 1
        BY <1>2, <1>3, <2>3, <2>4, <2>5, <3>2
      <4> QED
        BY <2>3, <4>1
    <3> QED
      BY <3>1, <3>2
  <2>7. f[p] = Backslash => ClosedAt(f, p - w, p)
    BY <2>1, <2>5 DEF ClosedAt
  <2> QED
    BY <1>6, <2>5, <2>6, <2>7
<1>7. CASE ~ w > 0
  <2>1. o = p /\ w = -1
    BY <1>2, <1>4, <1>7
  <2>2. f[p] \in {"!", "&", Backslash}
    <3>1. f[p] # "#"
      <4>1. f[p] = "#" => ItemAt(f, o) = Field(-1)
        BY <1>2, <2>1, NumberHere
      <4>2. Field(-1).width = -1
        BY FieldMade
      <4> QED
        BY <1>2, <4>1, <4>2
    <3> QED
      BY <1>2, <2>1, <3>1 DEF Stops
  <2>3. ASSUME f[p] = Backslash
        PROVE  p + 1 \in 1 .. Len(f) /\ f[p + 1] \in {Space, Backslash}
    <3>1. PICK q : ClosedAt(f, p, q)
      BY <1>5, <2>1, <2>3
    <3>2. /\ q \in p + 1 .. Len(f) /\ f[q] = Backslash
          /\ \A k \in p + 1 .. q - 1 : f[k] = Space
      BY <3>1 DEF ClosedAt
    <3>3. p + 1 \in 1 .. Len(f)
      BY <1>3, <3>2
    <3>4. CASE q = p + 1
      BY <3>2, <3>3, <3>4
    <3>5. CASE q # p + 1
      <4>1. p + 1 \in p + 1 .. q - 1
        BY <1>3, <3>2, <3>5
      <4> QED
        BY <3>2, <3>3, <4>1
    <3> QED
      BY <3>4, <3>5
  <2> QED
    BY <1>2, <1>7, <2>1, <2>2, <2>3
<1> QED
  BY <1>6, <1>7

(* A field that is done. *)
LEMMA FieldDone ==
  ASSUME NEW f, NEW vs, Job(f, vs), NEW d, d < Len(vs), NEW said \in Seq(Unit),
         NEW p, NEW w, InsideField(f, vs, d, said, p, w),
         NEW n \in Nat, ItemAt(f, Opened(p, w)) = Field(n),
         NEW u \in Seq(Unit), u = Shown(vs[d + 1], n),
         NEW q, q = Opened(p, w) + TakenBy(f, Opened(p, w)), NEW e, e = << >>
  PROVE  BehindField(f, vs, d, Two(said, u), q, e)
<1> DEFINE o == Opened(p, w)
<1>1. PICK i : InsideAt(f, vs, d, said, w, o, i)
  BY InsideFacts
<1>2. Here(f, vs, said, o, i, d, << >>) /\ i < Len(Items(f)) /\ AtStop(f, i)
  BY <1>1 DEF InsideAt
<1> HIDE DEF o
<1>3. /\ Here(f, vs, Two(said, u), q, i + 1, d + 1, << >>)
      /\ Fits(f, i + 1, << >>) /\ FieldOf(Items(f), vs, d + 1) = i + 1
  BY <1>2, HereField DEF o
<1>4. i \in Int
  BY <1>2, HereTyped
<1>5. Past(f, vs, i + 1, d + 1)
  BY <1>3, <1>4 DEF Past
<1> QED
  BY <1>3, <1>5, Zenon DEF BehindField

LEMMA FirstStage ==
  ASSUME NEW f, NEW vs, Job(f, vs), NEW d \in Nat, d < Len(vs), NEW said \in Seq(Unit),
         NEW p, NEW w, InsideField(f, vs, d, said, p, w), f[p] = "!",
         NEW u, u = IF vs[d + 1] = << >> THEN << Space >> ELSE << vs[d + 1][1] >>,
         NEW e, e = << >>
  PROVE  u \in Seq(Unit) /\ BehindField(f, vs, d, Two(said, u), p + 1, e)
<1>1. p \in 1 .. Len(f) /\ ~ w > 0
  BY FieldGoesOn, Distinct
<1>2. Opened(p, w) = p /\ InPlace(f, p)
  BY <1>1, JobFacts DEF Opened, InPlace
<1>3. ItemAt(f, p) = Field(1) /\ TakenBy(f, p) = 1
  BY <1>2, FirstHere
<1>4. vs[d + 1] \in Seq(STRING) /\ vs[d + 1] \in Seq(STRING)
  BY JobFacts DEF Printable
<1>5. u = Shown(vs[d + 1], 1)
  BY <1>4, FirstIsShown, Zenon
<1>6. u \in Seq(Unit) /\ u = Shown(vs[d + 1], 1)
  BY <1>4, <1>5, ShownTyped
<1>7. 1 \in Nat
  OBVIOUS
<1> QED
  BY <1>2, <1>3, <1>6, <1>7, FieldDone

LEMMA WholeStage ==
  ASSUME NEW f, NEW vs, Job(f, vs), NEW d \in Nat, d < Len(vs), NEW said \in Seq(Unit),
         NEW p, NEW w, InsideField(f, vs, d, said, p, w), f[p] = "&",
         NEW u, u = vs[d + 1], NEW e, e = << >>
  PROVE  u \in Seq(Unit) /\ BehindField(f, vs, d, Two(said, u), p + 1, e)
<1>1. p \in 1 .. Len(f) /\ ~ w > 0
  BY FieldGoesOn, Distinct
<1>2. Opened(p, w) = p /\ InPlace(f, p)
  BY <1>1, JobFacts DEF Opened, InPlace
<1>3. ItemAt(f, p) = Field(0) /\ TakenBy(f, p) = 1
  BY <1>2, WholeHere
<1>4. u \in Seq(STRING)
  BY JobFacts DEF Printable
<1>5. u = Shown(vs[d + 1], 0) /\ 0 \in Nat
  BY <1>4, FirstIsShown
<1>6. u \in Seq(Unit) /\ u = Shown(vs[d + 1], 0)
  BY <1>4, <1>5, ShownTyped
<1> QED
  BY <1>2, <1>3, <1>5, <1>6, FieldDone

LEMMA OpenStage ==
  ASSUME NEW f, NEW vs, Job(f, vs), NEW d, NEW said, NEW p,
         InsideField(f, vs, d, said, p, -1), f[p] = Backslash
  PROVE  InsideField(f, vs, d, said, p + 1, 1)
<1>1. PICK i : /\ Here(f, vs, said, Opened(p, -1), i, d, << >>)
               /\ i < Len(Items(f)) /\ AtStop(f, i)
  BY DEF InsideField
<1>2. p \in Nat
  BY DEF InsideField
<1>3. Opened(p + 1, 1) = p /\ Opened(p, -1) = p
  BY <1>2 DEF Opened
<1>4. /\ p + 1 \in Nat /\ p + 1 - 1 = p
      /\ \A k \in p + 1 - 1 + 1 .. p + 1 - 1 : f[k] = Space
  BY <1>2
<1>5. Here(f, vs, said, Opened(p + 1, 1), i, d, << >>)
  BY <1>1, <1>3
<1> QED
  BY <1>1, <1>4, <1>5 DEF InsideField

LEMMA BlankStage ==
  ASSUME NEW f, NEW vs, Job(f, vs), NEW d, NEW said, NEW p, NEW w, w > 0,
         InsideField(f, vs, d, said, p, w), f[p] = Space
  PROVE  InsideField(f, vs, d, said, p + 1, w + 1)
<1>1. PICK i : /\ Here(f, vs, said, Opened(p, w), i, d, << >>)
               /\ i < Len(Items(f)) /\ AtStop(f, i)
  BY DEF InsideField
<1>2. p \in Nat /\ w \in Int /\ f[p - w] = Backslash
      /\ \A k \in p - w + 1 .. p - 1 : f[k] = Space
  BY DEF InsideField
<1>3. Opened(p + 1, w + 1) = Opened(p, w)
  BY <1>2 DEF Opened
<1>4. /\ p + 1 \in Nat /\ w + 1 \in Int /\ w + 1 > 0
      /\ p + 1 - (w + 1) = p - w
  BY <1>2
<1>5. \A k \in p + 1 - (w + 1) + 1 .. p + 1 - 1 : f[k] = Space
  BY <1>2
<1>6. Here(f, vs, said, Opened(p + 1, w + 1), i, d, << >>)
  BY <1>1, <1>3
<1> QED
  BY <1>1, <1>2, <1>4, <1>5, <1>6 DEF InsideField

LEMMA CloseStage ==
  ASSUME NEW f, NEW vs, Job(f, vs), NEW d \in Nat, d < Len(vs), NEW said \in Seq(Unit),
         NEW p, NEW w, w > 0, InsideField(f, vs, d, said, p, w), f[p] = Backslash,
         NEW u, u = Filled(vs[d + 1], IF w + 1 > Room THEN Room ELSE w + 1),
         NEW e, e = << >>
  PROVE  u \in Seq(Unit) /\ BehindField(f, vs, d, Two(said, u), p + 1, e)
<1>1. p \in 1 .. Len(f) /\ ClosedAt(f, p - w, p) /\ w \in Int /\ p \in Nat
  BY FieldGoesOn DEF InsideField
<1>2. Opened(p, w) = p - w /\ f[p - w] = Backslash
  BY DEF Opened, InsideField
<1>3. PICK i : InsideAt(f, vs, d, said, w, p - w, i)
  BY <1>2, InsideFacts
<1>4. InPlace(f, p - w)
  BY <1>3 DEF InsideAt
<1>5. /\ ItemAt(f, p - w) = Field(p - (p - w) + 1)
      /\ TakenBy(f, p - w) = p - (p - w) + 1
  BY <1>1, <1>2, <1>4, ClosedHere
<1>6. p - (p - w) + 1 = w + 1 /\ p - w + (w + 1) = p + 1 /\ w + 1 \in Nat /\ w + 1 > 1
  BY <1>1
<1>7. ItemAt(f, p - w) = Field(w + 1) /\ TakenBy(f, p - w) = w + 1
  BY <1>5, <1>6
<1>8. vs[d + 1] \in Seq(STRING)
  BY JobFacts DEF Printable
<1>9. u \in Seq(Unit) /\ u = Shown(vs[d + 1], w + 1)
  BY <1>1, <1>6, <1>8, FilledIsShown
<1>10. p + 1 = Opened(p, w) + TakenBy(f, Opened(p, w))
  BY <1>2, <1>6, <1>7
<1>11. ItemAt(f, Opened(p, w)) = Field(w + 1) /\ w + 1 \in Nat
  BY <1>2, <1>6, <1>7
<1> QED
  BY <1>9, <1>10, <1>11, FieldDone

(* Behind the field, to the next argument. *)
LEMMA FinishStage ==
  ASSUME NEW f, NEW vs, Job(f, vs), NEW d \in Nat, NEW said, NEW p,
         AtFinish(f, vs, d, said, p)
  PROVE  AtArgument(f, vs, d + 1, said, p)
<1>1. d + 1 # 0
  OBVIOUS
<1> QED
  BY <1>1 DEF AtFinish, AtArgument

(* Behind the last value all is printed; what the format still has begins  *)
(* with a field.                                                           *)
LEMMA LastStage ==
  ASSUME NEW f, NEW vs, Job(f, vs), NEW d, d + 1 = Len(vs), NEW said \in Seq(Unit),
         NEW p, AtFinish(f, vs, d, said, p)
  PROVE  /\ AtEnd(f, vs, said)
         /\ p # Len(f) + 1 =>
              \E j \in FieldsIn(Items(f)) : j > FieldOf(Items(f), vs, Len(vs))
<1>1. PICK i : /\ Here(f, vs, said, p, i, Len(vs), << >>)
               /\ AtStop(f, i) /\ Past(f, vs, i, Len(vs))
  BY DEF AtFinish
<1>2. AtEnd(f, vs, said)
  BY <1>1, WholeMade
<1>3. ASSUME p # Len(f) + 1
      PROVE  \E j \in FieldsIn(Items(f)) : j > FieldOf(Items(f), vs, Len(vs))
  <2>1. i \in 0 .. Len(Items(f)) /\ i # Len(Items(f)) /\ Len(Items(f)) \in Nat
    BY <1>1, <1>3, HereTyped, JobFacts
  <2>2. i + 1 \in FieldsIn(Items(f))
    BY <1>1, <2>1, JobFacts DEF AtStop, FieldsIn
  <2>3. Len(vs) \in 0 .. Len(vs)
    BY JobFacts
  <2>4. FieldOf(Items(f), vs, Len(vs)) \in 0 .. Len(Items(f))
    BY <2>3, JobFacts, FieldOfFacts
  <2>5. i + 1 > FieldOf(Items(f), vs, Len(vs))
    BY <1>1, <2>1, <2>4 DEF Past
  <2> QED
    BY <2>2, <2>5
<1> QED
  BY <1>2, <1>3

LEMMA EndStage ==
  ASSUME NEW f, NEW vs, Job(f, vs), NEW said, NEW p, NEW e, e = << >>,
         AtArgument(f, vs, Len(vs), said, p)
  PROVE  BeforeEnd(f, vs, said, p, e)
<1>1. PICK i : Here(f, vs, said, p, i, Len(vs), e)
  BY DEF AtArgument
<1>2. i \in 0 .. Len(Items(f)) /\ Len(e) = 0
  BY <1>1, HereTyped, EmptySeq
<1> QED
  BY <1>1, <1>2, FitsAlways DEF BeforeEnd

(* At an argument behind the last value all that is due is printed; in     *)
(* front of the first, nothing.                                            *)
LEMMA ArgumentWhole ==
  ASSUME NEW f, NEW vs, Job(f, vs), NEW said \in Seq(Unit), NEW p,
         AtArgument(f, vs, Len(vs), said, p)
  PROVE  said = IF Len(vs) = 0 THEN << >> ELSE Owed(Items(f), vs, 1)
<1>1. PICK i : /\ Here(f, vs, said, p, i, Len(vs), << >>)
               /\ IF Len(vs) = 0 THEN i = 0 /\ said = << >> ELSE AtStop(f, i)
  BY DEF AtArgument
<1>2. ASSUME Len(vs) # 0  PROVE said = Owed(Items(f), vs, 1)
  <2>1. AtEnd(f, vs, said)
    BY <1>1, <1>2, WholeMade
  <2> QED
    BY <2>1 DEF AtEnd
<1> QED
  BY <1>1, <1>2

-----------------------------------------------------------------------------
(* The statements in execution *)

Frame == [format : Seq(STRING), values : Seq(Seq(STRING)), newline : BOOLEAN,
          done : Nat, said : Seq(Unit), own : BOOLEAN, lost : Nat]

Count(s) == Len(s.values)
Sound(s) == WellFormed(Items(s.format))

(* It has printed t more, or the value that was its turn. *)
Prints(r, s, t) ==
  /\ r.format = s.format /\ r.values = s.values /\ r.newline = s.newline
  /\ r.done = s.done /\ r.own = s.own /\ r.lost = s.lost
  /\ r.said = Two(s.said, t)

Finishes(r, s, last) ==
  /\ r.format = s.format /\ r.values = s.values /\ r.newline = s.newline
  /\ r.done = s.done + 1 /\ r.own = s.own /\ r.lost = s.lost
  /\ r.said = Two(s.said, IF last THEN << Newline >> ELSE << >>)

LEMMA FrameJob ==
  ASSUME NEW s \in Frame, Sound(s), NEW vs \in Seq(Seq(STRING))
  PROVE  Job(s.format, vs)
<1> DEFINE F == Seq(STRING)
<1>1. s.format \in F
  BY DEF Frame
<1>2. IsItems(Items(s.format)) /\ WellFormed(Items(s.format))
  BY <1>1, ItemsTyped DEF Sound, IsItems
<1>3. Len(vs) \in Nat /\ \A d \in 1 .. Len(vs) : vs[d] \in F
  BY LenProperties, ElementOfSeq
<1> QED
  BY <1>1, <1>2, <1>3 DEF Job, Printable

LEMMA FrameFacts ==
  ASSUME NEW s \in Frame
  PROVE  /\ s.format \in Seq(STRING) /\ s.values \in Seq(Seq(STRING))
         /\ s.newline \in BOOLEAN /\ s.done \in Nat /\ s.said \in Seq(Unit)
         /\ s.own \in BOOLEAN /\ s.lost \in Nat /\ Count(s) \in Nat
         /\ Len(s.format) \in Nat
         /\ Sound(s) => Job(s.format, s.values)
         /\ Promised(s) = Owed(Items(s.format), s.values, 1)
         /\ Sound(s) => Promised(s) \in Seq(Unit)
<1> DEFINE F == Seq(STRING)
           V == Seq(F)
           U == Seq(Unit)
<1>1. /\ s.format \in F /\ s.values \in V /\ s.newline \in BOOLEAN
      /\ s.done \in Nat /\ s.said \in U /\ s.own \in BOOLEAN /\ s.lost \in Nat
  <2>1. s \in [format : F, values : V, newline : BOOLEAN, done : Nat, said : U,
             own : BOOLEAN, lost : Nat]
    BY DEF Frame
  <2> HIDE DEF F, V, U
  <2> QED
    BY <2>1
<1>2. Count(s) \in Nat /\ Len(s.format) \in Nat
  BY <1>1, LenProperties DEF Count
<1>3. Sound(s) => Job(s.format, s.values)
  BY <1>1, FrameJob
<1>4. Promised(s) = Owed(Items(s.format), s.values, 1)
  BY PromisedIsOwed
<1>5. ASSUME Sound(s)  PROVE Promised(s) \in U
  <2>1. Printable(Items(s.format), s.values)
    BY <1>3, <1>5, JobFacts
  <2>2. 1 \in 1 .. Len(s.values) + 1
    BY <1>2 DEF Count
  <2> QED
    BY <1>4, <2>1, <2>2, OwedFacts DEF OwedAt
<1> QED
  BY <1>1, <1>2, <1>3, <1>4, <1>5

LEMMA FramePrints ==
  ASSUME NEW s \in Frame, NEW t \in Seq(Unit), NEW r, r = [s EXCEPT !.said = @ \o t]
  PROVE  r \in Frame /\ Prints(r, s, t)
<1> DEFINE F == Seq(STRING)
           V == Seq(F)
           U == Seq(Unit)
           u == Two(s.said, t)
<1>1. s \in [format : F, values : V, newline : BOOLEAN, done : Nat, said : U,
             own : BOOLEAN, lost : Nat]
  BY DEF Frame
<1>2. u \in U
  BY FrameFacts, TwoPieces
<1>3. r = [s EXCEPT !.said = u]
  BY DEF Two
<1> HIDE DEF F, V, U, u
<1>4. /\ r \in [format : F, values : V, newline : BOOLEAN, done : Nat, said : U,
             own : BOOLEAN, lost : Nat]
      /\ r.format = s.format /\ r.values = s.values /\ r.newline = s.newline
      /\ r.done = s.done /\ r.own = s.own /\ r.lost = s.lost /\ r.said = u
  BY <1>1, <1>2, <1>3
<1> QED
  BY <1>4, Zenon DEF Frame, Prints, F, V, U, u

LEMMA FrameFinishes ==
  ASSUME NEW s \in Frame, NEW last \in BOOLEAN, NEW r,
         r = [s EXCEPT !.done = @ + 1, !.said = IF last THEN Append(@, Newline) ELSE @]
  PROVE  r \in Frame /\ Finishes(r, s, last)
<1> DEFINE F == Seq(STRING)
           V == Seq(F)
           U == Seq(Unit)
           u == Two(s.said, IF last THEN << Newline >> ELSE << >>)
           v == IF last THEN Append(s.said, Newline) ELSE s.said
<1>1. s \in [format : F, values : V, newline : BOOLEAN, done : Nat, said : U,
             own : BOOLEAN, lost : Nat]
  BY DEF Frame
<1>2. v = u /\ u \in U
  <2>1. s.said \in U /\ Newline \in Unit
    BY FrameFacts DEF Unit
  <2>2. << Newline >> \in U /\ << >> \in U
    BY <2>1, EmptySeq
  <2>3. u \in U
    BY <2>1, <2>2, TwoPieces
  <2>4. CASE last
    <3>1. Append(s.said, Newline) = Two(s.said, << Newline >>)
      BY <2>1, AppendIsTwo
    <3> QED
      BY <2>3, <2>4, <3>1, Zenon
  <2>5. CASE ~ last
    <3>1. Two(s.said, << >>) = s.said
      BY <2>1, TwoPieces
    <3> QED
      BY <2>3, <2>5, <3>1, Zenon
  <2> QED
    BY <2>4, <2>5
<1>3. r = [s EXCEPT !.done = @ + 1, !.said = v]
  OBVIOUS
<1>4. r = [s EXCEPT !.done = @ + 1, !.said = u]
  BY <1>2, <1>3
<1> DEFINE m == s.done + 1
           q == [s EXCEPT !.done = m]
<1> HIDE DEF F, V, U, u, v
<1>5. m \in Nat
  BY <1>1
<1> HIDE DEF m
<1>6. /\ q \in [format : F, values : V, newline : BOOLEAN, done : Nat, said : U,
                own : BOOLEAN, lost : Nat]
      /\ q.format = s.format /\ q.values = s.values /\ q.newline = s.newline
      /\ q.done = m /\ q.own = s.own /\ q.lost = s.lost
  BY <1>1, <1>5
<1>7. r = [q EXCEPT !.said = u]
  BY <1>4 DEF m
<1> HIDE DEF q
<1>8. /\ r \in [format : F, values : V, newline : BOOLEAN, done : Nat, said : U,
                own : BOOLEAN, lost : Nat]
      /\ r.format = s.format /\ r.values = s.values /\ r.newline = s.newline
      /\ r.done = m /\ r.own = s.own /\ r.lost = s.lost /\ r.said = u
  BY <1>2, <1>6, <1>7
<1> QED
  BY <1>8, Zenon DEF Frame, Finishes, F, V, U, u, m

LEMMA FrameDisowned ==
  ASSUME NEW s \in Frame, NEW r, r = [s EXCEPT !.own = FALSE, !.lost = s.done]
  PROVE  /\ r \in Frame /\ ~ r.own
         /\ r.format = s.format /\ r.values = s.values /\ r.newline = s.newline
         /\ r.done = s.done /\ r.said = s.said /\ r.lost = s.done
<1> DEFINE F == Seq(STRING)
           V == Seq(F)
           U == Seq(Unit)
<1>1. s \in [format : F, values : V, newline : BOOLEAN, done : Nat, said : U,
             own : BOOLEAN, lost : Nat]
  BY DEF Frame
<1> HIDE DEF F, V, U
<1>3. s.done \in Nat
  BY <1>1
<1>2. /\ r \in [format : F, values : V, newline : BOOLEAN, done : Nat, said : U,
                own : BOOLEAN, lost : Nat]
      /\ ~ r.own
      /\ r.format = s.format /\ r.values = s.values /\ r.newline = s.newline
      /\ r.done = s.done /\ r.said = s.said /\ r.lost = s.done
  BY <1>1, <1>3
<1> QED
  BY <1>2, Zenon DEF Frame, F, V, U

(* Values that begin with the first n of a statement's. *)
Alike(s, n) ==
  {vs \in Seq(Seq(STRING)) :
     Len(vs) >= n /\ \A d \in 1 .. n : vs[d] = s.values[d]}

LEMMA AlikeFacts ==
  ASSUME NEW s \in Frame, NEW n \in Nat, NEW vs \in Alike(s, n)
  PROVE  /\ vs \in Seq(Seq(STRING)) /\ Len(vs) \in Nat /\ Len(vs) >= n
         /\ \A d \in 1 .. n : vs[d] = s.values[d]
         /\ Sound(s) => Job(s.format, vs)
         /\ \A r : r.values = s.values => vs \in Alike(r, n)
<1>1. vs \in Seq(Seq(STRING)) /\ Len(vs) >= n /\ \A d \in 1 .. n : vs[d] = s.values[d]
  BY DEF Alike
<1>2. Len(vs) \in Nat
  BY <1>1, LenProperties
<1>3. \A r : r.values = s.values => vs \in Alike(r, n)
  BY <1>1 DEF Alike
<1> QED
  BY <1>1, <1>2, <1>3, FrameJob

(* One more in common. *)
LEMMA AlikeLess ==
  ASSUME NEW s, NEW n \in Nat, NEW vs \in Alike(s, n + 1)
  PROVE  vs \in Alike(s, n)
<1>1. /\ vs \in Seq(Seq(STRING)) /\ Len(vs) >= n + 1
      /\ \A d \in 1 .. n + 1 : vs[d] = s.values[d]
  BY DEF Alike
<1>2. Len(vs) \in Nat
  BY <1>1, LenProperties
<1>3. Len(vs) >= n /\ \A d \in 1 .. n : d \in 1 .. n + 1
  BY <1>1, <1>2
<1> QED
  BY <1>1, <1>3 DEF Alike

LEMMA AlikeItself ==
  ASSUME NEW s \in Frame, NEW n \in Nat, n <= Count(s)
  PROVE  s.values \in Alike(s, n)
BY FrameFacts DEF Alike, Count

(* Those n values and no more. *)
LEMMA AlikeFirst ==
  ASSUME NEW s \in Frame, NEW n \in Nat, n <= Count(s)
  PROVE  SubSeq(s.values, 1, n) \in Alike(s, n) /\ Len(SubSeq(s.values, 1, n)) = n
<1> DEFINE V == Seq(STRING)
           vs == SubSeq(s.values, 1, n)
<1>1. s.values \in Seq(V) /\ Len(s.values) \in Nat /\ n <= Len(s.values)
  BY FrameFacts DEF Count
<1>2. \A d \in 1 .. n : s.values[d] \in V
  <2> SUFFICES ASSUME NEW d \in 1 .. n  PROVE s.values[d] \in V
    OBVIOUS
  <2>1. d \in 1 .. Len(s.values)
    BY <1>1
  <2> HIDE DEF V
  <2> QED
    BY <1>1, <2>1, ElementOfSeq
<1>3. 1 \in Int /\ n \in Int
  OBVIOUS
<1>4. /\ vs \in Seq(V) /\ Len(vs) = IF 1 <= n THEN n - 1 + 1 ELSE 0
      /\ \A d \in 1 .. n - 1 + 1 : vs[d] = s.values[1 + d - 1]
  <2> HIDE DEF V
  <2> QED
    BY <1>2, <1>3, SubSeqProperties
<1> HIDE DEF vs, V
<1>5. Len(vs) = n /\ \A d \in 1 .. n : vs[d] = s.values[d]
  BY <1>4
<1>6. vs \in Alike(s, n)
  BY <1>4, <1>5 DEF Alike, V
<1> QED
  BY <1>5, <1>6 DEF vs

(* What is promised depends on the format and the values alone. *)
LEMMA SamePromise ==
  ASSUME NEW r, NEW s, r.format = s.format, r.values = s.values
  PROVE  /\ Sound(r) <=> Sound(s)
         /\ Promised(r) = Promised(s) /\ Count(r) = Count(s)
         /\ r.newline = s.newline => Final(r) = Final(s)
         /\ FieldLeft(r) <=> FieldLeft(s)
         /\ \A d : Begun(r, d) = Begun(s, d)
         /\ \A n : Alike(r, n) = Alike(s, n)
<1>1. Promised(r) = Promised(s)
  BY PromisedIsOwed
<1>2. \A d : Begun(r, d) = Begun(s, d)
  BY Zenon DEF Begun
<1>3. \A n : Alike(r, n) = Alike(s, n)
  BY DEF Alike
<1> QED
  BY <1>1, <1>2, <1>3 DEF Sound, Count, Final, FieldLeft

(* What a statement has printed when the context is taken from it. *)
LEMMA BegunIsOwed ==
  ASSUME NEW s, NEW d, NEW vs, vs = SubSeq(s.values, 1, d)
  PROVE  Begun(s, d) = IF d = 0 THEN << >> ELSE Owed(Items(s.format), vs, 1)
<1> DEFINE q == [format |-> s.format, values |-> vs]
<1>1. Promised(q) = Owed(Items(s.format), vs, 1)
  BY PromisedIsOwed
<1> QED
  BY <1>1, Zenon DEF Begun

LEMMA FieldLeftIs ==
  ASSUME NEW s
  PROVE  FieldLeft(s) <=>
           \E j \in FieldsIn(Items(s.format)) :
              j > FieldOf(Items(s.format), s.values, Len(s.values))
BY Zenon DEF FieldLeft, FieldOf

-----------------------------------------------------------------------------
(* The invariant.  Of a statement that has the context and the format for  *)
(* itself, what it has printed, the text collected and what is still due   *)
(* at the pointer make up what was promised -- whatever the values behind  *)
(* those that are done, for it may never come to them.  When the format is *)
(* freed by the last value, the whole is printed; once the context was     *)
(* taken over, nothing more is.  Here c is the context, a and b where the  *)
(* thread is and returns to, t the text and w the width.                   *)

ToField(a, b)  == a = "text" /\ b = "field"
ToFinish(a, b) == a = "text" /\ b = "finish"
ToEnd(a, b)    == a = "text" /\ b = "end"

AsPromised(s, p, a, b, t, w) ==
  /\ a = "argument" =>
       \A vs \in Alike(s, s.done) : AtArgument(s.format, vs, s.done, s.said, p)
  /\ ToField(a, b) =>
       \A vs \in Alike(s, s.done + 1) :
          BeforeField(s.format, vs, s.done, s.said, p, t)
  /\ a = "field" =>
       \A vs \in Alike(s, s.done + 1) :
          InsideField(s.format, vs, s.done, s.said, p, w)
  /\ ToFinish(a, b) =>
       \A vs \in Alike(s, s.done + 1) :
          BehindField(s.format, vs, s.done, s.said, p, t)
  /\ a = "finish" =>
       \A vs \in Alike(s, s.done + 1) :
          AtFinish(s.format, vs, s.done, s.said, p)
  /\ ToEnd(a, b) => BeforeEnd(s.format, s.values, s.said, p, t)
  /\ a = "end"   => AtEnd(s.format, s.values, s.said)

(* It has the format. *)
Holds(s, c, a, b, t, w) ==
  /\ c.live /\ c.fmt = s.format
  /\ s.done = Count(s) => Final(s) = << >>
  /\ Sound(s) => AsPromised(s, c.ptr, a, b, t, w)

(* The whole and a new line; what follows is found in the format's place.  *)
WithLine(s) == Two(Promised(s), << Newline >>)

Follows(s) ==
  \E rest \in Seq(Litter) :
    /\ Len(rest) <= Room /\ Len(rest) <= Len(s.format)
    /\ s.said = Two(WithLine(s), rest)

(* It has freed it. *)
Released(s, c, a, t) ==
  /\ ~ c.live /\ s.done = Count(s) /\ Final(s) = << Newline >>
  /\ Sound(s) =>
       /\ a # "end"      => s.said = WithLine(s)
       /\ a = "end"      => Follows(s)
       /\ a = "argument" => c.chars <= Len(s.format)
       /\ a = "text"     => t \in Seq(Litter) /\ Len(t) + c.chars <= Len(s.format)
       /\ \/ FieldLeft(s)
          \/ s.said = WithLine(s) /\ c.chars = 0 /\ (a = "text" => t = << >>)

(* It has printed what was due when the context was taken from it. *)
Cut(s) ==
  /\ s.lost <= Count(s)
  /\ Sound(s) =>
       s.said = Two(Begun(s, s.lost), IF s.done = Count(s) THEN Final(s) ELSE << >>)

Lost(s, c, a, t) ==
  /\ ~ c.live /\ c.chars = 0 /\ (a = "text" => t = << >>)
  /\ Cut(s)

Counted(s, a, b) ==
  /\ s.done <= Count(s)
  /\ ToField(a, b) \/ a = "field" \/ ToFinish(a, b) \/ a = "finish" => s.done < Count(s)
  /\ ToEnd(a, b) \/ a = "end" => s.done = Count(s)

Running(s, c, a, b, t, w) ==
  /\ Counted(s, a, b)
  /\ s.own => Holds(s, c, a, b, t, w) \/ Released(s, c, a, t)
  /\ ~ s.own => Lost(s, c, a, t)

(* It waits for the FUNCTION in its argument. *)
Suspended(s) == ~ s.own /\ s.done < Count(s) /\ Cut(s)

PrintInv ==
  /\ UsingTypes
  /\ stack \in Seq(Frame) /\ Len(stack) <= 2
  /\ at = "idle" <=> stack = << >>
  /\ stack # << >> => Running(Top, ctx, at, back, buf, width)
  /\ Len(stack) = 2 => Top.own /\ Suspended(stack[1])
  /\ ToField(at, back) => width = -1

(* The statement in execution. *)
LEMMA TopFrame ==
  ASSUME PrintInv, at # "idle"
  PROVE  /\ Top \in Frame /\ Running(Top, ctx, at, back, buf, width)
         /\ Len(stack) \in 1 .. 2 /\ stack # << >> /\ UsingTypes
<1>1. stack \in Seq(Frame) /\ stack # << >> /\ Len(stack) <= 2
  BY DEF PrintInv
<1>2. Len(stack) \in 1 .. 2
  <2>1. Len(stack) \in Nat \ {0}
    BY <1>1, EmptySeq
  <2>2. Len(stack) <= 2
    BY <1>1
  <2>3. \A n \in Nat \ {0} : n <= 2 => n \in 1 .. 2
    OBVIOUS
  <2> QED
    BY <2>1, <2>2, <2>3
<1>3. Len(stack) \in 1 .. Len(stack)
  BY <1>2
<1>4. stack[Len(stack)] \in Frame
  BY <1>1, <1>3, ElementOfSeq
<1> QED
  BY <1>1, <1>2, <1>4 DEF PrintInv, Top, Last

(* The invariant is kept when the statement in execution goes on. *)
LEMMA TopGoesOn ==
  ASSUME PrintInv, UsingTypes', at # "idle", at' # "idle", NEW r \in Frame,
         r.own <=> Top.own, stack' = WithTop(r),
         Running(r, ctx', at', back', buf', width'),
         ToField(at', back') => width' = -1
  PROVE  PrintInv'
<1> DEFINE n == Len(stack)
<1>1. stack \in Seq(Frame) /\ n \in 1 .. 2 /\ stack # << >>
  BY TopFrame DEF PrintInv
<1>2. stack' = [stack EXCEPT ![n] = r]
  BY DEF WithTop
<1>3. n \in 1 .. Len(stack) /\ n \in Nat
  BY <1>1
<1>4. stack' \in Seq(Frame) /\ Len(stack') = n
  BY <1>1, <1>2, <1>3, ExceptSeq
<1>5. stack'[n] = r /\ (n = 2 => stack'[1] = stack[1])
  <2>1. DOMAIN stack = 1 .. n
    BY <1>1, LenProperties
  <2> HIDE DEF n
  <2> QED
    BY <1>2, <1>3, <2>1
<1>6. Top' = r
  BY <1>4, <1>5 DEF Top, Last
<1>7. stack' # << >>
  BY <1>1, <1>4, EmptySeq
<1>8. n = 2 => Top.own /\ Suspended(stack[1])
  BY DEF PrintInv
<1>9. n = 2 => r.own /\ Suspended(stack'[1])
  BY <1>5, <1>8
<1> HIDE DEF n
<1> QED
  BY <1>1, <1>4, <1>6, <1>7, <1>9 DEF PrintInv

LEMMA TopStays ==
  ASSUME PrintInv, UsingTypes', at # "idle", at' # "idle", stack' = stack,
         Running(Top, ctx', at', back', buf', width'),
         ToField(at', back') => width' = -1
  PROVE  PrintInv'
<1>1. Top' = Top
  BY DEF Top
<1> QED
  BY <1>1 DEF PrintInv

-----------------------------------------------------------------------------
(* The steps.  First what is read at the pointer.                          *)

LEMMA AtPointer ==
  ASSUME UsingTypes
  PROVE  /\ ctx.fmt \in Seq(STRING) /\ Len(ctx.fmt) \in Nat
         /\ ctx.ptr \in Nat /\ ctx.chars \in Nat /\ ctx.live \in BOOLEAN
         /\ ctx.live => /\ ctx.ptr \in 1 .. Len(ctx.fmt) + 1
                        /\ ctx.chars = Len(ctx.fmt) + 1 - ctx.ptr
                        /\ \A c \in Seen(0) : ctx.ptr \in 1 .. Len(ctx.fmt)
                                              /\ c = ctx.fmt[ctx.ptr]
                        /\ \A c \in Seen(1) : ctx.ptr + 1 \in 1 .. Len(ctx.fmt)
                                              /\ c = ctx.fmt[ctx.ptr + 1]
                        /\ ctx.ptr \in 1 .. Len(ctx.fmt) => ctx.fmt[ctx.ptr] \in Seen(0)
         /\ ctx.chars = 0 => Seen(0) = {}
         /\ buf \in Seq(STRING) /\ buf \in Seq(Unit) /\ Len(buf) \in Nat
<1> DEFINE F == Seq(STRING)
<1>1. ctx \in [fmt : F, live : BOOLEAN, ptr : Nat, chars : Nat]
  BY DEF UsingTypes, InFormat, Context
<1>2. ctx.live => ctx.ptr + ctx.chars = Len(ctx.fmt) + 1 /\ ctx.ptr >= 1
  BY DEF UsingTypes, InFormat
<1>3. ctx.fmt \in F /\ Len(ctx.fmt) \in Nat
  BY <1>1, LenProperties
<1>4. buf \in F
  BY DEF UsingTypes, Collected
<1>5. STRING \subseteq Unit
  BY DEF Unit
<1>6. buf \in Seq(Unit) /\ Len(buf) \in Nat
  BY <1>4, <1>5, SeqMonotonic, LenProperties
<1> HIDE DEF F
<1>7. ctx.ptr \in Nat /\ ctx.chars \in Nat /\ ctx.live \in BOOLEAN
  BY <1>1
<1>8. ctx.chars = 0 => Seen(0) = {}
  BY <1>7 DEF Seen
<1>9. ASSUME ctx.live
      PROVE  /\ ctx.ptr \in 1 .. Len(ctx.fmt) + 1
             /\ ctx.chars = Len(ctx.fmt) + 1 - ctx.ptr
             /\ \A c \in Seen(0) : ctx.ptr \in 1 .. Len(ctx.fmt)
                                   /\ c = ctx.fmt[ctx.ptr]
             /\ \A c \in Seen(1) : ctx.ptr + 1 \in 1 .. Len(ctx.fmt)
                                   /\ c = ctx.fmt[ctx.ptr + 1]
             /\ ctx.ptr \in 1 .. Len(ctx.fmt) => ctx.fmt[ctx.ptr] \in Seen(0)
  <2>1. /\ ctx.ptr \in 1 .. Len(ctx.fmt) + 1
        /\ ctx.chars = Len(ctx.fmt) + 1 - ctx.ptr
    BY <1>2, <1>3, <1>7, <1>9
  <2>2. \A k \in 0 .. 1 : \A c \in Seen(k) : ctx.ptr + k \in 1 .. Len(ctx.fmt)
                                              /\ c = ctx.fmt[ctx.ptr + k]
    <3> SUFFICES ASSUME NEW k \in 0 .. 1, NEW c \in Seen(k)
                 PROVE  ctx.ptr + k \in 1 .. Len(ctx.fmt) /\ c = ctx.fmt[ctx.ptr + k]
      OBVIOUS
    <3>1. ~ k >= ctx.chars /\ c = ctx.fmt[ctx.ptr + k]
      BY <1>9 DEF Seen
    <3>2. ctx.ptr + k \in 1 .. Len(ctx.fmt)
      BY <1>3, <1>7, <2>1, <3>1
    <3> QED
      BY <3>1, <3>2
  <2>3. ctx.ptr + 0 = ctx.ptr
    BY <1>7
  <2>4. ctx.ptr \in 1 .. Len(ctx.fmt) => ctx.fmt[ctx.ptr] \in Seen(0)
    <3>1. ctx.ptr \in 1 .. Len(ctx.fmt) => ~ 0 >= ctx.chars
      BY <1>3, <1>7, <2>1
    <3> QED
      BY <1>9, <2>3, <3>1 DEF Seen
  <2>5. \A c \in Seen(0) : ctx.ptr \in 1 .. Len(ctx.fmt) /\ c = ctx.fmt[ctx.ptr]
    <3>1. 0 \in 0 .. 1
      OBVIOUS
    <3> QED
      BY <2>2, <2>3, <3>1
  <2>6. \A c \in Seen(1) : ctx.ptr + 1 \in 1 .. Len(ctx.fmt) /\ c = ctx.fmt[ctx.ptr + 1]
    <3>1. 1 \in 0 .. 1
      OBVIOUS
    <3> QED
      BY <2>2, <3>1
  <2> QED
    BY <2>1, <2>4, <2>5, <2>6
<1> QED
  BY <1>3, <1>4, <1>6, <1>7, <1>8, <1>9 DEF F

LEMMA PointerOn ==
  ASSUME UsingTypes, NEW k \in Nat, Forward(k)
  PROVE  /\ ctx'.fmt = ctx.fmt /\ ctx'.live = ctx.live
         /\ ctx'.ptr = ctx.ptr + k /\ ctx'.chars = ctx.chars - k
<1> DEFINE F == Seq(STRING)
<1>1. ctx \in [fmt : F, live : BOOLEAN, ptr : Nat, chars : Nat]
  BY DEF UsingTypes, InFormat, Context
<1>2. ctx' = [ctx EXCEPT !.ptr = @ + k, !.chars = @ - k]
  BY DEF Forward
<1> HIDE DEF F
<1> QED
  BY <1>1, <1>2

(* A character of a format that is allocated is taken as an item. *)
LEMMA TextTakes ==
  ASSUME UsingTypes, TextChar, ctx.live
  PROVE  /\ ctx.ptr \in 1 .. Len(ctx.fmt) /\ ctx.fmt[ctx.ptr] \notin Stops
         /\ ctx'.fmt = ctx.fmt /\ ctx'.live
         /\ ctx'.ptr = ctx.ptr + TakenBy(ctx.fmt, ctx.ptr)
         /\ buf' = Append(buf, ctx.fmt[IF Escaped(ctx.fmt, ctx.ptr)
                                       THEN ctx.ptr + 1 ELSE ctx.ptr])
<1> DEFINE f == ctx.fmt
           p == ctx.ptr
           more == f[p] = Escape /\ ctx.chars > 1
<1>1. PICK c \in Seen(0) :
        /\ c \notin Stops
        /\ IF c = Escape /\ ctx.chars > 1
           THEN \E n \in Seen(1) : buf' = Append(buf, n) /\ Forward(2)
           ELSE buf' = Append(buf, c) /\ Forward(1)
  BY DEF TextChar
<1>2. /\ p \in 1 .. Len(f) /\ c = f[p] /\ Len(f) \in Nat /\ p \in Nat
      /\ ctx.chars = Len(f) + 1 - p
      /\ \A n \in Seen(1) : n = f[p + 1]
  BY AtPointer
<1>3. InPlace(f, p)
  BY <1>2, AtPointer DEF InPlace
<1>4. more <=> Escaped(f, p)
  BY <1>2 DEF Escaped
<1>5. TakenBy(f, p) = IF Escaped(f, p) THEN 2 ELSE 1
  BY <1>1, <1>2, <1>3, LiteralHere
<1>6. CASE more
  <2>1. PICK n \in Seen(1) : buf' = Append(buf, n) /\ Forward(2)
    BY <1>1, <1>2, <1>6
  <2>2. 2 <= ctx.chars /\ 2 \in Nat
    BY <1>2, <1>6
  <2>3. ctx'.fmt = f /\ ctx'.live = ctx.live /\ ctx'.ptr = p + 2
    BY <2>1, <2>2, PointerOn
  <2>4. n = f[p + 1]
    BY <1>2
  <2> QED
    BY <1>1, <1>2, <1>4, <1>5, <1>6, <2>1, <2>3, <2>4
<1>7. CASE ~ more
  <2>1. buf' = Append(buf, c) /\ Forward(1)
    BY <1>1, <1>2, <1>7
  <2>2. 1 <= ctx.chars /\ 1 \in Nat
    BY <1>2
  <2>3. ctx'.fmt = f /\ ctx'.live = ctx.live /\ ctx'.ptr = p + 1
    BY <2>1, <2>2, PointerOn
  <2> QED
    BY <1>1, <1>2, <1>4, <1>5, <1>7, <2>1, <2>3
<1> QED
  BY <1>6, <1>7

LEMMA TextCharKeeps ==
  ASSUME PrintInv, TextChar
  PROVE  PrintInv'
<1> DEFINE s == Top
<1>1. at = "text" /\ UNCHANGED << stack, at, back, width >> /\ Seen(0) # {}
  BY DEF TextChar
<1>2. /\ s \in Frame /\ Running(s, ctx, at, back, buf, width) /\ UsingTypes
      /\ at # "idle"
  BY <1>1, TopFrame
<1>3. UsingTypes'
  BY <1>2, TextGrows
<1>4. Counted(s, at', back') /\ (ToField(at', back') => width' = -1)
  BY <1>1, <1>2 DEF Running, PrintInv
<1>5. ctx.chars # 0
  BY <1>1, <1>2, AtPointer
<1> SUFFICES Running(s, ctx', at', back', buf', width')
  BY <1>1, <1>2, <1>3, <1>4, TopStays
<1> HIDE DEF s
<1>6. CASE s.own /\ Holds(s, ctx, at, back, buf, width)
  <2>1. ctx.live /\ ctx.fmt = s.format /\ (s.done = Count(s) => Final(s) = << >>)
    BY <1>6 DEF Holds
  <2>2. /\ ctx.ptr \in 1 .. Len(s.format) /\ s.format[ctx.ptr] \notin Stops
        /\ ctx'.fmt = s.format /\ ctx'.live
        /\ ctx'.ptr = ctx.ptr + TakenBy(s.format, ctx.ptr)
        /\ buf' = Append(buf, s.format[IF Escaped(s.format, ctx.ptr)
                                       THEN ctx.ptr + 1 ELSE ctx.ptr])
    BY <1>2, <2>1, TextTakes
  <2> DEFINE c == s.format[IF Escaped(s.format, ctx.ptr)
                           THEN ctx.ptr + 1 ELSE ctx.ptr]
             q == ctx.ptr + TakenBy(s.format, ctx.ptr)
  <2>3. ASSUME Sound(s)  PROVE AsPromised(s, ctx'.ptr, at', back', buf', width')
    <3> DEFINE f == s.format
               p == ctx.ptr
    <3>1. AsPromised(s, p, at, back, buf, width)
      BY <1>6, <2>3 DEF Holds
    <3>2. s.said \in Seq(Unit) /\ buf \in Seq(Unit) /\ s.done + 1 \in Nat
      BY <1>2, FrameFacts, AtPointer
    <3>3. ASSUME NEW vs, Job(f, vs)
          PROVE  /\ BeforeField(f, vs, s.done, s.said, p, buf) =>
                      BeforeField(f, vs, s.done, s.said, q, Append(buf, c))
                 /\ BehindField(f, vs, s.done, s.said, p, buf) =>
                      BehindField(f, vs, s.done, s.said, q, Append(buf, c))
                 /\ BeforeEnd(f, vs, s.said, p, buf) =>
                      BeforeEnd(f, vs, s.said, q, Append(buf, c))
      <4>1. /\ p \in 1 .. Len(f) /\ f[p] \notin Stops
            /\ c = f[IF Escaped(f, p) THEN p + 1 ELSE p]
            /\ q = p + TakenBy(f, p)
        BY <2>2
      <4> HIDE DEF c, q, f, p
      <4> QED
        BY <3>2, <3>3, <4>1, TextStages
    <3>4. ctx'.ptr = q /\ buf' = Append(buf, c)
      BY <2>2
    <3>5. Job(f, s.values) /\ \A vs \in Alike(s, s.done + 1) : Job(f, vs)
      BY <1>2, <2>3, <3>2, FrameFacts, AlikeFacts
    <3> HIDE DEF q, c, f, p
    <3>6. AsPromised(s, q, at, back, Append(buf, c), width)
      <4>1. at # "argument" /\ at # "field" /\ at # "finish" /\ at # "end"
        BY <1>1
      <4>2. ASSUME ToField(at, back), NEW vs \in Alike(s, s.done + 1)
            PROVE  BeforeField(f, vs, s.done, s.said, q, Append(buf, c))
        BY <3>1, <3>3, <3>5, <4>2 DEF AsPromised, f
      <4>3. ASSUME ToFinish(at, back), NEW vs \in Alike(s, s.done + 1)
            PROVE  BehindField(f, vs, s.done, s.said, q, Append(buf, c))
        BY <3>1, <3>3, <3>5, <4>3 DEF AsPromised, f
      <4>4. ToEnd(at, back) => BeforeEnd(f, s.values, s.said, q, Append(buf, c))
        BY <3>1, <3>3, <3>5 DEF AsPromised, f
      <4> QED
        BY <4>1, <4>2, <4>3, <4>4 DEF AsPromised, f
    <3> QED
      BY <1>1, <3>4, <3>6
  <2>4. Holds(s, ctx', at', back', buf', width')
    BY <2>1, <2>2, <2>3 DEF Holds
  <2> QED
    BY <1>4, <1>6, <2>4 DEF Running
<1>7. CASE s.own /\ Released(s, ctx, at, buf)
  <2>1. ~ ctx.live /\ ctx.chars \in Nat
    BY <1>2, <1>7, AtPointer DEF Released
  <2>2. PICK k \in 1 .. 2, c \in Litter :
          k <= ctx.chars /\ Forward(k) /\ buf' = Append(buf, c)
    <3>1. Seen(0) \subseteq Litter /\ Seen(1) \subseteq Litter
      BY <2>1 DEF Seen
    <3>2. PICK c \in Seen(0) :
            IF c = Escape /\ ctx.chars > 1
            THEN \E n \in Seen(1) : buf' = Append(buf, n) /\ Forward(2)
            ELSE buf' = Append(buf, c) /\ Forward(1)
      BY DEF TextChar
    <3>3. CASE c = Escape /\ ctx.chars > 1
      <4>1. PICK n \in Seen(1) : buf' = Append(buf, n) /\ Forward(2)
        BY <3>2, <3>3
      <4>2. 2 \in 1 .. 2 /\ 2 <= ctx.chars
        BY <2>1, <3>3
      <4> QED
        BY <3>1, <4>1, <4>2
    <3>4. CASE ~ (c = Escape /\ ctx.chars > 1)
      <4>1. 1 \in 1 .. 2 /\ 1 <= ctx.chars
        BY <1>5, <2>1
      <4> QED
        BY <3>1, <3>2, <3>4, <4>1
    <3> QED
      BY <3>3, <3>4
  <2>3. ctx'.live = ctx.live /\ ctx'.chars = ctx.chars - k /\ k \in Nat
    BY <1>2, <2>2, PointerOn
  <2>4. ASSUME Sound(s)
        PROVE  /\ s.said = WithLine(s) /\ FieldLeft(s)
               /\ buf' \in Seq(Litter) /\ Len(buf') + ctx'.chars <= Len(s.format)
    <3>1. /\ s.said = WithLine(s) /\ FieldLeft(s)
          /\ buf \in Seq(Litter) /\ Len(buf) + ctx.chars <= Len(s.format)
      BY <1>1, <1>5, <1>7, <2>4 DEF Released
    <3>2. buf' \in Seq(Litter) /\ Len(buf') = Len(buf) + 1 /\ Len(buf) \in Nat
      BY <2>2, <3>1, AppendProperties, LenProperties
    <3>3. Len(s.format) \in Nat
      BY <1>2, FrameFacts
    <3>4. Len(buf') + ctx'.chars <= Len(s.format)
      BY <2>1, <2>2, <2>3, <3>1, <3>2, <3>3
    <3> QED
      BY <3>1, <3>2, <3>4
  <2>5. Released(s, ctx', at', buf')
    BY <1>1, <1>7, <2>3, <2>4 DEF Released
  <2> QED
    BY <1>4, <1>7, <2>5 DEF Running
<1>8. CASE ~ s.own
  BY <1>2, <1>5, <1>8 DEF Running, Lost
<1> QED
  BY <1>2, <1>6, <1>7, <1>8 DEF Running

(* Nothing is printed. *)
LEMMA SaidMore ==
  ASSUME NEW s \in Frame, NEW r, Prints(r, s, << >>)
  PROVE  r.said = s.said
<1>1. s.said \in Seq(Unit) /\ r.said = Two(s.said, << >>)
  BY FrameFacts DEF Prints
<1>2. Two(s.said, << >>) = s.said
  BY <1>1, TwoPieces
<1> QED
  BY <1>1, <1>2, Zenon

LEMMA CutStays ==
  ASSUME NEW s, NEW r, r.format = s.format, r.values = s.values,
         r.newline = s.newline, r.said = s.said, r.done = s.done, r.lost = s.lost,
         Cut(s)
  PROVE  Cut(r)
<1>1. /\ Sound(r) <=> Sound(s)
      /\ Count(r) = Count(s) /\ Final(r) = Final(s)
      /\ Begun(r, r.lost) = Begun(s, s.lost)
  BY SamePromise
<1> QED
  BY <1>1 DEF Cut

LEMMA TextEndKeeps ==
  ASSUME PrintInv, TextEnd
  PROVE  PrintInv'
<1> DEFINE s == Top
<1>1. /\ at = "text" /\ Say(buf) /\ at' = back /\ buf' = << >> /\ back' = "idle"
      /\ UNCHANGED << ctx, width >>
      /\ ctx.chars = 0 \/ Len(buf) >= Room \/ Seen(0) \cap Stops # {}
  BY DEF TextEnd
<1>2. /\ s \in Frame /\ Running(s, ctx, at, back, buf, width) /\ UsingTypes
      /\ at # "idle"
  BY <1>1, TopFrame
<1>3. back \in {"field", "finish", "end"} /\ (ToField(at, back) => width = -1)
  BY <1>1, <1>2 DEF UsingTypes, PrintInv
<1>4. UsingTypes'
  BY <1>2, StepTypes DEF Step
<1>5. buf \in Seq(Unit)
  BY <1>2, AtPointer
<1>6. PICK r : r = [s EXCEPT !.said = @ \o buf]
  OBVIOUS
<1>7. stack' = WithTop(r)
  BY <1>1, <1>6 DEF Say
<1>8. r \in Frame /\ Prints(r, s, buf)
  BY <1>2, <1>5, <1>6, FramePrints
<1>9. r.own = s.own /\ r.done = s.done /\ r.said = Two(s.said, buf)
      /\ r.format = s.format /\ r.values = s.values /\ r.newline = s.newline
  BY <1>8 DEF Prints
<1>10. at' # "idle" /\ ~ ToField(at', back') /\ at' # "text"
  BY <1>1, <1>3 DEF ToField
<1>11. Counted(r, at', back')
  BY <1>1, <1>2, <1>3, <1>9 DEF Running, Counted, Count, ToField, ToFinish, ToEnd
<1> SUFFICES Running(r, ctx', at', back', buf', width')
  BY <1>2, <1>4, <1>7, <1>8, <1>9, <1>10, TopGoesOn
<1> HIDE DEF s
<1>12. /\ Sound(r) <=> Sound(s)
       /\ Promised(r) = Promised(s) /\ Count(r) = Count(s) /\ Final(r) = Final(s)
       /\ FieldLeft(r) <=> FieldLeft(s)
  BY <1>9, SamePromise
<1>13. CASE s.own /\ Holds(s, ctx, at, back, buf, width)
  <2>1. ctx.live /\ ctx.fmt = s.format /\ (s.done = Count(s) => Final(s) = << >>)
    BY <1>13 DEF Holds
  <2> DEFINE f == s.format
             p == ctx.ptr
  <2>2. p = Len(f) + 1 \/ Len(buf) >= Room \/ (p \in 1 .. Len(f) /\ f[p] \in Stops)
    <3>1. /\ ctx.chars = Len(f) + 1 - p /\ p \in Nat /\ Len(f) \in Nat
          /\ \A c \in Seen(0) : p \in 1 .. Len(f) /\ c = f[p]
      BY <1>2, <2>1, AtPointer
    <3> HIDE DEF f, p
    <3> QED
      BY <1>1, <3>1
  <2>3. ASSUME Sound(s)  PROVE AsPromised(r, p, at', back', buf', width')
    <3>1. AsPromised(s, p, at, back, buf, width)
      BY <1>13, <2>3 DEF Holds
    <3>2. s.said \in Seq(Unit) /\ s.done + 1 \in Nat
      BY <1>2, FrameFacts
    <3>3. ASSUME NEW vs, Job(f, vs)
          PROVE  /\ BeforeField(f, vs, s.done, s.said, p, buf) =>
                      InsideField(f, vs, s.done, Two(s.said, buf), p, -1)
                 /\ BehindField(f, vs, s.done, s.said, p, buf) =>
                      AtFinish(f, vs, s.done, Two(s.said, buf), p)
                 /\ BeforeEnd(f, vs, s.said, p, buf) =>
                      AtEnd(f, vs, Two(s.said, buf))
      <4> HIDE DEF f, p
      <4> QED
        BY <1>5, <2>2, <3>2, <3>3, TextEndStages
    <3>4. \A vs \in Alike(r, r.done + 1) : vs \in Alike(s, s.done + 1) /\ Job(f, vs)
      <4>1. r \in Frame /\ s.values = r.values /\ r.done = s.done
            /\ r.format = s.format /\ Sound(r)
        BY <1>8, <1>9, <1>12, <2>3
      <4> QED
        BY <3>2, <4>1, AlikeFacts
    <3>5. Job(f, s.values)
      BY <1>2, <2>3, FrameFacts
    <3>6. CASE back = "field"
      <4>1. ToField(at, back) /\ width = -1
        BY <1>1, <1>3, <3>6 DEF ToField
      <4>2. \A vs \in Alike(r, r.done + 1) :
               InsideField(r.format, vs, r.done, r.said, p, width')
        BY <1>1, <1>9, <3>1, <3>3, <3>4, <4>1 DEF AsPromised
      <4> QED
        BY <1>1, <3>6, <4>2 DEF AsPromised, ToField, ToFinish, ToEnd
    <3>7. CASE back = "finish"
      <4>1. ToFinish(at, back)
        BY <1>1, <3>7 DEF ToFinish
      <4>2. \A vs \in Alike(r, r.done + 1) : AtFinish(r.format, vs, r.done, r.said, p)
        BY <1>9, <3>1, <3>3, <3>4, <4>1 DEF AsPromised
      <4> QED
        BY <1>1, <3>7, <4>2 DEF AsPromised, ToField, ToFinish, ToEnd
    <3>8. CASE back = "end"
      BY <1>1, <1>9, <3>1, <3>3, <3>5, <3>8 DEF AsPromised, ToField, ToFinish, ToEnd
    <3> QED
      BY <1>3, <3>6, <3>7, <3>8
  <2>4. Holds(r, ctx', at', back', buf', width')
    BY <1>1, <1>9, <1>12, <2>1, <2>3 DEF Holds
  <2> QED
    BY <1>9, <1>11, <1>13, <2>4 DEF Running
<1>14. CASE s.own /\ Released(s, ctx, at, buf)
  <2>1. at' = "end"
    <3>1. s.done = Count(s) /\ s.done \in Nat
      BY <1>2, <1>14, FrameFacts DEF Released
    <3>2. ~ ToField(at, back) /\ ~ ToFinish(at, back)
      BY <1>2, <3>1 DEF Running, Counted
    <3> QED
      BY <1>1, <1>3, <3>2 DEF ToField, ToFinish
  <2>2. WithLine(r) = WithLine(s)
    BY <1>12 DEF WithLine
  <2>3. ASSUME Sound(s)
        PROVE  /\ Follows(r)
               /\ FieldLeft(r) \/ (r.said = WithLine(r) /\ ctx.chars = 0)
    <3>1. /\ s.said = WithLine(s)
          /\ buf \in Seq(Litter) /\ Len(buf) + ctx.chars <= Len(s.format)
          /\ FieldLeft(s) \/ (ctx.chars = 0 /\ buf = << >>)
      BY <1>1, <1>14, <2>3 DEF Released
    <3>2. /\ Len(buf) \in Nat /\ ctx.chars \in Nat /\ Len(s.format) \in Nat
          /\ Len(buf) <= Room
      BY <1>2, AtPointer, FrameFacts DEF UsingTypes, Collected
    <3>3. Len(buf) <= Len(s.format)
      BY <3>1, <3>2
    <3>4. r.said = Two(WithLine(r), buf)
      BY <1>9, <2>2, <3>1
    <3>5. Follows(r)
      BY <1>9, <3>1, <3>2, <3>3, <3>4, Zenon DEF Follows
    <3>6. buf = << >> => r.said = s.said
      BY <1>2, <1>8, SaidMore
    <3> QED
      BY <1>12, <2>2, <3>1, <3>5, <3>6
  <2>4. Released(r, ctx', at', buf')
    BY <1>1, <1>9, <1>10, <1>12, <1>14, <2>1, <2>3 DEF Released
  <2> QED
    BY <1>9, <1>11, <1>14, <2>4 DEF Running
<1>15. CASE ~ s.own
  <2>1. Lost(s, ctx, at, buf)
    BY <1>2, <1>15 DEF Running
  <2>2. buf = << >> /\ Cut(s)
    BY <1>1, <2>1 DEF Lost
  <2>3. r.said = s.said /\ r.lost = s.lost
    BY <1>2, <1>8, <2>2, SaidMore DEF Prints
  <2>4. Cut(r)
    BY <1>9, <2>2, <2>3, CutStays
  <2>5. Lost(r, ctx', at', buf')
    BY <1>1, <1>10, <2>1, <2>4 DEF Lost
  <2> QED
    BY <1>9, <1>11, <1>15, <2>5 DEF Running
<1> QED
  BY <1>2, <1>13, <1>14, <1>15 DEF Running

(* A field is looked for, or counted, only by a statement that holds the   *)
(* context: what was freed or taken over has no character.                 *)
LEMMA AtFieldHolds ==
  ASSUME PrintInv, at = "field", Seen(0) # {}
  PROVE  /\ Top \in Frame /\ Top.own /\ Counted(Top, at, back) /\ UsingTypes
         /\ Holds(Top, ctx, at, back, buf, width)
         /\ Top.done < Count(Top)
<1> DEFINE s == Top
<1>1. s \in Frame /\ Running(s, ctx, at, back, buf, width) /\ UsingTypes
  BY TopFrame
<1>2. ctx.chars # 0
  BY <1>1, AtPointer
<1> HIDE DEF s
<1>3. Counted(s, at, back) /\ s.done < Count(s)
  BY <1>1 DEF Running, Counted
<1>4. s.done # Count(s)
  BY <1>1, <1>3, FrameFacts
<1> QED
  BY <1>1, <1>2, <1>3, <1>4 DEF Running, Released, Lost, s

(* The text of a value is printed: by any field that may end here. *)
LEMMA PutKeeps ==
  ASSUME PrintInv, UsingTypes', at = "field", Seen(0) # {}, NEW u \in Seq(Unit), Put(u),
         Sound(Top) =>
           \A vs \in Alike(Top, Top.done + 1) :
             BehindField(Top.format, vs, Top.done, Two(Top.said, u), ctx.ptr + 1, << >>)
  PROVE  PrintInv'
<1> DEFINE s == Top
<1>1. /\ s \in Frame /\ s.own /\ Counted(s, at, back) /\ UsingTypes
      /\ Holds(s, ctx, at, back, buf, width) /\ s.done < Count(s)
  BY AtFieldHolds
<1>2. /\ Say(u) /\ Forward(1) /\ at' = "text" /\ back' = "finish" /\ buf' = << >>
  BY DEF Put, Text
<1>3. /\ ctx'.fmt = ctx.fmt /\ ctx'.live = ctx.live /\ ctx'.ptr = ctx.ptr + 1
  <2>1. 1 \in Nat
    OBVIOUS
  <2> QED
    BY <1>1, <1>2, <2>1, PointerOn
<1>4. PICK r : r = [s EXCEPT !.said = @ \o u]
  OBVIOUS
<1>5. stack' = WithTop(r)
  BY <1>2, <1>4 DEF Say
<1>6. r \in Frame /\ Prints(r, s, u)
  BY <1>1, <1>4, FramePrints
<1>7. r.own = s.own /\ r.done = s.done /\ r.said = Two(s.said, u)
      /\ r.format = s.format /\ r.values = s.values /\ r.newline = s.newline
  BY <1>6 DEF Prints
<1>8. at # "idle" /\ at' # "idle" /\ ~ ToField(at', back')
  BY <1>2 DEF ToField
<1> SUFFICES Running(r, ctx', at', back', buf', width')
  BY <1>5, <1>6, <1>7, <1>8, TopGoesOn
<1>9. Sound(s) =>
        \A vs \in Alike(s, s.done + 1) :
          BehindField(s.format, vs, s.done, Two(s.said, u), ctx.ptr + 1, << >>)
  OBVIOUS
<1> HIDE DEF s
<1>10. /\ Sound(r) <=> Sound(s)
       /\ Count(r) = Count(s) /\ Final(r) = Final(s)
       /\ Alike(r, r.done + 1) = Alike(s, s.done + 1)
  BY <1>7, SamePromise
<1>11. Sound(r) => AsPromised(r, ctx'.ptr, at', back', buf', width')
  BY <1>2, <1>3, <1>7, <1>9, <1>10 DEF AsPromised, ToField, ToFinish, ToEnd
<1>12. Holds(r, ctx', at', back', buf', width')
  BY <1>1, <1>3, <1>7, <1>10, <1>11 DEF Holds
<1>13. Counted(r, at', back')
  BY <1>1, <1>2, <1>7, <1>10 DEF Counted, ToField, ToFinish, ToEnd
<1> QED
  BY <1>1, <1>7, <1>12, <1>13 DEF Running

(* A character of a field is counted. *)
LEMMA CountKeeps ==
  ASSUME PrintInv, UsingTypes', at = "field", Seen(0) # {}, Forward(1),
         UNCHANGED << stack, at, back, buf >>,
         Sound(Top) =>
           \A vs \in Alike(Top, Top.done + 1) :
             InsideField(Top.format, vs, Top.done, Top.said, ctx.ptr + 1, width')
  PROVE  PrintInv'
<1> DEFINE s == Top
<1>1. /\ s \in Frame /\ s.own /\ Counted(s, at, back) /\ UsingTypes
      /\ Holds(s, ctx, at, back, buf, width) /\ s.done < Count(s)
  BY AtFieldHolds
<1>2. /\ ctx'.fmt = ctx.fmt /\ ctx'.live = ctx.live /\ ctx'.ptr = ctx.ptr + 1
  <2>1. 1 \in Nat
    OBVIOUS
  <2> QED
    BY <1>1, <2>1, PointerOn
<1>3. at # "idle" /\ at' # "idle" /\ ~ ToField(at', back') /\ stack' = stack
      /\ at' = "field"
  BY DEF ToField
<1> SUFFICES Running(s, ctx', at', back', buf', width')
  BY <1>3, TopStays
<1>4. Sound(s) =>
        \A vs \in Alike(s, s.done + 1) :
          InsideField(s.format, vs, s.done, s.said, ctx.ptr + 1, width')
  OBVIOUS
<1> HIDE DEF s
<1>5. Sound(s) => AsPromised(s, ctx'.ptr, at', back', buf', width')
  BY <1>2, <1>3, <1>4 DEF AsPromised, ToField, ToFinish, ToEnd
<1>6. Holds(s, ctx', at', back', buf', width')
  BY <1>1, <1>2, <1>5 DEF Holds
<1>7. Counted(s, at', back')
  BY <1>1
<1> QED
  BY <1>1, <1>6, <1>7 DEF Running

(* The field at the pointer of a statement that can be printed. *)
LEMMA AtSoundField ==
  ASSUME PrintInv, at = "field", NEW c \in Seen(0), Sound(Top),
         NEW vs \in Alike(Top, Top.done + 1)
  PROVE  /\ Job(Top.format, vs) /\ Top.said \in Seq(Unit)
         /\ Top.done \in Nat /\ Top.done < Len(vs) /\ vs[Top.done + 1] = Value
         /\ InsideField(Top.format, vs, Top.done, Top.said, ctx.ptr, width)
         /\ Top.format[ctx.ptr] = c
<1> DEFINE s == Top
<1>1. /\ s \in Frame /\ UsingTypes /\ s.done < Count(s)
      /\ Holds(s, ctx, at, back, buf, width)
  BY AtFieldHolds
<1>2. Sound(s) /\ vs \in Alike(s, s.done + 1) /\ Value = s.values[s.done + 1]
  BY DEF Value
<1> HIDE DEF s
<1>3. ctx.live /\ ctx.fmt = s.format /\ AsPromised(s, ctx.ptr, at, back, buf, width)
  BY <1>1, <1>2 DEF Holds
<1>4. c = s.format[ctx.ptr]
  BY <1>1, <1>3, AtPointer
<1>5. s.said \in Seq(Unit) /\ s.done \in Nat
  BY <1>1, FrameFacts
<1>6. s.done + 1 \in Nat /\ s.done + 1 \in 1 .. s.done + 1
  BY <1>5
<1>7. /\ Job(s.format, vs) /\ Len(vs) \in Nat /\ Len(vs) >= s.done + 1
      /\ vs[s.done + 1] = s.values[s.done + 1]
  BY <1>1, <1>2, <1>6, AlikeFacts
<1>8. s.done < Len(vs)
  BY <1>5, <1>7
<1> QED
  BY <1>2, <1>3, <1>4, <1>5, <1>7, <1>8 DEF AsPromised, s

LEMMA ValueTyped ==
  ASSUME PrintInv, at = "field", Seen(0) # {}
  PROVE  Value \in Seq(STRING) /\ Value \in Seq(Unit)
         /\ \A u : u = (IF Value = << >> THEN << Space >> ELSE << Value[1] >>) =>
                  u \in Seq(Unit)
<1> DEFINE F == Seq(STRING)
<1>1. Top \in Frame /\ Top.done < Count(Top)
  BY AtFieldHolds
<1>2. Top.values \in Seq(F) /\ Top.done \in Nat /\ Count(Top) \in Nat
  BY <1>1, FrameFacts
<1>3. Top.done + 1 \in 1 .. Len(Top.values)
  BY <1>1, <1>2 DEF Count
<1>4. Value \in F
  BY <1>2, <1>3, ElementOfSeq DEF Value
<1>5. STRING \subseteq Unit
  BY DEF Unit
<1>6. Value \in Seq(Unit)
  BY <1>4, <1>5, SeqMonotonic
<1>7. ASSUME NEW u, u = IF Value = << >> THEN << Space >> ELSE << Value[1] >>
      PROVE  u \in Seq(Unit)
  <2>1. u = Shown(Value, 1)
    BY <1>4, <1>7, FirstIsShown, Zenon
  <2> QED
    BY <1>4, <2>1, ShownTyped
<1> QED
  BY <1>4, <1>6, <1>7

LEMMA FirstUnitKeeps ==
  ASSUME PrintInv, UsingTypes', FirstUnit
  PROVE  PrintInv'
<1>1. at = "field" /\ "!" \in Seen(0) /\ Seen(0) # {}
  BY DEF FirstUnit, At
<1>2. PICK u : u = IF Value = << >> THEN << Space >> ELSE << Value[1] >>
  OBVIOUS
<1>3. Put(u)
  BY <1>2 DEF FirstUnit
<1>4. u \in Seq(Unit)
  BY <1>1, <1>2, ValueTyped
<1>5. ASSUME Sound(Top), NEW vs \in Alike(Top, Top.done + 1)
      PROVE  BehindField(Top.format, vs, Top.done, Two(Top.said, u), ctx.ptr + 1, << >>)
  <2>1. /\ Job(Top.format, vs) /\ Top.said \in Seq(Unit)
        /\ Top.done \in Nat /\ Top.done < Len(vs) /\ vs[Top.done + 1] = Value
        /\ InsideField(Top.format, vs, Top.done, Top.said, ctx.ptr, width)
        /\ Top.format[ctx.ptr] = "!"
    BY <1>1, <1>5, AtSoundField
  <2>2. u = IF vs[Top.done + 1] = << >> THEN << Space >> ELSE << vs[Top.done + 1][1] >>
    BY <1>2, <2>1
  <2> QED
    BY <2>1, <2>2, FirstStage
<1> QED
  BY <1>1, <1>3, <1>4, <1>5, PutKeeps

LEMMA WholeKeeps ==
  ASSUME PrintInv, UsingTypes', Whole
  PROVE  PrintInv'
<1>1. at = "field" /\ "&" \in Seen(0) /\ Seen(0) # {} /\ Put(Value)
  BY DEF Whole, At
<1>2. PICK u : u = Value
  OBVIOUS
<1>3. u \in Seq(Unit)
  BY <1>1, <1>2, ValueTyped
<1>4. ASSUME Sound(Top), NEW vs \in Alike(Top, Top.done + 1)
      PROVE  BehindField(Top.format, vs, Top.done, Two(Top.said, u), ctx.ptr + 1, << >>)
  <2>1. /\ Job(Top.format, vs) /\ Top.said \in Seq(Unit)
        /\ Top.done \in Nat /\ Top.done < Len(vs) /\ vs[Top.done + 1] = Value
        /\ InsideField(Top.format, vs, Top.done, Top.said, ctx.ptr, width)
        /\ Top.format[ctx.ptr] = "&"
    BY <1>1, <1>4, AtSoundField
  <2>2. u = vs[Top.done + 1]
    BY <1>2, <2>1
  <2> QED
    BY <2>1, <2>2, WholeStage
<1> QED
  BY <1>1, <1>2, <1>3, <1>4, PutKeeps

LEMMA CloseKeeps ==
  ASSUME PrintInv, UsingTypes', Close
  PROVE  PrintInv'
<1>1. PICK u : u = Filled(Value, IF width + 1 > Room THEN Room ELSE width + 1)
  OBVIOUS
<1>2. at = "field" /\ Backslash \in Seen(0) /\ Seen(0) # {} /\ width > 0 /\ Put(u)
  BY <1>1 DEF Close, At
<1>3. u \in Seq(Unit)
  <2>1. width + 1 \in Nat /\ width + 1 > 1
    BY <1>2 DEF PrintInv, UsingTypes
  <2>2. Value \in Seq(STRING)
    BY <1>2, ValueTyped
  <2> QED
    BY <1>1, <2>1, <2>2, FilledIsShown
<1>4. ASSUME Sound(Top), NEW vs \in Alike(Top, Top.done + 1)
      PROVE  BehindField(Top.format, vs, Top.done, Two(Top.said, u), ctx.ptr + 1, << >>)
  <2>1. /\ Job(Top.format, vs) /\ Top.said \in Seq(Unit)
        /\ Top.done \in Nat /\ Top.done < Len(vs) /\ vs[Top.done + 1] = Value
        /\ InsideField(Top.format, vs, Top.done, Top.said, ctx.ptr, width)
        /\ Top.format[ctx.ptr] = Backslash
    BY <1>2, <1>4, AtSoundField
  <2>2. u = Filled(vs[Top.done + 1], IF width + 1 > Room THEN Room ELSE width + 1)
    BY <1>1, <2>1
  <2> QED
    BY <1>2, <2>1, <2>2, CloseStage
<1> QED
  BY <1>2, <1>3, <1>4, PutKeeps

LEMMA OpenKeeps ==
  ASSUME PrintInv, UsingTypes', Open
  PROVE  PrintInv'
<1>1. /\ at = "field" /\ Backslash \in Seen(0) /\ Seen(0) # {} /\ width = -1
      /\ width' = 1 /\ Forward(1) /\ UNCHANGED << stack, at, back, buf >>
  BY DEF Open, At
<1>2. ASSUME Sound(Top), NEW vs \in Alike(Top, Top.done + 1)
      PROVE  InsideField(Top.format, vs, Top.done, Top.said, ctx.ptr + 1, width')
  <2>1. /\ Job(Top.format, vs) /\ Top.format[ctx.ptr] = Backslash
        /\ InsideField(Top.format, vs, Top.done, Top.said, ctx.ptr, width)
    BY <1>1, <1>2, AtSoundField
  <2> QED
    BY <1>1, <2>1, OpenStage
<1> QED
  BY <1>1, <1>2, CountKeeps

LEMMA BlankKeeps ==
  ASSUME PrintInv, UsingTypes', Blank
  PROVE  PrintInv'
<1>1. /\ at = "field" /\ Space \in Seen(0) /\ Seen(0) # {} /\ width > -1
      /\ width' = width + 1 /\ Forward(1) /\ UNCHANGED << stack, at, back, buf >>
  BY DEF Blank, At
<1>2. ASSUME Sound(Top), NEW vs \in Alike(Top, Top.done + 1)
      PROVE  InsideField(Top.format, vs, Top.done, Top.said, ctx.ptr + 1, width')
  <2>1. /\ Job(Top.format, vs)
        /\ InsideField(Top.format, vs, Top.done, Top.said, ctx.ptr, width)
        /\ Top.format[ctx.ptr] = Space
    BY <1>1, <1>2, AtSoundField
  <2>2. width > 0
    BY <1>1, <2>1 DEF InsideField
  <2> QED
    BY <1>1, <2>1, <2>2, BlankStage
<1> QED
  BY <1>1, <1>2, CountKeeps

LEMMA NoFieldKeeps ==
  ASSUME PrintInv, UsingTypes', NoField
  PROVE  PrintInv'
<1> DEFINE s == Top
<1>1. /\ at = "field" /\ at' = "text" /\ back' = "finish" /\ buf' = << >>
      /\ UNCHANGED << ctx, stack, width >>
      /\ ctx.chars = 0 \/ \E c \in Seen(0) : Misplaced(c)
  BY DEF NoField, Text
<1>2. /\ s \in Frame /\ Running(s, ctx, at, back, buf, width) /\ UsingTypes
  BY <1>1, TopFrame
<1>3. Counted(s, at, back) /\ s.done < Count(s)
  BY <1>1, <1>2 DEF Running, Counted
<1>4. ~ (s.own /\ Holds(s, ctx, at, back, buf, width) /\ Sound(s))
  <2>1. SUFFICES ASSUME s.own, Holds(s, ctx, at, back, buf, width), Sound(s)
                 PROVE  FALSE
    OBVIOUS
  <2> DEFINE f == s.format
             p == ctx.ptr
  <2> HIDE DEF s
  <2>2. ctx.live /\ ctx.fmt = f /\ AsPromised(s, p, at, back, buf, width)
    BY <2>1 DEF Holds
  <2>3. InsideField(f, s.values, s.done, s.said, p, width) /\ Job(f, s.values)
    <3>1. s.done + 1 \in Nat /\ s.done + 1 <= Count(s) /\ Job(f, s.values)
      BY <1>2, <1>3, <2>1, FrameFacts
    <3>2. s.values \in Alike(s, s.done + 1)
      BY <1>2, <3>1, AlikeItself
    <3> QED
      BY <1>1, <2>2, <3>1, <3>2 DEF AsPromised
  <2> HIDE DEF f, p
  <2>4. /\ p \in 1 .. Len(f)
        /\ width > 0 => f[p] \in {Space, Backslash}
        /\ ~ width > 0 => /\ width = -1 /\ f[p] \in {"!", "&", Backslash}
                          /\ f[p] = Backslash => /\ p + 1 \in 1 .. Len(f)
                                                 /\ f[p + 1] \in {Space, Backslash}
    BY <2>3, FieldGoesOn
  <2>5. /\ ctx.chars = Len(f) + 1 - p /\ Len(f) \in Nat /\ p \in Nat
        /\ \A c \in Seen(0) : c = f[p]
        /\ \A c \in Seen(1) : c = f[p + 1]
    BY <1>2, <2>2, AtPointer DEF p
  <2>6. PICK c \in Seen(0) : Misplaced(c)
    BY <1>1, <2>4, <2>5
  <2>7. c = f[p] /\ width \in Int
    BY <1>2, <2>5 DEF UsingTypes
  <2>8. /\ c \notin {"!", "&"}
        /\ c = Space  => width = -1
        /\ c = Backslash => width = -1 /\ (ctx.chars = 1 \/ Seen(1) \ {Space, Backslash} # {})
    BY <2>6 DEF Misplaced
  <2>9. CASE width > 0
    BY <2>4, <2>7, <2>8, <2>9
  <2>10. CASE ~ width > 0
    <3>1. c = Backslash
      BY <2>4, <2>7, <2>8, <2>10
    <3>2. ctx.chars # 1
      BY <2>4, <2>5, <2>7, <2>10, <3>1
    <3>3. Seen(1) \subseteq {Space, Backslash}
      BY <2>4, <2>5, <2>7, <2>10, <3>1
    <3> QED
      BY <2>8, <3>1, <3>2, <3>3
  <2> QED
    BY <2>9, <2>10
<1>5. at # "idle" /\ at' # "idle" /\ ~ ToField(at', back')
  BY <1>1 DEF ToField
<1> SUFFICES Running(s, ctx', at', back', buf', width')
  BY <1>1, <1>5, TopStays
<1> HIDE DEF s
<1>6. Counted(s, at', back')
  BY <1>1, <1>3 DEF Counted, ToField, ToFinish, ToEnd
<1>7. CASE s.own
  <2>1. s.done # Count(s)
    BY <1>2, <1>3, FrameFacts
  <2>2. Holds(s, ctx, at, back, buf, width)
    BY <1>2, <1>7, <2>1 DEF Running, Released
  <2>3. Holds(s, ctx', at', back', buf', width')
    BY <1>1, <1>4, <1>7, <2>2 DEF Holds
  <2> QED
    BY <1>6, <1>7, <2>3 DEF Running
<1>8. CASE ~ s.own
  <2>1. Lost(s, ctx', at', buf')
    BY <1>1, <1>2, <1>8 DEF Running, Lost
  <2> QED
    BY <1>6, <1>8, <2>1 DEF Running
<1> QED
  BY <1>2, <1>7, <1>8, FrameFacts

LEMMA CallKeeps ==
  ASSUME PrintInv, UsingTypes', Call
  PROVE  PrintInv'
<1> DEFINE s == Top
<1>1. /\ at = "argument" /\ s.done < Count(s) /\ width' = -1 /\ stack' = stack
      /\ at' = "text" /\ back' = "field" /\ buf' = << >>
      /\ ctx' = IF ctx.chars = 0 /\ ctx.live
                THEN [ctx EXCEPT !.ptr = 1, !.chars = Len(ctx.fmt)] ELSE ctx
  BY DEF Call, Text, Count
<1>2. /\ s \in Frame /\ Running(s, ctx, at, back, buf, width) /\ UsingTypes
      /\ at # "idle"
  BY <1>1, TopFrame
<1>3. /\ ctx'.fmt = ctx.fmt /\ ctx'.live = ctx.live
      /\ ctx'.ptr = IF ctx.chars = 0 /\ ctx.live THEN 1 ELSE ctx.ptr
      /\ ~ ctx.live => ctx'.chars = ctx.chars
  <2> DEFINE F == Seq(STRING)
  <2>1. ctx \in [fmt : F, live : BOOLEAN, ptr : Nat, chars : Nat]
    BY <1>2 DEF UsingTypes, InFormat, Context
  <2> HIDE DEF F
  <2>2. CASE ctx.chars = 0 /\ ctx.live
    <3>1. ctx' = [ctx EXCEPT !.ptr = 1, !.chars = Len(ctx.fmt)]
      BY <1>1, <2>2
    <3> QED
      BY <2>1, <2>2, <3>1
  <2>3. CASE ~ (ctx.chars = 0 /\ ctx.live)
    BY <1>1, <2>3
  <2> QED
    BY <2>2, <2>3
<1>4. at' # "idle"
  BY <1>1
<1> SUFFICES Running(s, ctx', at', back', buf', width')
  BY <1>1, <1>2, <1>4, TopStays
<1> HIDE DEF s
<1>5. Counted(s, at', back')
  BY <1>1, <1>2 DEF Running, Counted, ToField, ToFinish, ToEnd
<1>6. s.done # Count(s)
  BY <1>1, <1>2, FrameFacts
<1>7. CASE s.own
  <2>1. Holds(s, ctx, at, back, buf, width)
    BY <1>2, <1>6, <1>7 DEF Running, Released
  <2>2. ASSUME Sound(s)  PROVE AsPromised(s, ctx'.ptr, at', back', buf', width')
    <3> DEFINE f == s.format
               p == ctx.ptr
    <3>1. /\ AsPromised(s, p, at, back, buf, width) /\ ctx.fmt = f /\ ctx.live
          /\ s.done \in Nat
      BY <1>2, <2>1, <2>2, FrameFacts DEF Holds
    <3>2. ctx.chars = Len(f) + 1 - p /\ Len(f) \in Nat /\ p \in Nat
      BY <1>2, <3>1, AtPointer
    <3> HIDE DEF f
    <3>3. ctx.chars = 0 <=> p = Len(f) + 1
      BY <3>2
    <3>4. ctx'.ptr = IF p = Len(f) + 1 THEN 1 ELSE p
      BY <1>3, <3>1, <3>2, <3>3
    <3>5. PICK e : e = buf'
      OBVIOUS
    <3>6. ASSUME NEW vs \in Alike(s, s.done + 1)
          PROVE  BeforeField(f, vs, s.done, s.said, IF p = Len(f) + 1 THEN 1 ELSE p, e)
      <4>1. vs \in Alike(s, s.done)
        BY <3>1, AlikeLess
      <4>2. AtArgument(f, vs, s.done, s.said, p)
        BY <1>1, <3>1, <4>1 DEF AsPromised, f
      <4>3. Job(f, vs) /\ Len(vs) \in Nat /\ Len(vs) >= s.done + 1
        <5>1. s.done + 1 \in Nat
          BY <3>1
        <5> QED
          BY <1>2, <2>2, <5>1, AlikeFacts DEF f
      <4>4. s.done < Len(vs)
        BY <3>1, <4>3
      <4> QED
        BY <1>1, <3>5, <4>2, <4>3, <4>4, CallStage
    <3>7. \A vs \in Alike(s, s.done + 1) :
             BeforeField(f, vs, s.done, s.said, ctx'.ptr, buf')
      BY <3>4, <3>5, <3>6
    <3> QED
      BY <1>1, <3>7 DEF AsPromised, ToField, ToFinish, ToEnd, f
  <2>3. Holds(s, ctx', at', back', buf', width')
    BY <1>3, <2>1, <2>2 DEF Holds
  <2> QED
    BY <1>5, <1>7, <2>3 DEF Running
<1>8. CASE ~ s.own
  <2>1. Lost(s, ctx', at', buf')
    BY <1>1, <1>2, <1>3, <1>8 DEF Running, Lost
  <2> QED
    BY <1>5, <1>8, <2>1 DEF Running
<1> QED
  BY <1>2, <1>7, <1>8, FrameFacts

LEMMA EndKeeps ==
  ASSUME PrintInv, UsingTypes', End
  PROVE  PrintInv'
<1> DEFINE s == Top
<1>1. /\ at = "argument" /\ s.done = Count(s) /\ UNCHANGED << ctx, stack, width >>
      /\ at' = "text" /\ back' = "end" /\ buf' = << >>
  BY DEF End, Text, Count
<1>2. /\ s \in Frame /\ Running(s, ctx, at, back, buf, width) /\ at # "idle"
  BY <1>1, TopFrame
<1>3. at' # "idle" /\ ~ ToField(at', back')
  BY <1>1 DEF ToField
<1> SUFFICES Running(s, ctx', at', back', buf', width')
  BY <1>1, <1>2, <1>3, TopStays
<1> HIDE DEF s
<1>4. Counted(s, at', back')
  BY <1>1, <1>2 DEF Running, Counted, ToField, ToFinish, ToEnd
<1>5. CASE s.own /\ Holds(s, ctx, at, back, buf, width)
  <2>1. ASSUME Sound(s)  PROVE AsPromised(s, ctx'.ptr, at', back', buf', width')
    <3> DEFINE f == s.format
               p == ctx.ptr
    <3>1. /\ Job(f, s.values) /\ s.done = Len(s.values)
          /\ AtArgument(f, s.values, s.done, s.said, p)
      <4>1. s.done \in Nat /\ s.done <= Count(s) /\ Job(f, s.values)
        BY <1>1, <1>2, <2>1, FrameFacts
      <4>2. s.values \in Alike(s, s.done)
        BY <1>2, <4>1, AlikeItself
      <4> QED
        BY <1>1, <1>5, <2>1, <4>1, <4>2 DEF Holds, AsPromised, Count
    <3>2. PICK e : e = buf'
      OBVIOUS
    <3>3. BeforeEnd(f, s.values, s.said, p, e)
      BY <1>1, <3>1, <3>2, EndStage
    <3> QED
      BY <1>1, <3>2, <3>3 DEF AsPromised, ToField, ToFinish, ToEnd
  <2>2. Holds(s, ctx', at', back', buf', width')
    BY <1>1, <1>5, <2>1 DEF Holds
  <2> QED
    BY <1>4, <1>5, <2>2 DEF Running
<1>6. CASE s.own /\ Released(s, ctx, at, buf)
  <2>1. << >> \in Seq(Litter) /\ Len(<< >>) = 0 /\ ctx.chars \in Nat
    BY <1>2, EmptySeq, AtPointer DEF PrintInv
  <2>2. 0 + ctx.chars = ctx.chars
    BY <2>1
  <2>3. PICK e : e = buf'
    OBVIOUS
  <2>4. e \in Seq(Litter) /\ Len(e) + ctx.chars = ctx.chars /\ e = << >>
    BY <1>1, <2>1, <2>2, <2>3
  <2>5. Released(s, ctx', at', e)
    BY <1>1, <1>6, <2>4 DEF Released
  <2>6. Released(s, ctx', at', buf')
    BY <2>3, <2>5
  <2> QED
    BY <1>4, <1>6, <2>6 DEF Running
<1>7. CASE ~ s.own
  <2>1. Lost(s, ctx', at', buf')
    BY <1>1, <1>2, <1>7 DEF Running, Lost
  <2> QED
    BY <1>4, <1>7, <2>1 DEF Running
<1> QED
  BY <1>2, <1>5, <1>6, <1>7 DEF Running

LEMMA LineTyped ==
  ASSUME NEW s \in Frame, Sound(s)
  PROVE  WithLine(s) \in Seq(Unit)
<1>1. Promised(s) \in Seq(Unit) /\ Newline \in Unit
  BY FrameFacts DEF Unit
<1>2. << Newline >> \in Seq(Unit)
  BY <1>1
<1> QED
  BY <1>1, <1>2, TwoPieces DEF WithLine

(* What it has printed of so many values. *)
LEMMA BegunTyped ==
  ASSUME NEW s \in Frame, NEW n \in Nat, n <= Count(s), Sound(s)
  PROVE  Begun(s, n) \in Seq(Unit)
<1> DEFINE vs == SubSeq(s.values, 1, n)
           U  == Seq(Unit)
<1>1. Begun(s, n) = IF n = 0 THEN << >> ELSE Owed(Items(s.format), vs, 1)
  BY BegunIsOwed
<1>2. vs \in Alike(s, n) /\ Len(vs) = n
  BY AlikeFirst
<1> HIDE DEF vs
<1>3. Printable(Items(s.format), vs)
  BY <1>2, AlikeFacts, JobFacts
<1>4. 1 \in 1 .. Len(vs) + 1
  BY <1>2
<1>5. Owed(Items(s.format), vs, 1) \in U
  BY <1>3, <1>4, OwedFacts DEF OwedAt
<1>6. << >> \in U
  BY EmptySeq
<1> HIDE DEF U
<1> QED
  BY <1>1, <1>5, <1>6, Zenon DEF U

LEMMA FinishKeeps ==
  ASSUME PrintInv, UsingTypes', Finish
  PROVE  PrintInv'
<1> DEFINE s == Top
<1>1. PICK last \in BOOLEAN : last <=> (s.newline /\ s.done + 1 = Count(s))
  <2>1. (s.newline /\ s.done + 1 = Count(s)) \in BOOLEAN
    BY Zenon
  <2> QED
    BY <2>1
<1>2. PICK r : r = [s EXCEPT !.done = @ + 1,
                             !.said = IF last THEN Append(@, Newline) ELSE @]
  OBVIOUS
<1>3. /\ at = "finish" /\ stack' = WithTop(r)
      /\ ctx' = [ctx EXCEPT !.live = @ /\ ~ last]
      /\ at' = "argument" /\ back' = "idle" /\ buf' = << >> /\ width' = -1
  BY <1>1, <1>2 DEF Finish, Goto, Count
<1>4. /\ s \in Frame /\ Running(s, ctx, at, back, buf, width) /\ UsingTypes
      /\ at # "idle"
  BY <1>3, TopFrame
<1>5. r \in Frame /\ Finishes(r, s, last)
  BY <1>2, <1>4, FrameFinishes
<1>6. /\ r.format = s.format /\ r.values = s.values /\ r.newline = s.newline
      /\ r.done = s.done + 1 /\ r.own = s.own /\ r.lost = s.lost
      /\ r.said = Two(s.said, IF last THEN << Newline >> ELSE << >>)
  BY <1>5 DEF Finishes
<1>7. /\ ctx'.fmt = ctx.fmt /\ ctx'.ptr = ctx.ptr /\ ctx'.chars = ctx.chars
      /\ ctx'.live <=> ctx.live /\ ~ last
  <2> DEFINE F == Seq(STRING)
  <2>1. ctx \in [fmt : F, live : BOOLEAN, ptr : Nat, chars : Nat]
    BY <1>4 DEF UsingTypes, InFormat, Context
  <2> HIDE DEF F
  <2> QED
    BY <1>3, <2>1
<1>8. at' # "idle" /\ ~ ToField(at', back')
  BY <1>3 DEF ToField
<1> SUFFICES Running(r, ctx', at', back', buf', width')
  BY <1>3, <1>4, <1>5, <1>6, <1>8, TopGoesOn
<1> HIDE DEF s
<1>9. /\ Sound(r) <=> Sound(s)
      /\ Promised(r) = Promised(s) /\ Count(r) = Count(s) /\ Final(r) = Final(s)
      /\ FieldLeft(r) <=> FieldLeft(s)
      /\ Begun(r, r.lost) = Begun(s, s.lost)
      /\ Alike(r, r.done) = Alike(s, s.done + 1)
  BY <1>6, SamePromise
<1>10. /\ s.done < Count(s) /\ s.done \in Nat /\ Count(s) \in Nat
       /\ s.said \in Seq(Unit) /\ s.newline \in BOOLEAN
  BY <1>3, <1>4, FrameFacts DEF Running, Counted
<1>11. Counted(r, at', back')
  BY <1>3, <1>6, <1>9, <1>10 DEF Counted, ToField, ToFinish, ToEnd
<1>12. s.values # << >>
  <2>1. Len(<< >>) = 0
    BY EmptySeq
  <2> QED
    BY <1>10, <2>1 DEF Count
<1>13. Final(s) = IF s.newline THEN << Newline >> ELSE << >>
  BY <1>12 DEF Final
<1>14. ~ last => r.said = s.said
  <2>1. Two(s.said, << >>) = s.said
    BY <1>10, TwoPieces
  <2> QED
    BY <1>6, <2>1, Zenon
<1>15. CASE s.own
  <2>1. Holds(s, ctx, at, back, buf, width)
    BY <1>4, <1>10, <1>15 DEF Running, Released
  <2>2. ctx.live /\ ctx.fmt = s.format
    BY <2>1 DEF Holds
  <2>3. ASSUME Sound(s)
        PROVE  \A vs \in Alike(s, s.done + 1) :
                 Job(s.format, vs) /\ AtFinish(s.format, vs, s.done, s.said, ctx.ptr)
    <3>1. AsPromised(s, ctx.ptr, at, back, buf, width) /\ s.done + 1 \in Nat
      BY <1>10, <2>1, <2>3 DEF Holds
    <3>2. \A vs \in Alike(s, s.done + 1) : Job(s.format, vs)
      BY <1>4, <2>3, <3>1, AlikeFacts
    <3> QED
      BY <1>3, <3>1, <3>2 DEF AsPromised
  <2>4. CASE ~ last
    <3>1. ASSUME Sound(r)  PROVE AsPromised(r, ctx'.ptr, at', back', buf', width')
      <4>1. \A vs \in Alike(s, s.done + 1) :
               AtArgument(s.format, vs, s.done + 1, s.said, ctx.ptr)
        BY <1>9, <1>10, <2>3, <3>1, FinishStage
      <4>2. \A vs \in Alike(r, r.done) :
               AtArgument(r.format, vs, r.done, r.said, ctx'.ptr)
        BY <1>6, <1>7, <1>9, <1>14, <2>4, <4>1
      <4> QED
        BY <1>3, <4>2 DEF AsPromised, ToField, ToFinish, ToEnd
    <3>2. r.done = Count(r) => Final(r) = << >>
      BY <1>1, <1>6, <1>9, <1>13, <2>4
    <3>3. Holds(r, ctx', at', back', buf', width')
      BY <1>6, <1>7, <2>2, <2>4, <3>1, <3>2 DEF Holds
    <3> QED
      BY <1>6, <1>11, <1>15, <3>3 DEF Running
  <2>5. CASE last
    <3>1. s.newline /\ s.done + 1 = Count(s) /\ r.said = Two(s.said, << Newline >>)
      BY <1>1, <1>6, <2>5
    <3>2. ASSUME Sound(s)
          PROVE  /\ r.said = WithLine(r) /\ ctx.chars <= Len(r.format)
                 /\ FieldLeft(r) \/ ctx.chars = 0
      <4>1. /\ Job(s.format, s.values) /\ s.done + 1 = Len(s.values)
            /\ AtFinish(s.format, s.values, s.done, s.said, ctx.ptr)
        <5>1. s.done + 1 \in Nat /\ s.done + 1 <= Count(s)
          BY <1>10, <3>1
        <5>2. s.values \in Alike(s, s.done + 1)
          BY <1>4, <5>1, AlikeItself
        <5> QED
          BY <2>3, <3>1, <3>2, <5>2 DEF Count
      <4>2. /\ AtEnd(s.format, s.values, s.said)
            /\ ctx.ptr # Len(s.format) + 1 =>
                 \E j \in FieldsIn(Items(s.format)) :
                    j > FieldOf(Items(s.format), s.values, Len(s.values))
        BY <1>10, <4>1, LastStage
      <4>3. s.said = Promised(s)
        BY <1>4, <4>2, FrameFacts DEF AtEnd
      <4>4. r.said = WithLine(s) /\ WithLine(r) = WithLine(s)
        BY <1>9, <3>1, <4>3 DEF WithLine
      <4>5. /\ ctx.chars = Len(s.format) + 1 - ctx.ptr /\ Len(s.format) \in Nat
            /\ ctx.ptr \in 1 .. Len(s.format) + 1
        BY <1>4, <2>2, AtPointer
      <4>6. ctx.chars <= Len(s.format) /\ (ctx.ptr = Len(s.format) + 1 => ctx.chars = 0)
        BY <4>5
      <4>7. ctx.ptr # Len(s.format) + 1 => FieldLeft(s)
        BY <4>2, FieldLeftIs
      <4> QED
        BY <1>6, <1>9, <4>4, <4>6, <4>7
    <3>3. r.done = Count(r) /\ Final(r) = << Newline >>
      BY <1>6, <1>9, <1>13, <3>1
    <3>4. at' = "argument" /\ ctx'.chars = ctx.chars /\ ~ ctx'.live
      BY <1>3, <1>7, <2>5
    <3>5. Released(r, ctx', at', buf')
      BY <1>9, <3>2, <3>3, <3>4 DEF Released
    <3> QED
      BY <1>6, <1>11, <1>15, <3>5 DEF Running
  <2> QED
    BY <2>4, <2>5
<1>16. CASE ~ s.own
  <2>1. Lost(s, ctx, at, buf)
    BY <1>4, <1>16 DEF Running
  <2>2. ~ ctx'.live /\ ctx'.chars = 0 /\ at' # "text"
    BY <1>3, <1>7, <2>1 DEF Lost
  <2>3. Cut(s)
    BY <2>1 DEF Lost
  <2>4. Cut(r)
    <3> DEFINE b == Begun(s, s.lost)
    <3>1. s.done # Count(s)
      BY <1>10
    <3>2. Sound(s) => s.said = Two(b, << >>)
      BY <2>3, <3>1 DEF Cut
    <3>3. Sound(s) => b \in Seq(Unit)
      <4>1. s.lost \in Nat /\ s.lost <= Count(s)
        BY <1>4, <2>3, FrameFacts DEF Cut
      <4> QED
        BY <1>4, <4>1, BegunTyped
    <3> HIDE DEF b
    <3>4. Sound(s) => s.said = b /\ Two(b, << >>) = b
      BY <3>2, <3>3, TwoPieces, Zenon
    <3>5. CASE last
      <4>1. s.newline /\ s.done + 1 = Count(s) /\ r.said = Two(s.said, << Newline >>)
        BY <1>1, <1>6, <3>5
      <4>2. Final(s) = << Newline >>
        BY <1>13, <4>1
      <4>3. r.done = Count(r)
        BY <1>6, <1>9, <4>1
      <4>4. Sound(s) => r.said = Two(b, Final(s))
        BY <3>4, <4>1, <4>2
      <4> QED
        BY <1>6, <1>9, <2>3, <4>3, <4>4 DEF Cut, b
    <3>6. CASE ~ last
      <4>1. s.done + 1 = Count(s) => Final(s) = << >>
        BY <1>1, <1>13, <3>6
      <4>2. (IF r.done = Count(r) THEN Final(r) ELSE << >>) = << >>
        BY <1>6, <1>9, <4>1
      <4>3. Sound(s) => r.said = Two(b, << >>)
        BY <1>14, <3>4, <3>6
      <4> QED
        BY <1>6, <1>9, <2>3, <4>2, <4>3 DEF Cut, b
    <3> QED
      BY <3>5, <3>6
  <2>5. Lost(r, ctx', at', buf')
    BY <2>2, <2>4 DEF Lost
  <2> QED
    BY <1>6, <1>11, <1>16, <2>5 DEF Running
<1> QED
  BY <1>4, <1>15, <1>16, FrameFacts

(* The statement is over; one that waited for it goes on. *)
LEMMA LeaveKeeps ==
  ASSUME PrintInv, UsingTypes', Leave
  PROVE  PrintInv'
<1> DEFINE n == Len(stack)
<1>1. /\ at = "end" /\ ctx' = Freed /\ stack' = SubSeq(stack, 1, n - 1)
      /\ at' = (IF n = 1 THEN "idle" ELSE "argument")
      /\ back' = "idle" /\ buf' = << >> /\ width' = -1
  BY DEF Leave, Goto, Front
<1>2. n \in 1 .. 2 /\ stack \in Seq(Frame)
  BY <1>1, TopFrame DEF PrintInv
<1>3. \A i \in 1 .. n : stack[i] \in Frame
  BY <1>2, ElementOfSeq
<1> HIDE DEF n
<1>4. /\ stack' \in Seq(Frame) /\ Len(stack') = n - 1
      /\ n = 2 => stack'[1] = stack[1]
  <2>1. \A i \in 1 .. n - 1 : stack[i] \in Frame
    BY <1>2, <1>3
  <2>2. 1 \in Int /\ n - 1 \in Int
    BY <1>2
  <2>3. /\ SubSeq(stack, 1, n - 1) \in Seq(Frame)
        /\ Len(SubSeq(stack, 1, n - 1)) = IF 1 <= n - 1 THEN (n - 1) - 1 + 1 ELSE 0
        /\ \A i \in 1 .. (n - 1) - 1 + 1 : SubSeq(stack, 1, n - 1)[i] = stack[1 + i - 1]
    BY <2>1, <2>2, SubSeqProperties
  <2> QED
    BY <1>1, <1>2, <2>3
<1>5. CASE n = 1
  <2>1. stack' = << >> /\ at' = "idle" /\ Len(stack') = 0
    BY <1>1, <1>4, <1>5, EmptySeq
  <2> QED
    BY <1>4, <2>1 DEF PrintInv, ToField
<1>6. CASE n = 2
  <2>1. stack' # << >> /\ Len(stack') = 1 /\ stack'[1] = stack[1]
    BY <1>4, <1>6, EmptySeq
  <2>2. Top' = stack[1]
    BY <2>1 DEF Top, Last
  <2>3. Suspended(stack[1])
    BY <1>6 DEF PrintInv, n
  <2>4. ctx'.chars = 0 /\ ~ ctx'.live /\ at' = "argument" /\ back' = "idle"
    BY <1>1, <1>6 DEF Freed
  <2>5. PICK s : s = stack[1]
    OBVIOUS
  <2>6. s \in Frame /\ Suspended(s) /\ s.done \in Nat /\ Count(s) \in Nat
    BY <1>2, <1>3, <2>3, <2>5, FrameFacts
  <2>7. Counted(s, at', back')
    BY <2>4, <2>6 DEF Suspended, Counted, ToField, ToFinish, ToEnd
  <2>8. Lost(s, ctx', at', buf')
    BY <2>4, <2>6 DEF Suspended, Lost
  <2>9. Running(s, ctx', at', back', buf', width')
    BY <2>6, <2>7, <2>8 DEF Suspended, Running
  <2>10. Top' = s
    BY <2>2, <2>5
  <2>11. Running(Top', ctx', at', back', buf', width')
    BY <2>9, <2>10
  <2>12. stack' \in Seq(Frame) /\ Len(stack') <= 2 /\ Len(stack') # 2
    <3>1. 1 <= 2 /\ 1 # 2
      OBVIOUS
    <3> QED
      BY <1>4, <2>1, <3>1, Zenon
  <2>13. at' # "idle" /\ ~ ToField(at', back')
    BY <2>4 DEF ToField
  <2> QED
    BY <2>1, <2>11, <2>12, <2>13, Zenon DEF PrintInv
<1> QED
  BY <1>2, <1>5, <1>6

(* A new statement, with everything to come. *)
LEMMA BeginsWhole ==
  ASSUME NEW r, NEW m \in Statements \cup Inner,
         r = [format |-> m.format, values |-> m.values, newline |-> m.newline,
              done |-> 0, said |-> << >>, own |-> TRUE, lost |-> 0],
         NEW c, c.live, c.fmt = m.format, c.ptr = 1, NEW e, NEW w
  PROVE  r \in Frame /\ r.own /\ Running(r, c, "argument", "idle", e, w)
<1> DEFINE F == Seq(STRING)
           V == Seq(F)
           U == Seq(Unit)
           B == << >>
<1>1. m.format \in F /\ m.values \in V /\ m.newline \in BOOLEAN
  <2>1. m \in [format : F, values : V, newline : BOOLEAN]
    BY UsingAssumption
  <2> HIDE DEF F, V
  <2> QED
    BY <2>1
<1>2. B \in U /\ Len(B) = 0
  BY EmptySeq
<1>3. r = [format |-> m.format, values |-> m.values, newline |-> m.newline,
           done |-> 0, said |-> B, own |-> TRUE, lost |-> 0]
  OBVIOUS
<1> HIDE DEF F, V, U, B
<1>4. r \in [format : F, values : V, newline : BOOLEAN, done : Nat, said : U,
             own : BOOLEAN, lost : Nat]
  BY <1>1, <1>2, <1>3
<1>5. r \in Frame
  BY <1>4 DEF Frame, F, V, U
<1>6. r.format = m.format /\ r.values = m.values /\ r.done = 0 /\ r.said = B /\ r.own
  BY <1>3
<1>7. Count(r) \in Nat /\ r.values \in V
  BY <1>5, FrameFacts DEF V, F
<1>8. Counted(r, "argument", "idle")
  BY <1>6, <1>7 DEF Counted, ToField, ToFinish, ToEnd
<1>9. ASSUME Sound(r)  PROVE AsPromised(r, c.ptr, "argument", "idle", e, w)
  <2>1. ASSUME NEW vs \in Alike(r, r.done)
        PROVE  AtArgument(r.format, vs, r.done, r.said, c.ptr)
    <3>1. Job(r.format, vs)
      <4>1. r.done \in Nat
        BY <1>6
      <4> QED
        BY <1>5, <1>9, <4>1, AlikeFacts
    <3>2. Here(r.format, vs, r.said, 1, 0, 0, << >>)
      BY <1>2, <1>6, <3>1, HereFirst DEF U
    <3>3. r.said = << >>
      BY <1>6 DEF B
    <3> QED
      BY <1>6, <3>2, <3>3 DEF AtArgument
  <2> QED
    BY <2>1 DEF AsPromised, ToField, ToFinish, ToEnd
<1>10. r.done = Count(r) => Final(r) = << >>
  <2>1. Count(r) = 0 => r.values = << >>
    BY <1>7, EmptySeq DEF Count, V
  <2> QED
    BY <1>6, <2>1 DEF Final
<1>11. Holds(r, c, "argument", "idle", e, w)
  BY <1>6, <1>9, <1>10 DEF Holds
<1> QED
  BY <1>5, <1>6, <1>8, <1>11 DEF Running

(* Its context taken over, a statement that waits for an argument has      *)
(* printed what was due for the values it has done.                        *)
LEMMA CutThere ==
  ASSUME NEW s \in Frame, NEW c, NEW b, NEW t, NEW w,
         Running(s, c, "argument", b, t, w), s.own, s.done < Count(s),
         NEW r \in Frame, ~ r.own,
         r.format = s.format, r.values = s.values, r.newline = s.newline,
         r.done = s.done, r.said = s.said, r.lost = s.done
  PROVE  Suspended(r)
<1>1. /\ Sound(r) <=> Sound(s)
      /\ Count(r) = Count(s) /\ Begun(r, r.lost) = Begun(s, s.done)
  BY SamePromise
<1>2. s.done \in Nat /\ Count(s) \in Nat /\ s.said \in Seq(Unit)
  BY FrameFacts
<1>3. s.done # Count(s) /\ s.done <= Count(s)
  BY <1>2
<1>4. Holds(s, c, "argument", b, t, w)
  BY <1>3 DEF Running, Released
<1>5. ASSUME Sound(s)  PROVE s.said = Begun(s, s.done)
  <2> DEFINE vs == SubSeq(s.values, 1, s.done)
  <2>1. Begun(s, s.done) = IF s.done = 0 THEN << >> ELSE Owed(Items(s.format), vs, 1)
    BY BegunIsOwed
  <2>2. vs \in Alike(s, s.done) /\ Len(vs) = s.done
    BY <1>2, <1>3, AlikeFirst
  <2> HIDE DEF vs
  <2>3. Job(s.format, vs)
    BY <1>2, <1>5, <2>2, AlikeFacts
  <2>4. AtArgument(s.format, vs, Len(vs), s.said, c.ptr)
    BY <1>4, <1>5, <2>2 DEF Holds, AsPromised
  <2>5. s.said = IF Len(vs) = 0 THEN << >> ELSE Owed(Items(s.format), vs, 1)
    BY <1>2, <2>3, <2>4, ArgumentWhole
  <2> QED
    BY <2>1, <2>2, <2>5
<1>6. Two(s.said, << >>) = s.said
  BY <1>2, TwoPieces
<1>7. (IF r.done = Count(r) THEN Final(r) ELSE << >>) = << >>
  BY <1>1, <1>3
<1>8. Cut(r)
  BY <1>1, <1>3, <1>5, <1>6, <1>7, Zenon DEF Cut
<1> QED
  BY <1>1, <1>8 DEF Suspended

LEMMA TakenOver ==
  ASSUME NEW s \in Frame, NEW c, NEW b, NEW t, NEW w,
         Running(s, c, "argument", b, t, w), s.own, s.done < Count(s),
         NEW r, r = [s EXCEPT !.own = FALSE, !.lost = s.done]
  PROVE  r \in Frame /\ Suspended(r)
<1>1. /\ r \in Frame /\ ~ r.own
      /\ r.format = s.format /\ r.values = s.values /\ r.newline = s.newline
      /\ r.done = s.done /\ r.said = s.said /\ r.lost = s.done
  BY FrameDisowned
<1> QED
  BY <1>1, CutThere, Zenon

LEMMA StartKeeps ==
  ASSUME PrintInv, UsingTypes', NEW m \in Statements \cup Inner, Start(m),
         \/ at = "idle"
         \/ at = "argument" /\ Len(stack) = 1 /\ Top.own /\ Top.done < Count(Top)
  PROVE  PrintInv'
<1>1. PICK r : r = [format |-> m.format, values |-> m.values, newline |-> m.newline,
                    done |-> 0, said |-> << >>, own |-> TRUE, lost |-> 0]
  OBVIOUS
<1> DEFINE under == [i \in DOMAIN stack |->
                       [stack[i] EXCEPT !.own = FALSE, !.lost = stack[i].done]]
<1>2. /\ ctx' = [fmt |-> m.format, live |-> TRUE, ptr |-> 1, chars |-> Len(m.format)]
      /\ stack' = Append(under, r)
      /\ at' = "argument" /\ back' = "idle" /\ buf' = << >> /\ width' = -1
  BY <1>1 DEF Start, Goto
<1>3. ctx'.live /\ ctx'.fmt = m.format /\ ctx'.ptr = 1
  BY <1>2
<1>4. r \in Frame /\ r.own /\ Running(r, ctx', "argument", "idle", buf', width')
  BY <1>1, <1>3, BeginsWhole
<1>5. under \in Seq(Frame) /\ Len(under) <= 1 /\ (Len(under) = 1 => Suspended(under[1]))
  <2>1. CASE at = "idle"
    <3>1. stack = << >>
      BY <2>1 DEF PrintInv
    <3>2. Len(stack) = 0 /\ DOMAIN stack = {}
      BY <3>1, EmptySeq
    <3>3. under = << >>
      BY <3>2
    <3> HIDE DEF under
    <3> QED
      BY <3>3, EmptySeq
  <2>2. CASE at = "argument" /\ Len(stack) = 1 /\ Top.own /\ Top.done < Count(Top)
    <3>1. Top = stack[1]
      BY <2>2 DEF Top, Last
    <3>2. /\ stack[1] \in Frame
          /\ Running(stack[1], ctx, "argument", back, buf, width)
      BY <2>2, <3>1, TopFrame
    <3>3. PICK q : q = [stack[1] EXCEPT !.own = FALSE, !.lost = stack[1].done]
      OBVIOUS
    <3>4. q \in Frame /\ Suspended(q)
      BY <2>2, <3>1, <3>2, <3>3, TakenOver
    <3>5. stack \in Seq(Frame)
      BY DEF PrintInv
    <3>6. DOMAIN stack = 1 .. 1
      BY <2>2, <3>5, LenProperties
    <3>7. \A i \in 1 .. 1 :
             [stack[i] EXCEPT !.own = FALSE, !.lost = stack[i].done] = q
      BY <3>3
    <3>8. under = [i \in 1 .. 1 |-> q]
      BY <3>6, <3>7
    <3> HIDE DEF under
    <3>9. under \in [1 .. 1 -> Frame] /\ under[1] = q /\ DOMAIN under = 1 .. 1
      BY <3>4, <3>8
    <3>10. under \in Seq(Frame)
      BY <3>9, SeqDef
    <3>11. Len(under) = 1
      BY <3>9, <3>10, LenProperties
    <3> QED
      BY <3>4, <3>9, <3>10, <3>11
  <2> QED
    BY <2>1, <2>2
<1> HIDE DEF under
<1>6. /\ stack' \in Seq(Frame) /\ Len(stack') = Len(under) + 1
      /\ stack'[Len(stack')] = r /\ (Len(stack') = 2 => stack'[1] = under[1])
      /\ Len(under) \in Nat
  <2>1. Append(under, r) \in Seq(Frame) /\ Len(Append(under, r)) = Len(under) + 1
        /\ \A i \in 1 .. Len(under) : Append(under, r)[i] = under[i]
        /\ Append(under, r)[Len(under) + 1] = r
    BY <1>4, <1>5, AppendProperties
  <2>2. Len(under) \in Nat
    BY <1>5, LenProperties
  <2> QED
    BY <1>2, <2>1, <2>2
<1>7. stack' # << >> /\ Top' = r
  BY <1>6, EmptySeq DEF Top, Last
<1>8. Running(Top', ctx', at', back', buf', width')
  BY <1>2, <1>4, <1>7
<1>9. Len(stack') <= 2 /\ (Len(stack') = 2 => Top'.own /\ Suspended(stack'[1]))
  <2>1. PICK n \in Nat : n = Len(under)
    BY <1>6
  <2>2. PICK l : l = Len(stack')
    OBVIOUS
  <2>3. l = n + 1 /\ n <= 1
    BY <1>5, <1>6, <2>1, <2>2
  <2>4. l <= 2 /\ (l = 2 => n = 1)
    BY <2>1, <2>3
  <2> QED
    BY <1>4, <1>5, <1>6, <1>7, <2>1, <2>2, <2>4, Zenon
<1>10. at' # "idle" /\ ~ ToField(at', back')
  BY <1>2 DEF ToField
<1> QED
  BY <1>6, <1>7, <1>8, <1>9, <1>10, Zenon DEF PrintInv

(* At the end the output is as promised. *)
LEMMA InvPromises == PrintInv => PrintsAsPromised
<1> DEFINE s     == Top
           final == Final(s)
<1> SUFFICES ASSUME PrintInv, at = "end", WellFormed(Items(s.format))
             PROVE  \/ s.own /\ s.said = Two(Promised(s), final)
                    \/ /\ s.own /\ FieldLeft(s) /\ final # << >>
                       /\ \E rest \in Remains(s) :
                            s.said = Two(Two(Promised(s), final), rest)
                    \/ ~ s.own /\ s.said = Two(Begun(s, s.lost), final)
  BY Zenon DEF PrintsAsPromised, Two
<1>1. s \in Frame /\ Running(s, ctx, at, back, buf, width)
  BY TopFrame
<1>2. Sound(s)
  BY DEF Sound
<1> HIDE DEF s
<1>3. s.done = Count(s) /\ s.own \in BOOLEAN /\ Promised(s) \in Seq(Unit)
  BY <1>1, <1>2, FrameFacts DEF Running, Counted
<1>4. CASE s.own /\ Holds(s, ctx, at, back, buf, width)
  <2>1. final = << >>
    BY <1>3, <1>4 DEF Holds
  <2>2. AtEnd(s.format, s.values, s.said)
    BY <1>2, <1>4 DEF Holds, AsPromised
  <2>3. s.said = Promised(s)
    BY <1>1, <2>2, FrameFacts DEF AtEnd
  <2>4. Two(Promised(s), << >>) = Promised(s)
    BY <1>3, TwoPieces
  <2> QED
    BY <1>4, <2>1, <2>3, <2>4, Zenon
<1>5. CASE s.own /\ Released(s, ctx, at, buf)
  <2>1. /\ final = << Newline >>
        /\ Follows(s) /\ (FieldLeft(s) \/ s.said = WithLine(s))
    BY <1>2, <1>5 DEF Released
  <2>2. WithLine(s) = Two(Promised(s), final)
    BY <2>1, Zenon DEF WithLine
  <2>3. CASE s.said = WithLine(s)
    BY <1>5, <2>2, <2>3, Zenon
  <2>4. CASE FieldLeft(s)
    <3>1. PICK rest \in Seq(Litter) : /\ Len(rest) <= Room /\ Len(rest) <= Len(s.format)
                                      /\ s.said = Two(WithLine(s), rest)
      BY <2>1 DEF Follows
    <3>2. rest \in Remains(s)
      <4>1. rest \in [1 .. Len(rest) -> Litter] /\ Len(rest) \in Nat
        BY LenProperties
      <4>2. Len(rest) \in {k \in 0 .. Room : k <= Len(s.format)}
        BY <3>1, <4>1, UsingAssumption
      <4> HIDE DEF s
      <4> QED
        BY <4>1, <4>2 DEF Remains
    <3>3. << Newline >> # << >>
      OBVIOUS
    <3>4. final # << >>
      BY <2>1, <3>3
    <3>5. s.said = Two(Two(Promised(s), final), rest)
      BY <2>2, <3>1
    <3> QED
      BY <1>5, <2>4, <3>2, <3>4, <3>5, Zenon
  <2> QED
    BY <2>1, <2>3, <2>4
<1>6. CASE ~ s.own
  <2>1. Cut(s)
    BY <1>1, <1>6 DEF Running, Lost
  <2>2. s.said = Two(Begun(s, s.lost), final)
    BY <1>2, <1>3, <2>1 DEF Cut
  <2> QED
    BY <1>6, <2>2
<1> QED
  BY <1>1, <1>3, <1>4, <1>5, <1>6 DEF Running

LEMMA PrintInitially == Init => PrintInv
<1> SUFFICES ASSUME Init  PROVE PrintInv
  OBVIOUS
<1>1. UsingTypes
  BY FreedIn, Nothing1, EmptySeq DEF Init, UsingTypes, Places, Stacked
<1>2. stack = << >> /\ Len(stack) = 0 /\ stack \in Seq(Frame) /\ at = "idle"
  BY EmptySeq DEF Init
<1> QED
  BY <1>1, <1>2 DEF PrintInv, ToField

LEMMA PrintKept ==
  ASSUME PrintInv, [Next]_vars
  PROVE  PrintInv'
<1>1. UsingTypes
  BY DEF PrintInv
<1>2. CASE Begin
  <2>1. PICK m \in Statements : Start(m)
    BY <1>2 DEF Begin
  <2>2. at = "idle" /\ m \in Statements \cup Inner
    BY <1>2 DEF Begin
  <2>3. UsingTypes'
    BY <1>1, <2>1, <2>2, UsingStarts
  <2> QED
    BY <2>1, <2>2, <2>3, StartKeeps
<1>3. CASE Nest
  <2>1. PICK m \in Inner : Start(m)
    BY <1>3 DEF Nest
  <2>2. /\ at = "argument" /\ Len(stack) = 1 /\ Top.own /\ Top.done < Count(Top)
        /\ m \in Statements \cup Inner
    BY <1>3 DEF Nest, Count
  <2>3. UsingTypes'
    BY <1>1, <2>1, <2>2, UsingStarts
  <2> QED
    BY <2>1, <2>2, <2>3, StartKeeps
<1>4. CASE Step
  <2>1. UsingTypes'
    BY <1>1, <1>4, StepTypes
  <2> QED
    BY <1>4, <2>1, CallKeeps, TextCharKeeps, TextEndKeeps, FirstUnitKeeps, WholeKeeps,
       OpenKeeps, BlankKeeps, CloseKeeps, NoFieldKeeps, FinishKeeps, EndKeeps,
       LeaveKeeps DEF Step
<1>5. CASE UNCHANGED vars
  <2>1. UsingTypes'
    BY <1>1, <1>5 DEF vars, UsingTypes, InFormat
  <2>2. Top' = Top
    BY <1>5 DEF vars, Top
  <2> QED
    BY <1>5, <2>1, <2>2 DEF vars, PrintInv
<1> QED
  BY <1>2, <1>3, <1>4, <1>5 DEF Next

(* A PRINT USING that had the context for itself prints, unit by unit, the *)
(* text the manual's fields make up: every value in the next field, behind *)
(* the literal text in front of that, the format from its beginning again  *)
(* when it is exhausted, the text behind the last field, the new line.     *)
(* If it frees the format with a field left over, no more may follow than  *)
(* the format was long and the buffer takes.  One whose argument executed  *)
(* a PRINT USING has printed just what was due up to that argument, and    *)
(* its new line.  For every well-formed format, any values, every size of  *)
(* the buffer, and whatever is found where a format was freed.             *)
THEOREM UsingPrintsAsPromised == Spec => []PrintsAsPromised
<1>1. PrintInv /\ [Next]_vars => PrintInv'
  BY PrintKept
<1> QED
  BY PrintInitially, <1>1, InvPromises, PTL DEF Spec

=============================================================================
