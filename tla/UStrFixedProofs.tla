--------------------------- MODULE UStrFixedProofs --------------------------
(***************************************************************************)
(* The cells of a field implement a text, for every set of fields and      *)
(* var-len ustrings, every capacity and every operand: the statements of   *)
(* UStrFixed refine those of UStrFields.  The invariant names for each     *)
(* place the text that its cells show, which is what a walk to the first   *)
(* NUL finds there, and how far from the start a field may hold anything   *)
(* but NULs.                                                               *)
(***************************************************************************)
EXTENDS UStrFixed, SequenceTheorems, FiniteSetTheorems, WellFoundedInduction,
        TLAPS

(* The cells s of place p, n units of which were filled last, show the     *)
(* text t.                                                                 *)
Shows(p, s, t, n) ==
  /\ s \in Seq(Cell)
  /\ IF p \in Fixed
     THEN /\ Len(s) = Cap[p] + 1 /\ t = SubSeq(s, 1, Walk(s))
          /\ n \in 0 .. Cap[p] /\ Len(t) <= n
          /\ \A i \in 1 .. Len(s) : i > n => s[i] = Nul
     ELSE s = t

IInv ==
  /\ cells = [p \in Place |-> cells[p]]
  /\ filled = [f \in Fixed |-> filled[f]]
  /\ \A p \in Place : Shows(p, cells[p], Text(p), filled[p])

-----------------------------------------------------------------------------
(* Numbers and sequences *)

(* The least-number principle, from the inclusion order on finite sets,    *)
(* which has no infinite descent: the least number is the end of a least   *)
(* interval 0 .. n.                                                        *)
LEMMA Least ==
  ASSUME NEW T \in SUBSET Nat, T # {}
  PROVE  \E n \in T : \A k \in T : n <= k
<1>. DEFINE Up == {0 .. k : k \in T}
<1>1. Up \subseteq FiniteSubsetsOf(Nat)
  <2>. SUFFICES ASSUME NEW k \in T
                PROVE  0 .. k \in SUBSET Nat /\ IsFiniteSet(0 .. k)
    BY DEF FiniteSubsetsOf
  <2>1. k \in Int /\ 0 \in Int
    OBVIOUS
  <2>2. IsFiniteSet(0 .. k)
    BY <2>1, FS_Interval
  <2>. QED  BY <2>2
<1>2. Up # {}
  OBVIOUS
<1>3. PICK X \in Up : \A Y \in Up : ~ (<< Y, X >> \in StrictSubsetOrdering(Nat))
  BY <1>1, <1>2, WFMin, FS_StrictSubsetOrderingWellFounded
<1>4. PICK n \in T : X = 0 .. n
  OBVIOUS
<1>5. ASSUME NEW k \in T, k < n  PROVE FALSE
  <2>1. 0 .. k \subseteq 0 .. n /\ n \notin 0 .. k /\ n \in 0 .. n
    BY <1>5
  <2>2. 0 .. k \in SUBSET Nat /\ 0 .. n \in SUBSET Nat
    OBVIOUS
  <2>3. 0 .. k # 0 .. n
    BY <2>1
  <2>4. << 0 .. k, 0 .. n >> \in StrictSubsetOrdering(Nat)
    BY <2>1, <2>2, <2>3 DEF StrictSubsetOrdering
  <2>. QED  BY <2>4, <1>3, <1>4
<1>. QED  BY <1>5

LEMMA MadeOf ==
  ASSUME NEW S, NEW n \in Nat, NEW f \in [1 .. n -> S]
  PROVE  f \in Seq(S) /\ Len(f) = n
OBVIOUS

LEMMA First ==
  ASSUME NEW S, NEW t \in Seq(S), NEW n \in 0 .. Len(t)
  PROVE  /\ SubSeq(t, 1, n) \in Seq(S) /\ Len(SubSeq(t, 1, n)) = n
         /\ \A i \in 1 .. n : SubSeq(t, 1, n)[i] = t[i]
<1>1. n \in Int /\ 1 \in Int /\ \A i \in 1 .. n : t[i] \in S
  OBVIOUS
<1>. QED  BY <1>1, SubSeqProperties

LEMMA PutIs ==
  ASSUME NEW S, NEW s \in Seq(S), NEW u \in Seq(S), NEW at \in Nat
  PROVE  /\ Put(s, at, u) \in Seq(S) /\ Len(Put(s, at, u)) = Len(s)
         /\ \A i \in 1 .. Len(s) :
              Put(s, at, u)[i] = IF i > at /\ i <= at + Len(u) THEN u[i - at]
                                 ELSE s[i]
<1>1. DOMAIN s = 1 .. Len(s) /\ DOMAIN u = 1 .. Len(u) /\ Len(s) \in Nat
      /\ Len(u) \in Nat
  OBVIOUS
<1>2. \A i \in 1 .. Len(s) : i - at \in DOMAIN u <=> i > at /\ i <= at + Len(u)
  BY <1>1
<1>3. \A i \in 1 .. Len(s) : (IF i - at \in DOMAIN u THEN u[i - at] ELSE s[i]) \in S
  BY <1>1
<1>4. Put(s, at, u) = [i \in 1 .. Len(s) |-> IF i - at \in DOMAIN u THEN u[i - at] ELSE s[i]]
  BY <1>1 DEF Put
<1>5. Put(s, at, u) \in [1 .. Len(s) -> S]
  BY <1>3, <1>4
<1>. QED  BY <1>1, <1>2, <1>4, <1>5, MadeOf

LEMMA ClipIs ==
  ASSUME NEW S, NEW t \in Seq(S), NEW n \in Nat
  PROVE  /\ Clip(t, n) \in Seq(S)
         /\ Len(Clip(t, n)) = IF Len(t) > n THEN n ELSE Len(t)
         /\ \A i \in 1 .. Len(Clip(t, n)) : Clip(t, n)[i] = t[i]
         /\ Fields!Clip(t, n) = Clip(t, n)
<1>1. CASE Len(t) > n
  <2>1. n \in 0 .. Len(t) /\ Clip(t, n) = SubSeq(t, 1, n)
    BY <1>1 DEF Clip
  <2>2. Fields!Clip(t, n) = SubSeq(t, 1, n)
    BY <1>1 DEF Fields!Clip
  <2>. QED  BY <2>1, <2>2, <1>1, First
<1>2. CASE ~ (Len(t) > n)
  <2>1. Clip(t, n) = t
    BY <1>2 DEF Clip
  <2>2. (IF Len(t) < n THEN Len(t) ELSE n) = Len(t)
    BY <1>2
  <2>3. Fields!Clip(t, n) = SubSeq(t, 1, Len(t))
    BY <2>2 DEF Fields!Clip
  <2>. QED  BY <2>1, <2>3, <1>2, SubSeqFull
<1>. QED  BY <1>1, <1>2

LEMMA BlanksAre ==
  ASSUME NEW n \in Nat
  PROVE  /\ Blanks(n) \in Seq(Cell) /\ Len(Blanks(n)) = n
         /\ \A i \in 1 .. n : Blanks(n)[i] = Space
         /\ Fields!Blanks(n) = Blanks(n)
<1>1. Blanks(n) \in [1 .. n -> Cell]
  BY FieldAssumption DEF Blanks, Cell
<1>. QED  BY <1>1, MadeOf DEF Blanks, Fields!Blanks

-----------------------------------------------------------------------------
(* What cells show *)

LEMMA FilledIs ==
  ASSUME NEW t \in Seq(Cell), NEW n \in Nat, Len(t) <= n
  PROVE  /\ Filled(t, n) \in Seq(Cell) /\ Len(Filled(t, n)) = n + 1
         /\ \A i \in 1 .. n + 1 :
              Filled(t, n)[i] = IF i <= Len(t) THEN t[i] ELSE Nul
<1>. DEFINE z == [i \in 1 .. n + 1 |-> Nul]
<1>1. z \in [1 .. n + 1 -> Cell] /\ n + 1 \in Nat
  BY DEF Cell
<1>2. z \in Seq(Cell) /\ Len(z) = n + 1
  BY <1>1, MadeOf
<1>3. \A i \in 1 .. n + 1 : z[i] = Nul
  OBVIOUS
<1>4. 0 \in Nat /\ Len(t) \in Nat
  OBVIOUS
<1>5. Filled(t, n) = Put(z, 0, t)
  BY DEF Filled
<1>. HIDE DEF z
<1>6. /\ Put(z, 0, t) \in Seq(Cell) /\ Len(Put(z, 0, t)) = n + 1
      /\ \A i \in 1 .. n + 1 :
           Put(z, 0, t)[i] = IF i > 0 /\ i <= 0 + Len(t) THEN t[i - 0] ELSE z[i]
  BY <1>2, <1>4, PutIs
<1>7. \A i \in 1 .. n + 1 : i > 0 /\ 0 + Len(t) = Len(t) /\ i - 0 = i
  BY <1>4
<1>. QED  BY <1>3, <1>5, <1>6, <1>7

(* What a walk may end at: the end, or the first NUL. *)
EndsAt(s, k) ==
  /\ k = Len(s) \/ s[k + 1] = Nul
  /\ \A i \in 1 .. k : s[i] # Nul

LEMMA WalkEnds ==
  ASSUME NEW s \in Seq(Cell)
  PROVE  Walk(s) \in 0 .. Len(s) /\ EndsAt(s, Walk(s))
<1>. DEFINE T == {k \in 0 .. Len(s) : k = Len(s) \/ s[k + 1] = Nul}
<1>1. Len(s) \in T /\ T \in SUBSET Nat
  OBVIOUS
<1>2. PICK n \in T : \A k \in T : n <= k
  BY <1>1, Least
<1>3. \A i \in 1 .. n : s[i] # Nul
  <2>. SUFFICES ASSUME NEW i \in 1 .. n, s[i] = Nul  PROVE FALSE
    OBVIOUS
  <2>1. n \in 0 .. Len(s)
    OBVIOUS
  <2>2. i - 1 \in 0 .. Len(s) /\ (i - 1) + 1 = i /\ i - 1 < n
    BY <2>1
  <2>3. i - 1 \in T
    BY <2>2
  <2>. QED  BY <1>2, <2>2, <2>3
<1>4. EndsAt(s, n)
  BY <1>3 DEF EndsAt
<1>5. \E k \in 0 .. Len(s) : EndsAt(s, k)
  BY <1>4
<1>6. Walk(s) = CHOOSE k \in 0 .. Len(s) : EndsAt(s, k)
  BY DEF Walk, EndsAt
<1>. QED  BY <1>5, <1>6

(* There is one such place only. *)
LEMMA WalkIs ==
  ASSUME NEW s \in Seq(Cell), NEW k \in 0 .. Len(s), EndsAt(s, k)
  PROVE  Walk(s) = k
<1>1. PICK w \in 0 .. Len(s) : w = Walk(s) /\ EndsAt(s, w)
  BY WalkEnds
<1>2. ~ (w < k)
  <2>. SUFFICES ASSUME w < k  PROVE FALSE
    OBVIOUS
  <2>1. w + 1 \in 1 .. k /\ w # Len(s)
    OBVIOUS
  <2>. QED  BY <1>1, <2>1 DEF EndsAt
<1>3. ~ (k < w)
  <2>. SUFFICES ASSUME k < w  PROVE FALSE
    OBVIOUS
  <2>1. k + 1 \in 1 .. w /\ k # Len(s)
    OBVIOUS
  <2>. QED  BY <1>1, <2>1 DEF EndsAt
<1>. QED  BY <1>1, <1>2, <1>3

LEMMA CutIs ==
  ASSUME NEW t \in Seq(Cell)
  PROVE  /\ Fields!Cut(t) = SubSeq(t, 1, Walk(t))
         /\ Fields!Cut(t) \in Seq(Cell) /\ Len(Fields!Cut(t)) = Walk(t)
         /\ Walk(t) \in 0 .. Len(t)
         /\ \A i \in 1 .. Walk(t) : Fields!Cut(t)[i] = t[i] /\ t[i] # Nul
<1>1. Fields!Cut(t) = SubSeq(t, 1, Walk(t))
  BY DEF Fields!Cut, Walk
<1>2. Walk(t) \in 0 .. Len(t) /\ EndsAt(t, Walk(t))
  BY WalkEnds
<1>. QED  BY <1>1, <1>2, First DEF EndsAt

(* Cells that begin with t and go on with a NUL show t up to its first NUL. *)
LEMMA CutShown ==
  ASSUME NEW s \in Seq(Cell), NEW t \in Seq(Cell), Len(t) < Len(s),
         \A i \in 1 .. Len(t) : s[i] = t[i], s[Len(t) + 1] = Nul
  PROVE  SubSeq(s, 1, Walk(s)) = Fields!Cut(t)
<1>. PICK w \in 0 .. Len(t) : w = Walk(t) /\ EndsAt(t, w)
  BY WalkEnds
<1>1. w \in 0 .. Len(s) /\ Len(t) \in Nat /\ Len(s) \in Nat
  OBVIOUS
<1>2. EndsAt(s, w)
  <2>1. s[w + 1] = Nul
    <3>1. CASE w = Len(t)
      BY <3>1
    <3>2. CASE w # Len(t)
      <4>1. w + 1 \in 1 .. Len(t)
        BY <3>2
      <4>. QED  BY <3>2, <4>1 DEF EndsAt
    <3>. QED  BY <3>1, <3>2
  <2>2. \A i \in 1 .. w : s[i] # Nul
    <3>1. \A i \in 1 .. w : i \in 1 .. Len(t)
      OBVIOUS
    <3>. QED  BY <3>1 DEF EndsAt
  <2>. QED  BY <2>1, <2>2 DEF EndsAt
<1>3. Walk(s) = w
  BY <1>1, <1>2, WalkIs
<1>4. /\ SubSeq(s, 1, w) \in Seq(Cell) /\ Len(SubSeq(s, 1, w)) = w
      /\ \A i \in 1 .. w : SubSeq(s, 1, w)[i] = s[i]
  BY <1>1, First
<1>5. /\ Fields!Cut(t) \in Seq(Cell) /\ Len(Fields!Cut(t)) = w
      /\ \A i \in 1 .. w : Fields!Cut(t)[i] = t[i]
  BY CutIs
<1>6. \A i \in 1 .. w : i \in 1 .. Len(t)
  OBVIOUS
<1>7. \A i \in 1 .. Len(SubSeq(s, 1, w)) : SubSeq(s, 1, w)[i] = Fields!Cut(t)[i]
  BY <1>4, <1>5, <1>6
<1>. QED  BY <1>3, <1>4, <1>5, <1>7, SeqEqual

(* What a text is cut to does not depend on when: before or after clipping. *)
LEMMA CutClip ==
  ASSUME NEW t \in Seq(Cell), NEW n \in Nat
  PROVE  Fields!Cut(Clip(SubSeq(t, 1, Walk(t)), n)) = Fields!Cut(Clip(t, n))
<1>. DEFINE y == SubSeq(t, 1, Walk(t))
            c == Clip(t, n)
            d == Clip(y, n)
<1>. PICK w \in 0 .. Len(t) : w = Walk(t) /\ EndsAt(t, w)
  BY WalkEnds
<1>1. /\ y \in Seq(Cell) /\ Len(y) = w /\ \A i \in 1 .. w : y[i] = t[i]
  BY First
<1>2. /\ c \in Seq(Cell) /\ Len(c) = IF Len(t) > n THEN n ELSE Len(t)
      /\ \A i \in 1 .. Len(c) : c[i] = t[i]
  BY ClipIs
<1>. HIDE DEF y
<1>3. /\ d \in Seq(Cell) /\ Len(d) = IF w > n THEN n ELSE w
      /\ \A i \in 1 .. Len(d) : d[i] = y[i]
  BY <1>1, ClipIs
<1>. HIDE DEF c, d
<1>. DEFINE m == Len(d)
<1>4. m \in 0 .. Len(c) /\ m <= w /\ m \in Nat
  BY <1>2, <1>3
<1>5. \A i \in 1 .. m : d[i] = c[i] /\ d[i] # Nul
  <2>1. \A i \in 1 .. m : i \in 1 .. w /\ i \in 1 .. Len(c)
    BY <1>4
  <2>. QED  BY <1>1, <1>2, <1>3, <2>1 DEF EndsAt
<1>6. EndsAt(c, m)
  <2>1. CASE m = Len(c)
    BY <1>5, <2>1 DEF EndsAt
  <2>2. CASE m # Len(c)
    <3>1. m = w /\ w # Len(t) /\ w + 1 \in 1 .. Len(c)
      BY <1>2, <1>3, <1>4, <2>2
    <3>2. c[m + 1] = Nul
      BY <1>2, <3>1 DEF EndsAt
    <3>. QED  BY <1>5, <3>2 DEF EndsAt
  <2>. QED  BY <2>1, <2>2
<1>7. EndsAt(d, m)
  BY <1>5 DEF EndsAt
<1>8. Walk(c) = m /\ Walk(d) = m
  BY <1>2, <1>3, <1>4, <1>6, <1>7, WalkIs
<1>9. /\ Fields!Cut(c) \in Seq(Cell) /\ Len(Fields!Cut(c)) = m
      /\ \A i \in 1 .. m : Fields!Cut(c)[i] = c[i]
  BY <1>2, <1>8, CutIs
<1>10. /\ Fields!Cut(d) \in Seq(Cell) /\ Len(Fields!Cut(d)) = m
       /\ \A i \in 1 .. m : Fields!Cut(d)[i] = d[i]
  BY <1>3, <1>8, CutIs
<1>11. Fields!Cut(d) = Fields!Cut(c)
  BY <1>5, <1>9, <1>10, SeqEqual
<1>. QED  BY <1>11 DEF c, d, y

LEMMA ShownCells ==
  ASSUME NEW p \in Place, NEW s, NEW t, NEW n, Shows(p, s, t, n)
  PROVE  /\ s \in Seq(Cell) /\ t \in Seq(Cell)
         /\ Len(t) \in Nat /\ Len(t) <= Len(s)
         /\ \A i \in 1 .. Len(t) : s[i] = t[i]
         /\ p \in Fixed => /\ Cap[p] \in Nat /\ Len(s) = Cap[p] + 1
                           /\ Len(t) <= Cap[p] /\ s[Len(t) + 1] = Nul
<1>1. CASE p \in Fixed
  <2>1. /\ s \in Seq(Cell) /\ Len(s) = Cap[p] + 1 /\ t = SubSeq(s, 1, Walk(s))
        /\ n \in 0 .. Cap[p] /\ Len(t) <= n /\ Cap[p] \in Nat
    BY <1>1, FieldAssumption DEF Shows
  <2>2. PICK w \in 0 .. Len(s) : w = Walk(s) /\ EndsAt(s, w)
    BY <2>1, WalkEnds
  <2>3. /\ SubSeq(s, 1, w) \in Seq(Cell) /\ Len(SubSeq(s, 1, w)) = w
        /\ \A i \in 1 .. w : SubSeq(s, 1, w)[i] = s[i]
    BY <2>1, First
  <2>4. w # Len(s) /\ w <= Cap[p] /\ w <= Len(s)
    BY <2>1, <2>2, <2>3
  <2>5. s[w + 1] = Nul
    BY <2>2, <2>4 DEF EndsAt
  <2>6. t \in Seq(Cell) /\ Len(t) = w /\ \A i \in 1 .. w : s[i] = t[i]
    BY <2>1, <2>2, <2>3
  <2>7. s[Len(t) + 1] = Nul
    BY <2>5, <2>6
  <2>8. Len(t) \in Nat /\ Len(t) <= Len(s) /\ Len(t) <= Cap[p]
    BY <2>4, <2>6
  <2>. QED  BY ONLY <2>1, <2>6, <2>7, <2>8
<1>2. CASE p \notin Fixed
  BY <1>2 DEF Shows
<1>. QED  BY <1>1, <1>2

(* A field filled with t shows t up to its first NUL. *)
LEMMA FilledShows ==
  ASSUME NEW f \in Fixed, NEW t \in Seq(Cell), Len(t) <= Cap[f]
  PROVE  Shows(f, Filled(t, Cap[f]), Fields!Held(f, t), Len(t))
<1>. DEFINE n == Cap[f]
            s == Filled(t, n)
<1>1. n \in Nat /\ Len(t) \in Nat
  BY FieldAssumption
<1>2. /\ s \in Seq(Cell) /\ Len(s) = n + 1
      /\ \A i \in 1 .. n + 1 : s[i] = IF i <= Len(t) THEN t[i] ELSE Nul
  BY <1>1, FilledIs
<1>. HIDE DEF s
<1>3. /\ Len(t) < Len(s) /\ \A i \in 1 .. Len(t) : s[i] = t[i]
      /\ s[Len(t) + 1] = Nul
      /\ \A i \in 1 .. Len(s) : i > Len(t) => s[i] = Nul
  <2>1. Len(t) <= n
    OBVIOUS
  <2>. HIDE DEF n
  <2>2. \A i \in 1 .. Len(t) : i \in 1 .. n + 1 /\ i <= Len(t)
    BY <1>1, <2>1
  <2>3. Len(t) + 1 \in 1 .. n + 1 /\ ~ (Len(t) + 1 <= Len(t))
    BY <1>1, <2>1
  <2>4. \A i \in 1 .. n + 1 : i > Len(t) => ~ (i <= Len(t))
    BY <1>1
  <2>. QED  BY <1>1, <1>2, <2>1, <2>2, <2>3, <2>4
<1>4. SubSeq(s, 1, Walk(s)) = Fields!Cut(t)
  BY <1>2, <1>3, CutShown
<1>5. Len(Fields!Cut(t)) <= Len(t) /\ Fields!Held(f, t) = Fields!Cut(t)
  BY <1>1, CutIs DEF Fields!Held
<1>. QED  BY <1>1, <1>2, <1>3, <1>4, <1>5 DEF Shows, s

-----------------------------------------------------------------------------
(* A step that leaves every place showing some text *)

TextsOf == [p \in Place |-> Text(p)]

LEMMA ShownText ==
  ASSUME NEW p \in Place, NEW t, NEW n, Shows(p, cells[p], t, n)
  PROVE  Text(p) = t
BY FieldAssumption DEF Shows, Text, Place

LEMMA TextShown ==
  ASSUME IInv, NEW p \in Place
  PROVE  /\ Shows(p, cells[p], Text(p), filled[p]) /\ Text(p) \in Seq(Cell)
         /\ TextsOf[p] = Text(p) /\ Len(Text(p)) \in Nat
         /\ p \in Fixed => Cap[p] \in Nat /\ Len(Text(p)) <= Cap[p]
<1>1. Shows(p, cells[p], Text(p), filled[p])
  BY DEF IInv
<1>. QED  BY <1>1, ShownCells DEF TextsOf

LEMMA Writes ==
  ASSUME NEW tx, tx = [p \in Place |-> tx[p]],
         cells' = [p \in Place |-> cells'[p]],
         filled' = [f \in Fixed |-> filled'[f]],
         \A p \in Place : Shows(p, cells'[p], tx[p], filled'[p])
  PROVE  IInv' /\ TextsOf' = tx
<1>1. ASSUME NEW p \in Place  PROVE Text(p)' = tx[p]
  BY FieldAssumption DEF Shows, Text, Place
<1>2. IInv'
  BY <1>1 DEF IInv
<1>3. TextsOf' = [p \in Place |-> tx[p]]
  BY <1>1 DEF TextsOf
<1>. QED  BY <1>2, <1>3

LEMMA WritesOne ==
  ASSUME IInv, NEW p \in Place, NEW s, NEW t, NEW n, Shows(p, s, t, n),
         cells' = [cells EXCEPT ![p] = s],
         \/ p \in Fixed /\ filled' = [filled EXCEPT ![p] = n]
         \/ UNCHANGED filled /\ (p \in Fixed => n = filled[p])
  PROVE  IInv' /\ TextsOf' = [TextsOf EXCEPT ![p] = t]
<1>. DEFINE tx == [TextsOf EXCEPT ![p] = t]
<1>1. cells = [q \in Place |-> cells[q]] /\ filled = [f \in Fixed |-> filled[f]]
  BY DEF IInv
<1>2. cells' = [q \in Place |-> IF q = p THEN s ELSE cells[q]]
  BY <1>1
<1>3. filled' = [f \in Fixed |-> IF f = p THEN n ELSE filled[f]]
  <2>1. CASE p \in Fixed /\ filled' = [filled EXCEPT ![p] = n]
    BY <1>1, <2>1
  <2>2. CASE UNCHANGED filled /\ (p \in Fixed => n = filled[p])
    <3>1. \A f \in Fixed : (IF f = p THEN n ELSE filled[f]) = filled[f]
      BY <2>2
    <3>. QED  BY <1>1, <2>2, <3>1
  <2>. QED  BY <2>1, <2>2
<1>4. tx = [q \in Place |-> IF q = p THEN t ELSE TextsOf[q]]
  BY DEF TextsOf
<1>5. \A q \in Place : Shows(q, cells[q], TextsOf[q], filled[q])
  BY TextShown
<1>6. /\ cells' = [q \in Place |-> cells'[q]]
      /\ \A q \in Place : cells'[q] = IF q = p THEN s ELSE cells[q]
  BY <1>2
<1>7. /\ filled' = [f \in Fixed |-> filled'[f]]
      /\ \A f \in Fixed : filled'[f] = IF f = p THEN n ELSE filled[f]
  BY <1>3
<1>8. /\ tx = [q \in Place |-> tx[q]]
      /\ \A q \in Place : tx[q] = IF q = p THEN t ELSE TextsOf[q]
  BY <1>4
<1>. HIDE DEF tx
<1>9. ASSUME NEW q \in Place  PROVE Shows(q, cells'[q], tx[q], filled'[q])
  <2>1. CASE q \in Fixed
    BY <2>1, <1>5, <1>6, <1>7, <1>8
  <2>2. CASE q \notin Fixed
    BY <2>2, <1>5, <1>6, <1>8 DEF Shows
  <2>. QED  BY <2>1, <2>2
<1>10. IInv' /\ TextsOf' = tx
  BY <1>6, <1>7, <1>8, <1>9, Writes
<1>. QED  BY <1>10 DEF tx

(* Put into the cells, u is put into the text, and that is as long as it   *)
(* was: the terminator is out of reach.                                    *)
LEMMA ShownPut ==
  ASSUME NEW p \in Place, NEW s, NEW t, NEW n, Shows(p, s, t, n),
         NEW u \in Seq(Cell), NEW at \in Nat, at + Len(u) <= Len(t)
  PROVE  /\ Shows(p, Put(s, at, u), Fields!Held(p, Put(t, at, u)), n)
         /\ Put(t, at, u) \in Seq(Cell) /\ Len(Put(t, at, u)) = Len(t)
<1>1. /\ s \in Seq(Cell) /\ t \in Seq(Cell) /\ Len(t) \in Nat
      /\ Len(u) \in Nat /\ Len(s) \in Nat
      /\ Len(t) <= Len(s) /\ \A i \in 1 .. Len(t) : s[i] = t[i]
  BY ShownCells
<1>. DEFINE v == Put(t, at, u)
            w == Put(s, at, u)
<1>2. /\ v \in Seq(Cell) /\ Len(v) = Len(t)
      /\ \A i \in 1 .. Len(t) :
           v[i] = IF i > at /\ i <= at + Len(u) THEN u[i - at] ELSE t[i]
  BY <1>1, PutIs
<1>3. /\ w \in Seq(Cell) /\ Len(w) = Len(s)
      /\ \A i \in 1 .. Len(s) :
           w[i] = IF i > at /\ i <= at + Len(u) THEN u[i - at] ELSE s[i]
  BY <1>1, PutIs
<1>4. CASE p \notin Fixed
  BY <1>2, <1>4 DEF Shows, Fields!Held
<1>5. CASE p \in Fixed
  <2>1. /\ Cap[p] \in Nat /\ Len(s) = Cap[p] + 1 /\ Len(t) <= Cap[p]
        /\ s[Len(t) + 1] = Nul
    BY <1>5, ShownCells
  <2>2. /\ n \in 0 .. Cap[p] /\ Len(t) <= n
        /\ \A i \in 1 .. Len(s) : i > n => s[i] = Nul
    BY <1>5 DEF Shows
  <2>. HIDE DEF v, w
  <2>3. ASSUME NEW i \in 1 .. Len(v)  PROVE i \in 1 .. Len(s) /\ w[i] = v[i]
    <3>1. i \in 1 .. Len(s) /\ i \in 1 .. Len(t)
      BY <1>1, <1>2
    <3>2. s[i] = t[i]
      BY <1>1, <3>1
    <3>. QED  BY <1>2, <1>3, <3>1, <3>2
  <2>4. w[Len(v) + 1] = Nul /\ Len(v) < Len(w)
    <3>1. Len(t) + 1 \in 1 .. Len(s) /\ ~ (Len(t) + 1 <= at + Len(u))
      BY <1>1, <2>1
    <3>. QED  BY <1>1, <1>2, <1>3, <2>1, <3>1
  <2>5. SubSeq(w, 1, Walk(w)) = Fields!Cut(v)
    BY <1>2, <1>3, <2>3, <2>4, CutShown
  <2>6. Len(Fields!Cut(v)) <= n /\ Fields!Held(p, v) = Fields!Cut(v)
    <3>1. Len(Fields!Cut(v)) \in 0 .. Len(v)
      BY <1>2, CutIs
    <3>. QED  BY <1>1, <1>2, <1>5, <2>1, <2>2, <3>1 DEF Fields!Held
  <2>7. ASSUME NEW i \in 1 .. Len(w), i > n  PROVE w[i] = Nul
    <3>1. i \in 1 .. Len(s) /\ ~ (i <= at + Len(u))
      BY <1>1, <1>3, <2>1, <2>2, <2>7
    <3>. QED  BY <1>3, <2>2, <2>7, <3>1
  <2>8. Shows(p, w, Fields!Held(p, v), n)
    BY <1>3, <1>5, <2>1, <2>2, <2>5, <2>6, <2>7 DEF Shows
  <2>. QED  BY <1>2, <2>8 DEF v, w
<1>. QED  BY <1>2, <1>4, <1>5

LEMMA BecomesIs ==
  ASSUME NEW p \in Place, NEW t,
         TextsOf' = [TextsOf EXCEPT ![p] = Fields!Held(p, t)]
  PROVE  Fields!Becomes(p, t)
BY DEF Fields!Becomes, TextsOf

LEMMA OperandText ==
  ASSUME IInv, NEW o \in Operand
  PROVE  /\ Text(o) \in Seq(Cell) /\ Len(Text(o)) \in Nat
         /\ Fields!Value(o) = Text(o)
<1>1. CASE o \in Place
  <2>1. Text(o) \in Seq(Cell) /\ TextsOf[o] = Text(o)
    BY <1>1, TextShown
  <2>2. Fields!Value(o) = TextsOf[o]
    BY <1>1, FieldAssumption DEF Fields!Value, TextsOf
  <2>. QED  BY <2>1, <2>2
<1>2. CASE o \in Given \ Narrow
  <2>1. o \notin Fixed /\ o \notin VarLen
    BY <1>2, FieldAssumption DEF Place
  <2>2. Text(o) = GivenText[o] /\ Fields!Value(o) = GivenText[o]
    BY <1>2, <2>1 DEF Text, Fields!Value
  <2>. QED  BY <1>2, <2>2, FieldAssumption
<1>. QED  BY <1>1, <1>2 DEF Operand

LEMMA NarrowText ==
  ASSUME NEW o \in Narrow
  PROVE  /\ Text(o) \in Seq(Cell)
         /\ Fields!Value(o) = Text(o)
<1>1. o \in Given /\ o \notin Fixed /\ o \notin VarLen
  BY FieldAssumption DEF Place
<1>2. Text(o) = GivenText[o] /\ Fields!Value(o) = GivenText[o]
  BY <1>1 DEF Text, Fields!Value
<1>. QED  BY <1>1, <1>2, FieldAssumption

-----------------------------------------------------------------------------
(* Statements that write a field anew *)

LEMMA StoredShows ==
  ASSUME NEW f \in Fixed, NEW t \in Seq(Cell)
  PROVE  /\ Shows(f, Stored(f, t), Fields!Held(f, Clip(t, Cap[f])),
                  Len(Clip(t, Cap[f])))
         /\ Cap[f] \in Nat
<1>1. Cap[f] \in Nat /\ Len(t) \in Nat
  BY FieldAssumption
<1>2. Clip(t, Cap[f]) \in Seq(Cell)
      /\ Len(Clip(t, Cap[f])) = IF Len(t) > Cap[f] THEN Cap[f] ELSE Len(t)
  BY <1>1, ClipIs
<1>. QED  BY <1>1, <1>2, FilledShows DEF Stored

LEMMA AssignStep ==
  ASSUME IInv, NEW p \in Place, NEW o \in Operand, Assign(p, o)
  PROVE  IInv' /\ Fields!Assign(p, o)
<1>1. Text(o) \in Seq(Cell) /\ Fields!Value(o) = Text(o)
  BY OperandText
<1>2. CASE p \in Fixed
  <2>. DEFINE c == Clip(Text(o), Cap[p])
  <2>1. Shows(p, Stored(p, Text(o)), Fields!Held(p, c), Len(c)) /\ Cap[p] \in Nat
    BY <1>1, <1>2, StoredShows
  <2>2. Fields!Clip(Text(o), Cap[p]) = c
    BY <1>1, <2>1, ClipIs
  <2>3. /\ cells' = [cells EXCEPT ![p] = Stored(p, Text(o))]
        /\ filled' = [filled EXCEPT ![p] = Len(c)]
    BY <1>2 DEF Assign, Fills
  <2>. HIDE DEF c
  <2>4. IInv' /\ TextsOf' = [TextsOf EXCEPT ![p] = Fields!Held(p, c)]
    BY <1>2, <2>1, <2>3, WritesOne
  <2>5. Fields!Becomes(p, c)
    BY <2>4, BecomesIs
  <2>. QED  BY <1>1, <1>2, <2>2, <2>4, <2>5 DEF Fields!Assign
<1>3. CASE p \notin Fixed
  <2>1. Shows(p, Text(o), Text(o), 0) /\ Fields!Held(p, Text(o)) = Text(o)
    BY <1>1, <1>3 DEF Shows, Fields!Held
  <2>2. cells' = [cells EXCEPT ![p] = Text(o)] /\ UNCHANGED filled
    BY <1>3 DEF Assign
  <2>3. IInv' /\ TextsOf' = [TextsOf EXCEPT ![p] = Text(o)]
    BY <1>3, <2>1, <2>2, WritesOne
  <2>4. Fields!Becomes(p, Text(o))
    BY <2>1, <2>3, BecomesIs
  <2>. QED  BY <1>1, <1>3, <2>3, <2>4 DEF Fields!Assign
<1>. QED  BY <1>2, <1>3

LEMMA AssignFromAStep ==
  ASSUME IInv, NEW p \in Place, NEW o \in Narrow, AssignFromA(p, o)
  PROVE  p \in Fixed /\ IInv' /\ Fields!Assign(p, o)
<1>. DEFINE s == Text(o)
            t == SubSeq(s, 1, Walk(s))
            c == Clip(t, Cap[p])
<1>1. s \in Seq(Cell) /\ Fields!Value(o) = s
  BY NarrowText
<1>. HIDE DEF s
<1>2. t \in Seq(Cell)
  BY <1>1, WalkEnds, First
<1>3. p \in Fixed
  BY DEF AssignFromA
<1>4. /\ cells' = [cells EXCEPT ![p] = Stored(p, t)]
      /\ filled' = [filled EXCEPT ![p] = Len(c)]
  BY DEF AssignFromA, Fills, s
<1>5. Shows(p, Stored(p, t), Fields!Held(p, c), Len(c)) /\ Cap[p] \in Nat
  BY <1>2, <1>3, StoredShows
<1>6. Fields!Held(p, c) = Fields!Held(p, Clip(s, Cap[p]))
  BY <1>1, <1>3, <1>5, CutClip DEF Fields!Held
<1>7. Fields!Clip(s, Cap[p]) = Clip(s, Cap[p])
  BY <1>1, <1>5, ClipIs
<1>. HIDE DEF t, c
<1>8. IInv' /\ TextsOf' = [TextsOf EXCEPT ![p] = Fields!Held(p, c)]
  BY <1>3, <1>4, <1>5, WritesOne
<1>9. Fields!Becomes(p, Clip(s, Cap[p]))
  BY <1>6, <1>8, BecomesIs
<1>. QED  BY <1>1, <1>3, <1>7, <1>8, <1>9 DEF Fields!Assign

LEMMA ClipOfSum ==
  ASSUME NEW t \in Seq(Cell), NEW u \in Seq(Cell), NEW n \in Nat, Len(t) <= n
  PROVE  /\ n - Len(t) \in Nat
         /\ t \o Clip(u, n - Len(t)) \in Seq(Cell)
         /\ Len(t \o Clip(u, n - Len(t))) <= n
         /\ t \o Clip(u, n - Len(t)) = Clip(t \o u, n)
<1>. DEFINE c == Clip(u, n - Len(t))
            a == t \o c
            b == t \o u
<1>1. n - Len(t) \in Nat /\ Len(t) \in Nat /\ Len(u) \in Nat
  OBVIOUS
<1>2. /\ c \in Seq(Cell) /\ Len(c) = IF Len(u) > n - Len(t) THEN n - Len(t) ELSE Len(u)
      /\ \A i \in 1 .. Len(c) : c[i] = u[i]
  BY <1>1, ClipIs
<1>. HIDE DEF c
<1>3. /\ a \in Seq(Cell) /\ Len(a) = Len(t) + Len(c)
      /\ \A i \in 1 .. Len(t) + Len(c) :
           a[i] = IF i <= Len(t) THEN t[i] ELSE c[i - Len(t)]
  BY <1>2, ConcatProperties
<1>4. /\ b \in Seq(Cell) /\ Len(b) = Len(t) + Len(u)
      /\ \A i \in 1 .. Len(t) + Len(u) :
           b[i] = IF i <= Len(t) THEN t[i] ELSE u[i - Len(t)]
  BY ConcatProperties
<1>. HIDE DEF a, b
<1>5. /\ Clip(b, n) \in Seq(Cell) /\ Len(Clip(b, n)) = IF Len(b) > n THEN n ELSE Len(b)
      /\ \A i \in 1 .. Len(Clip(b, n)) : Clip(b, n)[i] = b[i]
  BY <1>4, ClipIs
<1>6. Len(a) = Len(Clip(b, n)) /\ Len(a) <= n /\ Len(a) \in Nat
  BY <1>1, <1>2, <1>3, <1>4, <1>5
<1>7. ASSUME NEW i \in 1 .. Len(a)  PROVE a[i] = Clip(b, n)[i]
  <2>1. i \in 1 .. Len(t) + Len(c) /\ i \in 1 .. Len(t) + Len(u)
    BY <1>1, <1>2, <1>3
  <2>2. ~ (i <= Len(t)) => i - Len(t) \in 1 .. Len(c)
    BY <1>1, <1>2, <1>3
  <2>. QED  BY <2>1, <2>2, <1>2, <1>3, <1>4, <1>5, <1>6
<1>8. a = Clip(b, n)
  BY <1>3, <1>5, <1>6, <1>7, SeqEqual
<1>. QED  BY <1>1, <1>3, <1>6, <1>8 DEF a, b, c

LEMMA AppendStep ==
  ASSUME IInv, NEW p \in Place, NEW o \in Operand, AppendFixed(p, o)
  PROVE  IInv' /\ (Fields!AppendFixed(p, o) \/ UNCHANGED TextsOf)
<1>1. Text(o) \in Seq(Cell) /\ Fields!Value(o) = Text(o)
  BY OperandText
<1>2. p \in Fixed
  BY DEF AppendFixed
<1>3. /\ Text(p) \in Seq(Cell) /\ TextsOf[p] = Text(p)
      /\ Cap[p] \in Nat /\ Len(Text(p)) <= Cap[p]
  BY <1>2, TextShown
<1>4. CASE Text(o) = << >>
  <2>1. UNCHANGED << cells, filled >>
    BY <1>4 DEF AppendFixed, vars
  <2>. QED  BY <2>1 DEF IInv, TextsOf, Text, Shows
<1>5. CASE Text(o) # << >>
  <2>. DEFINE t == Text(p) \o Clip(Text(o), Cap[p] - Len(Text(p)))
  <2>1. /\ cells' = [cells EXCEPT ![p] = Filled(t, Cap[p])]
        /\ filled' = [filled EXCEPT ![p] = Len(t)]
    BY <1>5 DEF AppendFixed, Fills
  <2>2. /\ t \in Seq(Cell) /\ Len(t) <= Cap[p]
        /\ t = Clip(Text(p) \o Text(o), Cap[p])
    BY <1>1, <1>3, ClipOfSum
  <2>3. Text(p) \o Text(o) \in Seq(Cell)
    BY <1>1, <1>3, ConcatProperties
  <2>4. t = Fields!Clip(Text(p) \o Text(o), Cap[p])
    BY <1>3, <2>2, <2>3, ClipIs
  <2>. HIDE DEF t
  <2>5. Shows(p, Filled(t, Cap[p]), Fields!Held(p, t), Len(t))
    BY <1>2, <2>2, FilledShows
  <2>6. IInv' /\ TextsOf' = [TextsOf EXCEPT ![p] = Fields!Held(p, t)]
    BY <1>2, <2>1, <2>5, WritesOne
  <2>7. Fields!Becomes(p, Fields!Clip(TextsOf[p] \o Fields!Value(o), Cap[p]))
    BY <1>1, <1>3, <2>4, <2>6, BecomesIs
  <2>8. Fields!AppendFixed(p, o)
    BY <1>2, <2>7 DEF Fields!AppendFixed, TextsOf
  <2>. QED  BY <2>6, <2>8
<1>. QED  BY <1>4, <1>5

-----------------------------------------------------------------------------
(* Statements that write into the text there is *)

LEMMA PutAll ==
  ASSUME NEW t \in Seq(Cell), NEW u \in Seq(Cell), Len(u) = Len(t)
  PROVE  Put(t, 0, u) = u
<1>1. Len(t) \in Nat /\ 0 \in Nat
  OBVIOUS
<1>2. /\ Put(t, 0, u) \in Seq(Cell) /\ Len(Put(t, 0, u)) = Len(t)
      /\ \A i \in 1 .. Len(t) :
           Put(t, 0, u)[i] = IF i > 0 /\ i <= 0 + Len(u) THEN u[i - 0] ELSE t[i]
  BY <1>1, PutIs
<1>3. \A i \in 1 .. Len(t) : i > 0 /\ i <= 0 + Len(u) /\ i - 0 = i
  BY <1>1
<1>4. \A i \in 1 .. Len(t) : Put(t, 0, u)[i] = u[i]
  BY <1>2, <1>3
<1>. QED  BY <1>2, <1>4, SeqEqual

(* A whole text written over the cells. *)
LEMMA WritesOver ==
  ASSUME IInv, NEW p \in Place, NEW u \in Seq(Cell), Len(u) = Len(Text(p))
  PROVE  Shows(p, Put(cells[p], 0, u), Fields!Held(p, u), filled[p])
<1>1. /\ Shows(p, cells[p], Text(p), filled[p]) /\ Text(p) \in Seq(Cell)
      /\ Len(Text(p)) \in Nat
  BY TextShown
<1>2. 0 \in Nat /\ 0 + Len(u) <= Len(Text(p))
  BY <1>1
<1>3. Shows(p, Put(cells[p], 0, u), Fields!Held(p, Put(Text(p), 0, u)), filled[p])
  BY <1>1, <1>2, ShownPut
<1>. QED  BY <1>1, <1>3, PutAll

(* t, cut to n units and padded to n behind or in front. *)
LEMMA Padded ==
  ASSUME NEW t \in Seq(Cell), NEW n \in Nat
  PROVE  LET c == Clip(t, n)
             b == Blanks(n - Len(c))
         IN  /\ c \o b \in Seq(Cell) /\ Len(c \o b) = n
             /\ b \o c \in Seq(Cell) /\ Len(b \o c) = n
             /\ c \o b = Clip(t \o Blanks(n), n)
             /\ \A i \in 1 .. n : (c \o b)[i] = IF i <= Len(t) THEN t[i] ELSE Space
             /\ n - Len(c) \in Nat
<1>. DEFINE c == Clip(t, n)
            k == n - Len(c)
            b == Blanks(k)
            l == c \o b
            r == b \o c
            w == Blanks(n)
            d == t \o w
<1>1. /\ c \in Seq(Cell) /\ Len(c) = IF Len(t) > n THEN n ELSE Len(t)
      /\ \A i \in 1 .. Len(c) : c[i] = t[i]
  BY ClipIs
<1>. HIDE DEF c
<1>2. k \in Nat /\ Len(c) \in Nat /\ Len(t) \in Nat /\ k = n - Len(c)
  BY <1>1
<1>. HIDE DEF k
<1>3. b \in Seq(Cell) /\ Len(b) = k /\ \A i \in 1 .. k : b[i] = Space
  BY <1>2, BlanksAre
<1>4. w \in Seq(Cell) /\ Len(w) = n /\ \A i \in 1 .. n : w[i] = Space
  BY BlanksAre
<1>. HIDE DEF b, w
<1>5. /\ l \in Seq(Cell) /\ Len(l) = Len(c) + k
      /\ \A i \in 1 .. Len(c) + k : l[i] = IF i <= Len(c) THEN c[i] ELSE b[i - Len(c)]
  BY <1>1, <1>3, ConcatProperties
<1>6. r \in Seq(Cell) /\ Len(r) = k + Len(c)
  BY <1>1, <1>3, ConcatProperties
<1>7. /\ d \in Seq(Cell) /\ Len(d) = Len(t) + n
      /\ \A i \in 1 .. Len(t) + n : d[i] = IF i <= Len(t) THEN t[i] ELSE w[i - Len(t)]
  BY <1>4, ConcatProperties
<1>. HIDE DEF l, r, d
<1>8. /\ Clip(d, n) \in Seq(Cell) /\ Len(Clip(d, n)) = IF Len(d) > n THEN n ELSE Len(d)
      /\ \A i \in 1 .. Len(Clip(d, n)) : Clip(d, n)[i] = d[i]
  BY <1>7, ClipIs
<1>9. Len(l) = n /\ Len(r) = n /\ Len(Clip(d, n)) = n
  BY <1>2, <1>5, <1>6, <1>7, <1>8
<1>10. ASSUME NEW i \in 1 .. n
       PROVE  /\ l[i] = IF i <= Len(t) THEN t[i] ELSE Space
              /\ d[i] = IF i <= Len(t) THEN t[i] ELSE Space
  <2>1. i \in Int /\ i >= 1 /\ i <= n
    OBVIOUS
  <2>2. CASE i <= Len(t)
    <3>1. i \in 1 .. Len(c) /\ i \in 1 .. Len(c) + k /\ i \in 1 .. Len(t) + n
      BY <2>1, <2>2, <1>1, <1>2
    <3>. QED  BY <3>1, <2>2, <1>1, <1>5, <1>7
  <2>3. CASE ~ (i <= Len(t))
    <3>1. /\ ~ (i <= Len(c)) /\ i - Len(c) \in 1 .. k /\ i - Len(t) \in 1 .. n
          /\ i \in 1 .. Len(c) + k /\ i \in 1 .. Len(t) + n
      BY <2>1, <2>3, <1>1, <1>2
    <3>. QED  BY <3>1, <2>3, <1>3, <1>4, <1>5, <1>7
  <2>. QED  BY <2>2, <2>3
<1>11. \A i \in 1 .. Len(l) : l[i] = Clip(d, n)[i]
  BY <1>8, <1>9, <1>10
<1>12. l = Clip(d, n)
  BY <1>5, <1>8, <1>9, <1>11, SeqEqual
<1>. QED  BY <1>2, <1>5, <1>6, <1>9, <1>10, <1>12 DEF c, k, b, l, r, d, w

LEMMA LSetStep ==
  ASSUME IInv, NEW p \in Place, NEW o \in Operand, LSet(p, o)
  PROVE  IInv' /\ Fields!LSet(p, o)
<1>. DEFINE n == Len(Text(p))
            c == Clip(Text(o), n)
            u == c \o Blanks(n - Len(c))
<1>1. Text(o) \in Seq(Cell) /\ Fields!Value(o) = Text(o)
  BY OperandText
<1>2. n \in Nat /\ TextsOf[p] = Text(p)
  BY TextShown
<1>3. cells' = [cells EXCEPT ![p] = Put(cells[p], 0, u)] /\ UNCHANGED filled
  BY DEF LSet
<1>4. u \in Seq(Cell) /\ Len(u) = n /\ u = Clip(Text(o) \o Blanks(n), n)
  BY <1>1, <1>2, Padded
<1>5. Blanks(n) \in Seq(Cell) /\ Fields!Blanks(n) = Blanks(n)
  BY <1>2, BlanksAre
<1>6. Text(o) \o Blanks(n) \in Seq(Cell)
  BY <1>1, <1>5, ConcatProperties
<1>7. u = Fields!Clip(Fields!Value(o) \o Fields!Blanks(n), n)
  BY <1>1, <1>2, <1>4, <1>5, <1>6, ClipIs, ZenonT(30)
<1>. HIDE DEF u
<1>8. Shows(p, Put(cells[p], 0, u), Fields!Held(p, u), filled[p])
  BY <1>4, WritesOver
<1>9. IInv' /\ TextsOf' = [TextsOf EXCEPT ![p] = Fields!Held(p, u)]
  BY <1>3, <1>8, WritesOne
<1>10. Fields!Becomes(p, Fields!Clip(Fields!Value(o) \o Fields!Blanks(Len(TextsOf[p])),
                                     Len(TextsOf[p])))
  BY <1>2, <1>7, <1>9, BecomesIs
<1>. QED  BY <1>9, <1>10 DEF Fields!LSet, TextsOf

LEMMA RSetStep ==
  ASSUME IInv, NEW p \in Place, NEW o \in Operand, RSet(p, o)
  PROVE  IInv' /\ Fields!RSet(p, o)
<1>. DEFINE n == Len(Text(p))
            c == Clip(Text(o), n)
            u == Blanks(n - Len(c)) \o c
<1>1. Text(o) \in Seq(Cell) /\ Fields!Value(o) = Text(o)
  BY OperandText
<1>2. n \in Nat /\ TextsOf[p] = Text(p)
  BY TextShown
<1>3. cells' = [cells EXCEPT ![p] = Put(cells[p], 0, u)] /\ UNCHANGED filled
  BY DEF RSet
<1>4. u \in Seq(Cell) /\ Len(u) = n /\ n - Len(c) \in Nat
  BY <1>1, <1>2, Padded
<1>5. Fields!Clip(Fields!Value(o), n) = c
  BY <1>1, <1>2, ClipIs
<1>6. Fields!Blanks(n - Len(c)) = Blanks(n - Len(c))
  BY <1>4, BlanksAre
<1>7. Shows(p, Put(cells[p], 0, u), Fields!Held(p, u), filled[p])
  BY <1>4, WritesOver
<1>8. IInv' /\ TextsOf' = [TextsOf EXCEPT ![p] = Fields!Held(p, u)]
  BY <1>3, <1>7, WritesOne
<1>9. Fields!Becomes(p, u)
  BY <1>8, BecomesIs
<1>10. Len(TextsOf[p]) = n
  BY <1>2
<1>. QED  BY <1>5, <1>6, <1>8, <1>9, <1>10 DEF Fields!RSet, TextsOf

-----------------------------------------------------------------------------
(* The MID statement *)

LEMMA CountedIs ==
  ASSUME IInv, NEW p \in Place, NEW o \in Operand,
         NEW start \in 1 .. Len(Text(p)), NEW units \in Int
  PROVE  LET c == Counted(p, start, units, o)
         IN  /\ c \in Seq(Cell) /\ start - 1 \in Nat
             /\ start - 1 + Len(c) <= Len(Text(p))
             /\ \A i \in 1 .. Len(c) : c[i] = Text(o)[i]
             /\ \A i \in 1 .. Len(Text(p)) :
                  i - start + 1 \in 1 .. Len(c) <=>
                    /\ i - start + 1 \in 1 .. Len(Text(o))
                    /\ units < 0 \/ i < start + units
             /\ units >= 0 => Len(c) <= units
<1>. DEFINE l    == Len(Text(o))
            n    == Len(Text(p))
            most == IF units < 0 \/ units > l THEN l ELSE units
            room == n - (start - 1)
            k    == IF most > room THEN room ELSE most
            c    == SubSeq(Text(o), 1, k)
<1>1. Text(o) \in Seq(Cell) /\ l \in Nat /\ n \in Nat
  BY OperandText, TextShown
<1>2. /\ k \in 0 .. l /\ start - 1 \in Nat /\ start - 1 + k <= n
      /\ units >= 0 => k <= units
  BY <1>1
<1>3. Counted(p, start, units, o) = c
  BY DEF Counted
<1>4. c \in Seq(Cell) /\ Len(c) = k /\ \A i \in 1 .. k : c[i] = Text(o)[i]
  BY <1>1, <1>2, First
<1>5. \A i \in 1 .. n : i - start + 1 \in 1 .. k <=>
        i - start + 1 \in 1 .. l /\ (units < 0 \/ i < start + units)
  <2>. HIDE DEF l, n
  <2>. QED  BY <1>1
<1>. HIDE DEF c, k
<1>. QED  BY <1>1, <1>2, <1>3, <1>4, <1>5

LEMMA MidOverlay ==
  ASSUME IInv, NEW p \in Place, NEW o \in Operand,
         NEW start \in 1 .. Len(Text(p)), NEW units \in Int
  PROVE  Put(Text(p), start - 1, Counted(p, start, units, o))
           = Fields!Overlay(Text(p), start, units, Text(o))
<1>. DEFINE t == Text(p)
            s == Text(o)
            at == start - 1
            c == Counted(p, start, units, o)
<1>1. /\ c \in Seq(Cell) /\ at \in Nat /\ at + Len(c) <= Len(t)
      /\ \A i \in 1 .. Len(c) : c[i] = s[i]
      /\ \A i \in 1 .. Len(t) :
           i - start + 1 \in 1 .. Len(c) <=>
             /\ i - start + 1 \in 1 .. Len(s)
             /\ units < 0 \/ i < start + units
  BY CountedIs
<1>2. t \in Seq(Cell) /\ Len(t) \in Nat /\ s \in Seq(Cell)
  BY TextShown, OperandText
<1>. HIDE DEF c, t, s
<1>3. DOMAIN t = 1 .. Len(t) /\ DOMAIN c = 1 .. Len(c) /\ DOMAIN s = 1 .. Len(s)
  BY <1>1, <1>2
<1>4. \A i \in 1 .. Len(t) : i - at = i - start + 1
  BY <1>2
<1>5. \A i \in 1 .. Len(t) :
        (IF i - at \in DOMAIN c THEN c[i - at] ELSE t[i])
        = IF i - start + 1 \in DOMAIN s /\ (units < 0 \/ i < start + units)
          THEN s[i - start + 1] ELSE t[i]
  BY <1>1, <1>3, <1>4
<1>6. Put(t, at, c) = [i \in 1 .. Len(t) |-> IF i - at \in DOMAIN c THEN c[i - at] ELSE t[i]]
  BY <1>3 DEF Put
<1>7. Put(t, at, c) = Fields!Overlay(t, start, units, s)
  BY <1>5, <1>6 DEF Fields!Overlay
<1>. QED  BY <1>7 DEF c, t, s

(* Units smeared over the text are units of the text. *)
LEMMA SmearedIs ==
  ASSUME NEW s, NEW t \in Seq(Cell), NEW c \in Seq(Cell), NEW at \in Nat,
         at \in 1 .. Len(c) - 1, at + Len(c) <= Len(t),
         \A i \in 1 .. Len(t) : s[i] = t[i]
  PROVE  /\ Smeared(s, at, c) \in Seq(Cell) /\ Len(Smeared(s, at, c)) = Len(c)
         /\ \A i \in 1 .. Len(c) : \E j \in 1 .. Len(t) : Smeared(s, at, c)[i] = t[j]
<1>1. DOMAIN c = 1 .. Len(c) /\ Len(c) \in Nat /\ Len(t) \in Nat
  OBVIOUS
<1>2. \A i \in 1 .. Len(c) : ((i - 1) % at) + 1 \in 1 .. at
  BY <1>1
<1>3. \A i \in 1 .. Len(c) : ((i - 1) % at) + 1 \in 1 .. Len(t)
  BY <1>1, <1>2
<1>4. Smeared(s, at, c) = [i \in 1 .. Len(c) |-> s[((i - 1) % at) + 1]]
  BY <1>1 DEF Smeared
<1>5. ASSUME NEW i \in 1 .. Len(c)
      PROVE  /\ Smeared(s, at, c)[i] = t[((i - 1) % at) + 1]
             /\ t[((i - 1) % at) + 1] \in Cell
  BY <1>3, <1>4
<1>6. Smeared(s, at, c) \in [1 .. Len(c) -> Cell]
  BY <1>4, <1>5
<1>. QED  BY <1>1, <1>3, <1>5, <1>6, MadeOf

LEMMA MidStep ==
  ASSUME IInv, NEW p \in Place, NEW o \in Operand,
         NEW start \in Int, NEW units \in Int, Mid(p, start, units, o)
  PROVE  /\ IInv' /\ start \in 1 .. Len(TextsOf[p])
         /\ Fields!Mid(p, start, units, o)
            \/ (o = p /\ Fields!MidOfSelf(p, start, units))
<1>. DEFINE t  == Text(p)
            at == start - 1
            c  == Counted(p, start, units, o)
<1>1. /\ TextsOf[p] = t /\ t \in Seq(Cell) /\ Len(t) \in Nat
      /\ Shows(p, cells[p], t, filled[p])
  BY TextShown
<1>2. start \in 1 .. Len(t)
  BY DEF Mid
<1>3. PICK s \in CopyOver(cells[p], at, c, o = p) :
             cells' = [cells EXCEPT ![p] = s] /\ UNCHANGED filled
  BY DEF Mid
<1>4. /\ c \in Seq(Cell) /\ at \in Nat /\ at + Len(c) <= Len(t)
      /\ units >= 0 => Len(c) <= units
  BY <1>2, CountedIs
<1>5. Fields!Value(o) = Text(o)
  BY OperandText
<1>6. CASE s = Put(cells[p], at, c)
  <2>1. Shows(p, s, Fields!Held(p, Put(t, at, c)), filled[p])
    BY <1>1, <1>4, <1>6, ShownPut
  <2>2. IInv' /\ TextsOf' = [TextsOf EXCEPT ![p] = Fields!Held(p, Put(t, at, c))]
    BY <1>3, <2>1, WritesOne
  <2>3. Fields!Becomes(p, Put(t, at, c))
    BY <2>2, BecomesIs
  <2>4. Put(t, at, c) = Fields!Overlay(TextsOf[p], start, units, Fields!Value(o))
    BY <1>1, <1>2, <1>5, MidOverlay
  <2>5. start > 0
    BY <1>1, <1>2
  <2>6. Fields!Mid(p, start, units, o)
    BY <2>3, <2>4, <2>5 DEF Fields!Mid, TextsOf
  <2>. QED  BY <1>1, <1>2, <2>2, <2>6
<1>7. CASE s # Put(cells[p], at, c)
  <2>. DEFINE m == Smeared(cells[p], at, c)
              v == Put(t, at, m)
  <2>1. o = p /\ at \in 1 .. Len(c) - 1 /\ s = Put(cells[p], at, m)
    BY <1>3, <1>7 DEF CopyOver
  <2>2. \A i \in 1 .. Len(t) : cells[p][i] = t[i]
    BY <1>1, ShownCells
  <2>. HIDE DEF t, c, at
  <2>3. /\ m \in Seq(Cell) /\ Len(m) = Len(c)
        /\ \A i \in 1 .. Len(c) : \E j \in 1 .. Len(t) : m[i] = t[j]
    <3>1. /\ t \in Seq(Cell) /\ c \in Seq(Cell) /\ at \in Nat
          /\ at \in 1 .. Len(c) - 1 /\ at + Len(c) <= Len(t)
      BY <1>1, <1>4, <2>1
    <3>. DEFINE z == cells[p]
    <3>2. \A i \in 1 .. Len(t) : z[i] = t[i]
      BY <2>2
    <3>. HIDE DEF z
    <3>3. /\ Smeared(z, at, c) \in Seq(Cell) /\ Len(Smeared(z, at, c)) = Len(c)
          /\ \A i \in 1 .. Len(c) : \E j \in 1 .. Len(t) : Smeared(z, at, c)[i] = t[j]
      BY ONLY <3>1, <3>2, SmearedIs
    <3>. QED  BY <3>3 DEF z
  <2>. USE DEF at
  <2>. HIDE DEF m
  <2>4. Shows(p, s, Fields!Held(p, v), filled[p]) /\ v \in Seq(Cell) /\ Len(v) = Len(t)
    BY <1>1, <1>4, <2>1, <2>3, ShownPut
  <2>5. IInv' /\ TextsOf' = [TextsOf EXCEPT ![p] = Fields!Held(p, v)]
    BY <1>3, <2>4, WritesOne
  <2>6. Fields!Becomes(p, v)
    BY <2>5, BecomesIs
  <2>7. \A i \in 1 .. Len(t) : v[i] = IF i > at /\ i <= at + Len(m) THEN m[i - at] ELSE t[i]
    <3>1. t \in Seq(Cell) /\ m \in Seq(Cell) /\ at \in Nat
      BY <1>1, <1>4, <2>3
    <3>. HIDE DEF at
    <3>. QED  BY ONLY <3>1, PutIs
  <2>. HIDE DEF v
  <2>8. DOMAIN t = 1 .. Len(t) /\ DOMAIN v = 1 .. Len(t)
    BY <1>1, <2>4
  <2>9. ASSUME NEW i \in 1 .. Len(t)
        PROVE  /\ \E j \in 1 .. Len(t) : v[i] = t[j]
               /\ i < start \/ (units >= 0 /\ i >= start + units) => v[i] = t[i]
    <3>1. CASE i > at /\ i <= at + Len(c)
      <4>1. i - at \in 1 .. Len(c)
        BY <1>1, <1>4, <3>1
      <4>2. v[i] = m[i - at]
        BY <2>3, <2>7, <3>1
      <4>3. ~ (i < start \/ (units >= 0 /\ i >= start + units))
        BY <1>1, <1>4, <3>1
      <4>. QED  BY <2>3, <4>1, <4>2, <4>3
    <3>2. CASE ~ (i > at /\ i <= at + Len(c))
      BY <2>3, <2>7, <3>2
    <3>. QED  BY <3>1, <3>2
  <2>10. v \in [1 .. Len(t) -> {t[j] : j \in DOMAIN t}]
    <3>1. v \in [1 .. Len(t) -> Cell]
      BY <2>4, LenProperties
    <3>2. \A i \in 1 .. Len(t) : v[i] \in {t[j] : j \in DOMAIN t}
      BY <2>8, <2>9
    <3>. QED  BY <3>1, <3>2
  <2>11. \A i \in DOMAIN v :
           i < start \/ (units >= 0 /\ i >= start + units) => v[i] = t[i]
    BY <2>8, <2>9
  <2>12. \E w \in [1 .. Len(TextsOf[p]) -> {TextsOf[p][j] : j \in DOMAIN TextsOf[p]}] :
           /\ \A i \in DOMAIN w :
                i < start \/ (units >= 0 /\ i >= start + units) => w[i] = TextsOf[p][i]
           /\ Fields!Becomes(p, w)
    BY <1>1, <2>6, <2>10, <2>11
  <2>13. Fields!MidOfSelf(p, start, units)
    BY <2>12 DEF Fields!MidOfSelf, TextsOf
  <2>. QED  BY <1>1, <1>2, <2>1, <2>5, <2>13 DEF t
<1>. QED  BY <1>6, <1>7

-----------------------------------------------------------------------------
(* SWAP *)

LEMMA TakenIs ==
  ASSUME IInv, NEW p \in Place, NEW q \in Place
  PROVE  /\ Taken(p, q) \in Seq(Cell) /\ Len(Taken(p, q)) = Len(Text(p))
         /\ Taken(p, q) = Fields!Fitted(Text(q), Len(Text(p)))
<1>. DEFINE n == Len(Text(p))
            t == Text(q)
            u == Taken(p, q)
            c == Clip(t, n)
            l == c \o Blanks(n - Len(c))
<1>1. n \in Nat /\ t \in Seq(Cell) /\ Len(t) \in Nat
  BY TextShown
<1>2. u = [i \in 1 .. n |-> IF i <= Len(t) THEN t[i] ELSE Space]
  BY DEF Taken
<1>3. \A i \in 1 .. n : (IF i <= Len(t) THEN t[i] ELSE Space) \in Cell
  BY <1>1, FieldAssumption DEF Cell
<1>4. u \in [1 .. n -> Cell]
  BY <1>2, <1>3
<1>5. /\ l \in Seq(Cell) /\ Len(l) = n /\ l = Clip(t \o Blanks(n), n)
      /\ \A i \in 1 .. n : l[i] = IF i <= Len(t) THEN t[i] ELSE Space
  BY <1>1, Padded
<1>6. u \in Seq(Cell) /\ Len(u) = n
  BY <1>1, <1>4, MadeOf
<1>7. \A i \in 1 .. Len(u) : u[i] = l[i]
  BY <1>2, <1>5, <1>6
<1>8. u = l
  BY <1>5, <1>6, <1>7, SeqEqual
<1>9. Blanks(n) \in Seq(Cell) /\ Fields!Blanks(n) = Blanks(n)
  BY <1>1, BlanksAre
<1>10. t \o Blanks(n) \in Seq(Cell)
  BY <1>1, <1>9, ConcatProperties
<1>11. Fields!Clip(t \o Blanks(n), n) = l
  BY <1>1, <1>5, <1>10, ClipIs
<1>12. Fields!Fitted(t, n) = l
  BY <1>9, <1>11 DEF Fields!Fitted
<1>. QED  BY <1>6, <1>8, <1>12

LEMMA SwapStep ==
  ASSUME IInv, NEW p \in Place, NEW q \in Place, Swap(p, q)
  PROVE  /\ IInv' /\ p # q /\ (p \in Fixed \/ q \in Fixed)
         /\ Fields!Swap(p, q) /\ Fields!Swap(q, p)
<1>. DEFINE u == Taken(p, q)
            v == Taken(q, p)
            s == Put(cells[p], 0, u)
            w == Put(cells[q], 0, v)
            hu == Fields!Held(p, u)
            hv == Fields!Held(q, v)
            tx == [TextsOf EXCEPT ![p] = hu, ![q] = hv]
<1>1. /\ u \in Seq(Cell) /\ Len(u) = Len(Text(p))
      /\ u = Fields!Fitted(Text(q), Len(Text(p)))
  BY TakenIs
<1>2. /\ v \in Seq(Cell) /\ Len(v) = Len(Text(q))
      /\ v = Fields!Fitted(Text(p), Len(Text(q)))
  BY TakenIs
<1>. HIDE DEF u, v
<1>3. p # q /\ (p \in Fixed \/ q \in Fixed)
  BY DEF Swap
<1>4. Shows(p, s, hu, filled[p]) /\ Shows(q, w, hv, filled[q])
  BY <1>1, <1>2, WritesOver
<1>. DEFINE cs == [cells EXCEPT ![p] = Put(@, 0, u), ![q] = Put(@, 0, v)]
<1>5. cells' = cs /\ UNCHANGED filled
  BY DEF Swap, u, v
<1>6. cells = [r \in Place |-> cells[r]] /\ filled = [f \in Fixed |-> filled[f]]
  BY DEF IInv
<1>7. cs = [r \in Place |-> IF r = q THEN w ELSE IF r = p THEN s ELSE cells[r]]
  BY <1>3, <1>6
<1>8. /\ cells' = [r \in Place |-> cells'[r]] /\ filled' = [f \in Fixed |-> filled'[f]]
      /\ \A r \in Place : cells'[r] = IF r = q THEN w ELSE IF r = p THEN s ELSE cells[r]
  BY <1>5, <1>6, <1>7
<1>9. TextsOf = [r \in Place |-> TextsOf[r]]
  BY DEF TextsOf
<1>10. /\ tx = [r \in Place |-> tx[r]]
       /\ \A r \in Place : tx[r] = IF r = q THEN hv ELSE IF r = p THEN hu ELSE TextsOf[r]
  BY <1>9
<1>11. \A r \in Place : Shows(r, cells[r], TextsOf[r], filled[r])
  BY TextShown
<1>12. tx = [TextsOf EXCEPT ![q] = hv, ![p] = hu]
  BY <1>3, <1>9
<1>. HIDE DEF tx, s, w, hu, hv
<1>13. ASSUME NEW r \in Place  PROVE Shows(r, cells'[r], tx[r], filled'[r])
  <2>1. CASE r = q
    BY <2>1, <1>4, <1>5, <1>8, <1>10
  <2>2. CASE r # q /\ r = p
    BY <2>2, <1>4, <1>5, <1>8, <1>10
  <2>3. CASE r # q /\ r # p
    BY <2>3, <1>5, <1>8, <1>10, <1>11
  <2>. QED  BY <2>1, <2>2, <2>3
<1>14. IInv' /\ TextsOf' = tx
  BY <1>8, <1>10, <1>13, Writes
<1>15. TextsOf[p] = Text(p) /\ TextsOf[q] = Text(q)
  BY TextShown
<1>16. TextsOf' =
         [TextsOf EXCEPT
            ![p] = Fields!Held(p, Fields!Fitted(TextsOf[q], Len(TextsOf[p]))),
            ![q] = Fields!Held(q, Fields!Fitted(TextsOf[p], Len(TextsOf[q])))]
  BY <1>1, <1>2, <1>14, <1>15 DEF tx, hu, hv
<1>17. TextsOf' =
         [TextsOf EXCEPT
            ![q] = Fields!Held(q, Fields!Fitted(TextsOf[p], Len(TextsOf[q]))),
            ![p] = Fields!Held(p, Fields!Fitted(TextsOf[q], Len(TextsOf[p])))]
  BY <1>1, <1>2, <1>12, <1>14, <1>15 DEF hu, hv
<1>18. Fields!Swap(p, q)
  BY <1>16 DEF Fields!Swap, TextsOf
<1>19. Fields!Swap(q, p)
  BY <1>17 DEF Fields!Swap, TextsOf
<1>. QED  BY <1>3, <1>14, <1>18, <1>19

-----------------------------------------------------------------------------
(* Every behaviour *)

LEMMA FieldsInit == Init => IInv /\ Fields!Init
<1>. SUFFICES ASSUME Init  PROVE IInv /\ Fields!Init
  OBVIOUS
<1>1. << >> \in Seq(Cell) /\ Len(<< >>) = 0
  BY EmptySeq
<1>2. ASSUME NEW p \in Place  PROVE Shows(p, cells[p], << >>, filled[p])
  <2>1. CASE p \in Fixed
    <3>1. cells[p] = Filled(<< >>, Cap[p]) /\ Cap[p] \in Nat /\ filled[p] = 0
      BY <2>1, FieldAssumption DEF Init
    <3>. DEFINE e == << >>
    <3>. HIDE DEF e
    <3>2. Shows(p, cells[p], Fields!Held(p, << >>), 0)
      <4>1. e \in Seq(Cell) /\ Len(e) <= Cap[p] /\ Len(e) = 0
        BY <1>1, <3>1 DEF e
      <4>2. Shows(p, Filled(e, Cap[p]), Fields!Held(p, e), Len(e))
        BY <2>1, <4>1, FilledShows
      <4>. QED  BY <3>1, <4>1, <4>2 DEF e
    <3>3. Fields!Cut(<< >>) \in Seq(Cell) /\ Len(Fields!Cut(<< >>)) = 0
      <4>1. /\ Fields!Cut(<< >>) \in Seq(Cell)
            /\ Len(Fields!Cut(<< >>)) = Walk(<< >>)
            /\ Walk(<< >>) \in 0 .. Len(<< >>)
        BY <1>1, CutIs
      <4>. QED  BY <1>1, <4>1
    <3>4. Fields!Held(p, << >>) = << >>
      BY <2>1, <3>3, EmptySeq DEF Fields!Held
    <3>. QED  BY <3>1, <3>2, <3>4
  <2>2. CASE p \notin Fixed
    BY <1>1, <2>2 DEF Init, Shows
  <2>. QED  BY <2>1, <2>2
<1>3. /\ cells = [p \in Place |-> cells[p]]
      /\ filled = [f \in Fixed |-> filled[f]]
  BY DEF Init
<1>4. \A p \in Place : Text(p) = << >>
  BY <1>2, ShownText
<1>5. IInv
  BY <1>2, <1>3, <1>4 DEF IInv
<1>6. Fields!Init
  BY <1>4 DEF Fields!Init, Place
<1>. QED  BY <1>5, <1>6

LEMMA FieldsStep ==
  IInv /\ [Next]_vars => IInv' /\ (Fields!NextUnordered \/ UNCHANGED TextsOf)
<1>. SUFFICES ASSUME IInv, [Next]_vars
              PROVE  IInv' /\ (Fields!NextUnordered \/ UNCHANGED TextsOf)
  OBVIOUS
<1>1. CASE UNCHANGED vars
  BY <1>1 DEF vars, IInv, TextsOf, Text, Shows
<1>2. ASSUME NEW p \in Place, NEW o \in Narrow, AssignFromA(p, o)
      PROVE  IInv' /\ Fields!NextUnordered
  <2>1. p \in Fixed /\ IInv' /\ Fields!Assign(p, o)
    BY <1>2, AssignFromAStep
  <2>. QED  BY <2>1 DEF Fields!NextUnordered, Fields!Next, Place
<1>3. ASSUME NEW p \in Place, NEW o \in Operand, Assign(p, o)
      PROVE  IInv' /\ Fields!NextUnordered
  <2>1. IInv' /\ Fields!Assign(p, o)
    BY <1>3, AssignStep
  <2>. QED  BY <2>1 DEF Fields!NextUnordered, Fields!Next, Fields!Operand, Place, Operand
<1>4. ASSUME NEW p \in Place, NEW o \in Operand, AppendFixed(p, o)
      PROVE  IInv' /\ (Fields!NextUnordered \/ UNCHANGED TextsOf)
  <2>1. IInv' /\ (Fields!AppendFixed(p, o) \/ UNCHANGED TextsOf)
    BY <1>4, AppendStep
  <2>. QED  BY <2>1 DEF Fields!NextUnordered, Fields!Next, Fields!Operand, Place, Operand
<1>5. ASSUME NEW p \in Place, NEW o \in Operand, LSet(p, o)
      PROVE  IInv' /\ Fields!NextUnordered
  <2>1. IInv' /\ Fields!LSet(p, o)
    BY <1>5, LSetStep
  <2>. QED  BY <2>1 DEF Fields!NextUnordered, Fields!Next, Fields!Operand, Place, Operand
<1>6. ASSUME NEW p \in Place, NEW o \in Operand, RSet(p, o)
      PROVE  IInv' /\ Fields!NextUnordered
  <2>1. IInv' /\ Fields!RSet(p, o)
    BY <1>6, RSetStep
  <2>. QED  BY <2>1 DEF Fields!NextUnordered, Fields!Next, Fields!Operand, Place, Operand
<1>7. ASSUME NEW p \in Place, NEW o \in Operand,
             NEW start \in 0 .. Len(Text(p)) + 1, NEW units \in -1 .. Len(Text(p)),
             Mid(p, start, units, o)
      PROVE  IInv' /\ Fields!NextUnordered
  <2>1. Len(Text(p)) \in Nat /\ TextsOf[p] = Text(p)
    BY TextShown
  <2>2. start \in Int /\ units \in Int /\ units \in -1 .. Len(TextsOf[p])
    BY <2>1
  <2>3. /\ IInv' /\ start \in 1 .. Len(TextsOf[p])
        /\ Fields!Mid(p, start, units, o)
           \/ (o = p /\ Fields!MidOfSelf(p, start, units))
    BY <1>7, <2>2, MidStep
  <2>. QED  BY <2>2, <2>3 DEF Fields!NextUnordered, Fields!Next, Fields!Operand, Place, Operand, TextsOf
<1>8. ASSUME NEW p \in Place, NEW q \in Place, Swap(p, q)
      PROVE  IInv' /\ Fields!NextUnordered
  <2>1. /\ IInv' /\ p # q /\ (p \in Fixed \/ q \in Fixed)
        /\ Fields!Swap(p, q) /\ Fields!Swap(q, p)
    BY <1>8, SwapStep
  <2>. QED  BY <2>1 DEF Fields!NextUnordered, Fields!Next, Place
<1>. QED  BY <1>1, <1>2, <1>3, <1>4, <1>5, <1>6, <1>7, <1>8 DEF Next

THEOREM FieldsInvariance == Spec => []IInv
<1>1. IInv /\ [Next]_vars => IInv'
  BY FieldsStep
<1>2. Init => IInv
  BY FieldsInit
<1>. QED  BY <1>1, <1>2, PTL DEF Spec

(* Every field is its cells, no more and no fewer, and the last of them is *)
(* a terminator, whatever statement wrote it and however full it was.      *)
THEOREM FieldTypes == Spec => []TypeOK
<1>1. IInv => TypeOK
  <2>. SUFFICES ASSUME IInv  PROVE TypeOK
    OBVIOUS
  <2>1. ASSUME NEW p \in Place
        PROVE  /\ cells[p] \in Seq(Cell)
               /\ p \in Fixed => Len(cells[p]) = Cap[p] + 1 /\ cells[p][Cap[p] + 1] = Nul
    <3>1. Shows(p, cells[p], Text(p), filled[p])
      BY TextShown
    <3>2. CASE p \in Fixed
      <4>1. /\ cells[p] \in Seq(Cell) /\ Len(cells[p]) = Cap[p] + 1
            /\ Cap[p] \in Nat /\ filled[p] \in 0 .. Cap[p]
            /\ \A i \in 1 .. Len(cells[p]) : i > filled[p] => cells[p][i] = Nul
        BY <3>1, <3>2, FieldAssumption DEF Shows
      <4>2. Cap[p] + 1 \in 1 .. Len(cells[p]) /\ Cap[p] + 1 > filled[p]
        BY <4>1
      <4>. QED  BY <4>1, <4>2
    <3>3. CASE p \notin Fixed
      BY <3>1, <3>3 DEF Shows
    <3>. QED  BY <3>2, <3>3
  <2>2. cells = [p \in Place |-> cells[p]]
    BY DEF IInv
  <2>3. cells \in [Place -> Seq(Cell)]
    BY <2>1, <2>2
  <2>. QED  BY <2>1, <2>3 DEF TypeOK, Place
<1>. QED  BY <1>1, FieldsInvariance, PTL

(* Past the units that an assignment or an append last put into a field    *)
(* there is nothing but NULs, and the text ends no later: what a longer    *)
(* text left there is gone, and the statements that write in place do not  *)
(* reach that far.  NULs among the units are allowed for: there the text   *)
(* ends earlier, and units stay behind it.                                 *)
THEOREM FieldTails == Spec => []TailFilled
<1>1. IInv => TailFilled
  <2>. SUFFICES ASSUME IInv, NEW f \in Fixed
                PROVE  /\ Len(Text(f)) <= filled[f]
                       /\ \A i \in DOMAIN cells[f] :
                            i > filled[f] => cells[f][i] = Nul
    BY DEF TailFilled
  <2>1. Shows(f, cells[f], Text(f), filled[f])
    BY TextShown DEF Place
  <2>. QED  BY <2>1 DEF Shows
<1>. QED  BY <1>1, FieldsInvariance, PTL

(* Read through the walk, the statements are those of UStrFields, for      *)
(* operands with NULs inside as for any: clipped at the capacity and cut   *)
(* at the first NUL, never a longer text than there was under MID, LSET,   *)
(* RSET and SWAP, and no place changed but the one that is written.  The   *)
(* exception is MID of a text onto itself, whose window may end up in      *)
(* another order.                                                          *)
THEOREM FieldRefinement == Spec => FieldSemantics
<1>1. Init => Fields!Init
  BY FieldsInit
<1>2. IInv /\ [Next]_vars => [Fields!NextUnordered]_[p \in Place |-> Text(p)]
  BY FieldsStep DEF TextsOf
<1>. QED  BY <1>1, <1>2, FieldsInvariance, PTL
          DEF Spec, FieldSemantics, Fields!SpecUnordered

=============================================================================
