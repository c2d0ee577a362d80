--------------------------- MODULE UStrInputProofs --------------------------
(***************************************************************************)
(* The invariants of UStrInput: the types for any number of readers of any *)
(* files, and, for one reader, that it gets the lines of the file and the  *)
(* values that were written.                                               *)
(***************************************************************************)
EXTENDS UStrInput, FiniteSetTheorems, SequenceTheorems, WellFoundedInduction, TLAPS

-----------------------------------------------------------------------------
(* Recursion along a text, as in UStrCodecProofs but with strides of any   *)
(* length                                                                  *)

(* Induction down from n + 1 to 1: a set that holds k whenever it holds    *)
(* all that is above k holds every number.  The intervals 0 .. n + 1 - k   *)
(* of the numbers it misses would have a least one under inclusion.        *)
LEMMA DownTo ==
  ASSUME NEW n \in Nat, NEW G,
         \A k \in 1 .. n + 1 : (\A j \in k + 1 .. n + 1 : j \in G) => k \in G
  PROVE  \A k \in 1 .. n + 1 : k \in G
<1> SUFFICES ASSUME NEW l \in 1 .. n + 1, l \notin G  PROVE FALSE
  OBVIOUS
<1> DEFINE M  == {k \in 1 .. n + 1 : k \notin G}
           Up == {0 .. n + 1 - k : k \in M}
<1>1. Up \subseteq FiniteSubsetsOf(Nat)
  <2> SUFFICES ASSUME NEW k \in M
               PROVE  0 .. n + 1 - k \in SUBSET Nat /\ IsFiniteSet(0 .. n + 1 - k)
    BY DEF FiniteSubsetsOf
  <2>1. n + 1 - k \in Int /\ 0 \in Int
    OBVIOUS
  <2>2. IsFiniteSet(0 .. n + 1 - k)
    BY <2>1, FS_Interval
  <2> QED
    BY <2>2
<1>2. Up # {}
  OBVIOUS
<1>3. PICK X \in Up : \A Y \in Up : ~ (<< Y, X >> \in StrictSubsetOrdering(Nat))
  BY <1>1, <1>2, WFMin, FS_StrictSubsetOrderingWellFounded
<1>4. PICK k \in M : X = 0 .. n + 1 - k
  OBVIOUS
<1>5. PICK j \in k + 1 .. n + 1 : j \notin G
  OBVIOUS
<1>6. j \in M /\ j > k
  BY <1>5
<1>7. /\ 0 .. n + 1 - j \subseteq 0 .. n + 1 - k
      /\ n + 1 - k \notin 0 .. n + 1 - j /\ n + 1 - k \in 0 .. n + 1 - k
  BY <1>6
<1>8. 0 .. n + 1 - j # 0 .. n + 1 - k
  BY <1>7
<1>9. 0 .. n + 1 - j \in SUBSET Nat /\ 0 .. n + 1 - k \in SUBSET Nat
  OBVIOUS
<1>10. << 0 .. n + 1 - j, 0 .. n + 1 - k >> \in StrictSubsetOrdering(Nat)
  BY <1>7, <1>8, <1>9 DEF StrictSubsetOrdering
<1> QED
  BY <1>3, <1>4, <1>6, <1>10

(* What Joined makes of the pieces from each place on. *)
IsTails(f, P, K) ==
  f = [i \in Nat |-> IF i \in DOMAIN P THEN P[i] \o f[i + K[i]] ELSE << >>]

Tails(P, K) == CHOOSE f : IsTails(f, P, K)

PiecesOf(S, P, K) == P \in Seq(Seq(S)) /\ K \in [1 .. Len(P) -> Nat \ {0}]

LEMMA JoinedIsTails ==
  ASSUME NEW P, NEW K
  PROVE  Joined(P, K) = Tails(P, K)[1]
BY DEF Joined, Tails, IsTails

LEMMA TailsExist ==
  ASSUME NEW S, NEW P, NEW K, PiecesOf(S, P, K)
  PROVE  IsTails(Tails(P, K), P, K)
<1> DEFINE n == Len(P)
           Solves(k, g) ==
             /\ g = [i \in Nat |-> g[i]]
             /\ \A i \in Nat :
                  i \notin 1 .. k - 1 =>
                    g[i] = IF i \in 1 .. n THEN P[i] \o g[i + K[i]] ELSE << >>
           G == {k \in 1 .. n + 1 : \E g : Solves(k, g)}
<1>1. n \in Nat /\ DOMAIN P = 1 .. n /\ K \in [1 .. n -> Nat \ {0}]
  BY DEF PiecesOf
<1>2. ASSUME NEW k \in 1 .. n + 1, \A j \in k + 1 .. n + 1 : j \in G
      PROVE  k \in G
  <2>1. CASE k = n + 1
    <3> DEFINE g == [i \in Nat |-> << >>]
    <3>1. \A i \in Nat : g[i] = << >>
      OBVIOUS
    <3>2. g = [i \in Nat |-> g[i]]
      OBVIOUS
    <3> HIDE DEF g, n
    <3>3. \A i \in Nat : i \notin 1 .. (n + 1) - 1 => i \notin 1 .. n
      BY <1>1
    <3>4. Solves(n + 1, g)
      BY <3>1, <3>2, <3>3
    <3> HIDE DEF Solves
    <3> QED
      BY <2>1, <3>4
  <2>2. CASE k # n + 1
    <3> HIDE DEF n
    <3>1. k \in 1 .. n /\ k + 1 \in k + 1 .. n + 1 /\ k \in Nat
      BY <1>1, <2>2
    <3>2. PICK g : Solves(k + 1, g)
      BY <1>2, <3>1
    <3> DEFINE h == [i \in Nat |-> IF i = k THEN P[k] \o g[k + K[k]] ELSE g[i]]
    <3>3. K[k] \in Nat \ {0} /\ k + K[k] \in Nat /\ k + K[k] # k
      BY <1>1, <3>1
    <3>4. ASSUME NEW i \in Nat, i \notin 1 .. k - 1
          PROVE  h[i] = IF i \in 1 .. n THEN P[i] \o h[i + K[i]] ELSE << >>
      <4>1. CASE i = k
        <5>1. h[k] = P[k] \o g[k + K[k]] /\ h[k + K[k]] = g[k + K[k]]
          BY <3>1, <3>3
        <5> HIDE DEF h
        <5> QED
          BY <3>1, <4>1, <5>1
      <4>2. CASE i # k
        <5>1. i \notin 1 .. (k + 1) - 1
          BY <3>1, <3>4, <4>2
        <5>2. g[i] = IF i \in 1 .. n THEN P[i] \o g[i + K[i]] ELSE << >>
          BY <3>2, <5>1
        <5>3. h[i] = g[i]
          BY <4>2
        <5>4. CASE i \in 1 .. n
          <6>1. K[i] \in Nat \ {0}
            BY <1>1, <5>4
          <6>2. i + K[i] \in Nat /\ i + K[i] # k
            BY <3>1, <5>1, <5>4, <6>1
          <6>3. h[i + K[i]] = g[i + K[i]]
            BY <6>2
          <6> HIDE DEF h
          <6> QED
            BY <5>2, <5>3, <5>4, <6>3
        <5>5. CASE i \notin 1 .. n
          BY <5>2, <5>3, <5>5
        <5> QED
          BY <5>4, <5>5
      <4> QED
        BY <4>1, <4>2
    <3>5. h = [i \in Nat |-> h[i]]
      OBVIOUS
    <3> HIDE DEF h
    <3>6. Solves(k, h)
      BY <3>4, <3>5
    <3> HIDE DEF Solves
    <3> QED
      BY <3>6
  <2> QED
    BY <2>1, <2>2
<1> HIDE DEF G
<1>3. 1 \in G
  <2> HIDE DEF n
  <2>1. \A k \in 1 .. n + 1 : k \in G
    BY <1>1, <1>2, DownTo
  <2> QED
    BY <1>1, <2>1
<1>4. PICK g : Solves(1, g)
  BY <1>3 DEF G
<1>5. IsTails(g, P, K)
  <2> DEFINE X(i) == IF i \in DOMAIN P THEN P[i] \o g[i + K[i]] ELSE << >>
  <2>1. \A i \in Nat : i \notin 1 .. 1 - 1
    OBVIOUS
  <2>2. g = [i \in Nat |-> g[i]] /\ \A i \in Nat : g[i] = X(i)
    BY <1>1, <1>4, <2>1
  <2> HIDE DEF X
  <2>3. g = [i \in Nat |-> X(i)]
    BY <2>2
  <2> QED
    BY <2>3 DEF X, IsTails
<1> QED
  BY <1>5 DEF Tails

(* The pieces Q and strides L are those of P and K from place m + 1 on.    *)
EndsWith(P, K, m, Q, L) ==
  \A i \in Nat \ {0} : /\ i \in DOMAIN Q <=> m + i \in DOMAIN P
                       /\ i \in DOMAIN Q => P[m + i] = Q[i] /\ K[m + i] = L[i]

LEMMA TailsShift ==
  ASSUME NEW S, NEW P, NEW K, NEW Q, NEW L, NEW m \in Nat,
         PiecesOf(S, Q, L), EndsWith(P, K, m, Q, L),
         NEW f, IsTails(f, P, K), NEW g, IsTails(g, Q, L)
  PROVE  \A i \in Nat \ {0} : g[i] \in Seq(S) /\ f[m + i] = g[i]
<1> DEFINE n == Len(Q)
           G == {k \in 1 .. n + 1 : g[k] \in Seq(S) /\ f[m + k] = g[k]}
<1>1. n \in Nat /\ DOMAIN Q = 1 .. n /\ L \in [1 .. n -> Nat \ {0}]
      /\ \A i \in 1 .. n : Q[i] \in Seq(S)
  BY DEF PiecesOf
<1>2. \A i \in Nat : g[i] = IF i \in DOMAIN Q THEN Q[i] \o g[i + L[i]] ELSE << >>
  BY DEF IsTails
<1>3. \A i \in Nat : f[i] = IF i \in DOMAIN P THEN P[i] \o f[i + K[i]] ELSE << >>
  BY DEF IsTails
<1>4. ASSUME NEW i \in Nat \ {0}, i > n
      PROVE  g[i] \in Seq(S) /\ f[m + i] = g[i]
  <2>1. i \notin DOMAIN Q /\ m + i \in Nat
    BY <1>1, <1>4
  <2>2. m + i \notin DOMAIN P
    BY <2>1 DEF EndsWith
  <2>3. g[i] = << >> /\ f[m + i] = << >>
    BY <1>2, <1>3, <2>1, <2>2
  <2> QED
    BY <2>3, EmptySeq
<1>5. ASSUME NEW k \in 1 .. n + 1, \A j \in k + 1 .. n + 1 : j \in G
      PROVE  k \in G
  <2>1. CASE k = n + 1
    <3>1. k > n /\ k \in Nat \ {0}
      BY <1>1, <2>1
    <3> QED
      BY <1>4, <3>1
  <2>2. CASE k # n + 1
    <3>1. k \in 1 .. n /\ k \in Nat \ {0} /\ m + k \in Nat
      BY <1>1, <2>2
    <3>2. /\ k \in DOMAIN Q /\ m + k \in DOMAIN P /\ Q[k] \in Seq(S)
          /\ P[m + k] = Q[k] /\ K[m + k] = L[k] /\ L[k] \in Nat \ {0}
      BY <1>1, <3>1 DEF EndsWith
    <3> DEFINE j == k + L[k]
    <3>3. j \in Nat \ {0} /\ (m + k) + K[m + k] = m + j /\ j > k
      BY <3>1, <3>2
    <3>4. g[j] \in Seq(S) /\ f[m + j] = g[j]
      <4> HIDE DEF j
      <4>1. CASE j > n
        BY <1>4, <3>3, <4>1
      <4>2. CASE ~ (j > n)
        <5>1. j \in k + 1 .. n + 1
          BY <1>1, <3>1, <3>3, <4>2
        <5> QED
          BY <1>5, <5>1
      <4> QED
        BY <4>1, <4>2
    <3>5. g[k] = Q[k] \o g[j]
      BY <1>2, <3>1, <3>2
    <3>6. f[m + k] = Q[k] \o f[m + j]
      <4> HIDE DEF j
      <4> QED
        BY <1>3, <3>1, <3>2, <3>3
    <3> HIDE DEF j
    <3>7. Q[k] \o g[j] \in Seq(S)
      BY <3>2, <3>4, ConcatProperties
    <3> QED
      BY <3>4, <3>5, <3>6, <3>7
  <2> QED
    BY <2>1, <2>2
<1> HIDE DEF G
<1>6. \A k \in 1 .. n + 1 : k \in G
  BY <1>1, <1>5, DownTo
<1>7. \A i \in Nat \ {0} : i \in 1 .. n + 1 \/ i > n
  BY <1>1
<1> QED
  BY <1>4, <1>6, <1>7 DEF G

(* What pieces join to is a text, and no pieces join to none. *)
LEMMA JoinedTyped ==
  ASSUME NEW S, NEW P, NEW K, PiecesOf(S, P, K)
  PROVE  Joined(P, K) \in Seq(S) /\ (P = << >> => Joined(P, K) = << >>)
<1> DEFINE f == Tails(P, K)
<1>1. IsTails(f, P, K)
  BY TailsExist
<1>2. 0 \in Nat /\ EndsWith(P, K, 0, P, K)
  BY DEF EndsWith
<1> HIDE DEF f
<1>3. f[1] \in Seq(S)
  BY <1>1, <1>2, TailsShift
<1>4. P = << >> => f[1] = << >>
  BY <1>1 DEF IsTails
<1> QED
  BY <1>3, <1>4, JoinedIsTails DEF f

(* The first piece comes first, and what is a stride further on behind it. *)
LEMMA JoinedStep ==
  ASSUME NEW S, NEW P, NEW K, PiecesOf(S, P, K), P # << >>,
         NEW Q, NEW L, PiecesOf(S, Q, L), EndsWith(P, K, K[1], Q, L)
  PROVE  Joined(P, K) = P[1] \o Joined(Q, L)
<1> DEFINE f == Tails(P, K)
           g == Tails(Q, L)
<1>1. IsTails(f, P, K) /\ IsTails(g, Q, L)
  BY TailsExist
<1>2. 1 \in DOMAIN P /\ K[1] \in Nat
  <2> DEFINE T == Seq(S)
  <2>0. P \in Seq(T)
    BY DEF PiecesOf
  <2> HIDE DEF T
  <2>1. Len(P) \in Nat /\ Len(P) # 0 /\ DOMAIN P = 1 .. Len(P)
    BY <2>0, EmptySeq, LenProperties
  <2>2. 1 \in 1 .. Len(P)
    BY <2>1
  <2> QED
    BY <2>1, <2>2 DEF PiecesOf
<1> HIDE DEF f, g
<1>3. f[1] = P[1] \o f[1 + K[1]]
  BY <1>1, <1>2 DEF IsTails
<1>4. f[K[1] + 1] = g[1]
  BY <1>1, <1>2, TailsShift
<1>5. 1 + K[1] = K[1] + 1
  BY <1>2
<1> QED
  BY <1>3, <1>4, <1>5, JoinedIsTails DEF f, g

-----------------------------------------------------------------------------
(* The lines of a text, one after the other *)

Plain == Letter \ {CR, LF}

(* The line that begins at i ends at j. *)
EndsAt(t, i, j) ==
  /\ j \in i .. Len(t) + 1
  /\ j = Len(t) + 1 \/ t[j] \in {CR, LF}
  /\ \A k \in i .. j - 1 : t[k] \notin {CR, LF}

LEMMA StopChosen ==
  ASSUME NEW t, NEW i
  PROVE  /\ Stop(t, i) = CHOOSE j : EndsAt(t, i, j)
         /\ (\E j : EndsAt(t, i, j)) => EndsAt(t, i, Stop(t, i))
<1>1. Stop(t, i) = CHOOSE j : EndsAt(t, i, j)
  BY DEF Stop, EndsAt
<1> QED
  BY <1>1

LEMMA StopUnique ==
  ASSUME NEW n \in Nat, NEW i \in Nat \ {0}, NEW t, NEW j, NEW l,
         Len(t) = n, EndsAt(t, i, j), EndsAt(t, i, l)
  PROVE  j = l
<1>1. j \in Int /\ l \in Int /\ i \in Int
  BY DEF EndsAt
<1>2. ~ (j < l)
  <2> SUFFICES ASSUME j < l  PROVE FALSE
    OBVIOUS
  <2>1. j \in i .. l - 1 /\ j # n + 1
    BY <1>1 DEF EndsAt
  <2> QED
    BY <2>1 DEF EndsAt
<1>3. ~ (l < j)
  <2> SUFFICES ASSUME l < j  PROVE FALSE
    OBVIOUS
  <2>1. l \in i .. j - 1 /\ l # n + 1
    BY <1>1 DEF EndsAt
  <2> QED
    BY <2>1 DEF EndsAt
<1> QED
  BY <1>1, <1>2, <1>3

LEMMA StopIs ==
  ASSUME NEW n \in Nat, NEW i \in Nat \ {0}, NEW t, NEW j,
         Len(t) = n, EndsAt(t, i, j)
  PROVE  Stop(t, i) = j
BY StopChosen, StopUnique

(* Every line ends. *)
LEMMA StopExists ==
  ASSUME NEW n \in Nat, NEW t, Len(t) = n
  PROVE  \A i \in 1 .. n + 1 : EndsAt(t, i, Stop(t, i))
<1> DEFINE G == {i \in 1 .. n + 1 : \E j : EndsAt(t, i, j)}
<1>1. ASSUME NEW k \in 1 .. n + 1, \A j \in k + 1 .. n + 1 : j \in G
      PROVE  k \in G
  <2>1. CASE k = n + 1 \/ t[k] \in {CR, LF}
    <3>1. EndsAt(t, k, k)
      BY <2>1 DEF EndsAt
    <3> QED
      BY <3>1
  <2>2. CASE k # n + 1 /\ t[k] \notin {CR, LF}
    <3>1. k + 1 \in k + 1 .. n + 1
      BY <2>2
    <3>2. PICK j : EndsAt(t, k + 1, j)
      BY <1>1, <3>1
    <3>3. j \in k .. n + 1 /\ \A m \in k .. j - 1 : m = k \/ m \in k + 1 .. j - 1
      BY <3>2 DEF EndsAt
    <3>4. EndsAt(t, k, j)
      BY <2>2, <3>2, <3>3 DEF EndsAt
    <3> QED
      BY <3>4
  <2> QED
    BY <2>1, <2>2
<1>2. \A k \in 1 .. n + 1 : k \in G
  <2> HIDE DEF G
  <2> QED
    BY <1>1, DownTo
<1> QED
  BY <1>2, StopChosen

(* The text u is what t has behind its first m characters. *)
Behind(t, m, u) ==
  \A i \in Nat \ {0} : /\ i <= Len(u) <=> m + i <= Len(t)
                       /\ i <= Len(u) => u[i] = t[m + i]

LEMMA EndsBehind ==
  ASSUME NEW n \in Nat, NEW o \in Nat, NEW m \in Nat, NEW t, NEW u,
         Len(t) = n, Len(u) = o, Behind(t, m, u), NEW i \in 1 .. o, NEW j,
         EndsAt(u, i, j)
  PROVE  /\ EndsAt(t, m + i, m + j)
         /\ Beyond(t, m + j) = m + Beyond(u, j)
         /\ Beyond(u, j) \in Nat /\ Beyond(u, j) > j
<1>1. j \in i .. o + 1 /\ j \in Nat \ {0} /\ m + o = n
  <2>1. j \in i .. o + 1 /\ j \in Nat \ {0}
    BY DEF EndsAt
  <2>2. o \in Nat \ {0} /\ o + 1 \in Nat \ {0}
    OBVIOUS
  <2>3. m + o <= n /\ ~ (m + (o + 1) <= n)
    BY <2>2 DEF Behind
  <2> QED
    BY <2>1, <2>3
<1>2. \A k \in 1 .. o : u[k] = t[m + k]
  BY DEF Behind
<1>3. EndsAt(t, m + i, m + j)
  <2>1. m + j \in m + i .. n + 1 /\ (j = o + 1 => m + j = n + 1)
    BY <1>1
  <2>2. j # o + 1 => t[m + j] = u[j] /\ j \in 1 .. o
    BY <1>1, <1>2
  <2>3. ASSUME NEW k \in m + i .. (m + j) - 1  PROVE t[k] \notin {CR, LF}
    <3>1. k - m \in i .. j - 1 /\ k - m \in 1 .. o /\ m + (k - m) = k
      BY <1>1
    <3> QED
      BY <1>2, <3>1 DEF EndsAt
  <2> QED
    BY <2>1, <2>2, <2>3 DEF EndsAt
<1>4. CASE j = o + 1
  <2>1. ~ (j < o) /\ ~ (m + j < n) /\ (m + j) + 1 = m + (j + 1) /\ j + 1 > j
    BY <1>1, <1>4
  <2>2. Beyond(u, j) = j + 1 /\ Beyond(t, m + j) = (m + j) + 1
    BY <2>1 DEF Beyond
  <2> QED
    BY <1>1, <1>3, <2>1, <2>2
<1>5. CASE j # o + 1
  <2>1. j \in 1 .. o /\ u[j] = t[m + j] /\ (j < o <=> m + j < n)
    BY <1>1, <1>2, <1>5
  <2>2. j < o => j + 1 \in 1 .. o /\ m + (j + 1) = (m + j) + 1
    BY <2>1
  <2>3. j < o => u[j + 1] = t[(m + j) + 1]
    BY <1>2, <2>2
  <2> QED
    BY <1>3, <2>1, <2>3, <1>1 DEF Beyond
<1> QED
  BY <1>3, <1>4, <1>5

(* What LinesOf joins. *)
LinePieces(t)  == [i \in 1 .. Len(t) |-> << SubSeq(t, i, Stop(t, i) - 1) >>]
LineStrides(t) == [i \in 1 .. Len(t) |-> Beyond(t, Stop(t, i)) - i]

LEMMA LinePiecesTyped ==
  ASSUME NEW t \in Seq(Letter)
  PROVE  /\ PiecesOf(Seq(Letter), LinePieces(t), LineStrides(t))
         /\ LinesOf(t) = Joined(LinePieces(t), LineStrides(t))
         /\ DOMAIN LinePieces(t) = 1 .. Len(t) /\ Len(LinePieces(t)) = Len(t)
<1> DEFINE n == Len(t)
           P == LinePieces(t)
<1>1. n \in Nat /\ DOMAIN t = 1 .. n /\ \A i \in 1 .. n : t[i] \in Letter
  BY LenProperties, ElementOfSeq
<1>2. ASSUME NEW i \in 1 .. n
      PROVE  /\ SubSeq(t, i, Stop(t, i) - 1) \in Seq(Letter)
             /\ Beyond(t, Stop(t, i)) - i \in Nat \ {0}
  <2>1. EndsAt(t, i, Stop(t, i))
    BY <1>1, StopExists
  <2>2. Stop(t, i) \in i .. n + 1
    BY <2>1 DEF EndsAt
  <2>3. Beyond(t, Stop(t, i)) \in {Stop(t, i) + 1, Stop(t, i) + 2}
    BY DEF Beyond
  <2>4. \A k \in i .. Stop(t, i) - 1 : t[k] \in Letter
    BY <1>1, <2>2
  <2>5. SubSeq(t, i, Stop(t, i) - 1) \in Seq(Letter)
    BY <1>1, <2>2, <2>4, SubSeqProperties
  <2> QED
    BY <1>1, <2>2, <2>3, <2>5
<1> HIDE DEF n
<1>3. P = [i \in 1 .. n |-> << SubSeq(t, i, Stop(t, i) - 1) >>]
  BY DEF LinePieces, n
<1>4. P \in [1 .. n -> Seq(Seq(Letter))]
  <2>1. \A i \in 1 .. n : << SubSeq(t, i, Stop(t, i) - 1) >> \in Seq(Seq(Letter))
    BY <1>2
  <2> HIDE DEF P
  <2> QED
    BY <1>3, <2>1
<1> HIDE DEF P
<1>5. P \in Seq(Seq(Seq(Letter)))
  <2> DEFINE T == Seq(Seq(Letter))
  <2>1. P \in [1 .. n -> T]
    BY <1>4
  <2> HIDE DEF T
  <2>2. P \in Seq(T)
    BY <1>1, <2>1, SeqDef
  <2> QED
    BY <2>2 DEF T
<1>6. Len(P) = n /\ DOMAIN P = 1 .. n
  BY <1>1, <1>3
<1>7. LineStrides(t) \in [1 .. n -> Nat \ {0}]
  BY <1>2 DEF LineStrides, n
<1> QED
  BY <1>5, <1>6, <1>7 DEF PiecesOf, LinesOf, LinePieces, LineStrides, P, n

(* The lines of a text are its first, the text b, and those of the text u  *)
(* behind the end of that.                                                 *)
LEMMA FirstLine ==
  ASSUME NEW t \in Seq(Letter), t # << >>, NEW u \in Seq(Letter), NEW j,
         EndsAt(t, 1, j), Behind(t, Beyond(t, j) - 1, u)
  PROVE  LinesOf(t) = << SubSeq(t, 1, j - 1) >> \o LinesOf(u)
<1> DEFINE n == Len(t)
           o == Len(u)
           m == Beyond(t, j) - 1
<1>1. n \in Nat /\ o \in Nat /\ n # 0 /\ j \in 1 .. n + 1
  BY EmptySeq, LenProperties DEF EndsAt
<1>2. Stop(t, 1) = j /\ m \in Nat
  <2>1. Stop(t, 1) = j
    BY <1>1, StopIs
  <2>2. Beyond(t, j) \in {j + 1, j + 2}
    BY DEF Beyond
  <2> QED
    BY <1>1, <2>1, <2>2
<1>3. LineStrides(t)[1] = m /\ LinePieces(t)[1] = << SubSeq(t, 1, j - 1) >>
  <2>1. 1 \in 1 .. n
    BY <1>1
  <2>2. LineStrides(t)[1] = Beyond(t, Stop(t, 1)) - 1
    BY <2>1, Zenon DEF LineStrides
  <2>3. LinePieces(t)[1] = << SubSeq(t, 1, Stop(t, 1) - 1) >>
    BY <2>1, Zenon DEF LinePieces
  <2> QED
    BY <1>2, <2>2, <2>3, Zenon
<1>4. EndsWith(LinePieces(t), LineStrides(t), m, LinePieces(u), LineStrides(u))
  <2> SUFFICES ASSUME NEW i \in Nat \ {0}
               PROVE  /\ i \in 1 .. o <=> m + i \in 1 .. n
                      /\ i \in 1 .. o =>
                           /\ LinePieces(t)[m + i] = LinePieces(u)[i]
                           /\ LineStrides(t)[m + i] = LineStrides(u)[i]
    BY LinePiecesTyped DEF EndsWith
  <2> HIDE DEF m, n, o
  <2>0. Len(t) = n /\ Len(u) = o /\ Behind(t, m, u)
    BY DEF n, o, m
  <2>1. i \in 1 .. o <=> m + i \in 1 .. n
    BY <1>1, <1>2, <2>0 DEF Behind
  <2>2. ASSUME i \in 1 .. o
        PROVE  /\ LinePieces(t)[m + i] = LinePieces(u)[i]
               /\ LineStrides(t)[m + i] = LineStrides(u)[i]
    <3> DEFINE k == Stop(u, i)
    <3>1. EndsAt(u, i, k) /\ i \in 1 .. o + 1
      BY <1>1, <2>0, <2>2, StopExists
    <3> HIDE DEF k
    <3>2. /\ EndsAt(t, m + i, m + k)
          /\ Beyond(t, m + k) = m + Beyond(u, k) /\ Beyond(u, k) \in Nat
      BY <1>1, <1>2, <2>0, <2>2, <3>1, EndsBehind
    <3>3. m + i \in 1 .. n /\ k \in i .. o + 1 /\ k \in Nat
      BY <2>1, <2>2, <3>1, <2>0 DEF EndsAt
    <3>4. Stop(t, m + i) = m + k
      BY <1>1, <2>0, <3>2, <3>3, StopIs
    <3>5. Beyond(t, m + k) - (m + i) = Beyond(u, k) - i
      BY <1>2, <3>2
    <3>6. LineStrides(t)[m + i] = LineStrides(u)[i]
      BY <2>0, <2>2, <3>3, <3>4, <3>5 DEF LineStrides, k
    <3>7. SubSeq(t, m + i, (m + k) - 1) = SubSeq(u, i, k - 1)
      <4> DEFINE x == SubSeq(t, m + i, (m + k) - 1)
                 y == SubSeq(u, i, k - 1)
      <4>1. \A l \in i .. k - 1 : l \in 1 .. o /\ l \in Nat \ {0} /\ m + l \in 1 .. n
        BY <2>1, <2>2, <3>3, <1>1, <1>2, <2>0 DEF Behind
      <4>2. \A l \in i .. k - 1 : u[l] \in Letter /\ u[l] = t[m + l]
        BY <4>1, <2>0, ElementOfSeq DEF Behind
      <4>3. \A l \in m + i .. (m + k) - 1 : l - m \in i .. k - 1 /\ m + (l - m) = l
        BY <1>2, <2>2, <3>3
      <4>4. \A l \in m + i .. (m + k) - 1 : t[l] \in Letter
        BY <4>2, <4>3
      <4>5. /\ m + i \in Int /\ (m + k) - 1 \in Int /\ i \in Int /\ k - 1 \in Int
            /\ i <= k /\ (((m + k) - 1) - (m + i)) + 1 = ((k - 1) - i) + 1
            /\ (m + i <= (m + k) - 1 <=> i <= k - 1)
        BY <1>2, <2>2, <3>3
      <4>6. /\ y \in Seq(Letter) /\ Len(y) = k - i
            /\ \A l \in 1 .. ((k - 1) - i) + 1 : y[l] = u[(i + l) - 1]
        BY <4>2, <4>5, <3>3, SubSeqProperties
      <4>7. /\ x \in Seq(Letter) /\ Len(x) = k - i
            /\ \A l \in 1 .. (((m + k) - 1) - (m + i)) + 1 :
                 x[l] = t[((m + i) + l) - 1]
        BY <4>4, <4>5, <3>3, SubSeqProperties
      <4>8. ASSUME NEW l \in 1 .. k - i  PROVE x[l] = y[l]
        <5>1. /\ (i + l) - 1 \in i .. k - 1
              /\ ((m + i) + l) - 1 = m + ((i + l) - 1)
              /\ l \in 1 .. ((k - 1) - i) + 1
          BY <1>2, <2>2, <3>3
        <5> HIDE DEF x, y
        <5> QED
          BY <4>2, <4>5, <4>6, <4>7, <5>1
      <4> HIDE DEF x, y
      <4>9. x = y
        BY <4>6, <4>7, <4>8, SeqEqual
      <4> QED
        BY <4>9 DEF x, y
    <3>8. LinePieces(t)[m + i] = LinePieces(u)[i]
      BY <2>0, <2>2, <3>3, <3>4, <3>7 DEF LinePieces, k
    <3> QED
      BY <3>6, <3>8
  <2> QED
    BY <2>1, <2>2
<1>5. LinePieces(t) # << >>
  BY <1>1, LinePiecesTyped, EmptySeq
<1> HIDE DEF m, n, o
<1>6. Joined(LinePieces(t), LineStrides(t))
        = LinePieces(t)[1] \o Joined(LinePieces(u), LineStrides(u))
  <2>1. /\ PiecesOf(Seq(Letter), LinePieces(t), LineStrides(t))
        /\ PiecesOf(Seq(Letter), LinePieces(u), LineStrides(u))
    BY LinePiecesTyped
  <2>2. EndsWith(LinePieces(t), LineStrides(t), LineStrides(t)[1],
                 LinePieces(u), LineStrides(u))
    BY <1>3, <1>4
  <2> DEFINE P == LinePieces(t)
             K == LineStrides(t)
             Q == LinePieces(u)
             L == LineStrides(u)
             S == Seq(Letter)
  <2> HIDE DEF P, K, Q, L, S
  <2>3. /\ PiecesOf(S, P, K) /\ PiecesOf(S, Q, L) /\ P # << >>
        /\ EndsWith(P, K, K[1], Q, L)
    BY <1>5, <2>1, <2>2, Zenon DEF P, K, Q, L, S
  <2>4. Joined(P, K) = P[1] \o Joined(Q, L)
    BY <2>3, JoinedStep
  <2> QED
    BY <2>4, Zenon DEF P, K, Q, L
<1> QED
  BY <1>3, <1>6, LinePiecesTyped

LEMMA LinesTyped ==
  ASSUME NEW t \in Seq(Letter)
  PROVE  LinesOf(t) \in Seq(Seq(Letter)) /\ (t = << >> => LinesOf(t) = << >>)
<1>1. /\ PiecesOf(Seq(Letter), LinePieces(t), LineStrides(t))
      /\ LinesOf(t) = Joined(LinePieces(t), LineStrides(t))
  BY LinePiecesTyped
<1>2. t = << >> => LinePieces(t) = << >>
  BY DEF LinePieces
<1> QED
  BY <1>1, <1>2, JoinedTyped, Zenon

(* The text after a line feed that ends a carriage return's line. *)
Ended(u) == IF u # << >> /\ u[1] = LF THEN Tail(u) ELSE u

(* A line that nothing ends, one that a line feed ends, and one that a     *)
(* carriage return ends, with a line feed or without.                      *)
LEMMA LastLine ==
  ASSUME NEW b \in Seq(Plain), b # << >>
  PROVE  LinesOf(b) = << b >>
<1> DEFINE n == Len(b)
<1>1. n \in Nat \ {0} /\ \A i \in 1 .. n : b[i] \in Plain
  BY EmptySeq, ElementOfSeq
<1>2. b \in Seq(Letter)
  BY SeqMonotonic DEF Plain
<1>3. EndsAt(b, 1, n + 1)
  BY <1>1 DEF EndsAt, Plain
<1>4. Behind(b, Beyond(b, n + 1) - 1, << >>)
  <2>1. Beyond(b, n + 1) = n + 2
    <3>1. ~ (n + 1 < n)
      BY <1>1
    <3> QED
      BY <1>1, <3>1 DEF Beyond
  <2>2. ASSUME NEW i \in Nat \ {0}
        PROVE  ~ (i <= 0) /\ ~ (((n + 2) - 1) + i <= n)
    BY <1>1
  <2>3. Len(<< >>) = 0
    OBVIOUS
  <2> HIDE DEF n
  <2>4. Len(b) = n
    BY DEF n
  <2> QED
    BY <2>1, <2>2, <2>3, <2>4 DEF Behind
<1>5. SubSeq(b, 1, (n + 1) - 1) = b
  <2>1. (n + 1) - 1 = n
    BY <1>1
  <2> QED
    BY <2>1, SubSeqFull
<1> HIDE DEF n
<1>6. << >> \in Seq(Letter) /\ LinesOf(<< >>) = << >>
  BY EmptySeq, LinesTyped
<1>7. LinesOf(b) = << b >> \o LinesOf(<< >>)
  <2> DEFINE none == << >>
             j == n + 1
  <2>1. none \in Seq(Letter) /\ EndsAt(b, 1, j) /\ Behind(b, Beyond(b, j) - 1, none)
    BY <1>3, <1>4, <1>6
  <2> HIDE DEF none, j
  <2>2. LinesOf(b) = << SubSeq(b, 1, j - 1) >> \o LinesOf(none)
    BY <1>2, <2>1, FirstLine
  <2> QED
    BY <1>5, <2>2, Zenon DEF none, j
<1>8. << b >> \in Seq(Seq(Letter))
  BY <1>2
<1> QED
  BY <1>6, <1>7, <1>8, ConcatEmptySeq

(* A text of a line, a mark that ends it, and more. *)
LEMMA MarkedLine ==
  ASSUME NEW b \in Seq(Plain), NEW mark \in {CR, LF}, NEW u \in Seq(Letter)
  PROVE  LinesOf(b \o << mark >> \o u)
           = << b >> \o LinesOf(IF mark = CR THEN Ended(u) ELSE u)
<1> DEFINE n == Len(b)
           o == Len(u)
           t == b \o << mark >> \o u
           v == IF mark = CR THEN Ended(u) ELSE u
           m == Beyond(t, n + 1) - 1
<1>1. /\ n \in Nat /\ o \in Nat /\ b \in Seq(Letter) /\ mark \in Letter
      /\ << mark >> \in Seq(Letter) /\ Len(<< mark >>) = 1
      /\ \A i \in 1 .. n : b[i] \in Plain
  BY SeqMonotonic, LenProperties, ElementOfSeq DEF Plain, Letter, Mark
<1>2. /\ t \in Seq(Letter) /\ Len(t) = (n + 1) + o
      /\ \A i \in 1 .. n : t[i] = b[i]
      /\ t[n + 1] = mark
      /\ \A i \in 1 .. o : t[(n + 1) + i] = u[i]
  <2> DEFINE s == b \o << mark >>
  <2>1. /\ s \in Seq(Letter) /\ Len(s) = n + 1
        /\ \A i \in 1 .. n + 1 : s[i] = IF i <= n THEN b[i] ELSE << mark >>[i - n]
    BY <1>1, ConcatProperties
  <2>2. (\A i \in 1 .. n : s[i] = b[i]) /\ s[n + 1] = mark
    <3>1. /\ \A i \in 1 .. n : i \in 1 .. n + 1 /\ i <= n
          /\ n + 1 \in 1 .. n + 1 /\ ~ (n + 1 <= n) /\ (n + 1) - n = 1
      BY <1>1
    <3> HIDE DEF s, n
    <3> QED
      BY <2>1, <3>1
  <2> HIDE DEF s
  <2>3. /\ t \in Seq(Letter) /\ Len(t) = (n + 1) + o
        /\ \A i \in 1 .. (n + 1) + o :
             t[i] = IF i <= n + 1 THEN s[i] ELSE u[i - (n + 1)]
    BY <2>1, ConcatProperties DEF s
  <2>4. /\ \A i \in 1 .. n + 1 : i \in 1 .. (n + 1) + o /\ i <= n + 1
        /\ \A i \in 1 .. o : /\ (n + 1) + i \in 1 .. (n + 1) + o
                             /\ ~ ((n + 1) + i <= n + 1)
                             /\ ((n + 1) + i) - (n + 1) = i
        /\ n + 1 \in 1 .. n + 1 /\ \A i \in 1 .. n : i \in 1 .. n + 1
    BY <1>1
  <2> HIDE DEF n, o, t
  <2> QED
    BY <2>2, <2>3, <2>4
<1> HIDE DEF t
<1>3. t # << >> /\ EndsAt(t, 1, n + 1)
  <2>1. \A i \in 1 .. n : t[i] \notin {CR, LF}
    BY <1>1, <1>2 DEF Plain
  <2>2. /\ n + 1 \in 1 .. ((n + 1) + o) + 1 /\ 1 .. (n + 1) - 1 = 1 .. n
        /\ (n + 1) + o # 0
    BY <1>1
  <2> HIDE DEF n, o
  <2>3. t # << >>
    BY <1>2, <2>2
  <2> QED
    BY <1>2, <2>1, <2>2, <2>3 DEF EndsAt
<1>4. v \in Seq(Letter) /\ Behind(t, m, v)
  <2>1. CASE mark = CR /\ u # << >> /\ u[1] = LF
    <3>1. /\ v = Tail(u) /\ v \in Seq(Letter) /\ Len(v) = o - 1
          /\ \A i \in 1 .. Len(v) : v[i] = u[i + 1]
      BY <2>1, HeadTailProperties DEF Ended
    <3>2. o \in Nat \ {0}
      BY <2>1, EmptySeq
    <3>3. m = n + 2
      <4>1. /\ 1 \in 1 .. o /\ n + 1 < (n + 1) + o /\ (n + 1) + 1 = n + 2
            /\ ((n + 1) + 2) - 1 = n + 2
        BY <1>1, <3>2
      <4>2. t[(n + 1) + 1] = LF
        BY <1>2, <2>1, <4>1
      <4>3. Beyond(t, n + 1) = (n + 1) + 2
        BY <1>2, <2>1, <4>1, <4>2 DEF Beyond
      <4> QED
        BY <4>1, <4>3
    <3>4. ASSUME NEW i \in Nat \ {0}
          PROVE  /\ i <= o - 1 <=> (n + 2) + i <= (n + 1) + o
                 /\ i <= o - 1 => /\ i \in 1 .. o - 1 /\ i + 1 \in 1 .. o
                                  /\ (n + 2) + i = (n + 1) + (i + 1)
      BY <1>1, <3>2
    <3> HIDE DEF n, o, m, v
    <3> QED
      BY <1>2, <3>1, <3>3, <3>4 DEF Behind
  <2>2. CASE ~ (mark = CR /\ u # << >> /\ u[1] = LF)
    <3>1. v = u
      BY <2>2 DEF Ended
    <3>2. m = n + 1
      <4>1. /\ o # 0 => 1 \in 1 .. o
            /\ n + 1 < (n + 1) + o => o # 0
            /\ ((n + 1) + 1) - 1 = n + 1
        BY <1>1
      <4>2. ~ (/\ n + 1 < Len(t) /\ t[n + 1] = CR /\ t[(n + 1) + 1] = LF)
        <5>1. o # 0 => u # << >>
          OBVIOUS
        <5> HIDE DEF n, o
        <5> QED
          BY <1>2, <2>2, <4>1, <5>1
      <4>3. Beyond(t, n + 1) = (n + 1) + 1
        BY <4>2 DEF Beyond
      <4> QED
        BY <4>1, <4>3
    <3>3. ASSUME NEW i \in Nat \ {0}
          PROVE  /\ i <= o <=> (n + 1) + i <= (n + 1) + o
                 /\ i <= o => i \in 1 .. o
      BY <1>1
    <3>4. Len(u) = o
      OBVIOUS
    <3> HIDE DEF n, o, m, v
    <3> QED
      BY <1>2, <3>1, <3>2, <3>3, <3>4 DEF Behind
  <2> QED
    BY <2>1, <2>2
<1>5. SubSeq(t, 1, (n + 1) - 1) = b
  <2> DEFINE x == SubSeq(t, 1, n)
  <2>1. /\ 1 \in Int /\ n \in Int /\ (n - 1) + 1 = n
        /\ (IF 1 <= n THEN (n - 1) + 1 ELSE 0) = n /\ (n + 1) - 1 = n
        /\ \A i \in 1 .. n : (1 + i) - 1 = i
    BY <1>1
  <2>2. \A i \in 1 .. n : t[i] \in Letter
    BY <1>1, <1>2 DEF Plain
  <2>3. /\ x \in Seq(Letter) /\ Len(x) = IF 1 <= n THEN (n - 1) + 1 ELSE 0
        /\ \A i \in 1 .. (n - 1) + 1 : x[i] = t[(1 + i) - 1]
    BY <2>1, <2>2, SubSeqProperties
  <2> HIDE DEF x
  <2>4. Len(x) = n /\ \A i \in 1 .. n : x[i] = b[i]
    <3> HIDE DEF n
    <3> QED
      BY <1>2, <2>1, <2>3
  <2>5. x = b
    BY <1>1, <2>3, <2>4, SeqEqual
  <2> QED
    BY <2>1, <2>5 DEF x
<1> HIDE DEF n, o, m, v
<1>6. LinesOf(t) = << SubSeq(t, 1, (n + 1) - 1) >> \o LinesOf(v)
  BY <1>2, <1>3, <1>4, FirstLine DEF m
<1> QED
  BY <1>5, <1>6 DEF t, v

-----------------------------------------------------------------------------
(* The values of a file, one after the other *)

Value == {v \in Seq(Letter \ {CR, LF, Quote}) : Len(v) < MaxToken}

(* What WRITE # puts behind the first of the values. *)
Behind1(l) == IF Len(l) = 1 THEN LF ELSE Comma

LEMMA QuotedTyped ==
  ASSUME NEW v \in Value, NEW mark \in Mark
  PROVE  Quoted(v, mark) \in Seq(Letter)
<1>1. /\ v \in Seq(Letter) /\ << Quote >> \in Seq(Letter)
      /\ << Quote, mark >> \in Seq(Letter)
  BY SeqMonotonic DEF Value, Letter, Mark
<1>2. v \o << Quote, mark >> \in Seq(Letter)
  BY <1>1, ConcatProperties
<1>3. << Quote >> \o (v \o << Quote, mark >>) \in Seq(Letter)
  BY <1>1, <1>2, ConcatProperties
<1>4. << Quote >> \o v \o << Quote, mark >> = << Quote >> \o (v \o << Quote, mark >>)
  BY <1>1, ConcatAssociative
<1> QED
  BY <1>3, <1>4 DEF Quoted

(* What Written joins. *)
ValuePieces(l)  == [i \in 1 .. Len(l) |->
                      Quoted(l[i], IF i = Len(l) THEN LF ELSE Comma)]
ValueStrides(l) == [i \in 1 .. Len(l) |-> 1]

LEMMA ValuePiecesTyped ==
  ASSUME NEW l \in Seq(Value)
  PROVE  /\ PiecesOf(Letter, ValuePieces(l), ValueStrides(l))
         /\ Written(l) = Joined(ValuePieces(l), ValueStrides(l))
         /\ DOMAIN ValuePieces(l) = 1 .. Len(l)
         /\ l # << >> => ValuePieces(l) # << >>
<1> DEFINE n == Len(l)
           P == ValuePieces(l)
           T == Seq(Letter)
<1>1. n \in Nat /\ \A i \in 1 .. n : l[i] \in Value
  BY LenProperties, ElementOfSeq
<1>2. \A i \in 1 .. n : Quoted(l[i], IF i = n THEN LF ELSE Comma) \in T
  BY <1>1, QuotedTyped DEF Mark
<1>3. P \in [1 .. n -> T] /\ DOMAIN P = 1 .. n
  BY <1>2, Zenon DEF ValuePieces
<1>4. P \in Seq(T)
  <2> HIDE DEF P, T, n
  <2> QED
    BY <1>1, <1>3, SeqDef
<1>5. Len(P) = n /\ ValueStrides(l) \in [1 .. n -> Nat \ {0}]
  <2>1. Len(P) = n
    <3> HIDE DEF P, T, n
    <3> QED
      BY <1>1, <1>3, <1>4, LenProperties
  <2> QED
    BY <2>1 DEF ValueStrides
<1>6. l # << >> => P # << >>
  <2>1. l # << >> => n # 0
    BY EmptySeq
  <2> HIDE DEF P, T, n
  <2>2. Len(<< >>) = 0
    OBVIOUS
  <2> QED
    BY <1>5, <2>1, <2>2
<1>7. Written(l) = Joined(ValuePieces(l), ValueStrides(l))
  BY DEF Written, ValuePieces, ValueStrides
<1> QED
  BY <1>3, <1>4, <1>5, <1>6, <1>7 DEF PiecesOf

LEMMA WrittenTyped ==
  ASSUME NEW l \in Seq(Value)
  PROVE  Written(l) \in Seq(Letter) /\ (l = << >> => Written(l) = << >>)
<1>1. l = << >> => ValuePieces(l) = << >>
  BY DEF ValuePieces
<1>2. /\ PiecesOf(Letter, ValuePieces(l), ValueStrides(l))
      /\ Written(l) = Joined(ValuePieces(l), ValueStrides(l))
  BY ValuePiecesTyped
<1> QED
  BY <1>1, <1>2, JoinedTyped, Zenon

(* The first of the values comes first, and the others are written behind  *)
(* it.                                                                     *)
LEMMA WrittenStep ==
  ASSUME NEW l \in Seq(Value), l # << >>
  PROVE  Written(l) = Quoted(Head(l), Behind1(l)) \o Written(Tail(l))
<1> DEFINE n == Len(l)
           r == Tail(l)
<1>1. n \in Nat \ {0} /\ DOMAIN l = 1 .. n
  BY EmptySeq, LenProperties
<1>2. /\ r \in Seq(Value) /\ Len(r) = n - 1
      /\ \A i \in 1 .. n - 1 : r[i] = l[i + 1]
  BY HeadTailProperties
<1> HIDE DEF n, r
<1>3. Len(l) = n /\ r = Tail(l)
  BY DEF n, r
<1>4. /\ ValueStrides(l)[1] = 1
      /\ ValuePieces(l)[1] = Quoted(Head(l), Behind1(l))
  <2>1. 1 \in 1 .. n /\ (1 = n <=> n = 1)
    BY <1>1
  <2>2. ValuePieces(l)[1] = Quoted(l[1], IF 1 = Len(l) THEN LF ELSE Comma)
    BY <1>3, <2>1, Zenon DEF ValuePieces
  <2>3. Head(l) = l[1]
    BY DEF Head
  <2> QED
    BY <1>3, <2>1, <2>2, <2>3 DEF ValueStrides, Behind1
<1>5. EndsWith(ValuePieces(l), ValueStrides(l), 1, ValuePieces(r), ValueStrides(r))
  <2> SUFFICES ASSUME NEW i \in Nat \ {0}
               PROVE  /\ i \in 1 .. n - 1 <=> 1 + i \in 1 .. n
                      /\ i \in 1 .. n - 1 =>
                           /\ ValuePieces(l)[1 + i] = ValuePieces(r)[i]
                           /\ ValueStrides(l)[1 + i] = ValueStrides(r)[i]
    BY <1>2, <1>3, ValuePiecesTyped DEF EndsWith
  <2>1. i \in 1 .. n - 1 <=> 1 + i \in 1 .. n
    BY <1>1
  <2>2. ASSUME i \in 1 .. n - 1
        PROVE  /\ ValuePieces(l)[1 + i] = ValuePieces(r)[i]
               /\ ValueStrides(l)[1 + i] = ValueStrides(r)[i]
    <3>1. 1 + i \in 1 .. n /\ (1 + i = n <=> i = n - 1) /\ 1 + i = i + 1
      BY <1>1, <2>2
    <3>2. ValuePieces(l)[1 + i] = Quoted(l[1 + i], IF 1 + i = n THEN LF ELSE Comma)
      BY <1>3, <3>1, Zenon DEF ValuePieces
    <3>3. ValuePieces(r)[i] = Quoted(r[i], IF i = n - 1 THEN LF ELSE Comma)
      BY <1>2, <2>2, Zenon DEF ValuePieces
    <3>4. r[i] = l[1 + i]
      BY <1>2, <2>2, <3>1
    <3>5. ValueStrides(l)[1 + i] = 1 /\ ValueStrides(r)[i] = 1
      BY <1>2, <1>3, <2>2, <3>1 DEF ValueStrides
    <3> QED
      BY <3>1, <3>2, <3>3, <3>4, <3>5
  <2> QED
    BY <2>1, <2>2
<1>6. Joined(ValuePieces(l), ValueStrides(l))
        = ValuePieces(l)[1] \o Joined(ValuePieces(r), ValueStrides(r))
  <2> DEFINE P == ValuePieces(l)
             K == ValueStrides(l)
             Q == ValuePieces(r)
             L == ValueStrides(r)
  <2>1. PiecesOf(Letter, P, K) /\ P # << >> /\ PiecesOf(Letter, Q, L)
    BY <1>2, ValuePiecesTyped
  <2>2. EndsWith(P, K, K[1], Q, L)
    BY <1>4, <1>5, Zenon
  <2> HIDE DEF P, K, Q, L
  <2>3. Joined(P, K) = P[1] \o Joined(Q, L)
    BY <2>1, <2>2, JoinedStep
  <2> QED
    BY <2>3, Zenon DEF P, K, Q, L
<1> QED
  BY <1>2, <1>3, <1>4, <1>6, ValuePiecesTyped

-----------------------------------------------------------------------------
(* Types, for any readers *)

Place == {"idle", "line", "afterCR", "putback", "skip", "token", "tokenCR",
          "unread", "delimiter"}

Call == [at : Place, ch : Cell, quoted : BOOLEAN, buf : Seq(Cell),
         cap : Nat \ {0}]

(* What was read fits. *)
Fits(c) == Len(c.buf) <= IF c.at \in {"line", "afterCR", "putback"}
                         THEN c.cap ELSE MaxToken

FileOK(b, o) == o \in Seq(Letter) /\ b \in Seq(Cell) /\ Len(b) <= PutBackRoom

Types == /\ FileOK(back, rest)
         /\ in \in [Reader -> Call] /\ \A r \in Reader : Fits(in[r])

LEMMA TypesImplyTypeOK == Types => TypeOK
BY DEF Types, TypeOK, FileOK, Fits, Call

(* A call moves on, with another character perhaps, and keeps what it read. *)
Put(d, p)     == [d EXCEPT !.at = p]
Bring(d, p, k) == [d EXCEPT !.at = p, !.ch = k]
Turn(d, p, k) == [d EXCEPT !.quoted = ~ @, !.ch = k, !.at = p]
Read(d, k)    == [d EXCEPT !.ch = k]

Moved(c, d, p) == c \in Call /\ c.buf = d.buf /\ c.cap = d.cap /\ c.at = p

LEMMA CallMoves ==
  ASSUME NEW d \in Call, NEW p \in Place, NEW k \in Cell
  PROVE  /\ Moved(Put(d, p), d, p) /\ Moved(Bring(d, p, k), d, p)
         /\ Moved(Turn(d, p, k), d, p) /\ Moved(Read(d, k), d, d.at)
<1> DEFINE S == Seq(Cell)
<1>1. d \in [at : Place, ch : Cell, quoted : BOOLEAN, buf : S, cap : Nat \ {0}]
  BY DEF Call
<1> HIDE DEF S
<1> DEFINE C == [at : Place, ch : Cell, quoted : BOOLEAN, buf : S, cap : Nat \ {0}]
           M(c, q) == c \in C /\ c.buf = d.buf /\ c.cap = d.cap /\ c.at = q
<1>2. M([d EXCEPT !.at = p], p)
  BY <1>1
<1>3. M([d EXCEPT !.at = p, !.ch = k], p)
  BY <1>1
<1>4. M([d EXCEPT !.ch = k], d.at)
  BY <1>1
<1>5. M([d EXCEPT !.quoted = ~ @, !.ch = k, !.at = p], p)
  BY <1>1
<1> QED
  BY <1>2, <1>3, <1>4, <1>5, Zenon DEF Moved, Call, S, Put, Bring, Turn, Read

LEMMA IdleCall ==
  /\ Idle \in Call /\ Fits(Idle)
  /\ \A p \in Place : Put(Idle, p) \in Call /\ Fits(Put(Idle, p))
<1> DEFINE S == Seq(Cell)
           B == << >>
<1>1. B \in S /\ Len(B) = 0
  BY EmptySeq
<1> HIDE DEF S, B
<1>2. Weof \in Cell /\ LineInit \in Nat \ {0} /\ MaxToken \in Nat
  BY RoomAssumption DEF Cell
<1>3. [at |-> "idle", ch |-> Weof, quoted |-> FALSE, buf |-> B, cap |-> LineInit]
        \in [at : Place, ch : Cell, quoted : BOOLEAN, buf : S, cap : Nat \ {0}]
  BY <1>1, <1>2 DEF Place
<1>4. Idle \in Call
  BY <1>3, Zenon DEF Idle, Call, S, B
<1>5. Idle.buf = B /\ Idle.cap = LineInit
  BY DEF Idle, B
<1>6. ASSUME NEW c \in Call, c.buf = B, c.cap = LineInit
      PROVE  Fits(c)
  BY <1>1, <1>2, <1>6 DEF Fits
<1>7. ASSUME NEW p \in Place
      PROVE  Put(Idle, p) \in Call /\ Fits(Put(Idle, p))
  <2>1. Moved(Put(Idle, p), Idle, p)
    BY <1>2, <1>4, CallMoves
  <2> QED
    BY <1>5, <1>6, <2>1, Zenon DEF Moved
<1> QED
  BY <1>4, <1>5, <1>6, <1>7, Zenon

LEMMA CellFacts ==
  /\ Letter \subseteq Cell /\ Weof \in Cell
  /\ \A s \in Seq(Letter) : s \in Seq(Cell)
<1>1. Letter \subseteq Cell /\ Weof \in Cell
  BY DEF Cell
<1> QED
  BY <1>1, SeqMonotonic

LEMMA ReadCell ==
  ASSUME FileOK(back, rest)
  PROVE  ReadChar \in Cell /\ (~ Eof => Next1 \in Cell)
<1>1. Unread \in Seq(Cell)
  <2>1. back \in Seq(Cell) /\ rest \in Seq(Cell)
    BY CellFacts DEF FileOK
  <2> QED
    BY <2>1, ConcatProperties DEF Unread
<1>2. ~ Eof => Next1 \in Cell
  BY <1>1, HeadTailProperties DEF Eof, Next1
<1> QED
  BY <1>2, CellFacts DEF ReadChar

LEMMA Take1OK ==
  ASSUME FileOK(back, rest), ~ Eof, Take1
  PROVE  FileOK(back', rest')
<1>1. CASE back # << >>
  <2>1. Tail(back) \in Seq(Cell) /\ Len(Tail(back)) = Len(back) - 1 /\ Len(back) \in Nat
    BY <1>1, HeadTailProperties, LenProperties DEF FileOK
  <2>2. back' = Tail(back) /\ rest' = rest
    BY <1>1 DEF Take1
  <2> DEFINE t == Tail(back)
  <2>3. t \in Seq(Cell) /\ Len(t) = Len(back) - 1 /\ back' = t
    BY <2>1, <2>2
  <2> HIDE DEF t
  <2>4. Len(t) <= PutBackRoom
    BY <2>1, <2>3, RoomAssumption DEF FileOK
  <2> QED
    BY <2>2, <2>3, <2>4 DEF FileOK
<1>2. CASE back = << >>
  <2>1. rest # << >>
    BY <1>2 DEF Eof, Unread
  <2>2. Tail(rest) \in Seq(Letter)
    BY <2>1, HeadTailProperties DEF FileOK
  <2> QED
    BY <1>2, <2>2 DEF Take1, FileOK
<1> QED
  BY <1>1, <1>2

LEMMA AdvanceOK ==
  ASSUME FileOK(back, rest), Advance
  PROVE  FileOK(back', rest')
<1>1. CASE Eof
  BY <1>1 DEF Advance, file
<1>2. CASE ~ Eof
  BY <1>2, Take1OK DEF Advance
<1> QED
  BY <1>1, <1>2

LEMMA PutBackOK ==
  ASSUME FileOK(back, rest), NEW c \in Cell, UNCHANGED rest,
         back' = PutBackWstr(back, c)
  PROVE  FileOK(back', rest')
<1>1. /\ << c >> \in Seq(Cell) /\ Len(<< c >>) = 1 /\ back \in Seq(Cell)
      /\ Len(back) \in Nat
  BY LenProperties DEF FileOK
<1>2. << c >> \o back \in Seq(Cell) /\ Len(<< c >> \o back) = Len(<< c >>) + Len(back)
  BY <1>1, ConcatProperties
<1> QED
  BY <1>1, <1>2, RoomAssumption DEF PutBackWstr, FileOK

(* A step is that of one reader: the calls of the others are what they     *)
(* were.                                                                   *)
Steps(r, c) == in' = [in EXCEPT ![r] = c]

LEMMA TypesStep ==
  ASSUME Types, NEW r \in Reader, NEW c \in Call, Fits(c), Steps(r, c),
         FileOK(back', rest')
  PROVE  Types'
<1>1. in' \in [Reader -> Call] /\ \A q \in Reader : in'[q] = IF q = r THEN c ELSE in[q]
  BY DEF Types, Steps
<1>2. \A q \in Reader : Fits(in'[q])
  BY <1>1 DEF Types
<1>3. (\A q \in Reader : Fits(in[q]))'
  BY <1>2 DEF Fits
<1> QED
  BY <1>1, <1>3 DEF Types, FileOK

LEMMA TypesReturn ==
  ASSUME Types, NEW r \in Reader, FileOK(back', rest'),
         in' = [in EXCEPT ![r] = Idle]
  PROVE  Types'
BY TypesStep, IdleCall DEF Steps

(* A call that only moves on, with another character perhaps. *)
LEMMA TypesMove ==
  ASSUME Types, NEW r \in Reader, NEW c, NEW p, Moved(c, in[r], p),
         p \in {"line", "afterCR", "putback"}
           <=> in[r].at \in {"line", "afterCR", "putback"},
         Steps(r, c), FileOK(back', rest')
  PROVE  Types'
<1>1. Fits(c) /\ c \in Call
  BY DEF Types, Fits, Moved
<1> QED
  BY <1>1, TypesStep

LEMMA TypesNext ==
  ASSUME Types, NEW r \in Reader, Step(r)
  PROVE  Types'
<1>0. in[r] \in Call /\ Fits(in[r]) /\ FileOK(back, rest) /\ ReadChar \in Cell
  BY ReadCell DEF Types
<1>1. ASSUME BeginLine(r)  PROVE Types'
  <2> DEFINE c == Put(Idle, "line")
  <2>1. Steps(r, c) /\ FileOK(back', rest')
    BY <1>0, <1>1 DEF BeginLine, Steps, Put, Bring, Turn, Read, file
  <2>2. c \in Call /\ Fits(c)
    BY IdleCall DEF Place
  <2> QED
    BY <2>1, <2>2, TypesStep
<1>2. ASSUME LineChar(r)  PROVE Types'
  <2> DEFINE d == in[r]
             c == [d EXCEPT !.buf = Append(@, Next1),
                            !.cap = IF Len(d.buf) < @ THEN @ ELSE 2 * @]
  <2>1. Steps(r, c) /\ FileOK(back', rest') /\ Next1 \in Cell /\ d.at = "line"
    <3>1. Steps(r, c)
      BY <1>2 DEF LineChar, Steps, Put, Bring, Turn, Read
    <3> QED
      BY <1>0, <1>2, <3>1, Take1OK, ReadCell DEF LineChar, Is
  <2>2. /\ Append(d.buf, Next1) \in Seq(Cell)
        /\ Len(Append(d.buf, Next1)) = Len(d.buf) + 1 /\ Len(d.buf) \in Nat
        /\ d.cap \in Nat \ {0} /\ Len(d.buf) <= d.cap
    BY <1>0, <2>1, AppendProperties, LenProperties DEF Call, Fits
  <2>3. (IF Len(d.buf) < d.cap THEN d.cap ELSE 2 * d.cap) \in Nat \ {0}
    BY <2>2
  <2>4. Len(d.buf) + 1 <= IF Len(d.buf) < d.cap THEN d.cap ELSE 2 * d.cap
    BY <2>2
  <2>5. c \in Call /\ c.at = "line" /\ c.buf = Append(d.buf, Next1)
        /\ c.cap = IF Len(d.buf) < d.cap THEN d.cap ELSE 2 * d.cap
    <3> HIDE DEF d
    <3> QED
      BY <1>0, <2>1, <2>2, <2>3 DEF Call, d
  <2>6. Fits(c)
    <3> HIDE DEF c, d
    <3> QED
      BY <2>2, <2>4, <2>5 DEF Fits
  <2> HIDE DEF c, d
  <2> QED
    BY <2>1, <2>5, <2>6, TypesStep
<1>3. ASSUME LineNoRoom(r)  PROVE Types'
  BY <1>0, <1>3, Take1OK, TypesReturn DEF LineNoRoom
<1>4. ASSUME LineCR(r)  PROVE Types'
  <2> DEFINE c == Put(in[r], "afterCR")
  <2>1. Steps(r, c) /\ FileOK(back', rest') /\ in[r].at = "line"
    BY <1>0, <1>4, Take1OK DEF LineCR, Goto, Is, Steps, Put, Bring, Turn, Read
  <2>2. Moved(c, in[r], "afterCR")
    BY <1>0, CallMoves DEF Place
  <2> QED
    BY <2>1, <2>2, TypesMove
<1>5. ASSUME LineEnd(r)  PROVE Types'
  <2>1. FileOK(back', rest')
    BY <1>0, <1>5, Take1OK DEF LineEnd, file
  <2> QED
    BY <1>5, <2>1, TypesReturn DEF LineEnd, ReturnLine
<1>6. ASSUME SwallowLF(r)  PROVE Types'
  <2>1. CASE Eof \/ Next1 = LF
    BY <1>0, <1>6, <2>1, AdvanceOK, TypesReturn DEF SwallowLF, ReturnLine
  <2>2. CASE ~ (Eof \/ Next1 = LF)
    <3> DEFINE c == Bring(in[r], "putback", Next1)
    <3>1. Steps(r, c) /\ FileOK(back', rest') /\ in[r].at = "afterCR" /\ Next1 \in Cell
      BY <1>0, <1>6, <2>2, Take1OK, ReadCell DEF SwallowLF, Is, Steps, Put, Bring, Turn, Read
    <3>2. Moved(c, in[r], "putback")
      BY <1>0, <3>1, CallMoves DEF Place
    <3> QED
      BY <3>1, <3>2, TypesMove
  <2> QED
    BY <2>1, <2>2
<1>7. ASSUME LinePutBack(r)  PROVE Types'
  <2>1. NarrowOf[in[r].ch] \in Cell
    BY <1>0, CharAssumption DEF Call
  <2>2. FileOK(back', rest')
    BY <1>0, <1>7, <2>1, PutBackOK DEF LinePutBack, PutBack
  <2> QED
    BY <1>7, <2>2, TypesReturn DEF LinePutBack, ReturnLine
<1>8. ASSUME BeginToken(r)  PROVE Types'
  <2> DEFINE c == Put(Idle, "skip")
  <2>1. Steps(r, c) /\ FileOK(back', rest')
    BY <1>0, <1>8 DEF BeginToken, Steps, Put, Bring, Turn, Read, file
  <2>2. c \in Call /\ Fits(c)
    BY IdleCall DEF Place
  <2> QED
    BY <2>1, <2>2, TypesStep
<1>9. ASSUME SkipBlank(r)  PROVE Types'
  <2>1. FileOK(back', rest') /\ in[r].at = "skip"
    BY <1>0, <1>9, AdvanceOK DEF SkipBlank, Is
  <2>2. CASE ReadChar = Blank
    <3>1. in' = in
      BY <1>9, <2>2 DEF SkipBlank
    <3> QED
      BY <2>1, <3>1 DEF Types, FileOK, Fits
  <2>3. CASE ReadChar # Blank
    <3> DEFINE c == Bring(in[r], "token", ReadChar)
    <3>1. Steps(r, c)
      BY <1>9, <2>3 DEF SkipBlank, Steps, Put, Bring, Turn, Read
    <3>2. Moved(c, in[r], "token")
      BY <1>0, CallMoves DEF Place
    <3> QED
      BY <2>1, <3>1, <3>2, TypesMove
  <2> QED
    BY <2>2, <2>3
<1>10. ASSUME TokenEnd(r)  PROVE Types'
  BY <1>0, <1>10, TypesReturn DEF TokenEnd, ReturnToken, file
<1>11. ASSUME TokenCR(r)  PROVE Types'
  <2> DEFINE c == Put(in[r], "tokenCR")
  <2>1. Steps(r, c) /\ FileOK(back', rest') /\ in[r].at = "token"
    BY <1>0, <1>11 DEF TokenCR, Goto, Is, Steps, Put, Bring, Turn, Read, file
  <2>2. Moved(c, in[r], "tokenCR")
    BY <1>0, CallMoves DEF Place
  <2> QED
    BY <2>1, <2>2, TypesMove
<1>12. ASSUME AfterCR(r)  PROVE Types'
  <2>1. FileOK(back', rest')
    BY <1>0, <1>12, AdvanceOK DEF AfterCR
  <2>2. CASE ReadChar = LF
    BY <1>12, <2>1, <2>2, TypesReturn DEF AfterCR, ReturnToken
  <2>3. CASE ReadChar # LF
    <3> DEFINE c == Bring(in[r], "unread", ReadChar)
    <3>1. Steps(r, c) /\ in[r].at = "tokenCR"
      BY <1>12, <2>3 DEF AfterCR, Is, Steps, Put, Bring, Turn, Read
    <3>2. Moved(c, in[r], "unread")
      BY <1>0, CallMoves DEF Place
    <3> QED
      BY <2>1, <3>1, <3>2, TypesMove
  <2> QED
    BY <2>2, <2>3
<1>13. ASSUME Unreads(r)  PROVE Types'
  <2>1. in[r].ch \in Cell
    BY <1>0 DEF Call
  <2>2. FileOK(back', rest')
    BY <1>0, <1>13, <2>1, PutBackOK DEF Unreads
  <2> QED
    BY <1>13, <2>2, TypesReturn DEF Unreads, ReturnToken
<1>14. ASSUME TokenQuote(r)  PROVE Types'
  <2> DEFINE c == Turn(in[r], IF Closes(r) THEN "delimiter" ELSE "token", ReadChar)
  <2>1. FileOK(back', rest') /\ in[r].at = "token"
    BY <1>0, <1>14, AdvanceOK DEF TokenQuote, Is
  <2>2. Steps(r, c)
    BY <1>14 DEF TokenQuote, Steps, Put, Bring, Turn, Read
  <2>3. Moved(c, in[r], IF Closes(r) THEN "delimiter" ELSE "token")
    BY <1>0, CallMoves DEF Place
  <2> QED
    BY <2>1, <2>2, <2>3, TypesMove
<1>15. ASSUME TokenChar(r)  PROVE Types'
  <2> DEFINE d == in[r]
             c == [d EXCEPT !.buf = Append(@, d.ch), !.ch = ReadChar]
  <2>1. FileOK(back', rest') /\ d.at = "token" /\ Len(d.buf) < MaxToken
    BY <1>0, <1>15, AdvanceOK DEF TokenChar, Is, InLoop
  <2>2. Steps(r, c)
    BY <1>15 DEF TokenChar, Steps, Put, Bring, Turn, Read
  <2>3. /\ Append(d.buf, d.ch) \in Seq(Cell)
        /\ Len(Append(d.buf, d.ch)) = Len(d.buf) + 1 /\ Len(d.buf) \in Nat
    BY <1>0, AppendProperties, LenProperties DEF Call
  <2>4. c \in Call /\ c.buf = Append(d.buf, d.ch) /\ c.at = "token"
    <3> HIDE DEF d
    <3> QED
      BY <1>0, <2>1, <2>3 DEF Call, d
  <2> HIDE DEF c, d
  <2>5. Fits(c)
    BY <2>1, <2>3, <2>4, RoomAssumption DEF Fits
  <2> QED
    BY <2>1, <2>2, <2>4, <2>5, TypesStep
<1>16. ASSUME TokenFull(r)  PROVE Types'
  <2> DEFINE c == Put(in[r], "delimiter")
  <2>1. Steps(r, c) /\ FileOK(back', rest') /\ in[r].at = "token"
    BY <1>0, <1>16 DEF TokenFull, Goto, Is, Steps, Put, Bring, Turn, Read, file
  <2>2. Moved(c, in[r], "delimiter")
    BY <1>0, CallMoves DEF Place
  <2> QED
    BY <2>1, <2>2, TypesMove
<1>17. ASSUME SkipDelimiter(r)  PROVE Types'
  <2>1. in[r].at = "delimiter"
    BY <1>17 DEF SkipDelimiter, Is
  <2>2. CASE in[r].ch \in {Comma, LF, Weof}
    <3>1. CR \notin {Comma, LF, Weof}
      BY CharAssumption DEF Mark, Letter
    <3>2. UNCHANGED file /\ ReturnToken(r)
      BY <1>17, <2>2, <3>1 DEF SkipDelimiter
    <3> QED
      BY <1>0, <3>2, TypesReturn DEF ReturnToken, file
  <2>3. CASE in[r].ch \notin {Comma, LF, Weof}
    <3>1. UNCHANGED file /\ \E p \in {"tokenCR", "unread"} : Goto(r, p)
      BY <1>17, <2>3 DEF SkipDelimiter
    <3>2. PICK p \in {"tokenCR", "unread"} : Goto(r, p)
      BY <3>1
    <3> DEFINE c == Put(in[r], p)
    <3>3. Steps(r, c) /\ FileOK(back', rest')
      BY <1>0, <3>1, <3>2 DEF Goto, Steps, Put, Bring, Turn, Read, file
    <3>4. Moved(c, in[r], p)
      BY <1>0, CallMoves DEF Place
    <3> QED
      BY <2>1, <3>3, <3>4, TypesMove
  <2> QED
    BY <2>2, <2>3
<1>18. ASSUME SkipBlankAfter(r)  PROVE Types'
  <2> DEFINE c == Read(in[r], ReadChar)
  <2>1. Steps(r, c) /\ FileOK(back', rest') /\ in[r].at = "delimiter"
    BY <1>0, <1>18, AdvanceOK DEF SkipBlankAfter, Is, Steps, Put, Bring, Turn, Read
  <2>2. Moved(c, in[r], in[r].at)
    BY <1>0, CallMoves DEF Place
  <2> QED
    BY <2>1, <2>2, TypesMove
<1> QED
  BY <1>1, <1>2, <1>3, <1>4, <1>5, <1>6, <1>7, <1>8, <1>9, <1>10, <1>11, <1>12,
     <1>13, <1>14, <1>15, <1>16, <1>17, <1>18 DEF Step

LEMMA ListFacts ==
  ASSUME NEW l \in Lists
  PROVE  l \in Seq(Value)
<1> DEFINE S == Letter \ {CR, LF, Quote}
           T == Seq(S)
<1>1. l \in Seq(T) /\ \A i \in DOMAIN l : Len(l[i]) < MaxToken
  BY FileAssumption
<1> HIDE DEF T
<1>2. /\ Len(l) \in Nat /\ DOMAIN l = 1 .. Len(l)
      /\ \A i \in 1 .. Len(l) : l[i] \in T
  BY <1>1, LenProperties, ElementOfSeq
<1>3. \A i \in 1 .. Len(l) : l[i] \in Value
  BY <1>1, <1>2 DEF Value, T
<1>4. l \in [1 .. Len(l) -> Value]
  BY <1>1, <1>2, <1>3, LenProperties
<1> HIDE DEF S
<1> QED
  BY <1>2, <1>4, SeqDef

LEMMA TypesInit == Init => Types
<1> SUFFICES ASSUME Init  PROVE Types
  OBVIOUS
<1>1. rest \in Seq(Letter)
  <2>1. CASE rest \in Files
    BY <2>1, FileAssumption
  <2>2. CASE wrote \in Lists /\ rest = Written(wrote)
    BY <2>2, ListFacts, WrittenTyped
  <2> QED
    BY <2>1, <2>2 DEF Init
<1>2. back \in Seq(Cell) /\ Len(back) = 0
  BY EmptySeq DEF Init
<1>3. in = [r \in Reader |-> Idle]
  BY DEF Init
<1> QED
  BY <1>1, <1>2, <1>3, IdleCall, RoomAssumption DEF Types, FileOK

(* What was read fits the buffer that grows under a line and the array     *)
(* that does not under a token (ustr_fileio.c, file_input_tok_wstr.c), and *)
(* the put-back buffer is never over its room: for any number of threads   *)
(* that read one file, and any file.                                       *)
THEOREM InputTypes == Spec => []TypeOK
<1>1. Types /\ [Next]_vars => Types'
  <2> SUFFICES ASSUME Types, [Next]_vars  PROVE Types'
    OBVIOUS
  <2>1. CASE Next
    BY <2>1, TypesNext DEF Next
  <2>2. CASE UNCHANGED vars
    BY <2>2 DEF vars, Types, FileOK, Fits
  <2> QED
    BY <2>1, <2>2
<1> QED
  BY <1>1, TypesInit, TypesImplyTypeOK, PTL DEF Spec

-----------------------------------------------------------------------------
(* One reader gets the lines of the file *)

(* The character behind a carriage return comes back from the put-back     *)
(* buffer, which keeps one byte of it.                                     *)
Safe(u) == \A i \in 1 .. Len(u) - 1 : u[i] = CR => NarrowOf[u[i + 1]] = u[i + 1]

KeptBehindCR == \A f \in Files : Safe(f)

LEMMA PeelHead ==
  ASSUME NEW S, NEW s \in Seq(S), s # << >>
  PROVE  /\ Head(s) \in S /\ Tail(s) \in Seq(S) /\ s = << Head(s) >> \o Tail(s)
         /\ s[1] = Head(s)
<1> DEFINE n == Len(s)
           t == Tail(s)
           h == << Head(s) >>
<1>1. n \in Nat \ {0} /\ Head(s) \in S /\ s[1] = Head(s)
  BY EmptySeq, HeadTailProperties
<1>2. t \in Seq(S) /\ Len(t) = n - 1 /\ \A i \in 1 .. Len(t) : t[i] = s[i + 1]
  BY HeadTailProperties
<1>3. h \in Seq(S) /\ Len(h) = 1 /\ h[1] = s[1]
  BY <1>1
<1> HIDE DEF n, t, h
<1>4. /\ h \o t \in Seq(S) /\ Len(h \o t) = Len(h) + Len(t)
      /\ \A i \in 1 .. Len(h) + Len(t) :
           (h \o t)[i] = IF i <= Len(h) THEN h[i] ELSE t[i - Len(h)]
  <2>1. h \in Seq(S) /\ t \in Seq(S)
    BY <1>2, <1>3
  <2> QED
    BY <2>1, ConcatProperties, Zenon
<1>5. ASSUME NEW i \in 1 .. n  PROVE (h \o t)[i] = s[i]
  <2>1. CASE i = 1
    <3>1. 1 \in 1 .. Len(h) + Len(t) /\ 1 <= Len(h)
      BY <1>1, <1>2, <1>3
    <3> QED
      BY <1>3, <1>4, <2>1, <3>1
  <2>2. CASE i # 1
    <3>1. /\ i \in 1 .. Len(h) + Len(t) /\ ~ (i <= Len(h)) /\ i - Len(h) = i - 1
          /\ i - 1 \in 1 .. Len(t) /\ (i - 1) + 1 = i
      BY <1>1, <1>2, <1>3, <2>2
    <3>2. (h \o t)[i] = t[i - 1]
      BY <1>4, <3>1, Zenon
    <3>3. t[i - 1] = s[(i - 1) + 1]
      BY <1>2, <3>1, Zenon
    <3> QED
      BY <3>1, <3>2, <3>3
  <2> QED
    BY <2>1, <2>2
<1>6. Len(s) = n /\ Len(h) + Len(t) = n
  BY <1>1, <1>2, <1>3 DEF n
<1>7. h \o t = s
  BY <1>4, <1>5, <1>6, SeqEqual
<1> QED
  BY <1>1, <1>2, <1>7 DEF t, h

Before(c, u)     == << c >> \o u
Between(b, c, u) == b \o << c >> \o u
Longer(b, c, u)  == Append(b, c) \o u

LEMMA OneMore ==
  ASSUME NEW S, NEW b \in Seq(S), NEW c \in S, NEW u \in Seq(S)
  PROVE  /\ b \o Before(c, u) = Longer(b, c, u)
         /\ b \o Before(c, u) = Between(b, c, u)
         /\ Longer(b, c, u) # << >>
<1>1. << c >> \in Seq(S) /\ Append(b, c) = b \o << c >> /\ Append(b, c) \in Seq(S)
      /\ Append(b, c) # << >>
  BY AppendIsConcat, AppendProperties
<1>2. (b \o << c >>) \o u = b \o (<< c >> \o u)
  BY <1>1, ConcatAssociative
<1>3. Append(b, c) \o u # << >>
  BY <1>1, ConcatEqualIffEmpty
<1> QED
  BY <1>1, <1>2, <1>3 DEF Before, Between, Longer

LEMMA SafeTail ==
  ASSUME NEW c \in Letter, NEW u \in Seq(Letter), Safe(<< c >> \o u)
  PROVE  /\ Safe(u)
         /\ c = CR /\ u # << >> => NarrowOf[u[1]] = u[1]
<1> DEFINE n == Len(u)
           t == << c >> \o u
<1>1. n \in Nat /\ (u # << >> => n # 0)
  BY EmptySeq
<1>2. Len(t) = 1 + n /\ t[1] = c /\ \A i \in 1 .. n : t[1 + i] = u[i]
  <2>1. << c >> \in Seq(Letter) /\ Len(<< c >>) = 1 /\ << c >>[1] = c
    OBVIOUS
  <2>2. /\ Len(t) = 1 + n
        /\ \A i \in 1 .. 1 + n : t[i] = IF i <= 1 THEN << c >>[i] ELSE u[i - 1]
    BY <2>1, ConcatProperties
  <2>3. /\ 1 \in 1 .. 1 + n /\ 1 <= 1
        /\ \A i \in 1 .. n : 1 + i \in 1 .. 1 + n /\ ~ (1 + i <= 1) /\ (1 + i) - 1 = i
    BY <1>1
  <2> HIDE DEF n, t
  <2> QED
    BY <2>1, <2>2, <2>3
<1> HIDE DEF n, t
<1>3. Safe(t) /\ Len(u) = n
  BY DEF t, n
<1>4. Safe(u)
  <2> SUFFICES ASSUME NEW i \in 1 .. n - 1, u[i] = CR
               PROVE  NarrowOf[u[i + 1]] = u[i + 1]
    BY <1>3 DEF Safe
  <2>1. /\ i \in 1 .. n /\ i + 1 \in 1 .. n /\ 1 + i \in 1 .. (1 + n) - 1
        /\ (1 + i) + 1 = 1 + (i + 1)
    BY <1>1
  <2> QED
    BY <1>2, <1>3, <2>1 DEF Safe
<1>5. c = CR /\ n # 0 => NarrowOf[u[1]] = u[1]
  <2> SUFFICES ASSUME c = CR, n # 0  PROVE NarrowOf[u[1]] = u[1]
    OBVIOUS
  <2>1. 1 \in 1 .. (1 + n) - 1 /\ 1 \in 1 .. n /\ 1 + 1 \in Nat
    BY <1>1
  <2> QED
    BY <1>2, <1>3, <2>1 DEF Safe
<1> QED
  BY <1>1, <1>4, <1>5

(* One character taken from a file in which at most one was put back. *)
LEMMA TakeText ==
  ASSUME back \in Seq(Letter), rest \in Seq(Letter), Len(back) <= 1, ~ Eof, Take1
  PROVE  /\ back' = << >> /\ rest' \in Seq(Letter) /\ back' \o rest' = rest'
         /\ Next1 \in Letter /\ Unread = << Next1 >> \o rest'
<1>1. Unread \in Seq(Letter) /\ Unread # << >>
  BY ConcatProperties DEF Unread, Eof
<1>2. /\ Next1 \in Letter /\ Tail(Unread) \in Seq(Letter)
      /\ Unread = << Next1 >> \o Tail(Unread)
  BY <1>1, PeelHead DEF Next1
<1>3. CASE back = << >>
  <2>1. Unread = rest
    BY <1>3, ConcatEmptySeq DEF Unread
  <2>2. rest' = Tail(rest) /\ back' = << >>
    BY <1>3 DEF Take1
  <2> QED
    BY <1>2, <2>1, <2>2, ConcatEmptySeq
<1>4. CASE back # << >>
  <2>1. /\ back' = Tail(back) /\ rest' = rest
        /\ Tail(back) \in Seq(Letter) /\ Head(back) \in Letter
        /\ back = << Head(back) >> \o Tail(back)
    BY <1>4, PeelHead DEF Take1
  <2>2. Len(back) \in Nat \ {0} /\ Len(Tail(back)) = Len(back) - 1
    BY <1>4, EmptySeq, HeadTailProperties
  <2>3. Len(Tail(back)) = 0
    BY <2>2
  <2>4. Tail(back) = << >>
    BY <2>1, <2>3, EmptySeq
  <2>5. back = << Head(back) >>
    BY <2>1, <2>4, ConcatEmptySeq
  <2>6. Unread = << Head(back) >> \o rest
    BY <2>5 DEF Unread
  <2>7. Head(<< Head(back) >> \o rest) = Head(back)
    <3> DEFINE h == << Head(back) >>
    <3>1. h \in Seq(Letter) /\ Len(h) = 1 /\ h[1] = Head(back) /\ Len(rest) \in Nat
      BY <2>1, LenProperties
    <3>2. (h \o rest)[1] = IF 1 <= 1 THEN h[1] ELSE rest[1 - 1]
      <4>1. 1 \in 1 .. 1 + Len(rest)
        BY <3>1
      <4> HIDE DEF h
      <4> QED
        BY <3>1, <4>1, ConcatProperties
    <3> QED
      BY <3>1, <3>2 DEF Head
  <2> QED
    BY <1>2, <2>1, <2>4, <2>6, <2>7, ConcatEmptySeq DEF Next1
<1> QED
  BY <1>3, <1>4

(* Of the lines D that are due, L were returned; what is left of the file  *)
(* is u, and c is the call under way.                                      *)
Owed(c, L, u, D) ==
  \/ c.at = "idle" /\ Safe(u) /\ D = L \o LinesOf(u)
  \/ /\ c.at = "line" /\ c.buf \in Seq(Plain) /\ c.buf \o u # << >> /\ Safe(u)
     /\ D = L \o LinesOf(c.buf \o u)
  \/ /\ c.at = "afterCR" /\ c.buf \in Seq(Plain) /\ Safe(<< CR >> \o u)
     /\ D = L \o LinesOf(c.buf \o << CR >> \o u)
  \/ /\ c.at = "putback" /\ c.buf \in Seq(Plain) /\ Safe(<< c.ch >> \o u)
     /\ c.ch \in Letter /\ NarrowOf[c.ch] = c.ch
     /\ D = L \o (<< c.buf >> \o LinesOf(<< c.ch >> \o u))

LineInv(r) ==
  /\ kinds = {"line"} /\ lines \in Seq(Seq(Letter))
  /\ rest \in Seq(Letter) /\ back \in Seq(Letter) /\ Len(back) <= 1
  /\ in[r].at \in {"afterCR", "putback"} => back = << >>
  /\ Owed(in[r], lines, back \o rest, due)

LEMMA LineInvImplies ==
  ASSUME NEW r, Reader = {r}, LineInv(r)
  PROVE  LinesOfTheFile
BY DEF LineInv, LinesOfTheFile, Quiet, Is, Owed, Unread

LEMMA LineIdles ==
  ASSUME Types, NEW r \in Reader, in' = [in EXCEPT ![r] = Idle],
         kinds' = {"line"}, lines' \in Seq(Seq(Letter)),
         rest' \in Seq(Letter), back' \in Seq(Letter), Len(back') <= 1,
         Safe(back' \o rest'), due' = lines' \o LinesOf(back' \o rest')
  PROVE  LineInv(r)'
<1>1. in'[r] = Idle
  BY DEF Types
<1>2. in'[r].at = "idle"
  BY <1>1 DEF Idle
<1> QED
  BY <1>2 DEF LineInv, Owed

LEMMA OneMoreLine ==
  ASSUME NEW L \in Seq(Seq(Letter)), NEW b \in Seq(Plain), NEW u \in Seq(Letter)
  PROVE  /\ L \o (<< b >> \o LinesOf(u)) = Append(L, b) \o LinesOf(u)
         /\ Append(L, b) \in Seq(Seq(Letter))
<1> DEFINE T == Seq(Letter)
           l == LinesOf(u)
<1>1. b \in T /\ l \in Seq(T) /\ L \in Seq(T)
  <2>1. b \in T
    BY SeqMonotonic DEF Plain
  <2>2. l \in Seq(T)
    BY LinesTyped, Zenon
  <2> QED
    BY <2>1, <2>2, Zenon
<1> HIDE DEF T, l
<1>2. L \o (<< b >> \o l) = Append(L, b) \o l /\ Append(L, b) \in Seq(T)
  <2>1. << b >> \in Seq(T)
    BY <1>1
  <2>2. Append(L, b) = L \o << b >> /\ Append(L, b) \in Seq(T)
    BY <1>1, AppendIsConcat, AppendProperties
  <2>3. (L \o << b >>) \o l = L \o (<< b >> \o l)
    BY <1>1, <2>1, ConcatAssociative
  <2> QED
    BY <2>2, <2>3
<1> QED
  BY <1>2, Zenon DEF T, l

LEMMA LineReturns ==
  ASSUME Types, NEW r \in Reader, kinds = {"line"}, lines \in Seq(Seq(Letter)),
         in[r].buf \in Seq(Plain),
         rest' \in Seq(Letter), back' \in Seq(Letter), Len(back') <= 1,
         Safe(back' \o rest'),
         due = lines \o (<< in[r].buf >> \o LinesOf(back' \o rest')),
         ReturnLine(r)
  PROVE  LineInv(r)'
<1>1. in' = [in EXCEPT ![r] = Idle] /\ kinds' = {"line"}
  BY DEF ReturnLine
<1>2. CASE lines' = Append(lines, in[r].buf) /\ UNCHANGED due
  <2> DEFINE u == back' \o rest'
  <2>1. u \in Seq(Letter)
    BY ConcatProperties
  <2>2. /\ lines \o (<< in[r].buf >> \o LinesOf(u))
             = Append(lines, in[r].buf) \o LinesOf(u)
        /\ Append(lines, in[r].buf) \in Seq(Seq(Letter))
    <3> HIDE DEF u
    <3> QED
      BY <2>1, OneMoreLine, Zenon
  <2>3. lines' \in Seq(Seq(Letter)) /\ due' = lines' \o LinesOf(u)
    BY <1>2, <2>2, Zenon
  <2> QED
    BY <1>1, <2>3, LineIdles
<1>3. CASE Drop /\ UNCHANGED lines
  BY <1>1, <1>3, LineIdles DEF Drop
<1> QED
  BY <1>2, <1>3 DEF ReturnLine

(* A step of the call that leaves it under way. *)
LEMMA LineGoesOn ==
  ASSUME Types, NEW r \in Reader, NEW c, in' = [in EXCEPT ![r] = c],
         LineInv(r), UNCHANGED << kinds, results >>,
         rest' \in Seq(Letter), back' \in Seq(Letter), Len(back') <= 1,
         c.at = "line" \/ back' = << >>,
         Owed(c, lines, back' \o rest', due)
  PROVE  LineInv(r)'
<1>1. in'[r] = c
  BY DEF Types
<1>2. /\ kinds' = {"line"} /\ lines' = lines /\ due' = due
      /\ lines \in Seq(Seq(Letter))
  BY DEF LineInv, results
<1>3. Owed(in'[r], lines', back' \o rest', due')
  BY <1>1, <1>2
<1>4. Owed(in[r], lines, back \o rest, due)'
  BY <1>3 DEF Owed
<1>5. (in[r].at \in {"afterCR", "putback"} => back = << >>)'
  BY <1>1
<1> QED
  BY <1>2, <1>4, <1>5 DEF LineInv

LEMMA LineTakes ==
  ASSUME NEW r \in Reader, LineInv(r), ~ Eof, Take1
  PROVE  /\ Next1 \in Letter /\ Unread = << Next1 >> \o rest' /\ Unread[1] = Next1
         /\ rest' = Tail(Unread)
         /\ rest' \in Seq(Letter) /\ back' = << >> /\ back' \o rest' = rest'
         /\ back' \in Seq(Letter) /\ Len(back') <= 1
         /\ Safe(Unread) => Safe(rest')
<1>1. /\ Next1 \in Letter /\ Unread = << Next1 >> \o rest'
      /\ rest' \in Seq(Letter) /\ back' = << >> /\ back' \o rest' = rest'
  BY TakeText DEF LineInv
<1>2. Unread \in Seq(Letter) /\ Unread # << >>
  BY ConcatProperties DEF LineInv, Unread, Eof
<1>3. /\ Unread[1] = Next1 /\ Unread = << Next1 >> \o Tail(Unread)
      /\ Tail(Unread) \in Seq(Letter)
  BY <1>2, PeelHead DEF Next1
<1>4. rest' = Tail(Unread)
  <2> DEFINE h == << Next1 >>
             t == Tail(Unread)
  <2>1. h \in Seq(Letter) /\ t \in Seq(Letter) /\ h \o t = h \o rest'
    BY <1>1, <1>3
  <2> HIDE DEF h, t
  <2>2. t = rest'
    BY <1>1, <2>1, ConcatSimplifications
  <2> QED
    BY <2>2 DEF t
<1>5. Safe(Unread) => Safe(rest')
  BY <1>1, SafeTail
<1>6. << >> \in Seq(Letter) /\ Len(<< >>) = 0
  BY EmptySeq
<1> QED
  BY <1>1, <1>3, <1>4, <1>5, <1>6

LEMMA LineNext ==
  ASSUME Types, NEW r \in Reader, LineInv(r), Step(r)
  PROVE  LineInv(r)'
<1> DEFINE c == in[r]
           b == c.buf
<1>0. /\ kinds = {"line"} /\ lines \in Seq(Seq(Letter)) /\ c \in Call
      /\ rest \in Seq(Letter) /\ back \in Seq(Letter) /\ Len(back) <= 1
      /\ c.at \in {"afterCR", "putback"} => back = << >>
      /\ Owed(c, lines, Unread, due)
  BY DEF LineInv, Types, Unread
<1>1. /\ c.at \in {"idle", "line", "afterCR", "putback"}
      /\ c.at # "idle" => b \in Seq(Plain) /\ b \in Seq(Letter)
  <2>1. c.at # "idle" => b \in Seq(Plain)
    BY <1>0 DEF Owed
  <2>2. c.at # "idle" => b \in Seq(Letter)
    BY <2>1, SeqMonotonic DEF Plain
  <2> QED
    BY <1>0, <2>1, <2>2 DEF Owed
<1>2. Unread \in Seq(Letter)
  BY <1>0, ConcatProperties DEF Unread
<1>3. ASSUME BeginLine(r)  PROVE LineInv(r)'
  <2> DEFINE d == [Idle EXCEPT !.at = "line"]
  <2>1. d.at = "line" /\ d.buf = << >>
    BY DEF Idle
  <2>2. /\ c.at = "idle" /\ Unread # << >> /\ back' \o rest' = Unread
        /\ in' = [in EXCEPT ![r] = d] /\ UNCHANGED << file, kinds, results >>
    BY <1>3 DEF BeginLine, Is, Eof, Unread, file
  <2>3. Safe(Unread) /\ due = lines \o LinesOf(Unread)
    BY <1>0, <2>2 DEF Owed
  <2>4. << >> \in Seq(Plain) /\ << >> \o Unread = Unread
    BY <1>2, EmptySeq, ConcatEmptySeq
  <2> HIDE DEF d
  <2>5. Owed(d, lines, back' \o rest', due)
    BY <2>1, <2>2, <2>3, <2>4 DEF Owed
  <2> QED
    BY <1>0, <2>1, <2>2, <2>5, LineGoesOn DEF file
<1>4. ASSUME Is(r, "line")
      PROVE  /\ b \in Seq(Plain) /\ b \in Seq(Letter) /\ Safe(Unread)
             /\ b \o Unread # << >> /\ due = lines \o LinesOf(b \o Unread)
  BY <1>0, <1>1, <1>4 DEF Owed, Is
<1>5. ASSUME LineChar(r)  PROVE LineInv(r)'
  <2> DEFINE d == [c EXCEPT !.buf = Append(@, Next1),
                            !.cap = IF Len(b) < @ THEN @ ELSE 2 * @]
  <2>1. /\ Is(r, "line") /\ ~ Eof /\ Take1 /\ Next1 \notin {CR, LF}
        /\ in' = [in EXCEPT ![r] = d] /\ UNCHANGED << kinds, results >>
    BY <1>5 DEF LineChar
  <2>2. d.at = "line" /\ d.buf = Append(b, Next1)
    BY <1>0, <2>1 DEF Call, Is
  <2>3. /\ Next1 \in Letter /\ Unread = << Next1 >> \o rest' /\ Safe(rest')
        /\ rest' \in Seq(Letter) /\ back' = << >> /\ back' \o rest' = rest'
        /\ back' \in Seq(Letter) /\ Len(back') <= 1
    BY <1>4, <2>1, LineTakes
  <2>4. Append(b, Next1) \in Seq(Plain)
    BY <1>4, <2>1, <2>3, AppendProperties DEF Plain
  <2>5. /\ b \o Unread = Append(b, Next1) \o rest'
        /\ Append(b, Next1) \o rest' # << >>
    <3>1. Unread = Before(Next1, rest')
      BY <2>3, Zenon DEF Before
    <3>2. b \in Seq(Letter) /\ Next1 \in Letter /\ rest' \in Seq(Letter)
      BY <1>4, <2>1, <2>3
    <3>3. /\ b \o Before(Next1, rest') = Longer(b, Next1, rest')
          /\ Longer(b, Next1, rest') # << >>
      BY <3>2, OneMore
    <3> QED
      BY <3>1, <3>3, Zenon DEF Longer
  <2> HIDE DEF d
  <2>6. Owed(d, lines, back' \o rest', due)
    BY <1>4, <2>1, <2>2, <2>3, <2>4, <2>5 DEF Owed
  <2> QED
    BY <2>1, <2>2, <2>3, <2>6, LineGoesOn
<1>6. ASSUME LineNoRoom(r)  PROVE LineInv(r)'
  <2>1. /\ Is(r, "line") /\ ~ Eof /\ Take1 /\ Drop /\ in' = [in EXCEPT ![r] = Idle]
        /\ UNCHANGED << kinds, lines >>
    BY <1>6 DEF LineNoRoom
  <2>2. /\ rest' \in Seq(Letter) /\ back' \in Seq(Letter) /\ Len(back') <= 1
        /\ Safe(back' \o rest')
    BY <1>4, <2>1, LineTakes
  <2>3. due' = lines' \o LinesOf(back' \o rest')
    BY <1>0, <2>1 DEF Drop
  <2> QED
    BY <1>0, <2>1, <2>2, <2>3, LineIdles
<1>7. ASSUME LineCR(r)  PROVE LineInv(r)'
  <2> DEFINE d == [c EXCEPT !.at = "afterCR"]
  <2>1. /\ Is(r, "line") /\ ~ Eof /\ Take1 /\ Next1 = CR
        /\ in' = [in EXCEPT ![r] = d] /\ UNCHANGED << kinds, results >>
    BY <1>7 DEF LineCR, Goto
  <2>2. d.at = "afterCR" /\ d.buf = b
    BY <1>0 DEF Call
  <2>3. /\ CR \in Letter /\ Unread = << CR >> \o rest'
        /\ rest' \in Seq(Letter) /\ back' = << >> /\ back' \o rest' = rest'
        /\ back' \in Seq(Letter) /\ Len(back') <= 1
    BY <2>1, LineTakes
  <2>4. b \o Unread = b \o << CR >> \o rest'
    <3>1. Unread = Before(CR, rest')
      BY <2>3, Zenon DEF Before
    <3>2. b \in Seq(Letter) /\ CR \in Letter /\ rest' \in Seq(Letter)
      BY <1>4, <2>1, <2>3
    <3>3. b \o Before(CR, rest') = Between(b, CR, rest')
      BY <3>2, OneMore
    <3> QED
      BY <3>1, <3>3, Zenon DEF Between
  <2> HIDE DEF d
  <2>5. Owed(d, lines, back' \o rest', due)
    BY <1>4, <2>1, <2>2, <2>3, <2>4 DEF Owed
  <2> QED
    BY <2>1, <2>3, <2>5, LineGoesOn
<1>8. ASSUME LineEnd(r)  PROVE LineInv(r)'
  <2>1. Is(r, "line") /\ ReturnLine(r)
    BY <1>8 DEF LineEnd
  <2>2. CASE Eof
    <3>1. UNCHANGED file /\ Unread = << >> /\ back' \o rest' = << >>
      BY <1>8, <2>2 DEF LineEnd, Eof, Unread, file
    <3>2. b # << >> /\ b \o Unread = b
      BY <1>4, <2>1, <3>1, ConcatEmptySeq
    <3>3. /\ LinesOf(b) = << b >> /\ LinesOf(<< >>) = << >>
          /\ << b >> \in Seq(Seq(Letter))
      BY <1>4, <2>1, <3>2, LastLine, LinesTyped, EmptySeq
    <3>4. << b >> \o << >> = << b >>
      BY <3>3, ConcatEmptySeq
    <3>5. due = lines \o (<< b >> \o LinesOf(back' \o rest'))
      BY <1>4, <2>1, <3>1, <3>2, <3>3, <3>4
    <3> QED
      BY <1>0, <1>4, <2>1, <3>1, <3>5, LineReturns DEF file, Unread
  <2>3. CASE ~ Eof
    <3>1. Next1 = LF /\ Take1
      BY <1>8, <2>3 DEF LineEnd
    <3>2. /\ LF \in Letter /\ Unread = << LF >> \o rest' /\ Safe(rest')
          /\ rest' \in Seq(Letter) /\ back' \o rest' = rest'
          /\ back' \in Seq(Letter) /\ Len(back') <= 1
      BY <1>4, <2>1, <2>3, <3>1, LineTakes
    <3>3. b \o Unread = b \o << LF >> \o rest'
      <4>1. Unread = Before(LF, rest')
        BY <3>2, Zenon DEF Before
      <4>2. b \in Seq(Letter) /\ LF \in Letter /\ rest' \in Seq(Letter)
        BY <1>4, <2>1, <3>2
      <4>3. b \o Before(LF, rest') = Between(b, LF, rest')
        BY <4>2, OneMore
      <4> QED
        BY <4>1, <4>3, Zenon DEF Between
    <3>4. LinesOf(b \o << LF >> \o rest') = << b >> \o LinesOf(rest')
      BY <1>4, <2>1, <3>2, MarkedLine, CharAssumption
    <3>5. due = lines \o (<< b >> \o LinesOf(back' \o rest'))
      BY <1>4, <2>1, <3>2, <3>3, <3>4
    <3> QED
      BY <1>0, <1>4, <2>1, <3>2, <3>5, LineReturns
  <2> QED
    BY <2>2, <2>3
<1>9. ASSUME SwallowLF(r)  PROVE LineInv(r)'
  <2>1. /\ c.at = "afterCR" /\ b \in Seq(Plain) /\ Safe(<< CR >> \o Unread)
        /\ due = lines \o LinesOf(b \o << CR >> \o Unread) /\ back = << >>
    BY <1>0, <1>9 DEF SwallowLF, Is, Owed
  <2>2. /\ Safe(Unread)
        /\ Unread # << >> => NarrowOf[Unread[1]] = Unread[1]
    BY <1>2, <2>1, SafeTail DEF Letter, Mark
  <2>3. due = lines \o (<< b >> \o LinesOf(Ended(Unread)))
    BY <1>2, <2>1, MarkedLine
  <2>4. CASE Eof
    <3>1. UNCHANGED file /\ ReturnLine(r)
      BY <1>9, <2>4 DEF SwallowLF, Advance
    <3>2. back' \o rest' = Unread /\ Ended(Unread) = Unread
      BY <2>4, <3>1 DEF file, Unread, Ended, Eof
    <3> QED
      BY <1>0, <2>1, <2>2, <2>3, <3>1, <3>2, LineReturns DEF file
  <2>5. CASE ~ Eof /\ Next1 = LF
    <3>1. Take1 /\ ReturnLine(r)
      BY <1>9, <2>5 DEF SwallowLF, Advance
    <3>2. /\ Unread[1] = LF /\ rest' = Tail(Unread) /\ Safe(rest')
          /\ rest' \in Seq(Letter) /\ back' \o rest' = rest'
          /\ back' \in Seq(Letter) /\ Len(back') <= 1
      BY <2>2, <2>5, <3>1, LineTakes
    <3>3. Ended(Unread) = back' \o rest'
      BY <2>5, <3>2 DEF Ended, Eof
    <3> QED
      BY <1>0, <2>1, <2>3, <3>1, <3>2, <3>3, LineReturns
  <2>6. CASE ~ Eof /\ Next1 # LF
    <3> DEFINE k == Next1
               d == [c EXCEPT !.at = "putback", !.ch = k]
    <3>1. Take1 /\ in' = [in EXCEPT ![r] = d] /\ UNCHANGED << kinds, results >>
      BY <1>9, <2>6 DEF SwallowLF
    <3>2. /\ k \in Letter /\ Unread = << k >> \o rest' /\ Unread[1] = k
          /\ rest' \in Seq(Letter) /\ back' = << >> /\ back' \o rest' = rest'
          /\ back' \in Seq(Letter) /\ Len(back') <= 1
      BY <2>6, <3>1, LineTakes
    <3>3. Ended(Unread) = Unread /\ NarrowOf[k] = k
      BY <2>2, <2>6, <3>2 DEF Ended, Eof
    <3>4. d.at = "putback" /\ d.buf = b /\ d.ch = k
      BY <1>0 DEF Call
    <3> HIDE DEF d, k
    <3>5. Owed(d, lines, back' \o rest', due)
      BY <2>1, <2>2, <2>3, <3>2, <3>3, <3>4 DEF Owed
    <3> QED
      BY <3>1, <3>2, <3>5, LineGoesOn
  <2> QED
    BY <2>4, <2>5, <2>6
<1>10. ASSUME LinePutBack(r)  PROVE LineInv(r)'
  <2> DEFINE k == c.ch
  <2>1. /\ b \in Seq(Plain) /\ Safe(<< k >> \o Unread) /\ k \in Letter
        /\ NarrowOf[k] = k /\ back = << >>
        /\ due = lines \o (<< b >> \o LinesOf(<< k >> \o Unread))
    BY <1>0, <1>10 DEF LinePutBack, Is, Owed
  <2>2. back' = PutBack(back, k) /\ rest' = rest /\ ReturnLine(r)
    BY <1>10 DEF LinePutBack
  <2> HIDE DEF k
  <2>3. PutBack(back, k) = << k >>
    <3>1. Len(back) = 0 /\ 0 < PutBackRoom
      BY <2>1, RoomAssumption
    <3>2. << k >> \in Seq(Letter) /\ << k >> \o << >> = << k >>
      BY <2>1, ConcatEmptySeq
    <3> QED
      BY <2>1, <3>1, <3>2 DEF PutBack, PutBackWstr
  <2>4. Unread = rest
    BY <1>0, <2>1, ConcatEmptySeq DEF Unread
  <2>5. /\ back' \o rest' = << k >> \o Unread /\ rest' \in Seq(Letter)
        /\ back' \in Seq(Letter) /\ Len(back') <= 1
    <3>1. back' = << k >> /\ rest' = Unread
      BY <2>2, <2>3, <2>4
    <3>2. << k >> \in Seq(Letter) /\ Len(<< k >>) <= 1
      BY <2>1
    <3> QED
      BY <1>2, <3>1, <3>2, Zenon
  <2> QED
    BY <1>0, <2>1, <2>2, <2>5, LineReturns
<1>11. ~ (\/ BeginToken(r) \/ SkipBlank(r) \/ TokenEnd(r) \/ TokenCR(r) \/ AfterCR(r)
          \/ Unreads(r) \/ TokenQuote(r) \/ TokenChar(r) \/ TokenFull(r)
          \/ SkipDelimiter(r) \/ SkipBlankAfter(r))
  <2>1. "token" \notin kinds
    BY <1>0
  <2>2. ~ BeginToken(r)
    BY <2>1 DEF BeginToken
  <2>3. c.at \notin {"skip", "token", "tokenCR", "unread", "delimiter"}
    BY <1>1
  <2> QED
    BY <2>2, <2>3 DEF SkipBlank, TokenEnd, TokenCR, AfterCR, Unreads, TokenQuote,
       TokenChar, TokenFull, SkipDelimiter, SkipBlankAfter, Is
<1> QED
  BY <1>3, <1>5, <1>6, <1>7, <1>8, <1>9, <1>10, <1>11 DEF Step

(* A program that reads lines gets the lines of the file, in their order   *)
(* and whole, however they end (ustr_fileio.c:43), whatever the lengths of *)
(* the lines, the sizes of the buffers and where memory runs out: for the  *)
(* one reader of a file in which no character that a char cannot hold      *)
(* stands behind a carriage return.                                        *)
THEOREM LinesComeBack ==
  ASSUME NEW r, Reader = {r}, KeptBehindCR
  PROVE  Spec => []LinesOfTheFile
<1> DEFINE Inv == Types /\ (kinds = {"line"} => LineInv(r))
<1>1. Init => Inv
  <2> SUFFICES ASSUME Init, kinds = {"line"}  PROVE LineInv(r)
    BY TypesInit
  <2>1. rest \in Files /\ back = << >> /\ in[r] = Idle /\ lines = << >>
        /\ due = LinesOf(rest)
    BY DEF Init
  <2>2. /\ rest \in Seq(Letter) /\ back \in Seq(Letter) /\ Len(back) <= 1
        /\ back \o rest = rest /\ Safe(rest)
    BY <2>1, FileAssumption, EmptySeq, ConcatEmptySeq DEF KeptBehindCR
  <2>3. lines \in Seq(Seq(Letter)) /\ LinesOf(rest) \in Seq(Seq(Letter))
    BY <2>1, <2>2, EmptySeq, LinesTyped
  <2>4. due = lines \o LinesOf(rest)
    <3> DEFINE l == LinesOf(rest)
               T == Seq(Letter)
    <3>1. l \in Seq(T)
      BY <2>3
    <3> HIDE DEF l, T
    <3>2. << >> \o l = l
      BY <3>1, ConcatEmptySeq
    <3> QED
      BY <2>1, <3>2 DEF l
  <2>5. in[r].at = "idle"
    BY <2>1 DEF Idle
  <2> QED
    BY <2>2, <2>3, <2>4, <2>5 DEF LineInv, Owed
<1>2. Inv /\ [Next]_vars => Inv'
  <2> SUFFICES ASSUME Inv, [Next]_vars  PROVE Inv'
    OBVIOUS
  <2>1. CASE Next
    <3>1. Step(r) /\ r \in Reader
      BY <2>1 DEF Next
    <3>2. kinds' = kinds
      BY <3>1 DEF Step, BeginLine, LineChar, LineNoRoom, LineCR, LineEnd, SwallowLF,
         LinePutBack, BeginToken, SkipBlank, TokenEnd, TokenCR, AfterCR, Unreads,
         TokenQuote, TokenChar, TokenFull, SkipDelimiter, SkipBlankAfter,
         ReturnLine, ReturnToken
    <3> QED
      BY <3>1, <3>2, TypesNext, LineNext
  <2>2. CASE UNCHANGED vars
    BY <2>2 DEF vars, results, Types, FileOK, Fits, LineInv, Owed
  <2> QED
    BY <2>1, <2>2
<1>3. Inv => LinesOfTheFile
  <2> SUFFICES ASSUME Inv  PROVE LinesOfTheFile
    OBVIOUS
  <2>1. CASE kinds = {"line"}
    BY <2>1, LineInvImplies
  <2>2. CASE kinds # {"line"}
    BY <2>2 DEF LinesOfTheFile
  <2> QED
    BY <2>1, <2>2
<1> QED
  BY <1>1, <1>2, <1>3, PTL DEF Spec

-----------------------------------------------------------------------------
(* One reader gets the values that were written *)

Inside == Letter \ {CR, LF, Quote}

(* What is left of the file once all but w of the first of the values l    *)
(* has been read, and its opening quote.                                   *)
Body(w, l) == w \o (<< Quote, Behind1(l) >> \o Written(Tail(l)))

LEMMA BeforeTyped ==
  ASSUME NEW k \in Letter, NEW u \in Seq(Letter)
  PROVE  /\ Before(k, u) \in Seq(Letter) /\ Before(k, u) # << >>
         /\ Head(Before(k, u)) = k /\ Tail(Before(k, u)) = u
<1> DEFINE h == << k >>
           t == Before(k, u)
<1>1. h \in Seq(Letter) /\ Len(h) = 1 /\ h[1] = k /\ Len(u) \in Nat
  BY LenProperties
<1>2. t = h \o u
  BY DEF Before
<1> HIDE DEF h, t
<1>3. /\ t \in Seq(Letter) /\ Len(t) = Len(h) + Len(u)
      /\ \A i \in 1 .. Len(h) + Len(u) :
           t[i] = IF i <= Len(h) THEN h[i] ELSE u[i - Len(h)]
  BY <1>1, <1>2, ConcatProperties
<1>4. t # << >> /\ t[1] = k
  <2>1. 1 \in 1 .. Len(h) + Len(u) /\ 1 <= Len(h) /\ Len(t) # 0
    BY <1>1, <1>3
  <2> QED
    BY <1>1, <1>3, <2>1, EmptySeq
<1>5. /\ Tail(t) \in Seq(Letter) /\ Len(Tail(t)) = Len(t) - 1
      /\ \A i \in 1 .. Len(Tail(t)) : Tail(t)[i] = t[i + 1]
  BY <1>3, <1>4, HeadTailProperties
<1>6. ASSUME NEW i \in 1 .. Len(u)  PROVE Tail(t)[i] = u[i]
  <2>1. /\ i + 1 \in 1 .. Len(h) + Len(u) /\ ~ (i + 1 <= Len(h))
        /\ (i + 1) - Len(h) = i /\ i \in 1 .. Len(Tail(t))
    BY <1>1, <1>3, <1>5
  <2> QED
    BY <1>3, <1>5, <2>1
<1>7. Len(Tail(t)) = Len(u)
  BY <1>1, <1>3, <1>5
<1>8. Tail(t) = u
  BY <1>5, <1>6, <1>7, SeqEqual
<1>9. Head(t) = k
  BY <1>4 DEF Head
<1> QED
  BY <1>3, <1>4, <1>8, <1>9 DEF t

LEMMA BodyTyped ==
  ASSUME NEW l \in Seq(Value), l # << >>, NEW w \in Seq(Inside)
  PROVE  /\ Body(w, l) \in Seq(Letter)
         /\ Written(Tail(l)) \in Seq(Letter)
         /\ Behind1(l) \in {LF, Comma} /\ Behind1(l) \in Letter /\ Quote \in Letter
<1>1. w \in Seq(Letter)
  BY SeqMonotonic DEF Inside
<1>2. Written(Tail(l)) \in Seq(Letter)
  BY HeadTailProperties, WrittenTyped
<1>3. /\ Behind1(l) \in {LF, Comma} /\ Behind1(l) \in Letter /\ Quote \in Letter
      /\ << Quote, Behind1(l) >> \in Seq(Letter)
  BY DEF Behind1, Letter, Mark
<1>4. << Quote, Behind1(l) >> \o Written(Tail(l)) \in Seq(Letter)
  BY <1>2, <1>3, ConcatProperties
<1>5. Body(w, l) \in Seq(Letter)
  BY <1>1, <1>4, ConcatProperties DEF Body
<1> QED
  BY <1>2, <1>3, <1>5

(* At the end of a value its quote comes next, then what is behind it.     *)
LEMMA BodyEnds ==
  ASSUME NEW l \in Seq(Value), l # << >>
  PROVE  Body(<< >>, l) = Before(Quote, Before(Behind1(l), Written(Tail(l))))
<1> DEFINE u == Written(Tail(l))
           m == Behind1(l)
<1>1. u \in Seq(Letter) /\ m \in Letter /\ Quote \in Letter /\ << >> \in Seq(Inside)
  BY EmptySeq, BodyTyped
<1> HIDE DEF u, m
<1>2. << Quote, m >> = << Quote >> \o << m >>
  BY <1>1
<1>3. << Quote >> \in Seq(Letter) /\ << m >> \in Seq(Letter) /\ << Quote, m >> \in Seq(Letter)
  BY <1>1
<1>4. (<< Quote >> \o << m >>) \o u = << Quote >> \o (<< m >> \o u)
  BY <1>1, <1>3, ConcatAssociative
<1>5. << Quote, m >> \o u \in Seq(Letter)
  BY <1>1, <1>3, ConcatProperties
<1>6. << >> \o (<< Quote, m >> \o u) = << Quote, m >> \o u
  BY <1>5, ConcatEmptySeq
<1> QED
  BY <1>2, <1>4, <1>6, Zenon DEF Body, Before, u, m

(* Joining is associative. *)
Left3(a, b, c)     == (a \o b) \o c
Right3(a, b, c)    == a \o (b \o c)
Left4(a, b, c, d)  == ((a \o b) \o c) \o d
Right4(a, b, c, d) == a \o (b \o (c \o d))

LEMMA ThreeParts ==
  ASSUME NEW S, NEW a \in Seq(S), NEW b \in Seq(S), NEW c \in Seq(S)
  PROVE  Left3(a, b, c) = Right3(a, b, c)
BY ConcatAssociative DEF Left3, Right3

LEMMA FourParts ==
  ASSUME NEW S, NEW a \in Seq(S), NEW b \in Seq(S), NEW c \in Seq(S), NEW d \in Seq(S)
  PROVE  Left4(a, b, c, d) = Right4(a, b, c, d)
<1>1. a \o b \in Seq(S) /\ c \o d \in Seq(S)
  BY ConcatProperties
<1>2. Left3(a \o b, c, d) = Right3(a \o b, c, d)
  BY <1>1, ThreeParts
<1>3. Left3(a, b, c \o d) = Right3(a, b, c \o d)
  BY <1>1, ThreeParts
<1> QED
  BY <1>2, <1>3, Zenon DEF Left3, Right3, Left4, Right4

(* Inside a value its characters come one by one. *)
LEMMA BodyStep ==
  ASSUME NEW l \in Seq(Value), l # << >>, NEW w \in Seq(Inside), w # << >>
  PROVE  /\ Head(w) \in Inside /\ Tail(w) \in Seq(Inside)
         /\ Body(w, l) = Before(Head(w), Body(Tail(w), l))
<1> DEFINE u == << Quote, Behind1(l) >> \o Written(Tail(l))
           h == << Head(w) >>
           t == Tail(w)
<1>1. u \in Seq(Letter)
  BY BodyTyped, ConcatProperties
<1>2. Head(w) \in Inside /\ t \in Seq(Inside) /\ w = h \o t
  BY PeelHead
<1>3. h \in Seq(Letter) /\ t \in Seq(Letter)
  BY <1>2, SeqMonotonic DEF Inside
<1> HIDE DEF u, h, t
<1>4. Left3(h, t, u) = Right3(h, t, u)
  BY <1>1, <1>3, ThreeParts
<1> QED
  BY <1>2, <1>4, Zenon DEF Left3, Right3, Body, Before, u, h, t

LEMMA WrittenStarts ==
  ASSUME NEW l \in Seq(Value), l # << >>
  PROVE  /\ Head(l) \in Value /\ Head(l) \in Seq(Inside) /\ Tail(l) \in Seq(Value)
         /\ Written(l) = Before(Quote, Body(Head(l), l))
<1> DEFINE v == Head(l)
           m == Behind1(l)
           u == Written(Tail(l))
           q == << Quote >>
           e == << Quote, m >>
<1>1. v \in Value /\ v \in Seq(Inside) /\ Tail(l) \in Seq(Value)
  BY HeadTailProperties DEF Value, Inside
<1>2. u \in Seq(Letter) /\ v \in Seq(Letter) /\ m \in Letter /\ Quote \in Letter
  BY <1>1, BodyTyped, SeqMonotonic DEF Inside
<1>3. q \in Seq(Letter) /\ e \in Seq(Letter)
  BY <1>2
<1>4. Written(l) = ((q \o v) \o e) \o u
  BY WrittenStep DEF Quoted
<1> HIDE DEF v, m, u, q, e
<1>5. Left4(q, v, e, u) = Right4(q, v, e, u)
  BY <1>2, <1>3, FourParts
<1> QED
  BY <1>1, <1>4, <1>5, Zenon DEF Left4, Right4, Body, Before, v, m, u, q, e

(* A list s and what follows it, l. *)
LEMMA ListSplits ==
  ASSUME NEW S, NEW s \in Seq(S), NEW l \in Seq(S)
  PROVE  /\ SubSeq(s \o l, 1, Len(s)) = s
         /\ SubSeq(s \o l, Len(s) + 1, Len(s \o l)) = l
         /\ l # << >> => SubSeq(s \o l, Len(s) + 2, Len(s \o l)) = Tail(l)
<1> DEFINE n == Len(s)
           o == Len(l)
           t == s \o l
<1>1. n \in Nat /\ o \in Nat
  BY LenProperties
<1>2. /\ t \in Seq(S) /\ Len(t) = n + o
      /\ \A i \in 1 .. n + o : t[i] = IF i <= n THEN s[i] ELSE l[i - n]
  BY ConcatProperties
<1>3. Len(s) = n /\ Len(l) = o
  OBVIOUS
<1> HIDE DEF n, o, t
<1>4. \A i \in 1 .. n + o : t[i] \in S
  BY <1>2, ElementOfSeq
<1>5. SubSeq(t, 1, n) = s
  <2> DEFINE x == SubSeq(t, 1, n)
  <2>1. /\ 1 \in Int /\ n \in Int /\ (IF 1 <= n THEN (n - 1) + 1 ELSE 0) = n
        /\ (n - 1) + 1 = n /\ \A i \in 1 .. n : i \in 1 .. n + o /\ (1 + i) - 1 = i
    BY <1>1
  <2>2. /\ x \in Seq(S) /\ Len(x) = IF 1 <= n THEN (n - 1) + 1 ELSE 0
        /\ \A i \in 1 .. (n - 1) + 1 : x[i] = t[(1 + i) - 1]
    BY <1>4, <2>1, SubSeqProperties
  <2> HIDE DEF x
  <2>3. Len(x) = n /\ \A i \in 1 .. n : x[i] = s[i]
    <3>1. \A i \in 1 .. n : i <= n
      OBVIOUS
    <3> QED
      BY <1>2, <2>1, <2>2, <3>1
  <2>4. x = s
    BY <1>3, <2>2, <2>3, SeqEqual
  <2> QED
    BY <2>4 DEF x
<1>6. SubSeq(t, n + 1, n + o) = l
  <2> DEFINE x == SubSeq(t, n + 1, n + o)
  <2>1. /\ n + 1 \in Int /\ n + o \in Int
        /\ (IF n + 1 <= n + o THEN ((n + o) - (n + 1)) + 1 ELSE 0) = o
        /\ ((n + o) - (n + 1)) + 1 = o
        /\ \A i \in n + 1 .. n + o : i \in 1 .. n + o
        /\ \A i \in 1 .. o : /\ ((n + 1) + i) - 1 = n + i /\ n + i \in 1 .. n + o
                             /\ ~ (n + i <= n) /\ (n + i) - n = i
    BY <1>1
  <2>2. /\ x \in Seq(S)
        /\ Len(x) = IF n + 1 <= n + o THEN ((n + o) - (n + 1)) + 1 ELSE 0
        /\ \A i \in 1 .. ((n + o) - (n + 1)) + 1 : x[i] = t[((n + 1) + i) - 1]
    BY <1>4, <2>1, SubSeqProperties
  <2> HIDE DEF x
  <2>3. Len(x) = o /\ \A i \in 1 .. o : x[i] = l[i]
    BY <1>2, <2>1, <2>2
  <2>4. x = l
    BY <1>3, <2>2, <2>3, SeqEqual
  <2> QED
    BY <2>4 DEF x
<1>7. ASSUME l # << >>  PROVE SubSeq(t, n + 2, n + o) = Tail(l)
  <2> DEFINE x == SubSeq(t, n + 2, n + o)
             y == Tail(l)
  <2>1. o \in Nat \ {0} /\ y \in Seq(S) /\ Len(y) = o - 1
        /\ \A i \in 1 .. Len(y) : y[i] = l[i + 1]
    BY <1>3, <1>7, EmptySeq, HeadTailProperties
  <2>2. /\ n + 2 \in Int /\ n + o \in Int
        /\ (IF n + 2 <= n + o THEN ((n + o) - (n + 2)) + 1 ELSE 0) = o - 1
        /\ ((n + o) - (n + 2)) + 1 = o - 1
        /\ \A i \in n + 2 .. n + o : i \in 1 .. n + o
        /\ \A i \in 1 .. o - 1 :
             /\ ((n + 2) + i) - 1 = n + (i + 1) /\ n + (i + 1) \in 1 .. n + o
             /\ ~ (n + (i + 1) <= n) /\ (n + (i + 1)) - n = i + 1
    BY <1>1, <2>1
  <2>3. /\ x \in Seq(S)
        /\ Len(x) = IF n + 2 <= n + o THEN ((n + o) - (n + 2)) + 1 ELSE 0
        /\ \A i \in 1 .. ((n + o) - (n + 2)) + 1 : x[i] = t[((n + 2) + i) - 1]
    BY <1>4, <2>2, SubSeqProperties
  <2> HIDE DEF x, y
  <2>4. Len(x) = o - 1
    BY <2>2, <2>3
  <2>5. ASSUME NEW i \in 1 .. o - 1  PROVE x[i] = y[i]
    <3>1. x[i] = t[n + (i + 1)]
      BY <2>2, <2>3
    <3>2. t[n + (i + 1)] = l[i + 1]
      BY <1>2, <2>2
    <3>3. y[i] = l[i + 1]
      BY <2>1
    <3> QED
      BY <3>1, <3>2, <3>3
  <2>6. x = y
    BY <2>1, <2>3, <2>4, <2>5, SeqEqual
  <2> QED
    BY <2>6 DEF x, y
<1> QED
  BY <1>2, <1>5, <1>6, <1>7 DEF n, o, t

LEMMA BodyStarts ==
  ASSUME NEW l \in Seq(Value), l # << >>, NEW w \in Seq(Inside)
  PROVE  \E k \in Letter : \E u \in Seq(Letter) : Body(w, l) = Before(k, u)
<1>1. /\ Written(Tail(l)) \in Seq(Letter) /\ Behind1(l) \in Letter /\ Quote \in Letter
      /\ << >> \in Seq(Inside)
  BY BodyTyped, EmptySeq
<1>2. CASE w = << >>
  <2>1. Before(Behind1(l), Written(Tail(l))) \in Seq(Letter)
    BY <1>1, BeforeTyped
  <2> QED
    BY <1>1, <1>2, <2>1, BodyEnds, Zenon
<1>3. CASE w # << >>
  <2>1. /\ Head(w) \in Letter /\ Tail(w) \in Seq(Inside)
        /\ Body(w, l) = Before(Head(w), Body(Tail(w), l))
    BY <1>3, BodyStep DEF Inside
  <2>2. Body(Tail(w), l) \in Seq(Letter)
    BY <2>1, BodyTyped
  <2> QED
    BY <2>1, <2>2, Zenon
<1> QED
  BY <1>2, <1>3

(* The character in hand, k, tells whether the value has ended. *)
LEMMA BodyShows ==
  ASSUME NEW l \in Seq(Value), l # << >>, NEW w \in Seq(Inside),
         NEW k \in Letter, NEW u \in Seq(Letter), Before(k, u) = Body(w, l)
  PROVE  /\ w = << >> => k = Quote /\ u = Before(Behind1(l), Written(Tail(l)))
         /\ w # << >> => /\ k = Head(w) /\ k \in Inside /\ u = Body(Tail(w), l)
                         /\ Tail(w) \in Seq(Inside)
<1>1. /\ Written(Tail(l)) \in Seq(Letter) /\ Behind1(l) \in Letter /\ Quote \in Letter
      /\ Head(Before(k, u)) = k /\ Tail(Before(k, u)) = u
  BY BodyTyped, EmptySeq, BeforeTyped
<1>2. ASSUME w = << >>
      PROVE  k = Quote /\ u = Before(Behind1(l), Written(Tail(l)))
  <2> DEFINE v == Before(Behind1(l), Written(Tail(l)))
  <2>1. v \in Seq(Letter)
    BY <1>1, BeforeTyped
  <2>2. Before(k, u) = Before(Quote, v)
    BY <1>2, BodyEnds, Zenon
  <2> HIDE DEF v
  <2>3. Head(Before(Quote, v)) = Quote /\ Tail(Before(Quote, v)) = v
    BY <1>1, <2>1, BeforeTyped
  <2> QED
    BY <1>1, <2>2, <2>3 DEF v
<1>3. ASSUME w # << >>
      PROVE  k = Head(w) /\ k \in Inside /\ u = Body(Tail(w), l) /\ Tail(w) \in Seq(Inside)
  <2> DEFINE v == Body(Tail(w), l)
  <2>1. Head(w) \in Inside /\ Tail(w) \in Seq(Inside) /\ Body(w, l) = Before(Head(w), v)
    BY <1>3, BodyStep
  <2>2. Head(w) \in Letter /\ v \in Seq(Letter)
    BY <2>1, BodyTyped DEF Inside
  <2> HIDE DEF v
  <2>3. Head(Before(Head(w), v)) = Head(w) /\ Tail(Before(Head(w), v)) = v
    BY <2>2, BeforeTyped
  <2>4. Before(k, u) = Before(Head(w), v)
    BY <2>1
  <2> QED
    BY <1>1, <2>1, <2>3, <2>4 DEF v
<1> QED
  BY <1>2, <1>3

(* A value v of which b has been read and w has not. *)
Parts(v, b, w) == v = b \o w

LEMMA PartsFit ==
  ASSUME NEW v \in Value, NEW b \in Seq(Inside), NEW w \in Seq(Inside), Parts(v, b, w)
  PROVE  Len(b) < MaxToken /\ (w = << >> => b = v)
<1>1. Len(v) \in Nat /\ Len(v) < MaxToken
  BY LenProperties DEF Value
<1>2. Len(v) = Len(b) + Len(w) /\ Len(b) \in Nat /\ Len(w) \in Nat
  BY ConcatProperties, LenProperties DEF Parts
<1>3. w = << >> => b = v
  BY ConcatEmptySeq DEF Parts
<1> QED
  BY <1>1, <1>2, <1>3, RoomAssumption

LEMMA PartsMove ==
  ASSUME NEW v, NEW b \in Seq(Inside), NEW w \in Seq(Inside), Parts(v, b, w), w # << >>
  PROVE  /\ Append(b, Head(w)) \in Seq(Inside)
         /\ Parts(v, Append(b, Head(w)), Tail(w))
<1>1. /\ Head(w) \in Inside /\ Tail(w) \in Seq(Inside)
      /\ w = Before(Head(w), Tail(w))
  BY PeelHead DEF Before
<1>2. b \o Before(Head(w), Tail(w)) = Longer(b, Head(w), Tail(w))
  BY <1>1, OneMore
<1>3. Append(b, Head(w)) \in Seq(Inside)
  BY <1>1, AppendProperties
<1> QED
  BY <1>1, <1>2, <1>3, Zenon DEF Parts, Longer

(* What is left of the file, u, and of the values in it, l, in the call c. *)
Ahead(c, u, l) ==
  \/ c.at = "idle" /\ u = Written(l)
  \/ /\ c.at = "skip" /\ c.buf = << >> /\ c.quoted = FALSE
     /\ l # << >> /\ u = Written(l)
  \/ /\ c.at = "token" /\ c.buf = << >> /\ c.quoted = FALSE /\ c.ch = Quote
     /\ l # << >> /\ u = Body(Head(l), l)
  \/ /\ c.at = "token" /\ c.buf \in Seq(Inside) /\ c.quoted = TRUE /\ c.ch \in Letter
     /\ l # << >>
     /\ \E w \in Seq(Inside) : Parts(Head(l), c.buf, w) /\ Before(c.ch, u) = Body(w, l)
  \/ /\ c.at = "delimiter" /\ l # << >> /\ c.buf = Head(l) /\ c.ch = Behind1(l)
     /\ u = Written(Tail(l))

TokenInv(r) ==
  /\ kinds = {"token"} /\ tokens \in Seq(Value)
  /\ back = << >> /\ rest \in Seq(Letter)
  /\ \E l \in Seq(Value) : wrote = tokens \o l /\ Ahead(in[r], rest, l)

LEMMA TokenInvImplies ==
  ASSUME NEW r, Reader = {r}, TokenInv(r)
  PROVE  ReadsBack
<1> SUFFICES ASSUME Quiet
             PROVE  /\ tokens = SubSeq(wrote, 1, Len(tokens))
                    /\ Unread = Written(SubSeq(wrote, Len(tokens) + 1, Len(wrote)))
  BY DEF ReadsBack
<1>1. PICK l \in Seq(Value) : wrote = tokens \o l /\ Ahead(in[r], rest, l)
  BY DEF TokenInv
<1>2. in[r].at = "idle"
  BY DEF Quiet, Is
<1>3. rest = Written(l) /\ Unread = rest
  BY <1>1, <1>2, ConcatEmptySeq DEF Ahead, TokenInv, Unread
<1>4. /\ SubSeq(tokens \o l, 1, Len(tokens)) = tokens
      /\ SubSeq(tokens \o l, Len(tokens) + 1, Len(tokens \o l)) = l
  BY <1>1, ListSplits DEF TokenInv
<1> QED
  BY <1>1, <1>3, <1>4, Zenon

LEMMA FileGives ==
  ASSUME back = << >>, NEW k \in Letter, NEW u \in Seq(Letter), rest = Before(k, u),
         Advance
  PROVE  ReadChar = k /\ back' = << >> /\ rest' = u
<1>1. /\ rest \in Seq(Letter) /\ rest # << >> /\ Head(rest) = k /\ Tail(rest) = u
  BY BeforeTyped
<1>2. Unread = rest
  BY <1>1, ConcatEmptySeq DEF Unread
<1>3. ~ Eof /\ Take1 /\ ReadChar = Head(rest)
  BY <1>1, <1>2 DEF Eof, Advance, ReadChar, Next1
<1> QED
  BY <1>1, <1>3 DEF Take1

(* A step of the call that leaves it under way. *)
LEMMA TokenGoesOn ==
  ASSUME Types, NEW r \in Reader, NEW c, in' = [in EXCEPT ![r] = c],
         kinds = {"token"}, tokens \in Seq(Value), UNCHANGED << kinds, results >>,
         back' = << >>, rest' \in Seq(Letter),
         NEW l \in Seq(Value), wrote = tokens \o l, Ahead(c, rest', l)
  PROVE  TokenInv(r)'
<1>1. in'[r] = c /\ kinds' = kinds /\ tokens' = tokens /\ wrote' = wrote
  BY DEF Types, results
<1>2. wrote' = tokens' \o l /\ Ahead(in'[r], rest', l)
  BY <1>1
<1>3. (\E q \in Seq(Value) : wrote = tokens \o q /\ Ahead(in[r], rest, q))'
  BY <1>2 DEF Ahead
<1> QED
  BY <1>1, <1>3 DEF TokenInv

(* The value that comes next is returned, or lost for want of memory. *)
LEMMA TokenReturns ==
  ASSUME Types, NEW r \in Reader, kinds = {"token"}, tokens \in Seq(Value),
         NEW l \in Seq(Value), l # << >>, wrote = tokens \o l, in[r].buf = Head(l),
         back' = << >>, rest' = Written(Tail(l)), ReturnToken(r)
  PROVE  TokenInv(r)'
<1> DEFINE h == Head(l)
           t == Tail(l)
<1>1. /\ h \in Value /\ t \in Seq(Value) /\ l = Before(h, t)
      /\ Len(tokens) \in Nat /\ Len(l) \in Nat \ {0}
  BY PeelHead, EmptySeq, LenProperties DEF Before
<1>2. rest' \in Seq(Letter)
  BY <1>1, WrittenTyped
<1>3. /\ in'[r] = Idle /\ Idle.at = "idle" /\ kinds' = {"token"}
  BY DEF Types, ReturnToken, Idle
<1>4. ASSUME tokens' \in Seq(Value), wrote' = tokens' \o t
      PROVE  TokenInv(r)'
  <2>1. Ahead(in'[r], rest', t)
    BY <1>3 DEF Ahead
  <2>2. (\E q \in Seq(Value) : wrote = tokens \o q /\ Ahead(in[r], rest, q))'
    BY <1>1, <1>4, <2>1 DEF Ahead
  <2> QED
    BY <1>2, <1>3, <1>4, <2>2 DEF TokenInv
<1>5. CASE tokens' = Append(tokens, in[r].buf) /\ wrote' = wrote
  <2>1. tokens \o Before(h, t) = Longer(tokens, h, t)
    BY <1>1, OneMore
  <2>2. Append(tokens, h) \in Seq(Value)
    BY <1>1, AppendProperties
  <2>3. wrote' = Append(tokens, h) \o t
    <3>1. wrote = tokens \o l
      OBVIOUS
    <3> HIDE DEF h, t
    <3> QED
      BY <1>1, <1>5, <2>1, <3>1, Zenon DEF Longer
  <2> QED
    BY <1>4, <1>5, <2>2, <2>3
<1>6. CASE /\ tokens' = tokens
           /\ wrote' = IF Len(tokens) < Len(wrote)
                       THEN RemoveAt(wrote, Len(tokens) + 1) ELSE wrote
  <2> DEFINE n == Len(tokens)
             w == wrote
  <2>1. /\ SubSeq(tokens \o l, 1, n) = tokens
        /\ SubSeq(tokens \o l, n + 2, Len(tokens \o l)) = t
    BY ListSplits
  <2>2. w = tokens \o l
    OBVIOUS
  <2>3. Len(tokens \o l) = n + Len(l)
    BY ConcatProperties
  <2>4. n < Len(w) /\ (n + 1) - 1 = n /\ (n + 1) + 1 = n + 2
    BY <1>1, <2>2, <2>3
  <2>5. /\ SubSeq(w, 1, n) = tokens /\ SubSeq(w, n + 2, Len(w)) = t
    BY <2>1, <2>2, Zenon
  <2>6. RemoveAt(w, n + 1) = SubSeq(w, 1, (n + 1) - 1) \o SubSeq(w, (n + 1) + 1, Len(w))
    BY Zenon DEF RemoveAt
  <2> HIDE DEF n, t
  <2>7. RemoveAt(w, n + 1) = tokens \o t
    BY <2>4, <2>5, <2>6, Zenon
  <2>8. wrote' = tokens' \o t
    BY <1>6, <2>4, <2>7, Zenon DEF n
  <2> QED
    BY <1>4, <1>6, <2>8
<1> QED
  BY <1>5, <1>6 DEF ReturnToken

LEMMA CallShows ==
  ASSUME NEW d \in Call, NEW p, NEW k
  PROVE  /\ Bring(d, p, k).at = p /\ Bring(d, p, k).ch = k
         /\ Bring(d, p, k).buf = d.buf /\ Bring(d, p, k).quoted = d.quoted
         /\ Turn(d, p, k).at = p /\ Turn(d, p, k).ch = k
         /\ Turn(d, p, k).buf = d.buf /\ Turn(d, p, k).quoted = ~ d.quoted
<1> DEFINE S == Seq(Cell)
<1>1. d \in [at : Place, ch : Cell, quoted : BOOLEAN, buf : S, cap : Nat \ {0}]
  BY DEF Call
<1> HIDE DEF S
<1> QED
  BY <1>1 DEF Bring, Turn

LEMMA TokenNext ==
  ASSUME Types, NEW r \in Reader, TokenInv(r), Step(r)
  PROVE  TokenInv(r)'
<1> DEFINE c == in[r]
           b == c.buf
<1>0. /\ kinds = {"token"} /\ tokens \in Seq(Value) /\ c \in Call
      /\ back = << >> /\ rest \in Seq(Letter) /\ Unread = rest
  BY ConcatEmptySeq DEF TokenInv, Types, Unread
<1>1. PICK l \in Seq(Value) : wrote = tokens \o l /\ Ahead(c, rest, l)
  BY DEF TokenInv
<1>2. c.at \in {"idle", "skip", "token", "delimiter"}
  BY <1>1 DEF Ahead
<1>3. ASSUME l # << >>
      PROVE  /\ Head(l) \in Value /\ Head(l) \in Seq(Inside) /\ Tail(l) \in Seq(Value)
             /\ Written(l) = Before(Quote, Body(Head(l), l))
             /\ Body(Head(l), l) \in Seq(Letter) /\ Written(Tail(l)) \in Seq(Letter)
             /\ Behind1(l) \in {LF, Comma} /\ Behind1(l) \in Letter /\ Quote \in Letter
  BY <1>3, WrittenStarts, BodyTyped
<1>4. /\ Quote \notin {CR, LF, Comma, Blank, Weof} /\ Weof \notin Letter
      /\ Blank \notin {LF, Comma}
  BY CharAssumption DEF Mark, Letter
<1>5. ASSUME BeginToken(r)  PROVE TokenInv(r)'
  <2> DEFINE d == [Idle EXCEPT !.at = "skip"]
  <2>1. /\ c.at = "idle" /\ rest # << >> /\ back' = << >> /\ rest' = rest
        /\ in' = [in EXCEPT ![r] = d] /\ UNCHANGED << kinds, results >>
    BY <1>0, <1>5 DEF BeginToken, Is, Eof, file
  <2>2. rest = Written(l)
    BY <1>1, <2>1 DEF Ahead
  <2>3. l # << >>
    BY <2>1, <2>2, WrittenTyped
  <2>4. d.at = "skip" /\ d.buf = << >> /\ d.quoted = FALSE
    BY DEF Idle
  <2> HIDE DEF d
  <2>5. Ahead(d, rest', l)
    BY <2>1, <2>2, <2>3, <2>4 DEF Ahead
  <2> QED
    BY <1>0, <1>1, <2>1, <2>5, TokenGoesOn
<1>6. ASSUME SkipBlank(r)  PROVE TokenInv(r)'
  <2>1. c.at = "skip" /\ Advance /\ UNCHANGED << kinds, results >>
    BY <1>6 DEF SkipBlank, Is
  <2>2. l # << >> /\ b = << >> /\ c.quoted = FALSE /\ rest = Written(l)
    BY <1>1, <2>1 DEF Ahead
  <2>3. rest = Before(Quote, Body(Head(l), l)) /\ Body(Head(l), l) \in Seq(Letter)
        /\ Quote \in Letter
    BY <1>3, <2>2
  <2>4. ReadChar = Quote /\ back' = << >> /\ rest' = Body(Head(l), l)
    BY <1>0, <2>1, <2>3, FileGives
  <2> DEFINE d == Bring(c, "token", Quote)
  <2>5. in' = [in EXCEPT ![r] = d]
    BY <1>4, <1>6, <2>4 DEF SkipBlank, Bring
  <2>6. d.at = "token" /\ d.ch = Quote /\ d.buf = << >> /\ d.quoted = FALSE
    BY <1>0, <2>2, CallShows
  <2> HIDE DEF d
  <2>7. Ahead(d, rest', l)
    BY <2>2, <2>4, <2>6 DEF Ahead
  <2> QED
    BY <1>0, <1>1, <2>1, <2>3, <2>4, <2>5, <2>7, TokenGoesOn
<1>7. ASSUME Is(r, "token"), ~ c.quoted
      PROVE  /\ c.quoted = FALSE /\ b = << >> /\ c.ch = Quote /\ l # << >>
             /\ rest = Body(Head(l), l) /\ InLoop(r) /\ Opens(r) /\ ~ Closes(r)
  <2>1. /\ c.quoted = FALSE /\ b = << >> /\ c.ch = Quote /\ l # << >>
        /\ rest = Body(Head(l), l)
    BY <1>1, <1>7 DEF Ahead, Is
  <2>2. Len(b) = 0 /\ 0 < MaxToken
    BY <2>1, EmptySeq, RoomAssumption
  <2> QED
    BY <1>4, <2>1, <2>2 DEF InLoop, Opens, Closes
<1>8. ASSUME Is(r, "token"), c.quoted
      PROVE  /\ c.quoted = TRUE /\ b \in Seq(Inside) /\ c.ch \in Letter /\ l # << >>
             /\ c.ch \notin {CR, LF, Weof} /\ InLoop(r) /\ ~ Opens(r)
             /\ \E w \in Seq(Inside) :
                  Parts(Head(l), b, w) /\ Before(c.ch, rest) = Body(w, l)
  <2>1. /\ c.quoted = TRUE /\ b \in Seq(Inside) /\ c.ch \in Letter /\ l # << >>
        /\ \E w \in Seq(Inside) :
             Parts(Head(l), b, w) /\ Before(c.ch, rest) = Body(w, l)
    BY <1>1, <1>8 DEF Ahead, Is
  <2>2. PICK w \in Seq(Inside) :
               Parts(Head(l), b, w) /\ Before(c.ch, rest) = Body(w, l)
    BY <2>1
  <2>3. c.ch = Quote \/ c.ch \in Inside
    BY <1>0, <2>1, <2>2, BodyShows
  <2>4. c.ch \notin {CR, LF, Weof}
    BY <1>4, <2>1, <2>3 DEF Inside
  <2>5. Len(b) < MaxToken
    BY <1>3, <2>1, <2>2, PartsFit
  <2> QED
    BY <2>1, <2>4, <2>5 DEF InLoop, Opens
<1>9. ASSUME TokenQuote(r)  PROVE TokenInv(r)'
  <2> DEFINE d == Turn(c, IF Closes(r) THEN "delimiter" ELSE "token", ReadChar)
  <2>1. /\ Is(r, "token") /\ (Opens(r) \/ Closes(r)) /\ Advance
        /\ in' = [in EXCEPT ![r] = d] /\ UNCHANGED << kinds, results >>
    BY <1>9 DEF TokenQuote, Turn
  <2>2. /\ d.at = (IF Closes(r) THEN "delimiter" ELSE "token") /\ d.ch = ReadChar
        /\ d.buf = b /\ d.quoted = ~ c.quoted
    BY <1>0, CallShows
  <2> HIDE DEF d
  <2>3. CASE ~ c.quoted
    <3>1. /\ c.quoted = FALSE /\ b = << >> /\ l # << >> /\ rest = Body(Head(l), l)
          /\ ~ Closes(r)
      BY <1>7, <2>1, <2>3
    <3>2. PICK k \in Letter : \E u \in Seq(Letter) : Body(Head(l), l) = Before(k, u)
      BY <1>3, <3>1, BodyStarts
    <3>3. PICK u \in Seq(Letter) : Body(Head(l), l) = Before(k, u)
      BY <3>2
    <3>4. ReadChar = k /\ back' = << >> /\ rest' = u
      BY <1>0, <2>1, <3>1, <3>3, FileGives
    <3>5. Parts(Head(l), << >>, Head(l)) /\ << >> \in Seq(Inside)
      BY <1>3, <3>1, ConcatEmptySeq, EmptySeq DEF Parts
    <3>6. /\ d.at = "token" /\ d.ch = k /\ d.buf = << >> /\ d.quoted = TRUE
          /\ Before(d.ch, rest') = Body(Head(l), l)
      BY <2>2, <3>1, <3>3, <3>4
    <3>7. Ahead(d, rest', l)
      BY <1>3, <3>1, <3>5, <3>6 DEF Ahead
    <3> QED
      BY <1>0, <1>1, <2>1, <3>4, <3>7, TokenGoesOn
  <2>4. CASE c.quoted
    <3>1. /\ c.quoted = TRUE /\ b \in Seq(Inside) /\ c.ch \in Letter /\ l # << >>
          /\ Closes(r) /\ c.ch = Quote
      BY <1>8, <2>1, <2>4 DEF Closes, Opens
    <3>2. PICK w \in Seq(Inside) :
                 Parts(Head(l), b, w) /\ Before(c.ch, rest) = Body(w, l)
      BY <1>8, <2>1, <2>4
    <3>3. /\ w # << >> => c.ch \in Inside
          /\ w = << >> => rest = Before(Behind1(l), Written(Tail(l)))
      BY <1>0, <3>1, <3>2, BodyShows
    <3>4. w = << >> /\ rest = Before(Behind1(l), Written(Tail(l)))
      BY <3>1, <3>3 DEF Inside
    <3>5. b = Head(l)
      BY <1>3, <3>1, <3>2, <3>4, PartsFit
    <3>6. /\ Behind1(l) \in Letter /\ Written(Tail(l)) \in Seq(Letter)
      BY <1>3, <3>1
    <3>7. ReadChar = Behind1(l) /\ back' = << >> /\ rest' = Written(Tail(l))
      BY <1>0, <2>1, <3>4, <3>6, FileGives
    <3>8. Ahead(d, rest', l)
      BY <2>2, <3>1, <3>5, <3>7 DEF Ahead
    <3> QED
      BY <1>0, <1>1, <2>1, <3>6, <3>7, <3>8, TokenGoesOn
  <2> QED
    BY <2>3, <2>4
<1>10. ASSUME TokenChar(r)  PROVE TokenInv(r)'
  <2> DEFINE d == [c EXCEPT !.buf = Append(@, c.ch), !.ch = ReadChar]
  <2>1. /\ Is(r, "token") /\ ~ Opens(r) /\ ~ Closes(r) /\ Advance
        /\ in' = [in EXCEPT ![r] = d] /\ UNCHANGED << kinds, results >>
    BY <1>10 DEF TokenChar
  <2>2. /\ c.quoted = TRUE /\ b \in Seq(Inside) /\ c.ch \in Letter /\ l # << >>
        /\ c.ch # Quote
    BY <1>7, <1>8, <2>1 DEF Closes
  <2>3. PICK w \in Seq(Inside) :
               Parts(Head(l), b, w) /\ Before(c.ch, rest) = Body(w, l)
    BY <1>8, <2>1, <2>2
  <2>4. w # << >>
    BY <1>0, <2>2, <2>3, BodyShows
  <2>5. c.ch = Head(w) /\ rest = Body(Tail(w), l) /\ Tail(w) \in Seq(Inside)
    BY <1>0, <2>2, <2>3, <2>4, BodyShows
  <2>6. PICK k \in Letter : \E u \in Seq(Letter) : Body(Tail(w), l) = Before(k, u)
    BY <2>2, <2>5, BodyStarts
  <2>7. PICK u \in Seq(Letter) : Body(Tail(w), l) = Before(k, u)
    BY <2>6
  <2>8. ReadChar = k /\ back' = << >> /\ rest' = u
    BY <1>0, <2>1, <2>5, <2>7, FileGives
  <2>9. /\ Append(b, c.ch) \in Seq(Inside)
        /\ Parts(Head(l), Append(b, c.ch), Tail(w))
    BY <2>2, <2>3, <2>4, <2>5, PartsMove
  <2>10. /\ d.at = "token" /\ d.ch = k /\ d.buf = Append(b, c.ch) /\ d.quoted = TRUE
    <3> DEFINE S == Seq(Cell)
    <3>1. c \in [at : Place, ch : Cell, quoted : BOOLEAN, buf : S, cap : Nat \ {0}]
      BY <1>0 DEF Call
    <3> HIDE DEF S
    <3> QED
      BY <2>1, <2>2, <2>8, <3>1 DEF Is
  <2> HIDE DEF d
  <2>11. Before(d.ch, rest') = Body(Tail(w), l)
    BY <2>7, <2>8, <2>10
  <2>12. Ahead(d, rest', l)
    BY <2>2, <2>5, <2>9, <2>10, <2>11 DEF Ahead
  <2> QED
    BY <1>0, <1>1, <2>1, <2>8, <2>12, TokenGoesOn
<1>11. ASSUME Is(r, "delimiter")
       PROVE  /\ l # << >> /\ b = Head(l) /\ c.ch \in {LF, Comma}
              /\ rest = Written(Tail(l))
  BY <1>1, <1>3, <1>11 DEF Ahead, Is
<1>12. ASSUME SkipDelimiter(r)  PROVE TokenInv(r)'
  <2>1. /\ l # << >> /\ b = Head(l) /\ c.ch \in {LF, Comma} /\ rest = Written(Tail(l))
    BY <1>11, <1>12 DEF SkipDelimiter
  <2>2. CR \notin {Comma, LF, Weof}
    BY CharAssumption DEF Mark, Letter
  <2>3. UNCHANGED file /\ ReturnToken(r)
    BY <1>12, <2>1, <2>2 DEF SkipDelimiter
  <2> QED
    BY <1>0, <1>1, <2>1, <2>3, TokenReturns DEF file
<1>13. ~ (\/ BeginLine(r) \/ LineChar(r) \/ LineNoRoom(r) \/ LineCR(r) \/ LineEnd(r)
          \/ SwallowLF(r) \/ LinePutBack(r) \/ AfterCR(r) \/ Unreads(r))
  <2>1. ~ BeginLine(r)
    BY <1>0 DEF BeginLine
  <2>2. c.at \notin {"line", "afterCR", "putback", "tokenCR", "unread"}
    BY <1>2
  <2> QED
    BY <2>1, <2>2 DEF LineChar, LineNoRoom, LineCR, LineEnd, SwallowLF, LinePutBack,
       AfterCR, Unreads, Is
<1>14. ~ (TokenEnd(r) \/ TokenCR(r) \/ TokenFull(r))
  <2>1. ~ TokenEnd(r)
    BY <1>4, <1>7, <1>8 DEF TokenEnd
  <2>2. ~ TokenCR(r)
    BY <1>4, <1>7, <1>8 DEF TokenCR
  <2>3. ~ TokenFull(r)
    BY <1>7, <1>8 DEF TokenFull
  <2> QED
    BY <2>1, <2>2, <2>3
<1>15. ~ SkipBlankAfter(r)
  BY <1>4, <1>11 DEF SkipBlankAfter
<1> QED
  BY <1>5, <1>6, <1>9, <1>10, <1>12, <1>13, <1>14, <1>15 DEF Step

(* A program that reads with INPUT # what WRITE # wrote gets the values    *)
(* that were written, in their order, and the file is then at its end      *)
(* (file_input_tok_wstr.c), whatever the values, the lists and where       *)
(* memory runs out: for the one reader of the file, and values shorter     *)
(* than the array under INPUT #.                                           *)
THEOREM ValuesComeBack ==
  ASSUME NEW r, Reader = {r}
  PROVE  Spec => []ReadsBack
<1> DEFINE Inv == Types /\ (kinds = {"token"} => TokenInv(r))
<1>1. Init => Inv
  <2> SUFFICES ASSUME Init, kinds = {"token"}  PROVE TokenInv(r)
    BY TypesInit
  <2>1. /\ wrote \in Lists /\ rest = Written(wrote) /\ back = << >>
        /\ in[r] = Idle /\ tokens = << >>
    BY DEF Init
  <2>2. wrote \in Seq(Value) /\ rest \in Seq(Letter)
    BY <2>1, ListFacts, WrittenTyped
  <2>3. tokens \in Seq(Value) /\ wrote = tokens \o wrote
    BY <2>1, <2>2, EmptySeq, ConcatEmptySeq
  <2>4. Ahead(in[r], rest, wrote)
    BY <2>1 DEF Ahead, Idle
  <2> QED
    BY <2>1, <2>2, <2>3, <2>4 DEF TokenInv
<1>2. Inv /\ [Next]_vars => Inv'
  <2> SUFFICES ASSUME Inv, [Next]_vars  PROVE Inv'
    OBVIOUS
  <2>1. CASE Next
    <3>1. Step(r) /\ r \in Reader
      BY <2>1 DEF Next
    <3>2. kinds' = kinds
      BY <3>1 DEF Step, BeginLine, LineChar, LineNoRoom, LineCR, LineEnd, SwallowLF,
         LinePutBack, BeginToken, SkipBlank, TokenEnd, TokenCR, AfterCR, Unreads,
         TokenQuote, TokenChar, TokenFull, SkipDelimiter, SkipBlankAfter,
         ReturnLine, ReturnToken
    <3> QED
      BY <3>1, <3>2, TypesNext, TokenNext
  <2>2. CASE UNCHANGED vars
    BY <2>2 DEF vars, file, results, Types, FileOK, Fits, TokenInv, Ahead
  <2> QED
    BY <2>1, <2>2
<1>3. Inv => ReadsBack
  <2> SUFFICES ASSUME Inv  PROVE ReadsBack
    OBVIOUS
  <2>1. CASE kinds = {"token"}
    BY <2>1, TokenInvImplies
  <2>2. CASE kinds # {"token"}
    BY <2>2 DEF ReadsBack
  <2> QED
    BY <2>1, <2>2
<1> QED
  BY <1>1, <1>2, <1>3, PTL DEF Spec

=============================================================================
