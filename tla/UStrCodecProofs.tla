--------------------------- MODULE UStrCodecProofs --------------------------
(***************************************************************************)
(* What holds of the converters for every text and every capacity: the     *)
(* capacity contract; that no bytes whatever decode to a lone surrogate;   *)
(* that a finished decoding is the one Unicode recommends; and that what   *)
(* went out comes back.                                                    *)
(*                                                                         *)
(* The texts are read piece by piece, so the last two are shown along the  *)
(* text from its end: From(v, w, s)[i] is what becomes of the text from    *)
(* place i on, and a conversion under way has written what, joined to it,  *)
(* is the whole.                                                           *)
(***************************************************************************)
EXTENDS UStrCodec, SequenceTheorems, FiniteSetTheorems, WellFoundedInduction,
        TLAPS

Scalars == {c \in Nat : c < 55296 \/ Within(c, 57344, 17 * 65536 - 1)}

(* A lead byte asks for no more than four bytes. *)
LEMMA WantedRange ==
  ASSUME NEW b \in Byte PROVE Wanted(b) \in 0 .. 4
BY DEF Wanted, Within, Byte

(* The bytes that belong together are at least the lead, at most what the  *)
(* lead asks for, each of them follows, and the one after them does not.   *)
LEMMA FoundTogether ==
  ASSUME NEW s \in Seq(Byte), NEW i \in 1 .. Len(s), Wanted(s[i]) # 0
  PROVE  /\ Found(s, i) \in 1 .. Wanted(s[i])
         /\ \A j \in 1 .. Found(s, i) - 1 : Follows(s, i, j)
         /\ Found(s, i) = Wanted(s[i]) \/ ~ Follows(s, i, Found(s, i))
<1> DEFINE W == Wanted(s[i])
           P(m) == /\ \A j \in 1 .. m - 1 : Follows(s, i, j)
                   /\ m = W \/ ~ Follows(s, i, m)
<1>1. W \in 1 .. 4
  BY WantedRange
<1> HIDE DEF W
<1>2. \E m \in 1 .. W : P(m)
  <2>1. CASE W = 1 \/ ~ Follows(s, i, 1)
    BY <1>1, <2>1
  <2>2. CASE W # 1 /\ Follows(s, i, 1) /\ (W = 2 \/ ~ Follows(s, i, 2))
    BY <1>1, <2>2
  <2>3. CASE W \notin 1 .. 2 /\ Follows(s, i, 1) /\ Follows(s, i, 2)
             /\ (W = 3 \/ ~ Follows(s, i, 3))
    BY <1>1, <2>3
  <2>4. CASE W = 4 /\ Follows(s, i, 1) /\ Follows(s, i, 2) /\ Follows(s, i, 3)
    BY <1>1, <2>4
  <2>5. QED
    BY <1>1, <2>1, <2>2, <2>3, <2>4
<1>3. Found(s, i) = CHOOSE m \in 1 .. W : P(m)
  BY DEF Found, W
<1>4. Found(s, i) \in 1 .. W /\ P(Found(s, i))
  BY <1>2, <1>3
<1>5. QED
  BY <1>4 DEF W

(* A byte that follows is there and is a continuation; the second one is   *)
(* narrowed further.                                                       *)
LEMMA FollowerBounds ==
  ASSUME NEW s \in Seq(Byte), NEW i \in 1 .. Len(s), NEW j \in 1 .. 3,
         Follows(s, i, j)
  PROVE  /\ i + j \in 1 .. Len(s)
         /\ s[i + j] \in Nat /\ Within(s[i + j], 128, 191)
         /\ j = 1 => /\ s[i] = 224 => s[i + 1] >= 160
                     /\ s[i] = 237 => s[i + 1] <= 159
                     /\ s[i] = 240 => s[i + 1] >= 144
                     /\ s[i] = 244 => s[i + 1] <= 143
<1>1. i + j \in 1 .. Len(s)
  BY SMT DEF Follows
<1>2. s[i + j] \in Nat
  BY <1>1, SMT DEF Byte
<1>3. CASE j = 1
  BY <1>1, <1>2, <1>3, SMT DEF Follows, Lo2, Hi2, Within
<1>4. CASE j # 1
  BY <1>1, <1>2, <1>4, SMT DEF Follows, Within
<1>5. QED
  BY <1>3, <1>4, SMT

(* The values of two, three and four bytes. *)
LEMMA TwoBytes ==
  ASSUME NEW a \in Nat, NEW b \in Nat, Within(a, 194, 223), Within(b, 128, 191),
         NEW c, c = (a - 192) * 64 + b - 128
  PROVE  c \in Scalars /\ c < 65536
BY SMT DEF Within, Scalars

LEMMA ThreeBytes ==
  ASSUME NEW a \in Nat, NEW b \in Nat, NEW d \in Nat,
         Within(a, 224, 239), Within(b, 128, 191), Within(d, 128, 191),
         a = 224 => b >= 160, a = 237 => b <= 159,
         NEW c, c = (a - 224) * 4096 + (b - 128) * 64 + d - 128
  PROVE  c \in Scalars /\ c < 65536
BY SMT DEF Within, Scalars

LEMMA FourBytes ==
  ASSUME NEW a \in Nat, NEW b \in Nat, NEW d \in Nat, NEW e \in Nat,
         Within(a, 240, 244), Within(b, 128, 191), Within(d, 128, 191),
         Within(e, 128, 191), a = 240 => b >= 144, a = 244 => b <= 143,
         NEW c,
         c = (a - 240) * 262144 + (b - 128) * 4096 + (d - 128) * 64 + e - 128
  PROVE  c \in Scalars
BY SMT DEF Within, Scalars

(* A sequence that is whole stands for a scalar value: not for a           *)
(* surrogate, not for anything past U+10FFFF, and past U+FFFF only when it *)
(* has four bytes.                                                         *)
LEMMA WholeIsScalar ==
  ASSUME NEW s \in Seq(Byte), NEW i \in 1 .. Len(s), Wanted(s[i]) # 0,
         Found(s, i) = Wanted(s[i])
  PROVE  /\ Scalar(s, i) \in Scalars
         /\ i + Wanted(s[i]) - 1 <= Len(s)
         /\ Scalar(s, i) >= 65536 => Wanted(s[i]) = 4
<1> DEFINE W == Wanted(s[i])
<1>1. /\ s[i] \in Byte /\ s[i] \in Nat
      /\ \A j \in 1 .. W - 1 : Follows(s, i, j)
      /\ W \in 1 .. 4
  BY FoundTogether, WantedRange, SMT DEF Byte
<1>2. CASE W = 1
  BY <1>1, <1>2, SMT DEF Wanted, Scalar, Scalars, Within, Byte
<1>3. CASE W = 2
  <2>1. Follows(s, i, 1) /\ Within(s[i], 194, 223)
    BY <1>1, <1>3, SMTT(30) DEF Wanted, Within, Byte
  <2>2. /\ i + 1 \in 1 .. Len(s)
        /\ s[i + 1] \in Nat /\ Within(s[i + 1], 128, 191)
    BY <2>1, FollowerBounds
  <2>3. Scalar(s, i) = (s[i] - 192) * 64 + s[i + 1] - 128
    BY <1>3, SMT DEF Scalar
  <2>4. Scalar(s, i) \in Scalars /\ Scalar(s, i) < 65536
    BY <1>1, <2>1, <2>2, <2>3, TwoBytes, SMTT(30)
  <2>5. QED
    BY <1>3, <2>2, <2>4, SMT DEF Scalars
<1>4. CASE W = 3
  <2>1. Follows(s, i, 1) /\ Follows(s, i, 2) /\ Within(s[i], 224, 239)
    BY <1>1, <1>4, SMTT(30) DEF Wanted, Within, Byte
  <2>2. /\ s[i + 1] \in Nat /\ Within(s[i + 1], 128, 191)
        /\ s[i] = 224 => s[i + 1] >= 160
        /\ s[i] = 237 => s[i + 1] <= 159
    BY <2>1, FollowerBounds
  <2>3. /\ i + 2 \in 1 .. Len(s)
        /\ s[i + 2] \in Nat /\ Within(s[i + 2], 128, 191)
    BY <2>1, FollowerBounds
  <2>4. Scalar(s, i) = (s[i] - 224) * 4096 + (s[i + 1] - 128) * 64
                         + s[i + 2] - 128
    BY <1>4, SMT DEF Scalar
  <2>5. Scalar(s, i) \in Scalars /\ Scalar(s, i) < 65536
    <3> DEFINE a == s[i]
               b == s[i + 1]
               d == s[i + 2]
               c == Scalar(s, i)
    <3>1. /\ a \in Nat /\ Within(a, 224, 239)
          /\ b \in Nat /\ Within(b, 128, 191)
          /\ d \in Nat /\ Within(d, 128, 191)
          /\ a = 224 => b >= 160
          /\ a = 237 => b <= 159
          /\ c = (a - 224) * 4096 + (b - 128) * 64 + d - 128
      BY <1>1, <2>1, <2>2, <2>3, <2>4, SMT
    <3> HIDE DEF a, b, c, d
    <3>2. c \in Scalars /\ c < 65536
      BY <3>1, ThreeBytes, SMT
    <3>3. QED
      BY <3>2, SMT DEF c
  <2>6. QED
    BY <1>4, <2>3, <2>5, SMT DEF Scalars
<1>5. CASE W = 4
  <2>1. /\ Follows(s, i, 1) /\ Follows(s, i, 2) /\ Follows(s, i, 3)
        /\ Within(s[i], 240, 244)
    BY <1>1, <1>5, SMTT(30) DEF Wanted, Within, Byte
  <2>2. /\ s[i + 1] \in Nat /\ Within(s[i + 1], 128, 191)
        /\ s[i] = 240 => s[i + 1] >= 144
        /\ s[i] = 244 => s[i + 1] <= 143
    BY <2>1, FollowerBounds
  <2>3. s[i + 2] \in Nat /\ Within(s[i + 2], 128, 191)
    BY <2>1, FollowerBounds
  <2>4. /\ i + 3 \in 1 .. Len(s)
        /\ s[i + 3] \in Nat /\ Within(s[i + 3], 128, 191)
    BY <2>1, FollowerBounds
  <2>5. Scalar(s, i) = (s[i] - 240) * 262144 + (s[i + 1] - 128) * 4096
                         + (s[i + 2] - 128) * 64 + s[i + 3] - 128
    BY <1>5, SMT DEF Scalar
  <2>6. Scalar(s, i) \in Scalars
    <3> DEFINE a == s[i]
               b == s[i + 1]
               d == s[i + 2]
               e == s[i + 3]
               c == Scalar(s, i)
    <3>1. /\ a \in Nat /\ Within(a, 240, 244)
          /\ b \in Nat /\ Within(b, 128, 191)
          /\ d \in Nat /\ Within(d, 128, 191)
          /\ e \in Nat /\ Within(e, 128, 191)
          /\ a = 240 => b >= 144
          /\ a = 244 => b <= 143
          /\ c = (a - 240) * 262144 + (b - 128) * 4096 + (d - 128) * 64
                    + e - 128
      BY <1>1, <2>1, <2>2, <2>3, <2>4, <2>5, SMT
    <3> HIDE DEF a, b, c, d, e
    <3>2. c \in Scalars
      BY <3>1, FourBytes, SMT
    <3>3. QED
      BY <3>2, SMT DEF c
  <2>7. QED
    BY <1>5, <2>4, <2>6, SMT
<1>6. QED
  BY <1>1, <1>2, <1>3, <1>4, <1>5, SMT

(* A text that ends at a character boundary: one unit that is no           *)
(* surrogate, or a pair.                                                   *)
Character(t) ==
  \/ /\ t \in Seq(Unit) /\ Len(t) = 1
     /\ ~ IsHigh(t[1]) /\ ~ IsLow(t[1])
  \/ /\ t \in Seq(Unit) /\ Len(t) = 2
     /\ IsHigh(t[1]) /\ IsLow(t[2])

(* A scalar value becomes one unit or a pair. *)
LEMMA ScalarIsCharacter ==
  ASSUME NEW c \in Scalars
  PROVE  Character(AsUnits(c)) /\ (Len(AsUnits(c)) = 2 => c >= 65536)
<1>1. CASE c < 65536
  BY <1>1, SMT DEF AsUnits, Character, Unit, IsHigh, IsLow, Within, Scalars
<1>2. CASE c >= 65536
  <2> DEFINE h == 55296 + (c - 65536) \div 1024
             l == 56320 + ((c - 65536) % 1024)
  <2>1. c \in Nat /\ Within(c, 65536, 17 * 65536 - 1)
    BY <1>2, SMT DEF Scalars, Within, Within, Byte
  <2>2. /\ (c - 65536) \div 1024 \in Nat /\ (c - 65536) \div 1024 < 1024
        /\ ((c - 65536) % 1024) \in Nat /\ ((c - 65536) % 1024) < 1024
    BY <2>1, SMT DEF Within
  <2>3. /\ h \in Nat /\ Within(h, 55296, 56319)
        /\ l \in Nat /\ Within(l, 56320, 57343)
    BY <2>2, SMT DEF Within
  <2>4. AsUnits(c) = << h, l >>
    BY <2>1, SMT DEF AsUnits, Within
  <2> HIDE DEF h, l
  <2>5. QED
    BY <1>2, <2>3, <2>4, SMT DEF Character, Unit, IsHigh, IsLow, Within
<1>3. QED
  BY <1>1, <1>2, SMT DEF Scalars, Within, Byte

(* A scalar value becomes one to four bytes, four only past U+FFFF. *)
LEMMA ScalarBytes ==
  ASSUME NEW c \in Scalars
  PROVE  /\ AsBytes(c) \in Seq(Byte)
         /\ Len(AsBytes(c)) >= 1 /\ Len(AsBytes(c)) <= 4
         /\ Len(AsBytes(c)) = 4 => c >= 65536
<1>1. c \in Nat /\ c < 17 * 65536
  BY SMT DEF Scalars, Within
<1>2. CASE c < 128
  <2>1. AsBytes(c) = << c >> /\ c \in Byte
    BY <1>1, <1>2, SMT DEF AsBytes, Byte, Within
  <2>2. << c >> \in Seq(Byte) /\ Len(<< c >>) = 1
    BY <2>1, SMT
  <2>3. QED
    BY <2>1, <2>2, SMT
<1>3. CASE Within(c, 128, 2047)
  <2> DEFINE a == 192 + c \div 64
             b == 128 + (c % 64)
  <2>1. a \in Byte /\ b \in Byte
    BY <1>1, <1>3, SMT DEF Within, Byte
  <2>2. AsBytes(c) = << a, b >>
    BY <1>1, <1>3, SMT DEF AsBytes, Within
  <2> HIDE DEF a, b
  <2>3. QED
    BY <2>1, <2>2, SMT
<1>4. CASE Within(c, 2048, 65535)
  <2> DEFINE a == 224 + c \div 4096
             b == 128 + ((c \div 64) % 64)
             d == 128 + (c % 64)
  <2>1. a \in Byte /\ b \in Byte /\ d \in Byte
    BY <1>1, <1>4, SMT DEF Within, Byte
  <2>2. AsBytes(c) = << a, b, d >>
    BY <1>1, <1>4, SMT DEF AsBytes, Within
  <2> HIDE DEF a, b, d
  <2>3. QED
    BY <2>1, <2>2, SMT
<1>5. CASE c > 65535
  <2> DEFINE a == 240 + c \div 262144
             b == 128 + ((c \div 4096) % 64)
             d == 128 + ((c \div 64) % 64)
             e == 128 + (c % 64)
  <2>1. a \in Byte /\ b \in Byte /\ d \in Byte /\ e \in Byte
    BY <1>1, <1>5, SMT DEF Byte
  <2>2. AsBytes(c) = << a, b, d, e >>
    BY <1>1, <1>5, SMT DEF AsBytes, Within
  <2> HIDE DEF a, b, d, e
  <2>3. QED
    BY <1>1, <1>5, <2>1, <2>2, SMT
<1>6. QED
  BY <1>1, <1>2, <1>3, <1>4, <1>5, SMT DEF Within

(* The value of a pair. *)
PairIs(h, l, c) == c = 65536 + (h - 55296) * 1024 + l - 56320

LEMMA PairValue ==
  ASSUME NEW h \in Nat, NEW l \in Nat, Within(h, 55296, 56319),
         Within(l, 56320, 57343), NEW c, PairIs(h, l, c)
  PROVE  c \in Scalars
BY SMT DEF Within, Scalars, PairIs

(* What a unit stands for is a scalar value, past U+FFFF only for a pair. *)
LEMMA CodepointIsScalar ==
  ASSUME NEW s \in Seq(Unit), NEW i \in 1 .. Len(s)
  PROVE  /\ CodepointAt(s, i) \in Scalars
         /\ CodepointAt(s, i) >= 65536 => Paired(s, i)
<1>1. s[i] \in Nat /\ s[i] < 65536
  BY SMT DEF Unit
<1>2. CASE Paired(s, i)
  <2>1. s[i + 1] \in Nat
    BY <1>2, SMT DEF Paired, Unit
  <2>2. Within(s[i], 55296, 56319) /\ Within(s[i + 1], 56320, 57343)
    BY <1>2, SMT DEF Paired, IsHigh, IsLow
  <2>3. PairIs(s[i], s[i + 1], CodepointAt(s, i))
    BY <1>2, SMT DEF CodepointAt, PairIs
  <2>4. CodepointAt(s, i) \in Scalars
    BY ONLY <1>1, <2>1, <2>2, <2>3, PairValue
  <2>5. QED
    BY ONLY <1>2, <2>4
<1>3. CASE ~ Paired(s, i)
  BY <1>1, <1>3, SMT
  DEF CodepointAt, IsHigh, IsLow, Within, Replacement, Scalars
<1>4. QED
  BY <1>2, <1>3, SMT

(* U+FFFD is a character. *)
LEMMA ReplacementIsCharacter ==
  Character(<< Replacement >>) /\ Len(<< Replacement >>) = 1
BY SMT DEF Character, Replacement, Unit, IsHigh, IsLow, Within

(* No unit is both halves. *)
LEMMA HighIsNotLow ==
  ASSUME NEW u \in Unit PROVE ~ (IsHigh(u) /\ IsLow(u))
BY SMT DEF IsHigh, IsLow, Within, Unit

(* A character after a text without lone surrogates leaves none. *)
LEMMA CharacterAppended ==
  ASSUME NEW d \in Seq(Unit), NEW t, Character(t),
         \A i \in DOMAIN d : ~ Lone(d, i)
  PROVE  \A i \in DOMAIN (d \o t) : ~ Lone(d \o t, i)
<1> DEFINE n == Len(d)
           r == d \o t
<1>1. /\ t \in Seq(Unit) /\ Len(t) \in {1, 2}
      /\ Len(t) = 1 => ~ IsHigh(t[1]) /\ ~ IsLow(t[1])
      /\ Len(t) = 2 => IsHigh(t[1]) /\ IsLow(t[2])
  <2>1. CASE t \in Seq(Unit) /\ Len(t) = 1 /\ ~ IsHigh(t[1]) /\ ~ IsLow(t[1])
    BY <2>1, SMT
  <2>2. CASE t \in Seq(Unit) /\ Len(t) = 2 /\ IsHigh(t[1]) /\ IsLow(t[2])
    BY <2>2, SMT
  <2>3. QED
    BY <2>1, <2>2 DEF Character
<1>2. /\ n \in Nat /\ Len(r) = n + Len(t)
      /\ \A i \in 1 .. n : r[i] = d[i]
      /\ \A j \in 1 .. Len(t) : r[n + j] = t[j]
  BY <1>1, SMT
<1>3. SUFFICES ASSUME NEW i \in 1 .. Len(r) PROVE ~ Lone(r, i)
  BY <1>1, <1>2, SMT
<1>4. CASE i <= n
  <2>1. r[i] = d[i] /\ ~ Lone(d, i) /\ d[i] \in Unit
    BY <1>2, <1>3, <1>4, SMT
  <2>2. IsHigh(d[i]) => i < n /\ IsLow(d[i + 1])
    BY <2>1 DEF Lone
  <2>3. IsLow(d[i]) => i > 1 /\ IsHigh(d[i - 1])
    BY <2>1 DEF Lone
  <2>4. i < n => r[i + 1] = d[i + 1]
    BY <1>2, <1>3, SMT
  <2>5. i > 1 => r[i - 1] = d[i - 1]
    BY <1>2, <1>3, <1>4, SMT
  <2>6. i < n => i < Len(r)
    BY <1>1, <1>2, SMT
  <2> HIDE DEF r
  <2>7. QED
    BY <2>1, <2>2, <2>3, <2>4, <2>5, <2>6 DEF Lone
<1>5. CASE i = n + 1
  <2>1. r[i] = t[1] /\ t[1] \in Unit
    BY <1>1, <1>2, <1>5, SMT
  <2>2. Len(t) = 2 => i < Len(r) /\ r[i + 1] = t[2]
    BY <1>1, <1>2, <1>5, SMT
  <2> HIDE DEF r
  <2>3. CASE Len(t) = 1
    BY <1>1, <2>1, <2>3 DEF Lone
  <2>4. CASE Len(t) = 2
    BY <1>1, <2>1, <2>2, <2>4, HighIsNotLow DEF Lone
  <2>5. QED
    BY <1>1, <2>3, <2>4
<1>6. CASE i = n + 2
  <2>1. Len(t) = 2 /\ r[i] = t[2] /\ t[2] \in Unit
    BY <1>1, <1>2, <1>3, <1>6, SMT
  <2>2. i > 1 /\ r[i - 1] = t[1]
    BY <1>1, <1>2, <1>6, <2>1, SMT
  <2> HIDE DEF r
  <2>3. QED
    BY <1>1, <2>1, <2>2, HighIsNotLow DEF Lone
<1>7. QED
  BY <1>1, <1>2, <1>3, <1>4, <1>5, <1>6, SMTT(30)

(* How many elements there are after as many as fit were added. *)
LEMMA Filling ==
  ASSUME NEW n \in Nat, NEW c \in Nat, NEW l \in Nat,
         NEW d, d = IF n < c THEN n ELSE c,
         NEW k, k = IF n > c THEN 0 ELSE IF c - n < l THEN c - n ELSE l
  PROVE  d + k = IF n + l < c THEN n + l ELSE c
<1>1. CASE n > c
  BY <1>1, SMT
<1>2. CASE n <= c /\ c - n < l
  BY <1>2, SMT
<1>3. CASE n <= c /\ c - n >= l
  BY <1>3, SMT
<1>4. QED
  BY <1>1, <1>2, <1>3, SMT

(* What Emit does to the buffer: as much as there is room for. *)
LEMMA EmitFits ==
  ASSUME NEW S, NEW t \in Seq(S), dst \in Seq(S), count \in Nat, cap \in Nat,
         Len(dst) = IF count < cap THEN count ELSE cap,
         Emit(t)
  PROVE  /\ count' = count + Len(t) /\ count' \in Nat
         /\ dst' \in Seq(S)
         /\ Len(dst') = IF count' < cap THEN count' ELSE cap
         /\ count' <= cap => dst' = dst \o t /\ count <= cap
<1> DEFINE k == IF count > cap THEN 0
                ELSE IF cap - count < Len(t) THEN cap - count ELSE Len(t)
           p == SubSeq(t, 1, k)
<1>1. k \in 0 .. Len(t) /\ (count + Len(t) <= cap => k = Len(t))
  BY SMT
<1>2. count' = count + Len(t) /\ dst' = dst \o p
  BY DEF Emit
<1>3. p \in Seq(S) /\ Len(p) = k /\ (k = Len(t) => p = t)
  <2> HIDE DEF k
  <2>1. QED
    BY <1>1, SMT
<1>4. Len(dst') = Len(dst) + k /\ dst' \in Seq(S)
  <2>1. \A a, b \in Seq(S) : a \o b \in Seq(S) /\ Len(a \o b) = Len(a) + Len(b)
    BY SMT
  <2> HIDE DEF k, p
  <2>2. dst \o p \in Seq(S) /\ Len(dst \o p) = Len(dst) + k
    BY <1>3, <2>1
  <2>3. QED
    BY <1>2, <2>2
<1>5. count + Len(t) <= cap => dst' = dst \o t
  <2> HIDE DEF k, p
  <2>1. QED
    BY <1>1, <1>2, <1>3, SMT
<1>6. Len(dst) + k = IF count + Len(t) < cap THEN count + Len(t) ELSE cap
  <2> DEFINE l == Len(t)
             d == Len(dst)
  <2>1. /\ l \in Nat
        /\ d = IF count < cap THEN count ELSE cap
        /\ k = IF count > cap THEN 0 ELSE IF cap - count < l THEN cap - count ELSE l
    BY SMT
  <2> HIDE DEF l, d, k
  <2>2. d + k = IF count + l < cap THEN count + l ELSE cap
    BY <2>1, Filling
  <2>3. QED
    BY <2>2 DEF l, d
<1>7. count + Len(t) \in Nat /\ (count + Len(t) <= cap => count <= cap)
  BY SMT
<1> HIDE DEF k, p
<1>8. QED
  BY <1>2, <1>4, <1>5, <1>6, <1>7

-----------------------------------------------------------------------------
(* The invariant: nothing has to be added to the three parts, each iteration *)
(* of the loops keeps their conjunction.                                   *)
IInv == TypeOK /\ CapacityContract /\ NoLoneSurrogate

LEMMA CodecInit == Init => IInv
<1>1. SUFFICES ASSUME Init PROVE IInv
  OBVIOUS
<1>2. /\ way \in Ways /\ width \in Widths /\ pos = 1 /\ dst = << >>
      /\ count = 0 /\ cap \in Nat
  BY <1>1, CodecAssumption DEF Init, Widths
<1>3. src \in Seq(Reads(way))
  BY <1>1, <1>2, CodecAssumption DEF Init, Reads, Ways
<1>4. /\ pos \in 1 .. Len(src) + 1 /\ count \in Nat
      /\ dst \in Seq(Writes(way))
  BY <1>2, <1>3, SMT
<1>5. CapacityContract
  BY <1>2, SMT DEF CapacityContract, MostFor, Ways
<1>6. NoLoneSurrogate
  BY <1>2, SMT DEF NoLoneSurrogate
<1>7. QED
  BY <1>2, <1>3, <1>4, <1>5, <1>6 DEF IInv, TypeOK

(* What k elements can become is in proportion to k. *)
LEMMA MostForAdds ==
  ASSUME NEW w \in Ways, NEW n \in Nat, NEW l \in Nat, NEW p \in Nat,
         NEW k \in Nat, n <= MostFor(w, p - 1), l <= MostFor(w, k)
  PROVE  n + l <= MostFor(w, (p + k) - 1)
BY SMT DEF MostFor, Ways

(* An iteration of a converter: k elements are consumed, and what they     *)
(* become is emitted, which is in proportion to k and, where well-formed   *)
(* text is promised, a character.                                          *)
LEMMA Iteration ==
  ASSUME IInv, NEW k \in Nat, 1 <= k, pos + k - 1 <= Len(src),
         NEW t \in Seq(Writes(way)), Len(t) <= MostFor(way, k),
         way = "units" \/ (way = "narrowing" /\ width = 32) => Character(t),
         Emit(t), Consume(k)
  PROVE  IInv'
<1>1. /\ way \in Ways /\ width \in Widths
      /\ src \in Seq(Reads(way)) /\ dst \in Seq(Writes(way))
      /\ pos \in 1 .. Len(src) + 1 /\ count \in Nat /\ cap \in Nat
      /\ Len(dst) = IF count < cap THEN count ELSE cap
      /\ count <= MostFor(way, pos - 1)
  BY DEF IInv, TypeOK, CapacityContract
<1>2. /\ count' = count + Len(t) /\ count' \in Nat
      /\ dst' \in Seq(Writes(way))
      /\ Len(dst') = IF count' < cap THEN count' ELSE cap
      /\ count' <= cap => dst' = dst \o t /\ count <= cap
  BY <1>1, EmitFits
<1>3. /\ pos' = pos + k /\ way' = way /\ src' = src /\ cap' = cap
      /\ width' = width
  BY DEF Consume
<1>4. TypeOK'
  <2>1. pos + k \in 1 .. Len(src) + 1
    BY <1>1, SMT
  <2>2. Reads(way)' = Reads(way) /\ Writes(way)' = Writes(way)
    BY <1>3 DEF Reads, Writes
  <2>3. QED
    BY <1>1, <1>2, <1>3, <2>1, <2>2 DEF TypeOK
<1>5. CapacityContract'
  <2>1. Len(t) \in Nat /\ pos \in Nat
    BY <1>1, SMT
  <2>2. count + Len(t) <= MostFor(way, (pos + k) - 1)
    BY <1>1, <2>1, MostForAdds
  <2>3. QED
    BY <1>2, <1>3, <2>2 DEF CapacityContract
<1>6. NoLoneSurrogate'
  <2>1. SUFFICES ASSUME way = "units" \/ (way = "narrowing" /\ width = 32),
                        count' <= cap
                 PROVE  \A i \in DOMAIN dst' : ~ Lone(dst', i)
    BY <1>3 DEF NoLoneSurrogate
  <2>2. Character(t) /\ dst \in Seq(Unit)
    BY <1>1, <2>1 DEF Writes
  <2>3. \A i \in DOMAIN dst : ~ Lone(dst, i)
    BY <1>2, <2>1 DEF IInv, NoLoneSurrogate
  <2>4. dst' = dst \o t
    BY <1>2, <2>1
  <2>5. QED
    BY <2>2, <2>3, <2>4, CharacterAppended
<1>7. QED
  BY <1>4, <1>5, <1>6 DEF IInv

(* A character has one unit or two. *)
LEMMA CharacterLength ==
  ASSUME NEW t, Character(t) PROVE t \in Seq(Unit) /\ Len(t) \in {1, 2}
BY DEF Character

(* What any number of 32 bits becomes is a character. *)
LEMMA AnyIsCharacter ==
  ASSUME NEW c \in Nat PROVE Character(AsUnits(ScalarOf(c)))
<1>1. ScalarOf(c) \in Scalars
  BY SMT
  DEF ScalarOf, NoScalar, Scalars, Replacement, IsHigh, IsLow, Within
<1>2. QED
  BY <1>1, ScalarIsCharacter

LEMMA CodecStep == IInv /\ [Next]_vars => IInv'
<1>1. SUFFICES ASSUME IInv, [Next]_vars PROVE IInv'
  OBVIOUS
<1>2. /\ pos \in Nat /\ count \in Nat /\ cap \in Nat
      /\ way \in Ways /\ width \in Widths
      /\ src \in Seq(Reads(way)) /\ dst \in Seq(Writes(way))
      /\ pos <= Len(src) => pos \in 1 .. Len(src)
  BY <1>1, SMT DEF IInv, TypeOK
<1>3. CASE Malformed
  <2>1. /\ way = "units" /\ pos \in 1 .. Len(src)
        /\ Emit(<< Replacement >>) /\ Consume(1)
    BY <1>2, <1>3 DEF Malformed
  <2>2. /\ << Replacement >> \in Seq(Writes(way))
        /\ Len(<< Replacement >>) <= MostFor(way, 1)
    BY <2>1, SMT DEF Writes, MostFor, Unit, Replacement
  <2>3. 1 \in Nat /\ 1 <= 1 /\ pos + 1 - 1 <= Len(src)
    BY <2>1, SMT
  <2>4. QED
    BY <1>1, <2>1, <2>2, <2>3, Iteration, ReplacementIsCharacter
<1>4. CASE BrokenOff
  <2> DEFINE k == Found(src, pos)
  <2>1. /\ way = "units" /\ src \in Seq(Byte) /\ pos \in 1 .. Len(src)
        /\ Wanted(src[pos]) # 0 /\ k < Wanted(src[pos])
        /\ Emit(<< Replacement >>) /\ Consume(k)
    BY <1>2, <1>4 DEF BrokenOff, Reads
  <2>2. src[pos] \in Byte
    BY <2>1, SMT
  <2>3. Wanted(src[pos]) \in 0 .. 4
    BY <2>2, WantedRange
  <2>4. k \in 1 .. Wanted(src[pos]) /\ \A j \in 1 .. k - 1 : Follows(src, pos, j)
    BY <2>1, FoundTogether
  <2>5. k \in Nat /\ 1 <= k
    BY <2>3, <2>4, SMT
  <2> HIDE DEF k
  <2>6. pos + k - 1 <= Len(src)
    <3>1. CASE k = 1
      BY <2>1, <3>1, SMT
    <3>2. CASE k # 1
      <4>1. k - 1 \in 1 .. k - 1
        BY <2>5, <3>2, SMT
      <4>2. Follows(src, pos, k - 1)
        BY <2>4, <4>1
      <4>3. pos + (k - 1) <= Len(src)
        BY <4>2 DEF Follows
      <4>4. QED
        BY <2>1, <2>5, <4>3, SMT
    <3>3. QED
      BY <3>1, <3>2
  <2>7. /\ << Replacement >> \in Seq(Writes(way))
        /\ Len(<< Replacement >>) <= MostFor(way, k)
    BY <2>1, <2>5, SMT DEF Writes, MostFor, Unit, Replacement
  <2>8. QED
    BY <1>1, <2>1, <2>5, <2>6, <2>7, Iteration, ReplacementIsCharacter
<1>5. CASE Decode
  <2> DEFINE k == Wanted(src[pos])
             t == AsUnits(Scalar(src, pos))
  <2>1. /\ way = "units" /\ src \in Seq(Byte) /\ pos \in 1 .. Len(src)
        /\ k # 0 /\ Found(src, pos) = k
        /\ Emit(t) /\ Consume(k)
    BY <1>2, <1>5 DEF Decode, Reads
  <2>2. src[pos] \in Byte
    BY <2>1, SMT
  <2>3. k \in 1 .. 4
    BY <2>1, <2>2, WantedRange, SMT
  <2>4. /\ Scalar(src, pos) \in Scalars
        /\ pos + k - 1 <= Len(src)
        /\ Scalar(src, pos) >= 65536 => k = 4
    BY <2>1, WholeIsScalar, SMT
  <2>5. Character(t) /\ (Len(t) = 2 => Scalar(src, pos) >= 65536)
    BY <2>4, ScalarIsCharacter, SMT
  <2> HIDE DEF k, t
  <2>6. Len(t) <= k /\ k \in Nat /\ 1 <= k
    <3>1. Len(t) \in {1, 2}
      BY <2>5, CharacterLength
    <3>2. Len(t) = 2 => k = 4
      BY <2>4, <2>5
    <3>3. \A l \in {1, 2}, q \in 1 .. 4 : (l = 2 => q = 4) => l <= q
      BY SMT
    <3>4. Len(t) <= k
      BY <2>3, <3>1, <3>2, <3>3
    <3>5. QED
      BY <2>3, <3>4, SMT
  <2>7. t \in Seq(Writes(way)) /\ Len(t) <= MostFor(way, k)
    BY <2>1, <2>5, <2>6, CharacterLength DEF Writes, MostFor
  <2>8. QED
    BY <1>1, <2>1, <2>4, <2>5, <2>6, <2>7, Iteration
<1>6. CASE Encode
  <2> DEFINE t == AsBytes(CodepointAt(src, pos))
             k == IF Paired(src, pos) THEN 2 ELSE 1
  <2>1. /\ way = "bytes" /\ src \in Seq(Unit) /\ pos \in 1 .. Len(src)
        /\ Emit(t) /\ Consume(k)
    BY <1>2, <1>6 DEF Encode, Reads
  <2>2. /\ CodepointAt(src, pos) \in Scalars
        /\ CodepointAt(src, pos) >= 65536 => Paired(src, pos)
    BY <2>1, CodepointIsScalar, SMT
  <2>3. /\ t \in Seq(Byte) /\ Len(t) <= 4
        /\ Len(t) = 4 => CodepointAt(src, pos) >= 65536
    BY <2>2, ScalarBytes, SMT
  <2>4. /\ k \in {1, 2} /\ (Len(t) = 4 => k = 2)
        /\ pos + k - 1 <= Len(src)
    BY <2>1, <2>2, <2>3, SMT DEF Paired
  <2> HIDE DEF t, k
  <2>5. t \in Seq(Writes(way)) /\ Len(t) <= MostFor(way, k)
    <3>1. Writes(way) = Byte /\ MostFor(way, k) = 3 * k
      BY <2>1 DEF Writes, MostFor
    <3>2. Len(t) <= 3 * k
      <4> DEFINE l == Len(t)
      <4>1. l \in Nat /\ l <= 4 /\ (l = 4 => k = 2) /\ k \in {1, 2}
        BY <2>3, <2>4, SMT
      <4> HIDE DEF l
      <4>2. l <= 3 * k
        BY <4>1, SMT
      <4>3. QED
        BY <4>2 DEF l
    <3>3. QED
      BY <2>3, <3>1, <3>2
  <2>6. k \in Nat /\ 1 <= k
    BY <2>4
  <2>7. QED
    BY <1>1, <2>1, <2>4, <2>5, <2>6, Iteration
<1>7. CASE Widen
  <2> DEFINE t == AsWide(src, pos)
             k == IF width = 32 /\ Paired(src, pos) THEN 2 ELSE 1
  <2>1. /\ way = "widening" /\ src \in Seq(Unit) /\ pos \in 1 .. Len(src)
        /\ Emit(t) /\ Consume(k)
    BY <1>2, <1>7 DEF Widen, Reads
  <2>2. k \in {1, 2} /\ pos + k - 1 <= Len(src)
    BY <2>1, SMT DEF Paired
  <2>3. t \in Seq(WChar(width)) /\ Len(t) = 1
    <3>1. CASE width = 32
      <4>1. CodepointAt(src, pos) \in Nat
        BY <2>1, CodepointIsScalar DEF Scalars
      <4>2. t = << CodepointAt(src, pos) >> /\ WChar(width) = Nat
        BY <3>1 DEF AsWide, WChar
      <4>3. QED
        BY <4>1, <4>2, SMT
    <3>2. CASE width = 16
      <4>1. t = << src[pos] >> /\ WChar(width) = Unit
        BY <3>2 DEF AsWide, WChar
      <4>2. QED
        BY <2>1, <4>1, SMT
    <3>3. CASE width = 8
      <4> DEFINE c == IF src[pos] < 256 THEN src[pos] ELSE 63
      <4>1. t = << c >> /\ WChar(width) = Byte
        BY <3>3 DEF AsWide, WChar
      <4>2. c \in Byte
        BY <2>1, SMT DEF Unit, Byte
      <4>3. QED
        BY <4>1, <4>2, SMT
    <3>4. QED
      BY <1>2, <3>1, <3>2, <3>3 DEF Widths
  <2> HIDE DEF t, k
  <2>4. t \in Seq(Writes(way)) /\ Len(t) <= MostFor(way, k)
    <3>1. Writes(way) = WChar(width) /\ MostFor(way, k) = k
      BY <2>1 DEF Writes, MostFor
    <3>2. 1 <= k
      BY <2>2, SMT
    <3>3. QED
      BY <2>3, <3>1, <3>2
  <2>5. k \in Nat /\ 1 <= k
    BY <2>2
  <2>6. QED
    BY <1>1, <2>1, <2>2, <2>4, <2>5, Iteration
<1>8. CASE Narrow
  <2> DEFINE t == FromWide(src[pos])
  <2>1. /\ way = "narrowing" /\ pos \in 1 .. Len(src)
        /\ Emit(t) /\ Consume(1) /\ src \in Seq(WChar(width))
    BY <1>2, <1>8 DEF Narrow, Reads
  <2>2. t \in Seq(Unit) /\ Len(t) \in {1, 2} /\ (width = 32 => Character(t))
    <3>1. CASE width = 32
      <4>1. src[pos] \in Nat /\ t = AsUnits(ScalarOf(src[pos]))
        BY <2>1, <3>1, SMT DEF WChar, FromWide
      <4>2. QED
        BY <4>1, AnyIsCharacter, CharacterLength
    <3>2. CASE width \in {8, 16}
      <4>1. t = << src[pos] >> /\ width # 32
        BY <3>2, SMT DEF FromWide
      <4>2. src[pos] \in Unit
        BY <2>1, <3>2, SMT DEF WChar, Byte, Unit
      <4>3. QED
        BY <4>1, <4>2, SMT
    <3>3. QED
      BY <1>2, <3>1, <3>2 DEF Widths
  <2> HIDE DEF t
  <2>3. t \in Seq(Writes(way)) /\ Len(t) <= MostFor(way, 1)
    <3>1. Writes(way) = Unit /\ MostFor(way, 1) = 2 * 1
      BY <2>1 DEF Writes, MostFor
    <3>2. 1 <= 2 * 1 /\ 2 <= 2 * 1
      OBVIOUS
    <3>3. QED
      BY <2>2, <3>1, <3>2
  <2>4. 1 \in Nat /\ 1 <= 1 /\ pos + 1 - 1 <= Len(src)
    BY <2>1, SMT
  <2>5. QED
    BY <1>1, <2>1, <2>2, <2>3, <2>4, Iteration
<1>9. CASE Turn
  <2>1. /\ way' = Back(way) /\ width' = width
        /\ src' = dst /\ pos' = 1 /\ dst' = << >> /\ count' = 0
        /\ cap' = Ample
    BY <1>9 DEF Turn
  <2>2. Back(way) \in Ways
    BY <1>2 DEF Back, Ways
  <2>3. src' \in Seq(Reads(way)')
    <3>1. Reads(way)' = Writes(way)
      BY <1>2, <2>1 DEF Reads, Writes, Back, Ways
    <3>2. QED
      BY <1>2, <2>1, <3>1
  <2>4. 1 \in 1 .. Len(dst) + 1 /\ Ample \in Nat
    BY <1>2, CodecAssumption, SMT
  <2>5. \A S : << >> \in Seq(S)
    BY SMT
  <2>6. TypeOK'
    BY <1>2, <2>1, <2>2, <2>3, <2>4, <2>5 DEF TypeOK
  <2>7. CapacityContract'
    <3>1. Len(<< >>) = (IF 0 < Ample THEN 0 ELSE Ample)
          /\ \A w \in Ways : 0 <= MostFor(w, 1 - 1)
      BY <2>4, SMT DEF MostFor, Ways
    <3>2. QED
      BY <2>1, <2>2, <3>1 DEF CapacityContract
  <2>8. NoLoneSurrogate'
    BY <2>1, SMT DEF NoLoneSurrogate
  <2>9. QED
    BY <2>6, <2>7, <2>8 DEF IInv
<1>10. CASE UNCHANGED vars
  <2>1. Reads(way)' = Reads(way) /\ Writes(way)' = Writes(way)
    BY <1>10 DEF vars, Reads, Writes
  <2>2. QED
    BY <1>1, <1>10, <2>1 DEF vars, IInv, TypeOK, CapacityContract, NoLoneSurrogate
<1>11. QED
  BY <1>1, <1>3, <1>4, <1>5, <1>6, <1>7, <1>8, <1>9, <1>10 DEF Next

-----------------------------------------------------------------------------
(* Whatever is converted, into whatever room. *)
THEOREM CodecInvariance == Spec => []IInv
BY CodecInit, CodecStep, PTL DEF Spec

(* The buffers hold what their kind of text holds, and the converter stays *)
(* within the text it reads.                                               *)
THEOREM CodecTypes == Spec => []TypeOK
<1>1. IInv => TypeOK
  BY DEF IInv
<1>2. QED
  BY <1>1, CodecInvariance, PTL

(* Never more than the capacity is written, all that fits is, and the      *)
(* count stays in proportion to what was read.                             *)
THEOREM ContractKept == Spec => []CapacityContract
<1>1. IInv => CapacityContract
  BY DEF IInv
<1>2. QED
  BY <1>1, CodecInvariance, PTL

(* No bytes whatever, damaged or not, decode to a surrogate without its    *)
(* partner.                                                                *)
THEOREM DecodingIsWellFormed == Spec => []NoLoneSurrogate
<1>1. IInv => NoLoneSurrogate
  BY DEF IInv
<1>2. QED
  BY <1>1, CodecInvariance, PTL

-----------------------------------------------------------------------------
(* Recursion along a text *)

(* Induction down from n + 1 to 1: a set that holds k whenever it holds    *)
(* all that is above k holds every number.  The intervals 0 .. n + 1 - k   *)
(* of the numbers it misses would have a least one under inclusion.        *)
LEMMA DownTo ==
  ASSUME NEW n \in Nat, NEW G,
         \A k \in 1 .. n + 1 : (\A j \in k + 1 .. n + 1 : j \in G) => k \in G
  PROVE  \A k \in 1 .. n + 1 : k \in G
<1>. SUFFICES ASSUME NEW l \in 1 .. n + 1, l \notin G  PROVE FALSE
  OBVIOUS
<1>. DEFINE M  == {k \in 1 .. n + 1 : k \notin G}
            Up == {0 .. n + 1 - k : k \in M}
<1>1. Up \subseteq FiniteSubsetsOf(Nat)
  <2>. SUFFICES ASSUME NEW k \in M
                PROVE  0 .. n + 1 - k \in SUBSET Nat /\ IsFiniteSet(0 .. n + 1 - k)
    BY DEF FiniteSubsetsOf
  <2>1. n + 1 - k \in Int /\ 0 \in Int
    OBVIOUS
  <2>2. IsFiniteSet(0 .. n + 1 - k)
    BY <2>1, FS_Interval
  <2>. QED  BY <2>2
<1>2. Up # {}
  OBVIOUS
<1>3. PICK X \in Up : \A Y \in Up : ~ (<< Y, X >> \in StrictSubsetOrdering(Nat))
  BY <1>1, <1>2, WFMin, FS_StrictSubsetOrderingWellFounded
<1>4. PICK k \in M : X = 0 .. n + 1 - k
  OBVIOUS
<1>5. PICK j \in k + 1 .. n + 1 : j \notin G
  OBVIOUS
<1>6. j \in M /\ j > k
  BY <1>5
<1>7. /\ 0 .. n + 1 - j \subseteq 0 .. n + 1 - k
      /\ n + 1 - k \notin 0 .. n + 1 - j /\ n + 1 - k \in 0 .. n + 1 - k
  BY <1>6
<1>8. 0 .. n + 1 - j # 0 .. n + 1 - k
  BY <1>7
<1>9. 0 .. n + 1 - j \in SUBSET Nat /\ 0 .. n + 1 - k \in SUBSET Nat
  OBVIOUS
<1>10. << 0 .. n + 1 - j, 0 .. n + 1 - k >> \in StrictSubsetOrdering(Nat)
  BY <1>7, <1>8, <1>9 DEF StrictSubsetOrdering
<1>. QED  BY <1>3, <1>4, <1>6, <1>10

(* From each place i of a text of length n on, what the pieces P make up   *)
(* when they are read K[i] elements apart.                                 *)
IsTails(g, n, P, K) ==
  g = [i \in 1 .. n + 4 |-> IF i > n THEN << >> ELSE P[i] \o g[i + K[i]]]

Tails(n, P, K) == CHOOSE g : IsTails(g, n, P, K)

LEMMA TailsExist ==
  ASSUME NEW S, NEW n \in Nat, NEW P \in [1 .. n -> Seq(S)],
         NEW K \in [1 .. n -> 1 .. 4]
  PROVE  IsTails(Tails(n, P, K), n, P, K)
<1>. DEFINE Solves(k, g) ==
              /\ g = [i \in k .. n + 4 |-> g[i]]
              /\ \A i \in k .. n + 4 :
                   g[i] = IF i > n THEN << >> ELSE P[i] \o g[i + K[i]]
            G == {k \in 1 .. n + 1 : \E g : Solves(k, g)}
<1>1. ASSUME NEW k \in 1 .. n + 1, \A j \in k + 1 .. n + 1 : j \in G
      PROVE  k \in G
  <2>1. CASE k = n + 1
    <3>. DEFINE g == [i \in n + 1 .. n + 4 |-> << >>]
    <3>1. \A i \in n + 1 .. n + 4 : g[i] = << >> /\ i > n
      OBVIOUS
    <3>2. g = [i \in n + 1 .. n + 4 |-> g[i]]
      OBVIOUS
    <3>. HIDE DEF g
    <3>3. Solves(n + 1, g)
      BY <3>1, <3>2
    <3>. HIDE DEF Solves
    <3>. QED  BY <2>1, <3>3
  <2>2. CASE k # n + 1
    <3>1. k \in 1 .. n /\ k + 1 \in k + 1 .. n + 1
      BY <2>2
    <3>2. PICK g : Solves(k + 1, g)
      BY <1>1, <3>1
    <3>. DEFINE h == [i \in k .. n + 4 |-> IF i = k THEN P[k] \o g[k + K[k]] ELSE g[i]]
    <3>3. /\ k \in k .. n + 4 /\ K[k] \in 1 .. 4 /\ k + K[k] \in k + 1 .. n + 4
          /\ k + K[k] \in k .. n + 4 /\ k + K[k] # k
      BY <3>1
    <3>4. ASSUME NEW i \in k .. n + 4
          PROVE  h[i] = IF i > n THEN << >> ELSE P[i] \o h[i + K[i]]
      <4>1. CASE i = k
        <5>1. h[k] = P[k] \o g[k + K[k]]
          BY <3>3
        <5>2. h[k + K[k]] = g[k + K[k]]
          BY <3>3
        <5>3. ~ (k > n)
          BY <3>1
        <5>. HIDE DEF h
        <5>. QED  BY <4>1, <5>1, <5>2, <5>3
      <4>2. CASE i # k
        <5>1. i \in k + 1 .. n + 4
          BY <4>2
        <5>2. g[i] = IF i > n THEN << >> ELSE P[i] \o g[i + K[i]]
          BY <3>2, <5>1
        <5>3. h[i] = g[i]
          BY <4>2
        <5>4. CASE i > n
          BY <5>2, <5>3, <5>4
        <5>5. CASE ~ (i > n)
          <6>1. i \in 1 .. n
            BY <5>5
          <6>2. K[i] \in 1 .. 4
            BY <6>1
          <6>3. i + K[i] \in k .. n + 4 /\ i + K[i] # k
            BY <5>1, <6>1, <6>2
          <6>4. h[i + K[i]] = g[i + K[i]]
            BY <6>3
          <6>. QED  BY <5>2, <5>3, <5>5, <6>4
        <5>. QED  BY <5>4, <5>5
      <4>. QED  BY <4>1, <4>2
    <3>5. h = [i \in k .. n + 4 |-> h[i]]
      OBVIOUS
    <3>. HIDE DEF h
    <3>6. Solves(k, h)
      BY <3>4, <3>5
    <3>. HIDE DEF Solves
    <3>. QED  BY <3>6
  <2>. QED  BY <2>1, <2>2
<1>. HIDE DEF G
<1>2. 1 \in G
  <2>1. \A k \in 1 .. n + 1 : k \in G
    BY <1>1, DownTo
  <2>. QED  BY <2>1
<1>3. PICK g : Solves(1, g)
  BY <1>2 DEF G
<1>4. IsTails(g, n, P, K)
  BY <1>3 DEF IsTails
<1>. QED  BY <1>4 DEF Tails

(* The tails of a text are those of any longer text that ends with it.     *)
EndsWith(Q, L, m, n, P, K) == \A i \in 1 .. n : Q[m + i] = P[i] /\ L[m + i] = K[i]

PiecesOf(S, n, P, K) ==
  n \in Nat /\ P \in [1 .. n -> Seq(S)] /\ K \in [1 .. n -> 1 .. 4]

SameTails(g, h, S, m, n) ==
  \A i \in 1 .. n + 4 : g[i] \in Seq(S) /\ h[m + i] = g[i]

LEMMA TailsShift ==
  ASSUME NEW S, NEW n, NEW P, NEW K, PiecesOf(S, n, P, K),
         NEW m \in Nat, NEW l, l = m + n, NEW Q, NEW L, EndsWith(Q, L, m, n, P, K),
         NEW g, IsTails(g, n, P, K), NEW h, IsTails(h, l, Q, L)
  PROVE  SameTails(g, h, S, m, n)
<1>0. n \in Nat /\ P \in [1 .. n -> Seq(S)] /\ K \in [1 .. n -> 1 .. 4]
  BY DEF PiecesOf
<1>1. \A i \in 1 .. n + 4 : g[i] = IF i > n THEN << >> ELSE P[i] \o g[i + K[i]]
  BY DEF IsTails
<1>2. \A i \in 1 .. m + n + 4 : h[i] = IF i > m + n THEN << >> ELSE Q[i] \o h[i + L[i]]
  BY DEF IsTails
<1>3. ASSUME NEW i \in n + 1 .. n + 4
      PROVE  g[i] \in Seq(S) /\ h[m + i] = g[i]
  <2>1. i \in 1 .. n + 4 /\ i > n /\ m + i \in 1 .. m + n + 4 /\ m + i > m + n
    BY <1>0
  <2>2. g[i] = << >> /\ h[m + i] = << >>
    BY <1>1, <1>2, <2>1
  <2>. QED  BY <2>2, EmptySeq
<1>. DEFINE G == {k \in 1 .. n + 1 : g[k] \in Seq(S) /\ h[m + k] = g[k]}
<1>4. ASSUME NEW k \in 1 .. n + 1, \A j \in k + 1 .. n + 1 : j \in G
      PROVE  k \in G
  <2>1. CASE k = n + 1
    BY <1>0, <1>3, <2>1
  <2>2. CASE k # n + 1
    <3>1. k \in 1 .. n /\ k \in 1 .. n + 4 /\ ~ (k > n)
          /\ m + k \in 1 .. m + n + 4 /\ ~ (m + k > m + n)
      BY <1>0, <2>2
    <3>2. K[k] \in 1 .. 4 /\ P[k] \in Seq(S) /\ Q[m + k] = P[k] /\ L[m + k] = K[k]
      BY <1>0, <3>1 DEF EndsWith
    <3>. DEFINE r == k + K[k]
    <3>3. r \in k + 1 .. n + 4 /\ (m + k) + L[m + k] = m + r
      <4>1. k \in Nat /\ K[k] \in Nat /\ L[m + k] = K[k]
        BY <3>1, <3>2
      <4>2. (m + k) + K[k] = m + (k + K[k])
        BY <4>1
      <4>3. k + K[k] \in k + 1 .. n + 4
        BY <1>0, <3>1, <3>2
      <4>. QED  BY <4>1, <4>2, <4>3
    <3>4. g[r] \in Seq(S) /\ h[m + r] = g[r]
      <4>1. CASE r \in k + 1 .. n + 1
        BY <4>1, <1>4
      <4>2. CASE r \in n + 1 .. n + 4
        BY <4>2, <1>3
      <4>. QED  BY <1>0, <3>3, <4>1, <4>2
    <3>5. g[k] = P[k] \o g[r]
      BY <1>1, <3>1
    <3>6. h[m + k] = Q[m + k] \o h[(m + k) + L[m + k]]
      BY <1>2, <3>1
    <3>. HIDE DEF r
    <3>7. h[m + k] = P[k] \o g[r]
      BY <3>2, <3>3, <3>4, <3>6
    <3>8. P[k] \o g[r] \in Seq(S)
      BY <3>2, <3>4, ConcatProperties
    <3>. QED  BY <3>5, <3>7, <3>8
  <2>. QED  BY <2>1, <2>2
<1>. HIDE DEF G
<1>5. \A k \in 1 .. n + 1 : k \in G
  BY <1>0, <1>4, DownTo
<1>6. \A i \in 1 .. n + 4 : i \in 1 .. n + 1 \/ i \in n + 1 .. n + 4
  BY <1>0
<1>. QED  BY <1>3, <1>5, <1>6 DEF G, SameTails

LEMMA TailsUnique ==
  ASSUME NEW S, NEW n, NEW P, NEW K, PiecesOf(S, n, P, K),
         NEW g, IsTails(g, n, P, K), NEW h, IsTails(h, n, P, K)
  PROVE  g[1] = h[1] /\ \A i \in 1 .. n + 4 : g[i] \in Seq(S)
<1>1. n \in Nat
  BY DEF PiecesOf
<1>2. 0 \in Nat /\ n = 0 + n /\ EndsWith(P, K, 0, n, P, K)
  BY <1>1 DEF EndsWith
<1>3. SameTails(g, h, S, 0, n)
  BY <1>2, TailsShift
<1>. QED  BY <1>1, <1>3, 0 + 1 = 1, 1 \in 1 .. n + 4 DEF SameTails

AreTails(g, S, n, P, K) ==
  \A i \in 1 .. n + 4 :
    g[i] \in Seq(S) /\ g[i] = IF i > n THEN << >> ELSE P[i] \o g[i + K[i]]

LEMMA TailsAre ==
  ASSUME NEW S, NEW n, NEW P, NEW K, PiecesOf(S, n, P, K)
  PROVE  AreTails(Tails(n, P, K), S, n, P, K)
<1>. DEFINE g == Tails(n, P, K)
<1>1. IsTails(g, n, P, K)
  BY TailsExist DEF PiecesOf
<1>. HIDE DEF g
<1>2. \A i \in 1 .. n + 4 : g[i] \in Seq(S)
  BY <1>1, TailsUnique
<1>3. \A i \in 1 .. n + 4 : g[i] = IF i > n THEN << >> ELSE P[i] \o g[i + K[i]]
  BY <1>1 DEF IsTails
<1>. QED  BY <1>2, <1>3 DEF g, AreTails

-----------------------------------------------------------------------------
(* What Unicode asks for is what the decoder looks at *)

LEMMA BitsAre ==
  ASSUME NEW s, NEW i \in Int
  PROVE  LET a == LeadBits(s[i])
             b == a * 64 + s[i + 1] - 128
             c == b * 64 + s[i + 2] - 128
             d == c * 64 + s[i + 3] - 128
         IN  /\ Bits(s, i, 1) = a /\ Bits(s, i, 2) = b
             /\ Bits(s, i, 3) = c /\ Bits(s, i, 4) = d
<1>. DEFINE a == LeadBits(s[i])
            b == a * 64 + s[i + 1] - 128
            c == b * 64 + s[i + 2] - 128
            d == c * 64 + s[i + 3] - 128
            v(j) == IF j = 1 THEN a ELSE IF j = 2 THEN b ELSE IF j = 3 THEN c ELSE d
            Sat(g, m) == g = [j \in 1 .. m |-> IF j = 1 THEN LeadBits(s[i])
                                    ELSE g[j - 1] * 64 + s[i + j - 1] - 128]
<1>1. ASSUME NEW m \in 1 .. 4  PROVE Bits(s, i, m) = v(m)
  <2>. DEFINE h == [j \in 1 .. m |-> v(j)]
              f == CHOOSE g : Sat(g, m)
  <2>1. ASSUME NEW j \in 1 .. m, j # 1
        PROVE  v(j) = v(j - 1) * 64 + s[i + j - 1] - 128
    <3>. HIDE DEF a
    <3>1. j \in {2, 3, 4}
      BY <2>1
    <3>2. i + 2 - 1 = i + 1 /\ i + 3 - 1 = i + 2 /\ i + 4 - 1 = i + 3
      OBVIOUS
    <3>. QED  BY <3>1, <3>2
  <2>2. \A j \in 1 .. m : j # 1 => j - 1 \in 1 .. m
    OBVIOUS
  <2>3. v(1) = LeadBits(s[i])
    OBVIOUS
  <2>. HIDE DEF v
  <2>4. Sat(h, m)
    BY <2>1, <2>2, <2>3
  <2>. HIDE DEF h
  <2>5. Sat(f, m)
    <3>. HIDE DEF Sat
    <3>. QED  BY <2>4
  <2>. HIDE DEF f
  <2>6. f[1] = v(1)
    BY <2>3, <2>5
  <2>7. 2 <= m => f[2] = v(2)
    BY <2>1, <2>5, <2>6
  <2>8. 3 <= m => f[3] = v(3)
    BY <2>1, <2>5, <2>7
  <2>9. 4 <= m => f[4] = v(4)
    BY <2>1, <2>5, <2>8
  <2>10. m \in {1, 2, 3, 4} /\ f[m] = v(m)
    BY <2>6, <2>7, <2>8, <2>9
  <2>11. Bits(s, i, m) = f[m]
    BY DEF Bits, f
  <2>. QED  BY <2>10, <2>11
<1>2. v(1) = a /\ v(2) = b /\ v(3) = c /\ v(4) = d
  OBVIOUS
<1>3. 1 \in 1 .. 4 /\ 2 \in 1 .. 4 /\ 3 \in 1 .. 4 /\ 4 \in 1 .. 4
  OBVIOUS
<1>. HIDE DEF v, a, b, c, d
<1>4. Bits(s, i, 1) = a /\ Bits(s, i, 2) = b /\ Bits(s, i, 3) = c /\ Bits(s, i, 4) = d
  BY <1>1, <1>2, <1>3
<1>. QED  BY <1>4 DEF a, b, c, d

LEMMA Powers == 64 ^ 0 = 1 /\ 64 ^ 1 = 64 /\ 64 ^ 2 = 4096 /\ 64 ^ 3 = 262144
OBVIOUS

LEMMA FormIs ==
  ASSUME NEW b \in Byte
  PROVE  /\ FormOf(b) \in 0 .. 4 /\ (FormOf(b) # 0 => LeadBits(b) \in Int)
         /\ Wanted(b) # 0 => FormOf(b) = Wanted(b)
         /\ FormOf(b) = 1 => b < 128 /\ LeadBits(b) = b /\ Wanted(b) = 1
         /\ FormOf(b) = 2 => /\ b \in 192 .. 223 /\ LeadBits(b) = b - 192
                             /\ Wanted(b) = IF b >= 194 THEN 2 ELSE 0
         /\ FormOf(b) = 3 => b \in 224 .. 239 /\ LeadBits(b) = b - 224 /\ Wanted(b) = 3
         /\ FormOf(b) = 4 => /\ b \in 240 .. 247 /\ LeadBits(b) = b - 240
                             /\ Wanted(b) = IF b <= 244 THEN 4 ELSE 0
         /\ FormOf(b) = 0 => Wanted(b) = 0
<1>1. b \in Nat /\ b < 256
  BY DEF Byte
<1>2. CASE b < 128
  BY <1>1, <1>2 DEF FormOf, LeadBits, Wanted, Within
<1>3. CASE b \in 128 .. 191 \/ b \in 248 .. 255
  BY <1>1, <1>3 DEF FormOf, LeadBits, Wanted, Within
<1>4. CASE b \in 192 .. 223
  BY <1>1, <1>4 DEF FormOf, LeadBits, Wanted, Within
<1>5. CASE b \in 224 .. 239
  BY <1>1, <1>5 DEF FormOf, LeadBits, Wanted, Within
<1>6. CASE b \in 240 .. 247
  BY <1>1, <1>6 DEF FormOf, LeadBits, Wanted, Within
<1>7. b < 128 \/ (b \in 128 .. 191 \/ b \in 248 .. 255) \/ b \in 192 .. 223
      \/ b \in 224 .. 239 \/ b \in 240 .. 247
  BY <1>1
<1>. QED  BY <1>2, <1>3, <1>4, <1>5, <1>6, <1>7

(* The scalar values that a lead and its followers leave open: the second  *)
(* byte decides, and the lead alone of two bytes.                          *)
LEMMA OpenOne ==
  ASSUME NEW lo \in 0 .. 127, NEW hi
  PROVE  SomeScalar(1, lo, hi)
BY SMT DEF SomeScalar

LEMMA OpenTwo ==
  ASSUME NEW b \in 192 .. 223, NEW lo \in Int, NEW hi \in Int,
         (b - 192) * 64 <= lo, lo <= hi, hi <= (b - 192) * 64 + 63
  PROVE  SomeScalar(2, lo, hi) <=> b >= 194
BY SMT DEF SomeScalar

LEMMA SecondOfTwo ==
  ASSUME NEW b \in 192 .. 223, NEW c \in 128 .. 191
  PROVE  Within(c, Lo2(b), Hi2(b))
BY SMT DEF Within, Lo2, Hi2

LEMMA OpenThree ==
  ASSUME NEW b \in 224 .. 239, NEW c \in 128 .. 191, NEW lo \in Int, NEW hi \in Int,
         ((b - 224) * 64 + c - 128) * 64 <= lo, lo <= hi,
         hi <= ((b - 224) * 64 + c - 128) * 64 + 63
  PROVE  SomeScalar(3, lo, hi) <=> Within(c, Lo2(b), Hi2(b))
<1>. DEFINE u == (b - 224) * 64 + c - 128
<1>1. u \in Int /\ u * 64 <= lo /\ hi <= u * 64 + 63
  OBVIOUS
<1>2. Within(c, Lo2(b), Hi2(b)) <=> u >= 32 /\ ~ (u >= 864 /\ u <= 895) /\ u < 1024
  BY SMT DEF Within, Lo2, Hi2
<1>. HIDE DEF u
<1>3. SomeScalar(3, lo, hi) <=> u >= 32 /\ ~ (u >= 864 /\ u <= 895) /\ u < 1024
  BY <1>1, SMT DEF SomeScalar
<1>. QED  BY <1>2, <1>3

LEMMA OpenFour ==
  ASSUME NEW u \in Int, NEW lo \in Int, NEW hi \in Int,
         u * 4096 <= lo, lo <= hi, hi <= u * 4096 + 4095
  PROVE  SomeScalar(4, lo, hi) <=> u >= 16 /\ u < 272
BY SMT DEF SomeScalar

LEMMA SecondOfFour ==
  ASSUME NEW b \in 240 .. 247, NEW c \in 128 .. 191
  PROVE  (b <= 244 /\ Within(c, Lo2(b), Hi2(b)))
            <=> (b - 240) * 64 + c - 128 >= 16 /\ (b - 240) * 64 + c - 128 < 272
BY SMT DEF Within, Lo2, Hi2

LEMMA OpenLead ==
  ASSUME NEW b \in Byte, NEW lo \in Int, NEW hi \in Int
  PROVE  /\ FormOf(b) = 3 /\ lo = (b - 224) * 4096 /\ hi = (b - 224 + 1) * 4096 - 1
              => SomeScalar(3, lo, hi)
         /\ FormOf(b) = 4 /\ lo = (b - 240) * 262144 /\ hi = (b - 240 + 1) * 262144 - 1
              => (SomeScalar(4, lo, hi) <=> b <= 244)
<1>1. /\ FormOf(b) = 3 => b \in 224 .. 239
      /\ FormOf(b) = 4 => b \in 240 .. 247
  BY FormIs
<1>2. b \in 224 .. 239 /\ lo = (b - 224) * 4096 /\ hi = (b - 224 + 1) * 4096 - 1
        => SomeScalar(3, lo, hi)
  BY SMT DEF SomeScalar
<1>3. b \in 240 .. 247 /\ lo = (b - 240) * 262144 /\ hi = (b - 240 + 1) * 262144 - 1
        => (SomeScalar(4, lo, hi) <=> b <= 244)
  BY SMT DEF SomeScalar
<1>. QED  BY <1>1, <1>2, <1>3

LEMMA Continues ==
  ASSUME NEW x
  PROVE  /\ x \in Nat /\ Within(x, 128, 191) => x \in 128 .. 191
         /\ x \in 128 .. 191 => Within(x, 128, 191)
BY DEF Within

(* The first m bytes of a sequence begin a well-formed one just when the   *)
(* lead asks for as many and the others follow it.                         *)
LEMMA BeginsIs ==
  ASSUME NEW s \in Seq(Byte), NEW i \in 1 .. Len(s), NEW m \in 1 .. 4
  PROVE  Begins(s, i, m) <=> /\ m <= Wanted(s[i])
                             /\ \A j \in 1 .. m - 1 : Follows(s, i, j)
<1>. DEFINE b == s[i]
            k == FormOf(b)
<1>1. b \in Byte /\ b \in Nat /\ b < 256 /\ i \in Int
  BY DEF Byte
<1>2. k \in 0 .. 4
  BY <1>1, FormIs
<1>3. ASSUME NEW j \in 1 .. 3, i + j <= Len(s)
      PROVE  s[i + j] \in Nat /\ s[i + j] < 256
  BY <1>3 DEF Byte
<1>4. CASE ~ (m <= k)
  <2>1. ~ Begins(s, i, m)
    BY <1>4 DEF Begins
  <2>2. Wanted(b) <= k
    BY <1>1, <1>2, FormIs
  <2>. QED  BY <1>1, <1>2, <1>4, <2>1, <2>2, WantedRange
<1>5. CASE m <= k
  <2>. DEFINE span == 64 ^ (k - m)
              B    == Bits(s, i, m)
              There == i + m - 1 <= Len(s) /\ \A j \in 1 .. m - 1 : s[i + j] \in 128 .. 191
  <2>1. Begins(s, i, m) <=> There /\ SomeScalar(k, B * span, (B + 1) * span - 1)
    BY <1>5 DEF Begins
  <2>2. There \/ ~ \A j \in 1 .. m - 1 : Follows(s, i, j)
    <3>. SUFFICES ASSUME \A j \in 1 .. m - 1 : Follows(s, i, j)  PROVE There
      OBVIOUS
    <3>1. ASSUME NEW j \in 1 .. m - 1  PROVE i + j <= Len(s) /\ s[i + j] \in 128 .. 191
      <4>1. j \in 1 .. 3 /\ Follows(s, i, j)
        BY <3>1
      <4>2. i + j \in 1 .. Len(s) /\ s[i + j] \in Nat /\ Within(s[i + j], 128, 191)
        BY <4>1, FollowerBounds
      <4>. QED  BY <4>2, Continues
    <3>2. i + m - 1 <= Len(s)
      <4>1. CASE m = 1
        BY <4>1
      <4>2. CASE m # 1
        <5>1. m - 1 \in 1 .. m - 1
          BY <4>2
        <5>. QED  BY <3>1, <5>1
      <4>. QED  BY <4>1, <4>2
    <3>. QED  BY <3>1, <3>2
  <2>3. ASSUME There
        PROVE  (m <= Wanted(b) /\ \A j \in 1 .. m - 1 : Follows(s, i, j))
                 <=> SomeScalar(k, B * span, (B + 1) * span - 1)
    <3>. DEFINE x == LeadBits(b)
                c == s[i + 1]
                d == s[i + 2]
                e == s[i + 3]
                w == Wanted(b)
    <3>1. /\ m >= 2 => c \in 128 .. 191 /\ i + 1 <= Len(s)
          /\ m >= 3 => d \in 128 .. 191 /\ i + 2 <= Len(s)
          /\ m >= 4 => e \in 128 .. 191 /\ i + 3 <= Len(s)
      <4>. HIDE DEF b, k
      <4>1. There
        BY <2>3
      <4>2. /\ m >= 2 => 1 \in 1 .. m - 1
            /\ m >= 3 => 2 \in 1 .. m - 1
            /\ m >= 4 => 3 \in 1 .. m - 1
        OBVIOUS
      <4>. QED  BY <4>1, <4>2, <1>1
    <3>2. (\A j \in 1 .. m - 1 : Follows(s, i, j))
            <=> (m >= 2 => Within(c, Lo2(b), Hi2(b)))
      <4>1. m >= 2 => (Follows(s, i, 1) <=> Within(c, Lo2(b), Hi2(b)))
        BY <3>1 DEF Follows
      <4>2. m >= 3 => Follows(s, i, 2)
        <5>1. m >= 3 => i + 2 <= Len(s) /\ Within(s[i + 2], 128, 191)
          BY <3>1, Continues
        <5>. QED  BY <5>1, 2 # 1 DEF Follows
      <4>3. m >= 4 => Follows(s, i, 3)
        <5>1. m >= 4 => i + 3 <= Len(s) /\ Within(s[i + 3], 128, 191)
          BY <3>1, Continues
        <5>. QED  BY <5>1, 3 # 1 DEF Follows
      <4>. HIDE DEF b, c, d, e, k
      <4>4. \A j \in 1 .. m - 1 : j = 1 \/ (j = 2 /\ m >= 3) \/ (j = 3 /\ m >= 4)
        OBVIOUS
      <4>5. m >= 2 => 1 \in 1 .. m - 1
        OBVIOUS
      <4>. QED  BY <4>1, <4>2, <4>3, <4>4, <4>5
    <3>3. /\ m = 1 => B = x
          /\ m = 2 => B = x * 64 + c - 128
          /\ m = 3 => B = (x * 64 + c - 128) * 64 + d - 128
          /\ m = 4 => B = ((x * 64 + c - 128) * 64 + d - 128) * 64 + e - 128
      <4>. HIDE DEF k
      <4>. QED  BY <1>1, BitsAre
    <3>4. /\ b \in Nat /\ b < 256 /\ x \in Int
          /\ w # 0 => k = w
          /\ k = 1 => b < 128 /\ x = b /\ w = 1
          /\ k = 2 => b \in 192 .. 223 /\ x = b - 192 /\ w = IF b >= 194 THEN 2 ELSE 0
          /\ k = 3 => b \in 224 .. 239 /\ x = b - 224 /\ w = 3
          /\ k = 4 => b \in 240 .. 247 /\ x = b - 240 /\ w = IF b <= 244 THEN 4 ELSE 0
      <4>1. k # 0
        BY <1>2, <1>5
      <4>. HIDE DEF b
      <4>. QED  BY <4>1, <1>1, FormIs
    <3>5. /\ k - m = 0 => span = 1
          /\ k - m = 1 => span = 64
          /\ k - m = 2 => span = 4096
          /\ k - m = 3 => span = 262144
      <4>. HIDE DEF k
      <4>1. /\ k - m = 0 => span = 64 ^ 0
            /\ k - m = 1 => span = 64 ^ 1
            /\ k - m = 2 => span = 64 ^ 2
            /\ k - m = 3 => span = 64 ^ 3
        OBVIOUS
      <4>. HIDE DEF span
      <4>. QED  BY <4>1, Powers, SMT
    <3>. DEFINE lo == B * span
                hi == (B + 1) * span - 1
    <3>6. /\ k - m = 0 => lo = B * 1 /\ hi = (B + 1) * 1 - 1
          /\ k - m = 1 => lo = B * 64 /\ hi = (B + 1) * 64 - 1
          /\ k - m = 2 => lo = B * 4096 /\ hi = (B + 1) * 4096 - 1
          /\ k - m = 3 => lo = B * 262144 /\ hi = (B + 1) * 262144 - 1
      <4>. HIDE DEF span, B, k
      <4>1. ASSUME NEW v, span = v  PROVE lo = B * v /\ hi = (B + 1) * v - 1
        BY <4>1
      <4>. HIDE DEF lo, hi
      <4>. QED  BY <3>5, <4>1, SMT
    <3>. HIDE DEF b, k, x, c, d, e, w, B, span, There, lo, hi
    <3>7. (m <= w /\ (m >= 2 => Within(c, Lo2(b), Hi2(b)))) <=> SomeScalar(k, lo, hi)
      <4>1. CASE k = 1
        <5>1. m = 1 /\ k - m = 0 /\ B = b /\ b \in 0 .. 127 /\ w = 1
          BY ONLY <1>5, <4>1, <3>3, <3>4, m \in 1 .. 4, SMT
        <5>2. lo = b /\ hi = b
          BY ONLY <5>1, <3>6, SMT
        <5>3. lo \in 0 .. 127
          BY ONLY <5>1, <5>2, SMT
        <5>4. SomeScalar(1, lo, hi)
          BY ONLY <5>3, OpenOne
        <5>. QED  BY ONLY <4>1, <5>1, <5>4, SMT
      <4>2. CASE k = 2
        <5>1. /\ b \in 192 .. 223 /\ lo \in Int /\ hi \in Int
              /\ (b - 192) * 64 <= lo /\ lo <= hi /\ hi <= (b - 192) * 64 + 63
          <6>1. b \in 192 .. 223 /\ x = b - 192
            BY <4>2, <3>4
          <6>2. CASE m = 1
            <7>1. k - m = 1 /\ B = b - 192
              BY ONLY <6>1, <6>2, <4>2, <3>3, SMT
            <7>2. lo = (b - 192) * 64 /\ hi = (b - 192 + 1) * 64 - 1
              BY ONLY <7>1, <3>6, SMT
            <7>. QED  BY ONLY <6>1, <7>2, SMT
          <6>3. CASE m = 2
            <7>1. k - m = 0 /\ B = (b - 192) * 64 + c - 128 /\ c \in 128 .. 191
              BY ONLY <6>1, <6>3, <4>2, <3>1, <3>3, SMT
            <7>2. lo = B /\ hi = B
              BY ONLY <7>1, <6>1, <3>6, SMT
            <7>. QED  BY ONLY <6>1, <7>1, <7>2, SMT
          <6>4. m \in {1, 2}
            BY ONLY <1>5, <4>2, m \in 1 .. 4, SMT
          <6>. QED  BY <6>2, <6>3, <6>4
        <5>2. SomeScalar(2, lo, hi) <=> b >= 194
          BY <5>1, OpenTwo
        <5>3. m \in {1, 2} /\ (m = 2 => Within(c, Lo2(b), Hi2(b)))
          <6>1. m \in {1, 2}
            BY ONLY <1>5, <4>2, m \in 1 .. 4, SMT
          <6>2. m = 2 => c \in 128 .. 191
            BY ONLY <3>1, SMT
          <6>3. b \in 192 .. 223
            BY ONLY <5>1
          <6>4. c \in 128 .. 191 => Within(c, Lo2(b), Hi2(b))
            BY ONLY <6>3, SecondOfTwo
          <6>. QED  BY ONLY <6>1, <6>2, <6>4
        <5>. QED  BY <4>2, <5>1, <5>2, <5>3, <3>4, SMT
      <4>3. CASE k = 3 /\ m = 1
        <5>1. lo \in Int /\ hi \in Int /\ lo = (b - 224) * 4096
              /\ hi = (b - 224 + 1) * 4096 - 1 /\ w = 3
          BY <4>3, <3>3, <3>4, <3>6, SMT
        <5>2. SomeScalar(3, lo, hi)
          BY <1>1, <4>3, <5>1, OpenLead DEF k
        <5>. QED  BY <4>3, <5>1, <5>2
      <4>4. CASE k = 3 /\ m # 1
        <5>1. /\ b \in 224 .. 239 /\ c \in 128 .. 191 /\ lo \in Int /\ hi \in Int
              /\ ((b - 224) * 64 + c - 128) * 64 <= lo /\ lo <= hi
              /\ hi <= ((b - 224) * 64 + c - 128) * 64 + 63
          <6>1. b \in 224 .. 239 /\ x = b - 224
            BY <4>4, <3>4
          <6>2. CASE m = 2
            <7>1. k - m = 1 /\ B = (b - 224) * 64 + c - 128
              BY ONLY <6>1, <6>2, <4>4, <3>3, SMT
            <7>2. c \in 128 .. 191
              BY ONLY <6>2, <3>1, SMT
            <7>3. lo = B * 64 /\ hi = (B + 1) * 64 - 1
              BY ONLY <7>1, <3>6, SMT
            <7>. QED  BY ONLY <6>1, <7>1, <7>2, <7>3, SMT
          <6>3. CASE m = 3
            <7>1. k - m = 0 /\ B = ((b - 224) * 64 + c - 128) * 64 + d - 128
              BY ONLY <6>1, <6>3, <4>4, <3>3, SMT
            <7>2. c \in 128 .. 191 /\ d \in 128 .. 191
              BY ONLY <6>3, <3>1, SMT
            <7>3. B \in Int
              BY ONLY <6>1, <7>1, <7>2, SMT
            <7>4. lo = B /\ hi = B
              BY ONLY <7>1, <7>3, <3>6, SMT
            <7>. QED  BY ONLY <6>1, <7>1, <7>2, <7>4, SMT
          <6>4. m \in 2 .. 3
            BY ONLY <1>5, <4>4, m \in 1 .. 4, SMT
          <6>. QED  BY ONLY <6>2, <6>3, <6>4, SMT
        <5>2. SomeScalar(3, lo, hi) <=> Within(c, Lo2(b), Hi2(b))
          BY <5>1, OpenThree
        <5>. QED  BY <1>5, <4>4, <5>2, <3>4
      <4>5. CASE k = 4 /\ m = 1
        <5>1. lo \in Int /\ hi \in Int /\ lo = (b - 240) * 262144
              /\ hi = (b - 240 + 1) * 262144 - 1
          BY <4>5, <3>3, <3>4, <3>6, SMT
        <5>2. SomeScalar(4, lo, hi) <=> b <= 244
          BY <1>1, <4>5, <5>1, OpenLead DEF k
        <5>. QED  BY <4>5, <5>2, <3>4
      <4>6. CASE k = 4 /\ m # 1
        <5>1. /\ b \in 240 .. 247 /\ c \in 128 .. 191 /\ lo \in Int /\ hi \in Int
              /\ ((b - 240) * 64 + c - 128) * 4096 <= lo /\ lo <= hi
              /\ hi <= ((b - 240) * 64 + c - 128) * 4096 + 4095
          <6>1. b \in 240 .. 247 /\ x = b - 240
            BY <4>6, <3>4
          <6>2. CASE m = 2
            <7>1. k - m = 2 /\ B = (b - 240) * 64 + c - 128
              BY ONLY <6>1, <6>2, <4>6, <3>3, SMT
            <7>2. c \in 128 .. 191
              BY ONLY <6>2, <3>1, SMT
            <7>3. lo = B * 4096 /\ hi = (B + 1) * 4096 - 1
              BY ONLY <7>1, <3>6, SMT
            <7>. QED  BY ONLY <6>1, <7>1, <7>2, <7>3, SMT
          <6>3. CASE m = 3
            <7>1. k - m = 1 /\ B = ((b - 240) * 64 + c - 128) * 64 + d - 128
              BY ONLY <6>1, <6>3, <4>6, <3>3, SMT
            <7>2. c \in 128 .. 191 /\ d \in 128 .. 191
              BY ONLY <6>3, <3>1, SMT
            <7>3. lo = B * 64 /\ hi = (B + 1) * 64 - 1
              BY ONLY <7>1, <3>6, SMT
            <7>. QED  BY ONLY <6>1, <7>1, <7>2, <7>3, SMT
          <6>4. CASE m = 4
            <7>1. k - m = 0 /\ B = (((b - 240) * 64 + c - 128) * 64 + d - 128) * 64 + e - 128
              BY ONLY <6>1, <6>4, <4>6, <3>3, SMT
            <7>2. c \in 128 .. 191 /\ d \in 128 .. 191 /\ e \in 128 .. 191
              BY ONLY <6>4, <3>1, SMT
            <7>3. B \in Int
              BY ONLY <6>1, <7>1, <7>2, SMT
            <7>4. lo = B /\ hi = B
              BY ONLY <7>1, <7>3, <3>6, SMT
            <7>. QED  BY ONLY <6>1, <7>1, <7>2, <7>4, SMT
          <6>5. m \in 2 .. 4
            BY ONLY <1>5, <4>6, m \in 1 .. 4, SMT
          <6>. QED  BY ONLY <6>2, <6>3, <6>4, <6>5, SMT
        <5>2. SomeScalar(4, lo, hi) <=> b <= 244 /\ Within(c, Lo2(b), Hi2(b))
          <6>. DEFINE u == (b - 240) * 64 + c - 128
          <6>1. u \in Int
            BY ONLY <5>1, SMT
          <6>2. (b <= 244 /\ Within(c, Lo2(b), Hi2(b))) <=> u >= 16 /\ u < 272
            <7>1. b \in 240 .. 247
              BY ONLY <5>1
            <7>2. c \in 128 .. 191
              BY ONLY <5>1
            <7>. QED  BY ONLY <7>1, <7>2, SecondOfFour, ZenonT(30)
          <6>3. u * 4096 <= lo /\ lo <= hi /\ hi <= u * 4096 + 4095
            BY <5>1
          <6>. HIDE DEF u
          <6>4. SomeScalar(4, lo, hi) <=> u >= 16 /\ u < 272
            BY ONLY <5>1, <6>1, <6>3, OpenFour, SMT
          <6>. QED  BY <6>2, <6>4
        <5>. QED  BY <1>5, <4>6, <5>2, <3>4
      <4>. QED  BY <1>2, <1>5, <4>1, <4>2, <4>3, <4>4, <4>5, <4>6
    <3>8. (m <= w /\ \A j \in 1 .. m - 1 : Follows(s, i, j)) <=> SomeScalar(k, lo, hi)
      BY <3>2, <3>7
    <3>. QED  BY <3>8 DEF lo, hi, w
  <2>. QED  BY <2>1, <2>2, <2>3
<1>. QED  BY <1>4, <1>5

(* The value that the loop computes is the value of the bits.              *)
LEMMA ScalarIs ==
  ASSUME NEW s \in Seq(Byte), NEW i \in 1 .. Len(s), Wanted(s[i]) # 0,
         Found(s, i) = Wanted(s[i])
  PROVE  Bits(s, i, Found(s, i)) = Scalar(s, i)
<1>. DEFINE b == s[i]
            w == Wanted(b)
            c == s[i + 1]
            d == s[i + 2]
            e == s[i + 3]
            x == LeadBits(b)
<1>1. b \in Byte /\ b \in Nat /\ i \in Int
  BY DEF Byte
<1>2. w \in 1 .. 4
  BY <1>1, WantedRange
<1>3. /\ w >= 2 => c \in Nat
      /\ w >= 3 => d \in Nat
      /\ w >= 4 => e \in Nat
  <2>1. \A j \in 1 .. w - 1 : Follows(s, i, j)
    BY FoundTogether
  <2>2. \A j \in 1 .. w - 1 : j \in 1 .. 3
    <3>. HIDE DEF w
    <3>. QED  BY <1>2
  <2>3. \A j \in 1 .. w - 1 : s[i + j] \in Nat
    BY <2>1, <2>2, FollowerBounds
  <2>4. /\ w >= 2 => 1 \in 1 .. w - 1
        /\ w >= 3 => 2 \in 1 .. w - 1
        /\ w >= 4 => 3 \in 1 .. w - 1
    <3>. HIDE DEF w
    <3>. QED  BY <1>2
  <2>. HIDE DEF w
  <2>. QED  BY <2>3, <2>4
<1>4. /\ w = 1 => x = b
      /\ w = 2 => x = b - 192
      /\ w = 3 => x = b - 224
      /\ w = 4 => x = b - 240
  <2>. HIDE DEF b
  <2>. QED  BY <1>1, <1>2, FormIs
<1>5. /\ Bits(s, i, 1) = x
      /\ Bits(s, i, 2) = x * 64 + c - 128
      /\ Bits(s, i, 3) = (x * 64 + c - 128) * 64 + d - 128
      /\ Bits(s, i, 4) = ((x * 64 + c - 128) * 64 + d - 128) * 64 + e - 128
  BY <1>1, BitsAre
<1>6. /\ w = 1 => Scalar(s, i) = b
      /\ w = 2 => Scalar(s, i) = (b - 192) * 64 + c - 128
      /\ w = 3 => Scalar(s, i) = (b - 224) * 4096 + (c - 128) * 64 + d - 128
      /\ w = 4 => Scalar(s, i) = (b - 240) * 262144 + (c - 128) * 4096
                                   + (d - 128) * 64 + e - 128
  <2>1. CASE w = 1
    BY <2>1 DEF Scalar
  <2>2. CASE w = 2
    BY <2>2 DEF Scalar
  <2>3. CASE w = 3
    BY <2>3 DEF Scalar
  <2>4. CASE w = 4
    BY <2>4, SMT DEF Scalar
  <2>. HIDE DEF w, b, c, d, e
  <2>. QED  BY ONLY <1>2, <2>1, <2>2, <2>3, <2>4, SMT
<1>7. Found(s, i) = w
  OBVIOUS
<1>. HIDE DEF b, w, c, d, e, x
<1>8. CASE w = 1
  BY ONLY <1>4, <1>5, <1>6, <1>7, <1>8
<1>9. CASE w = 2
  BY ONLY <1>4, <1>5, <1>6, <1>7, <1>9
<1>10. CASE w = 3
  <2>1. (x * 64 + c - 128) * 64 + d - 128
          = (b - 224) * 4096 + (c - 128) * 64 + d - 128
    BY ONLY <1>1, <1>3, <1>4, <1>10, SMT
  <2>. QED  BY ONLY <2>1, <1>5, <1>6, <1>7, <1>10, SMT
<1>11. CASE w = 4
  <2>1. ((x * 64 + c - 128) * 64 + d - 128) * 64 + e - 128
          = (b - 240) * 262144 + (c - 128) * 4096 + (d - 128) * 64 + e - 128
    <3>1. b \in Int /\ c \in Int /\ d \in Int /\ e \in Int /\ x = b - 240
      BY ONLY <1>1, <1>3, <1>4, <1>11, SMT
    <3>2. x \in Int
      BY ONLY <3>1, SMT
    <3>3. (x * 64 + c - 128) * 64 = x * 4096 + (c - 128) * 64
      BY ONLY <3>1, <3>2, SMT
    <3>4. (x * 4096 + (c - 128) * 64 + d - 128) * 64
            = x * 262144 + (c - 128) * 4096 + (d - 128) * 64
      BY ONLY <3>1, <3>2, SMT
    <3>. QED  BY ONLY <3>1, <3>3, <3>4, SMT
  <2>. QED  BY ONLY <2>1, <1>5, <1>6, <1>7, <1>11, SMT
<1>. QED  BY ONLY <1>2, <1>8, <1>9, <1>10, <1>11, SMT

(* The maximal subpart is what the loop takes together, and means what the *)
(* loop emits for it.                                                      *)
LEMMA MeaningIs ==
  ASSUME NEW s \in Seq(Byte), NEW i \in 1 .. Len(s)
  PROVE  /\ Wanted(s[i]) = 0 => Subpart(s, i) = 1 /\ Meaning(s, i) = << Replacement >>
         /\ Wanted(s[i]) # 0 =>
              /\ Subpart(s, i) = Found(s, i)
              /\ Found(s, i) = Wanted(s[i]) => Meaning(s, i) = AsUnits(Scalar(s, i))
              /\ Found(s, i) # Wanted(s[i]) => Meaning(s, i) = << Replacement >>
<1>. DEFINE w == Wanted(s[i])
            f == Found(s, i)
<1>1. w \in 0 .. 4
  BY WantedRange
<1>2. 1 \in 1 .. 4 /\ 1 .. 1 - 1 = {} /\ (1 <= w <=> w # 0)
  <2>. HIDE DEF w
  <2>. QED  BY <1>1
<1>3. Begins(s, i, 1) <=> w # 0
  BY <1>2, BeginsIs
<1>4. CASE w = 0
  BY <1>3, <1>4 DEF Subpart, Meaning
<1>5. CASE w # 0
  <2>1. /\ f \in 1 .. w
        /\ \A j \in 1 .. f - 1 : Follows(s, i, j)
        /\ f = w \/ ~ Follows(s, i, f)
    BY <1>5, FoundTogether
  <2>2. f \in 1 .. 4 /\ Begins(s, i, f)
    <3>1. f \in 1 .. 4 /\ f <= w
      <4>. HIDE DEF f, w
      <4>. QED  BY <1>1, <2>1
    <3>. QED  BY <2>1, <3>1, BeginsIs
  <2>3. ASSUME NEW j \in f + 1 .. 4  PROVE ~ Begins(s, i, j)
    <3>1. j \in 1 .. 4 /\ f \in 1 .. j - 1 /\ (f = w => ~ (j <= w))
      <4>. HIDE DEF f, w
      <4>. QED  BY <1>1, <2>1, <2>3
    <3>. QED  BY <2>1, <3>1, BeginsIs
  <2>4. ASSUME NEW m \in 1 .. 4, Begins(s, i, m),
               \A j \in m + 1 .. 4 : ~ Begins(s, i, j)
        PROVE  m = f
    <3>1. ~ (f \in m + 1 .. 4) /\ ~ (m \in f + 1 .. 4)
      BY <2>2, <2>3, <2>4
    <3>. HIDE DEF f
    <3>. QED  BY <2>2, <3>1
  <2>5. Subpart(s, i) = f
    <3>. HIDE DEF f
    <3>1. Subpart(s, i) = CHOOSE m \in 1 .. 4 :
            Begins(s, i, m) /\ \A j \in m + 1 .. 4 : ~ Begins(s, i, j)
      BY <1>3, <1>5 DEF Subpart
    <3>. QED  BY <2>2, <2>3, <2>4, <3>1
  <2>6. FormOf(s[i]) = w
    BY <1>5, FormIs
  <2>7. f = w => Bits(s, i, f) = Scalar(s, i)
    BY <1>5, ScalarIs
  <2>8. Meaning(s, i) = IF f = w THEN AsUnits(Bits(s, i, f)) ELSE << Replacement >>
    BY <1>3, <1>5, <2>5, <2>6 DEF Meaning
  <2>. HIDE DEF f, w
  <2>9. (f = w => Meaning(s, i) = AsUnits(Scalar(s, i)))
        /\ (f # w => Meaning(s, i) = << Replacement >>)
    BY <2>7, <2>8
  <2>. QED  BY <1>5, <2>5, <2>9 DEF f, w
<1>. QED  BY <1>4, <1>5

-----------------------------------------------------------------------------
(* What a conversion makes of a whole text *)

(* What is read and written, what one round of the loop makes of the       *)
(* element at i, and how far it goes, in a library for FB_WCHARs of v bits.*)
In(v, w)  == CASE w = "units" -> Byte [] w \in {"bytes", "widening"} -> Unit
               [] w = "narrowing" -> WChar(v)
Out(v, w) == CASE w \in {"units", "narrowing"} -> Unit [] w = "bytes" -> Byte
               [] w = "widening" -> WChar(v)

PieceAt(v, w, s, i) ==
  CASE w = "units" -> Meaning(s, i)
    [] w = "bytes" -> AsBytes(CodepointAt(s, i))
    [] w = "widening" /\ v = 32 -> << CodepointAt(s, i) >>
    [] w = "widening" /\ v = 16 -> << s[i] >>
    [] w = "widening" /\ v = 8 -> << IF s[i] < 256 THEN s[i] ELSE 63 >>
    [] w = "narrowing" /\ v = 32 -> AsUnits(ScalarOf(s[i]))
    [] w = "narrowing" /\ v # 32 -> << s[i] >>

StrideAt(v, w, s, i) ==
  CASE w = "units" -> Subpart(s, i)
    [] w = "bytes" \/ (w = "widening" /\ v = 32) -> IF Paired(s, i) THEN 2 ELSE 1
    [] w = "narrowing" \/ (w = "widening" /\ v # 32) -> 1

Pieces(v, w, s)  == [i \in 1 .. Len(s) |-> PieceAt(v, w, s, i)]
Strides(v, w, s) == [i \in 1 .. Len(s) |-> StrideAt(v, w, s, i)]

(* What becomes of the text from each place on, and of all of it.          *)
From(v, w, s)  == Tails(Len(s), Pieces(v, w, s), Strides(v, w, s))
Whole(v, w, s) == From(v, w, s)[1]

(* The bytes that belong together are all there.                           *)
LEMMA FoundFits ==
  ASSUME NEW s \in Seq(Byte), NEW i \in 1 .. Len(s), Wanted(s[i]) # 0
  PROVE  Found(s, i) \in 1 .. 4 /\ i + Found(s, i) - 1 <= Len(s)
<1>. DEFINE k == Found(s, i)
            w == Wanted(s[i])
<1>1. w \in 0 .. 4
  BY WantedRange
<1>2. k \in 1 .. w /\ \A j \in 1 .. k - 1 : Follows(s, i, j)
  BY FoundTogether
<1>. HIDE DEF k, w
<1>3. k \in 1 .. 4
  BY <1>1, <1>2
<1>4. CASE k = 1
  BY <1>4 DEF k
<1>5. CASE k # 1
  <2>1. k - 1 \in 1 .. k - 1
    BY <1>3, <1>5
  <2>2. i + (k - 1) <= Len(s)
    BY <1>2, <2>1 DEF Follows
  <2>. QED  BY <1>3, <2>2 DEF k
<1>. QED  BY <1>3, <1>4, <1>5 DEF k

LEMMA PieceTypes ==
  ASSUME NEW v \in Widths, NEW w \in Ways, NEW s \in Seq(In(v, w)),
         NEW i \in 1 .. Len(s)
  PROVE  /\ PieceAt(v, w, s, i) \in Seq(Out(v, w))
         /\ StrideAt(v, w, s, i) \in 1 .. 4
         /\ i + StrideAt(v, w, s, i) \in 1 .. Len(s) + 1
<1>1. CASE w = "units"
  <2>1. In(v, w) = Byte /\ Out(v, w) = Unit
        /\ PieceAt(v, w, s, i) = Meaning(s, i) /\ StrideAt(v, w, s, i) = Subpart(s, i)
    BY <1>1 DEF In, Out, PieceAt, StrideAt
  <2>2. CASE Wanted(s[i]) = 0
    <3>1. Subpart(s, i) = 1 /\ Meaning(s, i) = << Replacement >>
      BY <2>1, <2>2, MeaningIs
    <3>2. << Replacement >> \in Seq(Unit)
      BY ReplacementIsCharacter, CharacterLength
    <3>. QED  BY <2>1, <3>1, <3>2
  <2>3. CASE Wanted(s[i]) # 0
    <3>1. Subpart(s, i) \in 1 .. 4 /\ i + Subpart(s, i) - 1 <= Len(s)
      BY <2>1, <2>3, MeaningIs, FoundFits
    <3>2. Meaning(s, i) \in Seq(Unit)
      <4>1. CASE Found(s, i) = Wanted(s[i])
        <5>1. Scalar(s, i) \in Scalars /\ Meaning(s, i) = AsUnits(Scalar(s, i))
          BY <2>1, <2>3, <4>1, WholeIsScalar, MeaningIs
        <5>. QED  BY <5>1, ScalarIsCharacter, CharacterLength
      <4>2. CASE Found(s, i) # Wanted(s[i])
        <5>1. Meaning(s, i) = << Replacement >>
          BY <2>1, <2>3, <4>2, MeaningIs
        <5>. QED  BY <5>1, ReplacementIsCharacter, CharacterLength
      <4>. QED  BY <4>1, <4>2
    <3>. QED  BY <2>1, <3>1, <3>2
  <2>. QED  BY <2>2, <2>3
<1>2. w \in {"bytes", "widening"} => In(v, w) = Unit
      /\ \A k \in {1, 2} : (k = 2 => Paired(s, i))
            => k \in 1 .. 4 /\ i + k \in 1 .. Len(s) + 1
  BY DEF In, Paired
<1>3. CASE w = "bytes"
  <2>1. s \in Seq(Unit) /\ Out(v, w) = Byte
        /\ PieceAt(v, w, s, i) = AsBytes(CodepointAt(s, i))
        /\ StrideAt(v, w, s, i) = IF Paired(s, i) THEN 2 ELSE 1
    BY <1>2, <1>3 DEF Out, PieceAt, StrideAt
  <2>. QED  BY <1>2, <1>3, <2>1, CodepointIsScalar, ScalarBytes
<1>4. CASE w = "widening"
  <2>1. s \in Seq(Unit) /\ Out(v, w) = WChar(v)
    BY <1>2, <1>4 DEF Out
  <2>2. CASE v = 32
    <3>1. WChar(v) = Nat /\ PieceAt(v, w, s, i) = << CodepointAt(s, i) >>
          /\ StrideAt(v, w, s, i) = IF Paired(s, i) THEN 2 ELSE 1
      BY <1>4, <2>2 DEF WChar, PieceAt, StrideAt
    <3>2. CodepointAt(s, i) \in Nat
      BY <2>1, CodepointIsScalar DEF Scalars
    <3>3. << CodepointAt(s, i) >> \in Seq(Nat)
      BY <3>2
    <3>4. PieceAt(v, w, s, i) \in Seq(Out(v, w))
      BY <2>1, <3>1, <3>3
    <3>. QED  BY <1>2, <1>4, <3>1, <3>4
  <2>3. CASE v = 16
    <3>1. WChar(v) = Unit /\ PieceAt(v, w, s, i) = << s[i] >>
          /\ StrideAt(v, w, s, i) = 1
      BY <1>4, <2>3 DEF WChar, PieceAt, StrideAt
    <3>. QED  BY <2>1, <3>1
  <2>4. CASE v = 8
    <3>. DEFINE c == IF s[i] < 256 THEN s[i] ELSE 63
    <3>1. WChar(v) = Byte /\ PieceAt(v, w, s, i) = << c >>
          /\ StrideAt(v, w, s, i) = 1
      BY <1>4, <2>4 DEF WChar, PieceAt, StrideAt
    <3>2. c \in Byte
      BY <2>1 DEF Unit, Byte
    <3>. HIDE DEF c
    <3>. QED  BY <2>1, <3>1, <3>2
  <2>. QED  BY <2>2, <2>3, <2>4 DEF Widths
<1>5. CASE w = "narrowing"
  <2>1. s \in Seq(WChar(v)) /\ Out(v, w) = Unit /\ StrideAt(v, w, s, i) = 1
    BY <1>5 DEF In, Out, StrideAt
  <2>2. CASE v = 32
    <3>1. s[i] \in Nat /\ PieceAt(v, w, s, i) = AsUnits(ScalarOf(s[i]))
      BY <1>5, <2>1, <2>2 DEF WChar, PieceAt
    <3>2. PieceAt(v, w, s, i) \in Seq(Unit)
      BY <3>1, AnyIsCharacter, CharacterLength
    <3>. QED  BY <2>1, <3>2
  <2>3. CASE v # 32
    <3>1. PieceAt(v, w, s, i) = << s[i] >>
      BY <1>5, <2>3 DEF PieceAt
    <3>2. s[i] \in WChar(v)
      BY <2>1
    <3>3. s[i] \in Unit
      BY <2>3, <3>2 DEF WChar, Widths, Byte, Unit
    <3>. QED  BY <2>1, <3>1, <3>3
  <2>. QED  BY <2>2, <2>3
<1>. QED  BY <1>1, <1>3, <1>4, <1>5 DEF Ways

LEMMA PieceFunctions ==
  ASSUME NEW v \in Widths, NEW w \in Ways, NEW s \in Seq(In(v, w))
  PROVE  /\ Len(s) \in Nat
         /\ Pieces(v, w, s) \in [1 .. Len(s) -> Seq(Out(v, w))]
         /\ Strides(v, w, s) \in [1 .. Len(s) -> 1 .. 4]
         /\ \A i \in 1 .. Len(s) : /\ Pieces(v, w, s)[i] = PieceAt(v, w, s, i)
                                   /\ Strides(v, w, s)[i] = StrideAt(v, w, s, i)
<1>1. \A i \in 1 .. Len(s) : /\ PieceAt(v, w, s, i) \in Seq(Out(v, w))
                             /\ StrideAt(v, w, s, i) \in 1 .. 4
  BY PieceTypes
<1>2. Len(s) \in Nat
  BY LenProperties
<1>3. \A i \in 1 .. Len(s) : /\ Pieces(v, w, s)[i] = PieceAt(v, w, s, i)
                             /\ Strides(v, w, s)[i] = StrideAt(v, w, s, i)
  BY DEF Pieces, Strides
<1>4. Pieces(v, w, s) \in [1 .. Len(s) -> Seq(Out(v, w))]
  BY <1>1 DEF Pieces
<1>5. Strides(v, w, s) \in [1 .. Len(s) -> 1 .. 4]
  BY <1>1 DEF Strides
<1>. QED  BY <1>2, <1>3, <1>4, <1>5

(* The text from i on is a piece and the text that is a stride further on. *)
LEMMA FromStep ==
  ASSUME NEW v \in Widths, NEW w \in Ways, NEW s \in Seq(In(v, w))
  PROVE  /\ \A i \in 1 .. Len(s) + 1 : From(v, w, s)[i] \in Seq(Out(v, w))
         /\ From(v, w, s)[Len(s) + 1] = << >>
         /\ \A i \in 1 .. Len(s) :
              From(v, w, s)[i] = PieceAt(v, w, s, i)
                                   \o From(v, w, s)[i + StrideAt(v, w, s, i)]
<1>. DEFINE n == Len(s)
            P == Pieces(v, w, s)
            K == Strides(v, w, s)
            F == From(v, w, s)
<1>1. /\ n \in Nat /\ P \in [1 .. n -> Seq(Out(v, w))] /\ K \in [1 .. n -> 1 .. 4]
      /\ \A i \in 1 .. n : P[i] = PieceAt(v, w, s, i) /\ K[i] = StrideAt(v, w, s, i)
  BY PieceFunctions
<1>2. F = Tails(n, P, K)
  BY DEF From
<1>. HIDE DEF n, P, K, F
<1>3. \A i \in 1 .. n + 4 : /\ F[i] \in Seq(Out(v, w))
                            /\ F[i] = IF i > n THEN << >> ELSE P[i] \o F[i + K[i]]
  <2>1. AreTails(Tails(n, P, K), Out(v, w), n, P, K)
    <3>1. PiecesOf(Out(v, w), n, P, K)
      BY <1>1 DEF PiecesOf
    <3>. QED  BY ONLY <3>1, TailsAre
  <2>. QED  BY <1>2, <2>1 DEF AreTails
<1>4. \A i \in 1 .. n + 1 : i \in 1 .. n + 4
  BY <1>1
<1>5. n + 1 \in 1 .. n + 4 /\ n + 1 > n
  BY <1>1
<1>6. F[n + 1] = << >>
  BY <1>3, <1>5
<1>7. \A i \in 1 .. n : i \in 1 .. n + 4 /\ ~ (i > n)
  BY <1>1
<1>8. \A i \in 1 .. n : F[i] = P[i] \o F[i + K[i]]
  BY <1>3, <1>7
<1>9. \A i \in 1 .. n : F[i] = PieceAt(v, w, s, i) \o F[i + StrideAt(v, w, s, i)]
  BY <1>1, <1>8
<1>10. \A i \in 1 .. n + 1 : F[i] \in Seq(Out(v, w))
  BY <1>3, <1>4
<1>. QED  BY <1>6, <1>9, <1>10 DEF F, n

(* A finished decoding of Unicode's is that of the whole text.             *)
LEMMA DecodedIsWhole ==
  ASSUME NEW v \in Widths, NEW s \in Seq(Byte)
  PROVE  Decoded(s) = Whole(v, "units", s)
<1>. DEFINE n == Len(s)
            P == Pieces(v, "units", s)
            K == Strides(v, "units", s)
            Sat(g) == g = [i \in 1 .. Len(s) + 4 |->
                             IF i > Len(s) THEN << >>
                             ELSE Meaning(s, i) \o g[i + Subpart(s, i)]]
            f == CHOOSE g : Sat(g)
            h == Tails(n, P, K)
<1>1. In(v, "units") = Byte /\ Out(v, "units") = Unit /\ "units" \in Ways
  BY DEF In, Out, Ways
<1>2. /\ n \in Nat /\ P \in [1 .. n -> Seq(Unit)] /\ K \in [1 .. n -> 1 .. 4]
      /\ \A i \in 1 .. n : /\ P[i] = PieceAt(v, "units", s, i)
                           /\ K[i] = StrideAt(v, "units", s, i)
  BY <1>1, PieceFunctions
<1>3. \A i \in 1 .. n : P[i] = Meaning(s, i) /\ K[i] = Subpart(s, i)
  BY <1>2 DEF PieceAt, StrideAt
<1>4. Decoded(s) = f[1]
  BY DEF Decoded
<1>5. Whole(v, "units", s) = h[1]
  BY DEF Whole, From
<1>6. IsTails(h, n, P, K)
  <2>. HIDE DEF n, P, K
  <2>. QED  BY <1>2, TailsExist
<1>7. ASSUME NEW g  PROVE Sat(g) <=> IsTails(g, n, P, K)
  <2>. DEFINE X(i) == IF i > Len(s) THEN << >> ELSE Meaning(s, i) \o g[i + Subpart(s, i)]
              Y(i) == IF i > n THEN << >> ELSE P[i] \o g[i + K[i]]
  <2>1. ASSUME NEW i \in 1 .. n + 4  PROVE X(i) = Y(i)
    <3>1. CASE i > n
      BY <3>1
    <3>2. CASE ~ (i > n)
      <4>1. i \in 1 .. n
        <5>. HIDE DEF n
        <5>. QED  BY <1>2, <2>1, <3>2
      <4>2. P[i] = Meaning(s, i) /\ K[i] = Subpart(s, i)
        BY <1>3, <4>1
      <4>. HIDE DEF P, K
      <4>. QED  BY <3>2, <4>2
    <3>. QED  BY <3>1, <3>2
  <2>. HIDE DEF X, Y
  <2>2. [i \in 1 .. n + 4 |-> X(i)] = [i \in 1 .. n + 4 |-> Y(i)]
    BY <2>1
  <2>. QED  BY <2>2 DEF X, Y, IsTails
<1>. HIDE DEF n, P, K, h, Sat
<1>8. IsTails(f, n, P, K)
  <2>1. Sat(f)
    BY <1>6, <1>7
  <2>. HIDE DEF f
  <2>. QED  BY <1>7, <2>1
<1>. HIDE DEF f
<1>9. f[1] = h[1]
  <2>1. PiecesOf(Unit, n, P, K)
    BY <1>2 DEF PiecesOf
  <2>. QED  BY ONLY <2>1, <1>6, <1>8, TailsUnique
<1>. QED  BY <1>4, <1>5, <1>9

(* How much of l elements there is room for after n of at most c.          *)
Room(n, l, c) == IF n > c THEN 0 ELSE IF c - n < l THEN c - n ELSE l

(* To fill a buffer with the beginning of a text and then with as much of  *)
(* a second one as there is room for is to fill it with both.              *)
LEMMA CutAdds ==
  ASSUME NEW S, NEW o \in Seq(S), NEW t \in Seq(S), NEW c \in Nat
  PROVE  Cut(o, c) \o SubSeq(t, 1, Room(Len(o), Len(t), c)) = Cut(o \o t, c)
<1>. DEFINE k == Room(Len(o), Len(t), c)
<1>0. k = IF Len(o) > c THEN 0 ELSE IF c - Len(o) < Len(t) THEN c - Len(o) ELSE Len(t)
  BY DEF Room
<1>. HIDE DEF k
<1>. SUFFICES Cut(o, c) \o SubSeq(t, 1, k) = Cut(o \o t, c)
  BY DEF k
<1>1. Len(o) \in Nat /\ Len(t) \in Nat
  BY LenProperties
<1>2. /\ o \o t \in Seq(S) /\ Len(o \o t) = Len(o) + Len(t)
      /\ \A i \in 1 .. Len(o) + Len(t) :
           (o \o t)[i] = IF i <= Len(o) THEN o[i] ELSE t[i - Len(o)]
  BY ConcatProperties
<1>3. CASE Len(o) > c
  <2>1. k = 0 /\ Cut(o, c) = SubSeq(o, 1, c) /\ Cut(o \o t, c) = SubSeq(o \o t, 1, c)
    BY <1>0, <1>1, <1>2, <1>3 DEF Cut
  <2>2. SubSeq(t, 1, 0) = << >>
    BY SubSeqEmpty
  <2>3. SubSeq(o, 1, c) \in Seq(S)
    BY <1>1, <1>3
  <2>4. SubSeq(o \o t, 1, c) = SubSeq(o, 1, c)
    <3>1. CASE c = 0
      BY <3>1, SubSeqEmpty
    <3>2. CASE c # 0
      <4>1. 1 \in 1 .. Len(o) /\ c \in 1 .. Len(o)
        BY <1>1, <1>3, <3>2
      <4>. QED  BY <4>1, SubSeqOfConcat1
    <3>. QED  BY <3>1, <3>2
  <2>. QED  BY <2>1, <2>2, <2>3, <2>4, ConcatEmptySeq
<1>4. CASE Len(o) <= c /\ c - Len(o) < Len(t)
  <2>1. k = c - Len(o) /\ k \in 0 .. Len(t) /\ Cut(o, c) = o
        /\ Cut(o \o t, c) = SubSeq(o \o t, 1, c)
    BY <1>0, <1>1, <1>2, <1>4 DEF Cut
  <2>. DEFINE a == SubSeq(t, 1, k)
              b == SubSeq(o \o t, 1, c)
  <2>2. a \in Seq(S) /\ Len(a) = k /\ \A i \in 1 .. k : a[i] = t[i]
    BY <2>1
  <2>3. b \in Seq(S) /\ Len(b) = c /\ \A i \in 1 .. c : b[i] = (o \o t)[i]
    <3>. HIDE DEF a
    <3>1. c \in 0 .. Len(o) + Len(t)
      BY <1>1, <1>4
    <3>. QED  BY <1>2, <3>1 DEF b
  <2>. HIDE DEF a, b
  <2>4. /\ o \o a \in Seq(S) /\ Len(o \o a) = Len(o) + k
        /\ \A i \in 1 .. Len(o) + k :
             (o \o a)[i] = IF i <= Len(o) THEN o[i] ELSE a[i - Len(o)]
    <3>1. /\ o \o a \in Seq(S) /\ Len(o \o a) = Len(o) + Len(a)
          /\ \A i \in 1 .. Len(o) + Len(a) :
               (o \o a)[i] = IF i <= Len(o) THEN o[i] ELSE a[i - Len(o)]
      BY <2>2, ConcatProperties
    <3>. QED  BY ONLY <2>2, <3>1
  <2>5. Len(o) + k = c
    <3>1. \A x, y \in Nat : x + (y - x) = y
      OBVIOUS
    <3>. QED  BY ONLY <1>1, <2>1, <3>1, c \in Nat
  <2>6. \A i \in 1 .. c : (o \o a)[i] = b[i]
    <3>. SUFFICES ASSUME NEW i \in 1 .. c  PROVE (o \o a)[i] = b[i]
      OBVIOUS
    <3>1. i \in 1 .. Len(o) + Len(t) /\ b[i] = (o \o t)[i] /\ i \in 1 .. Len(o) + k
      BY <1>1, <1>4, <2>3, <2>5
    <3>2. CASE i <= Len(o)
      BY <1>2, <2>4, <3>1, <3>2
    <3>3. CASE ~ (i <= Len(o))
      <4>1. i - Len(o) \in 1 .. k
        BY <1>1, <2>1, <3>1, <3>3
      <4>. QED  BY <1>2, <2>2, <2>4, <3>1, <3>3, <4>1
    <3>. QED  BY <3>2, <3>3
  <2>7. o \o a = b
    BY <2>3, <2>4, <2>5, <2>6, SeqEqual
  <2>. QED  BY <2>1, <2>7 DEF a, b
<1>5. CASE Len(o) <= c /\ ~ (c - Len(o) < Len(t))
  <2>1. k = Len(t) /\ Cut(o, c) = o /\ Cut(o \o t, c) = o \o t
    BY <1>0, <1>1, <1>2, <1>5 DEF Cut
  <2>. QED  BY <2>1, SubSeqFull
<1>6. Len(o) > c \/ Len(o) <= c
  BY <1>1
<1>. QED  BY ONLY <1>3, <1>4, <1>5, <1>6, Zenon

(* One round of any of the loops emits a piece and goes on by its stride.  *)
LEMMA Round ==
  ASSUME TypeOK, Malformed \/ BrokenOff \/ Decode \/ Encode \/ Widen \/ Narrow
  PROVE  /\ pos \in 1 .. Len(src)
         /\ Emit(PieceAt(width, way, src, pos))
         /\ Consume(StrideAt(width, way, src, pos))
<1>1. pos <= Len(src)
  BY DEF Malformed, BrokenOff, Decode, Encode, Widen, Narrow
<1>2. width \in Widths /\ pos \in 1 .. Len(src)
      /\ (way = "units" => src \in Seq(Byte))
  BY <1>1 DEF TypeOK, Reads
<1>3. CASE Malformed \/ BrokenOff \/ Decode
  <2>1. way = "units" /\ src \in Seq(Byte)
    BY <1>2, <1>3 DEF Malformed, BrokenOff, Decode
  <2>2. /\ PieceAt(width, way, src, pos) = Meaning(src, pos)
        /\ StrideAt(width, way, src, pos) = Subpart(src, pos)
    BY <2>1 DEF PieceAt, StrideAt
  <2>3. CASE Malformed
    <3>1. Subpart(src, pos) = 1 /\ Meaning(src, pos) = << Replacement >>
      BY <1>2, <2>1, <2>3, MeaningIs DEF Malformed
    <3>. QED  BY <1>2, <2>2, <2>3, <3>1 DEF Malformed
  <2>4. CASE BrokenOff
    <3>1. Wanted(src[pos]) # 0 /\ Found(src, pos) < Wanted(src[pos])
      BY <2>4 DEF BrokenOff
    <3>2. Wanted(src[pos]) \in Nat /\ Found(src, pos) \in Nat
      BY <1>2, <2>1, <3>1, WantedRange, FoundFits
    <3>3. Found(src, pos) # Wanted(src[pos])
      BY <3>1, <3>2
    <3>4. Subpart(src, pos) = Found(src, pos) /\ Meaning(src, pos) = << Replacement >>
      BY <1>2, <2>1, <3>1, <3>3, MeaningIs
    <3>. QED  BY <1>2, <2>2, <2>4, <3>4 DEF BrokenOff
  <2>5. CASE Decode
    <3>1. Wanted(src[pos]) # 0 /\ Found(src, pos) = Wanted(src[pos])
      BY <2>5 DEF Decode
    <3>2. /\ Subpart(src, pos) = Found(src, pos)
          /\ Meaning(src, pos) = AsUnits(Scalar(src, pos))
      BY <1>2, <2>1, <3>1, MeaningIs
    <3>. QED  BY <1>2, <2>2, <2>5, <3>1, <3>2 DEF Decode
  <2>. QED  BY <1>3, <2>3, <2>4, <2>5
<1>4. CASE Encode
  BY <1>2, <1>4 DEF Encode, PieceAt, StrideAt
<1>5. CASE Widen
  <2>1. PieceAt(width, way, src, pos) = AsWide(src, pos)
    BY <1>2, <1>5 DEF Widen, PieceAt, AsWide, Widths
  <2>2. StrideAt(width, way, src, pos) = IF width = 32 /\ Paired(src, pos) THEN 2 ELSE 1
    BY <1>2, <1>5 DEF Widen, StrideAt, Widths
  <2>. QED  BY <1>2, <1>5, <2>1, <2>2 DEF Widen
<1>6. CASE Narrow
  <2>1. PieceAt(width, way, src, pos) = FromWide(src[pos])
    BY <1>2, <1>6 DEF Narrow, PieceAt, FromWide
  <2>2. StrideAt(width, way, src, pos) = 1
    BY <1>6 DEF Narrow, StrideAt
  <2>. QED  BY <1>2, <1>6, <2>1, <2>2 DEF Narrow
<1>. QED  BY <1>3, <1>4, <1>5, <1>6

-----------------------------------------------------------------------------
(* How far the loop has come *)

(* What was emitted so far, and what is yet to come of the text, are the   *)
(* whole; the buffer holds as much of the former as it has room for, and   *)
(* the count is its length.                                                *)
SoFar(o) ==
  /\ o \in Seq(Out(width, way))
  /\ Whole(width, way, src) = o \o From(width, way, src)[pos]
  /\ dst = Cut(o, cap) /\ count = Len(o)

Underway == TypeOK /\ \E o : SoFar(o)

LEMMA UnderwayTypes ==
  ASSUME TypeOK
  PROVE  /\ width \in Widths /\ way \in Ways /\ src \in Seq(In(width, way))
         /\ pos \in 1 .. Len(src) + 1 /\ count \in Nat /\ cap \in Nat
  BY DEF TypeOK, Reads, In

(* A conversion that is about to begin. *)
LEMMA Beginning ==
  ASSUME NEW v \in Widths, NEW w \in Ways, NEW s \in Seq(In(v, w)), NEW c \in Nat
  PROVE  /\ << >> \in Seq(Out(v, w)) /\ << >> = Cut(<< >>, c) /\ 0 = Len(<< >>)
         /\ Whole(v, w, s) = << >> \o From(v, w, s)[1]
<1>1. << >> \in Seq(Out(v, w)) /\ Len(<< >>) = 0
  BY EmptySeq
<1>2. Cut(<< >>, c) = << >>
  BY <1>1 DEF Cut
<1>3. Len(s) \in Nat
  BY LenProperties
<1>4. 1 \in 1 .. Len(s) + 1
  BY <1>3
<1>5. From(v, w, s)[1] \in Seq(Out(v, w))
  BY <1>4, FromStep
<1>6. << >> \o From(v, w, s)[1] = From(v, w, s)[1]
  BY <1>5, ConcatEmptySeq
<1>. QED  BY <1>1, <1>2, <1>6 DEF Whole

(* A conversion that is at its end has written the whole. *)
LEMMA AtTheEnd ==
  ASSUME Underway, Done
  PROVE  /\ Whole(width, way, src) \in Seq(Out(width, way))
         /\ dst = Cut(Whole(width, way, src), cap)
         /\ count = Len(Whole(width, way, src))
         /\ count <= cap => dst = Whole(width, way, src)
<1>1. /\ width \in Widths /\ way \in Ways /\ src \in Seq(In(width, way))
      /\ pos \in 1 .. Len(src) + 1 /\ cap \in Nat
  BY UnderwayTypes DEF Underway
<1>2. PICK o : SoFar(o)
  BY DEF Underway
<1>3. Len(src) \in Nat
  BY <1>1, LenProperties
<1>4. pos = Len(src) + 1
  BY <1>1, <1>3 DEF Done
<1>5. From(width, way, src)[pos] = << >>
  BY <1>1, <1>4, FromStep
<1>6. Whole(width, way, src) = o
  BY <1>2, <1>5, ConcatEmptySeq DEF SoFar
<1>7. count <= cap => Cut(o, cap) = o
  BY <1>1, <1>2 DEF Cut, SoFar
<1>. QED  BY <1>2, <1>6, <1>7 DEF SoFar

(* One round of a loop. *)
LEMMA RoundGoesOn ==
  ASSUME TypeOK, NEW o, SoFar(o), NEW r, r = o \o PieceAt(width, way, src, pos),
         Malformed \/ BrokenOff \/ Decode \/ Encode \/ Widen \/ Narrow
  PROVE  SoFar(r)'
<1>. DEFINE t == PieceAt(width, way, src, pos)
            k == StrideAt(width, way, src, pos)
            F == From(width, way, src)
            S == Out(width, way)
            W == Whole(width, way, src)
            m == Room(count, Len(t), cap)
<1>1. /\ width \in Widths /\ way \in Ways /\ src \in Seq(In(width, way))
      /\ pos \in 1 .. Len(src) /\ cap \in Nat
      /\ Emit(t) /\ Consume(k)
  BY Round, UnderwayTypes
<1>2. /\ o \in Seq(S) /\ W = o \o F[pos]
      /\ dst = Cut(o, cap) /\ count = Len(o)
  BY DEF SoFar
<1>3. t \in Seq(S) /\ pos + k \in 1 .. Len(src) + 1
  BY <1>1, PieceTypes
<1>4. F[pos] = t \o F[pos + k] /\ F[pos + k] \in Seq(S)
  BY <1>1, <1>3, FromStep
<1>5. /\ pos' = pos + k /\ way' = way /\ src' = src /\ cap' = cap /\ width' = width
  BY <1>1 DEF Consume
<1>6. count' = count + Len(t) /\ dst' = dst \o SubSeq(t, 1, m)
  BY <1>1 DEF Emit, Room
<1>7. SoFar(r)' <=> /\ r \in Seq(Out(width', way'))
                    /\ Whole(width', way', src') = r \o From(width', way', src')[pos']
                    /\ dst' = Cut(r, cap') /\ count' = Len(r)
  BY DEF SoFar
<1>8. r \in Seq(S) /\ Len(r) = count + Len(t)
  <2>. HIDE DEF t, S
  <2>1. r = o \o t
    BY DEF t
  <2>. QED  BY <1>2, <1>3, <2>1, ConcatProperties
<1>9. W = r \o F[pos + k]
  <2>. HIDE DEF t, k, F, S, W
  <2>1. r = o \o t
    BY DEF t
  <2>2. PICK f : f = F[pos + k]
    OBVIOUS
  <2>3. o \in Seq(S) /\ t \in Seq(S) /\ f \in Seq(S)
    BY <1>2, <1>3, <1>4, <2>2
  <2>4. (o \o t) \o f = o \o (t \o f)
    BY ONLY <2>3, ConcatAssociative, SMTT(30)
  <2>. QED  BY <1>2, <1>4, <2>1, <2>2, <2>4
<1>10. dst \o SubSeq(t, 1, m) = Cut(r, cap)
  <2>. HIDE DEF t, S
  <2>1. r = o \o t
    BY DEF t
  <2>2. Cut(o, cap) \o SubSeq(t, 1, Room(Len(o), Len(t), cap)) = Cut(o \o t, cap)
    BY <1>1, <1>2, <1>3, CutAdds
  <2>. QED  BY <1>2, <2>1, <2>2
<1>. HIDE DEF m
<1>. QED  BY <1>5, <1>6, <1>7, <1>8, <1>9, <1>10

LEMMA UnderwayInit == Init => Underway
<1>. SUFFICES ASSUME Init  PROVE Underway
  OBVIOUS
<1>1. TypeOK
  BY CodecInit DEF IInv
<1>2. /\ width \in Widths /\ way \in Ways /\ src \in Seq(In(width, way)) /\ cap \in Nat
      /\ pos = 1 /\ dst = << >> /\ count = 0
  BY <1>1, UnderwayTypes DEF Init
<1>3. SoFar(<< >>)
  BY <1>2, Beginning DEF SoFar
<1>. QED  BY <1>1, <1>3 DEF Underway

LEMMA UnderwayStep == IInv /\ Underway /\ [Next]_vars => Underway'
<1>. SUFFICES ASSUME IInv, Underway, [Next]_vars  PROVE Underway'
  OBVIOUS
<1>1. TypeOK'
  BY CodecStep DEF IInv
<1>2. PICK o : TypeOK /\ SoFar(o)
  BY DEF Underway
<1>3. CASE Malformed \/ BrokenOff \/ Decode \/ Encode \/ Widen \/ Narrow
  <2>1. PICK r : r = o \o PieceAt(width, way, src, pos)
    OBVIOUS
  <2>2. SoFar(r)'
    BY <1>2, <1>3, <2>1, RoundGoesOn
  <2>. QED  BY <1>1, <2>2 DEF Underway
<1>4. CASE Turn
  <2>1. pos' = 1 /\ dst' = << >> /\ count' = 0
    BY <1>4 DEF Turn
  <2>2. /\ width' \in Widths /\ way' \in Ways /\ src' \in Seq(In(width', way'))
        /\ cap' \in Nat
    BY <1>1 DEF TypeOK, Reads, In
  <2>3. /\ << >> \in Seq(Out(width', way')) /\ << >> = Cut(<< >>, cap') /\ 0 = Len(<< >>)
        /\ Whole(width', way', src') = << >> \o From(width', way', src')[1]
    BY <2>2, Beginning
  <2>4. SoFar(<< >>)'
    BY <2>1, <2>3 DEF SoFar
  <2>. QED  BY <1>1, <2>4 DEF Underway
<1>5. CASE UNCHANGED vars
  <2>1. SoFar(o)'
    BY <1>2, <1>5 DEF SoFar, vars
  <2>. QED  BY <1>1, <2>1 DEF Underway
<1>. QED  BY <1>3, <1>4, <1>5 DEF Next

LEMMA AlwaysUnderway == Spec => [](IInv /\ Underway)
BY CodecInit, CodecStep, UnderwayInit, UnderwayStep, PTL DEF Spec

(* A decoding that has finished is the one Unicode recommends, whatever    *)
(* bytes were read: one U+FFFD for each maximal subpart, nothing else.     *)
THEOREM DecodingAsRecommended == Spec => []DecodesAsUnicode
<1>1. ASSUME Underway  PROVE DecodesAsUnicode
  <2>. SUFFICES ASSUME way = "units", Done
                PROVE  dst = Cut(Decoded(src), cap) /\ count = Len(Decoded(src))
    BY DEF DecodesAsUnicode
  <2>1. width \in Widths /\ src \in Seq(Byte)
    BY <1>1 DEF Underway, TypeOK, Reads
  <2>2. Decoded(src) = Whole(width, way, src)
    BY <2>1, DecodedIsWhole
  <2>. QED  BY <1>1, <2>2, AtTheEnd
<1>. QED  BY <1>1, AlwaysUnderway, PTL

-----------------------------------------------------------------------------
(* There and back *)

(* Numbers in base 64. *)
LEMMA Digits ==
  ASSUME NEW c \in Nat
  PROVE  /\ c \div 64 \in Nat /\ c % 64 \in 0 .. 63 /\ c = (c \div 64) * 64 + (c % 64)
         /\ c \div 4096 = (c \div 64) \div 64
         /\ c \div 262144 = (c \div 4096) \div 64
<1>1. c \div 64 \in Nat /\ c % 64 \in 0 .. 63 /\ c = (c \div 64) * 64 + (c % 64)
  BY SMT
<1>2. c \div 4096 = (c \div 64) \div 64
  BY SMT
<1>3. c \div 262144 = (c \div 4096) \div 64
  BY SMT
<1>. QED  BY <1>1, <1>2, <1>3

(* The bytes that are written for a character, by their number.            *)
LEMMA OneByteFor ==
  ASSUME NEW c \in Nat, c < 128
  PROVE  AsBytes(c) = << c >>
BY SMT DEF AsBytes, Within

LEMMA TwoBytesFor ==
  ASSUME NEW c \in Nat, Within(c, 128, 2047)
  PROVE  \E a, b \in Nat :
           /\ AsBytes(c) = << a, b >> /\ (a - 192) * 64 + b - 128 = c
           /\ Within(a, 194, 223) /\ Within(b, 128, 191)
<1>. DEFINE a == 192 + c \div 64
            b == 128 + (c % 64)
<1>1. AsBytes(c) = << a, b >>
  BY SMT DEF AsBytes, Within
<1>2. /\ a \in Nat /\ b \in Nat /\ (a - 192) * 64 + b - 128 = c
      /\ Within(a, 194, 223) /\ Within(b, 128, 191)
  BY SMT DEF Within
<1>. HIDE DEF a, b
<1>. QED  BY ONLY <1>1, <1>2

LEMMA ThreeBytesFor ==
  ASSUME NEW c \in Nat, Within(c, 2048, 65535), ~ Within(c, 55296, 57343)
  PROVE  \E a, b, d \in Nat :
           /\ AsBytes(c) = << a, b, d >>
           /\ (a - 224) * 4096 + (b - 128) * 64 + d - 128 = c
           /\ Within(a, 224, 239) /\ Within(b, Lo2(a), Hi2(a)) /\ Within(d, 128, 191)
<1>. DEFINE x == c \div 64
            a == 224 + c \div 4096
            b == 128 + (x % 64)
            d == 128 + (c % 64)
<1>1. AsBytes(c) = << a, b, d >>
  BY SMT DEF AsBytes, Within
<1>2. /\ x \in Nat /\ c % 64 \in 0 .. 63 /\ c = x * 64 + (c % 64)
      /\ c \div 4096 = x \div 64
  BY Digits
<1>. HIDE DEF x
<1>3. x \div 64 \in Nat /\ x % 64 \in 0 .. 63 /\ x = (x \div 64) * 64 + (x % 64)
  BY <1>2, Digits
<1>4. a \in Int /\ b \in 128 .. 191 /\ d \in 128 .. 191 /\ a >= 224
      /\ x = (a - 224) * 64 + (b - 128) /\ c = x * 64 + (d - 128)
  BY <1>2, <1>3
<1>. HIDE DEF a, b, d
<1>5. c >= 2048 /\ c <= 65535 /\ (c < 55296 \/ c > 57343)
  BY DEF Within
<1>6. a <= 239 /\ (a = 224 => b >= 160) /\ (a = 237 => b <= 159)
  BY ONLY <1>2, <1>4, <1>5, SMT
<1>7. Within(b, Lo2(a), Hi2(a))
  BY ONLY <1>4, <1>6, SMT DEF Within, Lo2, Hi2
<1>8. /\ a \in Nat /\ b \in Nat /\ d \in Nat
      /\ (a - 224) * 4096 + (b - 128) * 64 + d - 128 = c
      /\ Within(a, 224, 239) /\ Within(d, 128, 191)
  BY ONLY <1>2, <1>4, <1>6, SMT DEF Within
<1>. QED  BY ONLY <1>1, <1>7, <1>8

LEMMA FourBytesFor ==
  ASSUME NEW c \in Nat, c > 65535, c < 1114112
  PROVE  \E a, b, d, e \in Nat :
           /\ AsBytes(c) = << a, b, d, e >>
           /\ (a - 240) * 262144 + (b - 128) * 4096 + (d - 128) * 64 + e - 128 = c
           /\ Within(a, 240, 244) /\ Within(b, Lo2(a), Hi2(a))
           /\ Within(d, 128, 191) /\ Within(e, 128, 191)
<1>. DEFINE x == c \div 64
            y == c \div 4096
            a == 240 + c \div 262144
            b == 128 + (y % 64)
            d == 128 + (x % 64)
            e == 128 + (c % 64)
<1>1. AsBytes(c) = << a, b, d, e >>
  BY SMT DEF AsBytes, Within
<1>2. /\ x \in Nat /\ c % 64 \in 0 .. 63 /\ c = x * 64 + (c % 64)
      /\ y = x \div 64 /\ c \div 262144 = y \div 64
  BY Digits
<1>. HIDE DEF x, y
<1>3. y \in Nat /\ x % 64 \in 0 .. 63 /\ x = y * 64 + (x % 64)
  BY <1>2, Digits
<1>4. y \div 64 \in Nat /\ y % 64 \in 0 .. 63 /\ y = (y \div 64) * 64 + (y % 64)
  BY <1>3, Digits
<1>5. /\ a \in Int /\ a >= 240
      /\ b \in 128 .. 191 /\ d \in 128 .. 191 /\ e \in 128 .. 191
      /\ y = (a - 240) * 64 + (b - 128)
      /\ x = y * 64 + (d - 128) /\ c = x * 64 + (e - 128)
  BY <1>2, <1>3, <1>4, SMT
<1>. HIDE DEF a, b, d, e
<1>6. c > 65535 /\ c < 1114112
  OBVIOUS
<1>7. y >= 16 /\ y < 272
  BY ONLY <1>2, <1>3, <1>5, <1>6, SMT
<1>8. a <= 244 /\ (a = 240 => b >= 144) /\ (a = 244 => b <= 143)
  BY ONLY <1>3, <1>5, <1>7, SMT
<1>9. Within(b, Lo2(a), Hi2(a))
  BY ONLY <1>5, <1>8, SMT DEF Within, Lo2, Hi2
<1>10. /\ a \in Nat /\ b \in Nat /\ d \in Nat /\ e \in Nat
       /\ (a - 240) * 262144 + (b - 128) * 4096 + (d - 128) * 64 + e - 128 = c
       /\ Within(a, 240, 244) /\ Within(d, 128, 191) /\ Within(e, 128, 191)
  BY ONLY <1>2, <1>3, <1>5, <1>8, SMT DEF Within
<1>. QED  BY ONLY <1>1, <1>9, <1>10, SMT

(* These bytes are read as one character.                                  *)
LEMMA LeadAsks ==
  ASSUME NEW a \in Nat
  PROVE  /\ a < 128 => Wanted(a) = 1
         /\ Within(a, 194, 223) => Wanted(a) = 2
         /\ Within(a, 224, 239) => Wanted(a) = 3
         /\ Within(a, 240, 244) => Wanted(a) = 4
BY SMT DEF Wanted, Within

LEMMA ReadsOne ==
  ASSUME NEW s, NEW i, NEW a \in Nat, a < 128, s[i] = a
  PROVE  Wanted(s[i]) = 1 /\ Scalar(s, i) = a
<1>1. Wanted(a) = 1
  BY ONLY a \in Nat, a < 128, LeadAsks
<1>. QED  BY <1>1 DEF Scalar

LEMMA ReadsTwo ==
  ASSUME NEW s, NEW i \in Nat, NEW a \in Nat, NEW b \in Nat,
         Within(a, 194, 223), Within(b, 128, 191),
         s[i] = a, s[i + 1] = b, i + 1 <= Len(s)
  PROVE  /\ Wanted(s[i]) = 2 /\ Follows(s, i, 1)
         /\ Scalar(s, i) = (a - 192) * 64 + b - 128
<1>1. Wanted(a) = 2
  BY ONLY a \in Nat, Within(a, 194, 223), LeadAsks
<1>2. Within(b, Lo2(a), Hi2(a))
  BY ONLY a \in Nat, b \in Nat, Within(a, 194, 223), Within(b, 128, 191), SMT
     DEF Within, Lo2, Hi2
<1>3. Follows(s, i, 1)
  BY <1>2 DEF Follows
<1>. QED  BY <1>1, <1>3 DEF Scalar

ValuedThree(a, b, d, c) == (a - 224) * 4096 + (b - 128) * 64 + d - 128 = c

LEMMA ReadsThree ==
  ASSUME NEW s, NEW i \in Nat, NEW a \in Nat, NEW b \in Nat, NEW d \in Nat,
         Within(a, 224, 239), Within(b, Lo2(a), Hi2(a)), Within(d, 128, 191),
         NEW c, ValuedThree(a, b, d, c),
         s[i] = a, s[i + 1] = b, s[i + 2] = d, i + 1 <= Len(s), i + 2 <= Len(s)
  PROVE  /\ Wanted(s[i]) = 3 /\ Follows(s, i, 1) /\ Follows(s, i, 2)
         /\ Scalar(s, i) = c
<1>1. Wanted(a) = 3
  BY ONLY a \in Nat, Within(a, 224, 239), LeadAsks
<1>2. Follows(s, i, 1)
  BY DEF Follows
<1>3. Follows(s, i, 2)
  BY 2 # 1 DEF Follows
<1>. QED  BY <1>1, <1>2, <1>3 DEF Scalar, ValuedThree

Valued(a, b, d, e, c) ==
  (a - 240) * 262144 + (b - 128) * 4096 + (d - 128) * 64 + e - 128 = c

LEMMA ReadsFour ==
  ASSUME NEW s, NEW i \in Nat, NEW c,
         NEW a \in Nat, NEW b \in Nat, NEW d \in Nat, NEW e \in Nat,
         Valued(a, b, d, e, c),
         Within(a, 240, 244), Within(b, Lo2(a), Hi2(a)),
         Within(d, 128, 191), Within(e, 128, 191),
         s[i] = a, s[i + 1] = b, s[i + 2] = d, s[i + 3] = e,
         i + 1 <= Len(s), i + 2 <= Len(s), i + 3 <= Len(s)
  PROVE  /\ Wanted(s[i]) = 4
         /\ Follows(s, i, 1) /\ Follows(s, i, 2) /\ Follows(s, i, 3)
         /\ Scalar(s, i) = c
<1>1. Wanted(a) = 4
  BY ONLY a \in Nat, Within(a, 240, 244), LeadAsks
<1>2. Follows(s, i, 1)
  BY SMT DEF Follows
<1>3. Follows(s, i, 2) /\ Follows(s, i, 3)
  BY SMT DEF Follows
<1>4. Scalar(s, i) = (s[i] - 240) * 262144 + (s[i + 1] - 128) * 4096
                             + (s[i + 2] - 128) * 64 + s[i + 3] - 128
  BY <1>1, SMT DEF Scalar
<1>5. Scalar(s, i) = c
  BY <1>4, SMT DEF Valued
<1>. QED  BY ONLY <1>1, <1>2, <1>3, <1>5, s[i] = a

(* The units for a character that were written are read as that character. *)
LEMMA UnitsReadBack ==
  ASSUME NEW c \in Scalars, NEW s \in Seq(Unit), NEW i \in 1 .. Len(s),
         i + Len(AsUnits(c)) - 1 <= Len(s),
         \A j \in 1 .. Len(AsUnits(c)) : s[i + j - 1] = AsUnits(c)[j]
  PROVE  /\ CodepointAt(s, i) = c
         /\ Len(AsUnits(c)) = IF Paired(s, i) THEN 2 ELSE 1
<1>1. c \in Nat /\ c < 1114112 /\ ~ Within(c, 55296, 57343)
  BY SMT DEF Scalars, Within
<1>2. CASE c < 65536
  <2>1. AsUnits(c) = << c >>
    BY <1>2 DEF AsUnits
  <2>2. Len(AsUnits(c)) = 1 /\ AsUnits(c)[1] = c
    BY <2>1
  <2>3. s[i] = c
    <3>1. 1 \in 1 .. Len(AsUnits(c)) /\ i + 1 - 1 = i
      BY <2>2
    <3>. QED  BY <2>2, <3>1
  <2>4. ~ IsHigh(s[i]) /\ ~ IsLow(s[i])
    BY <1>1, <2>3, SMT DEF IsHigh, IsLow, Within
  <2>. QED  BY <2>2, <2>3, <2>4 DEF CodepointAt, Paired
<1>3. CASE ~ (c < 65536)
  <2>. DEFINE h == 55296 + (c - 65536) \div 1024
              l == 56320 + ((c - 65536) % 1024)
  <2>1. AsUnits(c) = << h, l >>
    BY <1>3 DEF AsUnits
  <2>2. /\ h \in Nat /\ l \in Nat /\ h >= 55296 /\ h <= 56319 /\ l >= 56320 /\ l <= 57343
        /\ 65536 + (h - 55296) * 1024 + l - 56320 = c
    <3>. DEFINE y == c - 65536
    <3>1. y \in Nat /\ y < 1048576
      BY <1>1, <1>3, SMT
    <3>. HIDE DEF y
    <3>2. /\ y \div 1024 \in Nat /\ y \div 1024 < 1024 /\ y % 1024 \in 0 .. 1023
          /\ (y \div 1024) * 1024 + (y % 1024) = y
      BY <3>1, SMT
    <3>. QED  BY <1>1, <3>1, <3>2, SMT DEF y
  <2>. HIDE DEF h, l
  <2>3. Len(AsUnits(c)) = 2 /\ AsUnits(c)[1] = h /\ AsUnits(c)[2] = l
    BY <2>1
  <2>4. s[i] = h /\ s[i + 1] = l /\ i < Len(s)
    <3>1. /\ 1 \in 1 .. Len(AsUnits(c)) /\ 2 \in 1 .. Len(AsUnits(c))
          /\ i + 1 - 1 = i /\ i + 2 - 1 = i + 1 /\ i + 2 - 1 <= Len(s)
      BY <2>3
    <3>2. i < Len(s)
      BY <3>1
    <3>. QED  BY <2>3, <3>1, <3>2
  <2>5. Paired(s, i)
    BY <2>2, <2>4 DEF Paired, IsHigh, IsLow, Within
  <2>6. CodepointAt(s, i) = c
    BY <2>2, <2>4, <2>5 DEF CodepointAt
  <2>. QED  BY <2>3, <2>5, <2>6
<1>. QED  BY <1>2, <1>3

(* The bytes for a character that were written are read as that character. *)
LEMMA BytesReadBack ==
  ASSUME NEW c \in Scalars, NEW s \in Seq(Byte), NEW i \in 1 .. Len(s),
         i + Len(AsBytes(c)) - 1 <= Len(s),
         \A j \in 1 .. Len(AsBytes(c)) : s[i + j - 1] = AsBytes(c)[j]
  PROVE  /\ Len(AsBytes(c)) \in 1 .. 4
         /\ Wanted(s[i]) = Len(AsBytes(c))
         /\ \A j \in 1 .. Len(AsBytes(c)) - 1 : Follows(s, i, j)
         /\ Scalar(s, i) = c
<1>. DEFINE t == AsBytes(c)
<1>1. c \in Nat /\ c < 1114112 /\ ~ Within(c, 55296, 57343)
  BY SMT DEF Scalars, Within
<1>2. i \in Nat /\ i + 1 - 1 = i /\ i + 2 - 1 = i + 1 /\ i + 3 - 1 = i + 2
      /\ i + 4 - 1 = i + 3
  OBVIOUS
<1>3. CASE c < 128
  <2>1. t = << c >>
    BY ONLY <1>1, <1>3, OneByteFor DEF t
  <2>2. Len(t) = 1 /\ t[1] = c /\ 1 \in 1 .. Len(t)
    BY <2>1
  <2>3. s[i] = c
    BY <1>2, <2>2
  <2>4. Wanted(s[i]) = 1 /\ Scalar(s, i) = c
    BY ONLY <1>1, <1>3, <2>3, ReadsOne
  <2>5. \A j \in 1 .. 1 - 1 : Follows(s, i, j)
    OBVIOUS
  <2>. QED  BY <2>2, <2>4, <2>5
<1>4. CASE Within(c, 128, 2047)
  <2>1. PICK a, b \in Nat :
          /\ t = << a, b >> /\ (a - 192) * 64 + b - 128 = c
          /\ Within(a, 194, 223) /\ Within(b, 128, 191)
    BY ONLY <1>1, <1>4, TwoBytesFor DEF t
  <2>2. /\ Len(t) = 2 /\ t[1] = a /\ t[2] = b
        /\ 1 \in 1 .. Len(t) /\ 2 \in 1 .. Len(t)
    BY <2>1
  <2>3. s[i] = a /\ s[i + 1] = b /\ i + 1 <= Len(s)
    <3>1. i + 2 - 1 <= Len(s)
      BY <2>2
    <3>. QED  BY <1>2, <2>2, <3>1
  <2>4. Wanted(s[i]) = 2 /\ Follows(s, i, 1) /\ Scalar(s, i) = c
    BY ONLY <1>2, <2>1, <2>3, ReadsTwo
  <2>5. \A j \in 1 .. 2 - 1 : j = 1
    OBVIOUS
  <2>6. \A j \in 1 .. 2 - 1 : Follows(s, i, j)
    BY <2>4, <2>5
  <2>. QED  BY <2>2, <2>4, <2>6
<1>5. CASE Within(c, 2048, 65535)
  <2>1. PICK a, b, d \in Nat :
          /\ t = << a, b, d >>
          /\ (a - 224) * 4096 + (b - 128) * 64 + d - 128 = c
          /\ Within(a, 224, 239) /\ Within(b, Lo2(a), Hi2(a)) /\ Within(d, 128, 191)
    BY ONLY <1>1, <1>5, ThreeBytesFor DEF t
  <2>2. /\ Len(t) = 3 /\ t[1] = a /\ t[2] = b /\ t[3] = d
        /\ 1 \in 1 .. Len(t) /\ 2 \in 1 .. Len(t) /\ 3 \in 1 .. Len(t)
    BY <2>1
  <2>3. /\ s[i] = a /\ s[i + 1] = b /\ s[i + 2] = d
        /\ i + 1 <= Len(s) /\ i + 2 <= Len(s)
    <3>1. i + 3 - 1 <= Len(s)
      BY <2>2
    <3>2. i + 1 <= Len(s) /\ i + 2 <= Len(s)
      BY <3>1, LenProperties
    <3>. QED  BY <1>2, <2>2, <3>2
  <2>4. /\ Wanted(s[i]) = 3 /\ Follows(s, i, 1) /\ Follows(s, i, 2)
        /\ Scalar(s, i) = c
    <3>1. /\ ValuedThree(a, b, d, c)
          /\ Within(a, 224, 239) /\ Within(b, Lo2(a), Hi2(a)) /\ Within(d, 128, 191)
      BY ONLY <2>1, SMT DEF ValuedThree
    <3>. QED  BY ONLY <1>2, <2>3, <3>1, ReadsThree
  <2>5. \A j \in 1 .. 3 - 1 : j \in {1, 2}
    OBVIOUS
  <2>6. \A j \in 1 .. 3 - 1 : Follows(s, i, j)
    BY <2>4, <2>5
  <2>. QED  BY <2>2, <2>4, <2>6
<1>6. CASE c > 65535
  <2>1. PICK a, b, d, e \in Nat :
          /\ t = << a, b, d, e >>
          /\ (a - 240) * 262144 + (b - 128) * 4096 + (d - 128) * 64 + e - 128 = c
          /\ Within(a, 240, 244) /\ Within(b, Lo2(a), Hi2(a))
          /\ Within(d, 128, 191) /\ Within(e, 128, 191)
    BY ONLY <1>1, <1>6, FourBytesFor, SMT DEF t
  <2>2. /\ Len(t) = 4 /\ t[1] = a /\ t[2] = b /\ t[3] = d /\ t[4] = e
        /\ 1 \in 1 .. Len(t) /\ 2 \in 1 .. Len(t) /\ 3 \in 1 .. Len(t) /\ 4 \in 1 .. Len(t)
    BY <2>1, SMT
  <2>3. /\ s[i] = a /\ s[i + 1] = b /\ s[i + 2] = d /\ s[i + 3] = e
        /\ i + 1 <= Len(s) /\ i + 2 <= Len(s) /\ i + 3 <= Len(s)
    <3>1. i + 4 - 1 <= Len(s)
      BY <2>2, SMT
    <3>2. i + 1 <= Len(s) /\ i + 2 <= Len(s) /\ i + 3 <= Len(s)
      BY <3>1, LenProperties, SMT
    <3>. QED  BY <1>2, <2>2, <3>2, SMT
  <2>4. /\ Wanted(s[i]) = 4
        /\ Follows(s, i, 1) /\ Follows(s, i, 2) /\ Follows(s, i, 3)
        /\ Scalar(s, i) = c
    <3>1. /\ Valued(a, b, d, e, c)
          /\ Within(a, 240, 244) /\ Within(b, Lo2(a), Hi2(a))
          /\ Within(d, 128, 191) /\ Within(e, 128, 191)
      BY ONLY <2>1, SMT DEF Valued
    <3>. QED  BY ONLY <1>2, <2>3, <3>1, ReadsFour
  <2>5. \A j \in 1 .. 4 - 1 : j \in {1, 2, 3}
    OBVIOUS
  <2>6. \A j \in 1 .. 4 - 1 : Follows(s, i, j)
    BY ONLY <2>4, <2>5
  <2>7. Len(t) \in 1 .. 4
    BY ONLY <2>2, SMT
  <2>. QED  BY ONLY <2>2, <2>4, <2>6, <2>7, SMT DEF t
<1>7. c < 128 \/ Within(c, 128, 2047) \/ Within(c, 2048, 65535) \/ c > 65535
  BY ONLY <1>1, SMT DEF Within
<1>. QED  BY ONLY <1>3, <1>4, <1>5, <1>6, <1>7

(* Back and forth are conversions of the same two kinds of text.           *)
LEMMA BackIs ==
  ASSUME NEW v, NEW w \in Ways
  PROVE  /\ Back(w) \in Ways /\ Back(Back(w)) = w
         /\ In(v, Back(w)) = Out(v, w) /\ Out(v, Back(w)) = In(v, w)
BY DEF Back, Ways, In, Out

(* When x has been made of what is before i, the piece for i is next.      *)
Reached(v, w, s, i, x) ==
  /\ x \in Seq(Out(v, w))
  /\ Whole(v, w, s) = x \o From(v, w, s)[i]

LEMMA PieceThere ==
  ASSUME NEW v \in Widths, NEW w \in Ways, NEW s \in Seq(In(v, w)),
         NEW i \in 1 .. Len(s), NEW x, Reached(v, w, s, i, x),
         NEW t, t = PieceAt(v, w, s, i), NEW o, o = Whole(v, w, s)
  PROVE  /\ o \in Seq(Out(v, w)) /\ t \in Seq(Out(v, w))
         /\ Len(x) + Len(t) <= Len(o)
         /\ \A j \in 1 .. Len(t) : o[Len(x) + j] = t[j]
         /\ Len(x \o t) = Len(x) + Len(t)
         /\ Reached(v, w, s, i + StrideAt(v, w, s, i), x \o t)
<1>. DEFINE S == Out(v, w)
            k == i + StrideAt(v, w, s, i)
            u == From(v, w, s)[k]
<1>1. t \in Seq(S) /\ k \in 1 .. Len(s) + 1
  BY PieceTypes
<1>2. u \in Seq(S) /\ From(v, w, s)[i] = t \o u
  BY <1>1, FromStep
<1>3. x \in Seq(S) /\ o = x \o (t \o u)
  BY <1>2 DEF Reached
<1>. HIDE DEF S, k, u
<1>4. x \o t \in Seq(S) /\ o = (x \o t) \o u
  <2>1. x \in Seq(S) /\ t \in Seq(S) /\ u \in Seq(S)
    BY <1>1, <1>2, <1>3
  <2>2. (x \o t) \o u = x \o (t \o u)
    BY ONLY <2>1, ConcatAssociative, SMTT(30)
  <2>. QED  BY <1>3, <2>1, <2>2, ConcatProperties
<1>5. /\ Len(x \o t) = Len(x) + Len(t)
      /\ \A j \in 1 .. Len(x) + Len(t) :
           (x \o t)[j] = IF j <= Len(x) THEN x[j] ELSE t[j - Len(x)]
  BY <1>1, <1>3, ConcatProperties
<1>6. /\ o \in Seq(S) /\ Len(o) = Len(x \o t) + Len(u)
      /\ \A j \in 1 .. Len(x \o t) + Len(u) :
           o[j] = IF j <= Len(x \o t) THEN (x \o t)[j] ELSE u[j - Len(x \o t)]
  BY <1>2, <1>4, ConcatProperties
<1>7. Len(x) \in Nat /\ Len(t) \in Nat /\ Len(u) \in Nat
  BY <1>1, <1>2, <1>3, LenProperties
<1>8. Len(x) + Len(t) <= Len(o)
  BY <1>5, <1>6, <1>7
<1>9. ASSUME NEW j \in 1 .. Len(t)  PROVE o[Len(x) + j] = t[j]
  <2>1. /\ Len(x) + j \in 1 .. Len(x) + Len(t) /\ ~ (Len(x) + j <= Len(x))
        /\ (Len(x) + j) - Len(x) = j
        /\ Len(x) + j \in 1 .. Len(x) + Len(t) + Len(u) /\ Len(x) + j <= Len(x) + Len(t)
    BY <1>7
  <2>2. o[Len(x) + j] = (x \o t)[Len(x) + j]
    BY <1>5, <1>6, <2>1
  <2>3. (x \o t)[Len(x) + j] = t[j]
    BY <1>5, <2>1
  <2>. QED  BY <2>2, <2>3
<1>10. Reached(v, w, s, k, x \o t)
  BY <1>4 DEF Reached, S, u
<1>. QED  BY <1>1, <1>5, <1>6, <1>8, <1>9, <1>10 DEF S, k

(* The way back reads the piece for each place in B as one, and makes of   *)
(* it what r has there.                                                    *)
ReadBack(v, w, s, r, B) ==
  /\ 1 \in B
  /\ \A i \in 1 .. Len(s) : i \in B => i + StrideAt(v, w, s, i) \in B
  /\ \A i \in 1 .. Len(s) : \A x :
       i \in B /\ Reached(v, w, s, i, x) =>
         /\ Len(PieceAt(v, w, s, i)) >= 1
         /\ StrideAt(v, Back(w), Whole(v, w, s), Len(x) + 1) = Len(PieceAt(v, w, s, i))
         /\ PieceAt(v, Back(w), Whole(v, w, s), Len(x) + 1)
              = SubSeq(r, i, i + StrideAt(v, w, s, i) - 1)

(* Then the way back makes r of the whole.                                 *)
LEMMA ThereAndBack ==
  ASSUME NEW v \in Widths, NEW w \in Ways, NEW s \in Seq(In(v, w)),
         NEW r \in Seq(In(v, w)), Len(r) = Len(s), NEW B, ReadBack(v, w, s, r, B)
  PROVE  /\ Whole(v, w, s) \in Seq(In(v, Back(w)))
         /\ Whole(v, Back(w), Whole(v, w, s)) = r
<1>. DEFINE n == Len(s)
            o == Whole(v, w, s)
            F == From(v, w, s)
            U == From(v, Back(w), o)
            G == {k \in 1 .. n + 1 : k \in B =>
                    \A x : Reached(v, w, s, k, x) => U[Len(x) + 1] = SubSeq(r, k, n)}
<1>1. n \in Nat /\ Back(w) \in Ways /\ In(v, Back(w)) = Out(v, w)
  BY BackIs, LenProperties
<1>2. /\ \A i \in 1 .. n + 1 : F[i] \in Seq(Out(v, w))
      /\ F[n + 1] = << >>
  BY FromStep
<1>3. o = F[1] /\ o \in Seq(Out(v, w)) /\ o \in Seq(In(v, Back(w)))
  <2>1. 1 \in 1 .. n + 1
    <3>. HIDE DEF n
    <3>. QED  BY <1>1
  <2>. QED  BY <1>1, <1>2, <2>1 DEF Whole
<1>4. /\ U[Len(o) + 1] = << >>
      /\ \A i \in 1 .. Len(o) :
           U[i] = PieceAt(v, Back(w), o, i) \o U[i + StrideAt(v, Back(w), o, i)]
  BY <1>1, <1>3, FromStep
<1>. HIDE DEF n, o, F, U
<1>5. ASSUME NEW k \in 1 .. n + 1, \A j \in k + 1 .. n + 1 : j \in G
      PROVE  k \in G
  <2>. SUFFICES ASSUME k \in B, NEW x, Reached(v, w, s, k, x)
                PROVE  U[Len(x) + 1] = SubSeq(r, k, n)
    OBVIOUS
  <2>. HIDE DEF G
  <2>1. x \in Seq(Out(v, w)) /\ o = x \o F[k] /\ Len(x) \in Nat
    BY LenProperties DEF Reached, o, F
  <2>2. CASE k = n + 1
    <3>1. o = x
      BY <1>2, <2>1, <2>2, ConcatEmptySeq
    <3>2. SubSeq(r, k, n) = << >>
      BY <1>1, <2>2, SubSeqEmpty
    <3>. QED  BY <1>4, <3>1, <3>2
  <2>3. CASE k # n + 1
    <3>. DEFINE t == PieceAt(v, w, s, k)
                d == StrideAt(v, w, s, k)
    <3>1. k \in 1 .. n
      BY <1>1, <2>3
    <3>2. d \in 1 .. 4 /\ k + d \in 1 .. n + 1
      BY <3>1, PieceTypes DEF n
    <3>3. /\ Len(x) + Len(t) <= Len(o) /\ Len(x \o t) = Len(x) + Len(t)
          /\ t \in Seq(Out(v, w))
          /\ Reached(v, w, s, k + d, x \o t)
      BY <3>1, PieceThere DEF n, o
    <3>4. /\ k + d \in B /\ Len(t) >= 1
          /\ StrideAt(v, Back(w), o, Len(x) + 1) = Len(t)
          /\ PieceAt(v, Back(w), o, Len(x) + 1) = SubSeq(r, k, k + d - 1)
      BY <3>1 DEF ReadBack, n, o
    <3>5. Len(t) \in Nat /\ Len(o) \in Nat
      BY <1>3, <3>3, LenProperties
    <3>. HIDE DEF t, d
    <3>6. k + d \in k + 1 .. n + 1 /\ k + d \in G
      <4>1. k + d \in k + 1 .. n + 1
        BY <1>1, <3>1, <3>2
      <4>. QED  BY <1>5, <4>1
    <3>7. U[Len(x \o t) + 1] = SubSeq(r, k + d, n)
      BY <3>3, <3>4, <3>6 DEF G
    <3>8. /\ Len(x) + 1 \in 1 .. Len(o) /\ Len(x \o t) + 1 = Len(x) + 1 + Len(t)
      BY <2>1, <3>3, <3>4, <3>5
    <3>9. U[Len(x) + 1] = SubSeq(r, k, k + d - 1) \o SubSeq(r, k + d, n)
      BY <1>4, <3>4, <3>7, <3>8
    <3>10. /\ k \in 1 .. Len(r) + 1 /\ k + d - 1 \in k - 1 .. Len(r)
           /\ n \in k + d - 1 .. Len(r) /\ k + d - 1 + 1 = k + d
      BY <1>1, <3>1, <3>2 DEF n
    <3>11. SubSeq(r, k, k + d - 1) \o SubSeq(r, k + d, n) = SubSeq(r, k, n)
      <4>1. SubSeq(r, k, k + d - 1) \o SubSeq(r, k + d - 1 + 1, n) = SubSeq(r, k, n)
        BY ONLY <3>10, r \in Seq(In(v, w)), ConcatAdjacentSubSeq
      <4>. QED  BY ONLY <3>10, <4>1
    <3>. QED  BY <3>9, <3>11
  <2>. QED  BY <2>2, <2>3
<1>. HIDE DEF G
<1>6. \A k \in 1 .. n + 1 : k \in G
  BY ONLY <1>1, <1>5, DownTo
<1>7. Reached(v, w, s, 1, << >>) /\ Len(<< >>) = 0
  <2>1. << >> \in Seq(Out(v, w)) /\ o = << >> \o o
    BY <1>3, ConcatEmptySeq
  <2>. QED  BY <1>3, <2>1 DEF Reached, o, F
<1>8. 1 \in G /\ 1 \in B
  BY <1>1, <1>6 DEF ReadBack
<1>9. U[1] = SubSeq(r, 1, n)
  <2>1. U[Len(<< >>) + 1] = SubSeq(r, 1, n)
    BY <1>7, <1>8 DEF G
  <2>. QED  BY <1>7, <2>1
<1>10. SubSeq(r, 1, n) = r
  BY SubSeqFull DEF n
<1>. QED  BY <1>3, <1>9, <1>10 DEF Whole, U, o

(* Where a character of a text of units may start: not between the two     *)
(* halves of one.                                                          *)
Starts(s) == {i \in 1 .. Len(s) + 1 :
                ~ (i > 1 /\ i <= Len(s) /\ IsHigh(s[i - 1]) /\ IsLow(s[i]))}

LEMMA StartsAhead ==
  ASSUME NEW s \in Seq(Unit)
  PROVE  /\ 1 \in Starts(s)
         /\ \A i \in 1 .. Len(s) :
              i \in Starts(s) => i + (IF Paired(s, i) THEN 2 ELSE 1) \in Starts(s)
<1>1. 1 \in Starts(s)
  <2>1. 1 \in 1 .. Len(s) + 1 /\ ~ (1 > 1)
    BY LenProperties
  <2>. QED  BY <2>1 DEF Starts
<1>2. ASSUME NEW i \in 1 .. Len(s)
      PROVE  i + (IF Paired(s, i) THEN 2 ELSE 1) \in Starts(s)
  <2>1. CASE ~ Paired(s, i)
    <3>1. i + 1 \in 1 .. Len(s) + 1 /\ i + 1 - 1 = i /\ (i + 1 <= Len(s) => i < Len(s))
      BY <1>2, LenProperties
    <3>. QED  BY <2>1, <3>1 DEF Starts, Paired
  <2>2. CASE Paired(s, i)
    <3>1. i < Len(s) /\ IsLow(s[i + 1])
      BY <2>2 DEF Paired
    <3>2. i + 2 \in 1 .. Len(s) + 1 /\ i + 2 - 1 = i + 1 /\ i + 1 \in 1 .. Len(s)
      BY <1>2, <3>1, LenProperties
    <3>3. ~ IsHigh(s[i + 1])
      BY <3>1, <3>2, HighIsNotLow DEF Unit
    <3>. QED  BY <2>2, <3>2, <3>3 DEF Starts
  <2>. QED  BY <2>1, <2>2
<1>. QED  BY <1>1, <1>2

(* A sequence of one and of two elements of r.                             *)
LEMMA OnePart ==
  ASSUME NEW S, NEW r \in Seq(S), NEW i \in 1 .. Len(r)
  PROVE  SubSeq(r, i, i + 1 - 1) = << r[i] >>
<1>. DEFINE u == SubSeq(r, i, i)
            q == << r[i] >>
<1>1. i + 1 - 1 = i /\ i \in Int /\ r[i] \in S
  OBVIOUS
<1>2. q \in Seq(S) /\ Len(q) = 1 /\ q[1] = r[i]
  BY <1>1
<1>3. u \in Seq(S) /\ Len(u) = 1 /\ u[1] = r[i]
  <2>1. \A j \in i .. i : r[j] \in S
    BY <1>1
  <2>2. /\ u \in Seq(S) /\ Len(u) = IF i <= i THEN i - i + 1 ELSE 0
        /\ \A j \in 1 .. i - i + 1 : u[j] = r[i + j - 1]
    BY <1>1, <2>1, SubSeqProperties
  <2>3. i <= i /\ i - i + 1 = 1 /\ 1 \in 1 .. 1
    BY <1>1
  <2>. HIDE DEF u
  <2>. QED  BY <1>1, <2>2, <2>3
<1>. HIDE DEF u, q
<1>4. \A j \in 1 .. 1 : u[j] = q[j]
  <2>1. \A j \in 1 .. 1 : j = 1
    OBVIOUS
  <2>. QED  BY <1>2, <1>3, <2>1
<1>5. u = q
  BY <1>2, <1>3, <1>4, SeqEqual
<1>. QED  BY <1>1, <1>5 DEF u, q

LEMMA TwoParts ==
  ASSUME NEW S, NEW r \in Seq(S), NEW i \in 1 .. Len(r), i + 1 <= Len(r)
  PROVE  SubSeq(r, i, i + 2 - 1) = << r[i], r[i + 1] >>
<1>. DEFINE u == SubSeq(r, i, i + 1)
            q == << r[i], r[i + 1] >>
<1>1. i + 2 - 1 = i + 1 /\ i + 1 \in 1 .. Len(r)
  OBVIOUS
<1>2. r[i] \in S /\ r[i + 1] \in S
  BY <1>1
<1>3. q \in Seq(S) /\ Len(q) = 2 /\ q[1] = r[i] /\ q[2] = r[i + 1]
  BY <1>2
<1>4. u \in Seq(S) /\ Len(u) = 2 /\ u[1] = r[i] /\ u[2] = r[i + 1]
  <2>1. i \in Int /\ i + 1 \in Int /\ \A j \in i .. i + 1 : r[j] \in S
    BY <1>2
  <2>2. /\ u \in Seq(S) /\ Len(u) = IF i <= i + 1 THEN i + 1 - i + 1 ELSE 0
        /\ \A j \in 1 .. i + 1 - i + 1 : u[j] = r[i + j - 1]
    BY <2>1, SubSeqProperties
  <2>3. /\ i <= i + 1 /\ i + 1 - i + 1 = 2 /\ 1 \in 1 .. 2 /\ 2 \in 1 .. 2
        /\ i + 1 - 1 = i
    OBVIOUS
  <2>. HIDE DEF u
  <2>. QED  BY <1>1, <2>2, <2>3
<1>. HIDE DEF u, q
<1>5. \A j \in 1 .. 2 : u[j] = q[j]
  <2>1. \A j \in 1 .. 2 : j = 1 \/ j = 2
    OBVIOUS
  <2>. QED  BY <1>3, <1>4, <2>1
<1>6. u = q
  BY <1>3, <1>4, <1>5, SeqEqual
<1>. QED  BY <1>1, <1>6 DEF u, q

(* The two units of a character that was read from two units.              *)
LEMMA PairAgain ==
  ASSUME NEW a \in Nat, NEW b \in Nat, IsHigh(a), IsLow(b)
  PROVE  AsUnits(65536 + (a - 55296) * 1024 + b - 56320) = << a, b >>
<1>. DEFINE c == 65536 + (a - 55296) * 1024 + b - 56320
<1>1. PICK h \in Int, l \in Int : h = a - 55296 /\ l = b - 56320
  OBVIOUS
<1>2. h >= 0 /\ h <= 1023 /\ l >= 0 /\ l <= 1023
  BY <1>1, SMT DEF IsHigh, IsLow, Within
<1>3. c \in Nat /\ ~ (c < 65536) /\ c - 65536 = h * 1024 + l
  BY <1>1, <1>2, SMT
<1>4. (h * 1024 + l) \div 1024 = h /\ (h * 1024 + l) % 1024 = l
  BY <1>1, <1>2, SMT
<1>5. 55296 + h = a /\ 56320 + l = b
  BY <1>1, SMT
<1>. HIDE DEF c
<1>6. AsUnits(c) = << 55296 + (c - 65536) \div 1024, 56320 + ((c - 65536) % 1024) >>
  BY ONLY <1>3 DEF AsUnits
<1>. QED  BY ONLY <1>3, <1>4, <1>5, <1>6 DEF c

(* A repaired text has the length it had.                                  *)
LEMMA RepairedText ==
  ASSUME NEW s \in Seq(Unit)
  PROVE  /\ Repaired(s) \in Seq(Unit) /\ Len(Repaired(s)) = Len(s)
         /\ \A j \in 1 .. Len(s) :
              Repaired(s)[j] = IF Lone(s, j) THEN Replacement ELSE s[j]
<1>1. Replacement \in Unit
  BY SMT DEF Replacement, Unit
<1>. QED  BY <1>1 DEF Repaired

(* The units of the character at i are those of the repaired text.         *)
LEMMA RepairedPart ==
  ASSUME NEW s \in Seq(Unit), NEW i \in 1 .. Len(s), i \in Starts(s)
  PROVE  /\ Repaired(s) \in Seq(Unit) /\ Len(Repaired(s)) = Len(s)
         /\ AsUnits(CodepointAt(s, i))
              = SubSeq(Repaired(s), i, i + (IF Paired(s, i) THEN 2 ELSE 1) - 1)
<1>. DEFINE r == Repaired(s)
<1>1. /\ r \in Seq(Unit) /\ Len(r) = Len(s)
      /\ \A j \in 1 .. Len(s) : r[j] = IF Lone(s, j) THEN Replacement ELSE s[j]
  BY RepairedText
<1>2. s[i] \in Nat /\ s[i] < 65536
  BY SMT DEF Unit
<1>. HIDE DEF r
<1>3. CASE Paired(s, i)
  <2>1. IsHigh(s[i]) /\ i < Len(s) /\ IsLow(s[i + 1]) /\ i + 1 \in 1 .. Len(s)
    BY <1>3 DEF Paired
  <2>2. ~ IsLow(s[i]) /\ ~ IsHigh(s[i + 1])
    BY <1>2, <2>1, HighIsNotLow DEF Unit
  <2>3. s[i + 1] \in Nat
    BY <2>1 DEF Unit
  <2>4. AsUnits(CodepointAt(s, i)) = << s[i], s[i + 1] >>
    <3>1. CodepointAt(s, i) = 65536 + (s[i] - 55296) * 1024 + s[i + 1] - 56320
      BY <1>3 DEF CodepointAt
    <3>. QED  BY ONLY <1>2, <2>1, <2>3, <3>1, PairAgain, SMTT(30)
  <2>5. ~ Lone(s, i) /\ ~ Lone(s, i + 1)
    <3>1. i + 1 > 1 /\ i + 1 - 1 = i
      OBVIOUS
    <3>. QED  BY <2>1, <2>2, <3>1 DEF Lone
  <2>6. r[i] = s[i] /\ r[i + 1] = s[i + 1]
    BY <1>1, <2>1, <2>5
  <2>7. SubSeq(r, i, i + 2 - 1) = << r[i], r[i + 1] >>
    BY <1>1, <2>1, TwoParts
  <2>. QED  BY <1>1, <1>3, <2>4, <2>6, <2>7 DEF r
<1>4. CASE ~ Paired(s, i)
  <2>1. r[i] = CodepointAt(s, i)
    <3>1. CASE IsHigh(s[i]) \/ IsLow(s[i])
      <4>1. Lone(s, i)
        <5>1. CASE IsHigh(s[i])
          BY <1>4, <5>1 DEF Paired, Lone
        <5>2. CASE IsLow(s[i])
          <6>1. ~ (i > 1 /\ IsHigh(s[i - 1]))
            BY <5>2 DEF Starts
          <6>. QED  BY <5>2, <6>1 DEF Lone
        <5>. QED  BY <3>1, <5>1, <5>2
      <4>. QED  BY <1>1, <1>4, <3>1, <4>1 DEF CodepointAt
    <3>2. CASE ~ (IsHigh(s[i]) \/ IsLow(s[i]))
      <4>1. ~ Lone(s, i)
        BY <3>2 DEF Lone
      <4>. QED  BY <1>1, <1>4, <3>2, <4>1 DEF CodepointAt
    <3>. QED  BY <3>1, <3>2
  <2>2. r[i] \in Unit
    BY <1>1
  <2>3. AsUnits(r[i]) = << r[i] >>
    BY ONLY <2>2, SMTT(30) DEF AsUnits, Unit
  <2>4. SubSeq(r, i, i + 1 - 1) = << r[i] >>
    BY <1>1, OnePart
  <2>. QED  BY <1>1, <1>4, <2>1, <2>3, <2>4 DEF r
<1>. QED  BY <1>3, <1>4

(* A text o over S has the piece t at p.                                   *)
Inside(o, S, p, t) ==
  /\ o \in Seq(S) /\ p \in 1 .. Len(o) /\ p + Len(t) - 1 <= Len(o)
  /\ \A j \in 1 .. Len(t) : o[p + j - 1] = t[j]

(* The piece that was written for the character at i, where it is read.    *)
LEMMA Fits ==
  ASSUME NEW v \in Widths, NEW w \in Ways, NEW s \in Seq(In(v, w)),
         NEW i \in 1 .. Len(s), NEW x, Reached(v, w, s, i, x),
         Len(PieceAt(v, w, s, i)) >= 1
  PROVE  Inside(Whole(v, w, s), Out(v, w), Len(x) + 1, PieceAt(v, w, s, i))
<1>. DEFINE t == PieceAt(v, w, s, i)
            o == Whole(v, w, s)
            p == Len(x) + 1
<1>1. /\ o \in Seq(Out(v, w)) /\ t \in Seq(Out(v, w))
      /\ Len(x) + Len(t) <= Len(o)
      /\ \A j \in 1 .. Len(t) : o[Len(x) + j] = t[j]
  BY PieceThere
<1>. HIDE DEF t, o
<1>2. Len(x) \in Nat /\ Len(t) \in Nat /\ Len(o) \in Nat
  BY <1>1, LenProperties DEF Reached
<1>3. p \in 1 .. Len(o) /\ p + Len(t) - 1 <= Len(o)
  BY <1>1, <1>2 DEF t
<1>4. \A j \in 1 .. Len(t) : p + j - 1 = Len(x) + j
  BY <1>2
<1>. QED  BY <1>1, <1>3, <1>4 DEF Inside, t, o

(* A sequence that is followed to its end is found whole.                  *)
LEMMA FoundWhole ==
  ASSUME NEW s \in Seq(Byte), NEW i \in 1 .. Len(s), NEW k \in 1 .. 4,
         Wanted(s[i]) = k, \A j \in 1 .. k - 1 : Follows(s, i, j)
  PROVE  Subpart(s, i) = k /\ Meaning(s, i) = AsUnits(Scalar(s, i))
<1>. DEFINE f == Found(s, i)
<1>1. Wanted(s[i]) # 0
  OBVIOUS
<1>2. f \in 1 .. k /\ (f = k \/ ~ Follows(s, i, f))
  BY <1>1, FoundTogether
<1>3. f = k
  <2>. HIDE DEF f
  <2>1. f # k => f \in 1 .. k - 1
    BY <1>2
  <2>. QED  BY <1>2, <2>1
<1>. QED  BY <1>1, <1>3, MeaningIs

LEMMA BytesComeBack ==
  ASSUME NEW v \in Widths, NEW s \in Seq(Unit)
  PROVE  /\ Whole(v, "bytes", s) \in Seq(Byte)
         /\ Decoded(Whole(v, "bytes", s)) = Repaired(s)
<1>. DEFINE o == Whole(v, "bytes", s)
            r == Repaired(s)
            K(i) == IF Paired(s, i) THEN 2 ELSE 1
<1>1. /\ "bytes" \in Ways /\ Back("bytes") = "units"
      /\ In(v, "bytes") = Unit /\ Out(v, "bytes") = Byte
  BY DEF Ways, Back, In, Out
<1>2. r \in Seq(Unit) /\ Len(r) = Len(s)
  BY RepairedText
<1>3. \A i \in 1 .. Len(s) :
         /\ PieceAt(v, "bytes", s, i) = AsBytes(CodepointAt(s, i))
         /\ StrideAt(v, "bytes", s, i) = K(i)
  BY DEF PieceAt, StrideAt
<1>. HIDE DEF o, r, K
<1>4. ASSUME NEW i \in 1 .. Len(s), NEW x, i \in Starts(s),
             Reached(v, "bytes", s, i, x)
      PROVE  /\ Len(PieceAt(v, "bytes", s, i)) >= 1
             /\ StrideAt(v, "units", o, Len(x) + 1) = Len(PieceAt(v, "bytes", s, i))
             /\ PieceAt(v, "units", o, Len(x) + 1)
                  = SubSeq(r, i, i + StrideAt(v, "bytes", s, i) - 1)
  <2>. DEFINE c == CodepointAt(s, i)
              t == AsBytes(c)
              p == Len(x) + 1
  <2>1. c \in Scalars
    BY CodepointIsScalar
  <2>2. Len(t) >= 1
    BY ONLY <2>1, ScalarBytes
  <2>3. t = PieceAt(v, "bytes", s, i)
    BY <1>3
  <2>. HIDE DEF c, t, p
  <2>4. /\ o \in Seq(Byte) /\ p \in 1 .. Len(o) /\ p + Len(t) - 1 <= Len(o)
        /\ \A j \in 1 .. Len(t) : o[p + j - 1] = t[j]
    <3>1. Inside(Whole(v, "bytes", s), Out(v, "bytes"), Len(x) + 1, PieceAt(v, "bytes", s, i))
      BY <1>1, <1>4, <2>2, <2>3, Fits
    <3>. QED  BY <1>1, <2>3, <3>1 DEF Inside, o, p
  <2>5. /\ Len(t) \in 1 .. 4 /\ Wanted(o[p]) = Len(t)
        /\ \A j \in 1 .. Len(t) - 1 : Follows(o, p, j)
        /\ Scalar(o, p) = c
    BY ONLY <2>1, <2>4, BytesReadBack DEF t
  <2>6. Subpart(o, p) = Len(t) /\ Meaning(o, p) = AsUnits(c)
    BY ONLY <2>4, <2>5, FoundWhole
  <2>7. AsUnits(c) = SubSeq(r, i, i + K(i) - 1)
    BY <1>4, RepairedPart DEF c, r, K
  <2>8. StrideAt(v, "units", o, p) = Subpart(o, p) /\ PieceAt(v, "units", o, p) = Meaning(o, p)
    BY DEF StrideAt, PieceAt
  <2>. QED  BY <1>3, <2>2, <2>3, <2>6, <2>7, <2>8 DEF p
<1>5. 1 \in Starts(s) /\ \A i \in 1 .. Len(s) : i \in Starts(s) => i + K(i) \in Starts(s)
  BY StartsAhead DEF K
<1>6. ReadBack(v, "bytes", s, r, Starts(s))
  BY <1>1, <1>3, <1>4, <1>5 DEF ReadBack, o
<1>7. o \in Seq(Byte) /\ Whole(v, "units", o) = r
  <2>1. /\ Whole(v, "bytes", s) \in Seq(In(v, Back("bytes")))
        /\ Whole(v, Back("bytes"), Whole(v, "bytes", s)) = r
    BY <1>1, <1>2, <1>6, ThereAndBack
  <2>2. In(v, "units") = Byte
    BY DEF In
  <2>. QED  BY <1>1, <2>1, <2>2 DEF o
<1>8. Decoded(o) = Whole(v, "units", o)
  BY <1>7, DecodedIsWhole
<1>. QED  BY <1>7, <1>8 DEF o, r

(* What comes back of units that went out as FB_WCHARs of v bits, and of   *)
(* such FB_WCHARs that went out as units.                                  *)
UnitsBack(v, s) == CASE v = 32 -> Repaired(s)
                     [] v = 16 -> s
                     [] v = 8  -> [i \in DOMAIN s |-> IF s[i] < 256 THEN s[i] ELSE 63]
WidesBack(v, s) == IF v = 32 THEN [i \in DOMAIN s |-> ScalarOf(s[i])] ELSE s

(* Through FB_WCHARs of 32 bits, by whole characters.                      *)
LEMMA RepairedComesBack ==
  ASSUME NEW v, v = 32, NEW s \in Seq(Unit)
  PROVE  /\ Whole(v, "widening", s) \in Seq(Nat)
         /\ Whole(v, "narrowing", Whole(v, "widening", s)) = Repaired(s)
<1>. DEFINE o == Whole(v, "widening", s)
            r == Repaired(s)
            K(i) == IF Paired(s, i) THEN 2 ELSE 1
<1>1. /\ v \in Widths /\ "widening" \in Ways /\ Back("widening") = "narrowing"
      /\ In(v, "widening") = Unit /\ Out(v, "widening") = Nat
      /\ In(v, "narrowing") = Nat
  BY DEF Widths, Ways, Back, In, Out, WChar
<1>2. r \in Seq(Unit) /\ Len(r) = Len(s)
  BY RepairedText
<1>3. \A i \in 1 .. Len(s) :
         /\ PieceAt(v, "widening", s, i) = << CodepointAt(s, i) >>
         /\ StrideAt(v, "widening", s, i) = K(i)
  BY DEF PieceAt, StrideAt
<1>. HIDE DEF o, r, K
<1>4. ASSUME NEW i \in 1 .. Len(s), NEW x, i \in Starts(s),
             Reached(v, "widening", s, i, x)
      PROVE  /\ Len(PieceAt(v, "widening", s, i)) >= 1
             /\ StrideAt(v, "narrowing", o, Len(x) + 1)
                  = Len(PieceAt(v, "widening", s, i))
             /\ PieceAt(v, "narrowing", o, Len(x) + 1)
                  = SubSeq(r, i, i + StrideAt(v, "widening", s, i) - 1)
  <2>. DEFINE c == CodepointAt(s, i)
              p == Len(x) + 1
  <2>1. c \in Scalars
    BY CodepointIsScalar
  <2>. HIDE DEF c, p
  <2>2. PICK t : t = << c >>
    OBVIOUS
  <2>3. PieceAt(v, "widening", s, i) = t /\ Len(t) = 1 /\ t[1] = c
    BY <1>3, <2>2 DEF c
  <2>4. o[p] = c
    <3>1. Inside(Whole(v, "widening", s), Out(v, "widening"), Len(x) + 1,
                 PieceAt(v, "widening", s, i))
      <4>1. Len(PieceAt(v, "widening", s, i)) >= 1
        BY <2>3, SMTT(30)
      <4>. QED  BY <1>1, <1>4, <4>1, Fits
    <3>2. p \in 1 .. Len(o) /\ \A j \in 1 .. 1 : o[p + j - 1] = t[j]
      BY <2>3, <3>1 DEF Inside, o, p
    <3>3. p + 1 - 1 = p /\ 1 \in 1 .. 1
      BY <3>2
    <3>. QED  BY <2>3, <3>2, <3>3
  <2>5. ScalarOf(c) = c
    BY ONLY <2>1, SMT DEF ScalarOf, NoScalar, Scalars, IsHigh, IsLow, Within
  <2>6. /\ StrideAt(v, "narrowing", o, p) = 1
        /\ PieceAt(v, "narrowing", o, p) = AsUnits(ScalarOf(o[p]))
    BY DEF StrideAt, PieceAt
  <2>7. AsUnits(c) = SubSeq(r, i, i + K(i) - 1)
    BY <1>4, RepairedPart DEF c, r, K
  <2>8. StrideAt(v, "widening", s, i) = K(i)
    BY <1>3
  <2>9. PieceAt(v, "narrowing", o, p) = AsUnits(c)
    BY ONLY <2>4, <2>5, <2>6
  <2>10. /\ Len(PieceAt(v, "widening", s, i)) >= 1
         /\ StrideAt(v, "narrowing", o, p) = Len(PieceAt(v, "widening", s, i))
    <3>1. Len(PieceAt(v, "widening", s, i)) = 1
      BY ONLY <2>3
    <3>2. Len(PieceAt(v, "widening", s, i)) >= 1
      <4>1. 1 >= 1
        OBVIOUS
      <4>. QED  BY ONLY <3>1, <4>1, Zenon
    <3>3. StrideAt(v, "narrowing", o, p) = 1
      BY ONLY <2>6
    <3>4. StrideAt(v, "narrowing", o, p) = Len(PieceAt(v, "widening", s, i))
      BY ONLY <3>1, <3>3
    <3>. QED  BY ONLY <3>2, <3>4
  <2>11. PieceAt(v, "narrowing", o, p)
           = SubSeq(r, i, i + StrideAt(v, "widening", s, i) - 1)
    BY ONLY <2>7, <2>8, <2>9
  <2>. QED  BY ONLY <2>10, <2>11 DEF p
<1>5. 1 \in Starts(s) /\ \A i \in 1 .. Len(s) : i \in Starts(s) => i + K(i) \in Starts(s)
  BY StartsAhead DEF K
<1>6. ReadBack(v, "widening", s, r, Starts(s))
  BY <1>1, <1>3, <1>4, <1>5 DEF ReadBack, o
<1>7. /\ Whole(v, "widening", s) \in Seq(In(v, Back("widening")))
      /\ Whole(v, Back("widening"), Whole(v, "widening", s)) = r
  BY <1>1, <1>2, <1>6, ThereAndBack
<1>. QED  BY <1>1, <1>7 DEF r

(* Element by element: what each is written as is read as what r has.      *)
EachBack(v, w, s, r) ==
  /\ \A i \in 1 .. Len(s) : StrideAt(v, w, s, i) = 1
  /\ \A i \in 1 .. Len(s) : Len(PieceAt(v, w, s, i)) >= 1
  /\ \A i \in 1 .. Len(s) : \A o, p :
       Inside(o, Out(v, w), p, PieceAt(v, w, s, i)) =>
         /\ StrideAt(v, Back(w), o, p) = Len(PieceAt(v, w, s, i))
         /\ PieceAt(v, Back(w), o, p) = << r[i] >>

LEMMA EachComesBack ==
  ASSUME NEW v \in Widths, NEW w \in Ways, NEW s \in Seq(In(v, w)),
         NEW r \in Seq(In(v, w)), Len(r) = Len(s), EachBack(v, w, s, r)
  PROVE  /\ Whole(v, w, s) \in Seq(In(v, Back(w)))
         /\ Whole(v, Back(w), Whole(v, w, s)) = r
<1>1. \A i \in 1 .. Len(s) : SubSeq(r, i, i + 1 - 1) = << r[i] >>
  BY OnePart
<1>2. \A i \in 1 .. Len(s) : \A x : Reached(v, w, s, i, x) =>
         Inside(Whole(v, w, s), Out(v, w), Len(x) + 1, PieceAt(v, w, s, i))
  BY Fits DEF EachBack
<1>3. 1 \in Nat /\ \A i \in 1 .. Len(s) : i + 1 \in Nat
  OBVIOUS
<1>4. ReadBack(v, w, s, r, Nat)
  BY <1>1, <1>2, <1>3 DEF ReadBack, EachBack
<1>. QED  BY <1>4, ThereAndBack

LEMMA InsideOne ==
  ASSUME NEW o, NEW S, NEW p, NEW t, NEW a, t = << a >>, Inside(o, S, p, t)
  PROVE  Len(t) = 1 /\ o[p] = a
<1>1. Len(t) = 1 /\ t[1] = a /\ 1 \in 1 .. Len(t)
  OBVIOUS
<1>2. p \in Int /\ o[p + 1 - 1] = t[1]
  BY <1>1 DEF Inside
<1>3. p + 1 - 1 = p
  BY <1>2
<1>. QED  BY <1>1, <1>2, <1>3

(* FB_WCHARs of 8 and of 16 bits are units.                                *)
LEMMA SingleComesBack ==
  ASSUME NEW v \in Widths, v # 32, NEW w \in {"widening", "narrowing"},
         NEW s \in Seq(In(v, w)), NEW r \in Seq(In(v, w)), Len(r) = Len(s),
         \A i \in 1 .. Len(s) : PieceAt(v, w, s, i) = << r[i] >>,
         v = 8 => \A i \in 1 .. Len(s) : r[i] < 256
  PROVE  /\ Whole(v, w, s) \in Seq(In(v, Back(w)))
         /\ Whole(v, Back(w), Whole(v, w, s)) = r
<1>1. w \in Ways /\ Back(w) \in {"widening", "narrowing"} /\ v \in {8, 16}
  BY DEF Ways, Back, Widths
<1>2. \A i \in 1 .. Len(s) : StrideAt(v, w, s, i) = 1
  BY DEF StrideAt
<1>3. \A o, p : StrideAt(v, Back(w), o, p) = 1
  BY <1>1 DEF StrideAt
<1>4. ASSUME NEW i \in 1 .. Len(s), NEW o, NEW p, o[p] = r[i]
      PROVE  PieceAt(v, Back(w), o, p) = << r[i] >>
  <2>1. CASE Back(w) = "narrowing"
    BY <1>4, <2>1 DEF PieceAt
  <2>2. CASE Back(w) = "widening" /\ v = 16
    BY <1>4, <2>2 DEF PieceAt
  <2>3. CASE Back(w) = "widening" /\ v = 8
    <3>1. o[p] < 256
      BY <1>4, <2>3
    <3>2. PieceAt(v, Back(w), o, p) = << IF o[p] < 256 THEN o[p] ELSE 63 >>
      BY <2>3 DEF PieceAt
    <3>. QED  BY <1>4, <3>1, <3>2
  <2>. QED  BY <1>1, <2>1, <2>2, <2>3
<1>5. \A i \in 1 .. Len(s) : Len(PieceAt(v, w, s, i)) >= 1
  <2>. SUFFICES ASSUME NEW i \in 1 .. Len(s)  PROVE Len(PieceAt(v, w, s, i)) >= 1
    OBVIOUS
  <2>1. PICK t : t = PieceAt(v, w, s, i)
    OBVIOUS
  <2>2. Len(t) = 1
    BY <2>1
  <2>. QED  BY <2>1, <2>2
<1>6. ASSUME NEW i \in 1 .. Len(s), NEW o, NEW p,
             Inside(o, Out(v, w), p, PieceAt(v, w, s, i))
      PROVE  /\ StrideAt(v, Back(w), o, p) = Len(PieceAt(v, w, s, i))
             /\ PieceAt(v, Back(w), o, p) = << r[i] >>
  <2>1. Len(PieceAt(v, w, s, i)) = 1 /\ o[p] = r[i]
    BY <1>6, InsideOne
  <2>. QED  BY <1>3, <1>4, <2>1
<1>7. EachBack(v, w, s, r)
  BY <1>2, <1>5, <1>6 DEF EachBack
<1>. QED  BY <1>1, <1>7, EachComesBack

LEMMA UnitsComeBack ==
  ASSUME NEW v \in Widths, NEW s \in Seq(Unit)
  PROVE  Whole(v, "narrowing", Whole(v, "widening", s)) = UnitsBack(v, s)
<1>1. CASE v = 32
  BY <1>1, RepairedComesBack DEF UnitsBack
<1>2. CASE v # 32
  <2>. DEFINE r == UnitsBack(v, s)
  <2>1. /\ In(v, "widening") = Unit /\ Back("widening") = "narrowing"
        /\ v = 16 \/ v = 8
    BY <1>2 DEF In, Back, Widths
  <2>2. /\ r \in Seq(Unit) /\ Len(r) = Len(s)
        /\ \A i \in 1 .. Len(s) : PieceAt(v, "widening", s, i) = << r[i] >>
        /\ v = 8 => \A i \in 1 .. Len(s) : r[i] < 256
    <3>1. CASE v = 16
      BY <3>1 DEF UnitsBack, PieceAt
    <3>2. CASE v = 8
      <4>. DEFINE F(i) == IF s[i] < 256 THEN s[i] ELSE 63
      <4>1. r = [i \in 1 .. Len(s) |-> F(i)]
        BY <3>2 DEF UnitsBack
      <4>2. \A i \in 1 .. Len(s) : F(i) \in Unit /\ F(i) < 256
        BY SMT DEF Unit
      <4>3. \A i \in 1 .. Len(s) : PieceAt(v, "widening", s, i) = << F(i) >>
        BY <3>2 DEF PieceAt
      <4>. HIDE DEF F, r
      <4>4. r \in Seq(Unit) /\ Len(r) = Len(s) /\ \A i \in 1 .. Len(s) : r[i] = F(i)
        BY <4>1, <4>2
      <4>. QED  BY <4>2, <4>3, <4>4 DEF r
    <3>. QED  BY <2>1, <3>1, <3>2
  <2>. HIDE DEF r
  <2>. QED  BY <1>2, <2>1, <2>2, SingleComesBack DEF r
<1>. QED  BY <1>1, <1>2

LEMMA WidesComeBack ==
  ASSUME NEW v \in Widths, NEW s \in Seq(WChar(v))
  PROVE  Whole(v, "widening", Whole(v, "narrowing", s)) = WidesBack(v, s)
<1>1. /\ "narrowing" \in Ways /\ Back("narrowing") = "widening"
      /\ In(v, "narrowing") = WChar(v) /\ Out(v, "narrowing") = Unit
  BY DEF In, Out, Back, Ways
<1>2. CASE v = 32
  <2>. DEFINE r == WidesBack(v, s)
              c(i) == ScalarOf(s[i])
  <2>1. s \in Seq(Nat) /\ WChar(v) = Nat
    BY <1>2 DEF WChar
  <2>2. \A i \in 1 .. Len(s) : c(i) \in Scalars
    <3>. SUFFICES ASSUME NEW i \in 1 .. Len(s)  PROVE c(i) \in Scalars
      OBVIOUS
    <3>1. s[i] \in Nat
      BY <2>1
    <3>. QED  BY ONLY <3>1, SMT
         DEF ScalarOf, NoScalar, Scalars, Replacement, IsHigh, IsLow, Within
  <2>3. /\ r \in Seq(Nat) /\ Len(r) = Len(s)
        /\ \A i \in 1 .. Len(s) : r[i] = c(i)
    <3>1. r = [i \in 1 .. Len(s) |-> c(i)]
      BY <1>2 DEF WidesBack
    <3>2. \A i \in 1 .. Len(s) : c(i) \in Nat
      BY <2>2 DEF Scalars
    <3>. HIDE DEF r, c
    <3>. QED  BY <3>1, <3>2
  <2>4. \A i \in 1 .. Len(s) : /\ PieceAt(v, "narrowing", s, i) = AsUnits(c(i))
                               /\ StrideAt(v, "narrowing", s, i) = 1
    BY <1>2 DEF PieceAt, StrideAt
  <2>5. \A i \in 1 .. Len(s) : Len(PieceAt(v, "narrowing", s, i)) >= 1
    <3>. SUFFICES ASSUME NEW i \in 1 .. Len(s)
                  PROVE  Len(PieceAt(v, "narrowing", s, i)) >= 1
      OBVIOUS
    <3>1. s[i] \in Nat
      BY <2>1
    <3>2. Len(AsUnits(ScalarOf(s[i]))) \in {1, 2}
      BY ONLY <3>1, AnyIsCharacter, CharacterLength
    <3>3. PICK k \in {1, 2} : k = Len(PieceAt(v, "narrowing", s, i))
      BY <2>4, <3>2
    <3>4. k >= 1
      OBVIOUS
    <3>. QED  BY ONLY <3>3, <3>4, Zenon
  <2>6. ASSUME NEW i \in 1 .. Len(s), NEW o, NEW p,
               Inside(o, Unit, p, PieceAt(v, "narrowing", s, i))
        PROVE  /\ StrideAt(v, "widening", o, p) = Len(PieceAt(v, "narrowing", s, i))
               /\ PieceAt(v, "widening", o, p) = << r[i] >>
    <3>1. c(i) \in Scalars /\ PieceAt(v, "narrowing", s, i) = AsUnits(c(i)) /\ r[i] = c(i)
      BY <2>2, <2>3, <2>4
    <3>. HIDE DEF c, r
    <3>2. PICK d \in Scalars : d = c(i)
      BY <3>1
    <3>3. /\ o \in Seq(Unit) /\ p \in 1 .. Len(o) /\ p + Len(AsUnits(d)) - 1 <= Len(o)
          /\ \A j \in 1 .. Len(AsUnits(d)) : o[p + j - 1] = AsUnits(d)[j]
      BY <2>6, <3>1, <3>2 DEF Inside
    <3>4. CodepointAt(o, p) = d /\ Len(AsUnits(d)) = IF Paired(o, p) THEN 2 ELSE 1
      BY ONLY <3>3, d \in Scalars, UnitsReadBack
    <3>5. /\ StrideAt(v, "widening", o, p) = IF Paired(o, p) THEN 2 ELSE 1
          /\ PieceAt(v, "widening", o, p) = << CodepointAt(o, p) >>
      BY <1>2 DEF StrideAt, PieceAt
    <3>. QED  BY ONLY <3>1, <3>2, <3>4, <3>5
  <2>. HIDE DEF r, c
  <2>7. EachBack(v, "narrowing", s, r)
    BY <1>1, <2>4, <2>5, <2>6 DEF EachBack
  <2>8. s \in Seq(In(v, "narrowing")) /\ r \in Seq(In(v, "narrowing"))
    BY <1>1, <2>1, <2>3
  <2>. QED  BY <1>1, <2>3, <2>7, <2>8, EachComesBack DEF r
<1>3. CASE v # 32
  <2>1. /\ WidesBack(v, s) = s
        /\ \A i \in 1 .. Len(s) : PieceAt(v, "narrowing", s, i) = << s[i] >>
        /\ v = 8 => \A i \in 1 .. Len(s) : s[i] < 256
    BY <1>3 DEF WidesBack, PieceAt, WChar, Byte
  <2>. QED  BY <1>1, <1>3, <2>1, SingleComesBack
<1>. QED  BY <1>2, <1>3

(* The text that is read is what became of the one that was read before.   *)
WayBack ==
  /\ past \in Seq(Seq(Nat))
  /\ past # << >> => /\ past[Len(past)] \in Seq(In(width, Back(way)))
                     /\ src = Whole(width, Back(way), past[Len(past)])

LEMMA WayBackInit == Init => WayBack
<1>1. << >> \in Seq(Seq(Nat))
  BY EmptySeq
<1>. QED  BY <1>1 DEF Init, WayBack

LEMMA WayBackStep == Underway /\ WayBack /\ [Next]_vars => WayBack'
<1>. SUFFICES ASSUME Underway, WayBack, [Next]_vars  PROVE WayBack'
  OBVIOUS
<1>1. CASE UNCHANGED << width, way, src, past >>
  BY <1>1 DEF WayBack
<1>2. CASE Turn
  <2>1. Done /\ count <= cap /\ way' = Back(way) /\ src' = dst /\ width' = width
        /\ past' = Append(past, src)
    BY <1>2 DEF Turn
  <2>2. width \in Widths /\ way \in Ways /\ src \in Seq(In(width, way))
    BY UnderwayTypes DEF Underway
  <2>3. dst = Whole(width, way, src)
    BY <2>1, AtTheEnd
  <2>4. src \in Seq(Nat)
    <3>1. In(width, way) \subseteq Nat
      BY <2>2 DEF In, Ways, WChar, Widths, Byte, Unit
    <3>2. \A S, T : S \subseteq T => Seq(S) \subseteq Seq(T)
      OBVIOUS
    <3>. QED  BY <2>2, <3>1, <3>2
  <2>5. past' \in Seq(Seq(Nat)) /\ past'[Len(past')] = src
    <3>1. past \in Seq(Seq(Nat))
      BY DEF WayBack
    <3>. HIDE DEF WayBack
    <3>. QED  BY ONLY <2>1, <2>4, <3>1, AppendProperties
  <2>6. Back(way') = way
    BY <2>1, <2>2, BackIs
  <2>. QED  BY <2>1, <2>2, <2>3, <2>5, <2>6 DEF WayBack
<1>3. CASE Malformed \/ BrokenOff \/ Decode \/ Encode \/ Widen \/ Narrow
  <2>1. UNCHANGED << width, way, src, past >>
    BY <1>3 DEF Malformed, BrokenOff, Decode, Encode, Widen, Narrow, Consume
  <2>. QED  BY <1>1, <2>1
<1>4. CASE UNCHANGED vars
  <2>1. UNCHANGED << width, way, src, past >>
    BY <1>4 DEF vars
  <2>. QED  BY <1>1, <2>1
<1>. QED  BY <1>2, <1>3, <1>4 DEF Next

(* What went out comes back, as far as the two kinds of text allow: lone   *)
(* surrogates repaired, numbers that are no character replaced.            *)
THEOREM ComesBack == Spec => []RoundTrip
<1>1. ASSUME Underway, WayBack  PROVE RoundTrip
  <2>. SUFFICES ASSUME Done, count <= cap  PROVE RoundTrip
    BY DEF RoundTrip
  <2>1. width \in Widths /\ way \in Ways /\ src \in Seq(In(width, way))
    BY <1>1, UnderwayTypes DEF Underway
  <2>2. dst = Whole(width, way, src)
    BY <1>1, AtTheEnd
  <2>3. way = "bytes" => Decoded(dst) = Repaired(src)
    BY <2>1, <2>2, BytesComeBack DEF In
  <2>4. ASSUME past # << >>
        PROVE  /\ way = "units"     => dst = Repaired(past[Len(past)])
               /\ way = "narrowing" => dst = Widened(past[Len(past)])
               /\ way = "widening"  => dst = Narrowed(past[Len(past)])
    <3>1. PICK p : p = past[Len(past)]
      OBVIOUS
    <3>2. p \in Seq(In(width, Back(way))) /\ src = Whole(width, Back(way), p)
      BY <1>1, <2>4, <3>1 DEF WayBack
    <3>3. CASE way = "units"
      <4>1. p \in Seq(Unit) /\ src = Whole(width, "bytes", p)
        BY <3>2, <3>3 DEF Back, In
      <4>2. src \in Seq(Byte) /\ Decoded(src) = Repaired(p)
        BY <2>1, <4>1, BytesComeBack
      <4>3. dst = Decoded(src)
        BY <2>1, <2>2, <3>3, <4>2, DecodedIsWhole
      <4>. QED  BY <3>1, <3>3, <4>2, <4>3
    <3>4. CASE way = "narrowing"
      <4>1. p \in Seq(Unit) /\ src = Whole(width, "widening", p)
        BY <3>2, <3>4 DEF Back, In
      <4>2. dst = UnitsBack(width, p)
        BY <2>1, <2>2, <3>4, <4>1, UnitsComeBack
      <4>3. UnitsBack(width, p) = Widened(p)
        BY DEF UnitsBack, Widened
      <4>. QED  BY <3>1, <3>4, <4>2, <4>3
    <3>5. CASE way = "widening"
      <4>1. p \in Seq(WChar(width)) /\ src = Whole(width, "narrowing", p)
        BY <3>2, <3>5 DEF Back, In
      <4>2. dst = WidesBack(width, p)
        BY <2>1, <2>2, <3>5, <4>1, WidesComeBack
      <4>3. WidesBack(width, p) = Narrowed(p)
        BY DEF WidesBack, Narrowed
      <4>. QED  BY <3>1, <3>5, <4>2, <4>3
    <3>. QED  BY <3>3, <3>4, <3>5
  <2>. QED  BY <2>3, <2>4 DEF RoundTrip
<1>2. Init => Underway /\ WayBack
  BY UnderwayInit, WayBackInit
<1>. QED  BY <1>1, <1>2, CodecInit, CodecStep, UnderwayStep, WayBackStep, PTL DEF Spec

=============================================================================
