------------------------------ MODULE UStrCodec -----------------------------
(***************************************************************************)
(* The converters of a ustring, one iteration of their loops at a time,    *)
(* and what happens to a text that is sent through one and back: UTF-8 and *)
(* UTF-16 in ustr_utf.c (fb_hUtf8ToUtf16, fb_hUtf16ToUtf8), and WSTRING in *)
(* ustr_wchar_conv.h, which is compiled for an FB_WCHAR of 8, 16 or 32     *)
(* bits: DOS, Windows, Linux.                                              *)
(*                                                                         *)
(* Nothing is an error here.  A malformed sequence becomes one U+FFFD, and *)
(* so does a lone surrogate.  A converter writes no more than the capacity *)
(* it is given, but counts what it would have written.                     *)
(***************************************************************************)
EXTENDS Integers, Sequences

CONSTANTS
  ByteTexts,  \* byte strings to decode
  UnitTexts,  \* code unit strings to encode
  WideTexts,  \* strings of FB_WCHARs, by the width
  Caps,       \* capacities the first conversion may be given
  Ample       \* a capacity that no conversion of these texts exhausts

Byte == {b \in Nat : b < 256}
Unit == {u \in Nat : u < 65536}

(* Decoding and encoding bytes, and units to FB_WCHARs and back. *)
Ways == {"units", "bytes", "widening", "narrowing"}

(* The widths an FB_WCHAR has on the targets, in bits. *)
Widths == {8, 16, 32}

(* An FB_WCHAR.  One of 32 bits may hold any number, character or not.     *)
WChar(w) == CASE w = 8 -> Byte [] w = 16 -> Unit [] w = 32 -> Nat

Within(x, lo, hi) == lo <= x /\ x <= hi

ASSUME CodecAssumption ==
  /\ ByteTexts \subseteq Seq(Byte)
  /\ UnitTexts \subseteq Seq(Unit)
  /\ \A w \in Widths : WideTexts[w] \subseteq Seq(WChar(w))
  /\ Caps \subseteq Nat /\ Ample \in Nat

Replacement == 65533

IsHigh(u) == Within(u, 55296, 56319)
IsLow(u)  == Within(u, 56320, 57343)

VARIABLES
  width, \* of an FB_WCHAR, fixed when the library is built; of no use to
         \* the conversions of bytes
  way,   \* the conversion
  src,   \* the text that is read
  pos,   \* the next element to read
  dst,   \* what has been written
  count, \* what the converter counted
  cap,   \* the capacity of dst
  past   \* the texts converted before src

vars == << width, way, src, pos, dst, count, cap, past >>

-----------------------------------------------------------------------------
(* UTF-8 to UTF-16: one character, or what is left of one *)

(* The bytes that a lead byte asks for, 0 for a byte that cannot lead: a   *)
(* stray continuation, C0 and C1, F5 and up.                               *)
Wanted(b) ==
  CASE b < 128             -> 1
    [] Within(b, 194, 223) -> 2
    [] Within(b, 224, 239) -> 3
    [] Within(b, 240, 244) -> 4
    [] OTHER               -> 0

(* The second byte is narrowed by the lead, so that overlong forms,        *)
(* surrogates and values past U+10FFFF end the sequence there.             *)
Lo2(b) == CASE b = 224 -> 160 [] b = 240 -> 144 [] OTHER -> 128

(* Bug: a surrogate in three bytes is let through. *)
Hi2WithSurrogates(b) == CASE b = 244 -> 143 [] OTHER -> 191

Hi2(b) == CASE b = 237 -> 159 [] b = 244 -> 143 [] OTHER -> 191

(* Byte j after the one at i is there and continues its sequence. *)
Follows(s, i, j) ==
  /\ i + j <= Len(s)
  /\ IF j = 1 THEN Within(s[i + 1], Lo2(s[i]), Hi2(s[i]))
     ELSE Within(s[i + j], 128, 191)

(* Bug: a sequence that breaks off gives one U+FFFD for each of its bytes. *)
FoundLead(s, i) ==
  IF \A j \in 1 .. Wanted(s[i]) - 1 : Follows(s, i, j) THEN Wanted(s[i]) ELSE 1

(* How many bytes from i belong together. *)
Found(s, i) ==
  CHOOSE m \in 1 .. Wanted(s[i]) :
    /\ \A j \in 1 .. m - 1 : Follows(s, i, j)
    /\ m = Wanted(s[i]) \/ ~ Follows(s, i, m)

Scalar(s, i) ==
  CASE Wanted(s[i]) = 1 -> s[i]
    [] Wanted(s[i]) = 2 -> (s[i] - 192) * 64 + s[i + 1] - 128
    [] Wanted(s[i]) = 3 -> (s[i] - 224) * 4096 + (s[i + 1] - 128) * 64
                             + s[i + 2] - 128
    [] Wanted(s[i]) = 4 -> (s[i] - 240) * 262144 + (s[i + 1] - 128) * 4096
                             + (s[i + 2] - 128) * 64 + s[i + 3] - 128

(* UEMIT_CP *)
AsUnits(c) ==
  IF c < 65536 THEN << c >>
  ELSE << 55296 + (c - 65536) \div 1024, 56320 + ((c - 65536) % 1024) >>

-----------------------------------------------------------------------------
(* UTF-16 to UTF-8 *)

Paired(s, i) == IsHigh(s[i]) /\ i < Len(s) /\ IsLow(s[i + 1])

CodepointAt(s, i) ==
  IF Paired(s, i) THEN 65536 + (s[i] - 55296) * 1024 + s[i + 1] - 56320
  ELSE IF IsHigh(s[i]) \/ IsLow(s[i]) THEN Replacement
  ELSE s[i]

(* Bug: the limit of two bytes is one too high. *)
AsBytesLate(c) ==
  CASE c < 128   -> << c >>
    [] Within(c, 128, 2048) -> << 192 + c \div 64, 128 + (c % 64) >>
    [] Within(c, 2049, 65535) ->
         << 224 + c \div 4096, 128 + ((c \div 64) % 64), 128 + (c % 64) >>
    [] c > 65535 ->
         << 240 + c \div 262144, 128 + ((c \div 4096) % 64),
            128 + ((c \div 64) % 64), 128 + (c % 64) >>

AsBytes(c) ==
  CASE c < 128   -> << c >>
    [] Within(c, 128, 2047) -> << 192 + c \div 64, 128 + (c % 64) >>
    [] Within(c, 2048, 65535) ->
         << 224 + c \div 4096, 128 + ((c \div 64) % 64), 128 + (c % 64) >>
    [] c > 65535 ->
         << 240 + c \div 262144, 128 + ((c \div 4096) % 64),
            128 + ((c \div 64) % 64), 128 + (c % 64) >>

-----------------------------------------------------------------------------
(* FB_WCHARs *)

(* An FB_WCHAR of 32 bits that is no character. *)
NoScalar(c) == c > 1114111 \/ IsHigh(c) \/ IsLow(c)

(* Bug: a surrogate in 32 bits is let through. *)
ScalarOfAny(c) == IF c > 1114111 THEN Replacement ELSE c

ScalarOf(c) == IF NoScalar(c) THEN Replacement ELSE c

(* The FB_WCHARs for the character at i. *)
AsWide(s, i) ==
  CASE width = 32 -> << CodepointAt(s, i) >>
    [] width = 16 -> << s[i] >>
    [] width = 8  -> << IF s[i] < 256 THEN s[i] ELSE 63 >>

(* The units for an FB_WCHAR. *)
FromWide(c) == IF width = 32 THEN AsUnits(ScalarOf(c)) ELSE << c >>

-----------------------------------------------------------------------------
(* The loops *)

Init ==
  /\ way \in Ways
  /\ width \in IF way \in {"units", "bytes"} THEN {32} ELSE Widths
  /\ src \in CASE way = "units" -> ByteTexts
              [] way = "narrowing" -> WideTexts[width]
              [] OTHER -> UnitTexts
  /\ pos = 1 /\ dst = << >> /\ count = 0
  /\ cap \in Caps
  /\ past = << >>

(* Bug: the capacity is tested once for all the elements of a character. *)
EmitWhole(t) ==
  /\ count' = count + Len(t)
  /\ dst' = IF count < cap THEN dst \o t ELSE dst

(* UEMIT and BEMIT *)
Emit(t) ==
  /\ count' = count + Len(t)
  /\ dst' = dst \o SubSeq(t, 1, IF count > cap THEN 0
                                ELSE IF cap - count < Len(t) THEN cap - count
                                ELSE Len(t))

Consume(k) == pos' = pos + k /\ UNCHANGED << width, way, src, cap, past >>

Malformed ==
  /\ way = "units" /\ pos <= Len(src)
  /\ Wanted(src[pos]) = 0
  /\ Emit(<< Replacement >>) /\ Consume(1)

BrokenOff ==
  /\ way = "units" /\ pos <= Len(src)
  /\ Wanted(src[pos]) # 0 /\ Found(src, pos) < Wanted(src[pos])
  /\ Emit(<< Replacement >>) /\ Consume(Found(src, pos))

Decode ==
  /\ way = "units" /\ pos <= Len(src)
  /\ Wanted(src[pos]) # 0 /\ Found(src, pos) = Wanted(src[pos])
  /\ Emit(AsUnits(Scalar(src, pos))) /\ Consume(Wanted(src[pos]))

Encode ==
  /\ way = "bytes" /\ pos <= Len(src)
  /\ Emit(AsBytes(CodepointAt(src, pos)))
  /\ Consume(IF Paired(src, pos) THEN 2 ELSE 1)

Widen ==
  /\ way = "widening" /\ pos <= Len(src)
  /\ Emit(AsWide(src, pos))
  /\ Consume(IF width = 32 /\ Paired(src, pos) THEN 2 ELSE 1)

Narrow ==
  /\ way = "narrowing" /\ pos <= Len(src)
  /\ Emit(FromWide(src[pos])) /\ Consume(1)

Done == pos > Len(src)

Back(w) == CASE w = "units"     -> "bytes"
             [] w = "bytes"     -> "units"
             [] w = "widening"  -> "narrowing"
             [] w = "narrowing" -> "widening"

(* The result is converted back, when it was not cut: a STRING assigned to *)
(* a USTRING and from there to a STRING again.                             *)
Turn ==
  /\ Done /\ count <= cap /\ Len(past) < 2
  /\ way' = Back(way)
  /\ src' = dst /\ pos' = 1 /\ dst' = << >> /\ count' = 0
  /\ cap' = Ample
  /\ past' = Append(past, src)
  /\ UNCHANGED width

Next == Malformed \/ BrokenOff \/ Decode \/ Encode \/ Widen \/ Narrow \/ Turn

Spec == Init /\ [][Next]_vars

-----------------------------------------------------------------------------
(* What Unicode asks for *)

(* The k bytes of the general form that b starts, and the bits it carries. *)
FormOf(b) == CASE b < 128 -> 1 [] b \in 192 .. 223 -> 2 [] b \in 224 .. 239 -> 3
               [] b \in 240 .. 247 -> 4 [] OTHER -> 0
LeadBits(b) == b - CASE FormOf(b) = 1 -> 0 [] FormOf(b) = 2 -> 192
                     [] FormOf(b) = 3 -> 224 [] FormOf(b) = 4 -> 240

Bits(s, i, m) ==
  LET f[j \in 1 .. m] == IF j = 1 THEN LeadBits(s[i])
                         ELSE f[j - 1] * 64 + s[i + j - 1] - 128
  IN  f[m]

(* Some scalar value from lo to hi needs exactly k bytes. *)
SomeScalar(k, lo, hi) ==
  CASE k = 1 -> lo < 128
    [] k = 2 -> hi >= 128 /\ lo < 2048
    [] k = 3 -> (hi >= 2048 /\ lo < 55296) \/ (hi >= 57344 /\ lo < 65536)
    [] k = 4 -> hi >= 65536 /\ lo < 17 * 65536

(* The m bytes from i are the first of some well-formed sequence. *)
Begins(s, i, m) ==
  LET k     == FormOf(s[i])
      span  == 64 ^ (k - m)
  IN  /\ m <= k /\ i + m - 1 <= Len(s)
      /\ \A j \in 1 .. m - 1 : s[i + j] \in 128 .. 191
      /\ SomeScalar(k, Bits(s, i, m) * span, (Bits(s, i, m) + 1) * span - 1)

(* The maximal subpart at i, and what it stands for. *)
Subpart(s, i) ==
  IF ~ Begins(s, i, 1) THEN 1
  ELSE CHOOSE m \in 1 .. 4 :
         Begins(s, i, m) /\ \A j \in m + 1 .. 4 : ~ Begins(s, i, j)

Meaning(s, i) ==
  IF Begins(s, i, 1) /\ Subpart(s, i) = FormOf(s[i])
  THEN AsUnits(Bits(s, i, Subpart(s, i)))
  ELSE << Replacement >>

Decoded(s) ==
  LET f[i \in 1 .. Len(s) + 4] ==
        IF i > Len(s) THEN << >> ELSE Meaning(s, i) \o f[i + Subpart(s, i)]
  IN  f[1]

(* A surrogate that has no partner. *)
Lone(s, i) ==
  \/ IsHigh(s[i]) /\ ~ (i < Len(s) /\ IsLow(s[i + 1]))
  \/ IsLow(s[i]) /\ ~ (i > 1 /\ IsHigh(s[i - 1]))

Repaired(s) == [i \in DOMAIN s |-> IF Lone(s, i) THEN Replacement ELSE s[i]]

(* What is left of units that were FB_WCHARs in between. *)
Widened(s) == CASE width = 32 -> Repaired(s)
                [] width = 16 -> s
                [] width = 8  -> [i \in DOMAIN s |-> IF s[i] < 256 THEN s[i] ELSE 63]

(* What is left of FB_WCHARs that were units in between. *)
Narrowed(s) == IF width = 32 THEN [i \in DOMAIN s |-> ScalarOf(s[i])] ELSE s

-----------------------------------------------------------------------------
Cut(s, n) == IF Len(s) > n THEN SubSeq(s, 1, n) ELSE s

(* What a conversion reads and what it writes. *)
Reads(w)  == CASE w = "units" -> Byte [] w \in {"bytes", "widening"} -> Unit
               [] w = "narrowing" -> WChar(width)
Writes(w) == CASE w \in {"units", "narrowing"} -> Unit [] w = "bytes" -> Byte
               [] w = "widening" -> WChar(width)

TypeOK ==
  /\ width \in Widths
  /\ way \in Ways
  /\ src \in Seq(Reads(way))
  /\ dst \in Seq(Writes(way))
  /\ pos \in 1 .. Len(src) + 1
  /\ count \in Nat /\ cap \in Nat

(* The most that k elements can become: a unit for each byte, three bytes  *)
(* for each unit, an FB_WCHAR for each unit, two units for each FB_WCHAR.  *)
MostFor(w, k) == CASE w \in {"units", "widening"} -> k
                   [] w = "bytes" -> 3 * k [] w = "narrowing" -> 2 * k

(* The capacity contract: a buffer holds the first units of the result and *)
(* never more than was asked for, and the count is that of the whole,      *)
(* bounded by what was read (callers size buffers by it).                  *)
CapacityContract ==
  /\ Len(dst) = IF count < cap THEN count ELSE cap
  /\ count <= MostFor(way, pos - 1)

(* The units that come out of a decoding are well-formed UTF-16 at every   *)
(* character boundary, whatever bytes went in; and so are those that come  *)
(* from FB_WCHARs of 32 bits, whatever numbers these were.                 *)
NoLoneSurrogate ==
  (way = "units" \/ (way = "narrowing" /\ width = 32)) /\ count <= cap =>
    \A i \in DOMAIN dst : ~ Lone(dst, i)

(* A finished decoding is the one Unicode recommends: maximal subparts, no *)
(* overlong form, no encoded surrogate, nothing past U+10FFFF.             *)
DecodesAsUnicode ==
  way = "units" /\ Done =>
    dst = Cut(Decoded(src), cap) /\ count = Len(Decoded(src))

(* What goes out as bytes comes back as the units it was, lone surrogates  *)
(* excepted; bytes that were decoded and encoded again are not damaged any *)
(* further.  Through a WSTRING the units come back as they were on         *)
(* Windows, repaired on Linux, and with ? for what is not Latin-1 on DOS;  *)
(* FB_WCHARs come back from a USTRING, those that are no character         *)
(* excepted.                                                               *)
RoundTrip ==
  Done /\ count <= cap =>
    /\ way = "bytes" => Decoded(dst) = Repaired(src)
    /\ past # << >> =>
         /\ way = "units"     => dst = Repaired(past[Len(past)])
         /\ way = "narrowing" => dst = Widened(past[Len(past)])
         /\ way = "widening"  => dst = Narrowed(past[Len(past)])

=============================================================================
