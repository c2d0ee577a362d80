--------------------------- MODULE UStrScanProofs ---------------------------
(***************************************************************************)
(* The invariants of UStrSearch for every text, every pattern and every    *)
(* start, those of UStrTrim for every text, every string or set to strip   *)
(* and every choice of ends, and those of UStrLowering for every set of    *)
(* statements, however long their expressions are.                         *)
(***************************************************************************)
EXTENDS UStrSearch, UStrTrim, UStrLowering, SequenceTheorems, FiniteSetTheorems,
        WellFoundedInduction, TLAPS

USE DEF SearchForms, AnyForms, Upward, WindowInside

-----------------------------------------------------------------------------
(* UStrSearch.                                                             *)

(* The candidates that the scan has tried without a match. *)
Tried == IF form \in Upward THEN start .. at - 1 ELSE at + 1 .. First

Missed == Scanning => \A p \in Tried : ~ Matches(p)

InRange ==
  at # 0 => /\ Worthwhile /\ at \in 1 .. LastPos
            /\ IF form \in Upward THEN start <= at
               ELSE First \in 1 .. LastPos /\ at <= First

(* What each outcome rests on. *)
Outcome ==
  /\ res > 0 => res = at /\ Matches(at) /\ \A p \in Tried : ~ Matches(p)
  /\ res = 0 => \/ ~ Worthwhile
                \/ at = Final /\ ~ Matches(at) /\ \A p \in Tried : ~ Matches(p)
  /\ res # NotYet /\ at = 0 => ~ Worthwhile /\ res = 0

SearchInv == SearchTypeOK /\ InRange /\ Missed /\ Outcome

-----------------------------------------------------------------------------
(* A match of the loop at p is an occurrence that starts at p.             *)
LEMMA MatchIsOccurrence ==
  ASSUME text \in Seq(Units), pat \in Seq(Units), pat # << >>
  PROVE  Occurrences = {p \in 1 .. LastPos : Matches(p)}
<1>1. /\ Len(text) \in Nat /\ Len(pat) \in Nat /\ Len(pat) >= 1
      /\ DOMAIN text = 1 .. Len(text) /\ DOMAIN pat = 1 .. Len(pat)
  <2>1. /\ Len(text) \in Nat /\ Len(pat) \in Nat
        /\ DOMAIN text = 1 .. Len(text) /\ DOMAIN pat = 1 .. Len(pat)
    OBVIOUS
  <2>2. Len(pat) # 0
    OBVIOUS
  <2> QED
    BY <2>1, <2>2
<1>2. CASE IsAny
  <2>1. LastPos = Len(text)
    BY <1>2 DEF LastPos
  <2>2. Occurrences = {p \in DOMAIN text : text[p] \in {pat[j] : j \in DOMAIN pat}}
    BY <1>2 DEF Occurrences
  <2>3. \A p \in DOMAIN text :
          text[p] \in {pat[j] : j \in DOMAIN pat} <=> Matches(p)
    BY <1>2 DEF Matches
  <2> QED
    BY <1>1, <2>1, <2>2, <2>3
<1>3. CASE ~ IsAny
  <2>1. LastPos = Len(text) - Len(pat) + 1
    BY <1>3 DEF LastPos
  <2>2. Occurrences =
          {p \in DOMAIN text : /\ p + Len(pat) - 1 <= Len(text)
                               /\ SubSeq(text, p, p + Len(pat) - 1) = pat}
    BY <1>3 DEF Occurrences
  <2>3. \A p \in DOMAIN text : p + Len(pat) - 1 <= Len(text) <=> p \in 1 .. LastPos
    BY <1>1, <2>1
  <2>4. ASSUME NEW p \in 1 .. LastPos
        PROVE  SubSeq(text, p, p + Len(pat) - 1) = pat <=> Matches(p)
    <3>1. p \in Nat /\ p >= 1 /\ p + Len(pat) - 1 <= Len(text)
      BY <1>1, <2>1
    <3> DEFINE piece == SubSeq(text, p, p + Len(pat) - 1)
    <3>2. /\ piece \in Seq(Units) /\ Len(piece) = Len(pat)
          /\ \A j \in 1 .. Len(pat) : piece[j] = text[p + j - 1]
      BY <1>1, <3>1
    <3>3. piece = pat <=> \A j \in 1 .. Len(pat) : piece[j] = pat[j]
      <4> HIDE DEF piece
      <4> QED
        BY <1>1, <3>2, SeqEqual
    <3> QED
      BY <1>1, <1>3, <3>2, <3>3 DEF Matches
  <2>5. \A p \in 1 .. LastPos : p \in DOMAIN text
    BY <1>1, <2>1
  <2> QED
    BY <2>2, <2>3, <2>4, <2>5
<1> QED
  BY <1>2, <1>3

LEMMA Arguments ==
  ASSUME SearchTypeOK
  PROVE  /\ text \in Seq(Units) /\ pat \in Seq(Units) /\ start \in Int
         /\ Len(text) \in Nat /\ Len(pat) \in Nat /\ LastPos \in Int
         /\ pat # << >> => Len(pat) >= 1
         /\ First \in Int /\ at \in Int /\ res \in Int
         /\ pat # << >> => LastPos <= Len(text)
<1>1. text \in Seq(Units) /\ pat \in Seq(Units) /\ start \in Int
  BY SearchAssumption, UnitsAssumption DEF SearchTypeOK
<1>2. Len(text) \in Nat /\ Len(pat) \in Nat /\ (pat # << >> => Len(pat) # 0)
  BY <1>1
<1>3. LastPos \in Int /\ (pat # << >> => LastPos <= Len(text))
  BY <1>2 DEF LastPos
<1>4. First \in Int
  BY <1>1, <1>3 DEF First
<1>5. at \in Int /\ res \in Int
  BY <1>2 DEF SearchTypeOK, NotYet
<1> QED
  BY <1>1, <1>2, <1>3, <1>4, <1>5

LEMMA SearchInitially == SearchInit => SearchInv
<1> SUFFICES ASSUME SearchInit PROVE SearchInv
  OBVIOUS
<1>1. at = 0 /\ res = NotYet /\ text \in Texts /\ pat \in Patterns /\ start \in Starts
  BY DEF SearchInit
<1>2. Len(text) \in Nat /\ Len(pat) \in Nat
  BY <1>1, SearchAssumption, UnitsAssumption
<1>3. SearchTypeOK
  BY <1>1, <1>2 DEF SearchInit, SearchTypeOK, NotYet
<1> QED
  BY <1>1, <1>3 DEF SearchInv, InRange, Missed, Scanning, Outcome, NotYet

(* The operators over the call are unchanged by every step.                *)
LEMMA CallStays ==
  ASSUME UNCHANGED << form, text, pat, start >>
  PROVE  /\ IsAny' = IsAny /\ LastPos' = LastPos /\ First' = First
         /\ Final' = Final /\ Worthwhile' = Worthwhile
         /\ \A p : Matches(p)' = Matches(p)
<1>1. form' = form /\ text' = text /\ pat' = pat /\ start' = start
  OBVIOUS
<1>2. IsAny' = IsAny /\ LastPos' = LastPos
  BY <1>1 DEF IsAny, LastPos
<1>3. First' = First /\ Final' = Final /\ Worthwhile' = Worthwhile
  BY <1>1, <1>2 DEF First, Final, Worthwhile
<1>4. \A p : Matches(p)' = Matches(p)
  BY <1>1, <1>2 DEF Matches
<1> QED
  BY <1>2, <1>3, <1>4

(* A position in range leaves room for the pattern.                        *)
LEMMA RoomAt ==
  ASSUME SearchTypeOK, Worthwhile, NEW p \in 1 .. LastPos
  PROVE  /\ p \in 1 .. Len(text)
         /\ p + (IF IsAny THEN 1 ELSE Len(pat)) - 1 <= Len(text)
<1>1. Len(text) \in Nat /\ Len(pat) \in Nat /\ Len(pat) >= 1 /\ LastPos \in Int
  BY Arguments DEF Worthwhile
<1> QED
  BY <1>1 DEF LastPos

LEMMA BeginKeepsInv ==
  ASSUME SearchInv, Begin
  PROVE  SearchInv'
<1>1. /\ at = 0 /\ res = NotYet /\ SearchTypeOK
      /\ UNCHANGED << form, text, pat, start >>
  BY DEF Begin, SearchInv
<1>2. /\ IsAny' = IsAny /\ LastPos' = LastPos /\ First' = First /\ Final' = Final
      /\ Worthwhile' = Worthwhile /\ \A p : Matches(p)' = Matches(p)
  BY <1>1, CallStays
<1>3. CASE ~ Worthwhile
  <2>1. at' = 0 /\ res' = 0
    BY <1>1, <1>3 DEF Begin
  <2>2. SearchTypeOK'
    BY <1>1, <2>1, Arguments DEF SearchTypeOK, NotYet
  <2> QED
    BY <1>2, <1>3, <2>1, <2>2 DEF SearchInv, InRange, Missed, Scanning, Outcome, NotYet
<1>4. CASE Worthwhile
  <2>1. at' = First /\ res' = NotYet
    BY <1>1, <1>4 DEF Begin
  <2>2. First \in 1 .. LastPos /\ (form \in Upward => First = start)
    BY <1>1, <1>4, Arguments DEF Worthwhile, First
  <2>3. at' \in 1 .. Len(text) /\ at' + (IF IsAny THEN 1 ELSE Len(pat)) - 1 <= Len(text)
    BY <1>1, <1>4, <2>1, <2>2, RoomAt
  <2>4. SearchTypeOK'
    BY <1>1, <1>2, <2>1, <2>3, Arguments DEF SearchTypeOK, NotYet
  <2>5. InRange'
    BY <1>1, <1>2, <1>4, <2>1, <2>2 DEF InRange
  <2>6. Tried' = {}
    BY <1>1, <1>2, <2>1, <2>2, Arguments DEF Tried
  <2> QED
    BY <1>2, <1>4, <2>1, <2>2, <2>4, <2>5, <2>6
    DEF SearchInv, Missed, Scanning, Outcome, NotYet
<1> QED
  BY <1>3, <1>4

LEMMA HitKeepsInv ==
  ASSUME SearchInv, Hit
  PROVE  SearchInv'
<1>1. /\ at # 0 /\ res = NotYet /\ Matches(at) /\ res' = at /\ SearchTypeOK /\ at' = at
      /\ UNCHANGED << form, text, pat, start >> /\ InRange /\ Missed
  BY DEF Hit, SearchInv, Scanning
<1>2. /\ IsAny' = IsAny /\ LastPos' = LastPos /\ First' = First /\ Final' = Final
      /\ Worthwhile' = Worthwhile /\ \A p : Matches(p)' = Matches(p)
  BY <1>1, CallStays
<1>3. at \in 1 .. Len(text) /\ at \in Nat
  BY <1>1, Arguments DEF SearchTypeOK
<1>4. SearchTypeOK'
  BY <1>1, <1>2, <1>3, Arguments DEF SearchTypeOK, NotYet
<1>5. InRange' /\ Tried' = Tried
  BY <1>1, <1>2 DEF InRange, Tried
<1>6. Missed'
  BY <1>1, <1>3 DEF Missed, Scanning, NotYet
<1>7. Outcome'
  BY <1>1, <1>2, <1>3, <1>5 DEF Outcome, Missed, Scanning, NotYet
<1> QED
  BY <1>4, <1>5, <1>6, <1>7 DEF SearchInv

LEMMA MissKeepsInv ==
  ASSUME SearchInv, Miss
  PROVE  SearchInv'
<1>1. /\ at # 0 /\ res = NotYet /\ ~ Matches(at) /\ SearchTypeOK
      /\ UNCHANGED << form, text, pat, start >> /\ InRange /\ Missed
  BY DEF Miss, SearchInv, Scanning
<1>2. /\ IsAny' = IsAny /\ LastPos' = LastPos /\ First' = First /\ Final' = Final
      /\ Worthwhile' = Worthwhile /\ \A p : Matches(p)' = Matches(p)
  BY <1>1, CallStays
<1>3. /\ Worthwhile /\ at \in 1 .. LastPos /\ at \in Int /\ LastPos \in Int
      /\ start \in Int /\ First \in Int
      /\ \A p \in Tried : ~ Matches(p)
  BY <1>1, Arguments DEF InRange, Missed, Scanning
<1>4. CASE at = Final
  <2>1. res' = 0 /\ at' = at
    BY <1>4 DEF Miss
  <2>2. SearchTypeOK'
    BY <1>1, <1>2, <2>1, Arguments DEF SearchTypeOK, NotYet
  <2>3. InRange' /\ Tried' = Tried
    BY <1>1, <1>2, <2>1 DEF InRange, Tried
  <2> QED
    BY <1>1, <1>2, <1>3, <1>4, <2>1, <2>2, <2>3
    DEF SearchInv, Missed, Scanning, Outcome, NotYet
<1>5. CASE at # Final
  <2>1. res' = NotYet /\ at' = IF form \in Upward THEN at + 1 ELSE at - 1
    BY <1>1, <1>5 DEF Miss
  <2>2. at' \in 1 .. LastPos
    BY <1>3, <1>5, <2>1 DEF Final
  <2>3. at' \in 1 .. Len(text) /\ at' + (IF IsAny THEN 1 ELSE Len(pat)) - 1 <= Len(text)
    BY <1>1, <1>3, <2>2, RoomAt
  <2>4. SearchTypeOK'
    <3>1. res' = NotYet
      BY <2>1
    <3> QED
      BY <1>1, <1>2, <2>3, <3>1, Arguments DEF SearchTypeOK, NotYet
  <2>5. InRange'
    BY <1>1, <1>2, <1>3, <2>1, <2>2 DEF InRange
  <2>6. \A p \in Tried' : p \in Tried \/ p = at
    BY <1>1, <1>2, <1>3, <2>1 DEF Tried
  <2>7. \A p \in Tried' : ~ Matches(p)'
    BY <1>1, <1>2, <1>3, <2>6
  <2> QED
    BY <2>1, <2>2, <2>4, <2>5, <2>7 DEF SearchInv, Missed, Scanning, Outcome, NotYet
<1> QED
  BY <1>4, <1>5

(* The invariant of a search holds in every state. *)
THEOREM SearchInvariance == SearchSpec => []SearchInv
<1>1. ASSUME SearchInv, UNCHANGED searchVars
      PROVE  SearchInv'
  <2>1. UNCHANGED << form, text, pat, start >> /\ at' = at /\ res' = res
    BY <1>1 DEF searchVars
  <2>2. /\ IsAny' = IsAny /\ LastPos' = LastPos /\ First' = First /\ Final' = Final
        /\ Worthwhile' = Worthwhile /\ \A p : Matches(p)' = Matches(p)
    BY <2>1, CallStays
  <2>3. Tried' = Tried
    BY <2>1, <2>2 DEF Tried
  <2>4. SearchTypeOK' /\ InRange' /\ Missed' /\ Outcome'
    BY <1>1, <2>1, <2>2, <2>3
    DEF SearchInv, SearchTypeOK, InRange, Missed, Scanning, Outcome
  <2> QED
    BY <2>4 DEF SearchInv
<1>2. SearchInv /\ [SearchNext]_searchVars => SearchInv'
  BY <1>1, BeginKeepsInv, HitKeepsInv, MissKeepsInv DEF SearchNext
<1> QED
  BY SearchInitially, <1>2, PTL DEF SearchSpec

(* The bounds of the scan: no comparison reads past the text.              *)
THEOREM SearchTypes == SearchSpec => []SearchTypeOK
BY SearchInvariance, PTL DEF SearchInv

LEMMA LeastIs ==
  ASSUME NEW S, S \subseteq Int, NEW k \in S, \A x \in S : k <= x
  PROVE  Least(S) = k
<1>1. \A x \in S : (\A y \in S : x <= y) => x = k
  OBVIOUS
<1> QED
  BY <1>1 DEF Least, Min

LEMMA GreatestIs ==
  ASSUME NEW S, S \subseteq Int, NEW k \in S, \A x \in S : x <= k
  PROVE  Greatest(S) = k
<1>1. \A x \in S : (\A y \in S : x >= y) => x = k
  OBVIOUS
<1>2. \A y \in S : k >= y
  OBVIOUS
<1> QED
  BY <1>1, <1>2 DEF Greatest, Max

(* The occurrences among which the call has to choose. *)
Candidates == IF form \in Upward THEN {p \in Occurrences : p >= start}
              ELSE IF start < 0 THEN Occurrences
              ELSE {p \in Occurrences : p <= start}

LEMMA NearestOfCandidates ==
  ASSUME SearchTypeOK, res # NotYet,
         res > 0 => /\ res \in Candidates
                    /\ IF form \in Upward THEN start >= 1 /\ \A x \in Candidates : res <= x
                       ELSE \A x \in Candidates : x <= res,
         res = 0 => Candidates = {} \/ (form \in Upward /\ start < 1)
  PROVE  FindsNearest
<1>1. start \in Int /\ res \in Nat /\ Candidates \subseteq Int
  <2>1. Len(text) \in Nat /\ text \in Seq(Units) /\ start \in Int
    BY Arguments
  <2>2. Occurrences \subseteq DOMAIN text
    BY DEF Occurrences
  <2>3. DOMAIN text \subseteq Int
    BY <2>1
  <2> QED
    BY <2>1, <2>2, <2>3 DEF SearchTypeOK, NotYet, Candidates
<1>2. CASE res > 0 /\ form \in Upward
  <2>1. Least(Candidates) = res
    BY <1>1, <1>2, LeastIs
  <2>2. Candidates = {p \in Occurrences : p >= start} /\ ~ (start < 1)
    BY <1>1, <1>2 DEF Candidates
  <2>3. res = IF start < 1 THEN 0 ELSE Least({p \in Occurrences : p >= start})
    BY <2>1, <2>2
  <2> QED
    BY <1>2, <2>3 DEF FindsNearest
<1>3. CASE res > 0 /\ form \notin Upward
  <2>1. Greatest(Candidates) = res
    BY <1>1, <1>3, GreatestIs
  <2>2. CASE start < 0
    <3>1. res = Greatest(Occurrences)
      BY <1>3, <2>1, <2>2 DEF Candidates
    <3>2. ~ (start >= 0) /\ form \notin Upward
      BY <1>1, <1>3, <2>2
    <3> QED
      BY <2>2, <3>1, <3>2, ZenonT(30) DEF FindsNearest
  <2>3. CASE start >= 0
    <3>1. res = Greatest({p \in Occurrences : p <= start})
      BY <1>1, <1>3, <2>1, <2>3 DEF Candidates
    <3> QED
      BY <1>1, <1>3, <2>3, <3>1 DEF FindsNearest
  <2> QED
    BY <1>1, <2>2, <2>3
<1>4. CASE res = 0 /\ form \in Upward
  <2>1. start < 1 \/ {p \in Occurrences : p >= start} = {}
    BY <1>4 DEF Candidates
  <2>2. res = IF start < 1 THEN 0 ELSE Least({p \in Occurrences : p >= start})
    BY <1>4, <2>1 DEF Least
  <2> QED
    BY <1>4, <2>2 DEF FindsNearest
<1>5. CASE res = 0 /\ form \notin Upward
  <2>1. Greatest(Candidates) = 0 /\ Candidates = {}
    BY <1>5 DEF Greatest
  <2>2. CASE start < 0
    <3>1. res = Greatest(Occurrences)
      BY <1>5, <2>1, <2>2 DEF Candidates
    <3>2. ~ (start >= 0) /\ form \notin Upward
      BY <1>1, <1>5, <2>2
    <3> QED
      BY <2>2, <3>1, <3>2, ZenonT(30) DEF FindsNearest
  <2>3. CASE start >= 0
    <3>1. res = Greatest({p \in Occurrences : p <= start})
      BY <1>1, <1>5, <2>1, <2>3 DEF Candidates
    <3> QED
      BY <1>1, <1>5, <2>3, <3>1 DEF FindsNearest
  <2> QED
    BY <1>1, <2>2, <2>3
<1> QED
  BY <1>1, <1>2, <1>3, <1>4, <1>5

LEMMA InvFindsNearest ==
  ASSUME SearchInv
  PROVE  FindsNearest
<1> SUFFICES ASSUME res # NotYet PROVE FindsNearest
  BY DEF FindsNearest
<1>1. SearchTypeOK /\ InRange /\ Outcome
  BY DEF SearchInv
<1>2. /\ text \in Seq(Units) /\ pat \in Seq(Units) /\ start \in Int
      /\ LastPos \in Int /\ First \in Int /\ at \in Int /\ res \in Int /\ at >= 0
  BY <1>1, Arguments DEF SearchTypeOK
<1>3. pat = << >> => Occurrences = {}
  <2>1. ASSUME pat = << >> PROVE DOMAIN pat = {}
    BY <2>1
  <2> QED
    BY <2>1 DEF Occurrences
<1>4. pat # << >> => Occurrences = {p \in 1 .. LastPos : Matches(p)}
  BY <1>2, MatchIsOccurrence
<1>5. ASSUME res > 0
      PROVE  /\ res \in Candidates
             /\ IF form \in Upward THEN start >= 1 /\ \A x \in Candidates : res <= x
                ELSE \A x \in Candidates : x <= res
  <2>1. /\ res = at /\ Matches(at) /\ \A p \in Tried : ~ Matches(p)
        /\ Worthwhile /\ at \in 1 .. LastPos
    BY <1>1, <1>2, <1>5 DEF Outcome, InRange
  <2>2. Occurrences = {p \in 1 .. LastPos : Matches(p)}
    BY <1>4, <2>1 DEF Worthwhile
  <2>3. CASE form \in Upward
    <3>1. start >= 1 /\ start <= at
      BY <1>1, <1>2, <2>1, <2>3 DEF Worthwhile, InRange
    <3> QED
      BY <1>2, <2>1, <2>2, <2>3, <3>1 DEF Candidates, Tried
  <2>4. CASE form \notin Upward
    <3>1. at <= First /\ First <= LastPos
      BY <1>1, <1>2, <2>1, <2>4 DEF InRange
    <3>2. start < 0 => First = LastPos
      BY <2>4 DEF First
    <3>3. start >= 0 => First <= start /\ (First = start \/ First = LastPos)
      BY <1>2, <2>4 DEF First
    <3> QED
      BY <1>2, <2>1, <2>2, <2>4, <3>1, <3>2, <3>3 DEF Candidates, Tried
  <2> QED
    BY <2>3, <2>4
<1>6. ASSUME res = 0
      PROVE  Candidates = {} \/ (form \in Upward /\ start < 1)
  <2>1. CASE pat = << >>
    BY <1>3, <2>1 DEF Candidates
  <2>2. CASE pat # << >> /\ ~ Worthwhile
    <3>1. Occurrences = {p \in 1 .. LastPos : Matches(p)}
      BY <1>4, <2>2
    <3>2. LastPos < 1 \/ (form \in Upward /\ start \notin 1 .. LastPos)
                      \/ (form \notin Upward /\ start = 0)
      BY <1>2, <2>2 DEF Worthwhile
    <3> QED
      BY <1>2, <3>1, <3>2 DEF Candidates
  <2>3. CASE pat # << >> /\ Worthwhile
    <3>1. Occurrences = {p \in 1 .. LastPos : Matches(p)}
      BY <1>4, <2>3
    <3>2. at = Final /\ ~ Matches(at) /\ \A p \in Tried : ~ Matches(p)
      BY <1>1, <1>2, <1>6, <2>3 DEF Outcome
    <3>3. at # 0
      BY <1>1, <2>3 DEF Outcome
    <3>4. CASE form \in Upward
      BY <1>2, <3>1, <3>2, <3>4 DEF Candidates, Tried, Final
    <3>5. CASE form \notin Upward
      <4>1. /\ start < 0 => First = LastPos
            /\ start >= 0 => \/ First = start
                             \/ First = LastPos /\ start > LastPos
        BY <1>2, <3>5 DEF First
      <4> QED
        BY <1>2, <3>1, <3>2, <3>5, <4>1 DEF Candidates, Tried, Final
    <3> QED
      BY <3>4, <3>5
  <2> QED
    BY <2>1, <2>2, <2>3
<1> QED
  BY <1>1, <1>5, <1>6, NearestOfCandidates

(* INSTR and INSTRREV and their ANY forms find what they promise: the      *)
(* nearest occurrence in the direction of the search.                      *)
THEOREM SearchFindsNearest == SearchSpec => []FindsNearest
BY SearchInvariance, InvFindsNearest, PTL

(* A match starts with the first unit of the pattern, and no well-formed   *)
(* pattern begins with a low half.                                         *)
LEMMA InvFoundAtBoundary ==
  ASSUME SearchInv
  PROVE  FoundAtBoundary
<1> SUFFICES ASSUME WellFormed(pat), ~ IsAny, res > 0
             PROVE  Boundary(text, res)
  BY DEF FoundAtBoundary
<1>1. SearchTypeOK /\ InRange /\ Outcome
  BY DEF SearchInv
<1>2. pat \in Seq(Units) /\ at \in Int /\ res \in Int /\ Len(pat) \in Nat
  BY <1>1, Arguments
<1>3. res = at /\ Matches(at) /\ Worthwhile
  BY <1>1, <1>2 DEF Outcome, InRange
<1>4. 1 \in DOMAIN pat
  <2>1. pat # << >> /\ Len(pat) >= 1
    BY <1>1, <1>3, Arguments DEF Worthwhile
  <2> QED
    BY <1>2, <2>1
<1>5. text[at + 1 - 1] = pat[1]
  BY <1>3, <1>4 DEF Matches
<1>6. pat[1] \notin Low
  BY <1>4 DEF WellFormed
<1> QED
  BY <1>2, <1>3, <1>5, <1>6 DEF Boundary

(* Searching well-formed text for well-formed text finds characters, never *)
(* halves of them.                                                         *)
THEOREM SearchFindsCharacters == SearchSpec => []FoundAtBoundary
BY SearchInvariance, InvFoundAtBoundary, PTL

-----------------------------------------------------------------------------
(***************************************************************************)
(* UStrTrim.  The window, what was cut off either side of it, and why the  *)
(* loop of an end stopped.                                                 *)
(***************************************************************************)

NullSet == null => form = "any" /\ pat = << >>

(* Of the text, the units from a + 1 to b are a run of what is stripped. *)
RunIn(a, b) ==
  IF form # "ex" THEN \A i \in 1 .. b - a : text[a + i] \in Asked
  ELSE \/ a = b
       \/ /\ pat # << >> /\ (b - a) % Len(pat) = 0
          /\ \A i \in 1 .. b - a : text[a + i] = pat[((i - 1) % Len(pat)) + 1]

(* What is gone from either end is what was asked for. *)
CutRuns == RunIn(0, first) /\ RunIn(last, Len(text))

LeftStuck == "left" \in mode => ~ (Room /\ Strippable(first))

RightStuck ==
  "right" \in mode => ~ (Room /\ Strippable(last - Stride))

Phases ==
  /\ "left" \notin mode => first = 0
  /\ "right" \notin mode \/ phase = "left" => last = Len(text)
  /\ phase # "left" => LeftStuck
  /\ phase = "done" => RightStuck

TrimInv == TrimTypeOK /\ NullSet /\ CutRuns /\ Phases /\ KeepsCharacters

(* The operands and the window are what they should be.                    *)
LEMMA TrimTyped ==
  ASSUME TrimTypeOK
  PROVE  /\ text \in Seq(Units) /\ Len(text) \in Nat /\ DOMAIN text = 1 .. Len(text)
         /\ pat \in Seq(Units) /\ Len(pat) \in Nat /\ DOMAIN pat = 1 .. Len(pat)
         /\ pat # << >> => Len(pat) >= 1
         /\ first \in Nat /\ last \in Nat /\ first <= last /\ last <= Len(text)
<1>1. text \in Seq(Units) /\ pat \in Seq(Units)
  BY TrimAssumption, UnitsAssumption DEF TrimTypeOK
<1>2. /\ Len(text) \in Nat /\ DOMAIN text = 1 .. Len(text)
      /\ Len(pat) \in Nat /\ DOMAIN pat = 1 .. Len(pat)
      /\ pat # << >> => Len(pat) # 0
  BY <1>1
<1>3. first \in 0 .. last /\ last \in 0 .. Len(text)
  BY DEF TrimTypeOK
<1> QED
  BY <1>1, <1>2, <1>3

LEMMA Window ==
  ASSUME NEW s \in Seq(Units), NEW a \in Nat, NEW b \in Nat, a <= b, b <= Len(s)
  PROVE  /\ SubSeq(s, a + 1, b) \in Seq(Units)
         /\ Len(SubSeq(s, a + 1, b)) = b - a
         /\ \A i \in 1 .. b - a : SubSeq(s, a + 1, b)[i] = s[a + i]
<1>1. /\ Len(s) \in Nat /\ \A i \in a + 1 .. b : i \in 1 .. Len(s)
  OBVIOUS
<1> QED
  BY <1>1

LEMMA WindowOfWindow ==
  ASSUME NEW s \in Seq(Units), NEW a \in Nat, NEW b \in Nat, b <= Len(s),
         NEW c \in Nat, NEW d \in Nat, c <= d, a + d <= b
  PROVE  SubSeq(SubSeq(s, a + 1, b), c + 1, d) = SubSeq(s, a + c + 1, a + d)
<1> DEFINE outer == SubSeq(s, a + 1, b)
           inner == SubSeq(outer, c + 1, d)
           whole == SubSeq(s, a + c + 1, a + d)
<1>1. /\ outer \in Seq(Units) /\ Len(outer) = b - a
      /\ \A i \in 1 .. b - a : outer[i] = s[a + i]
  BY Window
<1>2. /\ inner \in Seq(Units) /\ Len(inner) = d - c
      /\ \A i \in 1 .. d - c : inner[i] = outer[c + i]
  <2> HIDE DEF outer
  <2> QED
    BY <1>1, Window
<1>3. /\ whole \in Seq(Units) /\ Len(whole) = d - c
      /\ \A i \in 1 .. d - c : whole[i] = s[a + c + i]
  <2>1. a + c \in Nat /\ a + d \in Nat /\ a + c <= a + d /\ a + d <= Len(s)
    OBVIOUS
  <2> QED
    BY <2>1, Window
<1>4. \A i \in 1 .. d - c : inner[i] = whole[i]
  <2> HIDE DEF outer, inner, whole
  <2>1. \A i \in 1 .. d - c : c + i \in 1 .. b - a /\ a + (c + i) = a + c + i
    OBVIOUS
  <2> QED
    BY <1>1, <1>2, <1>3, <2>1
<1> HIDE DEF outer, inner, whole
<1>5. inner = whole
  BY <1>2, <1>3, <1>4, SeqEqual
<1> QED
  BY <1>5 DEF inner, whole, outer

(* A number leaves one remainder only.                                     *)
LEMMA RestIsUnique ==
  ASSUME NEW m \in Nat, m >= 1, NEW p \in Int, NEW q \in Int,
         NEW r \in Int, NEW s \in Int, 0 <= r, r < m, 0 <= s, s < m,
         m * p + r = m * q + s
  PROVE  r = s
<1>1. m * (p - q) = s - r
  OBVIOUS
<1>2. CASE p - q >= 1
  <2>1. m * (p - q) >= m
    BY <1>2
  <2> QED
    BY <1>1, <2>1
<1>3. CASE p - q <= -1
  <2>1. m * (p - q) <= - m
    BY <1>3
  <2> QED
    BY <1>1, <2>1
<1>4. CASE p = q
  BY <1>4
<1> QED
  BY <1>2, <1>3, <1>4

LEMMA Division ==
  ASSUME NEW m \in Nat, m >= 1, NEW k \in Nat
  PROVE  /\ k \div m \in Int /\ k % m \in 0 .. m - 1
         /\ k = m * (k \div m) + (k % m)
OBVIOUS

(* Remainders by the length of the string to strip.                        *)
LEMMA Remainders ==
  ASSUME NEW m \in Nat, m >= 1, NEW k \in Nat
  PROVE  /\ k < m => k % m = k
         /\ m % m = 0
         /\ k % m = 0 => \A n \in Nat : (k + n) % m = n % m
<1> DEFINE q == k \div m
           r == k % m
<1>1. q \in Int /\ r \in 0 .. m - 1 /\ k = m * q + r
  BY Division
<1>2. ASSUME k < m PROVE r = k
  <2> HIDE DEF q, r
  <2>1. m * 0 = 0 /\ 0 \in Int
    OBVIOUS
  <2>2. m * q + r = m * 0 + k
    BY <1>1, <2>1
  <2>3. k \in Int /\ 0 <= k /\ r \in Int /\ 0 <= r /\ r < m
    BY <1>1
  <2> QED
    BY <1>1, <1>2, <2>1, <2>2, <2>3, RestIsUnique
<1>3. m % m = 0
  <2> DEFINE p == m \div m
             s == m % m
  <2>1. p \in Int /\ s \in 0 .. m - 1 /\ m = m * p + s
    BY Division
  <2> HIDE DEF p, s
  <2>2. m * 1 = m /\ 1 \in Int /\ 0 \in Int
    OBVIOUS
  <2>3. m * p + s = m * 1 + 0
    BY <2>1, <2>2
  <2>4. s = 0
    BY <2>1, <2>2, <2>3, RestIsUnique
  <2> QED
    BY <2>4 DEF s
<1>4. ASSUME r = 0, NEW n \in Nat
      PROVE  (k + n) % m = n % m
  <2> DEFINE p == (k + n) \div m
             s == (k + n) % m
             u == n \div m
             v == n % m
  <2>1. p \in Int /\ s \in 0 .. m - 1 /\ k + n = m * p + s
    <3>1. k + n \in Nat
      OBVIOUS
    <3> QED
      BY <3>1, Division
  <2>2. u \in Int /\ v \in 0 .. m - 1 /\ n = m * u + v
    BY Division
  <2> HIDE DEF p, s, u, v, q, r
  <2>3. q + u \in Int /\ m * p + s = m * (q + u) + v
    <3>1. m * (q + u) = m * q + m * u
      BY <1>1, <2>2
    <3> QED
      BY <1>1, <1>4, <2>1, <2>2, <3>1
  <2>4. s = v
    <3>1. s \in Int /\ 0 <= s /\ s < m /\ v \in Int /\ 0 <= v /\ v < m
      BY <2>1, <2>2
    <3> QED
      BY <2>1, <2>3, <3>1, RestIsUnique
  <2> QED
    BY <2>4 DEF s, v
<1> QED
  BY <1>2, <1>3, <1>4

LEMMA RunOfWindow ==
  ASSUME TrimTypeOK,
         NEW a \in Nat, NEW b \in Nat, a <= b, b <= Len(text)
  PROVE  IsRun(SubSeq(text, a + 1, b)) <=> RunIn(a, b)
<1> DEFINE s == SubSeq(text, a + 1, b)
<1>1. /\ s \in Seq(Units) /\ Len(s) = b - a
      /\ \A i \in 1 .. b - a : s[i] = text[a + i]
  BY TrimTyped, Window
<1> HIDE DEF s
<1>2. DOMAIN s = 1 .. b - a
  BY <1>1
<1>3. s = << >> <=> a = b
  BY <1>1, EmptySeq
<1>4. IsRun(s) <=> RunIn(a, b)
  <2>1. CASE form # "ex"
    BY <1>1, <1>2, <2>1 DEF IsRun, RunIn
  <2>2. CASE form = "ex"
    BY <1>1, <1>2, <1>3, <2>2 DEF IsRun, RunIn
  <2> QED
    BY <2>1, <2>2
<1> QED
  BY <1>4 DEF s

LEMMA RunsJoin ==
  ASSUME TrimTypeOK,
         NEW a \in Nat, NEW b \in Nat, NEW c \in Nat, a <= b, b <= c,
         RunIn(a, b), RunIn(b, c)
  PROVE  RunIn(a, c)
<1>1. CASE form # "ex"
  <2>1. ASSUME NEW i \in 1 .. c - a
        PROVE  text[a + i] \in Asked
    <3>1. CASE i <= b - a
      <4>1. i \in 1 .. b - a
        BY <3>1
      <4> QED
        BY <1>1, <4>1 DEF RunIn
    <3>2. CASE i > b - a
      <4>1. i - (b - a) \in 1 .. c - b /\ b + (i - (b - a)) = a + i
        BY <3>2
      <4> QED
        BY <1>1, <4>1 DEF RunIn
    <3> QED
      BY <3>1, <3>2
  <2> QED
    BY <1>1, <2>1 DEF RunIn
<1>2. CASE form = "ex" /\ (a = b \/ b = c)
  BY <1>2
<1>3. CASE form = "ex" /\ a # b /\ b # c
  <2> DEFINE m == Len(pat)
             k == b - a
  <2>1. /\ pat # << >> /\ m \in Nat /\ m >= 1 /\ k \in Nat /\ k % m = 0
        /\ (c - b) % m = 0
        /\ \A i \in 1 .. k : text[a + i] = pat[((i - 1) % m) + 1]
        /\ \A i \in 1 .. c - b : text[b + i] = pat[((i - 1) % m) + 1]
    <3>1. pat # << >> /\ m \in Nat /\ m >= 1 /\ k \in Nat
      BY <1>3, TrimTyped DEF RunIn
    <3> QED
      BY <1>3, <3>1 DEF RunIn
  <2>2. \A n \in Nat : (k + n) % m = n % m
    <3> HIDE DEF k, m
    <3> QED
      BY <2>1, Remainders
  <2>3. (c - a) % m = 0
    <3>1. c - b \in Nat /\ c - a = k + (c - b)
      OBVIOUS
    <3> HIDE DEF k, m
    <3> QED
      BY <2>1, <2>2, <3>1
  <2>4. ASSUME NEW i \in 1 .. c - a
        PROVE  text[a + i] = pat[((i - 1) % m) + 1]
    <3>1. CASE i <= k
      BY <2>1, <3>1
    <3>2. CASE i > k
      <4> DEFINE j == i - k
      <4>1. /\ j \in 1 .. c - b /\ b + j = a + i
            /\ j - 1 \in Nat /\ i - 1 = k + (j - 1)
        BY <3>2
      <4> HIDE DEF j, k, m
      <4>2. (i - 1) % m = (j - 1) % m
        BY <2>2, <4>1
      <4>3. text[b + j] = pat[((j - 1) % m) + 1]
        BY <2>1, <4>1
      <4> QED
        BY <4>1, <4>2, <4>3
    <3> QED
      BY <2>1, <3>1, <3>2
  <2> QED
    BY <1>3, <2>1, <2>3, <2>4 DEF RunIn
<1> QED
  BY <1>1, <1>2, <1>3

(* What the loop looks for is one run, a blank, a unit of the set or a     *)
(* copy of the string.                                                     *)
LEMMA MatchIsRun ==
  ASSUME TrimTypeOK, form = "ex" => pat # << >>,
         NEW a \in Nat, a + Stride <= Len(text)
  PROVE  /\ Stride \in Nat /\ Stride >= 1
         /\ Strippable(a) <=> RunIn(a, a + Stride)
<1>0. Stride \in Nat /\ Stride >= 1
  BY TrimTyped DEF Stride
<1>1. CASE form = "ex"
  <2> DEFINE m == Len(pat)
  <2>1. /\ Stride = m /\ m \in Nat /\ m >= 1 /\ pat # << >>
        /\ DOMAIN pat = 1 .. m
    BY <1>1, TrimTyped DEF Stride
  <2>2. m % m = 0 /\ \A i \in 1 .. m : (i - 1) % m = i - 1
    <3> HIDE DEF m
    <3>1. \A i \in 1 .. m : i - 1 \in Nat /\ i - 1 < m
      BY <2>1
    <3> QED
      BY <2>1, <3>1, Remainders
  <2>3. (a + m) - a = m /\ a # a + m
    BY <2>1
  <2>4. RunIn(a, a + m) <=>
          \A i \in 1 .. m : text[a + i] = pat[((i - 1) % m) + 1]
    <3> HIDE DEF m
    <3>1. RunIn(a, a + m) <=>
            /\ pat # << >> /\ m % m = 0
            /\ \A i \in 1 .. m : text[a + i] = pat[((i - 1) % m) + 1]
      BY <1>1, <2>3, Zenon DEF RunIn, m
    <3> QED
      BY <2>1, <2>2, <3>1
  <2>5. Strippable(a) <=> \A i \in 1 .. m : text[a + i] = pat[i]
    BY <1>1, <2>1 DEF Strippable
  <2>6. \A i \in 1 .. m : pat[((i - 1) % m) + 1] = pat[i]
    <3> HIDE DEF m
    <3>1. \A i \in 1 .. m : ((i - 1) % m) + 1 = i
      BY <2>1, <2>2
    <3> QED
      BY <3>1
  <2> QED
    BY <1>0, <2>1, <2>4, <2>5, <2>6
<1>2. CASE form # "ex"
  <2>1. Stride = 1 /\ form \in {"plain", "any"}
    BY <1>2 DEF Stride, TrimTypeOK, TrimForms
  <2>2. RunIn(a, a + 1) <=> text[a + 1] \in Asked
    <3>1. 1 .. (a + 1) - a = {1}
      OBVIOUS
    <3> QED
      BY <1>2, <3>1 DEF RunIn
  <2>3. Strippable(a) <=> text[a + 1] \in Asked
    <3>1. CASE form = "plain"
      BY <1>2, <3>1 DEF Strippable, Strips, Asked
    <3>2. CASE form = "any"
      BY <1>2, <3>2 DEF Strippable, Strips, Asked
    <3> QED
      BY <2>1, <3>1, <3>2
  <2> QED
    BY <1>0, <2>1, <2>2, <2>3
<1> QED
  BY <1>1, <1>2

(* While there is room the window has one more piece to lose. *)
LEMMA RoomForOne ==
  ASSUME TrimTypeOK, Room
  PROVE  /\ form = "ex" => pat # << >>
         /\ Stride \in Nat /\ Stride >= 1
         /\ first + Stride <= last
BY TrimTyped DEF Room, Stride

LEMMA NextInside ==
  ASSUME NEW a \in Nat, NEW b \in Nat, NEW c \in Nat, NEW i \in 1 .. b - c,
         i + (c - a) < b - a
  PROVE  i + 1 \in 1 .. b - c /\ (i + 1) + (c - a) = (i + (c - a)) + 1
OBVIOUS

(* Pieces that do not part a character leave whole characters. *)
LEMMA FrontCut ==
  ASSUME NEW s \in Seq(Units),
         NEW a \in Nat, NEW c \in Nat, NEW b \in Nat,
         a < c, c <= b, b <= Len(s), s[c] \notin High,
         WellFormed(SubSeq(s, a + 1, b))
  PROVE  WellFormed(SubSeq(s, c + 1, b))
<1> DEFINE u == SubSeq(s, a + 1, b)
           v == SubSeq(s, c + 1, b)
<1>1. /\ u \in Seq(Units) /\ Len(u) = b - a
      /\ \A i \in 1 .. b - a : u[i] = s[a + i]
  <2>1. a <= b
    OBVIOUS
  <2> QED
    BY <2>1, Window
<1>2. /\ v \in Seq(Units) /\ Len(v) = b - c
      /\ \A i \in 1 .. b - c : v[i] = s[c + i]
  BY Window
<1> HIDE DEF u, v
<1>3. /\ DOMAIN u = 1 .. b - a /\ DOMAIN v = 1 .. b - c
      /\ \A i \in 0 .. b - c : /\ i + (c - a) \in 1 .. b - a
                               /\ a + (i + (c - a)) = c + i
  BY <1>1, <1>2
<1>4. /\ \A i \in 1 .. b - c : v[i] = u[i + (c - a)]
      /\ u[c - a] \notin High
  <2>1. c - a \in 1 .. b - a /\ a + (c - a) = c
    OBVIOUS
  <2>2. u[c - a] \notin High
    BY <1>1, <2>1
  <2>3. ASSUME NEW i \in 1 .. b - c
        PROVE  v[i] = u[i + (c - a)]
    <3> DEFINE j == i + (c - a)
    <3>1. j \in 1 .. b - a /\ a + j = c + i
      OBVIOUS
    <3>2. u[j] = s[a + j] /\ v[i] = s[c + i]
      BY <1>1, <1>2, <3>1
    <3> QED
      BY <3>1, <3>2
  <2> QED
    BY <2>2, <2>3
<1>5. ASSUME NEW i \in 1 .. b - c
      PROVE  /\ v[i] \in High => i < Len(v) /\ v[i + 1] \in Low
             /\ v[i] \in Low => i > 1 /\ v[i - 1] \in High
  <2> DEFINE j == i + (c - a)
  <2>1. j \in DOMAIN u /\ v[i] = u[j] /\ j \in Int
    BY <1>3, <1>4
  <2>2. /\ u[j] \in High => j < Len(u) /\ u[j + 1] \in Low
        /\ u[j] \in Low => j > 1 /\ u[j - 1] \in High
    <3> HIDE DEF j
    <3> QED
      BY <2>1 DEF WellFormed, u
  <2>3. v[i] \in High => i < Len(v) /\ v[i + 1] \in Low
    <3> SUFFICES ASSUME v[i] \in High PROVE i < Len(v) /\ v[i + 1] \in Low
      OBVIOUS
    <3>1. j < Len(u) /\ u[j + 1] \in Low
      BY <2>1, <2>2
    <3>2. j < b - a
      BY <1>1, <3>1
    <3>3. i + 1 \in 1 .. b - c /\ (i + 1) + (c - a) = j + 1
      BY <3>2, NextInside
    <3>4. i < Len(v)
      BY <1>2, <3>3
    <3> QED
      BY <1>4, <3>1, <3>3, <3>4
  <2>4. v[i] \in Low => i > 1 /\ v[i - 1] \in High
    <3> SUFFICES ASSUME v[i] \in Low PROVE i > 1 /\ v[i - 1] \in High
      OBVIOUS
    <3>1. u[j - 1] \in High
      BY <2>1, <2>2
    <3>2. i # 1
      <4>1. ASSUME i = 1 PROVE j - 1 = c - a
        BY <4>1
      <4> QED
        BY <1>4, <3>1, <4>1
    <3>3. i > 1 /\ i - 1 \in 1 .. b - c /\ (i - 1) + (c - a) = j - 1
      BY <3>2
    <3> QED
      BY <1>4, <3>1, <3>3
  <2> QED
    BY <2>3, <2>4
<1>6. WellFormed(v)
  BY <1>3, <1>5 DEF WellFormed
<1> QED
  BY <1>6 DEF v

LEMMA BackCut ==
  ASSUME NEW s \in Seq(Units),
         NEW a \in Nat, NEW c \in Nat, NEW b \in Nat,
         a <= c, c < b, b <= Len(s), s[c + 1] \notin Low,
         WellFormed(SubSeq(s, a + 1, b))
  PROVE  WellFormed(SubSeq(s, a + 1, c))
<1> DEFINE u == SubSeq(s, a + 1, b)
           v == SubSeq(s, a + 1, c)
<1>1. /\ u \in Seq(Units) /\ Len(u) = b - a
      /\ \A i \in 1 .. b - a : u[i] = s[a + i]
  BY Window
<1>2. /\ v \in Seq(Units) /\ Len(v) = c - a
      /\ \A i \in 1 .. c - a : v[i] = s[a + i]
  <2>1. c <= Len(s)
    OBVIOUS
  <2> QED
    BY <2>1, Window
<1> HIDE DEF u, v
<1>3. DOMAIN u = 1 .. b - a /\ DOMAIN v = 1 .. c - a
  BY <1>1, <1>2
<1>4. /\ \A i \in 1 .. c - a : i \in 1 .. b - a /\ v[i] = u[i]
      /\ u[(c - a) + 1] \notin Low
  <2>1. (c - a) + 1 \in 1 .. b - a /\ a + ((c - a) + 1) = c + 1
    OBVIOUS
  <2>2. u[(c - a) + 1] \notin Low
    BY <1>1, <2>1
  <2>3. ASSUME NEW i \in 1 .. c - a
        PROVE  i \in 1 .. b - a /\ v[i] = u[i]
    <3>1. i \in 1 .. b - a
      OBVIOUS
    <3> QED
      BY <1>1, <1>2, <3>1
  <2> QED
    BY <2>2, <2>3
<1>5. ASSUME NEW i \in 1 .. c - a
      PROVE  /\ v[i] \in High => i < Len(v) /\ v[i + 1] \in Low
             /\ v[i] \in Low => i > 1 /\ v[i - 1] \in High
  <2>1. /\ u[i] \in High => i < Len(u) /\ u[i + 1] \in Low
        /\ u[i] \in Low => i > 1 /\ u[i - 1] \in High
    BY <1>3, <1>4 DEF WellFormed, u
  <2>2. v[i] \in High => i < Len(v) /\ v[i + 1] \in Low
    <3> SUFFICES ASSUME v[i] \in High PROVE i < Len(v) /\ v[i + 1] \in Low
      OBVIOUS
    <3>1. u[i + 1] \in Low
      BY <1>4, <2>1
    <3>2. i # c - a
      BY <1>4, <3>1
    <3>3. i < Len(v) /\ i + 1 \in 1 .. c - a
      BY <1>2, <3>2
    <3> QED
      BY <1>4, <3>1, <3>3
  <2>3. v[i] \in Low => i > 1 /\ v[i - 1] \in High
    <3> SUFFICES ASSUME v[i] \in Low PROVE i > 1 /\ v[i - 1] \in High
      OBVIOUS
    <3>1. i > 1 /\ u[i - 1] \in High
      BY <1>4, <2>1
    <3>2. i - 1 \in 1 .. c - a
      BY <3>1
    <3> QED
      BY <1>4, <3>1, <3>2
  <2> QED
    BY <2>2, <2>3
<1>6. WellFormed(v)
  BY <1>3, <1>5 DEF WellFormed
<1> QED
  BY <1>6 DEF v

(***************************************************************************)
(* The steps.  The call stays, and with it all that is said of it.         *)
(***************************************************************************)

LEMMA TrimCallStays ==
  ASSUME UNCHANGED operands
  PROVE  /\ UNCHANGED << form, text, pat, mode, null >>
         /\ Stride' = Stride /\ Asked' = Asked
         /\ \A i : Strippable(i)' = Strippable(i)
         /\ \A a, b : RunIn(a, b)' = RunIn(a, b)
<1>1. UNCHANGED << form, text, pat, mode, null >>
  BY DEF operands
<1>2. Stride' = Stride /\ Asked' = Asked
  BY <1>1 DEF Stride, Asked
<1>3. \A i : Strippable(i)' = Strippable(i)
  BY <1>1 DEF Strippable, Strips
<1>4. \A a, b : RunIn(a, b)' = RunIn(a, b)
  BY <1>1, <1>2 DEF RunIn
<1> QED
  BY <1>1, <1>2, <1>3, <1>4

(* What was cut off, as runs of the text. *)
LEMMA CutsAreRuns ==
  ASSUME TrimTypeOK
  PROVE  /\ IsRun(CutLeft) <=> RunIn(0, first)
         /\ IsRun(CutRight) <=> RunIn(last, Len(text))
<1>1. /\ first \in Nat /\ last \in Nat /\ Len(text) \in Nat /\ 0 \in Nat
      /\ 0 <= first /\ first <= Len(text) /\ last <= Len(text)
      /\ Len(text) <= Len(text) /\ 0 + 1 = 1
  BY TrimTyped
<1>2. IsRun(SubSeq(text, 0 + 1, first)) <=> RunIn(0, first)
  BY <1>1, RunOfWindow
<1>3. IsRun(SubSeq(text, last + 1, Len(text))) <=> RunIn(last, Len(text))
  BY <1>1, RunOfWindow
<1> QED
  BY <1>1, <1>2, <1>3 DEF CutLeft, CutRight

(* No piece that is stripped ends in the first half of a character, nor    *)
(* begins with the second: blanks are none, and a well-formed string has   *)
(* both.                                                                   *)
LEMMA PieceEndsWhole ==
  ASSUME TrimTypeOK, NullSet, WellFormed(pat), form # "any",
         Room, Strippable(first)
  PROVE  text[first + Stride] \notin High
<1>1. CASE form = "ex"
  <2>1. /\ Len(pat) \in DOMAIN pat /\ Stride = Len(pat)
        /\ Len(pat) \in Nat
    BY <1>1, TrimTyped DEF Room, Stride
  <2>2. text[first + Len(pat)] = pat[Len(pat)]
    BY <1>1, <2>1 DEF Strippable
  <2>3. pat[Len(pat)] \notin High
    <3>1. pat[Len(pat)] \in High => Len(pat) < Len(pat)
      BY <2>1 DEF WellFormed
    <3>2. ~ (Len(pat) < Len(pat))
      BY <2>1
    <3> QED
      BY <3>1, <3>2
  <2> QED
    BY <2>1, <2>2, <2>3
<1>2. CASE form # "ex"
  BY <1>2, TrimAssumption DEF Stride, Strippable, Strips,
              TrimTypeOK, TrimForms
<1> QED
  BY <1>1, <1>2

LEMMA PieceBeginsWhole ==
  ASSUME TrimTypeOK, NullSet, WellFormed(pat), form # "any",
         Room, Strippable(last - Stride)
  PROVE  text[(last - Stride) + 1] \notin Low
<1>1. CASE form = "ex"
  <2>1. 1 \in DOMAIN pat
    BY <1>1, TrimTyped DEF Room
  <2>2. text[(last - Stride) + 1] = pat[1]
    BY <1>1, <2>1 DEF Strippable
  <2>3. pat[1] \notin Low
    BY <2>1 DEF WellFormed
  <2> QED
    BY <2>2, <2>3
<1>2. CASE form # "ex"
  BY <1>2, TrimAssumption DEF Strippable, Strips,
              TrimTypeOK, TrimForms
<1> QED
  BY <1>1, <1>2

LEMMA TrimInitially == ASSUME TrimInit PROVE TrimInv
<1>1. /\ form \in TrimForms /\ text \in Texts /\ pat \in Patterns
      /\ mode \in SUBSET Ends /\ null \in BOOLEAN
      /\ null => form = "any" /\ pat = << >>
      /\ first = 0 /\ last = Len(text) /\ phase = "left"
  BY DEF TrimInit
<1>2. text \in Seq(Units) /\ Len(text) \in Nat
  BY <1>1, UnitsAssumption
<1>3. TrimTypeOK
  BY <1>1, <1>2 DEF TrimTypeOK, Ends
<1>4. RunIn(0, first) /\ RunIn(last, Len(text))
  <2>1. 1 .. 0 - 0 = {} /\ 1 .. Len(text) - Len(text) = {}
    BY <1>2
  <2> QED
    BY <1>1, <2>1 DEF RunIn
<1>5. CutRuns
  BY <1>4 DEF CutRuns
<1>6. Kept = text
  <2>1. 0 + 1 = 1 /\ SubSeq(text, 1, Len(text)) = text
    BY <1>2
  <2> QED
    BY <1>1, <2>1 DEF Kept
<1> QED
  BY <1>1, <1>3, <1>5, <1>6
  DEF TrimInv, NullSet, Phases, LeftStuck, RightStuck,
      KeepsCharacters, WellFormed

LEMMA StripLeftKeepsInv ==
  ASSUME TrimInv, StripLeft
  PROVE  TrimInv'
<1> DEFINE k == Stride
<1>1. /\ TrimTypeOK /\ NullSet /\ CutRuns /\ Phases /\ KeepsCharacters
      /\ phase = "left" /\ "left" \in mode /\ Room /\ Strippable(first)
      /\ first' = first + k /\ last' = last /\ phase' = phase
      /\ UNCHANGED operands
  BY DEF TrimInv, StripLeft
<1>2. /\ UNCHANGED << form, text, pat, mode, null >>
      /\ Stride' = k /\ \A a, b : RunIn(a, b)' = RunIn(a, b)
  BY <1>1, TrimCallStays
<1>3. /\ k \in Nat /\ k >= 1 /\ first + k <= last
      /\ form = "ex" => pat # << >>
  BY <1>1, RoomForOne
<1>4. /\ first \in Nat /\ last \in Nat /\ Len(text) \in Nat /\ last <= Len(text)
      /\ text \in Seq(Units)
  BY <1>1, TrimTyped
<1> HIDE DEF k
<1>5. TrimTypeOK'
  BY <1>1, <1>2, <1>3, <1>4 DEF TrimTypeOK
<1>6. RunIn(0, first + k) /\ RunIn(last, Len(text))
  <2>1. RunIn(0, first) /\ RunIn(last, Len(text))
    BY <1>1 DEF CutRuns
  <2>2. first + k <= Len(text) /\ first + k \in Nat /\ first <= first + k
    BY <1>3, <1>4
  <2>3. RunIn(first, first + k)
    BY <1>1, <1>3, <1>4, <2>2, MatchIsRun DEF k
  <2>4. 0 \in Nat /\ 0 <= first
    BY <1>4
  <2>5. RunIn(0, first + k)
    BY <1>1, <1>4, <2>1, <2>2, <2>3, <2>4, RunsJoin
  <2> QED
    BY <2>1, <2>5
<1>7. CutRuns'
  BY <1>1, <1>2, <1>6 DEF CutRuns
<1>8. Phases'
  BY <1>1, <1>2 DEF Phases
<1>9. KeepsCharacters'
  <2> SUFFICES ASSUME WellFormed(text), WellFormed(pat), form # "any"
               PROVE  WellFormed(SubSeq(text, first + k + 1, last))
    BY <1>1, <1>2 DEF KeepsCharacters, Kept, WellFormed
  <2>1. WellFormed(SubSeq(text, first + 1, last))
    BY <1>1 DEF KeepsCharacters, Kept, WellFormed
  <2>2. text[first + k] \notin High
    BY <1>1, PieceEndsWhole DEF k
  <2> QED
    BY <1>3, <1>4, <2>1, <2>2, FrontCut
<1>10. NullSet'
  BY <1>1, <1>2 DEF NullSet
<1> QED
  BY <1>5, <1>7, <1>8, <1>9, <1>10 DEF TrimInv

LEMMA TurnRightKeepsInv ==
  ASSUME TrimInv, TurnRight
  PROVE  TrimInv'
<1>1. /\ TrimTypeOK /\ NullSet /\ CutRuns /\ Phases /\ KeepsCharacters
      /\ phase = "left" /\ ~ ("left" \in mode /\ Room /\ Strippable(first))
      /\ first' = first /\ last' = last /\ phase' = "right"
      /\ UNCHANGED operands
  BY DEF TrimInv, TurnRight
<1>2. /\ UNCHANGED << form, text, pat, mode, null >>
      /\ \A a, b : RunIn(a, b)' = RunIn(a, b)
      /\ \A i : Strippable(i)' = Strippable(i)
  BY <1>1, TrimCallStays
<1>3. Room' = Room
  BY <1>1, <1>2 DEF Room
<1>4. LeftStuck'
  BY <1>1, <1>2, <1>3 DEF LeftStuck
<1>5. Phases'
  BY <1>1, <1>2, <1>4 DEF Phases
<1>6. TrimTypeOK' /\ NullSet' /\ CutRuns'
  BY <1>1, <1>2 DEF TrimTypeOK, Ends, NullSet, CutRuns
<1>7. KeepsCharacters'
  BY <1>1, <1>2 DEF KeepsCharacters, Kept
<1> QED
  BY <1>5, <1>6, <1>7 DEF TrimInv

LEMMA StripRightKeepsInv ==
  ASSUME TrimInv, StripRight
  PROVE  TrimInv'
<1> DEFINE k == Stride
<1>1. /\ TrimTypeOK /\ NullSet /\ CutRuns /\ Phases /\ KeepsCharacters
      /\ phase = "right" /\ "right" \in mode
      /\ Room /\ Strippable(last - k)
      /\ last' = last - k /\ first' = first /\ phase' = phase
      /\ UNCHANGED operands
  BY DEF TrimInv, StripRight
<1>2. /\ UNCHANGED << form, text, pat, mode, null >>
      /\ Stride' = k /\ \A a, b : RunIn(a, b)' = RunIn(a, b)
      /\ \A i : Strippable(i)' = Strippable(i)
  BY <1>1, TrimCallStays
<1>3. /\ k \in Nat /\ k >= 1 /\ first + k <= last
      /\ form = "ex" => pat # << >>
  BY <1>1, RoomForOne
<1>4. /\ first \in Nat /\ last \in Nat /\ Len(text) \in Nat /\ last <= Len(text)
      /\ text \in Seq(Units)
  BY <1>1, TrimTyped
<1>5. /\ last - k \in Nat /\ (last - k) + k = last /\ first <= last - k
      /\ last - k <= last /\ last - k <= Len(text)
  <2> HIDE DEF k
  <2> QED
    BY <1>3, <1>4
<1>6. TrimTypeOK'
  <2> HIDE DEF k
  <2> QED
    BY <1>1, <1>2, <1>4, <1>5 DEF TrimTypeOK
<1>7. RunIn(0, first) /\ RunIn(last - k, Len(text))
  <2>1. RunIn(0, first) /\ RunIn(last, Len(text))
    BY <1>1 DEF CutRuns
  <2>2. RunIn(last - k, last)
    <3>1. (last - k) + Stride <= Len(text) /\ (last - k) + Stride = last
      BY <1>4, <1>5
    <3> QED
      BY <1>1, <1>3, <1>5, <3>1, MatchIsRun
  <2>3. RunIn(last - k, Len(text))
    BY <1>1, <1>4, <1>5, <2>1, <2>2, RunsJoin
  <2> QED
    BY <2>1, <2>3
<1>8. CutRuns'
  BY <1>1, <1>2, <1>7 DEF CutRuns
<1>9. Phases'
  <2>1. Room' => Room
    <3> HIDE DEF k
    <3> QED
      BY <1>1, <1>2, <1>3, <1>4, <1>5 DEF Room
  <2>2. LeftStuck'
    BY <1>1, <1>2, <2>1 DEF LeftStuck, Phases
  <2> QED
    BY <1>1, <1>2, <2>2 DEF Phases
<1>10. KeepsCharacters'
  <2> SUFFICES ASSUME WellFormed(text), WellFormed(pat), form # "any"
               PROVE  WellFormed(SubSeq(text, first + 1, last - k))
    BY <1>1, <1>2 DEF KeepsCharacters, Kept, WellFormed
  <2>1. WellFormed(SubSeq(text, first + 1, last))
    BY <1>1 DEF KeepsCharacters, Kept, WellFormed
  <2>2. text[(last - k) + 1] \notin Low
    BY <1>1, <1>5, PieceBeginsWhole
  <2>3. last - k < last
    BY <1>3, <1>4
  <2> HIDE DEF k
  <2> QED
    BY <1>4, <1>5, <2>1, <2>2, <2>3, BackCut
<1>11. NullSet'
  BY <1>1, <1>2 DEF NullSet
<1> QED
  BY <1>6, <1>8, <1>9, <1>10, <1>11 DEF TrimInv

LEMMA FinishKeepsInv ==
  ASSUME TrimInv, Finish
  PROVE  TrimInv'
<1>1. /\ TrimTypeOK /\ NullSet /\ CutRuns /\ Phases /\ KeepsCharacters
      /\ phase = "right"
      /\ ~ ("right" \in mode /\ Room /\ Strippable(last - Stride))
      /\ first' = first /\ last' = last /\ phase' = "done"
      /\ UNCHANGED operands
  BY DEF TrimInv, Finish
<1>2. /\ UNCHANGED << form, text, pat, mode, null >>
      /\ Stride' = Stride
      /\ \A a, b : RunIn(a, b)' = RunIn(a, b)
      /\ \A i : Strippable(i)' = Strippable(i)
  BY <1>1, TrimCallStays
<1>3. Room' = Room
  BY <1>1, <1>2 DEF Room
<1>4. LeftStuck' /\ RightStuck'
  BY <1>1, <1>2, <1>3 DEF LeftStuck, RightStuck, Phases
<1>5. Phases'
  BY <1>1, <1>2, <1>4 DEF Phases
<1>6. TrimTypeOK' /\ NullSet' /\ CutRuns'
  BY <1>1, <1>2 DEF TrimTypeOK, Ends, NullSet, CutRuns
<1>7. KeepsCharacters'
  BY <1>1, <1>2 DEF KeepsCharacters, Kept
<1> QED
  BY <1>5, <1>6, <1>7 DEF TrimInv

(* The invariant of a trim holds in every state. *)
THEOREM TrimInvariance == TrimSpec => []TrimInv
<1>1. TrimInit => TrimInv
  BY TrimInitially
<1>2. ASSUME TrimInv, UNCHANGED trimVars
      PROVE  TrimInv'
  <2>1. /\ UNCHANGED operands /\ UNCHANGED << form, text, pat, mode, null >>
        /\ first' = first /\ last' = last /\ phase' = phase
    BY <1>2 DEF trimVars, operands
  <2>2. /\ Stride' = Stride
        /\ \A a, b : RunIn(a, b)' = RunIn(a, b)
        /\ \A i : Strippable(i)' = Strippable(i)
    BY <2>1, TrimCallStays
  <2>3. Room' = Room
    BY <2>1 DEF Room
  <2>4. Phases'
    BY <1>2, <2>1, <2>2, <2>3 DEF TrimInv, Phases, LeftStuck, RightStuck
  <2>5. TrimTypeOK' /\ NullSet' /\ CutRuns'
    BY <1>2, <2>1, <2>2 DEF TrimInv, TrimTypeOK, NullSet, CutRuns
  <2>6. KeepsCharacters'
    BY <1>2, <2>1 DEF TrimInv, KeepsCharacters, Kept
  <2> QED
    BY <2>4, <2>5, <2>6 DEF TrimInv
<1>3. TrimInv /\ [TrimNext]_trimVars => TrimInv'
  BY <1>2, StripLeftKeepsInv, TurnRightKeepsInv,
     StripRightKeepsInv, FinishKeepsInv DEF TrimNext
<1> QED
  BY <1>1, <1>3, PTL DEF TrimSpec

(* The window stays a window of the text, for every text and every string  *)
(* to strip, so the copy that follows reads nothing else.                  *)
THEOREM TrimStaysInside == TrimSpec => []WindowInside
<1>1. TrimInv => WindowInside
  BY DEF TrimInv, TrimTypeOK
<1> QED
  BY <1>1, TrimInvariance, PTL

(* Trimming decodes nothing, and yet what it leaves of well-formed text is *)
(* well-formed (the forms with a set of units excepted).                   *)
THEOREM TrimKeepsCharacters == TrimSpec => []KeepsCharacters
BY TrimInvariance, PTL DEF TrimInv

(* Of the loop that stopped, that it could not have gone on: what is left  *)
(* at that end is too short, or no run.                                    *)
LEMMA StoppedLeft ==
  ASSUME TrimTypeOK,
         ~ (Room /\ Strippable(first))
  PROVE  \/ Kept = << >> \/ Stride \notin 1 .. Len(Kept)
         \/ ~ IsRun(Head1(Kept))
<1> DEFINE k == Stride
<1> SUFFICES ASSUME k \in 1 .. Len(Kept), Kept # << >>
             PROVE  ~ IsRun(Head1(Kept))
  OBVIOUS
<1>1. /\ first \in Nat /\ last \in Nat /\ Len(text) \in Nat /\ first <= last
      /\ last <= Len(text) /\ text \in Seq(Units)
      /\ pat \in Seq(Units) /\ Len(pat) \in Nat
  BY TrimTyped
<1>2. Len(Kept) = last - first
  BY <1>1, Window DEF Kept
<1>3. k \in Nat /\ k >= 1 /\ first + k <= last /\ first + k \in Nat
      /\ first + k <= Len(text)
  <2> HIDE DEF k
  <2> QED
    BY <1>1, <1>2
<1>4. (form = "ex" => pat # << >>) /\ Room
  BY <1>1, <1>3 DEF Stride, Room
<1>5. ~ RunIn(first, first + k)
  BY <1>1, <1>3, <1>4, MatchIsRun
<1>6. Head1(Kept) = SubSeq(text, first + 1, first + k)
  <2>1. SubSeq(SubSeq(text, first + 1, last), 0 + 1, k)
          = SubSeq(text, first + 0 + 1, first + k)
    <3>1. 0 \in Nat /\ 0 <= k
      BY <1>3
    <3> HIDE DEF k
    <3> QED
      BY <1>1, <1>3, <3>1, WindowOfWindow
  <2>2. 0 + 1 = 1 /\ first + 0 + 1 = first + 1
    BY <1>1
  <2> QED
    BY <2>1, <2>2 DEF Head1, Kept
<1>7. IsRun(SubSeq(text, first + 1, first + k)) <=> RunIn(first, first + k)
  <2>1. first <= first + k
    BY <1>1, <1>3
  <2> QED
    BY <1>1, <1>3, <2>1, RunOfWindow
<1> QED
  BY <1>5, <1>6, <1>7

LEMMA StoppedRight ==
  ASSUME TrimTypeOK,
         ~ (Room /\ Strippable(last - Stride))
  PROVE  \/ Kept = << >> \/ Stride \notin 1 .. Len(Kept)
         \/ ~ IsRun(Tail1(Kept))
<1> DEFINE k == Stride
<1> SUFFICES ASSUME k \in 1 .. Len(Kept), Kept # << >>
             PROVE  ~ IsRun(Tail1(Kept))
  OBVIOUS
<1>1. /\ first \in Nat /\ last \in Nat /\ Len(text) \in Nat /\ first <= last
      /\ last <= Len(text) /\ text \in Seq(Units)
      /\ pat \in Seq(Units) /\ Len(pat) \in Nat
  BY TrimTyped
<1>2. Len(Kept) = last - first
  BY <1>1, Window DEF Kept
<1>3. /\ k \in Nat /\ k >= 1 /\ first + k <= last
      /\ last - k \in Nat /\ (last - k) + k = last /\ last - k <= last
      /\ last - first - k \in Nat /\ last - first \in Nat
      /\ last - first - k <= last - first
      /\ first + (last - first - k) = last - k /\ first + (last - first) = last
  <2> HIDE DEF k
  <2> QED
    BY <1>1, <1>2
<1>4. (form = "ex" => pat # << >>) /\ Room
  BY <1>1, <1>3 DEF Stride, Room
<1>5. ~ RunIn(last - k, last)
  <2>1. (last - k) + Stride <= Len(text) /\ (last - k) + Stride = last
    BY <1>1, <1>3
  <2> QED
    BY <1>3, <1>4, <2>1, MatchIsRun
<1>6. Tail1(Kept) = SubSeq(text, (last - k) + 1, last)
  <2> DEFINE c == last - first - k
             d == last - first
  <2>1. SubSeq(SubSeq(text, first + 1, last), c + 1, d)
          = SubSeq(text, first + c + 1, first + d)
    <3>1. first + d <= last
      BY <1>1, <1>3
    <3> HIDE DEF c, d
    <3> QED
      BY <1>1, <1>3, <3>1, WindowOfWindow DEF c, d
  <2>2. first + c + 1 = (last - k) + 1 /\ first + d = last
    BY <1>1, <1>3
  <2>3. Tail1(Kept) = SubSeq(Kept, d - k + 1, d)
    BY <1>2 DEF Tail1
  <2>4. d - k + 1 = c + 1
    BY <1>1, <1>3
  <2> QED
    BY <2>1, <2>2, <2>3, <2>4 DEF Kept
<1>7. IsRun(SubSeq(text, (last - k) + 1, last)) <=> RunIn(last - k, last)
  BY <1>1, <1>3, RunOfWindow
<1> QED
  BY <1>5, <1>6, <1>7

LEMMA InvTrimsExactly ==
  ASSUME TrimInv
  PROVE  TrimsExactly
<1> SUFFICES ASSUME phase = "done" PROVE TrimsExactly
  BY DEF TrimsExactly
<1>1. TrimTypeOK /\ CutRuns /\ Phases
  BY DEF TrimInv
<1>2. IsRun(CutLeft) /\ IsRun(CutRight)
  BY <1>1, CutsAreRuns DEF CutRuns
<1>3. IF "left" \notin mode THEN first = 0
      ELSE \/ Kept = << >> \/ Stride \notin 1 .. Len(Kept)
           \/ ~ IsRun(Head1(Kept))
  BY <1>1, StoppedLeft DEF Phases, LeftStuck
<1>4. IF "right" \notin mode THEN last = Len(text)
      ELSE \/ Kept = << >> \/ Stride \notin 1 .. Len(Kept)
           \/ ~ IsRun(Tail1(Kept))
  BY <1>1, StoppedRight DEF Phases, RightStuck
<1> QED
  BY <1>2, <1>3, <1>4 DEF TrimsExactly

(* What is gone from an end is a run of what was to be stripped there, and *)
(* no longer run was there to strip: of blanks when the call has no set,   *)
(* or an empty one without a buffer, else of what the call named.          *)
THEOREM TrimStripsExactly == TrimSpec => []TrimsExactly
<1>1. TrimInv => TrimsExactly
  BY InvTrimsExactly
<1> QED
  BY <1>1, TrimInvariance, PTL

-----------------------------------------------------------------------------
(* UStrLowering.  First induction and recursion on a measure.              *)

(* A set that holds k whenever it holds all that is below k holds every    *)
(* number: the intervals 0 .. k of those it misses would have a least one. *)
LEMMA EveryNumber ==
  ASSUME NEW G, \A k \in Nat : (\A j \in 0 .. k - 1 : j \in G) => k \in G
  PROVE  Nat \subseteq G
<1> SUFFICES ASSUME NEW l \in Nat, l \notin G  PROVE FALSE
  OBVIOUS
<1> DEFINE M  == {k \in Nat : k \notin G}
           Up == {0 .. k : k \in M}
<1>1. Up \subseteq FiniteSubsetsOf(Nat)
  <2> SUFFICES ASSUME NEW k \in M  PROVE 0 .. k \in SUBSET Nat /\ IsFiniteSet(0 .. k)
    BY DEF FiniteSubsetsOf
  <2>1. IsFiniteSet(0 .. k)
    BY FS_Interval
  <2> QED
    BY <2>1
<1>2. Up # {}
  OBVIOUS
<1>3. PICK X \in Up : \A Y \in Up : ~ (<< Y, X >> \in StrictSubsetOrdering(Nat))
  BY <1>1, <1>2, WFMin, FS_StrictSubsetOrderingWellFounded
<1>4. PICK k \in M : X = 0 .. k
  OBVIOUS
<1>5. PICK j \in 0 .. k - 1 : j \notin G
  OBVIOUS
<1>6. j \in M /\ j < k
  BY <1>5
<1>7. 0 .. j \subseteq 0 .. k /\ k \notin 0 .. j /\ k \in 0 .. k
  BY <1>6
<1>8. 0 .. j # 0 .. k
  BY <1>7
<1>9. 0 .. j \in SUBSET Nat /\ 0 .. k \in SUBSET Nat
  OBVIOUS
<1>10. << 0 .. j, 0 .. k >> \in StrictSubsetOrdering(Nat)
  BY <1>7, <1>8, <1>9 DEF StrictSubsetOrdering
<1> QED
  BY <1>3, <1>4, <1>6, <1>10

(* A function whose value at x is made by H[x] of its values at what is    *)
(* smaller.                                                                *)
Rests(D, V, m, H) ==
  /\ m \in [D -> Nat] /\ H \in [D -> [[D -> V] -> V]]
  /\ \A x \in D : \A g, h \in [D -> V] :
       (\A y \in D : m[y] < m[x] => g[y] = h[y]) => H[x][g] = H[x][h]

Solved(D, V, m, H, k, g) ==
  g \in [D -> V] /\ \A x \in D : m[x] < k => g[x] = H[x][g]

IsSolution(D, V, H, g) == g \in [D -> V] /\ \A x \in D : g[x] = H[x][g]

Solution(D, V, H) == CHOOSE g : IsSolution(D, V, H, g)

LEMMA OneSolution ==
  ASSUME NEW D, NEW V, NEW m, NEW H, Rests(D, V, m, H),
         NEW k \in Nat, NEW g, NEW h,
         Solved(D, V, m, H, k, g), Solved(D, V, m, H, k, h)
  PROVE  \A x \in D : m[x] < k => g[x] = h[x]
<1> DEFINE G == {l \in Nat : \A x \in D : m[x] = l /\ l < k => g[x] = h[x]}
<1>1. m \in [D -> Nat] /\ g \in [D -> V] /\ h \in [D -> V]
  BY DEF Rests, Solved
<1>2. ASSUME NEW l \in Nat, \A j \in 0 .. l - 1 : j \in G
      PROVE  l \in G
  <2> SUFFICES ASSUME NEW x \in D, m[x] = l, l < k  PROVE g[x] = h[x]
    OBVIOUS
  <2>1. ASSUME NEW y \in D, m[y] < m[x]  PROVE g[y] = h[y]
    <3>1. m[y] \in 0 .. l - 1 /\ m[y] < k
      BY <1>1, <2>1
    <3> QED
      BY <1>2, <3>1
  <2>2. H[x][g] = H[x][h]
    BY <1>1, <2>1 DEF Rests
  <2> QED
    BY <2>2 DEF Solved
<1> HIDE DEF G
<1>3. Nat \subseteq G
  BY <1>2, EveryNumber
<1> QED
  BY <1>1, <1>3 DEF G

LEMMA Recursion ==
  ASSUME NEW D, NEW V, V # {}, NEW m, NEW H, Rests(D, V, m, H)
  PROVE  IsSolution(D, V, H, Solution(D, V, H))
<1> PICK v : v \in V
  OBVIOUS
<1> DEFINE S(k, g) == Solved(D, V, m, H, k, g)
           G == {k \in Nat : \E g : S(k, g)}
           F(k) == CHOOSE g : S(k, g)
           f == [x \in D |-> F(m[x] + 1)[x]]
<1>1. m \in [D -> Nat] /\ H \in [D -> [[D -> V] -> V]]
  BY DEF Rests
<1>2. ASSUME NEW k \in Nat, \A j \in 0 .. k - 1 : j \in G
      PROVE  k \in G
  <2>1. CASE k = 0
    <3> DEFINE g == [x \in D |-> v]
    <3>1. S(0, g)
      BY <1>1 DEF Solved
    <3> QED
      BY <2>1, <3>1
  <2>2. CASE k # 0
    <3>1. k - 1 \in 0 .. k - 1
      BY <2>2
    <3>2. PICK g : S(k - 1, g)
      BY <1>2, <3>1
    <3> DEFINE h == [x \in D |-> H[x][g]]
    <3>3. g \in [D -> V] /\ h \in [D -> V]
      BY <1>1, <3>2 DEF Solved
    <3>4. ASSUME NEW x \in D, m[x] < k  PROVE h[x] = H[x][h]
      <4>1. ASSUME NEW y \in D, m[y] < m[x]  PROVE g[y] = h[y]
        <5>1. m[y] < k - 1
          BY <1>1, <3>4, <4>1
        <5> QED
          BY <3>2, <5>1 DEF Solved
      <4> QED
        BY <3>3, <4>1 DEF Rests
    <3> HIDE DEF h
    <3>5. S(k, h)
      BY <3>3, <3>4 DEF Solved
    <3> QED
      BY <3>5
  <2> QED
    BY <2>1, <2>2
<1> HIDE DEF G
<1>3. Nat \subseteq G
  BY <1>2, EveryNumber
<1>4. \A k \in Nat : S(k, F(k))
  BY <1>3 DEF G
<1> HIDE DEF F
<1>5. f \in [D -> V]
  <2>1. \A x \in D : m[x] + 1 \in Nat
    BY <1>1
  <2> QED
    BY <1>4, <2>1 DEF Solved
<1>6. ASSUME NEW x \in D  PROVE f[x] = H[x][f]
  <2> DEFINE g == F(m[x] + 1)
  <2>1. m[x] \in Nat /\ m[x] + 1 \in Nat /\ m[x] < m[x] + 1
    BY <1>1
  <2>2. S(m[x] + 1, g)
    BY <1>4, <2>1
  <2>3. ASSUME NEW y \in D, m[y] < m[x]  PROVE g[y] = f[y]
    <3>1. m[y] + 1 \in Nat /\ m[y] < m[y] + 1
      BY <1>1
    <3>2. S(m[y] + 1, F(m[y] + 1))
      BY <1>4, <3>1
    <3>3. S(m[y] + 1, g)
      <4>1. \A z \in D : m[z] < m[y] + 1 => m[z] < m[x] + 1
        BY <1>1, <2>3
      <4> QED
        BY <2>2, <4>1 DEF Solved
    <3>4. g[y] = F(m[y] + 1)[y]
      BY <3>1, <3>2, <3>3, OneSolution
    <3> QED
      BY <3>4
  <2>4. H[x][g] = H[x][f]
    BY <1>5, <2>2, <2>3 DEF Rests, Solved
  <2>5. g[x] = H[x][g]
    BY <2>1, <2>2 DEF Solved
  <2> QED
    BY <2>4, <2>5
<1>7. IsSolution(D, V, H, f)
  BY <1>5, <1>6 DEF IsSolution
<1> QED
  BY <1>7, Zenon DEF Solution

-----------------------------------------------------------------------------
(* Narrow texts.  Decode goes from place to place; From(b)[i] is what it   *)
(* makes of what begins at i.                                              *)
Places     == Nat \ {0}
Both(b, i) == i < Len(b) /\ b[i] = Lead /\ b[i + 1] = Rest
One(c)     == << IF c \in {Lead, Rest} THEN "replacement" ELSE c >>
FromAt(b, g, i) ==
  CASE i >= Len(b) + 1 -> << >>
    [] Both(b, i)      -> << "whole" >> \o g[i + 2]
    [] OTHER           -> One(b[i]) \o g[i + 1]

(* Texts; U is a set of units that holds what Decode makes of characters. *)
U == STRING \cup {"whole", "replacement"}

IsFrom(b, g) == g = [i \in Places |-> FromAt(b, g, i)]
From(b) == CHOOSE g : IsFrom(b, g)

LEMMA DecodeIsFrom ==
  ASSUME NEW b  PROVE Decode(b) = From(b)[1]
BY DEF Decode, From, IsFrom, FromAt, Both, One, Places

LEMMA Single ==
  ASSUME NEW S, NEW c \in S
  PROVE  << c >> \in Seq(S) /\ Len(<< c >>) = 1 /\ << c >>[1] = c /\ << >> \in Seq(S)
OBVIOUS

LEMMA OneTyped ==
  /\ << >> \in Seq(U) /\ << "whole" >> \in Seq(U)
  /\ \A c \in U : One(c) \in Seq(U)
<1>1. "whole" \in U /\ "replacement" \in U
  BY DEF U
<1> QED
  BY <1>1, Single DEF One

LEMMA FromAtFacts ==
  ASSUME NEW b \in Seq(U), NEW g \in [Places -> Seq(U)], NEW i \in Places
  PROVE  /\ Len(b) \in Nat
         /\ FromAt(b, g, i) \in Seq(U)
         /\ i >= Len(b) + 1 => FromAt(b, g, i) = << >>
         /\ i \in 1 .. Len(b) /\ Both(b, i) =>
              FromAt(b, g, i) = << "whole" >> \o g[i + 2]
         /\ i \in 1 .. Len(b) /\ ~ Both(b, i) =>
              FromAt(b, g, i) = One(b[i]) \o g[i + 1] /\ One(b[i]) \in Seq(U)
<1> DEFINE V == Seq(U)
<1>1. Len(b) \in Nat /\ i \in Nat /\ i >= 1
  BY LenProperties DEF Places
<1>2. i + 2 \in Places /\ i + 1 \in Places
  BY <1>1 DEF Places
<1>3. g[i + 2] \in V /\ g[i + 1] \in V
  BY <1>2
<1>4. i \in 1 .. Len(b) => One(b[i]) \in V
  BY OneTyped, ElementOfSeq
<1>5. i \in 1 .. Len(b) <=> ~ i >= Len(b) + 1
  BY <1>1
<1>6. << "whole" >> \o g[i + 2] \in V
  BY <1>3, OneTyped, ConcatProperties, Zenon
<1>7. i \in 1 .. Len(b) => One(b[i]) \o g[i + 1] \in V
  BY <1>3, <1>4, ConcatProperties, Zenon
<1>8. CASE i >= Len(b) + 1
  <2>1. FromAt(b, g, i) = << >>
    BY <1>1, <1>8 DEF FromAt, Both
  <2> QED
    BY <1>1, <1>5, <1>8, <2>1, OneTyped
<1>9. CASE ~ i >= Len(b) + 1 /\ Both(b, i)
  <2>1. FromAt(b, g, i) = << "whole" >> \o g[i + 2]
    BY <1>9 DEF FromAt
  <2> QED
    BY <1>1, <1>5, <1>6, <1>9, <2>1
<1>10. CASE ~ i >= Len(b) + 1 /\ ~ Both(b, i)
  <2>1. FromAt(b, g, i) = One(b[i]) \o g[i + 1]
    BY <1>10 DEF FromAt
  <2> QED
    BY <1>1, <1>4, <1>5, <1>7, <1>10, <2>1
<1> QED
  BY <1>8, <1>9, <1>10

LEMMA FromFacts ==
  ASSUME NEW b \in Seq(U)
  PROVE  /\ From(b) \in [Places -> Seq(U)]
         /\ \A i \in Places : From(b)[i] = FromAt(b, From(b), i)
<1> DEFINE V == Seq(U)
           m == [i \in Places |-> IF i <= Len(b) THEN Len(b) + 1 - i ELSE 0]
           H == [i \in Places |-> [g \in [Places -> V] |-> FromAt(b, g, i)]]
<1>1. Len(b) \in Nat
  BY LenProperties
<1>2. Rests(Places, V, m, H)
  <2>1. m \in [Places -> Nat]
    BY <1>1 DEF Places
  <2>2. H \in [Places -> [[Places -> V] -> V]]
    BY FromAtFacts
  <2>3. ASSUME NEW i \in Places, NEW g \in [Places -> V], NEW h \in [Places -> V],
               \A j \in Places : m[j] < m[i] => g[j] = h[j]
        PROVE  FromAt(b, g, i) = FromAt(b, h, i)
    <3>1. CASE i >= Len(b) + 1
      BY <3>1, FromAtFacts
    <3>2. CASE ~ i >= Len(b) + 1
      <4>1. i \in 1 .. Len(b) /\ i + 1 \in Places /\ i + 2 \in Places
        BY <1>1, <3>2 DEF Places
      <4>2. m[i + 1] < m[i] /\ m[i + 2] < m[i]
        <5> DEFINE k == Len(b)
        <5>1. k \in Nat /\ i \in 1 .. k
          BY <1>1, <4>1
        <5>2. /\ m[i] = IF i <= k THEN k + 1 - i ELSE 0
              /\ m[i + 1] = IF i + 1 <= k THEN k + 1 - (i + 1) ELSE 0
              /\ m[i + 2] = IF i + 2 <= k THEN k + 1 - (i + 2) ELSE 0
          BY <4>1
        <5> HIDE DEF k, m
        <5>3. m[i] = k + 1 - i /\ m[i] >= 1
          BY <5>1, <5>2
        <5>4. m[i + 1] < m[i]
          BY <5>1, <5>2, <5>3
        <5>5. m[i + 2] < m[i]
          BY <5>1, <5>2, <5>3
        <5> QED
          BY <5>4, <5>5
      <4>3. g[i + 1] = h[i + 1] /\ g[i + 2] = h[i + 2]
        BY <2>3, <4>1, <4>2
      <4> QED
        <5>1. CASE Both(b, i)
          <6>1. /\ FromAt(b, g, i) = << "whole" >> \o g[i + 2]
                /\ FromAt(b, h, i) = << "whole" >> \o h[i + 2]
            BY <4>1, <5>1, FromAtFacts
          <6> QED
            BY <4>3, <6>1
        <5>2. CASE ~ Both(b, i)
          <6>1. /\ FromAt(b, g, i) = One(b[i]) \o g[i + 1]
                /\ FromAt(b, h, i) = One(b[i]) \o h[i + 1]
            BY <4>1, <5>2, FromAtFacts
          <6> QED
            BY <4>3, <6>1
        <5> QED
          BY <5>1, <5>2
    <3> QED
      BY <3>1, <3>2
  <2>4. \A i \in Places : \A g, h \in [Places -> V] :
          (\A j \in Places : m[j] < m[i] => g[j] = h[j]) => H[i][g] = H[i][h]
    BY <2>3
  <2> HIDE DEF m, H, V
  <2> QED
    BY <2>1, <2>2, <2>4 DEF Rests
<1>3. << >> \in V
  OBVIOUS
<1>4. PICK g : IsSolution(Places, V, H, g)
  <2> HIDE DEF m, H
  <2> QED
    BY <1>2, <1>3, Recursion
<1> DEFINE f == From(b)
<1>5. IsFrom(b, g)
  <2>1. \A i \in Places : g[i] = FromAt(b, g, i)
    BY <1>4 DEF IsSolution
  <2>2. g = [i \in Places |-> g[i]]
    BY <1>4 DEF IsSolution
  <2> QED
    BY <2>1, <2>2 DEF IsFrom
<1>6. IsFrom(b, f)
  BY <1>5 DEF From
<1> HIDE DEF f
<1>7. f = [i \in Places |-> f[i]] /\ \A i \in Places : f[i] = FromAt(b, f, i)
  BY <1>6 DEF IsFrom
<1> DEFINE G == {k \in Nat : \A i \in Places : m[i] = k => f[i] \in V}
<1>8. ASSUME NEW k \in Nat, \A j \in 0 .. k - 1 : j \in G
      PROVE  k \in G
  <2> SUFFICES ASSUME NEW i \in Places, m[i] = k  PROVE f[i] \in V
    OBVIOUS
  <2>1. CASE i >= Len(b) + 1
    <3>1. i \in Nat /\ f[i] = FromAt(b, f, i)
      BY <1>7 DEF Places
    <3>2. FromAt(b, f, i) = << >>
      BY <1>1, <2>1, <3>1 DEF FromAt, Both
    <3> QED
      BY <1>3, <3>1, <3>2
  <2>2. CASE ~ i >= Len(b) + 1
    <3>1. i \in 1 .. Len(b) /\ i + 1 \in Places /\ i + 2 \in Places
      BY <1>1, <2>2 DEF Places
    <3>2. m[i + 1] \in 0 .. k - 1 /\ m[i + 2] \in 0 .. k - 1
      <4> DEFINE n == Len(b)
      <4>1. n \in Nat /\ i \in 1 .. n
        BY <1>1, <3>1
      <4>2. /\ k = IF i <= n THEN n + 1 - i ELSE 0
            /\ m[i + 1] = IF i + 1 <= n THEN n + 1 - (i + 1) ELSE 0
            /\ m[i + 2] = IF i + 2 <= n THEN n + 1 - (i + 2) ELSE 0
        BY <3>1
      <4> HIDE DEF n, m
      <4>3. m[i + 1] \in 0 .. k - 1
        BY <4>1, <4>2
      <4>4. m[i + 2] \in 0 .. k - 1
        BY <4>1, <4>2
      <4> QED
        BY <4>3, <4>4
    <3>3. f[i + 1] \in V /\ f[i + 2] \in V
      BY <1>8, <3>1, <3>2
    <3>4. One(b[i]) \in V /\ << "whole" >> \in V
      BY <3>1, OneTyped, ElementOfSeq
    <3>5. One(b[i]) \o f[i + 1] \in V /\ << "whole" >> \o f[i + 2] \in V
      BY <3>3, <3>4, ConcatProperties
    <3>6. f[i] = FromAt(b, f, i)
      BY <1>7
    <3> HIDE DEF V
    <3> QED
      BY <2>2, <3>5, <3>6, Zenon DEF FromAt
  <2> QED
    BY <2>1, <2>2
<1>9. \A i \in Places : m[i] \in Nat
  BY <1>1 DEF Places
<1>10. \A i \in Places : f[i] \in V
  <2> HIDE DEF G, m
  <2>1. Nat \subseteq G
    BY <1>8, EveryNumber
  <2> QED
    BY <1>9, <2>1 DEF G
<1>11. f \in [Places -> V]
  BY <1>7, <1>10
<1> QED
  BY <1>7, <1>11 DEF f

LEMMA DecodeTyped ==
  ASSUME NEW b \in Seq(U)
  PROVE  Decode(b) \in Seq(U)
<1>1. 1 \in Places
  BY DEF Places
<1> QED
  BY <1>1, DecodeIsFrom, FromFacts

LEMMA JoinFacts ==
  ASSUME NEW S, NEW a \in Seq(S), NEW b \in Seq(S)
  PROVE  /\ a \o b \in Seq(S) /\ Len(a) \in Nat /\ Len(b) \in Nat
         /\ Len(a \o b) = Len(a) + Len(b)
         /\ \A i \in 1 .. Len(a) : (a \o b)[i] = a[i]
         /\ \A i \in 1 .. Len(b) : (a \o b)[Len(a) + i] = b[i]
<1>1. Len(a) \in Nat /\ Len(b) \in Nat
  BY LenProperties
<1>2. /\ a \o b \in Seq(S) /\ Len(a \o b) = Len(a) + Len(b)
      /\ \A i \in 1 .. Len(a) + Len(b) :
           (a \o b)[i] = IF i <= Len(a) THEN a[i] ELSE b[i - Len(a)]
  BY ConcatProperties, Zenon
<1>3. ASSUME NEW i \in 1 .. Len(a)  PROVE (a \o b)[i] = a[i]
  BY <1>1, <1>2
<1>4. ASSUME NEW i \in 1 .. Len(b)  PROVE (a \o b)[Len(a) + i] = b[i]
  <2>1. /\ Len(a) + i \in 1 .. Len(a) + Len(b) /\ ~ Len(a) + i <= Len(a)
        /\ (Len(a) + i) - Len(a) = i
    BY <1>1
  <2> QED
    BY <1>2, <2>1
<1> QED
  BY <1>1, <1>2, <1>3, <1>4

LEMMA WholeJoins ==
  ASSUME NEW a \in Seq(U), NEW b \in Seq(U), Whole(a), Whole(b)
  PROVE  Whole(a \o b)
<1> DEFINE c == a \o b
           n == Len(a)
           k == Len(b)
<1>1. /\ c \in Seq(U) /\ n \in Nat /\ k \in Nat /\ Len(c) = n + k
      /\ \A i \in 1 .. n : c[i] = a[i]
      /\ \A i \in 1 .. k : c[n + i] = b[i]
  BY JoinFacts
<1>2. DOMAIN a = 1 .. n /\ DOMAIN b = 1 .. k /\ DOMAIN c = 1 .. n + k
  BY <1>1, LenProperties
<1> HIDE DEF c, n, k
<1>3. ASSUME NEW i \in 1 .. n
      PROVE  /\ c[i] = Lead => i < Len(c) /\ c[i + 1] = Rest
             /\ c[i] = Rest => i > 1 /\ c[i - 1] = Lead
  <2>1. /\ a[i] = Lead => i < n /\ a[i + 1] = Rest
        /\ a[i] = Rest => i > 1 /\ a[i - 1] = Lead
    BY <1>2 DEF Whole, n
  <2>2. c[i] = a[i] /\ i <= Len(c)
    BY <1>1
  <2>3. i < n => i + 1 \in 1 .. n /\ i < Len(c)
    BY <1>1
  <2>4. i > 1 => i - 1 \in 1 .. n
    BY <1>1
  <2> QED
    BY <1>1, <2>1, <2>2, <2>3, <2>4
<1>4. ASSUME NEW i \in 1 .. k
      PROVE  /\ c[n + i] = Lead => n + i < Len(c) /\ c[(n + i) + 1] = Rest
             /\ c[n + i] = Rest => n + i > 1 /\ c[(n + i) - 1] = Lead
  <2>1. /\ b[i] = Lead => i < k /\ b[i + 1] = Rest
        /\ b[i] = Rest => i > 1 /\ b[i - 1] = Lead
    BY <1>2 DEF Whole, k
  <2>2. c[n + i] = b[i]
    BY <1>1
  <2>3. i < k => i + 1 \in 1 .. k /\ n + i < Len(c) /\ (n + i) + 1 = n + (i + 1)
    BY <1>1
  <2>4. i > 1 => i - 1 \in 1 .. k /\ n + i > 1 /\ (n + i) - 1 = n + (i - 1)
    BY <1>1
  <2> QED
    BY <1>1, <2>1, <2>2, <2>3, <2>4
<1>5. ASSUME NEW i \in 1 .. n + k
      PROVE  /\ c[i] = Lead => i < Len(c) /\ c[i + 1] = Rest
             /\ c[i] = Rest => i > 1 /\ c[i - 1] = Lead
  <2>1. CASE i <= n
    BY <1>1, <1>3, <2>1
  <2>2. CASE ~ i <= n
    <3>1. i - n \in 1 .. k /\ n + (i - n) = i
      BY <1>1, <2>2
    <3> QED
      BY <1>4, <3>1
  <2> QED
    BY <2>1, <2>2
<1>6. Whole(c)
  BY <1>2, <1>5 DEF Whole
<1> QED
  BY <1>6 DEF c

(* A text that ends with a whole character does not bear on the next one.  *)
LEMMA FromBehind ==
  ASSUME NEW a \in Seq(U), NEW b \in Seq(U), NEW i \in Places
  PROVE  From(a \o b)[Len(a) + i] = From(b)[i]
<1> DEFINE c == a \o b
           n == Len(a)
           k == Len(b)
           m(j) == IF j <= k THEN k + 1 - j ELSE 0
           G == {l \in Nat : \A j \in Places : m(j) = l => From(c)[n + j] = From(b)[j]}
<1>1. /\ c \in Seq(U) /\ n \in Nat /\ k \in Nat /\ Len(c) = n + k
      /\ \A j \in 1 .. n : c[j] = a[j]
      /\ \A j \in 1 .. k : c[n + j] = b[j]
  BY JoinFacts
<1> HIDE DEF c, n, k
<1>2. \A x \in {b, c} : /\ From(x) \in [Places -> Seq(U)]
                        /\ \A j \in Places : From(x)[j] = FromAt(x, From(x), j)
  BY <1>1, FromFacts
<1>3. ASSUME NEW l \in Nat, \A j \in 0 .. l - 1 : j \in G
      PROVE  l \in G
  <2> SUFFICES ASSUME NEW j \in Places, m(j) = l
               PROVE  From(c)[n + j] = From(b)[j]
    OBVIOUS
  <2>1. /\ j \in Nat /\ j >= 1 /\ n + j \in Places
        /\ From(b)[j] = FromAt(b, From(b), j) /\ From(c)[n + j] = FromAt(c, From(c), n + j)
    BY <1>1, <1>2 DEF Places
  <2>2. CASE j > k
    <3>1. n + j >= Len(c) + 1 /\ j >= Len(b) + 1
      BY <1>1, <2>1, <2>2 DEF k
    <3>2. FromAt(c, From(c), n + j) = << >> /\ FromAt(b, From(b), j) = << >>
      BY <1>1, <1>2, <2>1, <3>1, FromAtFacts
    <3> QED
      BY <2>1, <3>2
  <2>3. CASE ~ j > k
    <3>1. /\ j \in 1 .. k /\ n + j \in 1 .. Len(c) /\ j + 1 \in Places /\ j + 2 \in Places
          /\ m(j + 1) \in 0 .. l - 1 /\ m(j + 2) \in 0 .. l - 1
      <4>1. /\ j \in 1 .. k /\ n + j \in 1 .. Len(c)
            /\ j + 1 \in Places /\ j + 2 \in Places
        <5>1. /\ n \in Nat /\ k \in Nat /\ Len(c) = n + k
              /\ j \in Nat /\ j >= 1 /\ j <= k
          BY <1>1, <2>1, <2>3
        <5>2. j + 1 \in Places /\ j + 2 \in Places
          BY <5>1 DEF Places
        <5> HIDE DEF m, G
        <5> QED
          BY <5>1, <5>2
      <4>2. /\ l = k + 1 - j
            /\ m(j + 1) = IF j + 1 <= k THEN k + 1 - (j + 1) ELSE 0
            /\ m(j + 2) = IF j + 2 <= k THEN k + 1 - (j + 2) ELSE 0
        BY <4>1
      <4>3. k \in Nat /\ j \in 1 .. k
        BY <1>1, <4>1
      <4> HIDE DEF m
      <4>4. (IF j + 1 <= k THEN k + 1 - (j + 1) ELSE 0) \in 0 .. (k + 1 - j) - 1
        BY <4>3
      <4>5. (IF j + 2 <= k THEN k + 1 - (j + 2) ELSE 0) \in 0 .. (k + 1 - j) - 1
        BY <4>3
      <4> QED
        BY <4>1, <4>2, <4>4, <4>5
    <3>2. From(c)[n + (j + 1)] = From(b)[j + 1] /\ From(c)[n + (j + 2)] = From(b)[j + 2]
      BY <1>3, <3>1
    <3>3. (n + j) + 1 = n + (j + 1) /\ (n + j) + 2 = n + (j + 2)
      BY <1>1, <2>1
    <3>4. c[n + j] = b[j]
      BY <1>1, <3>1
    <3>5. Both(c, n + j) <=> Both(b, j)
      <4>1. j < k => c[n + (j + 1)] = b[j + 1]
        BY <1>1, <3>1
      <4>2. n + j < Len(c) <=> j < k
        BY <1>1, <2>1
      <4> QED
        BY <3>3, <3>4, <4>1, <4>2 DEF Both, k
    <3>6. CASE Both(b, j)
      <4>1. FromAt(b, From(b), j) = << "whole" >> \o From(b)[j + 2]
        BY <1>2, <2>1, <3>1, <3>6, FromAtFacts DEF k
      <4>2. FromAt(c, From(c), n + j) = << "whole" >> \o From(c)[(n + j) + 2]
        BY <1>1, <1>2, <2>1, <3>1, <3>5, <3>6, FromAtFacts
      <4> QED
        BY <2>1, <3>2, <3>3, <4>1, <4>2
    <3>7. CASE ~ Both(b, j)
      <4>1. FromAt(b, From(b), j) = One(b[j]) \o From(b)[j + 1]
        BY <1>2, <2>1, <3>1, <3>7, FromAtFacts DEF k
      <4>2. FromAt(c, From(c), n + j) = One(c[n + j]) \o From(c)[(n + j) + 1]
        BY <1>1, <1>2, <2>1, <3>1, <3>5, <3>7, FromAtFacts
      <4> QED
        BY <2>1, <3>2, <3>3, <3>4, <4>1, <4>2
    <3> QED
      BY <3>6, <3>7
  <2> QED
    BY <2>2, <2>3
<1>4. m(i) \in Nat
  BY <1>1 DEF Places
<1>5. From(c)[n + i] = From(b)[i]
  <2> HIDE DEF G, m
  <2>1. Nat \subseteq G
    BY <1>3, EveryNumber
  <2> QED
    BY <1>4, <2>1 DEF G
<1> QED
  BY <1>5 DEF c, n

LEMMA ThreeJoin ==
  ASSUME NEW S, NEW x \in Seq(S), NEW y \in Seq(S), NEW z \in Seq(S)
  PROVE  (x \o y) \o z = x \o (y \o z)
BY ConcatAssociative

LEMMA JoinsInAnyOrder ==
  \A x, y, z \in Seq(U) : (x \o y) \o z = x \o (y \o z)
BY ThreeJoin

LEMMA DecodeJoins ==
  ASSUME NEW a \in Seq(U), NEW b \in Seq(U), Whole(a)
  PROVE  Decode(a \o b) = Decode(a) \o Decode(b)
<1> DEFINE c == a \o b
           n == Len(a)
           k == Len(b)
           J(i) == From(c)[i] = From(a)[i] \o Decode(b)
           G == {l \in Nat : \A i \in 1 .. n + 1 : n + 1 - i = l => J(i)}
<1>1. /\ c \in Seq(U) /\ n \in Nat /\ k \in Nat /\ Len(c) = n + k
      /\ \A j \in 1 .. n : c[j] = a[j]
      /\ \A j \in 1 .. k : c[n + j] = b[j]
  BY JoinFacts
<1> HIDE DEF c, n, k
<1>2. \A x \in {a, c} : /\ From(x) \in [Places -> Seq(U)]
                        /\ \A j \in Places : From(x)[j] = FromAt(x, From(x), j)
  BY <1>1, FromFacts
<1>3. Decode(b) \in Seq(U) /\ << >> \in Seq(U) /\ << "whole" >> \in Seq(U)
  BY DecodeTyped, OneTyped
<1>4. DOMAIN a = 1 .. n
  BY LenProperties DEF n
<1>5. J(n + 1)
  <2>1. 1 \in Places /\ n + 1 \in Places
    BY <1>1 DEF Places
  <2>2. From(c)[n + 1] = Decode(b)
    BY <2>1, FromBehind, DecodeIsFrom DEF c, n
  <2>3. From(a)[n + 1] = << >>
    <3>1. From(a)[n + 1] = FromAt(a, From(a), n + 1) /\ n + 1 >= Len(a) + 1
      BY <1>1, <1>2, <2>1 DEF n
    <3>2. From(a) \in [Places -> Seq(U)]
      BY <1>2
    <3> QED
      BY <2>1, <3>1, <3>2, FromAtFacts
  <2>4. << >> \o Decode(b) = Decode(b)
    BY <1>3, ConcatEmptySeq
  <2> QED
    BY <2>2, <2>3, <2>4
<1>6. ASSUME NEW l \in Nat, \A j \in 0 .. l - 1 : j \in G
      PROVE  l \in G
  <2> SUFFICES ASSUME NEW i \in 1 .. n + 1, n + 1 - i = l  PROVE J(i)
    OBVIOUS
  <2>1. CASE i = n + 1
    BY <1>5, <2>1
  <2>2. CASE i # n + 1
    <3>1. i \in 1 .. n /\ i \in 1 .. Len(c) /\ i \in Places
          /\ i + 1 \in Places /\ i + 2 \in Places
      BY <1>1, <2>2 DEF Places
    <3>2. i + 1 \in 1 .. n + 1 /\ n + 1 - (i + 1) \in 0 .. l - 1
      BY <1>1, <3>1
    <3>3. J(i + 1)
      BY <1>6, <3>2
    <3>4. i < n => J(i + 2)
      <4>1. i < n => i + 2 \in 1 .. n + 1 /\ n + 1 - (i + 2) \in 0 .. l - 1
        BY <1>1, <3>1
      <4> QED
        BY <1>6, <4>1
    <3> HIDE DEF G
    <3>5. a[i] = Lead => i < n /\ a[i + 1] = Rest
      BY <1>4, <3>1 DEF Whole, n
    <3>6. c[i] = a[i] /\ (i < n => c[i + 1] = a[i + 1])
      <4>1. i < n => i + 1 \in 1 .. n
        BY <1>1, <3>1
      <4> QED
        BY <1>1, <3>1, <4>1
    <3>7. Both(a, i) <=> a[i] = Lead
      BY <3>5 DEF Both, n
    <3>8. Both(c, i) <=> a[i] = Lead
      <4>1. i < n => i < Len(c)
        BY <1>1, <3>1
      <4> QED
        BY <3>5, <3>6, <4>1 DEF Both
    <3>9. /\ From(a)[i] = FromAt(a, From(a), i) /\ From(c)[i] = FromAt(c, From(c), i)
          /\ From(a)[i + 1] \in Seq(U) /\ From(a)[i + 2] \in Seq(U)
          /\ From(a) \in [Places -> Seq(U)] /\ From(c) \in [Places -> Seq(U)]
      BY <1>2, <3>1
    <3>10. CASE a[i] = Lead
      <4>1. From(a)[i] = << "whole" >> \o From(a)[i + 2]
        BY <3>1, <3>7, <3>9, <3>10, FromAtFacts DEF n
      <4>2. From(c)[i] = << "whole" >> \o From(c)[i + 2]
        BY <1>1, <3>1, <3>8, <3>9, <3>10, FromAtFacts
      <4>3. From(c)[i + 2] = From(a)[i + 2] \o Decode(b)
        BY <3>4, <3>5, <3>10
      <4>4. From(a)[i + 2] \in Seq(U) /\ Decode(b) \in Seq(U)
        BY <1>3, <3>9
      <4>5. << "whole" >> \o (From(a)[i + 2] \o Decode(b))
              = (<< "whole" >> \o From(a)[i + 2]) \o Decode(b)
        <5> DEFINE u == << "whole" >>
                   v == From(a)[i + 2]
                   w == Decode(b)
        <5>1. u \in Seq(U) /\ v \in Seq(U) /\ w \in Seq(U)
          BY <1>3, <4>4
        <5> HIDE DEF u, v, w
        <5>2. (u \o v) \o w = u \o (v \o w)
          BY <5>1, JoinsInAnyOrder, SMTT(60)
        <5> QED
          BY <5>2 DEF u, v, w
      <4> QED
        BY <4>1, <4>2, <4>3, <4>5
    <3>11. CASE a[i] # Lead
      <4>1. From(a)[i] = One(a[i]) \o From(a)[i + 1] /\ One(a[i]) \in Seq(U)
        BY <3>1, <3>7, <3>9, <3>11, FromAtFacts DEF n
      <4>2. From(c)[i] = One(c[i]) \o From(c)[i + 1]
        BY <1>1, <3>1, <3>8, <3>9, <3>11, FromAtFacts
      <4>3. One(a[i]) \o (From(a)[i + 1] \o Decode(b))
              = (One(a[i]) \o From(a)[i + 1]) \o Decode(b)
        <5> DEFINE u == One(a[i])
                   v == From(a)[i + 1]
                   w == Decode(b)
        <5>1. u \in Seq(U) /\ v \in Seq(U) /\ w \in Seq(U)
          BY <1>3, <3>9, <4>1
        <5> HIDE DEF u, v, w
        <5>2. (u \o v) \o w = u \o (v \o w)
          BY <5>1, JoinsInAnyOrder, SMTT(60)
        <5> QED
          BY <5>2 DEF u, v, w
      <4> QED
        BY <3>3, <3>6, <4>1, <4>2, <4>3
    <3> QED
      BY <3>10, <3>11
  <2> QED
    BY <2>1, <2>2
<1>7. J(1)
  <2> HIDE DEF G, J
  <2>1. Nat \subseteq G
    BY <1>6, EveryNumber
  <2>2. 1 \in 1 .. n + 1 /\ n + 1 - 1 \in Nat
    BY <1>1
  <2> QED
    BY <2>1, <2>2 DEF G
<1> QED
  BY <1>7, DecodeIsFrom DEF c

-----------------------------------------------------------------------------
(* Values.  Over a store that holds texts, and in its narrow places what   *)
(* they held before, a term is worth a piece of text; Run(P, s, i)[j] is   *)
(* what the terms i to j of P are worth together.                          *)
Good(s)     == s \in [Loc -> Seq(U)] /\ \A p \in Narrow : s[p] = Before[p]
Piece(s, x) == IF x.at \in Narrow THEN Decode(s[x.at]) ELSE s[x.at]

RunAt(P, s, i, g, j) ==
  IF j \in i .. Len(P) THEN g[j - 1] \o Piece(s, P[j]) ELSE << >>

Run(P, s, i) ==
  Solution(Nat, Seq(U), [j \in Nat |-> [g \in [Nat -> Seq(U)] |-> RunAt(P, s, i, g, j)]])

LEMMA PieceTyped ==
  ASSUME NEW s \in [Loc -> Seq(U)], NEW x \in Leaves
  PROVE  Piece(s, x) \in Seq(U)
<1>1. s[x.at] \in Seq(U)
  BY DEF Leaves
<1> QED
  BY <1>1, DecodeTyped DEF Piece

LEMMA RunFacts ==
  ASSUME NEW P \in Seq(Leaves), NEW s \in [Loc -> Seq(U)], NEW i \in Places
  PROVE  /\ Run(P, s, i) \in [Nat -> Seq(U)]
         /\ \A j \in Nat : ~ j \in i .. Len(P) => Run(P, s, i)[j] = << >>
         /\ \A j \in i .. Len(P) :
              j - 1 \in Nat /\ Run(P, s, i)[j] = Run(P, s, i)[j - 1] \o Piece(s, P[j])
<1> DEFINE V == Seq(U)
           m == [j \in Nat |-> j]
           H == [j \in Nat |-> [g \in [Nat -> V] |-> RunAt(P, s, i, g, j)]]
<1>1. Len(P) \in Nat /\ \A j \in 1 .. Len(P) : P[j] \in Leaves
  BY LenProperties, ElementOfSeq
<1>2. ASSUME NEW j \in i .. Len(P)
      PROVE  j \in Nat /\ j - 1 \in Nat /\ j - 1 < j /\ P[j] \in Leaves
  BY <1>1 DEF Places
<1>3. ASSUME NEW j \in Nat, NEW g \in [Nat -> V]  PROVE RunAt(P, s, i, g, j) \in V
  <2>1. CASE j \in i .. Len(P)
    <3>1. g[j - 1] \in V /\ Piece(s, P[j]) \in V
      BY <1>2, <2>1, PieceTyped
    <3>2. g[j - 1] \o Piece(s, P[j]) \in V
      BY <3>1, ConcatProperties
    <3> QED
      BY <2>1, <3>2 DEF RunAt
  <2>2. CASE ~ j \in i .. Len(P)
    BY <2>2 DEF RunAt
  <2> QED
    BY <2>1, <2>2
<1>4. ASSUME NEW j \in Nat, NEW g \in [Nat -> V], NEW h \in [Nat -> V],
             \A k \in Nat : k < j => g[k] = h[k]
      PROVE  RunAt(P, s, i, g, j) = RunAt(P, s, i, h, j)
  BY <1>2, <1>4 DEF RunAt
<1>5. Rests(Nat, V, m, H)
  <2>1. m \in [Nat -> Nat] /\ H \in [Nat -> [[Nat -> V] -> V]]
    BY <1>3
  <2>2. \A j \in Nat : \A g, h \in [Nat -> V] :
          (\A k \in Nat : m[k] < m[j] => g[k] = h[k]) => H[j][g] = H[j][h]
    BY <1>4
  <2> HIDE DEF m, H, V
  <2> QED
    BY <2>1, <2>2 DEF Rests
<1>6. V # {}
  BY OneTyped
<1> DEFINE f == Run(P, s, i)
<1>7. IsSolution(Nat, V, H, f)
  <2> HIDE DEF m
  <2> QED
    BY <1>5, <1>6, Recursion DEF Run
<1> HIDE DEF f
<1>8. f \in [Nat -> V] /\ \A j \in Nat : f[j] = RunAt(P, s, i, f, j)
  BY <1>7 DEF IsSolution
<1> HIDE DEF H, m, V
<1>9. \A j \in Nat : ~ j \in i .. Len(P) => f[j] = << >>
  BY <1>8 DEF RunAt
<1>10. \A j \in i .. Len(P) : j - 1 \in Nat /\ f[j] = f[j - 1] \o Piece(s, P[j])
  BY <1>2, <1>8 DEF RunAt
<1> QED
  BY <1>8, <1>9, <1>10 DEF f, V

LEMMA RunJoins ==
  ASSUME NEW P \in Seq(Leaves), NEW s \in [Loc -> Seq(U)], NEW i \in Places,
         NEW k \in Nat, NEW j \in Nat, i <= k + 1, k <= j, j <= Len(P)
  PROVE  Run(P, s, i)[j] = Run(P, s, i)[k] \o Run(P, s, k + 1)[j]
<1> DEFINE V == Seq(U)
           f == Run(P, s, i)
           h == Run(P, s, k + 1)
           G == {l \in Nat : l >= k /\ l <= Len(P) => f[l] = f[k] \o h[l]}
<1>1. Len(P) \in Nat /\ \A l \in 1 .. Len(P) : P[l] \in Leaves
  BY LenProperties, ElementOfSeq
<1>2. k + 1 \in Places /\ i \in Nat /\ i >= 1
  BY DEF Places
<1>3. /\ f \in [Nat -> V] /\ h \in [Nat -> V]
      /\ \A l \in i .. Len(P) : l - 1 \in Nat /\ f[l] = f[l - 1] \o Piece(s, P[l])
      /\ \A l \in k + 1 .. Len(P) : l - 1 \in Nat /\ h[l] = h[l - 1] \o Piece(s, P[l])
      /\ \A l \in Nat : ~ l \in k + 1 .. Len(P) => h[l] = << >>
  BY <1>2, RunFacts
<1> HIDE DEF f, h
<1>4. ASSUME NEW l \in Nat, \A a \in 0 .. l - 1 : a \in G  PROVE l \in G
  <2> SUFFICES ASSUME l >= k, l <= Len(P)  PROVE f[l] = f[k] \o h[l]
    OBVIOUS
  <2>1. CASE l = k
    <3>1. h[l] = << >>
      BY <1>3, <2>1
    <3>2. f[k] \o << >> = f[k]
      BY <1>3, ConcatEmptySeq
    <3> QED
      BY <2>1, <3>1, <3>2
  <2>2. CASE l # k
    <3>1. /\ l \in i .. Len(P) /\ l \in k + 1 .. Len(P) /\ l \in 1 .. Len(P)
          /\ l - 1 \in 0 .. l - 1 /\ l - 1 >= k /\ l - 1 <= Len(P)
      BY <1>1, <1>2, <2>2
    <3>2. f[l - 1] = f[k] \o h[l - 1]
      BY <1>4, <3>1
    <3>3. f[l] = f[l - 1] \o Piece(s, P[l]) /\ h[l] = h[l - 1] \o Piece(s, P[l])
      BY <1>3, <3>1
    <3>4. f[k] \in V /\ h[l - 1] \in V /\ Piece(s, P[l]) \in V
      BY <1>1, <1>3, <3>1, PieceTyped
    <3>5. f[k] \o (h[l - 1] \o Piece(s, P[l])) = (f[k] \o h[l - 1]) \o Piece(s, P[l])
      <4> DEFINE u == f[k]
                 v == h[l - 1]
                 w == Piece(s, P[l])
      <4>1. u \in Seq(U) /\ v \in Seq(U) /\ w \in Seq(U)
        BY <3>4
      <4> HIDE DEF u, v, w
      <4>2. (u \o v) \o w = u \o (v \o w)
        BY <4>1, JoinsInAnyOrder, SMTT(60)
      <4> QED
        BY <4>2 DEF u, v, w
    <3> QED
      BY <3>2, <3>3, <3>5
  <2> QED
    BY <2>1, <2>2
<1>5. f[j] = f[k] \o h[j]
  <2> HIDE DEF G
  <2>1. Nat \subseteq G
    BY <1>4, EveryNumber
  <2> QED
    BY <2>1 DEF G
<1> QED
  BY <1>5 DEF f, h

(* A term alone. *)
LEMMA RunOfOne ==
  ASSUME NEW P \in Seq(Leaves), NEW s \in [Loc -> Seq(U)], NEW i \in 1 .. Len(P)
  PROVE  Run(P, s, i)[i] = Piece(s, P[i])
<1>1. Len(P) \in Nat /\ P[i] \in Leaves
  BY LenProperties, ElementOfSeq
<1>2. i \in Places /\ i - 1 \in Nat /\ ~ i - 1 \in i .. Len(P) /\ i \in i .. Len(P)
  BY <1>1 DEF Places
<1>3. Run(P, s, i)[i - 1] = << >> /\ Run(P, s, i)[i] = Run(P, s, i)[i - 1] \o Piece(s, P[i])
  <2>1. /\ \A l \in Nat : ~ l \in i .. Len(P) => Run(P, s, i)[l] = << >>
        /\ \A l \in i .. Len(P) :
             l - 1 \in Nat /\ Run(P, s, i)[l] = Run(P, s, i)[l - 1] \o Piece(s, P[l])
    <3>1. i \in Places
      BY <1>2
    <3> QED
      BY <3>1, RunFacts
  <2> QED
    BY <1>2, <2>1
<1>4. << >> \o Piece(s, P[i]) = Piece(s, P[i])
  BY <1>1, PieceTyped, ConcatEmptySeq
<1> QED
  BY <1>3, <1>4

(* Only what the terms reach bears on their value. *)
LEMMA RunSame ==
  ASSUME NEW P \in Seq(Leaves), NEW s \in [Loc -> Seq(U)], NEW t \in [Loc -> Seq(U)],
         NEW i \in Places, NEW j \in Nat, j <= Len(P),
         \A k \in i .. j : s[P[k].at] = t[P[k].at]
  PROVE  Run(P, s, i)[j] = Run(P, t, i)[j]
<1> DEFINE f == Run(P, s, i)
           h == Run(P, t, i)
           G == {l \in Nat : l <= j => f[l] = h[l]}
<1>1. Len(P) \in Nat /\ i \in Nat /\ i >= 1
  BY LenProperties DEF Places
<1>2. /\ \A l \in Nat : ~ l \in i .. Len(P) => f[l] = << >> /\ h[l] = << >>
      /\ \A l \in i .. Len(P) : /\ l - 1 \in Nat
                                /\ f[l] = f[l - 1] \o Piece(s, P[l])
                                /\ h[l] = h[l - 1] \o Piece(t, P[l])
  <2>1. /\ \A l \in Nat : ~ l \in i .. Len(P) => f[l] = << >>
        /\ \A l \in i .. Len(P) : l - 1 \in Nat /\ f[l] = f[l - 1] \o Piece(s, P[l])
    BY RunFacts
  <2>2. /\ \A l \in Nat : ~ l \in i .. Len(P) => h[l] = << >>
        /\ \A l \in i .. Len(P) : l - 1 \in Nat /\ h[l] = h[l - 1] \o Piece(t, P[l])
    BY RunFacts
  <2> HIDE DEF f, h
  <2> QED
    BY <2>1, <2>2
<1> HIDE DEF f, h
<1>3. ASSUME NEW l \in Nat, \A a \in 0 .. l - 1 : a \in G  PROVE l \in G
  <2> SUFFICES ASSUME l <= j  PROVE f[l] = h[l]
    OBVIOUS
  <2>1. CASE ~ l \in i .. Len(P)
    BY <1>2, <2>1
  <2>2. CASE l \in i .. Len(P)
    <3>1. l - 1 \in 0 .. l - 1 /\ l - 1 <= j /\ l \in i .. j
      BY <1>1, <2>2
    <3>2. f[l - 1] = h[l - 1]
      BY <1>3, <3>1
    <3>3. Piece(s, P[l]) = Piece(t, P[l])
      BY <3>1 DEF Piece
    <3> QED
      BY <1>2, <2>2, <3>2, <3>3
  <2> QED
    BY <2>1, <2>2
<1>4. f[j] = h[j]
  <2> HIDE DEF G
  <2>1. Nat \subseteq G
    BY <1>3, EveryNumber
  <2> QED
    BY <2>1 DEF G
<1> QED
  BY <1>4 DEF f, h

-----------------------------------------------------------------------------
(* Trees.  A sum and its two sides.                                        *)
LEMMA TreeFacts ==
  ASSUME NEW e, IsTree(e)
  PROVE  /\ e.terms \in Seq(Leaves) /\ Len(e.terms) \in Nat /\ Len(e.terms) >= 1
         /\ \A k \in 1 .. Len(e.terms) : e.terms[k] \in Leaves
         /\ Root(e) \in Spans(Len(e.terms))
<1>1. e.terms \in Seq(Leaves) /\ e.terms # << >>
  BY DEF IsTree
<1>2. Len(e.terms) \in Nat /\ \A k \in 1 .. Len(e.terms) : e.terms[k] \in Leaves
  BY <1>1, LenProperties, ElementOfSeq
<1>3. Len(e.terms) # 0
  BY <1>1, EmptySeq
<1>4. Len(e.terms) >= 1
  BY <1>2, <1>3
<1> QED
  BY <1>1, <1>2, <1>4 DEF Root, Spans

LEMMA SumFacts ==
  ASSUME NEW e, IsTree(e), NEW x \in Spans(Len(e.terms))
  PROVE  /\ x[1] \in 1 .. Len(e.terms) /\ x[2] \in 1 .. Len(e.terms) /\ x[1] <= x[2]
         /\ x = << x[1], x[2] >> /\ x[2] - x[1] \in Nat
         /\ ~ IsAdd(x) => x[2] = x[1]
         /\ IsAdd(x) =>
              /\ e.split[x] \in x[1] .. x[2] - 1
              /\ Left(e, x) \in Spans(Len(e.terms)) /\ Right(e, x) \in Spans(Len(e.terms))
              /\ Left(e, x)[1] = x[1] /\ Left(e, x)[2] = e.split[x]
              /\ Right(e, x)[1] = e.split[x] + 1 /\ Right(e, x)[2] = x[2]
<1> DEFINE m == Len(e.terms)
<1>1. m \in Nat
  BY TreeFacts
<1>2. x[1] \in 1 .. m /\ x[2] \in 1 .. m /\ x[1] <= x[2] /\ x = << x[1], x[2] >>
  BY <1>1 DEF Spans
<1>3. IsAdd(x) => e.split[x] \in x[1] .. x[2] - 1
  BY DEF IsTree
<1>4. ASSUME IsAdd(x)
      PROVE  /\ Left(e, x) \in Spans(m) /\ Right(e, x) \in Spans(m)
             /\ Left(e, x)[1] = x[1] /\ Left(e, x)[2] = e.split[x]
             /\ Right(e, x)[1] = e.split[x] + 1 /\ Right(e, x)[2] = x[2]
  <2> DEFINE k == e.split[x]
  <2>1. k \in x[1] .. x[2] - 1
    BY <1>3, <1>4
  <2> HIDE DEF k, m
  <2>2. x[1] \in 1 .. m /\ k \in 1 .. m /\ k + 1 \in 1 .. m /\ x[2] \in 1 .. m
        /\ x[1] <= k /\ k + 1 <= x[2]
    BY <1>1, <1>2, <2>1
  <2>3. << x[1], k >> \in Spans(m) /\ << k + 1, x[2] >> \in Spans(m)
    BY <2>2 DEF Spans
  <2> QED
    BY <2>3 DEF Left, Right, k
<1>5. x[2] - x[1] \in Nat /\ (~ IsAdd(x) => x[2] = x[1])
  BY <1>1, <1>2 DEF IsAdd
<1> QED
  BY <1>2, <1>3, <1>4, <1>5

LEMMA SidesMakeWide ==
  ASSUME NEW e, IsTree(e), NEW x \in Spans(Len(e.terms)), IsAdd(x)
  PROVE  Wide(e, x) <=> Wide(e, Left(e, x)) \/ Wide(e, Right(e, x))
<1> DEFINE a == x[1]
           b == x[2]
           k == e.split[x]
<1>1. /\ a \in Nat /\ b \in Nat /\ k \in a .. b - 1
      /\ Left(e, x)[1] = a /\ Left(e, x)[2] = k
      /\ Right(e, x)[1] = k + 1 /\ Right(e, x)[2] = b
  BY TreeFacts, SumFacts
<1> HIDE DEF a, b, k
<1>2. a .. b = (a .. k) \cup (k + 1 .. b)
  BY <1>1
<1>3. /\ Terms(e, Left(e, x)) = {e.terms[j] : j \in a .. k}
      /\ Terms(e, Right(e, x)) = {e.terms[j] : j \in k + 1 .. b}
      /\ Terms(e, x) = {e.terms[j] : j \in a .. b}
  BY <1>1 DEF Terms, a, b
<1>4. Terms(e, x) = Terms(e, Left(e, x)) \cup Terms(e, Right(e, x))
  BY <1>2, <1>3
<1> QED
  BY <1>4 DEF Wide

-----------------------------------------------------------------------------
(* What a node is worth does not depend on the brackets.                   *)
Side(e, x, y, t) == IF Wide(e, x) /\ ~ Wide(e, y) THEN Decode(t) ELSE t

JoinedAt(e, s, g, x) ==
  IF IsAdd(x)
  THEN Side(e, x, Left(e, x), g[Left(e, x)]) \o Side(e, x, Right(e, x), g[Right(e, x)])
  ELSE s[e.terms[x[1]].at]

IsJoined(e, s, g) == g = [x \in Spans(Len(e.terms)) |-> JoinedAt(e, s, g, x)]
Joined(e, s)      == CHOOSE g : IsJoined(e, s, g)

LEMMA EvalIsJoined ==
  ASSUME NEW e, NEW n, NEW s  PROVE Eval(e, n, s) = Joined(e, s)[n]
BY DEF Eval, Joined, IsJoined, JoinedAt, Side

LEMMA JoinedAtFacts ==
  ASSUME NEW e, IsTree(e), NEW s \in [Loc -> Seq(U)], NEW x \in Spans(Len(e.terms)), NEW g,
         IsAdd(x) => g[Left(e, x)] \in Seq(U) /\ g[Right(e, x)] \in Seq(U)
  PROVE  JoinedAt(e, s, g, x) \in Seq(U)
<1>1. CASE IsAdd(x)
  <2> DEFINE a == Side(e, x, Left(e, x), g[Left(e, x)])
             b == Side(e, x, Right(e, x), g[Right(e, x)])
  <2>1. a \in Seq(U) /\ b \in Seq(U)
    BY <1>1, DecodeTyped DEF Side
  <2> HIDE DEF a, b
  <2>2. a \o b \in Seq(U)
    BY <2>1, ConcatProperties
  <2> QED
    BY <1>1, <2>2 DEF JoinedAt, a, b
<1>2. CASE ~ IsAdd(x)
  <2>1. e.terms[x[1]] \in Leaves
    BY TreeFacts, SumFacts
  <2>2. s[e.terms[x[1]].at] \in Seq(U)
    BY <2>1 DEF Leaves
  <2> QED
    BY <1>2, <2>2 DEF JoinedAt
<1> QED
  BY <1>1, <1>2

LEMMA JoinedFacts ==
  ASSUME NEW e, IsTree(e), NEW s \in [Loc -> Seq(U)]
  PROVE  /\ Joined(e, s) \in [Spans(Len(e.terms)) -> Seq(U)]
         /\ \A x \in Spans(Len(e.terms)) : Joined(e, s)[x] = JoinedAt(e, s, Joined(e, s), x)
<1> DEFINE V == Seq(U)
           D == Spans(Len(e.terms))
           m == [x \in D |-> x[2] - x[1]]
           H == [x \in D |-> [g \in [D -> V] |-> JoinedAt(e, s, g, x)]]
<1>1. \A x \in D : m[x] \in Nat
  BY SumFacts
<1>2. ASSUME NEW x \in D, IsAdd(x)
      PROVE  /\ Left(e, x) \in D /\ Right(e, x) \in D
             /\ m[Left(e, x)] < m[x] /\ m[Right(e, x)] < m[x]
  <2>1. /\ Left(e, x) \in D /\ Right(e, x) \in D
        /\ x[1] \in Nat /\ x[2] \in Nat /\ e.split[x] \in x[1] .. x[2] - 1
        /\ Left(e, x)[1] = x[1] /\ Left(e, x)[2] = e.split[x]
        /\ Right(e, x)[1] = e.split[x] + 1 /\ Right(e, x)[2] = x[2]
    BY <1>2, TreeFacts, SumFacts
  <2>2. m[Left(e, x)] = e.split[x] - x[1] /\ m[Right(e, x)] = x[2] - (e.split[x] + 1)
        /\ m[x] = x[2] - x[1]
    BY <2>1
  <2> HIDE DEF m, D
  <2> QED
    BY <2>1, <2>2
<1>3. Rests(D, V, m, H)
  <2>1. m \in [D -> Nat]
    BY <1>1
  <2>2. H \in [D -> [[D -> V] -> V]]
    <3> SUFFICES ASSUME NEW x \in D, NEW g \in [D -> V]  PROVE JoinedAt(e, s, g, x) \in V
      OBVIOUS
    <3>1. IsAdd(x) => g[Left(e, x)] \in V /\ g[Right(e, x)] \in V
      BY <1>2
    <3> QED
      BY <3>1, JoinedAtFacts
  <2>3. ASSUME NEW x \in D, NEW g \in [D -> V], NEW h \in [D -> V],
               \A y \in D : m[y] < m[x] => g[y] = h[y]
        PROVE  JoinedAt(e, s, g, x) = JoinedAt(e, s, h, x)
    <3>1. IsAdd(x) => g[Left(e, x)] = h[Left(e, x)] /\ g[Right(e, x)] = h[Right(e, x)]
      BY <1>2, <2>3
    <3> QED
      BY <3>1, Zenon DEF JoinedAt
  <2>4. \A x \in D : \A g, h \in [D -> V] :
          (\A y \in D : m[y] < m[x] => g[y] = h[y]) => H[x][g] = H[x][h]
    BY <2>3
  <2> HIDE DEF m, H, V, D
  <2> QED
    BY <2>1, <2>2, <2>4 DEF Rests
<1>4. V # {}
  BY OneTyped
<1>5. PICK g : IsSolution(D, V, H, g)
  <2> HIDE DEF m, H, D
  <2> QED
    BY <1>3, <1>4, Recursion
<1> DEFINE f == Joined(e, s)
<1>6. IsJoined(e, s, g)
  <2>1. \A x \in D : g[x] = JoinedAt(e, s, g, x)
    BY <1>5 DEF IsSolution
  <2>2. g = [x \in D |-> g[x]]
    BY <1>5 DEF IsSolution
  <2> QED
    BY <2>1, <2>2 DEF IsJoined
<1>7. IsJoined(e, s, f)
  BY <1>6 DEF Joined
<1> HIDE DEF f, H
<1>8. f = [x \in D |-> f[x]] /\ \A x \in D : f[x] = JoinedAt(e, s, f, x)
  BY <1>7 DEF IsJoined
<1> DEFINE G == {k \in Nat : \A x \in D : m[x] = k => f[x] \in V}
<1>9. ASSUME NEW k \in Nat, \A j \in 0 .. k - 1 : j \in G
      PROVE  k \in G
  <2> SUFFICES ASSUME NEW x \in D, m[x] = k  PROVE f[x] \in V
    OBVIOUS
  <2>1. ASSUME NEW y \in D, m[y] < m[x]  PROVE f[y] \in V
    <3>1. m[y] \in 0 .. k - 1
      BY <1>1, <2>1
    <3> QED
      BY <1>9, <3>1
  <2>2. IsAdd(x) => f[Left(e, x)] \in V /\ f[Right(e, x)] \in V
    BY <1>2, <2>1
  <2>3. JoinedAt(e, s, f, x) \in V
    BY <2>2, JoinedAtFacts
  <2> QED
    BY <1>8, <2>3
<1>10. \A x \in D : f[x] \in V
  <2> HIDE DEF G, m, D
  <2>1. Nat \subseteq G
    BY <1>9, EveryNumber
  <2> QED
    BY <1>1, <2>1 DEF G
<1>11. f \in [D -> V]
  BY <1>8, <1>10
<1> QED
  BY <1>8, <1>11 DEF f

(* What a node is worth when it is decoded. *)
Worth(e, s, g, x) ==
  /\ Wide(e, x) => g[x] = Run(e.terms, s, x[1])[x[2]]
  /\ ~ Wide(e, x) => Whole(g[x]) /\ Decode(g[x]) = Run(e.terms, s, x[1])[x[2]]

LEMMA SumWorth ==
  ASSUME WholeCharacters, NEW e, IsTree(e), NEW s, Good(s),
         NEW x \in Spans(Len(e.terms)), IsAdd(x),
         Worth(e, s, Joined(e, s), Left(e, x)), Worth(e, s, Joined(e, s), Right(e, x))
  PROVE  Worth(e, s, Joined(e, s), x)
<1> DEFINE f == Joined(e, s)
           y == Left(e, x)
           z == Right(e, x)
           k == e.split[x]
           all == Run(e.terms, s, x[1])[x[2]]
           fst == Run(e.terms, s, x[1])[k]
           snd == Run(e.terms, s, k + 1)[x[2]]
<1>1. s \in [Loc -> Seq(U)] /\ e.terms \in Seq(Leaves) /\ Len(e.terms) \in Nat
  BY TreeFacts DEF Good
<1>2. /\ x[1] \in 1 .. Len(e.terms) /\ x[2] \in 1 .. Len(e.terms) /\ k \in x[1] .. x[2] - 1
      /\ y \in Spans(Len(e.terms)) /\ z \in Spans(Len(e.terms))
      /\ y[1] = x[1] /\ y[2] = k /\ z[1] = k + 1 /\ z[2] = x[2]
  BY SumFacts
<1>3. all = fst \o snd
  <2>1. /\ x[1] \in Places /\ k \in Nat /\ x[2] \in Nat
        /\ x[1] <= k + 1 /\ k <= x[2] /\ x[2] <= Len(e.terms)
    BY <1>1, <1>2 DEF Places
  <2> HIDE DEF k
  <2> DEFINE P == e.terms
  <2> DEFINE i == x[1]
             j == x[2]
  <2>2. /\ P \in Seq(Leaves) /\ s \in [Loc -> Seq(U)]
        /\ i \in Places /\ k \in Nat /\ j \in Nat /\ i <= k + 1 /\ k <= j /\ j <= Len(P)
    BY <1>1, <2>1
  <2> HIDE DEF P, i, j
  <2>3. Run(P, s, i)[j] = Run(P, s, i)[k] \o Run(P, s, k + 1)[j]
    BY <2>2, RunJoins, Zenon
  <2> QED
    BY <2>3 DEF P, i, j
<1>4. /\ Wide(e, y) => f[y] = fst
      /\ ~ Wide(e, y) => Whole(f[y]) /\ Decode(f[y]) = fst
      /\ Wide(e, z) => f[z] = snd
      /\ ~ Wide(e, z) => Whole(f[z]) /\ Decode(f[z]) = snd
  BY <1>2 DEF Worth
<1>5. /\ f[y] \in Seq(U) /\ f[z] \in Seq(U)
      /\ f[x] = Side(e, x, y, f[y]) \o Side(e, x, z, f[z])
  <2>1. f \in [Spans(Len(e.terms)) -> Seq(U)] /\ f[x] = JoinedAt(e, s, f, x)
    BY <1>1, JoinedFacts
  <2> HIDE DEF f
  <2>2. f[y] \in Seq(U) /\ f[z] \in Seq(U)
    BY <1>2, <2>1
  <2>3. JoinedAt(e, s, f, x) = Side(e, x, y, f[y]) \o Side(e, x, z, f[z])
    BY Zenon DEF JoinedAt
  <2> QED
    BY <2>1, <2>2, <2>3
<1>6. Wide(e, x) <=> Wide(e, y) \/ Wide(e, z)
  BY SidesMakeWide
<1> HIDE DEF f, y, z, fst, snd, all
<1>7. CASE Wide(e, x)
  <2>1. Side(e, x, y, f[y]) = fst /\ Side(e, x, z, f[z]) = snd
    BY <1>4, <1>7 DEF Side
  <2> QED
    BY <1>3, <1>5, <1>7, <2>1 DEF Worth, f, all
<1>8. CASE ~ Wide(e, x)
  <2>1. f[x] = f[y] \o f[z]
    BY <1>5, <1>8 DEF Side
  <2>2. Whole(f[y]) /\ Whole(f[z]) /\ Decode(f[y]) = fst /\ Decode(f[z]) = snd
    BY <1>4, <1>6, <1>8
  <2>3. Whole(f[y] \o f[z])
    BY <1>5, <2>2, WholeJoins
  <2>4. Decode(f[y] \o f[z]) = fst \o snd
    BY <1>5, <2>2, DecodeJoins
  <2> QED
    BY <1>3, <1>8, <2>1, <2>3, <2>4 DEF Worth, f, all
<1> QED
  BY <1>7, <1>8

LEMMA LeafWorth ==
  ASSUME WholeCharacters, NEW e, IsTree(e), NEW s, Good(s),
         NEW x \in Spans(Len(e.terms)), ~ IsAdd(x)
  PROVE  Worth(e, s, Joined(e, s), x)
<1> DEFINE i == x[1]
           t == e.terms[i]
<1>1. s \in [Loc -> Seq(U)] /\ e.terms \in Seq(Leaves) /\ Len(e.terms) \in Nat
  BY TreeFacts DEF Good
<1>2. i \in 1 .. Len(e.terms) /\ x[2] = i /\ t \in Leaves
  BY TreeFacts, SumFacts
<1>3. Joined(e, s)[x] = s[t.at]
  BY <1>1, JoinedFacts DEF JoinedAt
<1>4. Terms(e, x) = {t}
  <2>1. i .. i = {i}
    BY <1>1, <1>2
  <2> QED
    BY <1>2, <2>1 DEF Terms
<1>5. Run(e.terms, s, i)[x[2]] = Piece(s, t)
  BY <1>1, <1>2, RunOfOne
<1>6. Wide(e, x) <=> t.at \notin Narrow
  BY <1>4 DEF Wide
<1>7. t.at \in Narrow => Whole(s[t.at])
  BY DEF Good, WholeCharacters
<1> HIDE DEF t
<1>8. /\ t.at \notin Narrow => Piece(s, t) = s[t.at]
      /\ t.at \in Narrow => Piece(s, t) = Decode(s[t.at])
  BY DEF Piece
<1> QED
  BY <1>3, <1>5, <1>6, <1>7, <1>8, Zenon DEF Worth, i

LEMMA NodeWorth ==
  ASSUME WholeCharacters, NEW e, IsTree(e), NEW s, Good(s), NEW n \in Spans(Len(e.terms))
  PROVE  /\ Decoded(e, n, s) = Run(e.terms, s, n[1])[n[2]]
         /\ Wide(e, n) => Eval(e, n, s) = Run(e.terms, s, n[1])[n[2]]
         /\ ~ Wide(e, n) => Decode(Eval(e, n, s)) = Run(e.terms, s, n[1])[n[2]]
<1> DEFINE D == Spans(Len(e.terms))
           W(x) == Worth(e, s, Joined(e, s), x)
           m(x) == x[2] - x[1]
           G == {k \in Nat : \A x \in D : m(x) = k => W(x)}
<1>1. \A x \in D : m(x) \in Nat
  BY SumFacts
<1>2. ASSUME NEW x \in D, IsAdd(x)
      PROVE  /\ Left(e, x) \in D /\ Right(e, x) \in D
             /\ m(Left(e, x)) \in 0 .. m(x) - 1 /\ m(Right(e, x)) \in 0 .. m(x) - 1
  <2>1. /\ Left(e, x) \in D /\ Right(e, x) \in D
        /\ x[1] \in Nat /\ x[2] \in Nat /\ e.split[x] \in x[1] .. x[2] - 1
        /\ Left(e, x)[1] = x[1] /\ Left(e, x)[2] = e.split[x]
        /\ Right(e, x)[1] = e.split[x] + 1 /\ Right(e, x)[2] = x[2]
    BY <1>2, TreeFacts, SumFacts
  <2> DEFINE b == x[1]
             d == x[2]
             k == e.split[x]
  <2>2. m(Left(e, x)) = k - b /\ m(Right(e, x)) = d - (k + 1) /\ m(x) = d - b
    BY <2>1
  <2>3. b \in Nat /\ d \in Nat /\ k \in b .. d - 1
    BY <2>1
  <2> HIDE DEF D, m, b, d, k
  <2>4. k - b \in 0 .. (d - b) - 1 /\ d - (k + 1) \in 0 .. (d - b) - 1
    BY <2>3
  <2> QED
    BY <2>1, <2>2, <2>4
<1> HIDE DEF W
<1>3. ASSUME NEW k \in Nat, \A j \in 0 .. k - 1 : j \in G  PROVE k \in G
  <2> SUFFICES ASSUME NEW x \in D, m(x) = k  PROVE W(x)
    OBVIOUS
  <2>1. CASE IsAdd(x)
    <3>1. W(Left(e, x)) /\ W(Right(e, x))
      BY <1>2, <1>3, <2>1
    <3> QED
      BY <2>1, <3>1, SumWorth DEF W
  <2>2. CASE ~ IsAdd(x)
    BY <2>2, LeafWorth DEF W
  <2> QED
    BY <2>1, <2>2
<1>4. W(n)
  <2> HIDE DEF G, m, D
  <2>1. Nat \subseteq G
    BY <1>3, EveryNumber
  <2>2. m(n) \in Nat
    BY <1>1 DEF D
  <2> QED
    BY <2>1, <2>2 DEF G, D
<1>5. Eval(e, n, s) = Joined(e, s)[n]
  BY EvalIsJoined
<1> QED
  BY <1>4, <1>5, Zenon DEF Decoded, Worth, W

-----------------------------------------------------------------------------
(* Operands.  A row of nodes: each begins behind the one before it.        *)
Row(m, ns, a, b) ==
  /\ ns \in Seq(Spans(m)) /\ Len(ns) >= 1
  /\ ns[1][1] = a /\ ns[Len(ns)][2] = b
  /\ \A i \in 1 .. Len(ns) - 1 : ns[i + 1][1] = ns[i][2] + 1
  /\ \A i \in 1 .. Len(ns) : a <= ns[i][1] /\ ns[i][2] <= b

LEMMA RowOfOne ==
  ASSUME NEW m \in Nat, NEW x \in Spans(m)
  PROVE  Row(m, << x >>, x[1], x[2])
<1>1. << x >> \in Seq(Spans(m)) /\ Len(<< x >>) = 1 /\ << x >>[1] = x
  BY Single
<1>2. x[1] \in Nat /\ x[2] \in Nat
  BY DEF Spans
<1> QED
  BY <1>1, <1>2 DEF Row

LEMMA RowGrows ==
  ASSUME NEW m \in Nat, NEW ns, NEW a \in Nat, NEW k \in Nat, Row(m, ns, a, k), a <= k,
         NEW x \in Spans(m), x[1] = k + 1
  PROVE  Row(m, Append(ns, x), a, x[2])
<1> DEFINE c == Append(ns, x)
           n == Len(ns)
<1>1. ns \in Seq(Spans(m)) /\ n \in Nat /\ n >= 1
  BY LenProperties DEF Row
<1>2. /\ c \in Seq(Spans(m)) /\ Len(c) = n + 1
      /\ \A i \in 1 .. n : c[i] = ns[i]
      /\ c[n + 1] = x
  BY <1>1, AppendProperties
<1>3. x[1] \in Nat /\ x[2] \in Nat /\ x[1] <= x[2]
  BY DEF Spans
<1>4. /\ ns[1][1] = a /\ ns[n][2] = k
      /\ \A i \in 1 .. n - 1 : ns[i + 1][1] = ns[i][2] + 1
      /\ \A i \in 1 .. n : a <= ns[i][1] /\ ns[i][2] <= k
  BY DEF Row
<1>5. \A i \in 1 .. n : ns[i] \in Spans(m) /\ ns[i][2] \in Nat
  <2>1. \A i \in 1 .. n : ns[i] \in Spans(m)
    BY <1>1, ElementOfSeq
  <2> QED
    BY <2>1 DEF Spans
<1> HIDE DEF c, n
<1>6. ASSUME NEW i \in 1 .. Len(c) - 1  PROVE c[i + 1][1] = c[i][2] + 1
  <2>1. CASE i = n
    BY <1>1, <1>2, <1>4, <2>1
  <2>2. CASE i # n
    <3>1. i \in 1 .. n - 1 /\ i \in 1 .. n /\ i + 1 \in 1 .. n
      BY <1>1, <1>2, <2>2
    <3> QED
      BY <1>2, <1>4, <3>1
  <2> QED
    BY <2>1, <2>2
<1>7. ASSUME NEW i \in 1 .. Len(c)  PROVE a <= c[i][1] /\ c[i][2] <= x[2]
  <2>1. CASE i = n + 1
    BY <1>2, <1>3, <2>1
  <2>2. CASE i # n + 1
    <3>1. i \in 1 .. n
      BY <1>1, <1>2, <2>2
    <3> QED
      BY <1>2, <1>3, <1>4, <1>5, <3>1
  <2> QED
    BY <2>1, <2>2
<1>8. 1 \in 1 .. n /\ c[1][1] = a /\ Len(c) >= 1 /\ c[Len(c)][2] = x[2]
  BY <1>1, <1>2, <1>4
<1> QED
  BY <1>2, <1>6, <1>7, <1>8 DEF Row, c

UptoAt(e, n, g, j) ==
  IF IsAdd(<< n[1], j >>)
  THEN Append(g[e.split[<< n[1], j >>]], Right(e, << n[1], j >>))
  ELSE << << n[1], j >> >>

IsUpto(e, n, g) == g = [j \in n[1] .. n[2] |-> UptoAt(e, n, g, j)]
Upto(e, n)      == CHOOSE g : IsUpto(e, n, g)

LEMMA OperandsIsUpto ==
  ASSUME NEW e, NEW n  PROVE Operands(e, n) = Upto(e, n)[n[2]]
BY DEF Operands, Upto, IsUpto, UptoAt

LEMMA OperandsRow ==
  ASSUME NEW e, IsTree(e), NEW n \in Spans(Len(e.terms))
  PROVE  Row(Len(e.terms), Operands(e, n), n[1], n[2])
<1> DEFINE l == Len(e.terms)
           a == n[1]
           D == a .. n[2]
           V == Seq(Spans(l))
           m == [j \in D |-> j]
           H == [j \in D |-> [g \in [D -> V] |-> UptoAt(e, n, g, j)]]
           x(j) == << a, j >>
<1>1. l \in Nat /\ a \in 1 .. l /\ n[2] \in 1 .. l /\ a <= n[2]
  BY TreeFacts, SumFacts
<1>2. ASSUME NEW j \in D
      PROVE  /\ j \in Nat /\ a <= j /\ x(j) \in Spans(l) /\ x(j)[1] = a /\ x(j)[2] = j
             /\ IsAdd(x(j)) <=> a < j
             /\ a < j => /\ e.split[x(j)] \in D /\ e.split[x(j)] < j
                         /\ Right(e, x(j)) \in Spans(l)
                         /\ Right(e, x(j))[1] = e.split[x(j)] + 1 /\ Right(e, x(j))[2] = j
  <2>1. j \in Nat /\ a <= j /\ j \in 1 .. l
    BY <1>1
  <2>2. x(j) \in Spans(l) /\ x(j)[1] = a /\ x(j)[2] = j
    BY <1>1, <2>1 DEF Spans
  <2>3. IsAdd(x(j)) <=> a < j
    BY DEF IsAdd
  <2>4. a < j => /\ e.split[x(j)] \in a .. j - 1
                 /\ Right(e, x(j)) \in Spans(l)
                 /\ Right(e, x(j))[1] = e.split[x(j)] + 1 /\ Right(e, x(j))[2] = j
    <3> HIDE DEF x
    <3> QED
      BY <2>2, <2>3, SumFacts
  <2> HIDE DEF x
  <2>5. a < j => e.split[x(j)] \in D /\ e.split[x(j)] < j
    BY <1>1, <2>1, <2>4
  <2> QED
    BY <2>1, <2>2, <2>3, <2>4, <2>5
<1>3. ASSUME NEW j \in D, NEW g, a < j => g[e.split[x(j)]] \in V
      PROVE  UptoAt(e, n, g, j) \in V
  <2>1. CASE a < j
    <3>1. Append(g[e.split[x(j)]], Right(e, x(j))) \in V
      BY <1>2, <1>3, <2>1, AppendProperties
    <3> QED
      BY <1>2, <2>1, <3>1 DEF UptoAt
  <2>2. CASE ~ a < j
    <3>1. << x(j) >> \in V
      BY <1>2, Single
    <3> QED
      BY <1>2, <2>2, <3>1 DEF UptoAt
  <2> QED
    BY <2>1, <2>2
<1> HIDE DEF x
<1>4. Rests(D, V, m, H)
  <2>1. m \in [D -> Nat]
    BY <1>2
  <2>2. H \in [D -> [[D -> V] -> V]]
    BY <1>2, <1>3
  <2>3. ASSUME NEW j \in D, NEW g \in [D -> V], NEW h \in [D -> V],
               \A k \in D : m[k] < m[j] => g[k] = h[k]
        PROVE  UptoAt(e, n, g, j) = UptoAt(e, n, h, j)
    <3>1. a < j => g[e.split[x(j)]] = h[e.split[x(j)]]
      BY <1>2, <2>3
    <3>2. IsAdd(x(j)) => g[e.split[x(j)]] = h[e.split[x(j)]]
      BY <1>2, <3>1
    <3> QED
      BY <3>2, Zenon DEF UptoAt, x
  <2>4. \A j \in D : \A g, h \in [D -> V] :
          (\A k \in D : m[k] < m[j] => g[k] = h[k]) => H[j][g] = H[j][h]
    BY <2>3
  <2> HIDE DEF m, H, V, D
  <2> QED
    BY <2>1, <2>2, <2>4 DEF Rests
<1>5. V # {}
  BY EmptySeq
<1>6. PICK g : IsSolution(D, V, H, g)
  <2> HIDE DEF m, H, D
  <2> QED
    BY <1>4, <1>5, Recursion
<1> DEFINE f == Upto(e, n)
<1>7. IsUpto(e, n, g)
  <2>1. \A j \in D : g[j] = UptoAt(e, n, g, j)
    BY <1>6 DEF IsSolution
  <2>2. g = [j \in D |-> g[j]]
    BY <1>6 DEF IsSolution
  <2> QED
    BY <2>1, <2>2 DEF IsUpto
<1>8. IsUpto(e, n, f)
  BY <1>7 DEF Upto
<1> HIDE DEF f, H
<1>9. \A j \in D : f[j] = UptoAt(e, n, f, j)
  BY <1>8 DEF IsUpto
<1> DEFINE G == {k \in Nat : k \in D => Row(l, f[k], a, k)}
<1>10. ASSUME NEW j \in Nat, \A k \in 0 .. j - 1 : k \in G
       PROVE  j \in G
  <2> SUFFICES ASSUME j \in D  PROVE Row(l, f[j], a, j)
    OBVIOUS
  <2>1. CASE a < j
    <3> DEFINE k == e.split[x(j)]
    <3>1. /\ k \in D /\ k \in 0 .. j - 1 /\ a <= k /\ k \in Nat /\ a \in Nat
          /\ Right(e, x(j)) \in Spans(l) /\ Right(e, x(j))[1] = k + 1 /\ Right(e, x(j))[2] = j
      BY <1>1, <1>2, <2>1
    <3> HIDE DEF D
    <3>2. Row(l, f[k], a, k)
      BY <1>10, <3>1
    <3> HIDE DEF k
    <3>3. Row(l, Append(f[k], Right(e, x(j))), a, Right(e, x(j))[2])
      BY <1>1, <3>1, <3>2, RowGrows
    <3>4. f[j] = Append(f[k], Right(e, x(j)))
      BY <1>2, <1>9, <2>1 DEF UptoAt, x, k
    <3> QED
      BY <3>1, <3>3, <3>4
  <2>2. CASE ~ a < j
    <3>1. f[j] = << x(j) >> /\ x(j) \in Spans(l) /\ x(j)[1] = a /\ x(j)[2] = j
      BY <1>2, <1>9, <2>2 DEF UptoAt, x
    <3> HIDE DEF D, l, a
    <3> QED
      BY <1>1, <3>1, RowOfOne
  <2> QED
    BY <2>1, <2>2
<1>11. Row(l, f[n[2]], a, n[2])
  <2>1. n[2] \in Nat /\ n[2] \in D
    BY <1>1
  <2> HIDE DEF G, D
  <2>2. Nat \subseteq G
    BY <1>10, EveryNumber
  <2> QED
    BY <2>1, <2>2 DEF G
<1> QED
  BY <1>11, OperandsIsUpto DEF f

-----------------------------------------------------------------------------
(* The calls.  They take the terms in order, each once; the one that takes *)
(* the first term assigns, and all others append.                          *)
Calls(m) == [op : {"assign", "append"}, src : Spans(m), conv : BOOLEAN]

InOrder(m, c) ==
  /\ c \in Seq(Calls(m))
  /\ \A i \in 1 .. Len(c) : c[i].op = "assign" <=> c[i].src[1] = 1
  /\ \A i \in 1 .. Len(c) - 1 : c[i + 1].src[1] = c[i].src[2] + 1
  /\ Len(c) >= 1 => c[Len(c)].src[2] = m

(* The first of the terms that are still to come. *)
Upcoming(m, c) == IF Len(c) >= 1 THEN c[1].src[1] ELSE m + 1

(* No append reads its destination; each is told of a narrow source. *)
Apart(l, e, c) ==
  \A i \in 1 .. Len(c) :
    c[i].op = "append" => \A x \in Terms(e, c[i].src) : x.at # l.at

Aware(e, c) ==
  \A i \in 1 .. Len(c) : c[i].op = "append" => Wide(e, c[i].src) \/ c[i].conv

LEMMA CallFacts ==
  ASSUME NEW e, NEW m, NEW x \in Spans(m)
  PROVE  /\ Assigned(x) \in Calls(m) /\ Assigned(x).op = "assign" /\ Assigned(x).src = x
         /\ Appended(x) \in Calls(m) /\ Appended(x).op = "append" /\ Appended(x).src = x
         /\ ConcatAssign(e, x) \in Calls(m)
         /\ ConcatAssign(e, x).op = "append" /\ ConcatAssign(e, x).src = x
         /\ Wide(e, x) \/ ConcatAssign(e, x).conv
<1>1. Wide(e, x) \in BOOLEAN
  BY DEF Wide
<1>2. (~ Wide(e, x)) \in BOOLEAN
  BY <1>1
<1> QED
  BY <1>1, <1>2 DEF Calls, Assigned, Appended, ConcatAssign

(* The terms of a node of a row are terms of the whole. *)
LEMMA TermsOfSome ==
  ASSUME NEW e, IsTree(e), NEW n \in Spans(Len(e.terms)), NEW x \in Spans(Len(e.terms)),
         n[1] <= x[1], x[2] <= n[2]
  PROVE  Terms(e, x) \subseteq Terms(e, n)
<1>1. /\ n[1] \in Nat /\ n[2] \in Nat /\ x[1] \in Nat /\ x[2] \in Nat
  BY TreeFacts, SumFacts
<1>2. x[1] .. x[2] \subseteq n[1] .. n[2]
  BY <1>1
<1> QED
  BY <1>2 DEF Terms

(* What Lower makes, given the operands of n. *)
LEMMA AppendsFacts ==
  ASSUME NEW l, NEW e, IsTree(e), NEW n \in Spans(Len(e.terms)),
         ~ OnTree(l.sym, e, n), n[1] >= 2, n[2] = Len(e.terms)
  PROVE  LET c == Appends(e, Operands(e, n))
         IN  /\ InOrder(Len(e.terms), c) /\ Upcoming(Len(e.terms), c) = n[1]
             /\ Aware(e, c)
             /\ \A i \in 1 .. Len(c) : \A y \in Terms(e, c[i].src) : ~ Names(y, l.sym)
<1> DEFINE m  == Len(e.terms)
           ns == Operands(e, n)
           c  == Appends(e, ns)
           k  == Len(ns)
<1>1. m \in Nat /\ n[1] \in Nat /\ n[2] \in Nat
  BY TreeFacts, SumFacts
<1>2. /\ ns \in Seq(Spans(m)) /\ k >= 1 /\ ns[1][1] = n[1] /\ ns[k][2] = n[2]
      /\ \A i \in 1 .. k - 1 : ns[i + 1][1] = ns[i][2] + 1
      /\ \A i \in 1 .. k : n[1] <= ns[i][1] /\ ns[i][2] <= n[2]
  BY OperandsRow DEF Row
<1>3. k \in Nat /\ DOMAIN ns = 1 .. k /\ \A i \in 1 .. k : ns[i] \in Spans(m)
  BY <1>2, LenProperties, ElementOfSeq
<1> HIDE DEF ns
<1>4. c = [i \in 1 .. k |-> ConcatAssign(e, ns[i])]
  BY <1>3 DEF Appends
<1>5. ASSUME NEW i \in 1 .. k
      PROVE  /\ c[i] \in Calls(m) /\ c[i].op = "append" /\ c[i].src = ns[i]
             /\ Wide(e, ns[i]) \/ c[i].conv
  <2>1. c[i] = ConcatAssign(e, ns[i]) /\ ns[i] \in Spans(m)
    BY <1>3, <1>4
  <2> HIDE DEF c, m
  <2> QED
    BY <2>1, CallFacts
<1>6. c \in Seq(Calls(m)) /\ Len(c) = k
  BY <1>3, <1>4, <1>5
<1> HIDE DEF c, k
<1>7. \A i \in 1 .. k : c[i].src[1] # 1
  <2>1. \A i \in 1 .. k : ns[i][1] \in Nat
    BY <1>3 DEF Spans
  <2> QED
    BY <1>1, <1>2, <1>5, <2>1
<1>8. \A i \in 1 .. k : Terms(e, c[i].src) \subseteq Terms(e, n)
  BY <1>2, <1>3, <1>5, TermsOfSome DEF m
<1>9. \A i \in 1 .. k - 1 : c[i + 1].src[1] = c[i].src[2] + 1
  <2>1. \A i \in 1 .. k - 1 : i \in 1 .. k /\ i + 1 \in 1 .. k
    BY <1>3
  <2> QED
    BY <1>2, <1>5, <2>1
<1>10. 1 \in 1 .. k /\ k \in 1 .. k
  BY <1>2, <1>3
<1>11. InOrder(m, c) /\ Upcoming(m, c) = n[1]
  BY <1>2, <1>5, <1>6, <1>7, <1>9, <1>10 DEF InOrder, Upcoming, m
<1>12. Aware(e, c)
  BY <1>5, <1>6 DEF Aware
<1>13. \A i \in 1 .. Len(c) : \A y \in Terms(e, c[i].src) : ~ Names(y, l.sym)
  BY <1>6, <1>8 DEF OnTree
<1> QED
  BY <1>11, <1>12, <1>13 DEF c, m, ns

LEMMA AssignAppendsFacts ==
  ASSUME NEW l, NEW e, IsTree(e), ~ OnTree(l.sym, e, Root(e))
  PROVE  LET ns == Operands(e, Root(e))
             c  == << Assigned(Head(ns)) >> \o Appends(e, Tail(ns))
         IN  /\ InOrder(Len(e.terms), c) /\ Upcoming(Len(e.terms), c) = 1
             /\ Aware(e, c)
             /\ \A i \in 1 .. Len(c) : \A y \in Terms(e, c[i].src) : ~ Names(y, l.sym)
<1> DEFINE m  == Len(e.terms)
           n  == Root(e)
           ns == Operands(e, n)
           c1 == << Assigned(Head(ns)) >>
           c2 == Appends(e, Tail(ns))
           c  == c1 \o c2
           k  == Len(ns)
<1>1. m \in Nat /\ n[1] = 1 /\ n[2] = m /\ n \in Spans(m)
  BY TreeFacts DEF Root
<1>2. /\ ns \in Seq(Spans(m)) /\ k >= 1 /\ ns[1][1] = 1 /\ ns[k][2] = m
      /\ \A i \in 1 .. k - 1 : ns[i + 1][1] = ns[i][2] + 1
      /\ \A i \in 1 .. k : 1 <= ns[i][1] /\ ns[i][2] <= m
  BY <1>1, OperandsRow DEF Row
<1>3. k \in Nat /\ DOMAIN ns = 1 .. k /\ \A i \in 1 .. k : ns[i] \in Spans(m)
  BY <1>2, LenProperties, ElementOfSeq
<1> HIDE DEF ns, n
<1>4. /\ Tail(ns) \in Seq(Spans(m)) /\ Len(Tail(ns)) = k - 1 /\ Head(ns) = ns[1]
      /\ \A i \in 1 .. k - 1 : Tail(ns)[i] = ns[i + 1]
  BY <1>2, <1>3, HeadTailProperties
<1>5. c2 = [i \in 1 .. k - 1 |-> ConcatAssign(e, ns[i + 1])]
  <2>1. DOMAIN Tail(ns) = 1 .. k - 1
    BY <1>4, LenProperties
  <2> QED
    BY <1>4, <2>1 DEF Appends
<1>6. ASSUME NEW i \in 1 .. k - 1
      PROVE  /\ i + 1 \in 1 .. k
             /\ c2[i] \in Calls(m) /\ c2[i].op = "append" /\ c2[i].src = ns[i + 1]
             /\ Wide(e, ns[i + 1]) \/ c2[i].conv
  <2>1. i + 1 \in 1 .. k
    BY <1>3
  <2>2. c2[i] = ConcatAssign(e, ns[i + 1]) /\ ns[i + 1] \in Spans(m)
    BY <1>3, <1>5, <2>1
  <2> HIDE DEF c2, m
  <2> QED
    BY <2>1, <2>2, CallFacts
<1>7. c2 \in Seq(Calls(m)) /\ Len(c2) = k - 1
  <2>1. k - 1 \in Nat
    BY <1>2, <1>3
  <2> HIDE DEF k
  <2> QED
    BY <1>5, <1>6, <2>1
<1>8. c1 \in Seq(Calls(m)) /\ Len(c1) = 1 /\ c1[1].op = "assign" /\ c1[1].src = ns[1]
  <2>1. 1 \in 1 .. k
    BY <1>2, <1>3
  <2>2. /\ Assigned(ns[1]) \in Calls(m) /\ Assigned(ns[1]).op = "assign"
        /\ Assigned(ns[1]).src = ns[1]
    BY <1>3, <2>1, CallFacts
  <2> QED
    BY <1>4, <2>2, Single
<1> HIDE DEF c1, c2
<1>9. /\ c \in Seq(Calls(m)) /\ Len(c) = k /\ c[1] = c1[1]
      /\ \A i \in 1 .. k - 1 : c[1 + i] = c2[i]
  <2> HIDE DEF m, k
  <2>1. /\ c \in Seq(Calls(m)) /\ Len(c) = Len(c1) + Len(c2)
        /\ \A i \in 1 .. Len(c1) : c[i] = c1[i]
        /\ \A i \in 1 .. Len(c2) : c[Len(c1) + i] = c2[i]
    BY <1>7, <1>8, JoinFacts, SMTT(30)
  <2> HIDE DEF c
  <2> QED
    BY <1>3, <1>7, <1>8, <2>1
<1> HIDE DEF c, k
<1>10. ASSUME NEW i \in 1 .. k
       PROVE  /\ c[i].src = ns[i]
              /\ c[i].op = "assign" <=> ns[i][1] = 1
              /\ c[i].op = "append" => Wide(e, ns[i]) \/ c[i].conv
  <2>1. CASE i = 1
    BY <1>2, <1>8, <1>9, <2>1
  <2>2. CASE i # 1
    <3> DEFINE j == i - 1
    <3>1. j \in 1 .. k - 1 /\ i = 1 + j /\ i = j + 1 /\ j \in 1 .. k
      BY <1>3, <2>2
    <3> HIDE DEF j
    <3>2. /\ c[i] = c2[j] /\ c2[j].op = "append" /\ c2[j].src = ns[i]
          /\ Wide(e, ns[i]) \/ c2[j].conv
      BY <1>6, <1>9, <3>1
    <3>3. ns[i][1] = ns[j][2] + 1 /\ ns[j][2] >= 1 /\ ns[j][2] \in Nat
      BY <1>1, <1>2, <1>3, <3>1 DEF Spans
    <3> QED
      BY <3>2, <3>3
  <2> QED
    BY <2>1, <2>2
<1>11. \A i \in 1 .. k : Terms(e, c[i].src) \subseteq Terms(e, n)
  BY <1>1, <1>2, <1>3, <1>10, TermsOfSome DEF m
<1>12. \A i \in 1 .. k - 1 : c[i + 1].src[1] = c[i].src[2] + 1
  <2>1. \A i \in 1 .. k - 1 : i \in 1 .. k /\ i + 1 \in 1 .. k
    BY <1>3
  <2> QED
    BY <1>2, <1>10, <2>1
<1>13. 1 \in 1 .. k /\ k \in 1 .. k
  BY <1>2, <1>3
<1>14. InOrder(m, c) /\ Upcoming(m, c) = 1
  BY <1>2, <1>9, <1>10, <1>12, <1>13 DEF InOrder, Upcoming
<1>15. Aware(e, c)
  BY <1>9, <1>10 DEF Aware
<1>16. \A i \in 1 .. Len(c) : \A y \in Terms(e, c[i].src) : ~ Names(y, l.sym)
  BY <1>9, <1>11 DEF OnTree, n
<1> QED
  BY <1>14, <1>15, <1>16 DEF c, c1, c2, m, ns, n

LEMMA OneCall ==
  ASSUME NEW l, NEW e, IsTree(e), NEW x \in Spans(Len(e.terms)), x[2] = Len(e.terms)
  PROVE  /\ x[1] = 1 =>
              /\ InOrder(Len(e.terms), << Assigned(x) >>)
              /\ Upcoming(Len(e.terms), << Assigned(x) >>) = 1
              /\ Apart(l, e, << Assigned(x) >>) /\ Aware(e, << Assigned(x) >>)
         /\ x[1] # 1 =>
              /\ InOrder(Len(e.terms), << Appended(x) >>)
              /\ Upcoming(Len(e.terms), << Appended(x) >>) = x[1]
              /\ ~ OnTree(l.sym, e, x) =>
                   \A y \in Terms(e, x) : ~ Names(y, l.sym)
              /\ Wide(e, x) => Aware(e, << Appended(x) >>)
<1> DEFINE m == Len(e.terms)
           c == << Assigned(x) >>
           d == << Appended(x) >>
<1>1. /\ Assigned(x) \in Calls(m) /\ Assigned(x).op = "assign" /\ Assigned(x).src = x
      /\ Appended(x) \in Calls(m) /\ Appended(x).op = "append" /\ Appended(x).src = x
  BY CallFacts
<1>2. /\ c \in Seq(Calls(m)) /\ Len(c) = 1 /\ c[1].op = "assign" /\ c[1].src = x
      /\ d \in Seq(Calls(m)) /\ Len(d) = 1 /\ d[1].op = "append" /\ d[1].src = x
  BY <1>1, Single
<1> HIDE DEF c, d, m
<1>3. x[1] = 1 => InOrder(m, c) /\ Upcoming(m, c) = 1
  BY <1>2 DEF InOrder, Upcoming, m
<1>4. x[1] # 1 => InOrder(m, d) /\ Upcoming(m, d) = x[1]
  BY <1>2 DEF InOrder, Upcoming, m
<1>5. Apart(l, e, c) /\ Aware(e, c)
  BY <1>2 DEF Apart, Aware
<1>6. Wide(e, x) => Aware(e, d)
  BY <1>2 DEF Aware
<1>7. ~ OnTree(l.sym, e, x) => \A y \in Terms(e, x) : ~ Names(y, l.sym)
  BY DEF OnTree
<1> QED
  BY <1>3, <1>4, <1>5, <1>6, <1>7 DEF c, d, m

(* An append of terms that do not name l does not read it, if no term      *)
(* reads it by another name.                                               *)
LEMMA UnnamedApart ==
  ASSUME NEW l, NEW e, NEW c,
         \A x \in Terms(e, Root(e)) : x.at = l.at => Names(x, l.sym),
         \A i \in 1 .. Len(c) : Terms(e, c[i].src) \subseteq Terms(e, Root(e)),
         \A i \in 1 .. Len(c) : \A x \in Terms(e, c[i].src) : ~ Names(x, l.sym)
  PROVE  Apart(l, e, c)
BY DEF Apart

LEMMA TermsOfCalls ==
  ASSUME NEW e, IsTree(e), NEW c, InOrder(Len(e.terms), c), NEW i \in 1 .. Len(c)
  PROVE  /\ c[i].src \in Spans(Len(e.terms)) /\ c[i] \in Calls(Len(e.terms))
         /\ Terms(e, c[i].src) \subseteq Terms(e, Root(e))
<1>1. c[i] \in Calls(Len(e.terms))
  BY ElementOfSeq DEF InOrder
<1>2. c[i].src \in Spans(Len(e.terms))
  BY <1>1 DEF Calls
<1>3. Root(e) \in Spans(Len(e.terms)) /\ Root(e)[1] = 1 /\ Root(e)[2] = Len(e.terms)
  BY TreeFacts DEF Root
<1>4. 1 <= c[i].src[1] /\ c[i].src[2] <= Len(e.terms)
  BY <1>2, TreeFacts, SumFacts
<1> QED
  BY <1>1, <1>2, <1>3, <1>4, TermsOfSome

LEMMA GrowsFacts ==
  ASSUME NEW l, NEW e, IsTree(e), GrowsInPlace(l, e, Root(e))
  PROVE  /\ BuiltUp(l) /\ e.terms[1] = l /\ ~ OnTree(l.sym, e, Right(e, Root(e)))
         /\ Right(e, Root(e)) \in Spans(Len(e.terms))
         /\ Right(e, Root(e))[1] = 2 /\ Right(e, Root(e))[2] = Len(e.terms)
         /\ ~ IsAdd(Left(e, Root(e)))
         /\ IsMultStrConcat(l, e, Right(e, Root(e))) <=> IsAdd(Right(e, Root(e)))
<1> DEFINE n == Root(e)
           y == Left(e, n)
           z == Right(e, n)
<1>1. /\ IsAdd(n) /\ l.class \in {"VAR", "IDX"} /\ l.sym \notin Shared
      /\ ~ IsAdd(y) /\ Terms(e, y) = {l} /\ ~ OnTree(l.sym, e, z)
  BY DEF GrowsInPlace, TreeEqual
<1>2. n \in Spans(Len(e.terms)) /\ n[1] = 1 /\ n[2] = Len(e.terms) /\ Len(e.terms) \in Nat
  BY TreeFacts DEF Root
<1>3. /\ y \in Spans(Len(e.terms)) /\ z \in Spans(Len(e.terms))
      /\ y[1] = 1 /\ y[2] = e.split[n] /\ z[1] = e.split[n] + 1 /\ z[2] = Len(e.terms)
  <2> HIDE DEF n
  <2> QED
    BY <1>1, <1>2, SumFacts
<1> HIDE DEF n, y, z
<1>4. y[2] = 1
  BY <1>1, <1>3, SumFacts
<1>5. e.terms[1] = l
  <2>1. 1 \in y[1] .. y[2]
    BY <1>3, <1>4
  <2>2. e.terms[1] \in Terms(e, y)
    BY <2>1 DEF Terms
  <2> QED
    BY <1>1, <2>2
<1>6. l.class # "DEREF"
  BY <1>1
<1>7. BuiltUp(l) /\ (IsMultStrConcat(l, e, z) <=> IsAdd(z))
  BY <1>1, <1>6 DEF BuiltUp, IsMultStrConcat
<1> QED
  BY <1>1, <1>3, <1>4, <1>5, <1>7 DEF n, y, z

LEMMA LowerFacts ==
  ASSUME NEW l, NEW e, IsTree(e)
  PROVE  /\ InOrder(Len(e.terms), Lower(l, e))
         /\ \/ Upcoming(Len(e.terms), Lower(l, e)) = 1
            \/ Upcoming(Len(e.terms), Lower(l, e)) = 2 /\ e.terms[1] = l
         /\ (BuiltUp(l) => \A x \in Terms(e, Root(e)) : x.at = l.at => Names(x, l.sym))
              => Apart(l, e, Lower(l, e))
         /\ (GrowsInPlace(l, e, Root(e)) /\ ~ IsAdd(Right(e, Root(e)))
               => Wide(e, Right(e, Root(e))))
              => Aware(e, Lower(l, e))
<1> DEFINE m == Len(e.terms)
           n == Root(e)
           z == Right(e, n)
           Plainly == BuiltUp(l) => \A x \in Terms(e, n) : x.at = l.at => Names(x, l.sym)
           Known(c) == /\ InOrder(m, c)
                       /\ \/ Upcoming(m, c) = 1
                          \/ Upcoming(m, c) = 2 /\ e.terms[1] = l
                       /\ Plainly => Apart(l, e, c)
                       /\ (GrowsInPlace(l, e, n) /\ ~ IsAdd(z) => Wide(e, z)) => Aware(e, c)
<1>1. n \in Spans(m) /\ n[1] = 1 /\ n[2] = m /\ m \in Nat
  BY TreeFacts DEF Root
<1>2. CASE TreeEqual(l, e, n)
  <2>1. ~ IsAdd(n) /\ Terms(e, n) = {l}
    BY <1>2 DEF TreeEqual
  <2>2. m = 1
    BY <1>1, <2>1, SumFacts
  <2>3. e.terms[1] = l
    <3>1. 1 \in n[1] .. n[2]
      BY <1>1, <2>2
    <3>2. e.terms[1] \in Terms(e, n)
      BY <3>1 DEF Terms
    <3> QED
      BY <2>1, <3>2
  <2> DEFINE c == << >>
  <2>4. c \in Seq(Calls(m)) /\ Len(c) = 0
    BY EmptySeq
  <2> HIDE DEF c, m, n
  <2>5. InOrder(m, c) /\ Upcoming(m, c) = 2 /\ Apart(l, e, c) /\ Aware(e, c)
    BY <2>2, <2>4 DEF InOrder, Upcoming, Apart, Aware
  <2>6. Lower(l, e) = c
    BY <1>2 DEF Lower, n, c
  <2> QED
    BY <2>3, <2>5, <2>6 DEF m, n
<1>3. Known(<< Assigned(n) >>)
  BY <1>1, OneCall
<1>4. ASSUME GrowsInPlace(l, e, n)
      PROVE  /\ ~ IsAdd(z) => Known(<< Appended(z) >>)
             /\ Known(Appends(e, Operands(e, z)))
  <2>1. /\ BuiltUp(l) /\ e.terms[1] = l /\ ~ OnTree(l.sym, e, z)
        /\ z \in Spans(m) /\ z[1] = 2 /\ z[2] = m
    BY <1>4, GrowsFacts
  <2> DEFINE c == Appends(e, Operands(e, z))
             d == << Appended(z) >>
  <2>2. /\ InOrder(m, c) /\ Upcoming(m, c) = 2 /\ Aware(e, c)
        /\ \A i \in 1 .. Len(c) : \A y \in Terms(e, c[i].src) : ~ Names(y, l.sym)
    <3> HIDE DEF z
    <3>1. z[1] >= 2
      BY <2>1
    <3> QED
      BY <2>1, <3>1, AppendsFacts
  <2>3. /\ InOrder(m, d) /\ Upcoming(m, d) = 2 /\ (Wide(e, z) => Aware(e, d))
        /\ \A y \in Terms(e, z) : ~ Names(y, l.sym)
    <3> HIDE DEF z
    <3>1. z[1] # 1
      BY <2>1
    <3> QED
      BY <2>1, <3>1, OneCall
  <2>4. \A i \in 1 .. Len(d) : \A y \in Terms(e, d[i].src) : ~ Names(y, l.sym)
    <3>1. Len(d) = 1 /\ d[1].src = z
      BY DEF Appended
    <3> HIDE DEF d
    <3> QED
      BY <2>3, <3>1
  <2> HIDE DEF c, d, z, m, n
  <2>5. Plainly => Apart(l, e, c)
    <3>1. \A i \in 1 .. Len(c) : Terms(e, c[i].src) \subseteq Terms(e, n)
      BY <2>2, TermsOfCalls DEF m, n
    <3> QED
      BY <2>1, <2>2, <3>1, UnnamedApart DEF n
  <2>6. Plainly => Apart(l, e, d)
    <3>1. \A i \in 1 .. Len(d) : Terms(e, d[i].src) \subseteq Terms(e, n)
      BY <2>3, TermsOfCalls DEF m, n
    <3> QED
      BY <2>1, <2>4, <3>1, UnnamedApart DEF n
  <2> HIDE DEF Plainly
  <2> QED
    BY <1>4, <2>1, <2>2, <2>3, <2>5, <2>6 DEF c, d
<1> DEFINE ns == Operands(e, n)
           b  == << Assigned(Head(ns)) >> \o Appends(e, Tail(ns))
<1>5. ASSUME IsMultStrConcat(l, e, n)
      PROVE  Known(b)
  <2>1. ~ OnTree(l.sym, e, n) /\ BuiltUp(l)
    BY <1>5 DEF IsMultStrConcat, BuiltUp
  <2>2. /\ InOrder(m, b) /\ Upcoming(m, b) = 1 /\ Aware(e, b)
        /\ \A i \in 1 .. Len(b) : \A y \in Terms(e, b[i].src) : ~ Names(y, l.sym)
    BY <2>1, AssignAppendsFacts
  <2> HIDE DEF b, z, m, n
  <2>3. Plainly => Apart(l, e, b)
    <3>1. \A i \in 1 .. Len(b) : Terms(e, b[i].src) \subseteq Terms(e, n)
      BY <2>2, TermsOfCalls DEF m, n
    <3> QED
      BY <2>1, <2>2, <3>1, UnnamedApart DEF n
  <2> HIDE DEF Plainly
  <2> QED
    BY <2>2, <2>3
<1>6. CASE ~ TreeEqual(l, e, n)
  <2>1. Lower(l, e) = OptUStrAssignment(l, e, n)
    BY <1>6 DEF Lower
  <2> HIDE DEF Known, b
  <2>2. CASE ~ Wide(e, n)
    <3>1. Lower(l, e) = << Assigned(n) >>
      BY <2>1, <2>2, Zenon DEF OptUStrAssignment
    <3> QED
      BY <1>3, <3>1 DEF Known
  <2>3. CASE Wide(e, n) /\ GrowsInPlace(l, e, n)
    <3>1. Lower(l, e) = IF IsMultStrConcat(l, e, z) THEN Appends(e, Operands(e, z))
                        ELSE << Appended(z) >>
      BY <2>1, <2>3 DEF OptUStrAssignment
    <3>2. IsMultStrConcat(l, e, z) <=> IsAdd(z)
      BY <2>3, GrowsFacts
    <3>3. Known(Lower(l, e))
      BY <1>4, <2>3, <3>1, <3>2, Zenon
    <3> QED
      BY <3>3 DEF Known
  <2>4. CASE Wide(e, n) /\ ~ GrowsInPlace(l, e, n)
    <3>1. Lower(l, e) = IF l.at \notin Fixed /\ IsMultStrConcat(l, e, n) THEN b
                        ELSE << Assigned(n) >>
      BY <2>1, <2>4 DEF OptUStrAssignment, b
    <3>2. Known(Lower(l, e))
      BY <1>3, <1>5, <3>1, Zenon
    <3> QED
      BY <3>2 DEF Known
  <2> QED
    BY <2>2, <2>3, <2>4
<1> QED
  BY <1>2, <1>6

-----------------------------------------------------------------------------
(* One call of hOptAssocADD keeps the terms and makes a tree; if it moves  *)
(* the split of the whole then the left side becomes a sum.                *)
LEMMA AssocFacts ==
  ASSUME NEW e, IsTree(e), NEW n \in Spans(Len(e.terms)), IsAdd(n)
  PROVE  /\ IsTree(Assoc(e, n)) /\ Assoc(e, n).terms = e.terms
         /\ \/ Assoc(e, n).split[Root(e)] = e.split[Root(e)]
            \/ IsAdd(Left(Assoc(e, n), Root(e)))
<1> DEFINE m     == Len(e.terms)
           z     == Right(e, n)
           k     == e.split[n]
           cut   == e.split[z]
           inner == << n[1], cut >>
           f     == Assoc(e, n)
<1>1. CASE ~ (Wide(e, n) /\ IsAdd(z))
  <2>1. f = e
    BY <1>1 DEF Assoc
  <2> QED
    BY <2>1
<1>2. CASE Wide(e, n) /\ IsAdd(z)
  <2>1. /\ m \in Nat /\ n = << n[1], n[2] >>
        /\ n[1] \in 1 .. m /\ n[2] \in 1 .. m /\ n[1] <= n[2]
        /\ k \in n[1] .. n[2] - 1 /\ z \in Spans(m) /\ z[1] = k + 1 /\ z[2] = n[2]
    BY TreeFacts, SumFacts
  <2>2. cut \in k + 1 .. n[2] - 1
    <3> HIDE DEF z
    <3> QED
      BY <1>2, <2>1, SumFacts
  <2> HIDE DEF z, k, cut, m
  <2>3. /\ cut \in n[1] .. n[2] - 1 /\ k \in n[1] .. cut - 1 /\ cut \in Nat /\ k \in Nat
        /\ n[1] < cut /\ cut \in 1 .. m
    BY <2>1, <2>2
  <2>4. inner \in Spans(m) /\ inner[1] = n[1] /\ inner[2] = cut /\ inner # n /\ IsAdd(inner)
    <3>1. inner \in Spans(m) /\ inner[1] = n[1] /\ inner[2] = cut
      BY <2>1, <2>3 DEF Spans
    <3> HIDE DEF inner
    <3>2. inner[2] # n[2]
      BY <2>1, <2>3, <3>1
    <3> QED
      BY <2>3, <3>1, <3>2 DEF IsAdd
  <2>5. f = [e EXCEPT !.split = [@ EXCEPT ![n] = cut, ![inner] = k]]
    BY <1>2 DEF Assoc, z, k, cut
  <2> DEFINE g == [e.split EXCEPT ![n] = cut, ![inner] = k]
  <2>6. /\ e.split \in [Spans(m) -> Nat]
        /\ \A x \in Spans(m) : IsAdd(x) => e.split[x] \in x[1] .. x[2] - 1
    BY DEF IsTree, m
  <2> HIDE DEF inner
  <2>7. g \in [Spans(m) -> Nat]
    BY <2>3, <2>4, <2>6
  <2>8. /\ g[inner] = k /\ g[n] = cut
        /\ \A x \in Spans(m) : x # n /\ x # inner => g[x] = e.split[x]
    BY <2>4, <2>6 DEF m
  <2>9. f.terms = e.terms /\ f.split = g
    <3>1. f = [e EXCEPT !.split = g]
      BY <2>5
    <3> HIDE DEF f, g
    <3>2. DOMAIN f = DOMAIN e /\ f = [i \in DOMAIN e |-> IF i = "split" THEN g ELSE e[i]]
      BY <3>1
    <3> QED
      BY <3>1
  <2> HIDE DEF f, g
  <2>10. \A x \in DOMAIN f.split : IsAdd(x) => f.split[x] \in x[1] .. x[2] - 1
    BY <2>3, <2>4, <2>6, <2>7, <2>8, <2>9
  <2>11. IsTree(f)
    BY <2>7, <2>9, <2>10 DEF IsTree, m
  <2>12. Root(e) = n => IsAdd(Left(f, Root(e)))
    <3>1. Left(f, n) = << n[1], cut >>
      BY <2>8, <2>9 DEF Left
    <3> QED
      BY <2>4, <3>1 DEF inner
  <2>13. Root(e) # n => f.split[Root(e)] = e.split[Root(e)]
    <3>1. Root(e) \in Spans(m) /\ Root(e)[2] = m
      BY TreeFacts DEF Root, m
    <3>2. inner[2] < m
      BY <2>1, <2>3, <2>4
    <3>3. Root(e) # inner
      BY <2>1, <3>1, <3>2
    <3> QED
      BY <2>8, <2>9, <3>1, <3>3
  <2> QED
    BY <2>9, <2>11, <2>12, <2>13 DEF f
<1> QED
  BY <1>1, <1>2

-----------------------------------------------------------------------------
(* The inductive invariant: what the calls that are still to come are of,  *)
(* and, if the statement is as the properties ask, that the destination    *)
(* holds the terms behind which they go on.                                *)
Rotated ==
  \/ expr.split[Root(expr)] = stmt.r.split[Root(stmt.r)]
  \/ IsAdd(Left(expr, Root(expr)))

LoweringInv ==
  /\ stmt \in Statements
  /\ IsTree(expr) /\ expr.terms = stmt.r.terms /\ Rotated
  /\ todo \subseteq {n \in Spans(Len(expr.terms)) : IsAdd(n)}
  /\ stage \in {"source", "running"}
  /\ InOrder(Len(expr.terms), code)
  /\ stage = "source" => code = << >> /\ store = Before
  /\ Plain(stmt) => Apart(stmt.l, expr, code)
  /\ ~ NarrowAlone(stmt) => Aware(expr, code)

(* The destination once it has taken the first q terms. *)
Taken(s, q) == IF q = 0 THEN Before[s.l.at] ELSE Fit(s.l.at, Run(s.r.terms, Before, 1)[q])

MeansInv ==
  stage = "running" =>
    store = [Before EXCEPT ![stmt.l.at] =
               Taken(stmt, Upcoming(Len(expr.terms), code) - 1)]

LEMMA StatementFacts ==
  ASSUME NEW s \in Statements
  PROVE  /\ s.l \in Leaves /\ s.l.at \in Loc /\ s.l.at \notin Narrow
         /\ IsTree(s.r) /\ s.r.terms \in Seq(Leaves)
BY StatementAssumption, TreeFacts DEF Leaves

LEMMA BeforeFacts ==
  /\ Before \in [Loc -> Seq(U)] /\ Good(Before)
  /\ \A p \in Fixed : Len(Before[p]) <= Length
<1>1. \A p \in Loc : Before[p] \in Seq(U)
  <2> SUFFICES ASSUME NEW p \in Loc  PROVE Before[p] \in Seq(U)
    OBVIOUS
  <2>1. STRING \subseteq U
    BY DEF U
  <2>2. Before[p] \in Seq(STRING)
    BY LocAssumption
  <2> HIDE DEF U
  <2> QED
    BY <2>1, <2>2, SeqMonotonic
<1>2. Before \in [Loc -> Seq(U)]
  BY <1>1, LocAssumption
<1> QED
  BY <1>2, LocAssumption DEF Good

LEMMA EmptyCode ==
  ASSUME NEW m
  PROVE  /\ InOrder(m, << >>) /\ Upcoming(m, << >>) = m + 1
         /\ \A l, e : Apart(l, e, << >>) /\ Aware(e, << >>)
<1> DEFINE c == << >>
<1>1. c \in Seq(Calls(m)) /\ Len(c) = 0
  BY EmptySeq
<1> HIDE DEF c
<1>2. InOrder(m, c) /\ Upcoming(m, c) = m + 1
  BY <1>1 DEF InOrder, Upcoming
<1>3. \A l, e : Apart(l, e, c) /\ Aware(e, c)
  BY <1>1 DEF Apart, Aware
<1> QED
  BY <1>2, <1>3 DEF c

(* After the first call the rest is in order. *)
LEMMA TailFacts ==
  ASSUME NEW m \in Nat, NEW c, InOrder(m, c), c # << >>
  PROVE  /\ Len(c) \in Nat /\ 1 \in 1 .. Len(c) /\ Head(c) = c[1] /\ Head(c) \in Calls(m)
         /\ InOrder(m, Tail(c)) /\ Upcoming(m, Tail(c)) = Head(c).src[2] + 1
         /\ Upcoming(m, c) = Head(c).src[1]
         /\ \A i \in 1 .. Len(Tail(c)) : i + 1 \in 1 .. Len(c) /\ Tail(c)[i] = c[i + 1]
<1> DEFINE d == Tail(c)
           k == Len(c)
<1>1. c \in Seq(Calls(m))
  BY DEF InOrder
<1>2. k \in Nat /\ k # 0 /\ Head(c) = c[1]
  BY <1>1, EmptySeq, LenProperties
<1>3. d \in Seq(Calls(m)) /\ Len(d) = k - 1 /\ \A i \in 1 .. Len(d) : d[i] = c[i + 1]
  BY <1>1, HeadTailProperties
<1>4. 1 \in 1 .. k /\ Head(c) \in Calls(m)
  BY <1>1, <1>2, ElementOfSeq
<1>5. /\ \A i \in 1 .. k : c[i].op = "assign" <=> c[i].src[1] = 1
      /\ \A i \in 1 .. k - 1 : c[i + 1].src[1] = c[i].src[2] + 1
      /\ c[k].src[2] = m
  BY <1>2 DEF InOrder
<1> HIDE DEF d, k
<1>6. \A i \in 1 .. Len(d) : i + 1 \in 1 .. k /\ i + 1 \in Nat
  BY <1>2, <1>3
<1>7. \A i \in 1 .. Len(d) - 1 : d[i + 1].src[1] = d[i].src[2] + 1
  <2> SUFFICES ASSUME NEW i \in 1 .. Len(d) - 1  PROVE d[i + 1].src[1] = d[i].src[2] + 1
    OBVIOUS
  <2> DEFINE j == i + 1
  <2>1. i \in 1 .. Len(d) /\ j \in 1 .. Len(d) /\ j \in 1 .. k - 1
    BY <1>2, <1>3
  <2>2. d[i] = c[j] /\ d[j] = c[j + 1]
    BY <1>3, <2>1
  <2> HIDE DEF j
  <2>3. d[j].src[1] = d[i].src[2] + 1
    BY <1>5, <2>1, <2>2
  <2> QED
    BY <2>3 DEF j
<1>8. Len(d) >= 1 => d[Len(d)].src[2] = m
  <2>1. Len(d) >= 1 => Len(d) \in 1 .. Len(d) /\ Len(d) + 1 = k
    BY <1>2, <1>3
  <2> QED
    BY <1>3, <1>5, <2>1
<1>9. InOrder(m, d)
  BY <1>3, <1>5, <1>6, <1>7, <1>8 DEF InOrder
<1>10. Upcoming(m, d) = c[1].src[2] + 1
  <2>1. CASE k = 1
    BY <1>3, <1>5, <2>1 DEF Upcoming
  <2>2. CASE k # 1
    <3>1. 1 \in 1 .. Len(d) /\ 1 \in 1 .. k - 1 /\ Len(d) >= 1
      BY <1>2, <1>3, <2>2
    <3>2. d[1] = c[2]
      BY <1>3, <3>1
    <3>3. c[2].src[1] = c[1].src[2] + 1
      BY <1>5, <3>1
    <3> QED
      BY <3>1, <3>2, <3>3 DEF Upcoming
  <2> QED
    BY <2>1, <2>2
<1>11. Upcoming(m, c) = c[1].src[1]
  BY <1>2 DEF Upcoming, k
<1> QED
  BY <1>2, <1>3, <1>4, <1>6, <1>9, <1>10, <1>11 DEF d, k

LEMMA TailApart ==
  ASSUME NEW m \in Nat, NEW c, InOrder(m, c), c # << >>, NEW l, NEW e
  PROVE  /\ Apart(l, e, c) => Apart(l, e, Tail(c))
         /\ Aware(e, c) => Aware(e, Tail(c))
<1>1. \A i \in 1 .. Len(Tail(c)) : i + 1 \in 1 .. Len(c) /\ Tail(c)[i] = c[i + 1]
  BY TailFacts
<1>2. Apart(l, e, c) => Apart(l, e, Tail(c))
  BY <1>1 DEF Apart
<1>3. Aware(e, c) => Aware(e, Tail(c))
  BY <1>1 DEF Aware
<1> QED
  BY <1>2, <1>3

LEMMA LoweringInvInit == Init => LoweringInv
<1> SUFFICES ASSUME Init  PROVE LoweringInv
  OBVIOUS
<1>1. /\ stmt \in Statements /\ expr = stmt.r /\ store = Before
      /\ code = << >> /\ stage = "source" /\ todo = {n \in {Root(expr)} : IsAdd(n)}
  BY DEF Init
<1>2. IsTree(expr) /\ Root(expr) \in Spans(Len(expr.terms))
  BY <1>1, StatementFacts, TreeFacts
<1>3. todo \subseteq {n \in Spans(Len(expr.terms)) : IsAdd(n)}
  BY <1>1, <1>2
<1>4. InOrder(Len(expr.terms), code) /\ Apart(stmt.l, expr, code) /\ Aware(expr, code)
  BY <1>1, EmptyCode
<1> QED
  BY <1>1, <1>2, <1>3, <1>4 DEF LoweringInv, Rotated

LEMMA LoweringInvStep == LoweringInv /\ [Next]_vars => LoweringInv'
<1> SUFFICES ASSUME LoweringInv, [Next]_vars  PROVE LoweringInv'
  OBVIOUS
<1>1. /\ stmt \in Statements /\ IsTree(expr) /\ expr.terms = stmt.r.terms /\ Rotated
      /\ todo \subseteq {n \in Spans(Len(expr.terms)) : IsAdd(n)}
      /\ stage \in {"source", "running"} /\ InOrder(Len(expr.terms), code)
      /\ stage = "source" => code = << >> /\ store = Before
      /\ Plain(stmt) => Apart(stmt.l, expr, code)
      /\ ~ NarrowAlone(stmt) => Aware(expr, code)
  BY DEF LoweringInv
<1>2. CASE Reassociate
  <2>1. /\ stage = "source" /\ stmt' = stmt /\ code' = code
        /\ stage' = stage /\ store' = store
    BY <1>2 DEF Reassociate
  <2>2. PICK n \in todo :
          /\ expr' = Assoc(expr, n)
          /\ todo' = (todo \ {n})
                       \cup {x \in {Left(expr', n), Right(expr', n)} : IsAdd(x)}
    BY <1>2 DEF Reassociate
  <2>3. n \in Spans(Len(expr.terms)) /\ IsAdd(n)
    BY <1>1
  <2>4. /\ IsTree(expr') /\ expr'.terms = expr.terms
        /\ \/ expr'.split[Root(expr)] = expr.split[Root(expr)]
           \/ IsAdd(Left(expr', Root(expr)))
    BY <1>1, <2>2, <2>3, AssocFacts
  <2>5. Root(expr') = Root(expr)
    BY <2>4 DEF Root
  <2>6. Rotated'
    <3>1. CASE IsAdd(Left(expr', Root(expr')))
      BY <3>1 DEF Rotated
    <3>2. CASE expr'.split[Root(expr)] = expr.split[Root(expr)]
      <4>1. Left(expr', Root(expr')) = Left(expr, Root(expr))
        BY <2>5, <3>2 DEF Left
      <4> QED
        BY <1>1, <2>1, <2>5, <3>2, <4>1 DEF Rotated
    <3> QED
      BY <2>4, <2>5, <3>1, <3>2
  <2>7. todo' \subseteq {x \in Spans(Len(expr'.terms)) : IsAdd(x)}
    <3>1. /\ Left(expr', n) \in Spans(Len(expr'.terms))
          /\ Right(expr', n) \in Spans(Len(expr'.terms))
      BY <2>3, <2>4, SumFacts
    <3> QED
      BY <1>1, <2>2, <2>4, <3>1
  <2>8. Apart(stmt.l, expr', code) /\ Aware(expr', code)
    BY <1>1, <2>1, EmptyCode
  <2> QED
    BY <1>1, <2>1, <2>4, <2>6, <2>7, <2>8 DEF LoweringInv
<1>3. CASE Compile
  <2>1. /\ stage' = "running" /\ code' = Lower(stmt.l, expr) /\ stmt' = stmt /\ expr' = expr
        /\ todo' = todo /\ store' = store
    BY <1>3 DEF Compile
  <2> DEFINE l == stmt.l
             e == expr
             n == Root(e)
  <2>2. Root(stmt.r) = n /\ Terms(stmt.r, n) = Terms(e, n)
    BY <1>1 DEF Root, Terms
  <2>3. Plain(stmt) => (BuiltUp(l) => \A x \in Terms(e, n) : x.at = l.at => Names(x, l.sym))
    BY <2>2 DEF Plain
  <2>4. ASSUME ~ NarrowAlone(stmt), GrowsInPlace(l, e, n), ~ IsAdd(Right(e, n))
        PROVE  Wide(e, Right(e, n))
    <3>1. e.split[n] = stmt.r.split[n]
      <4>1. ~ IsAdd(Left(e, n))
        BY <1>1, <2>4, GrowsFacts
      <4> QED
        BY <1>1, <2>2, <4>1 DEF Rotated
    <3>2. Left(stmt.r, n) = Left(e, n) /\ Right(stmt.r, n) = Right(e, n)
      BY <3>1 DEF Left, Right
    <3>3. \A x : Terms(stmt.r, x) = Terms(e, x)
      BY <1>1 DEF Terms
    <3>4. GrowsInPlace(l, stmt.r, n)
      <4> HIDE DEF l, e, n
      <4> QED
        BY <2>4, <3>2, <3>3, Zenon DEF GrowsInPlace, TreeEqual, OnTree
    <3>5. Wide(stmt.r, Right(stmt.r, n))
      BY <2>2, <2>4, <3>2, <3>4 DEF NarrowAlone
    <3> QED
      BY <3>2, <3>3, <3>5 DEF Wide
  <2>5. /\ InOrder(Len(e.terms), Lower(l, e))
        /\ Plain(stmt) => Apart(l, e, Lower(l, e))
        /\ ~ NarrowAlone(stmt) => Aware(e, Lower(l, e))
    BY <1>1, <2>3, <2>4, LowerFacts
  <2>6. Rotated'
    BY <1>1, <2>1 DEF Rotated
  <2> QED
    BY <1>1, <2>1, <2>5, <2>6 DEF LoweringInv
<1>4. ASSUME NEW op, Call(op)  PROVE LoweringInv'
  <2>1. /\ code # << >> /\ code' = Tail(code)
        /\ stmt' = stmt /\ expr' = expr /\ todo' = todo /\ stage' = stage
    BY <1>4 DEF Call
  <2>2. InOrder(Len(expr.terms), Tail(code))
    BY <1>1, <2>1, TreeFacts, TailFacts
  <2>3. /\ Apart(stmt.l, expr, code) => Apart(stmt.l, expr, Tail(code))
        /\ Aware(expr, code) => Aware(expr, Tail(code))
    BY <1>1, <2>1, TreeFacts, TailApart
  <2>4. Rotated'
    BY <1>1, <2>1 DEF Rotated
  <2> QED
    BY <1>1, <2>1, <2>2, <2>3, <2>4 DEF LoweringInv
<1>5. CASE Assign
  BY <1>4, <1>5 DEF Assign
<1>6. CASE ConcatAssignCall
  BY <1>4, <1>6 DEF ConcatAssignCall
<1>7. CASE UNCHANGED vars
  BY <1>1, <1>7 DEF LoweringInv, Rotated, vars
<1> QED
  BY <1>2, <1>3, <1>5, <1>6, <1>7 DEF Next

(* hOptAssocADD keeps the terms, and the calls that hOptUStrAssignment     *)
(* emits take each of them once and in order: the first assigns, all       *)
(* others append.                                                          *)
THEOREM LoweringKeepsItsOrder == Spec => []LoweringInv
BY LoweringInvInit, LoweringInvStep, PTL DEF Spec

(* No append that is emitted reads the text it appends to, if what a       *)
(* statement reads of its destination shows in its terms.                  *)
THEOREM LoweringAppendsOtherText ==
  ASSUME PlainStatements
  PROVE  Spec => []AppendsOtherText
<1>1. LoweringInv => AppendsOtherText
  <2> SUFFICES ASSUME LoweringInv  PROVE AppendsOtherText
    OBVIOUS
  <2>1. Apart(stmt.l, expr, code)
    BY DEF LoweringInv, PlainStatements
  <2>2. DOMAIN code = 1 .. Len(code)
    BY LenProperties DEF LoweringInv, InOrder
  <2> QED
    BY <2>1, <2>2 DEF Apart, AppendsOtherText
<1> QED
  BY <1>1, LoweringKeepsItsOrder, PTL

(* A text that is clamped before it grows is clamped to the same.          *)
LEMMA FitFacts ==
  ASSUME NEW p, NEW t \in Seq(U)
  PROVE  /\ Fit(p, t) \in Seq(U) /\ Len(t) \in Nat /\ Length \in Nat
         /\ p \notin Fixed \/ Len(t) <= Length => Fit(p, t) = t
         /\ p \in Fixed /\ Len(t) >= Length =>
              /\ Len(Fit(p, t)) = Length
              /\ \A i \in 1 .. Length : Fit(p, t)[i] = t[i]
<1>1. Len(t) \in Nat /\ Length \in Nat
  BY LenProperties, LocAssumption
<1>2. p \notin Fixed \/ Len(t) <= Length => Fit(p, t) = t
  BY <1>1 DEF Fit
<1>3. CASE p \in Fixed /\ Len(t) > Length
  <2> DEFINE u == SubSeq(t, 1, Length)
  <2>1. Fit(p, t) = u
    BY <1>3 DEF Fit
  <2>2. u \in Seq(U) /\ Len(u) = Length /\ \A i \in 1 .. Length : u[i] = t[i]
    <3>1. /\ u \in Seq(U)
          /\ Len(u) = IF 1 <= Length THEN Length - 1 + 1 ELSE 0
          /\ \A i \in 1 .. Length - 1 + 1 : u[i] = t[1 + i - 1]
      <4>1. \A i \in 1 .. Length : t[i] \in U
        BY <1>1, <1>3, ElementOfSeq
      <4> QED
        BY <1>1, <1>3, <4>1, SubSeqProperties
    <3> HIDE DEF u
    <3>2. \A i \in 1 .. Length : 1 + i - 1 = i
      OBVIOUS
    <3> QED
      BY <1>1, <3>1, <3>2
  <2> QED
    BY <1>1, <1>3, <2>1, <2>2
<1>4. CASE ~ (p \in Fixed /\ Len(t) > Length)
  BY <1>1, <1>2, <1>4
<1> QED
  BY <1>3, <1>4

LEMMA FitJoins ==
  ASSUME NEW p, NEW a \in Seq(U), NEW b \in Seq(U)
  PROVE  Fit(p, Fit(p, a) \o b) = Fit(p, a \o b)
<1>1. CASE p \notin Fixed \/ Len(a) <= Length
  BY <1>1, FitFacts
<1>2. CASE p \in Fixed /\ Len(a) > Length
  <2> DEFINE c == Fit(p, a)
             x == c \o b
             y == a \o b
  <2>1. /\ c \in Seq(U) /\ Len(c) = Length /\ Length \in Nat /\ Len(a) \in Nat
        /\ \A i \in 1 .. Length : c[i] = a[i]
    BY <1>2, FitFacts
  <2> HIDE DEF c
  <2>2. /\ x \in Seq(U) /\ Len(b) \in Nat /\ Len(x) = Len(c) + Len(b)
        /\ \A i \in 1 .. Len(c) : x[i] = c[i]
    BY <2>1, JoinFacts
  <2>3. /\ y \in Seq(U) /\ Len(y) = Len(a) + Len(b)
        /\ \A i \in 1 .. Len(a) : y[i] = a[i]
    BY <2>1, JoinFacts
  <2> HIDE DEF x, y
  <2>4. Len(x) >= Length /\ Len(y) >= Length
    <3>1. \A i \in 1 .. Length : i \in 1 .. Len(a) /\ i \in 1 .. Len(c)
      BY <1>2, <2>1
    <3> QED
      BY <2>1, <2>2, <2>3, <3>1
  <2>5. /\ Fit(p, x) \in Seq(U) /\ Len(Fit(p, x)) = Length
        /\ \A i \in 1 .. Length : Fit(p, x)[i] = x[i]
    BY <1>2, <2>2, <2>4, FitFacts
  <2>6. /\ Fit(p, y) \in Seq(U) /\ Len(Fit(p, y)) = Length
        /\ \A i \in 1 .. Length : Fit(p, y)[i] = y[i]
    BY <1>2, <2>3, <2>4, FitFacts
  <2>7. \A i \in 1 .. Length : x[i] = y[i]
    <3>1. \A i \in 1 .. Length : i \in 1 .. Len(a) /\ i \in 1 .. Len(c)
      BY <1>2, <2>1
    <3> QED
      BY <2>1, <2>2, <2>3, <3>1
  <2>8. Fit(p, x) = Fit(p, y)
    BY <2>5, <2>6, <2>7, SeqEqual
  <2> QED
    BY <2>8 DEF c, x, y
<1>3. Len(a) \in Nat /\ Length \in Nat
  BY FitFacts
<1> QED
  BY <1>1, <1>2, <1>3

(* What the destination holds; the other places are as they were.          *)
LEMMA TakenFacts ==
  ASSUME NEW s \in Statements, NEW q \in 0 .. Len(s.r.terms)
  PROVE  /\ Len(s.r.terms) \in Nat
         /\ Run(s.r.terms, Before, 1) \in [Nat -> Seq(U)]
         /\ Taken(s, q) \in Seq(U)
         /\ Good([Before EXCEPT ![s.l.at] = Taken(s, q)])
<1> DEFINE P == s.r.terms
           v == s.l.at
<1>1. P \in Seq(Leaves) /\ Len(P) \in Nat /\ 1 \in Places /\ v \in Loc /\ v \notin Narrow
  BY StatementFacts, LenProperties DEF Places
<1>2. Run(P, Before, 1) \in [Nat -> Seq(U)]
  BY <1>1, BeforeFacts, RunFacts
<1>3. Taken(s, q) \in Seq(U)
  <2>1. Before[v] \in Seq(U)
    BY <1>1, BeforeFacts
  <2>2. Run(P, Before, 1)[q] \in Seq(U)
    BY <1>2
  <2>3. Fit(v, Run(P, Before, 1)[q]) \in Seq(U)
    BY <2>2, FitFacts
  <2> QED
    BY <2>1, <2>3 DEF Taken
<1>4. Good([Before EXCEPT ![v] = Taken(s, q)])
  <2> DEFINE t == Taken(s, q)
  <2> HIDE DEF t, v
  <2> SUFFICES Good([Before EXCEPT ![v] = t])
    BY DEF t
  <2>1. t \in Seq(U)
    BY <1>3 DEF t
  <2>2. [Before EXCEPT ![v] = t] \in [Loc -> Seq(U)]
    BY <2>1, BeforeFacts
  <2>3. \A p \in Narrow : [Before EXCEPT ![v] = t][p] = Before[p]
    BY <1>1, BeforeFacts, LocAssumption
  <2> QED
    BY <2>2, <2>3 DEF Good
<1> QED
  BY <1>1, <1>2, <1>3, <1>4

LEMMA CompiledMeans ==
  ASSUME LoweringInv, Compile
  PROVE  MeansInv'
<1> DEFINE v == stmt.l.at
           m == Len(expr.terms)
           P == stmt.r.terms
<1>1. /\ store' = Before /\ code' = Lower(stmt.l, expr) /\ stmt' = stmt /\ expr' = expr
      /\ stmt \in Statements /\ IsTree(expr) /\ expr.terms = P
  BY DEF LoweringInv, Compile
<1>2. /\ v \in Loc /\ v \notin Narrow /\ P \in Seq(Leaves) /\ Before \in [Loc -> Seq(U)]
      /\ 1 \in 1 .. Len(P) /\ \A p \in Fixed : Len(Before[p]) <= Length
  BY <1>1, StatementFacts, BeforeFacts, TreeFacts
<1>3. \/ Upcoming(m, code') = 1
      \/ Upcoming(m, code') = 2 /\ expr.terms[1] = stmt.l
  BY <1>1, LowerFacts
<1>4. Taken(stmt, Upcoming(m, code') - 1) = Before[v]
  <2>1. CASE Upcoming(m, code') = 1
    BY <2>1 DEF Taken
  <2>2. CASE Upcoming(m, code') = 2 /\ expr.terms[1] = stmt.l
    <3>1. Run(P, Before, 1)[1] = Piece(Before, P[1])
      BY <1>2, RunOfOne
    <3>2. Piece(Before, P[1]) = Before[v]
      BY <1>1, <1>2, <2>2 DEF Piece
    <3>3. Fit(v, Before[v]) = Before[v]
      <4>1. Before[v] \in Seq(U)
        BY <1>2
      <4> QED
        BY <1>2, <4>1, FitFacts
    <3> QED
      BY <2>2, <3>1, <3>2, <3>3 DEF Taken
  <2> QED
    BY <1>3, <2>1, <2>2
<1>5. [Before EXCEPT ![v] = Before[v]] = Before
  BY <1>2
<1> QED
  BY <1>1, <1>4, <1>5 DEF MeansInv

LEMMA AssignedMeans ==
  ASSUME WholeCharacters, LoweringInv, MeansInv, Assign
  PROVE  MeansInv'
<1> DEFINE v == stmt.l.at
           m == Len(expr.terms)
           P == stmt.r.terms
           x == Head(code).src
           t == Decoded(expr, x, store)
<1>1. /\ code # << >> /\ Head(code).op = "assign" /\ code' = Tail(code)
      /\ stmt' = stmt /\ expr' = expr /\ stage' = stage
      /\ store' = [store EXCEPT ![v] = Fit(v, t)]
      /\ stmt \in Statements /\ IsTree(expr) /\ expr.terms = P
      /\ InOrder(m, code)
  BY DEF LoweringInv, Assign, Call, Set
<1>2. /\ Len(code) \in Nat /\ 1 \in 1 .. Len(code) /\ Head(code) = code[1]
      /\ Head(code) \in Calls(m)
      /\ Upcoming(m, Tail(code)) = x[2] + 1 /\ Upcoming(m, code) = x[1]
  BY <1>1, TreeFacts, TailFacts
<1>3. x \in Spans(m) /\ x[1] = 1 /\ x[2] \in 1 .. m /\ m \in Nat
  <2>1. x \in Spans(m)
    BY <1>2 DEF Calls
  <2> QED
    BY <1>1, <1>2, <2>1, TreeFacts, SumFacts DEF InOrder
<1>4. CASE stage # "running"
  BY <1>1, <1>4 DEF MeansInv
<1>5. CASE stage = "running"
  <2>1. store = Before
    <3>1. Taken(stmt, Upcoming(m, code) - 1) = Before[v]
      BY <1>2, <1>3 DEF Taken
    <3>2. [Before EXCEPT ![v] = Before[v]] = Before
      BY BeforeFacts
    <3> QED
      BY <1>5, <3>1, <3>2 DEF MeansInv
  <2>2. t = Run(P, Before, 1)[x[2]]
    <3>1. Decoded(expr, x, Before) = Run(expr.terms, Before, x[1])[x[2]]
      BY <1>1, <1>3, BeforeFacts, NodeWorth
    <3> QED
      BY <1>1, <1>3, <2>1, <3>1
  <2>3. Taken(stmt, Upcoming(m, code') - 1) = Fit(v, t)
    <3>1. Upcoming(m, code') - 1 = x[2] /\ x[2] # 0
      BY <1>1, <1>2, <1>3
    <3> HIDE DEF t
    <3> QED
      BY <2>2, <3>1 DEF Taken
  <2> HIDE DEF t, x
  <2> QED
    BY <1>1, <2>1, <2>3 DEF MeansInv
<1> QED
  BY <1>4, <1>5

LEMMA AppendedMeans ==
  ASSUME WholeCharacters, Plain(stmt), ~ NarrowAlone(stmt),
         LoweringInv, MeansInv, ConcatAssignCall
  PROVE  MeansInv'
<1> DEFINE v == stmt.l.at
           m == Len(expr.terms)
           P == stmt.r.terms
           c == Head(code)
           x == c.src
           q == x[1] - 1
           b == Eval(expr, x, store)
           t == CASE Wide(expr, x) -> b
                  [] ~ Wide(expr, x) /\ c.conv -> Decode(b)
                  [] OTHER -> [i \in DOMAIN b |-> Garbage]
<1>1. /\ code # << >> /\ c.op = "append" /\ code' = Tail(code)
      /\ stmt' = stmt /\ expr' = expr /\ stage' = stage
      /\ store' = [store EXCEPT ![v] = Fit(v, store[v] \o t)]
      /\ stmt \in Statements /\ IsTree(expr) /\ expr.terms = P
      /\ InOrder(m, code) /\ Apart(stmt.l, expr, code) /\ Aware(expr, code)
  BY DEF LoweringInv, ConcatAssignCall, Call, Set
<1>2. /\ Len(code) \in Nat /\ 1 \in 1 .. Len(code) /\ c = code[1] /\ c \in Calls(m)
      /\ Upcoming(m, Tail(code)) = x[2] + 1 /\ Upcoming(m, code) = x[1]
  BY <1>1, TreeFacts, TailFacts
<1>3. /\ x \in Spans(m) /\ x[1] \in 1 .. m /\ x[1] # 1 /\ x[2] \in 1 .. m /\ x[1] <= x[2]
      /\ m \in Nat /\ P \in Seq(Leaves)
  <2>1. x \in Spans(m)
    BY <1>2 DEF Calls
  <2>2. x[1] # 1
    BY <1>1, <1>2 DEF InOrder
  <2> QED
    BY <1>1, <2>1, <2>2, TreeFacts, SumFacts
<1>4. (Wide(expr, x) \/ c.conv) /\ \A y \in Terms(expr, x) : y.at # v
  BY <1>1, <1>2 DEF Apart, Aware
<1>5. CASE stage # "running"
  BY <1>1, <1>5 DEF MeansInv
<1>6. CASE stage = "running"
  <2>1. store = [Before EXCEPT ![v] = Taken(stmt, q)]
    BY <1>2, <1>6 DEF MeansInv
  <2>2. q \in 1 .. m /\ q \in 0 .. Len(P) /\ q # 0 /\ q \in Nat /\ q + 1 = x[1]
        /\ x[1] \in Places /\ x[2] \in Nat /\ 1 \in Places /\ q <= x[2] /\ x[2] <= Len(P)
    BY <1>1, <1>3 DEF Places
  <2> HIDE DEF q, t, b, x, c, v
  <2>3. /\ Run(P, Before, 1) \in [Nat -> Seq(U)] /\ Taken(stmt, q) \in Seq(U)
        /\ Good(store)
    BY <1>1, <2>1, <2>2, TakenFacts DEF v
  <2>4. /\ store \in [Loc -> Seq(U)] /\ Before \in [Loc -> Seq(U)] /\ v \in Loc
        /\ store[v] = Fit(v, Run(P, Before, 1)[q])
        /\ \A p \in Loc : p # v => store[p] = Before[p]
    <3>1. store \in [Loc -> Seq(U)] /\ Before \in [Loc -> Seq(U)] /\ v \in Loc
      BY <1>1, <2>3, BeforeFacts, StatementFacts DEF Good, v
    <3>2. Taken(stmt, q) = Fit(v, Run(P, Before, 1)[q])
      BY <2>2 DEF Taken, v
    <3> QED
      BY <2>1, <3>1, <3>2
  <2>5. t = Run(P, store, x[1])[x[2]]
    <3>1. /\ Wide(expr, x) => b = Run(P, store, x[1])[x[2]]
          /\ ~ Wide(expr, x) => Decode(b) = Run(P, store, x[1])[x[2]]
      <4>1. IsTree(expr) /\ x \in Spans(Len(expr.terms)) /\ Good(store)
        BY <1>1, <1>3, <2>3
      <4>2. /\ Wide(expr, x) => b = Run(expr.terms, store, x[1])[x[2]]
            /\ ~ Wide(expr, x) => Decode(b) = Run(expr.terms, store, x[1])[x[2]]
        BY <4>1, NodeWorth DEF b
      <4> QED
        BY <1>1, <4>2
    <3>2. CASE Wide(expr, x)
      <4>1. t = b
        BY <3>2 DEF t
      <4> QED
        BY <3>1, <3>2, <4>1
    <3>3. CASE ~ Wide(expr, x)
      <4>1. t = Decode(b)
        BY <1>4, <3>3 DEF t
      <4> QED
        BY <3>1, <3>3, <4>1
    <3> QED
      BY <3>2, <3>3
  <2>6. Run(P, store, x[1])[x[2]] = Run(P, Before, x[1])[x[2]]
    <3>1. \A k \in x[1] .. x[2] : store[P[k].at] = Before[P[k].at]
      <4> SUFFICES ASSUME NEW k \in x[1] .. x[2]  PROVE store[P[k].at] = Before[P[k].at]
        OBVIOUS
      <4>1. P[k] \in Terms(expr, x)
        BY <1>1 DEF Terms
      <4>2. k \in 1 .. Len(P)
        BY <1>1, <1>3
      <4>3. P[k] \in Leaves /\ P[k].at # v
        BY <1>3, <1>4, <4>1, <4>2, ElementOfSeq
      <4> QED
        BY <2>4, <4>3 DEF Leaves
    <3> QED
      BY <1>3, <2>2, <2>4, <3>1, RunSame
  <2>7. Fit(v, store[v] \o t) = Fit(v, Run(P, Before, 1)[x[2]])
    <3> DEFINE a == Run(P, Before, 1)[q]
               d == Run(P, Before, q + 1)[x[2]]
    <3>1. Run(P, Before, 1)[x[2]] = a \o d
      <4> DEFINE j == x[2]
      <4>1. /\ P \in Seq(Leaves) /\ Before \in [Loc -> Seq(U)]
            /\ 1 \in Places /\ q \in Nat /\ j \in Nat
            /\ 1 <= q + 1 /\ q <= j /\ j <= Len(P)
        BY <1>3, <2>2, <2>4
      <4> HIDE DEF j, P
      <4>2. Run(P, Before, 1)[j] = Run(P, Before, 1)[q] \o Run(P, Before, q + 1)[j]
        BY <4>1, RunJoins, Zenon
      <4> QED
        BY <4>2 DEF j
    <3>2. a \in Seq(U)
      BY <2>2, <2>3
    <3>3. d \in Seq(U)
      <4>1. Run(P, Before, q + 1) \in [Nat -> Seq(U)]
        BY <1>3, <2>2, <2>4, RunFacts
      <4> QED
        BY <2>2, <4>1
    <3>4. t = d /\ store[v] = Fit(v, a)
      BY <2>2, <2>4, <2>5, <2>6
    <3> HIDE DEF a, d
    <3>5. Fit(v, Fit(v, a) \o d) = Fit(v, a \o d)
      BY <3>2, <3>3, FitJoins, Zenon
    <3> QED
      BY <3>1, <3>4, <3>5
  <2>8. Taken(stmt, Upcoming(m, code') - 1) = Fit(v, Run(P, Before, 1)[x[2]])
    <3>1. Upcoming(m, code') = x[2] + 1
      BY <1>1, <1>2
    <3>2. Upcoming(m, code') - 1 = x[2] /\ x[2] # 0
      <4> HIDE DEF m
      <4> QED
        BY <1>3, <3>1
    <3> QED
      BY <1>1, <3>2 DEF Taken, v
  <2>9. store' = [Before EXCEPT ![v] = Fit(v, store[v] \o t)]
    <3> DEFINE n == Fit(v, store[v] \o t)
    <3> HIDE DEF n
    <3>1. [store EXCEPT ![v] = n] = [Before EXCEPT ![v] = n]
      BY <2>1, <2>4
    <3> QED
      BY <1>1, <3>1 DEF n
  <2> QED
    BY <1>1, <2>7, <2>8, <2>9 DEF MeansInv, v
<1> QED
  BY <1>5, <1>6

(* The calls leave in the destination what the expression was worth before *)
(* the first of them, whatever it is and however it is bracketed: where    *)
(* the reads of the destination show, no narrow text is appended alone,    *)
(* and narrow texts hold whole characters.                                 *)
THEOREM LoweringMeansWhatItSays ==
  ASSUME PlainStatements, NothingNarrowAlone, WholeCharacters
  PROVE  Spec => []MeansWhatItSays
<1>1. Init => LoweringInv /\ MeansInv
  BY LoweringInvInit DEF Init, MeansInv
<1>2. LoweringInv /\ MeansInv /\ [Next]_vars => (LoweringInv /\ MeansInv)'
  <2> SUFFICES ASSUME LoweringInv, MeansInv, [Next]_vars  PROVE MeansInv'
    BY LoweringInvStep
  <2>1. Plain(stmt) /\ ~ NarrowAlone(stmt)
    BY DEF LoweringInv, PlainStatements, NothingNarrowAlone
  <2>2. CASE Reassociate
    BY <2>2 DEF Reassociate, MeansInv
  <2>3. CASE Compile
    BY <2>3, CompiledMeans
  <2>4. CASE Assign
    BY <2>4, AssignedMeans
  <2>5. CASE ConcatAssignCall
    BY <2>1, <2>5, AppendedMeans
  <2>6. CASE UNCHANGED vars
    BY <2>6 DEF MeansInv, vars
  <2> QED
    BY <2>2, <2>3, <2>4, <2>5, <2>6 DEF Next
<1>3. LoweringInv /\ MeansInv => MeansWhatItSays
  <2> SUFFICES ASSUME LoweringInv, MeansInv, stage = "running", code = << >>
               PROVE  store = [Before EXCEPT ![stmt.l.at] =
                        Fit(stmt.l.at, Decoded(stmt.r, Root(stmt.r), Before))]
    BY DEF MeansWhatItSays
  <2> DEFINE r == stmt.r
             m == Len(r.terms)
  <2>1. stmt \in Statements /\ expr.terms = r.terms
    BY DEF LoweringInv
  <2>2. /\ IsTree(r) /\ m \in Nat /\ m >= 1
        /\ Root(r) \in Spans(m) /\ Root(r)[1] = 1 /\ Root(r)[2] = m
    BY <2>1, StatementFacts, TreeFacts DEF Root
  <2>3. Upcoming(Len(expr.terms), code) - 1 = m /\ m # 0
    BY <2>1, <2>2, EmptyCode
  <2>4. Decoded(r, Root(r), Before) = Run(r.terms, Before, 1)[m]
    BY <2>2, BeforeFacts, NodeWorth
  <2> QED
    BY <2>3, <2>4 DEF MeansInv, Taken
<1> QED
  BY <1>1, <1>2, <1>3, PTL DEF Spec

=============================================================================
