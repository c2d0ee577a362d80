----------------------------- MODULE UStrGrowth -----------------------------
(***************************************************************************)
(* What the allocation policy of ustr_core.c costs.  One ustring, and two  *)
(* counts: the units the calls were asked to write, and the units that     *)
(* reallocations moved from one buffer to the next.  The policy promises   *)
(* that building a text piece by piece moves a constant number of units    *)
(* per unit written, and that the buffer never stays far too large.  When  *)
(* malloc refuses the generous size the code asks again for the bare one,  *)
(* and what is moved then buys no room: a third count tells those units.   *)
(***************************************************************************)
EXTENDS UStrSizes

CONSTANTS
  Requests,  \* the units a call may write
  Answers,   \* what malloc may answer: "rounded", "exact" or "none"
  Budget     \* bound on the units written, so that the counts are finite

ASSUME GrowthAssumption ==
  /\ Granule % 8 = 0
  /\ Requests \subseteq 1 .. MaxUnits
  /\ Answers \subseteq {"rounded", "exact", "none"}
  /\ Budget \in Nat

VARIABLES
  len,      \* FB_USTRSIZE, the length of the text
  size,     \* the units the buffer has room for, 0 when there is none
  copied,   \* units moved by the reallocations so far
  forced,   \* of those, units moved to a buffer of the bare size
  written   \* units the calls have written so far

growthVars == << len, size, copied, forced, written >>

GrowthInit == len = 0 /\ size = 0 /\ copied = 0 /\ forced = 0 /\ written = 0

(* The call writes n units of text. *)
Tally(n) == written + n <= Budget /\ written' = written + n

(* A new buffer for n units, with room for them: the request as it was     *)
(* rounded, or the bare n, or no buffer.                                   *)
NewBuffer(n, room, got) ==
  /\ len'   = IF got = "none" THEN 0 ELSE n
  /\ size'  = CASE got = "rounded" -> room [] got = "exact" -> n [] OTHER -> 0
  /\ IF got = "none" THEN UNCHANGED written ELSE Tally(n)

(* fb_UStrDelete: scope exit, or an assignment of empty text. *)
Delete ==
  /\ len' = 0 /\ size' = 0
  /\ UNCHANGED << copied, forced, written >>

(* DIM with an initializer of n units: fb_hUStrAlloc. *)
InitFrom(n, got) ==
  /\ size = 0 /\ ~ TooBig(n)
  /\ NewBuffer(n, RoundSize(n), got)
  /\ UNCHANGED << copied, forced >>

(* An assignment of n units copied from another ustring.  Text of the same *)
(* length goes straight into the buffer; otherwise fb_hUStrRealloc drops   *)
(* the old buffer if it does not suit.                                     *)
Assign(n, got) ==
  /\ ~ TooBig(n)
  /\ IF n = len \/ ~ Misfit(size, n, FALSE)
     THEN len' = n /\ Tally(n) /\ UNCHANGED size
     ELSE NewBuffer(n, Grown(n), got)
  /\ UNCHANGED << copied, forced >>

(* An assignment from a temp of n units, whose buffer is taken as it is:   *)
(* fb_hUStrAllocTemp_NoLock got it through fb_hUStrRealloc.                *)
Adopt(n, got) ==
  /\ ~ TooBig(n) /\ got # "none"
  /\ NewBuffer(n, Grown(n), got)
  /\ UNCHANGED << copied, forced >>

(* The reallocation keeps the text, and moves it.  A buffer of the bare    *)
(* size has no room to spare, so the next append moves the text again.     *)
Move(n, got) ==
  /\ size'   = IF got = "rounded" THEN Grown(n) ELSE n
  /\ copied' = copied + len
  /\ forced' = IF got = "rounded" THEN forced ELSE forced + len

(* Append of k units.  Refused both sizes, fb_hUStrRealloc leaves buffer   *)
(* and text as they were, and the caller writes nothing.                   *)
Extend(k, got) ==
  LET n == len + k
      moves == Misfit(size, n, TRUE)
  IN  /\ ~ TooBig(n)
      /\ IF moves /\ got = "none"
         THEN UNCHANGED growthVars
         ELSE /\ len' = n /\ Tally(k)
              /\ IF moves THEN Move(n, got) ELSE UNCHANGED << size, copied, forced >>

GrowthNext ==
  \/ Delete
  \/ \E n \in Requests, got \in Answers :
       InitFrom(n, got) \/ Assign(n, got) \/ Adopt(n, got) \/ Extend(n, got)

GrowthSpec == GrowthInit /\ [][GrowthNext]_growthVars

-----------------------------------------------------------------------------
(* Counts and sizes are numbers, and the text fits the buffer. *)
GrowthTypeOK ==
  /\ len \in Nat /\ size \in Nat /\ copied \in Nat /\ written \in Nat
  /\ forced \in 0 .. copied
  /\ len <= size

(* Amortised O(1): whatever the mix of appends, assignments and answers of *)
(* malloc, the units moved never exceed nine times the units written, the  *)
(* price of growing by an eighth, and what the refusals of the generous    *)
(* size forced to be moved: a bare buffer costs its own move and no later  *)
(* one, for as soon as malloc grants the generous size the price is back.  *)
Amortised == copied <= 9 * written + forced

(* The buffer is never needlessly large: less an eighth, it is no larger   *)
(* than what a new buffer for the same text would be.                      *)
SlackBounded == size - size \div 8 <= Grown(len)

=============================================================================
