----------------------------- MODULE UStrSizes ------------------------------
(***************************************************************************)
(* How large a ustring buffer is: the rounding, growth and reuse rules of  *)
(* the allocator (ustr_core.c), in code units.                             *)
(***************************************************************************)
EXTENDS Integers

CONSTANTS
  MaxUnits,   \* the largest request hUStrTooBig lets through
  Granule     \* hUStrRoundSize rounds up to this (16 in the code)

ASSUME SizeAssumption == MaxUnits \in Nat /\ Granule \in Nat \ {0}

RoundSize(n) == ((n + (Granule - 1)) \div Granule) * Granule
(* Bug: the largest size that fits is refused. *)
TooBigAtLimit(n) == n < 0 \/ n >= MaxUnits

(* Bug: grow by exactly what was asked. *)
GrownExactly(n) == n

Grown(n)     == RoundSize(n) + RoundSize(n) \div 8
TooBig(n)    == n < 0 \/ n > MaxUnits

(* Bug: a large buffer is never given up. *)
MisfitNeverShrinks(size, n, preserve) == n > size

(* fb_hUStrRealloc keeps a buffer of size units unless it is too small for *)
(* n or, when the text need not survive, needlessly large.                 *)
Misfit(size, n, preserve) ==
  \/ n > size
  \/ ~ preserve /\ Grown(n) < size - size \div 8

=============================================================================
