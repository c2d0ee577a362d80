------------------------------- MODULE MCFixed ------------------------------
(***************************************************************************)
(* Small instances of UStrFixed: fields of one and three units.            *)
(***************************************************************************)
EXTENDS UStrFixed

CONSTANTS field1, field3, gap, broken, Letter

MCCap == [f \in Fixed |-> IF f = field3 THEN 3 ELSE 1]

MCGivenText ==
  [o \in Given |-> CASE o = gap    -> << Letter, Nul, Letter >>
                     [] o = broken -> << Space, Nul, Letter >>]

=============================================================================
