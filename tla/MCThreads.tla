------------------------------ MODULE MCThreads ------------------------------
(***************************************************************************)
(* A small instance of UStrThreads: two threads, a module-level variable   *)
(* and a local of each, one literal, one pool descriptor.                  *)
(***************************************************************************)
EXTENDS UStrThreads, TLC

CONSTANTS t1, t2, u1, u2, k1, k2, Letter

MCOwn     == (t1 :> u1) @@ (t2 :> u2)
MCStack   == (t1 :> k1) @@ (t2 :> k2)
MCRawText == [r \in Raw |-> << Letter >>]

=============================================================================
