------------------------------ MODULE MCRuntime ------------------------------
(***************************************************************************)
(* A small instance of UStrRuntime: two variables, one stack temp, one     *)
(* pool descriptor, three blocks, texts of at most two units over two      *)
(* letters, and every answer of malloc.                                    *)
(***************************************************************************)
EXTENDS UStrRuntime, TLC

CONSTANTS Capital, Small, Long

(* Blocks that are not live are all alike, so which of them Fresh picks    *)
(* changes the state by no more than a permutation of Block.               *)
Symmetry == Permutations(Var) \cup Permutations(Block)

(* The literal; UCASE and LCASE. *)
MCRawText == [r \in Raw |-> << Small, Capital >>]
MCCases   == {[u \in Unit \cup {Wild} |-> IF u = Wild THEN Wild ELSE c] :
                c \in {Capital, Small}}

=============================================================================
