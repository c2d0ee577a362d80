---------------------------- MODULE UStrRuntime -----------------------------
(***************************************************************************)
(* A program running on the ustring memory, one action per call that the   *)
(* compiler emits (rtl-ustring.bas): declare, assign, append, concatenate, *)
(* slice, repeat, change case, compare, discard, swap, return, leave a     *)
(* scope.  Calls of one thread, one after the other (UStrThreads has more  *)
(* than one).                                                              *)
(*                                                                         *)
(* The generated code is the environment.  What it guarantees, and these   *)
(* guards say, is that it names variables only while they are in scope and *)
(* passes every temp it is handed on exactly once: to a call that takes it *)
(* as an operand, or to fb_hUStrDelTemp when the result is discarded       *)
(* (ast-node-call.bas).                                                    *)
(***************************************************************************)
EXTENDS UStrMemory

CONSTANT
  Outcomes  \* the answers malloc may give in this instance

ASSUME OutcomeAssumption == Outcomes \subseteq Outcome /\ Outcomes # {}

VARIABLES
  rt,     \* the memory
  scope,  \* variables in scope
  held,   \* temps the generated code has been handed and not passed on
  lost    \* blocks no descriptor can reach any more

vars == << rt, scope, held, lost >>

Operands == scope \cup held \cup Raw \cup {NullDesc, NullPtr}

(* Two operands of one call may be the same variable, never the same temp. *)
Pair(a, b) ==
  a \in Operands /\ b \in Operands /\ (a # b \/ a \notin held)

Init ==
  /\ rt = InitMemory
  /\ scope = {} /\ held = {} /\ lost = {}

-----------------------------------------------------------------------------
(* Variables come and go *)

(* DIM without an initializer: a cleared descriptor. *)
Dim(v) ==
  /\ v \notin scope
  /\ rt' = SetDesc(rt, v, Zero)
  /\ scope' = scope \cup {v}
  /\ UNCHANGED << held, lost >>

(* DIM with an initializer: fb_UStrInit on memory nobody cleared. *)
DimInit(v, src, got) ==
  /\ v \notin scope /\ src \in Operands
  /\ rt' = AssignEx(rt, v, src, TRUE, got)
  /\ scope' = scope \cup {v}
  /\ held' = held \ {src}
  /\ UNCHANGED lost

(* Scope exit, ERASE, or the end of a by-value copy: fb_UStrDelete. *)
LeaveScope(v) ==
  /\ v \in scope
  /\ rt' = UStrDelete(rt, v)
  /\ scope' = scope \ {v}
  /\ UNCHANGED << held, lost >>

(* The end of a FUNCTION whose result variable is v.  The frame dies with  *)
(* whatever v's descriptor still holds.                                    *)
Return(v) ==
  LET r == TempResult(rt, v)
  IN  /\ v \in scope
      /\ rt' = SetDesc(r.mem, v, Zero)
      /\ scope' = scope \ {v}
      /\ held' = held \cup ({r.at} \cap Temps)
      /\ lost' = lost \cup ({Data(r.mem, v)} \ {NoBlock})

-----------------------------------------------------------------------------
(* Calls that write a variable *)

Assign(v, src, got) ==
  /\ v \in scope /\ src \in Operands
  /\ rt' = AssignEx(rt, v, src, FALSE, got)
  /\ held' = held \ {src}
  /\ UNCHANGED << scope, lost >>

(* Bug: the compiler lets u &= u reach the runtime as an append. *)
ExtendByItself(v, src, got, moved) ==
  /\ v \in scope /\ src \in Operands
  /\ rt' = ConcatAssign(rt, v, src, got, moved)
  /\ held' = held \ {src}
  /\ UNCHANGED << scope, lost >>

(* An append never has its destination on the right: hOptUStrAssignment    *)
(* lowers u &= u to a concatenation (UStrLowering).                        *)
Extend(v, src, got, moved) ==
  /\ v \in scope /\ src \in Operands /\ src # v
  /\ rt' = ConcatAssign(rt, v, src, got, moved)
  /\ held' = held \ {src}
  /\ UNCHANGED << scope, lost >>

SwapVars(v, w) ==
  /\ v \in scope /\ w \in scope
  /\ rt' = Swap(rt, v, w)
  /\ UNCHANGED << scope, held, lost >>

-----------------------------------------------------------------------------
(* Calls that hand back a temp *)

Hand(at) == {at} \cap Temps

(* The call returns the descriptor r.at and releases its operand src. *)
Give(r, src) ==
  /\ rt' = Release(r.mem, src)
  /\ held' = (held \ {src}) \cup Hand(r.at)
  /\ UNCHANGED << scope, lost >>

(* a + b.  The stack temp is cleared as the call's first argument is       *)
(* evaluated (astBuildTempVarClear).  A narrow operand of a mixed sum      *)
(* (fb_UStrConcatAU, fb_UStrConcatUA) is decoded straight into the buffer: *)
(* it is one of Raw, with the text it decodes to.                          *)
ConcatInto(t, a, b, got) ==
  LET r == Concat(SetDesc(rt, t, Zero), t, a, b, got)
  IN  /\ t \in Tmp \ held
      /\ Pair(a, b)
      /\ rt' = r.mem
      /\ held' = (held \ {a, b}) \cup Hand(r.at)
      /\ UNCHANGED << scope, lost >>

(* LEFT, RIGHT, MID, TRIM: units first..last of the operand; 1..0 is an    *)
(* empty result.                                                           *)
Slice(src, first, last, got) ==
  /\ src \in Operands
  /\ \/ first \in 1 .. LenOf(rt, src) /\ last \in first .. LenOf(rt, src)
     \/ first = 1 /\ last = 0
  /\ Give(TempFrom(rt, SubSeq(TextOf(rt, src), first, last), got), src)

(* UCASE and LCASE. *)
Recase(src, table, got) ==
  /\ src \in Operands
  /\ Give(Recased(rt, src, table, got), src)

(* SPACE(n), where src is missing, and STRING(n, src). *)
Fill(src, n, got) ==
  /\ src \in Operands
  /\ Give(Repeated(rt, src, n, got), src)

(* A narrow operand, or a WSTRING, decoded in an expression. *)
Decode(src, got) ==
  LET r == FromNarrow(rt, RawText[src], got)
  IN  /\ src \in Raw
      /\ rt' = r.mem
      /\ held' = held \cup Hand(r.at)
      /\ UNCHANGED << scope, lost >>

-----------------------------------------------------------------------------
(* Calls that only consume *)

(* LEN, ASC, conversion to STRING, and the release of a discarded result.  *)
Consume(src) ==
  /\ src \in Operands
  /\ rt' = Release(rt, src)
  /\ held' = held \ {src}
  /\ UNCHANGED << scope, lost >>

(* Comparison, INSTR: both operands are released.  Where one of them is no *)
(* temp this is Consume of the other.                                      *)
ConsumeTwo(a, b) ==
  /\ Pair(a, b)
  /\ rt' = Release(Release(rt, a), b)
  /\ held' = held \ {a, b}
  /\ UNCHANGED << scope, lost >>

-----------------------------------------------------------------------------

Next ==
  \/ \E v \in Var : Dim(v) \/ LeaveScope(v) \/ Return(v)
  \/ \E v \in Var, src \in Operands, got \in Outcomes :
       \/ DimInit(v, src, got)
       \/ Assign(v, src, got)
       \/ \E moved \in BOOLEAN : Extend(v, src, got, moved)
  \/ \E v, w \in Var : SwapVars(v, w)
  \/ \E t \in Tmp, a, b \in Operands, got \in Outcomes :
       ConcatInto(t, a, b, got)
  \/ \E src \in Operands, first, last \in 0 .. MaxUnits, got \in Outcomes :
       Slice(src, first, last, got)
  \/ \E src \in Operands, table \in Cases, got \in Outcomes :
       Recase(src, table, got)
  \/ \E src \in Operands, n \in 0 .. MaxUnits + 1, got \in Outcomes :
       Fill(src, n, got)
  \/ \E src \in Raw, got \in Outcomes : Decode(src, got)
  \/ \E src \in Operands : Consume(src)
  \/ \E a, b \in held : ConsumeTwo(a, b)

Spec == Init /\ [][Next]_vars

-----------------------------------------------------------------------------
(* What keeps the memory sound *)

(* Every field holds a value of its type: in particular the text of a      *)
(* buffer is a sequence of code units, and only stack and pool descriptors *)
(* are ever in flight.                                                     *)
TypeOK ==
  /\ rt \in Memory
  /\ scope \subseteq Var /\ held \subseteq Temps /\ lost \subseteq Block

(* No descriptor points at freed memory, and no two at the same buffer:    *)
(* what stealing a temp's buffer, swapping and returning a result must     *)
(* never leave behind, since each owner frees what it points at.           *)
OneOwner ==
  \A d \in Desc : Data(rt, d) # NoBlock =>
    /\ rt.heap[Data(rt, d)].live
    /\ Data(rt, d) \notin lost
    /\ \A e \in Desc : Data(rt, e) = Data(rt, d) => e = d

(* Every live buffer is reachable, from a variable in scope or a temp in   *)
(* flight, except those lost to an exhausted pool.                         *)
NoLeak ==
  \A b \in Block : rt.heap[b].live =>
    b \in lost \/ \E d \in scope \cup held : Data(rt, d) = b

(* A pool descriptor is used exactly while a temp is in flight in it; the  *)
(* others are on the free list once each.  A slot released twice, or not   *)
(* released, would break this.                                             *)
PoolConserved ==
  /\ rt.used = held \cap Slot
  /\ \A i, j \in DOMAIN rt.free : rt.free[i] = rt.free[j] => i = j
  /\ \A s \in Slot : (\E i \in DOMAIN FreeList(rt) : FreeList(rt)[i] = s)
                      <=> s \notin rt.used

(* The temp bit is on exactly the descriptors in flight.  A variable that  *)
(* carried it would be emptied by the next assignment from it.             *)
TempBitExact == \A d \in Desc : rt.desc[d].temp <=> d \in held

(* A descriptor nobody may name holds nothing: what a stack temp must be   *)
(* before a concatenation reuses it, and the shared empty descriptor       *)
(* always.                                                                 *)
IdleIsZero == \A d \in Desc : d \notin scope \cup held => rt.desc[d] = Zero

(* The recorded capacity is the block's, the text fits it, and all the     *)
(* units the length counts have been written.                              *)
TextFits ==
  \A d \in Desc :
    IF Data(rt, d) = NoBlock
    THEN rt.desc[d].len = 0 /\ rt.desc[d].size = 0
    ELSE LET b == rt.heap[Data(rt, d)]
         IN  /\ rt.desc[d].size = b.cap
             /\ rt.desc[d].len <= b.cap
             /\ rt.desc[d].len = Len(b.text)

(* No unit of freed memory shows in any text: the append that takes its    *)
(* source pointer before it reallocates the destination never meets the    *)
(* two in one buffer, and no other call reads a text it has released.      *)
NoWildText ==
  \A d \in Desc : \A i \in DOMAIN Contents(rt, d) : Contents(rt, d)[i] # Wild

-----------------------------------------------------------------------------
(* What a step may never do *)

(* A buffer becomes unreachable only when a FUNCTION returns its result    *)
(* while all pool descriptors are in use.                                  *)
LossOnlyWhenExhausted ==
  [][lost' # lost => Slot \subseteq held /\ held' = held]_vars

-----------------------------------------------------------------------------
(* Value semantics: read through its descriptors, the memory behaves as if *)
(* each variable and temp held a text of its own (UStrValues).             *)

Values == INSTANCE UStrValues WITH
  val     <- [v \in Var |-> Contents(rt, v)],
  temp    <- [t \in Temps |-> Contents(rt, t)],
  Nothing <- NullPtr

ValueSemantics == Values!Spec

=============================================================================
