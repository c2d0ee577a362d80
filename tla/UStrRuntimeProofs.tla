------------------------- MODULE UStrRuntimeProofs --------------------------
(***************************************************************************)
(* Proofs about UStrRuntime, for every number of variables, temps, pool    *)
(* descriptors and blocks and every answer of malloc.                      *)
(*                                                                         *)
(* IInv is Intact of UStrMemoryProofs between two calls; one lemma per     *)
(* action puts scope and held in for its sets, and cites the lemma about   *)
(* the C function that the action calls.                                   *)
(***************************************************************************)
EXTENDS UStrRuntime, UStrMemoryProofs

(***************************************************************************)
(* The inductive invariant of the program.                                 *)
(***************************************************************************)
IInv ==
  /\ Intact(rt, scope \cup held, held, Desc, lost)
  /\ scope \subseteq Var /\ held \subseteq Temps

(* The memory at program start satisfies the invariant. *)
LEMMA InitSound == Init => IInv
<1> SUFFICES ASSUME Init PROVE IInv OBVIOUS
<1>1. /\ rt = InitMemory /\ scope = {} /\ held = {} /\ lost = {} BY DEF Init
<1>2. /\ rt.desc = [d \in Desc |-> Zero] /\ rt.heap = [b \in Block |-> Dead]
      /\ rt.free = << >> /\ rt.used = {}
  BY <1>1 DEF InitMemory
<1>3. rt \in Memory
  <2>1. << >> \in Seq(Slot) OBVIOUS
  <2> QED BY <1>1, <2>1, Constants DEF InitMemory, Memory
<1>4. \A d \in Desc : rt.desc[d] = Zero /\ Data(rt, d) = NoBlock
  BY <1>2 DEF Data, Zero
<1>5. \A b \in Block : ~ rt.heap[b].live BY <1>2, Constants
<1>6. Owned(rt, {})
  <2>1. Bound(rt, {}) BY <1>4, SizeAssumption DEF Bound, Zero
  <2>2. Unshared(rt) BY <1>4 DEF Unshared
  <2>3. Reached(rt, {}) BY <1>4, <1>5, NameAssumption DEF Reached
  <2> QED BY <2>1, <2>2, <2>3 DEF Owned
<1>7. Pooled(rt, {})
  <2>1. FreeList(rt) = [i \in Slot |-> i] BY <1>2 DEF FreeList
  <2> QED BY <1>2, <2>1 DEF Pooled
<1>8. Marked(rt, {}, {})
  <2>1. \A d \in Desc : rt.desc[d].temp = FALSE BY <1>4 DEF Zero
  <2> QED BY <1>4, <2>1 DEF Marked
<1>9. Written(rt, Desc) BY <1>4 DEF Written
<1>10. Sets({}, {}, Desc, {}) BY DEF Sets
<1>11. Intact(rt, {}, {}, Desc, {})
  BY <1>3, <1>6, <1>7, <1>8, <1>9, <1>10 DEF Intact
<1>12. scope \cup held = {} BY <1>1
<1> QED BY <1>1, <1>11, <1>12 DEF IInv

(* What the invariant says of variables and operands. *)
LEMMA NamesSound ==
  ASSUME IInv
  PROVE  /\ \A v \in Var : v \in Desc \ Slot /\ v \notin held /\ v \notin Temps
         /\ \A v \in Var \ scope : rt.desc[v] = Zero
         /\ \A o \in Operands : o \in AnyOperand /\ (o \in Slot => o \in held)
         /\ \A o \in Operands : o \in Var => o \in scope
         /\ scope \cap held = {}
         /\ rt \in Memory
<1>1. \A v \in Var : v \in Desc \ Slot /\ v \notin held /\ v \notin Temps
  BY NameAssumption DEF IInv, Desc, Temps
<1>2. \A v \in Var \ scope : rt.desc[v] = Zero
  BY <1>1 DEF IInv, Intact, Marked
<1>3. \A o \in Operands : o \in AnyOperand /\ (o \in Slot => o \in held)
  BY NameAssumption DEF IInv, Operands, AnyOperand, Desc, Temps
<1>4. \A o \in Operands : o \in Var => o \in scope
  BY <1>1, NameAssumption DEF IInv, Operands, Desc
<1>5. scope \cap held = {} BY <1>1 DEF IInv
<1> QED BY <1>1, <1>2, <1>3, <1>4, <1>5 DEF IInv, Intact

-----------------------------------------------------------------------------
(* Each action preserves the invariant, and changes no more of the memory  *)
(* than it says: the two facts come from the same lemma about the C        *)
(* function, and the second is what value semantics rests on.              *)

(* An assignment: src is copied, or not for want of memory. *)
Stores(v, src) ==
  OnlyChanges(rt, rt', {v}, {src} \cap held) /\ Stored(rt, rt', v, src, held)

(* The temps in used are released, the descriptors in gone zeroed, and txt *)
(* is in a temp that was free, or for want of memory nowhere.              *)
Gives(used, gone, txt) ==
  \/ held' = held \ used /\ OnlyChanges(rt, rt', {}, gone)
  \/ \E t \in Temps \ held :
       /\ held' = (held \ used) \cup {t}
       /\ OnlyChanges(rt, rt', {t}, gone) /\ Reads(rt', t, txt)

(* DIM: *)
LEMMA DimStep ==
  ASSUME IInv, NEW v \in Var, Dim(v)
  PROVE  IInv' /\ rt' = rt
<1>1. /\ v \notin scope /\ rt' = SetDesc(rt, v, Zero)
      /\ scope' = scope \cup {v} /\ held' = held /\ lost' = lost
  BY DEF Dim
<1>2. v \in Desc \ Slot /\ rt.desc[v] = Zero /\ rt \in Memory
  BY <1>1, NamesSound
<1>3. rt' = rt BY <1>1, <1>2, SetSame
<1> DEFINE A == scope \cup held
<1>4. Intact(rt, A, held, Desc, lost) BY DEF IInv
<1> HIDE DEF A
<1>5. Intact(rt, A \cup {v}, held, Desc, lost) BY <1>2, <1>4, EnterSound
<1>6. A \cup {v} = scope' \cup held' BY <1>1 DEF A
<1> QED BY <1>1, <1>3, <1>5, <1>6 DEF IInv

(* DIM with an initializer: *)
LEMMA DimInitStep ==
  ASSUME IInv, NEW v \in Var, NEW src, NEW got, DimInit(v, src, got)
  PROVE  IInv' /\ Stores(v, src)
<1> DEFINE A == scope \cup held
           B == A \cup {v}
           C == B \ ({src} \cap held)
           G == held \ {src}
           r == AssignEx(rt, v, src, TRUE, got)
<1>1. /\ v \notin scope /\ src \in Operands
      /\ rt' = r
      /\ scope' = scope \cup {v} /\ held' = G /\ lost' = lost
  BY DEF DimInit
<1>2. /\ v \in Desc \ Slot /\ v \notin held /\ rt.desc[v] = Zero
      /\ src \in AnyOperand /\ (src \in Slot => src \in held)
  BY <1>1, NamesSound
<1>3. Intact(rt, A, held, Desc, lost) BY DEF IInv
<1>4. v \in B \ held BY <1>2
<1>5. C = scope' \cup held' BY <1>1, <1>2, NamesSound
<1> HIDE DEF A, B
<1>6. Intact(rt, B, held, Desc, lost) BY <1>2, <1>3, EnterSound DEF B
<1> HIDE DEF C, G
<1>7. /\ Intact(r, B \ ({src} \cap held), held \ {src}, Desc, lost)
      /\ OnlyChanges(rt, r, {v}, {src} \cap held)
      /\ Stored(rt, r, v, src, held)
  BY <1>2, <1>4, <1>6, AssignExSound DEF r
<1>8. scope' \subseteq Var /\ held' \subseteq Temps BY <1>1 DEF IInv, G
<1> HIDE DEF r
<1> QED BY <1>1, <1>5, <1>7, <1>8 DEF IInv, Stores, C, G

(* Scope exit: *)
LEMMA LeaveScopeStep ==
  ASSUME IInv, NEW v \in Var, LeaveScope(v)
  PROVE  IInv' /\ OnlyChanges(rt, rt', {}, {v})
<1> DEFINE A == scope \cup held
           G == held \ {v}
           V == Desc \cup {v}
           k == UStrDelete(rt, v)
<1>1. /\ v \in scope /\ rt' = k
      /\ scope' = scope \ {v} /\ held' = held /\ lost' = lost
  BY DEF LeaveScope
<1>2. v \in Desc \ Slot /\ v \notin held BY NamesSound
<1>3. Intact(rt, A, held, Desc, lost) BY DEF IInv
<1>4. G = held /\ V = Desc /\ A \ {v} = scope' \cup held' BY <1>1, <1>2
<1> HIDE DEF A, G, V, k
<1>5. /\ Intact(k, A, G, V, lost) /\ k.desc[v] = Zero
      /\ Keeps(rt, k, Desc \ {v})
  BY <1>2, <1>3, DeleteSound DEF G, V, k
<1>6. Intact(k, A, held, Desc, lost) BY <1>4, <1>5
<1>7. Intact(k, A \ {v}, held \ {v}, Desc, lost) BY <1>2, <1>5, <1>6, LeaveSound
<1>8. held \ {v} = held BY <1>2
<1>9. scope' \subseteq Var /\ held' \subseteq Temps BY <1>1 DEF IInv
<1>10. OnlyChanges(rt, rt', {}, {v})
  <2>1. Desc \ ({} \cup {v}) = Desc \ {v} OBVIOUS
  <2> QED BY <1>1, <1>5, <2>1 DEF OnlyChanges
<1> QED BY <1>1, <1>4, <1>7, <1>8, <1>9, <1>10 DEF IInv

(* The end of a FUNCTION, whose result moves to the pool or is lost: *)
LEMMA ReturnStep ==
  ASSUME IInv, NEW v \in Var, Return(v)
  PROVE  IInv' /\ Gives({}, {v}, Contents(rt, v))
<1> DEFINE A == scope \cup held
           r == TempResult(rt, v)
<1>1. /\ v \in scope /\ rt' = SetDesc(r.mem, v, Zero)
      /\ scope' = scope \ {v} /\ held' = held \cup ({r.at} \cap Temps)
      /\ lost' = lost \cup ({Data(r.mem, v)} \ {NoBlock})
  BY DEF Return
<1>2. v \in Desc \ Slot /\ v \notin held /\ v \in A BY <1>1, NamesSound
<1>3. Intact(rt, A, held, Desc, lost) BY DEF IInv
<1>4. A \ {v} = scope' \cup held BY <1>1, <1>2
<1>5. held \subseteq Temps /\ scope' \subseteq Var BY <1>1 DEF IInv
<1> HIDE DEF A, r
<1>6. Returned(rt, r, v, A, held, lost) BY <1>2, <1>3, TempResultSound DEF r
<1>7. CASE r.at \notin Temps /\ r.mem = rt
  <2>1. /\ Intact(rt', A \ {v}, held, Desc, lost')
        /\ OnlyChanges(rt, rt', {}, {v})
    BY <1>1, <1>2, <1>3, <1>7, AbandonSound
  <2>2. held' = held BY <1>1, <1>7
  <2> QED BY <2>1, <2>2, <1>4, <1>5 DEF IInv, Gives
<1>8. ASSUME NEW s \in Slot \ A, r.at = s, r.mem.desc[v] = Zero,
             Intact(r.mem, A \cup {s}, held \cup {s}, Desc, lost),
             Keeps(rt, r.mem, Desc \ {v, s}), Reads(r.mem, s, Contents(rt, v))
      PROVE  IInv' /\ Gives({}, {v}, Contents(rt, v))
  <2> DEFINE B == A \cup {s}
             G == held \cup {s}
  <2>1. Intact(r.mem, B, G, Desc, lost) BY <1>8
  <2>2. B \ {v} = scope' \cup G /\ G \ {v} = G BY <1>2, <1>4, <1>8
  <2>3. s \in Temps BY DEF Temps
  <2>4. held' = G BY <1>1, <1>8, <2>3
  <2> HIDE DEF B, G
  <2>5. r.mem \in Memory BY <2>1 DEF Intact
  <2>6. rt' = r.mem BY <1>1, <1>2, <1>8, <2>5, SetSame
  <2>7. Data(r.mem, v) = NoBlock BY <1>8 DEF Data, Zero
  <2>8. lost' = lost BY <1>1, <2>7
  <2>9. Intact(r.mem, B \ {v}, G \ {v}, Desc, lost)
    BY <1>2, <1>8, <2>1, LeaveSound
  <2>10. held' \subseteq Temps BY <1>5, <2>3, <2>4 DEF G
  <2>11. IInv' BY <1>5, <2>2, <2>4, <2>6, <2>8, <2>9, <2>10 DEF IInv
  <2>12. OnlyChanges(rt, rt', {s}, {v})
    <3>1. Desc \ ({s} \cup {v}) = Desc \ {v, s} OBVIOUS
    <3> QED BY <1>8, <2>6, <3>1 DEF OnlyChanges
  <2>13. s \in Temps \ held BY <1>8, <2>3 DEF A
  <2>14. held' = (held \ {}) \cup {s} BY <2>4 DEF G
  <2> QED BY <1>8, <2>6, <2>11, <2>12, <2>13, <2>14 DEF Gives
<1> QED BY <1>6, <1>7, <1>8 DEF Returned

(* Assignment: *)
LEMMA AssignStep ==
  ASSUME IInv, NEW v \in Var, NEW src, NEW got, Assign(v, src, got)
  PROVE  IInv' /\ Stores(v, src)
<1> DEFINE A == scope \cup held
           C == A \ ({src} \cap held)
           G == held \ {src}
           r == AssignEx(rt, v, src, FALSE, got)
<1>1. /\ v \in scope /\ src \in Operands
      /\ rt' = r
      /\ scope' = scope /\ held' = G /\ lost' = lost
  BY DEF Assign
<1>2. /\ v \in A \ held
      /\ src \in AnyOperand /\ (src \in Slot => src \in held)
  BY <1>1, NamesSound
<1>3. Intact(rt, A, held, Desc, lost) BY DEF IInv
<1>4. C = scope' \cup held' BY <1>1, NamesSound
<1>5. scope' \subseteq Var /\ held' \subseteq Temps BY <1>1 DEF IInv
<1> HIDE DEF A
<1> HIDE DEF C, G
<1>6. /\ Intact(r, A \ ({src} \cap held), held \ {src}, Desc, lost)
      /\ OnlyChanges(rt, r, {v}, {src} \cap held)
      /\ Stored(rt, r, v, src, held)
  BY <1>2, <1>3, AssignExSound DEF r
<1> HIDE DEF r
<1> QED BY <1>1, <1>4, <1>5, <1>6 DEF IInv, Stores, C, G

(* Append in place: *)
LEMMA ExtendStep ==
  ASSUME IInv, NEW v \in Var, NEW src, NEW got, NEW moved \in BOOLEAN,
         Extend(v, src, got, moved)
  PROVE  /\ IInv' /\ OnlyChanges(rt, rt', {v}, {src} \cap held)
         /\ Contents(rt', v) \in
              {Contents(rt, v) \o TextOf(rt, src), Contents(rt, v)}
<1> DEFINE A == scope \cup held
           C == A \ ({src} \cap held)
           G == held \ {src}
           r == ConcatAssign(rt, v, src, got, moved)
<1>1. /\ v \in scope /\ src \in Operands /\ src # v
      /\ rt' = r
      /\ scope' = scope /\ held' = G /\ lost' = lost
  BY DEF Extend
<1>2. /\ v \in A \ held
      /\ src \in AnyOperand /\ (src \in Slot => src \in held)
  BY <1>1, NamesSound
<1>3. Intact(rt, A, held, Desc, lost) BY DEF IInv
<1>4. C = scope' \cup held' BY <1>1, NamesSound
<1>5. scope' \subseteq Var /\ held' \subseteq Temps BY <1>1 DEF IInv
<1> HIDE DEF A
<1> HIDE DEF C, G
<1>6. /\ Intact(r, A \ ({src} \cap held), held \ {src}, Desc, lost)
      /\ OnlyChanges(rt, r, {v}, {src} \cap held)
      /\ src # v => Contents(r, v) \in
           {Contents(rt, v) \o TextOf(rt, src), Contents(rt, v)}
  BY <1>2, <1>3, ConcatAssignSound, ZenonT(30) DEF r
<1> HIDE DEF r
<1> QED BY <1>1, <1>4, <1>5, <1>6 DEF IInv, C, G

(* SWAP: *)
LEMMA SwapVarsStep ==
  ASSUME IInv, NEW v \in Var, NEW w \in Var, SwapVars(v, w)
  PROVE  /\ IInv' /\ Keeps(rt, rt', Desc \ {v, w})
         /\ Reads(rt', v, Contents(rt, w)) /\ Reads(rt', w, Contents(rt, v))
<1> DEFINE A == scope \cup held
<1>1. /\ v \in scope /\ w \in scope /\ rt' = Swap(rt, v, w)
      /\ scope' = scope /\ held' = held /\ lost' = lost
  BY DEF SwapVars
<1>2. v \in A \ held /\ w \in A \ held BY <1>1, NamesSound
<1>3. Intact(rt, A, held, Desc, lost) BY DEF IInv
<1>4. A = scope' \cup held' BY <1>1
<1> HIDE DEF A
<1>5. /\ Intact(rt', A, held, Desc, lost)
      /\ Keeps(rt, rt', Desc \ {v, w})
      /\ Reads(rt', v, Contents(rt, w)) /\ Reads(rt', w, Contents(rt, v))
  BY <1>1, <1>2, <1>3, SwapSound
<1> QED BY <1>1, <1>4, <1>5 DEF IInv

(* A call that releases two operands, and one that releases one of them. *)
LEMMA ConsumeTwoStep ==
  ASSUME IInv, NEW a, NEW b, ConsumeTwo(a, b)
  PROVE  IInv' /\ OnlyChanges(rt, rt', {}, {a, b} \cap held)
<1> DEFINE A == scope \cup held
           C == A \ ({a, b} \cap held)
           G == held \ {a, b}
<1>1. /\ Pair(a, b)
      /\ rt' = Release(Release(rt, a), b)
      /\ scope' = scope /\ held' = G /\ lost' = lost
  BY DEF ConsumeTwo
<1>2. a \in Operands /\ b \in Operands /\ (a # b \/ a \notin held)
  BY <1>1 DEF Pair
<1>3. /\ a \in AnyOperand /\ (a \in Slot => a \in held)
      /\ b \in AnyOperand /\ (b \in Slot => b \in held)
  BY <1>2, NamesSound
<1>4. Intact(rt, A, held, Desc, lost) BY DEF IInv
<1>5. C = scope' \cup held' BY <1>1, NamesSound
<1>6. scope' \subseteq Var /\ held' \subseteq Temps BY <1>1 DEF IInv
<1> HIDE DEF A
<1>7. /\ Intact(rt', C, G, Desc, lost)
      /\ OnlyChanges(rt, rt', {}, {a, b} \cap held)
  BY <1>1, <1>2, <1>3, <1>4, ReleaseTwoSound
<1> HIDE DEF C, G
<1> QED BY <1>1, <1>5, <1>6, <1>7 DEF IInv

(* LEN, ASC, a discarded result: *)
LEMMA ConsumeStep ==
  ASSUME IInv, NEW src, Consume(src)
  PROVE  IInv' /\ OnlyChanges(rt, rt', {}, {src} \cap held)
<1> DEFINE A == scope \cup held
           C == A \ ({src} \cap held)
           G == held \ {src}
<1>1. /\ src \in Operands /\ rt' = Release(rt, src)
      /\ scope' = scope /\ held' = G /\ lost' = lost
  BY DEF Consume
<1>2. src \in AnyOperand /\ (src \in Slot => src \in held)
  BY <1>1, NamesSound
<1>3. Intact(rt, A, held, Desc, lost) BY DEF IInv
<1>4. C = scope' \cup held' BY <1>1, NamesSound
<1>5. scope' \subseteq Var /\ held' \subseteq Temps BY <1>1 DEF IInv
<1> HIDE DEF A
<1>6. /\ Intact(rt', C, G, Desc, lost)
      /\ OnlyChanges(rt, rt', {}, {src} \cap held)
  BY <1>1, <1>2, <1>3, ReleaseSound
<1> HIDE DEF C, G
<1> QED BY <1>1, <1>4, <1>5, <1>6 DEF IInv

(* Concatenation into a stack temp: *)
LEMMA ConcatIntoStep ==
  ASSUME IInv, NEW t \in Tmp, NEW a, NEW b, NEW got, ConcatInto(t, a, b, got)
  PROVE  /\ IInv'
         /\ Gives({a, b}, {a, b} \cap held, TextOf(rt, a) \o TextOf(rt, b))
<1> DEFINE A == scope \cup held
           r == Concat(rt, t, a, b, got)
           C == A \ ({a, b} \cap held)
           G == held \ {a, b}
           CT == (A \cup {t}) \ ({a, b} \cap held)
           GT == (held \cup {t}) \ {a, b}
<1>1. t \notin held /\ t \in Desc /\ t \in Temps /\ t \notin scope
  BY NamesSound DEF ConcatInto, Desc, Temps, IInv
<1>2. rt.desc[t] = Zero /\ rt \in Memory
  BY <1>1 DEF IInv, Intact, Marked
<1>3. SetDesc(rt, t, Zero) = rt BY <1>1, <1>2, SetSame
<1>4. /\ Pair(a, b)
      /\ rt' = r.mem /\ held' = (held \ {a, b}) \cup Hand(r.at)
      /\ scope' = scope /\ lost' = lost
  BY <1>3 DEF ConcatInto
<1>5. a \in Operands /\ b \in Operands /\ (a # b \/ a \notin held)
  BY <1>4 DEF Pair
<1>6. /\ a \in AnyOperand /\ (a \in Slot => a \in held)
      /\ b \in AnyOperand /\ (b \in Slot => b \in held)
      /\ a # t /\ b # t
  <2>1. t \notin Operands
    BY <1>1, NameAssumption DEF Operands, Desc
  <2> QED BY <2>1, <1>5, NamesSound
<1>7. C = scope \cup G BY NamesSound
<1>8. GT = G \cup {t} /\ CT = scope \cup GT
  BY <1>1, <1>6, NamesSound
<1>9. scope \subseteq Var /\ held \subseteq Temps BY DEF IInv
<1>10. t \notin A BY <1>1
<1>11. Intact(rt, A, held, Desc, lost) BY DEF IInv
<1> HIDE DEF A, r
<1>12. \/ /\ r.at = NullPtr
          /\ Intact(r.mem, C, G, Desc, lost)
          /\ OnlyChanges(rt, r.mem, {}, {a, b} \cap held)
       \/ /\ r.at = t
          /\ Intact(r.mem, CT, GT, Desc, lost)
          /\ OnlyChanges(rt, r.mem, {t}, {a, b} \cap held)
          /\ Reads(r.mem, t, TextOf(rt, a) \o TextOf(rt, b))
  BY <1>2, <1>5, <1>6, <1>10, <1>11, ConcatSound DEF r
<1>13. CASE /\ r.at = NullPtr
            /\ Intact(r.mem, C, G, Desc, lost)
            /\ OnlyChanges(rt, r.mem, {}, {a, b} \cap held)
  <2>1. held' = G BY <1>4, <1>13, Sentinels DEF Hand
  <2>2. held' \subseteq Temps BY <2>1, <1>9
  <2> HIDE DEF C
  <2> QED BY <2>1, <2>2, <1>4, <1>7, <1>9, <1>13 DEF IInv, Gives
<1>14. CASE /\ r.at = t
            /\ Intact(r.mem, CT, GT, Desc, lost)
            /\ OnlyChanges(rt, r.mem, {t}, {a, b} \cap held)
            /\ Reads(r.mem, t, TextOf(rt, a) \o TextOf(rt, b))
  <2>1. held' = GT BY <1>1, <1>4, <1>8, <1>14 DEF Hand
  <2>2. held' \subseteq Temps BY <2>1, <1>1, <1>9
  <2>3. held' = (held \ {a, b}) \cup {t} BY <2>1, <1>8
  <2> HIDE DEF CT, GT
  <2>4. IInv' BY <2>1, <2>2, <1>4, <1>8, <1>9, <1>14 DEF IInv
  <2> QED BY <2>3, <2>4, <1>1, <1>4, <1>14 DEF Gives
<1> QED BY <1>12, <1>13, <1>14

(* A text handed back joins the temps in flight. *)
LEMMA HandedStep ==
  ASSUME NEW m, NEW r, NEW txt, NEW S, NEW H, NEW L,
         Handed(m, r, txt, S \cup H, H, L), H \subseteq Temps
  PROVE  /\ Intact(r.mem, S \cup (H \cup Hand(r.at)), H \cup Hand(r.at), Desc, L)
         /\ Hand(r.at) \subseteq Temps
         /\ Hand(r.at) \cap (S \cup H) = {}
         /\ \/ Hand(r.at) = {} /\ Keeps(m, r.mem, Desc)
            \/ \E s \in Temps : /\ Hand(r.at) = {s} /\ Keeps(m, r.mem, Desc \ {s})
                               /\ Reads(r.mem, s, txt)
<1> DEFINE A == S \cup H
<1>1. CASE /\ r.at \notin Temps /\ Intact(r.mem, A, H, Desc, L)
           /\ Keeps(m, r.mem, Desc)
  <2>1. Hand(r.at) = {} BY <1>1 DEF Hand
  <2>2. H \cup Hand(r.at) = H /\ S \cup (H \cup Hand(r.at)) = A BY <2>1
  <2> QED BY <1>1, <2>1, <2>2
<1>2. ASSUME NEW s \in Slot \ A, r.at = s,
             Intact(r.mem, A \cup {s}, H \cup {s}, Desc, L),
             Keeps(m, r.mem, Desc \ {s}), Reads(r.mem, s, txt)
      PROVE  /\ Intact(r.mem, S \cup (H \cup Hand(r.at)), H \cup Hand(r.at), Desc, L)
             /\ Hand(r.at) \subseteq Temps
             /\ Hand(r.at) \cap (S \cup H) = {}
             /\ \E d \in Temps : /\ Hand(r.at) = {d} /\ Keeps(m, r.mem, Desc \ {d})
                                /\ Reads(r.mem, d, txt)
  <2>1. Hand(r.at) = {s} BY <1>2 DEF Hand, Temps
  <2>2. A \cup {s} = S \cup (H \cup {s}) OBVIOUS
  <2> HIDE DEF A
  <2> QED BY <1>2, <2>1, <2>2 DEF A, Temps
<1> QED BY <1>1, <1>2 DEF Handed

(* A call that makes a temp of some text and releases its operand: *)
LEMMA GiveStep ==
  ASSUME IInv, NEW src \in Operands, NEW txt \in Seq(Char), NEW got,
         Give(TempFrom(rt, txt, got), src)
  PROVE  IInv' /\ Gives({src}, {src} \cap held, txt)
<1> DEFINE r == TempFrom(rt, txt, got)
           H == held \cup Hand(r.at)
           A == scope \cup H
           C == A \ ({src} \cap H)
           G == H \ {src}
<1>1. /\ src \in Operands
      /\ rt' = Release(r.mem, src)
      /\ held' = (held \ {src}) \cup Hand(r.at)
      /\ scope' = scope /\ lost' = lost
  BY DEF Give
<1>2. src \in AnyOperand /\ (src \in Slot => src \in held)
  BY <1>1, NamesSound
<1>3. Intact(rt, scope \cup held, held, Desc, lost) /\ held \subseteq Temps
      /\ scope \subseteq Var
  BY DEF IInv
<1>5. Handed(rt, r, txt, scope \cup held, held, lost) BY <1>3, TempFromSound
<1> HIDE DEF r
<1>6. /\ Intact(r.mem, A, H, Desc, lost) /\ Hand(r.at) \subseteq Temps
      /\ Hand(r.at) \cap (scope \cup held) = {}
      /\ \/ Hand(r.at) = {} /\ Keeps(rt, r.mem, Desc)
         \/ \E s \in Temps : /\ Hand(r.at) = {s}
                            /\ Keeps(rt, r.mem, Desc \ {s})
                            /\ Reads(r.mem, s, txt)
  BY <1>3, <1>5, HandedStep, ZenonT(30)
<1>7. src \notin Hand(r.at)
  <2>1. src \in Temps => src \in held
    BY <1>1, NamesSound, NameAssumption DEF Operands, Temps, Desc, IInv
  <2> QED BY <2>1, <1>6
<1>8. src \in Slot => src \in H BY <1>2
<1>9. held' = G BY <1>1, <1>7
<1>10. scope \cap H = {} BY <1>6, NamesSound
<1>11. C = scope \cup G BY <1>10
<1>12. G \subseteq Temps BY <1>3, <1>6
<1>15. {src} \cap H = {src} \cap held BY <1>7
<1> HIDE DEF A, H
<1>13. /\ Intact(rt', C, G, Desc, lost)
       /\ OnlyChanges(r.mem, rt', {}, {src} \cap H)
  BY <1>1, <1>2, <1>6, <1>8, ReleaseSound
<1> HIDE DEF C, G
<1>14. IInv' BY <1>1, <1>3, <1>9, <1>11, <1>12, <1>13 DEF IInv
<1> DEFINE F == {src} \cap held
<1>16. OnlyChanges(r.mem, rt', {}, F) BY <1>13, <1>15
<1>17. ASSUME NEW D, OnlyChanges(rt, r.mem, D, {})
       PROVE  OnlyChanges(rt, rt', D, F)
  <2>1. OnlyChanges(rt, rt', D \cup {}, {} \cup F)
    BY <1>16, <1>17, ChangesTwice
  <2>2. D \cup {} = D /\ {} \cup F = F OBVIOUS
  <2> QED BY <2>1, <2>2
<1>18. CASE Hand(r.at) = {} /\ Keeps(rt, r.mem, Desc)
  <2>1. Desc \ ({} \cup {}) = Desc OBVIOUS
  <2>2. OnlyChanges(rt, r.mem, {}, {}) BY <1>18, <2>1 DEF OnlyChanges
  <2>3. held' = held \ {src} BY <1>1, <1>18
  <2> QED BY <1>14, <1>17, <2>2, <2>3 DEF Gives
<1>19. ASSUME NEW s \in Temps, Hand(r.at) = {s},
              Keeps(rt, r.mem, Desc \ {s}), Reads(r.mem, s, txt)
       PROVE  IInv' /\ Gives({src}, F, txt)
  <2>1. s \notin held /\ s # src /\ s \in Desc BY <1>6, <1>7, <1>19 DEF Temps, Desc
  <2>2. OnlyChanges(rt, rt', {s}, F) BY <1>17, <1>19, ChangesOne
  <2>3. s \in Desc \ ({} \cup F) BY <2>1
  <2>4. Contents(rt', s) = Contents(r.mem, s)
    BY <1>16, <2>3, KeptText DEF OnlyChanges
  <2>5. held' = (held \ {src}) \cup {s} BY <1>1, <1>19
  <2>6. Reads(rt', s, txt) BY <1>19, <2>4 DEF Reads
  <2> QED BY <1>14, <2>1, <2>2, <2>5, <2>6 DEF Gives
<1> QED BY <1>6, <1>18, <1>19

(* Between two calls an operand has a text of units. *)
LEMMA OperandUnits ==
  ASSUME IInv, NEW src \in Operands
  PROVE  TextOf(rt, src) \in Seq(Char) /\ Len(TextOf(rt, src)) = LenOf(rt, src)
<1>1. src \in AnyOperand BY NamesSound
<1>2. Intact(rt, scope \cup held, held, Desc, lost) BY DEF IInv
<1> QED BY <1>1, <1>2, OperandText

(* LEFT, RIGHT, MID, TRIM: *)
LEMMA SliceStep ==
  ASSUME IInv, NEW src, NEW first \in Nat, NEW last \in Nat, NEW got,
         Slice(src, first, last, got)
  PROVE  IInv' /\ Gives({src}, {src} \cap held, SubSeq(TextOf(rt, src), first, last))
<1> DEFINE txt == SubSeq(TextOf(rt, src), first, last)
<1>1. src \in Operands /\ Give(TempFrom(rt, txt, got), src)
  BY DEF Slice
<1>2. \/ first \in 1 .. LenOf(rt, src) /\ last \in first .. LenOf(rt, src)
      \/ first = 1 /\ last = 0
  BY DEF Slice
<1>3. TextOf(rt, src) \in Seq(Char) /\ Len(TextOf(rt, src)) = LenOf(rt, src)
  BY <1>1, OperandUnits
<1>4. txt \in Seq(Char) BY <1>2, <1>3
<1> HIDE DEF txt
<1>5. IInv' /\ Gives({src}, {src} \cap held, txt) BY <1>1, <1>4, GiveStep
<1> QED BY <1>5 DEF txt

(* UCASE, LCASE: *)
LEMMA RecaseStep ==
  ASSUME IInv, NEW src, NEW table \in Cases, NEW got, Recase(src, table, got)
  PROVE  IInv' /\ Gives({src}, {src} \cap held,
                        [i \in DOMAIN TextOf(rt, src) |->
                           table[TextOf(rt, src)[i]]])
<1> DEFINE old == TextOf(rt, src)
           txt == [i \in DOMAIN old |-> table[old[i]]]
<1>1. src \in Operands /\ Give(TempFrom(rt, txt, got), src)
  BY DEF Recase, Recased
<1>2. old \in Seq(Char) BY <1>1, OperandUnits
<1>3. table \in [Char -> Char] BY UnitAssumption DEF Char
<1> HIDE DEF old
<1>4. txt \in Seq(Char) BY <1>2, <1>3
<1> HIDE DEF txt
<1>5. IInv' /\ Gives({src}, {src} \cap held, txt) BY <1>1, <1>4, GiveStep
<1> QED BY <1>5 DEF txt, old

(* SPACE, STRING: *)
Filled(src, n) ==
  [i \in 1 .. n |-> IF LenOf(rt, src) > 0 THEN TextOf(rt, src)[1] ELSE Space]

LEMMA FillStep ==
  ASSUME IInv, NEW src, NEW n \in Nat, NEW got, Fill(src, n, got)
  PROVE  IInv' /\ Gives({src}, {src} \cap held, Filled(src, n))
<1> DEFINE old == TextOf(rt, src)
           unit == IF LenOf(rt, src) > 0 THEN old[1] ELSE Space
           txt == [i \in 1 .. n |-> unit]
<1>1. src \in Operands /\ Give(TempFrom(rt, txt, got), src)
  BY DEF Fill, Repeated
<1>2. old \in Seq(Char) /\ Len(old) = LenOf(rt, src)
  BY <1>1, OperandUnits
<1> HIDE DEF old
<1>3. unit \in Char BY <1>2, UnitAssumption DEF Char
<1> HIDE DEF unit
<1>4. txt \in Seq(Char) BY <1>3
<1> HIDE DEF txt
<1>5. IInv' /\ Gives({src}, {src} \cap held, txt) BY <1>1, <1>4, GiveStep
<1> QED BY <1>5 DEF txt, unit, old, Filled

(* A narrow operand: *)
LEMMA DecodeStep ==
  ASSUME IInv, NEW src, NEW got, Decode(src, got)
  PROVE  IInv' /\ Gives({src}, {src} \cap held, RawText[src])
<1> DEFINE r == FromNarrow(rt, RawText[src], got)
           H == held \cup Hand(r.at)
<1>1. /\ src \in Raw /\ rt' = r.mem /\ held' = H
      /\ scope' = scope /\ lost' = lost
  BY DEF Decode
<1>2. Intact(rt, scope \cup held, held, Desc, lost) /\ held \subseteq Temps
      /\ scope \subseteq Var
  BY DEF IInv
<1>3. RawText[src] \in Seq(Char)
  <2>1. RawText[src] \in Seq(Unit) BY <1>1, RawAssumption
  <2> QED BY <2>1 DEF Char
<1>4. Handed(rt, r, RawText[src], scope \cup held, held, lost) BY <1>2, <1>3, FromNarrowSound
<1> HIDE DEF r
<1>5. /\ Intact(r.mem, scope \cup H, H, Desc, lost)
      /\ Hand(r.at) \subseteq Temps
      /\ Hand(r.at) \cap (scope \cup held) = {}
      /\ \/ Hand(r.at) = {} /\ Keeps(rt, r.mem, Desc)
         \/ \E s \in Temps : /\ Hand(r.at) = {s}
                            /\ Keeps(rt, r.mem, Desc \ {s})
                            /\ Reads(r.mem, s, RawText[src])
  BY <1>2, <1>4, HandedStep
<1>6. H \subseteq Temps BY <1>2, <1>5
<1>7. {src} \cap held = {} /\ held \ {src} = held
  BY <1>1, <1>2, NameAssumption DEF Temps, Desc
<1>8. ASSUME Hand(r.at) = {}, Keeps(rt, r.mem, Desc)
      PROVE  Gives({src}, {src} \cap held, RawText[src])
  <2>1. Desc \ ({} \cup {}) = Desc OBVIOUS
  <2>2. OnlyChanges(rt, r.mem, {}, {}) BY <1>8, <2>1 DEF OnlyChanges
  <2>3. held' = held \ {src} BY <1>1, <1>7, <1>8
  <2>4. OnlyChanges(rt, rt', {}, {src} \cap held) BY <1>1, <1>7, <2>2
  <2> QED BY <2>3, <2>4 DEF Gives
<1>9. ASSUME NEW s \in Temps, Hand(r.at) = {s},
             Keeps(rt, r.mem, Desc \ {s}), Reads(r.mem, s, RawText[src])
      PROVE  Gives({src}, {src} \cap held, RawText[src])
  <2>1. s \in Temps \ held BY <1>5, <1>9
  <2>2. OnlyChanges(rt, r.mem, {s}, {}) BY <1>9, ChangesOne
  <2>3. held' = (held \ {src}) \cup {s} BY <1>1, <1>7, <1>9
  <2>4. OnlyChanges(rt, rt', {s}, {src} \cap held) BY <1>1, <1>7, <2>2
  <2>5. Reads(rt', s, RawText[src]) BY <1>1, <1>9
  <2> QED BY <2>1, <2>3, <2>4, <2>5 DEF Gives
<1>10. Gives({src}, {src} \cap held, RawText[src]) BY <1>5, <1>8, <1>9
<1> HIDE DEF H
<1> QED BY <1>1, <1>2, <1>5, <1>6, <1>10 DEF IInv

(* Every step preserves the invariant. *)
LEMMA NextSound == IInv /\ [Next]_vars => IInv'
<1> SUFFICES ASSUME IInv, [Next]_vars PROVE IInv' OBVIOUS
<1>1. ASSUME NEW v \in Var, Dim(v) \/ LeaveScope(v) \/ Return(v)
      PROVE  IInv'
  BY <1>1, DimStep, LeaveScopeStep, ReturnStep
<1>2. ASSUME NEW v \in Var, NEW src, NEW got,
             DimInit(v, src, got) \/ Assign(v, src, got)
      PROVE  IInv'
  BY <1>2, DimInitStep, AssignStep
<1>3. ASSUME NEW v \in Var, NEW src, NEW got, NEW moved \in BOOLEAN,
             Extend(v, src, got, moved)
      PROVE  IInv'
  BY <1>3, ExtendStep
<1>4. ASSUME NEW v \in Var, NEW w \in Var, SwapVars(v, w)
      PROVE  IInv'
  BY <1>4, SwapVarsStep
<1>5. ASSUME NEW t \in Tmp, NEW a, NEW b, NEW got, ConcatInto(t, a, b, got)
      PROVE  IInv'
  BY <1>5, ConcatIntoStep
<1>6. ASSUME NEW src, NEW first \in 0 .. MaxUnits, NEW last \in 0 .. MaxUnits,
             NEW got, Slice(src, first, last, got)
      PROVE  IInv'
  <2>1. first \in Nat /\ last \in Nat BY SizeAssumption
  <2> QED BY <1>6, <2>1, SliceStep
<1>7. ASSUME NEW src, NEW got, Decode(src, got) PROVE IInv'
  BY <1>7, DecodeStep
<1>8. ASSUME NEW src, Consume(src) PROVE IInv'
  BY <1>8, ConsumeStep
<1>9. ASSUME NEW a, NEW b, ConsumeTwo(a, b) PROVE IInv'
  BY <1>9, ConsumeTwoStep
<1>10. ASSUME NEW src, NEW table \in Cases, NEW got, Recase(src, table, got)
       PROVE  IInv'
  BY <1>10, RecaseStep
<1>11. ASSUME NEW src, NEW n \in 0 .. MaxUnits + 1, NEW got, Fill(src, n, got)
       PROVE  IInv'
  <2>1. n \in Nat BY SizeAssumption
  <2> QED BY <1>11, <2>1, FillStep
<1>12. CASE UNCHANGED vars
  BY <1>12 DEF vars, IInv, Intact, Sets, Owned, Bound, Unshared, Reached,
               Pooled, Marked, Written, FreeList, Data
<1> QED
  BY <1>1, <1>2, <1>3, <1>4, <1>5, <1>6, <1>7, <1>8, <1>9, <1>10, <1>11, <1>12
     DEF Next

(* Every reachable state satisfies the inductive invariant. *)
THEOREM Invariance == Spec => []IInv
BY InitSound, NextSound, PTL DEF Spec

-----------------------------------------------------------------------------
(* What follows for the properties of UStrRuntime.                         *)

(* Every field keeps to its type, whatever the program calls. *)
THEOREM TypeCorrect == Spec => []TypeOK
<1>1. IInv => TypeOK BY DEF IInv, TypeOK, Intact, Sets
<1> QED BY <1>1, Invariance, PTL

(* fb_UStrDelete never frees a buffer that is freed already or that another*)
(* descriptor still points at.                                             *)
THEOREM OwnershipExclusive == Spec => []OneOwner
<1>1. IInv => OneOwner
  BY DEF IInv, OneOwner, Intact, Owned, Bound, Unshared
<1> QED BY <1>1, Invariance, PTL

(* The temps of ustr_core.c's pool are neither released twice nor kept. *)
THEOREM PoolConservation == Spec => []PoolConserved
<1>1. ASSUME IInv PROVE PoolConserved
  <2>1. (scope \cup held) \cap Slot = held \cap Slot
    BY <1>1, NamesSound DEF IInv
  <2>2. Pooled(rt, scope \cup held) BY <1>1 DEF IInv, Intact
  <2> QED BY <2>1, <2>2 DEF PoolConserved, Pooled
<1> QED BY <1>1, Invariance, PTL

(* FB_TEMPSTRBIT is on exactly the temps in flight. *)
THEOREM TempBitExactness == Spec => []TempBitExact
<1>1. IInv => TempBitExact BY DEF IInv, TempBitExact, Intact, Marked
<1> QED BY <1>1, Invariance, PTL

(* What is neither in scope nor in flight holds nothing. *)
THEOREM IdleDescriptors == Spec => []IdleIsZero
<1>1. IInv => IdleIsZero BY DEF IInv, IdleIsZero, Intact, Marked
<1> QED BY <1>1, Invariance, PTL

(* No buffer outlives its last descriptor, except those counted as lost. *)
THEOREM NothingLeaks == Spec => []NoLeak
<1>1. ASSUME IInv PROVE NoLeak
  <2>1. \A d \in Desc : Data(rt, d) \in Block => d \in scope \cup held
    BY <1>1, NameAssumption DEF IInv, Intact, Marked, Data, Zero
  <2> QED BY <1>1, <2>1 DEF IInv, NoLeak, Intact, Owned, Reached
<1> QED BY <1>1, Invariance, PTL

(* A length never runs past its buffer or past what was written there. *)
THEOREM TextInBounds == Spec => []TextFits
<1>1. ASSUME IInv PROVE TextFits
  <2> SUFFICES ASSUME NEW d \in Desc
               PROVE  IF Data(rt, d) = NoBlock
                      THEN rt.desc[d].len = 0 /\ rt.desc[d].size = 0
                      ELSE LET b == rt.heap[Data(rt, d)]
                           IN  /\ rt.desc[d].size = b.cap
                               /\ rt.desc[d].len <= b.cap
                               /\ rt.desc[d].len = Len(b.text)
    BY DEF TextFits
  <2>1. Bound(rt, lost) /\ Written(rt, Desc) BY <1>1 DEF IInv, Intact, Owned
  <2> QED BY <2>1 DEF Bound, Written
<1> QED BY <1>1, Invariance, PTL

(* fb_UStrAllocTempResult leaves a result behind only when every pool      *)
(* descriptor is in flight.                                                *)
THEOREM LossNeedsExhaustion == Spec => LossOnlyWhenExhausted
<1>1. ASSUME IInv, Next, lost' # lost PROVE Slot \subseteq held /\ held' = held
  <2>1. PICK v \in Var : Return(v)
    BY <1>1 DEF Next, Dim, LeaveScope, DimInit, Assign, Extend, SwapVars,
                ConcatInto, Slice, Recase, Fill, Give, Decode, Consume,
                ConsumeTwo
  <2> DEFINE A == scope \cup held
             r == TempResult(rt, v)
  <2>2. /\ v \in scope /\ held' = held \cup ({r.at} \cap Temps)
        /\ lost' = lost \cup ({Data(r.mem, v)} \ {NoBlock})
    BY <2>1 DEF Return
  <2>3. Intact(rt, A, held, Desc, lost) BY <1>1 DEF IInv
  <2> HIDE DEF r, A
  <2>4. PoolEmpty(rt) /\ r.at \notin Temps
    <3>1. ASSUME r.mem.desc[v] = Zero PROVE FALSE
      BY <3>1, <1>1, <2>2 DEF Data, Zero
    <3>2. v \in (A \cap Var) \ held BY <1>1, <2>2, NamesSound DEF A
    <3>3. Returned(rt, r, v, A, held, lost)
      BY <2>3, <3>2, TempResultSound DEF r
    <3> QED BY <3>1, <3>3 DEF Returned
  <2>5. \A s \in Slot : s \in rt.used
    BY <2>3, <2>4 DEF Intact, Pooled, PoolEmpty
  <2>6. rt.used = held \cap Slot
    <3>1. A \cap Slot = held \cap Slot BY <1>1, NamesSound DEF A, IInv
    <3> QED BY <2>3, <3>1 DEF Intact, Pooled
  <2> QED BY <2>2, <2>4, <2>5, <2>6
<1>2. IInv /\ [Next]_vars
        => [lost' # lost => Slot \subseteq held /\ held' = held]_vars
  BY <1>1 DEF vars
<1> QED BY <1>2, Invariance, PTL DEF Spec, LossOnlyWhenExhausted

-----------------------------------------------------------------------------
(* Value semantics: every step of the program on shared buffers is a step  *)
(* of UStrValues, where each variable and temp has a text of its own.      *)

(* The operand of UStrValues that an operand stands for: the shared empty  *)
(* descriptor is no text at all.                                           *)
As(o) == IF o = NullDesc THEN NullPtr ELSE o

(* Used by the operand lemma: what is not in use has no text. *)
LEMMA IdleText ==
  ASSUME IInv, NEW d \in Desc, d \notin scope \cup held
  PROVE  Contents(rt, d) = << >>
<1>1. rt.desc[d] = Zero BY DEF IInv, Intact, Marked
<1> QED BY <1>1, ZeroText

(* An operand of a call reads as the operand it stands for. *)
LEMMA OperandValue ==
  ASSUME IInv, NEW o \in Operands
  PROVE  /\ As(o) \in Values!Operand /\ Values!Value(As(o)) = TextOf(rt, o)
         /\ {As(o)} \cap Temps = {o} \cap Temps
         /\ As(o) \in held <=> o \in held
<1>1. scope \subseteq Var /\ held \subseteq Temps BY DEF IInv
<1>2. NullPtr \notin scope \cup held \cup Raw \cup Temps
  BY <1>1, NameAssumption DEF Desc, Temps
<1>3. NullDesc \notin scope \cup held \cup Raw \cup Temps
  BY <1>1, NameAssumption DEF Desc, Temps
<1>4. scope \cap held = {} /\ scope \cap Raw = {} /\ held \cap Raw = {}
  BY <1>1, NamesSound, NameAssumption DEF Desc, Temps
<1>5. As(o) \in Values!Operand BY DEF As, Operands, Values!Operand
<1>6. Values!Value(As(o)) = TextOf(rt, o)
  <2>1. CASE o \in scope
    <3>1. As(o) = o /\ o \in Var /\ o \in Desc BY <2>1, <1>1, <1>3 DEF As, Desc
    <3> QED BY <2>1, <3>1, <1>4 DEF Values!Value, TextOf
  <2>2. CASE o \in held
    <3>1. As(o) = o /\ o \in Temps /\ o \in Desc /\ o \notin scope
      BY <2>2, <1>1, <1>3, <1>4 DEF As, Desc, Temps
    <3> QED BY <2>2, <3>1, <1>4 DEF Values!Value, TextOf
  <2>3. CASE o \in Raw
    <3>1. As(o) = o /\ o \notin scope \cup held /\ o \notin Desc
      BY <2>3, <1>3, <1>4, NameAssumption DEF As
    <3> QED BY <2>3, <3>1 DEF Values!Value, TextOf
  <2>4. CASE o = NullDesc
    <3>1. As(o) = NullPtr /\ Values!Value(NullPtr) = << >>
      BY <2>4, <1>2 DEF As, Values!Value, Values!Empty
    <3>2. o \in Desc BY <2>4, Constants
    <3>3. TextOf(rt, o) = Contents(rt, o) BY <3>2, NameAssumption DEF TextOf
    <3> QED BY <2>4, <3>1, <3>2, <3>3, <1>3, IdleText
  <2>5. CASE o = NullPtr
    <3>1. As(o) = NullPtr /\ Values!Value(NullPtr) = << >>
      BY <2>5, <1>2 DEF As, Values!Value, Values!Empty
    <3> QED BY <2>5, <3>1, NameAssumption DEF TextOf
  <2> QED BY <2>1, <2>2, <2>3, <2>4, <2>5 DEF Operands
<1>7. {As(o)} \cap Temps = {o} \cap Temps /\ (As(o) \in held <=> o \in held)
  BY <1>2, <1>3 DEF As
<1> QED BY <1>5, <1>6, <1>7

(* A call that changes no variable. *)
LEMMA ValSame ==
  ASSUME NEW D, NEW G, OnlyChanges(rt, rt', D, G), (D \cup G) \cap Var = {}
  PROVE  [v \in Var |-> Contents(rt, v)]' = [v \in Var |-> Contents(rt, v)]
<1>1. \A v \in Var : Contents(rt', v) = Contents(rt, v)
  BY TextAfter DEF Desc
<1> QED BY <1>1

(* A call that changes one variable. *)
LEMMA ValSet ==
  ASSUME NEW D, NEW G, OnlyChanges(rt, rt', D, G), NEW v \in Var,
         (D \cup G) \cap Var \subseteq {v}
  PROVE  Values!Set(v, Contents(rt', v))
<1>1. \A w \in Var : w # v => Contents(rt', w) = Contents(rt, w)
  BY TextAfter DEF Desc
<1> QED BY <1>1 DEF Values!Set

(* The temps that a call takes are gone, and the others stay. *)
LEMMA Taken ==
  ASSUME IInv, NEW D, NEW G, OnlyChanges(rt, rt', D, G), NEW used,
         held' = held \ used, D \cap Temps = {},
         G \cap Temps = used \cap held
  PROVE  Values!Take(used)
<1>1. \A t \in Temps : Contents(rt', t) =
                         IF t \in used THEN << >> ELSE Contents(rt, t)
  <2> SUFFICES ASSUME NEW t \in Temps
               PROVE  Contents(rt', t) =
                         IF t \in used THEN << >> ELSE Contents(rt, t)
    OBVIOUS
  <2>1. t \in Desc /\ t \notin D BY DEF Temps, Desc
  <2>2. Contents(rt', t) = IF t \in G THEN << >> ELSE Contents(rt, t)
    BY <2>1, TextAfter
  <2>3. CASE t \in held BY <2>2, <2>3
  <2>4. CASE t \notin held
    <3>1. t \notin scope BY NamesSound DEF IInv
    <3>2. Contents(rt, t) = << >> BY <2>1, <2>4, <3>1, IdleText
    <3> QED BY <2>2, <2>4, <3>2
  <2> QED BY <2>3, <2>4
<1> QED BY <1>1 DEF Values!Take, Values!Empty

(* A call takes its operands and hands back a text. *)
LEMMA Given ==
  ASSUME IInv, NEW used, NEW gone, NEW txt, Gives(used, gone, txt),
         gone \cap Temps = used \cap held
  PROVE  Values!TakeAndGive(used, txt)
<1>1. CASE held' = held \ used /\ OnlyChanges(rt, rt', {}, gone)
  BY <1>1, Taken DEF Values!TakeAndGive
<1>2. ASSUME NEW t \in Temps \ held, held' = (held \ used) \cup {t},
             OnlyChanges(rt, rt', {t}, gone), Reads(rt', t, txt)
      PROVE  Values!TakeAndGive(used, txt)
  <2>1. \A s \in Temps : Contents(rt', s) =
                           IF s = t THEN txt
                           ELSE IF s \in used THEN << >> ELSE Contents(rt, s)
    <3> SUFFICES ASSUME NEW s \in Temps, s # t
                 PROVE  Contents(rt', s) =
                          IF s \in used THEN << >> ELSE Contents(rt, s)
      BY <1>2 DEF Reads
    <3>1. s \in Desc /\ s \notin {t} BY DEF Temps, Desc
    <3>2. Contents(rt', s) = IF s \in gone THEN << >> ELSE Contents(rt, s)
      BY <1>2, <3>1, TextAfter
    <3>3. CASE s \in held BY <3>2, <3>3
    <3>4. CASE s \notin held
      <4>1. s \notin scope BY NamesSound DEF IInv
      <4>2. Contents(rt, s) = << >> BY <3>1, <3>4, <4>1, IdleText
      <4> QED BY <3>2, <3>4, <4>2
    <3> QED BY <3>3, <3>4
  <2> QED BY <1>2, <2>1 DEF Values!TakeAndGive, Values!Empty
<1> QED BY <1>1, <1>2 DEF Gives

(* Variables are neither temps nor in flight. *)
LEMMA VarsApart ==
  ASSUME IInv
  PROVE  /\ held \subseteq Temps /\ Temps \subseteq Desc /\ Var \subseteq Desc
         /\ Var \cap Temps = {} /\ Var \cap held = {}
         /\ \A o \in held : {o} \cap Var = {}
BY NamesSound DEF IInv, Temps, Desc

(* An assignment is a Store of UStrValues. *)
LEMMA StoreRefines ==
  ASSUME IInv, NEW v \in Var, NEW src \in Operands, Stores(v, src),
         held' = held \ {src}
  PROVE  Values!Store(v, As(src))
<1> DEFINE used == {As(src)}
           G == {src} \cap held
<1>1. OnlyChanges(rt, rt', {v}, G) /\ Stored(rt, rt', v, src, held)
  BY DEF Stores
<1>2. /\ Values!Value(As(src)) = TextOf(rt, src)
      /\ used \cap Temps = {src} \cap Temps
      /\ As(src) \in held <=> src \in held
  BY OperandValue
<1>3. ({v} \cup G) \cap Var \subseteq {v} /\ {v} \cap Temps = {}
  BY VarsApart
<1>4. G \cap Temps = used \cap held BY <1>2, VarsApart
<1>5. held' = held \ used BY <1>2, VarsApart
<1> HIDE DEF used, G
<1>6. Values!Take(used) BY <1>1, <1>3, <1>4, <1>5, Taken
<1>7. Values!Set(v, Contents(rt', v)) BY <1>1, <1>3, ValSet
<1>8. \/ Contents(rt', v) = Values!Value(As(src))
      \/ As(src) \notin held /\ Contents(rt', v) = Values!Empty
  BY <1>1, <1>2 DEF Stored, Reads, Values!Empty
<1> QED BY <1>6, <1>7, <1>8 DEF Values!Store, used

(* DIM, with an initializer and without: *)
LEMMA DimInitRefines ==
  ASSUME IInv, NEW v \in Var, NEW src, NEW got, DimInit(v, src, got)
  PROVE  Values!Next
<1>1. /\ v \notin scope /\ src \in Operands
      /\ scope' = scope \cup {v} /\ held' = held \ {src}
  BY DEF DimInit
<1>2. Values!Store(v, As(src)) BY <1>1, DimInitStep, StoreRefines
<1>3. As(src) \in Values!Operand BY <1>1, OperandValue
<1> QED BY <1>1, <1>2, <1>3 DEF Values!Next, Values!EnterWith

LEMMA DimRefines ==
  ASSUME IInv, NEW v \in Var, Dim(v)
  PROVE  Values!Next
<1>1. /\ v \notin scope /\ scope' = scope \cup {v} /\ held' = held /\ rt' = rt
  BY DimStep DEF Dim
<1> QED BY <1>1 DEF Values!Next, Values!Enter

(* Assignment: *)
LEMMA AssignRefines ==
  ASSUME IInv, NEW v \in Var, NEW src, NEW got, Assign(v, src, got)
  PROVE  Values!Next
<1>1. v \in scope /\ src \in Operands /\ scope' = scope /\ held' = held \ {src}
  BY DEF Assign
<1>2. Values!Store(v, As(src)) BY <1>1, AssignStep, StoreRefines
<1>3. As(src) \in Values!Operand BY <1>1, OperandValue
<1> QED BY <1>1, <1>2, <1>3 DEF Values!Next, Values!Assign

(* Append in place: *)
LEMMA ExtendRefines ==
  ASSUME IInv, NEW v \in Var, NEW src, NEW got, NEW moved \in BOOLEAN,
         Extend(v, src, got, moved)
  PROVE  Values!Next
<1> DEFINE used == {As(src)}
           G == {src} \cap held
<1>1. v \in scope /\ src \in Operands /\ scope' = scope /\ held' = held \ {src}
  BY DEF Extend
<1>2. /\ OnlyChanges(rt, rt', {v}, G)
      /\ Contents(rt', v) \in
           {Contents(rt, v) \o TextOf(rt, src), Contents(rt, v)}
  BY ExtendStep
<1>3. /\ Values!Value(As(src)) = TextOf(rt, src) /\ As(src) \in Values!Operand
      /\ used \cap Temps = {src} \cap Temps
      /\ As(src) \in held <=> src \in held
  BY <1>1, OperandValue
<1>4. ({v} \cup G) \cap Var \subseteq {v} /\ {v} \cap Temps = {}
  BY VarsApart
<1>5. G \cap Temps = used \cap held BY <1>3, VarsApart
<1>6. held' = held \ used BY <1>1, <1>3, VarsApart
<1> HIDE DEF used, G
<1>7. Values!Take(used) BY <1>2, <1>4, <1>5, <1>6, Taken
<1>8. Values!Set(v, Contents(rt', v)) BY <1>2, <1>4, ValSet
<1>9. \/ Values!Set(v, Contents(rt, v) \o Values!Value(As(src)))
      \/ Values!Set(v, Contents(rt, v))
  BY <1>2, <1>3, <1>8
<1>10. CASE Values!Set(v, Contents(rt, v) \o Values!Value(As(src)))
  <2>1. [w \in Var |-> Contents(rt, w)][v] = Contents(rt, v) OBVIOUS
  <2> QED
    BY <1>1, <1>3, <1>7, <1>10, <2>1 DEF Values!Next, Values!Extend, used
<1>11. CASE Values!Set(v, Contents(rt, v))
  <2>1. [w \in Var |-> Contents(rt, w)]' = [w \in Var |-> Contents(rt, w)]
    BY <1>11 DEF Values!Set
  <2> QED
    BY <1>1, <1>3, <1>7, <2>1 DEF Values!Next, Values!Extend, used
<1> QED BY <1>9, <1>10, <1>11

(* SWAP: *)
LEMMA SwapRefines ==
  ASSUME IInv, NEW v \in Var, NEW w \in Var, SwapVars(v, w)
  PROVE  Values!Next
<1>1. v \in scope /\ w \in scope /\ scope' = scope /\ held' = held
  BY DEF SwapVars
<1>2. /\ Keeps(rt, rt', Desc \ {v, w})
      /\ Contents(rt', v) = Contents(rt, w) /\ Contents(rt', w) = Contents(rt, v)
  BY SwapVarsStep DEF Reads
<1>3. \A d \in Desc \ {v, w} : Contents(rt', d) = Contents(rt, d)
  BY <1>2, KeptText
<1>4. \A t \in Temps : Contents(rt', t) = Contents(rt, t)
  BY <1>3, VarsApart
<1>5. \A x \in Var : Contents(rt', x) = IF x = v THEN Contents(rt, w)
                                        ELSE IF x = w THEN Contents(rt, v)
                                        ELSE Contents(rt, x)
  BY <1>2, <1>3, VarsApart
<1>6. [t \in Temps |-> Contents(rt, t)]' = [t \in Temps |-> Contents(rt, t)]
  BY <1>4
<1>7. [x \in Var |-> Contents(rt, x)]' =
        [[x \in Var |-> Contents(rt, x)] EXCEPT
           ![v] = [x \in Var |-> Contents(rt, x)][w],
           ![w] = [x \in Var |-> Contents(rt, x)][v]]
  BY <1>5
<1> QED BY <1>1, <1>6, <1>7 DEF Values!Next, Values!SwapVars

(* Scope exit: *)
LEMMA LeaveRefines ==
  ASSUME IInv, NEW v \in Var, LeaveScope(v)
  PROVE  Values!Next
<1>1. v \in scope /\ scope' = scope \ {v} /\ held' = held
  BY DEF LeaveScope
<1>2. OnlyChanges(rt, rt', {}, {v}) BY LeaveScopeStep
<1>3. Contents(rt', v) = << >> BY <1>2, ZeroText DEF OnlyChanges
<1>4. Values!Set(v, Contents(rt', v)) BY <1>2, ValSet
<1>5. \A t \in Temps : Contents(rt', t) = Contents(rt, t)
  BY <1>2, TextAfter, VarsApart
<1>6. [t \in Temps |-> Contents(rt, t)]' = [t \in Temps |-> Contents(rt, t)]
  BY <1>5
<1> QED
  BY <1>1, <1>3, <1>4, <1>6 DEF Values!Next, Values!Leave, Values!Empty

(* The end of a FUNCTION: *)
LEMMA ReturnRefines ==
  ASSUME IInv, NEW v \in Var, Return(v)
  PROVE  Values!Next
<1>1. v \in scope /\ scope' = scope \ {v} BY DEF Return
<1>2. Gives({}, {v}, Contents(rt, v)) BY ReturnStep
<1>3. {v} \cap Temps = {} \cap held BY VarsApart
<1>4. Values!TakeAndGive({}, Contents(rt, v)) BY <1>2, <1>3, Given
<1>5. PICK D : D \subseteq Temps /\ OnlyChanges(rt, rt', D, {v})
  BY <1>2 DEF Gives
<1>6. (D \cup {v}) \cap Var \subseteq {v} BY <1>5, VarsApart
<1>7. Contents(rt', v) = << >> BY <1>5, ZeroText DEF OnlyChanges
<1>8. Values!Set(v, Contents(rt', v)) BY <1>5, <1>6, ValSet
<1>9. [w \in Var |-> Contents(rt, w)][v] = Contents(rt, v) OBVIOUS
<1> QED
  BY <1>1, <1>4, <1>7, <1>8, <1>9 DEF Values!Next, Values!Return, Values!Empty

(* A call in an expression changes no variable. *)
LEMMA GivesNoVar ==
  ASSUME IInv, NEW used, NEW txt, Gives(used, used \cap held, txt)
  PROVE  [v \in Var |-> Contents(rt, v)]' = [v \in Var |-> Contents(rt, v)]
<1> DEFINE G == used \cap held
<1>1. PICK D : D \subseteq Temps /\ OnlyChanges(rt, rt', D, G)
  BY DEF Gives
<1>2. (D \cup G) \cap Var = {} BY <1>1, VarsApart
<1> HIDE DEF G
<1> QED BY <1>1, <1>2, ValSame

(* A call with one operand that hands back a text. *)
LEMMA GivenOne ==
  ASSUME IInv, NEW src \in Operands, NEW txt, Gives({src}, {src} \cap held, txt)
  PROVE  /\ Values!TakeAndGive({As(src)}, txt)
         /\ [v \in Var |-> Contents(rt, v)]' = [v \in Var |-> Contents(rt, v)]
<1> DEFINE used == {As(src)}
           G == {src} \cap held
<1>1. used \cap Temps = {src} \cap Temps /\ (As(src) \in held <=> src \in held)
  BY OperandValue
<1>2. Gives(used, G, txt)
  <2>1. held \ {src} = held \ used BY <1>1, VarsApart
  <2> QED BY <2>1 DEF Gives
<1>3. G \cap Temps = used \cap held BY <1>1, VarsApart
<1>4. [v \in Var |-> Contents(rt, v)]' = [v \in Var |-> Contents(rt, v)]
  BY GivesNoVar
<1> HIDE DEF used, G
<1>5. Values!TakeAndGive(used, txt) BY <1>2, <1>3, Given
<1> QED BY <1>4, <1>5 DEF used

(* A concatenation: *)
LEMMA ConcatRefines ==
  ASSUME IInv, NEW t \in Tmp, NEW a, NEW b, NEW got, ConcatInto(t, a, b, got)
  PROVE  Values!Next
<1> DEFINE used == {As(a), As(b)}
           G == {a, b} \cap held
           txt == TextOf(rt, a) \o TextOf(rt, b)
<1>1. a \in Operands /\ b \in Operands /\ scope' = scope
  BY DEF ConcatInto, Pair
<1>2. Gives({a, b}, G, txt) BY ConcatIntoStep
<1>3. /\ As(a) \in Values!Operand /\ Values!Value(As(a)) = TextOf(rt, a)
      /\ {As(a)} \cap Temps = {a} \cap Temps /\ (As(a) \in held <=> a \in held)
  BY <1>1, OperandValue
<1>4. /\ As(b) \in Values!Operand /\ Values!Value(As(b)) = TextOf(rt, b)
      /\ {As(b)} \cap Temps = {b} \cap Temps /\ (As(b) \in held <=> b \in held)
  BY <1>1, OperandValue
<1>5. used \cap Temps = {a, b} \cap Temps BY <1>3, <1>4
<1>6. Gives(used, G, txt)
  <2>1. held \ {a, b} = held \ used BY <1>5, VarsApart
  <2> QED BY <1>2, <2>1 DEF Gives
<1>7. G \cap Temps = used \cap held BY <1>5, VarsApart
<1>8. [v \in Var |-> Contents(rt, v)]' = [v \in Var |-> Contents(rt, v)]
  BY <1>2, GivesNoVar
<1> HIDE DEF used, G, txt
<1>9. Values!TakeAndGive(used, txt) BY <1>6, <1>7, Given
<1>10. Values!Join(As(a), As(b)) BY <1>3, <1>4, <1>9 DEF Values!Join, used, txt
<1> QED
  BY <1>1, <1>3, <1>4, <1>8, <1>10 DEF Values!Next, Values!Expression

(* LEFT, RIGHT, MID, TRIM: *)
LEMMA SliceRefines ==
  ASSUME IInv, NEW src, NEW first \in Nat, NEW last \in Nat, NEW got,
         Slice(src, first, last, got)
  PROVE  Values!Next
<1> DEFINE old == TextOf(rt, src)
           txt == SubSeq(old, first, last)
<1>1. src \in Operands /\ scope' = scope BY DEF Slice, Give
<1>2. Gives({src}, {src} \cap held, txt) BY SliceStep
<1>3. /\ As(src) \in Values!Operand /\ Values!Value(As(src)) = old
  BY <1>1, OperandValue
<1>4. old \in Seq(Char) /\ Len(old) = LenOf(rt, src) BY <1>1, OperandUnits
<1>5. txt \in Values!Fragments(old)
  <2> HIDE DEF old
  <2>1. CASE first \in 1 .. LenOf(rt, src) /\ last \in first .. LenOf(rt, src)
    <3>1. first \in 1 .. Len(old) /\ last \in 1 .. Len(old) BY <2>1, <1>4
    <3> QED BY <3>1 DEF Values!Fragments
  <2>2. CASE first = 1 /\ last = 0
    <3>1. SubSeq(old, 1, 0) = << >> BY <1>4
    <3> QED BY <2>2, <3>1 DEF Values!Fragments, Values!Empty
  <2> QED BY <2>1, <2>2 DEF Slice
<1> HIDE DEF txt, old
<1>6. /\ Values!TakeAndGive({As(src)}, txt)
      /\ [v \in Var |-> Contents(rt, v)]' = [v \in Var |-> Contents(rt, v)]
  BY <1>1, <1>2, GivenOne
<1>7. Values!Cut(As(src)) BY <1>3, <1>5, <1>6 DEF Values!Cut
<1> QED BY <1>1, <1>3, <1>6, <1>7 DEF Values!Next, Values!Expression

(* UCASE, LCASE: *)
LEMMA RecaseRefines ==
  ASSUME IInv, NEW src, NEW table \in Cases, NEW got, Recase(src, table, got)
  PROVE  Values!Next
<1> DEFINE txt == [i \in DOMAIN TextOf(rt, src) |-> table[TextOf(rt, src)[i]]]
<1>1. src \in Operands /\ scope' = scope BY DEF Recase, Give
<1>2. Gives({src}, {src} \cap held, txt) BY RecaseStep
<1>3. As(src) \in Values!Operand /\ Values!Value(As(src)) = TextOf(rt, src)
  BY <1>1, OperandValue
<1> HIDE DEF txt
<1>4. /\ Values!TakeAndGive({As(src)}, txt)
      /\ [v \in Var |-> Contents(rt, v)]' = [v \in Var |-> Contents(rt, v)]
  BY <1>1, <1>2, GivenOne
<1>5. Values!Recase(As(src)) BY <1>3, <1>4 DEF Values!Recase, txt
<1> QED BY <1>1, <1>3, <1>4, <1>5 DEF Values!Next, Values!Expression

(* SPACE, STRING; a count past MaxUnits leaves nothing: *)
LEMMA FillRefines ==
  ASSUME IInv, NEW src, NEW n \in Nat, NEW got, Fill(src, n, got)
  PROVE  Values!Next
<1> DEFINE old  == TextOf(rt, src)
           unit == IF old = << >> THEN Space ELSE old[1]
           G == {src} \cap held
<1>1. src \in Operands /\ scope' = scope BY DEF Fill, Give
<1>2. Gives({src}, G, Filled(src, n)) /\ IInv' BY FillStep
<1>3. As(src) \in Values!Operand /\ Values!Value(As(src)) = old
  BY <1>1, OperandValue
<1>4. old \in Seq(Char) /\ Len(old) = LenOf(rt, src) BY <1>1, OperandUnits
<1>5. Filled(src, n) = [i \in 1 .. n |-> unit]
  <2>1. LenOf(rt, src) > 0 <=> old # << >>
    <3> HIDE DEF old
    <3> QED BY <1>4
  <2> QED BY <2>1 DEF Filled
<1> HIDE DEF old, G
<1>6. /\ Values!TakeAndGive({As(src)}, Filled(src, n))
      /\ [v \in Var |-> Contents(rt, v)]' = [v \in Var |-> Contents(rt, v)]
  BY <1>1, <1>2, GivenOne DEF G
<1>7. CASE n \in 0 .. MaxUnits
  <2>1. Values!Repeat(As(src))
    BY <1>3, <1>5, <1>6, <1>7 DEF Values!Repeat, Values!Empty, unit
  <2> QED BY <2>1, <1>1, <1>3, <1>6 DEF Values!Next, Values!Expression
<1>8. CASE n \notin 0 .. MaxUnits
  <2>1. ASSUME NEW t \in Temps, Reads(rt', t, Filled(src, n)) PROVE FALSE
    <3>1. Contents(rt', t) = Filled(src, n) /\ Len(Filled(src, n)) = n
      BY <2>1, <1>5 DEF Reads
    <3>2. t \in Desc BY DEF Temps, Desc
    <3>3. Bound(rt', lost') /\ Written(rt', Desc)
      BY <1>2 DEF IInv, Intact, Owned
    <3>4. Len(Contents(rt', t)) <= MaxUnits
      BY <3>2, <3>3, SizeAssumption DEF Bound, Written, Contents
    <3> QED BY <1>8, <3>1, <3>4, SizeAssumption
  <2>2. held' = held \ {src} /\ OnlyChanges(rt, rt', {}, G)
    BY <1>2, <2>1 DEF Gives
  <2>3. Gives({src}, G, [i \in 1 .. 0 |-> unit]) BY <2>2 DEF Gives
  <2> HIDE DEF unit
  <2>4. Values!TakeAndGive({As(src)}, [i \in 1 .. 0 |-> unit])
    BY <1>1, <2>3, GivenOne DEF G
  <2>5. 0 \in 0 .. MaxUnits BY SizeAssumption
  <2>6. Values!Repeat(As(src))
    BY <1>3, <2>4, <2>5 DEF Values!Repeat, Values!Empty, unit
  <2> QED BY <2>6, <1>1, <1>3, <1>6 DEF Values!Next, Values!Expression
<1> QED BY <1>7, <1>8

(* A narrow operand: *)
LEMMA DecodeRefines ==
  ASSUME IInv, NEW src, NEW got, Decode(src, got)
  PROVE  Values!Next
<1>1. src \in Raw /\ src \in Operands /\ scope' = scope
  BY DEF Decode, Operands
<1>2. Gives({src}, {src} \cap held, RawText[src]) BY DecodeStep
<1>3. As(src) \in Values!Operand /\ Values!Value(As(src)) = TextOf(rt, src)
  BY <1>1, OperandValue
<1>4. TextOf(rt, src) = RawText[src] /\ RawText[src] \in Seq(Unit)
  BY <1>1, RawAssumption, NameAssumption DEF TextOf
<1>5. /\ Values!TakeAndGive({As(src)}, RawText[src])
      /\ [v \in Var |-> Contents(rt, v)]' = [v \in Var |-> Contents(rt, v)]
  BY <1>1, <1>2, GivenOne
<1>6. RawText[src] \in Values!Fragments(RawText[src])
  <2> DEFINE txt == RawText[src]
  <2>1. txt \in Seq(Unit) BY <1>4
  <2> HIDE DEF txt
  <2>2. ASSUME txt = << >> PROVE txt \in Values!Fragments(txt)
    BY <2>2 DEF Values!Fragments, Values!Empty
  <2>3. ASSUME txt # << >> PROVE txt \in Values!Fragments(txt)
    <3>1. SubSeq(txt, 1, Len(txt)) = txt BY <2>1
    <3>2. 1 \in 1 .. Len(txt) /\ Len(txt) \in 1 .. Len(txt) BY <2>1, <2>3
    <3> QED BY <3>1, <3>2 DEF Values!Fragments
  <2>4. txt \in Values!Fragments(txt) BY <2>2, <2>3
  <2> QED BY <2>4 DEF txt
<1>7. Values!Cut(As(src)) BY <1>3, <1>4, <1>5, <1>6 DEF Values!Cut
<1> QED BY <1>1, <1>3, <1>5, <1>7 DEF Values!Next, Values!Expression

(* LEN, ASC, a comparison, a discarded result: operands are read and released. *)
LEMMA ReadRefines ==
  ASSUME IInv, NEW a \in Operands, NEW b \in Operands,
         OnlyChanges(rt, rt', {}, {a, b} \cap held), held' = held \ {a, b},
         scope' = scope
  PROVE  Values!Next
<1> DEFINE used == {As(a), As(b)}
           G == {a, b} \cap held
<1>1. /\ As(a) \in Values!Operand /\ As(b) \in Values!Operand
      /\ {As(a)} \cap Temps = {a} \cap Temps /\ {As(b)} \cap Temps = {b} \cap Temps
  BY OperandValue
<1>2. used \cap Temps = {a, b} \cap Temps BY <1>1
<1>3. G \cap Temps = used \cap held /\ held' = held \ used
  BY <1>2, VarsApart
<1>4. ({} \cup G) \cap Var = {} BY VarsApart
<1>5. {} \cap Temps = {} OBVIOUS
<1> HIDE DEF used, G
<1>6. OnlyChanges(rt, rt', {}, G) BY DEF G
<1>7. [v \in Var |-> Contents(rt, v)]' = [v \in Var |-> Contents(rt, v)]
  BY <1>4, <1>6, ValSame
<1>8. Values!Take(used) BY <1>3, <1>5, <1>6, Taken
<1>9. Values!Read(As(a), As(b)) BY <1>8 DEF Values!Read, used
<1> QED BY <1>1, <1>7, <1>9 DEF Values!Next, Values!Expression

LEMMA ConsumeRefines ==
  ASSUME IInv, NEW src, Consume(src)
  PROVE  Values!Next
<1>1. src \in Operands /\ held' = held \ {src} /\ scope' = scope
  BY DEF Consume
<1>2. {src} = {src, src} OBVIOUS
<1>3. OnlyChanges(rt, rt', {}, {src, src} \cap held) BY <1>2, ConsumeStep
<1>4. held' = held \ {src, src} BY <1>1
<1> QED BY <1>1, <1>3, <1>4, ReadRefines

LEMMA ConsumeTwoRefines ==
  ASSUME IInv, NEW a, NEW b, ConsumeTwo(a, b)
  PROVE  Values!Next
<1>1. a \in Operands /\ b \in Operands /\ held' = held \ {a, b} /\ scope' = scope
  BY DEF ConsumeTwo, Pair
<1>2. OnlyChanges(rt, rt', {}, {a, b} \cap held) BY ConsumeTwoStep
<1> QED BY <1>1, <1>2, ReadRefines

(* Every step of the program is a step of UStrValues, or changes nothing   *)
(* that can be read.                                                       *)
LEMMA StepRefines == IInv /\ [Next]_vars => [Values!Next]_(Values!vars)
<1> SUFFICES ASSUME IInv, [Next]_vars PROVE [Values!Next]_(Values!vars)
  OBVIOUS
<1>1. ASSUME NEW v \in Var, Dim(v) \/ LeaveScope(v) \/ Return(v)
      PROVE  Values!Next
  BY <1>1, DimRefines, LeaveRefines, ReturnRefines
<1>2. ASSUME NEW v \in Var, NEW src, NEW got,
             DimInit(v, src, got) \/ Assign(v, src, got)
      PROVE  Values!Next
  BY <1>2, DimInitRefines, AssignRefines
<1>3. ASSUME NEW v \in Var, NEW src, NEW got, NEW moved \in BOOLEAN,
             Extend(v, src, got, moved)
      PROVE  Values!Next
  BY <1>3, ExtendRefines
<1>4. ASSUME NEW v \in Var, NEW w \in Var, SwapVars(v, w)
      PROVE  Values!Next
  BY <1>4, SwapRefines
<1>5. ASSUME NEW t \in Tmp, NEW a, NEW b, NEW got, ConcatInto(t, a, b, got)
      PROVE  Values!Next
  BY <1>5, ConcatRefines
<1>6. ASSUME NEW src, NEW first \in 0 .. MaxUnits, NEW last \in 0 .. MaxUnits,
             NEW got, Slice(src, first, last, got)
      PROVE  Values!Next
  <2>1. first \in Nat /\ last \in Nat BY SizeAssumption
  <2> QED BY <1>6, <2>1, SliceRefines
<1>7. ASSUME NEW src, NEW got, Decode(src, got) PROVE Values!Next
  BY <1>7, DecodeRefines
<1>8. ASSUME NEW src, Consume(src) PROVE Values!Next
  BY <1>8, ConsumeRefines
<1>9. ASSUME NEW a, NEW b, ConsumeTwo(a, b) PROVE Values!Next
  BY <1>9, ConsumeTwoRefines
<1>10. ASSUME NEW src, NEW table \in Cases, NEW got, Recase(src, table, got)
       PROVE  Values!Next
  BY <1>10, RecaseRefines
<1>11. ASSUME NEW src, NEW n \in 0 .. MaxUnits + 1, NEW got, Fill(src, n, got)
       PROVE  Values!Next
  <2>1. n \in Nat BY SizeAssumption
  <2> QED BY <1>11, <2>1, FillRefines
<1>12. CASE UNCHANGED vars
  BY <1>12 DEF vars, Values!vars, Contents, Data
<1> QED
  BY <1>1, <1>2, <1>3, <1>4, <1>5, <1>6, <1>7, <1>8, <1>9, <1>10, <1>11, <1>12
     DEF Next

(* ustr_core.c's buffers, stolen, shared out and reused, implement texts   *)
(* that each variable and temp holds by itself: no call changes a variable *)
(* it does not name, or reads a text other than its operands'.             *)
THEOREM Refinement == Spec => ValueSemantics
<1>1. Init => Values!Init
  <2> SUFFICES ASSUME Init PROVE Values!Init OBVIOUS
  <2>1. IInv BY InitSound
  <2>2. scope = {} /\ held = {} BY DEF Init
  <2>3. \A d \in Desc : Contents(rt, d) = << >> BY <2>1, <2>2, IdleText
  <2> QED BY <2>1, <2>2, <2>3, VarsApart DEF Values!Init, Values!Empty
<1> QED BY <1>1, StepRefines, Invariance, PTL
        DEF Spec, ValueSemantics, Values!Spec

-----------------------------------------------------------------------------
(* No unit of freed memory is ever read: it follows from value semantics,  *)
(* whose texts are made of the units of other texts.                       *)

AllUnits ==
  /\ \A v \in Var : Contents(rt, v) \in Seq(Unit)
  /\ \A t \in Temps : Contents(rt, t) \in Seq(Unit)

(* What an operand reads as is made of units. *)
LEMMA ValueUnits ==
  ASSUME AllUnits, IInv, NEW o
  PROVE  Values!Value(o) \in Seq(Unit)
<1>1. scope \subseteq Var /\ held \subseteq Temps BY DEF IInv
<1>2. CASE o \in scope
  <2>1. o \notin held /\ o \notin Raw
    BY <1>1, <1>2, NamesSound, NameAssumption DEF Desc
  <2>2. Values!Value(o) = Contents(rt, o)
    BY <1>1, <1>2, <2>1 DEF Values!Value
  <2> QED BY <1>1, <1>2, <2>2 DEF AllUnits
<1>3. CASE o \in held
  <2>1. o \notin scope /\ o \notin Raw
    BY <1>1, <1>3, NamesSound, NameAssumption DEF Desc, Temps
  <2>2. Values!Value(o) = Contents(rt, o)
    BY <1>1, <1>3, <2>1 DEF Values!Value
  <2> QED BY <1>1, <1>3, <2>2 DEF AllUnits
<1>4. CASE o \in Raw /\ o \notin scope \cup held
  BY <1>4, RawAssumption DEF Values!Value
<1>5. CASE o \notin Raw /\ o \notin scope \cup held
  BY <1>5 DEF Values!Value, Values!Empty
<1> QED BY <1>2, <1>3, <1>4, <1>5

(* The parts of a step that set a variable and that make or take a temp. *)
LEMMA SetUnits ==
  ASSUME AllUnits, NEW v \in Var, NEW txt \in Seq(Unit), Values!Set(v, txt)
  PROVE  \A w \in Var : Contents(rt', w) \in Seq(Unit)
<1>1. \A w \in Var : Contents(rt', w) = IF w = v THEN txt ELSE Contents(rt, w)
  BY DEF Values!Set
<1> QED BY <1>1 DEF AllUnits

LEMMA TakeUnits ==
  ASSUME AllUnits, NEW used, Values!Take(used)
  PROVE  \A t \in Temps : Contents(rt', t) \in Seq(Unit)
<1>1. \A t \in Temps : Contents(rt', t) =
                         IF t \in used THEN << >> ELSE Contents(rt, t)
  BY DEF Values!Take, Values!Empty
<1>2. << >> \in Seq(Unit) /\ \A t \in Temps : Contents(rt, t) \in Seq(Unit)
  BY DEF AllUnits
<1> QED BY <1>1, <1>2

LEMMA TakeAndGiveUnits ==
  ASSUME AllUnits, NEW used, NEW txt \in Seq(Unit),
         Values!TakeAndGive(used, txt)
  PROVE  \A t \in Temps : Contents(rt', t) \in Seq(Unit)
<1>1. CASE Values!Take(used) BY <1>1, TakeUnits
<1>2. ASSUME NEW t \in Temps,
             [s \in Temps |-> Contents(rt, s)]' =
               [s \in Temps |-> IF s = t THEN txt
                                ELSE IF s \in used THEN << >>
                                     ELSE [x \in Temps |-> Contents(rt, x)][s]]
      PROVE  \A s \in Temps : Contents(rt', s) \in Seq(Unit)
  <2>1. \A s \in Temps : Contents(rt', s) =
                           IF s = t THEN txt
                           ELSE IF s \in used THEN << >> ELSE Contents(rt, s)
    BY <1>2
  <2>2. << >> \in Seq(Unit) /\ \A s \in Temps : Contents(rt, s) \in Seq(Unit)
    BY DEF AllUnits
  <2> QED BY <2>1, <2>2
<1> QED BY <1>1, <1>2 DEF Values!TakeAndGive, Values!Empty

(* What a call in an expression hands back is made of units. *)
LEMMA ExpressionUnits ==
  ASSUME AllUnits, IInv, Values!Expression
  PROVE  AllUnits'
<1>1. [v \in Var |-> Contents(rt, v)]' = [v \in Var |-> Contents(rt, v)]
  BY DEF Values!Expression
<1>2. \A v \in Var : Contents(rt', v) = Contents(rt, v) BY <1>1
<1>3. ASSUME NEW a, NEW b, Values!Read(a, b)
      PROVE  \A t \in Temps : Contents(rt', t) \in Seq(Unit)
  BY <1>3, TakeUnits DEF Values!Read
<1>4. ASSUME NEW a, NEW b, Values!Join(a, b)
      PROVE  \A t \in Temps : Contents(rt', t) \in Seq(Unit)
  <2>1. Values!Value(a) \in Seq(Unit) /\ Values!Value(b) \in Seq(Unit)
    BY ValueUnits
  <2>2. Values!Value(a) \o Values!Value(b) \in Seq(Unit) BY <2>1
  <2> QED BY <1>4, <2>2, TakeAndGiveUnits DEF Values!Join
<1>5. ASSUME NEW src, Values!Cut(src)
      PROVE  \A t \in Temps : Contents(rt', t) \in Seq(Unit)
  <2>1. PICK txt \in Values!Fragments(Values!Value(src)) :
          Values!TakeAndGive({src}, txt)
    BY <1>5 DEF Values!Cut
  <2> DEFINE old == Values!Value(src)
  <2>2. old \in Seq(Unit) BY ValueUnits
  <2> HIDE DEF old
  <2>3. ASSUME NEW i \in 1 .. Len(old), NEW j \in 1 .. Len(old)
        PROVE  SubSeq(old, i, j) \in Seq(Unit)
    BY <2>2
  <2>4. << >> \in Seq(Unit) OBVIOUS
  <2>5. txt \in Seq(Unit)
    <3>1. txt \in {SubSeq(old, i, j) : i, j \in 1 .. Len(old)} \cup {<< >>}
      BY <2>1 DEF Values!Fragments, Values!Empty, old
    <3>2. CASE txt = << >> BY <3>2, <2>4
    <3>3. CASE txt \in {SubSeq(old, i, j) : i, j \in 1 .. Len(old)}
      <4>1. PICK i \in 1 .. Len(old), j \in 1 .. Len(old) : txt = SubSeq(old, i, j)
        BY <3>3
      <4> QED BY <4>1, <2>3
    <3> QED BY <3>1, <3>2, <3>3
  <2> QED BY <2>1, <2>5, TakeAndGiveUnits
<1>6. ASSUME NEW src, Values!Recase(src)
      PROVE  \A t \in Temps : Contents(rt', t) \in Seq(Unit)
  <2> DEFINE old == Values!Value(src)
  <2>1. PICK table \in Cases :
          Values!TakeAndGive({src}, [i \in DOMAIN old |-> table[old[i]]])
    BY <1>6 DEF Values!Recase
  <2>2. old \in Seq(Unit) BY ValueUnits
  <2>3. \A u \in Unit : table[u] \in Unit BY UnitAssumption
  <2> HIDE DEF old
  <2>4. [i \in DOMAIN old |-> table[old[i]]] \in Seq(Unit) BY <2>2, <2>3
  <2> QED BY <2>1, <2>4, TakeAndGiveUnits
<1>7. ASSUME NEW src, Values!Repeat(src)
      PROVE  \A t \in Temps : Contents(rt', t) \in Seq(Unit)
  <2> DEFINE old  == Values!Value(src)
             unit == IF old = << >> THEN Space ELSE old[1]
  <2>1. PICK n \in 0 .. MaxUnits :
          Values!TakeAndGive({src}, [i \in 1 .. n |-> unit])
    BY <1>7 DEF Values!Repeat, Values!Empty
  <2>2. old \in Seq(Unit) BY ValueUnits
  <2> HIDE DEF old
  <2>3. unit \in Unit BY <2>2, UnitAssumption
  <2> HIDE DEF unit
  <2>4. n \in Nat BY SizeAssumption
  <2>5. [i \in 1 .. n |-> unit] \in Seq(Unit) BY <2>3, <2>4
  <2> QED BY <2>1, <2>5, TakeAndGiveUnits
<1>8. \A t \in Temps : Contents(rt', t) \in Seq(Unit)
  BY <1>3, <1>4, <1>5, <1>6, <1>7 DEF Values!Expression
<1> QED BY <1>2, <1>8 DEF AllUnits

(* What an assignment leaves is made of units. *)
LEMMA StoreUnits ==
  ASSUME AllUnits, IInv, NEW v \in Var, NEW src, Values!Store(v, src)
  PROVE  AllUnits'
<1>1. Values!Value(src) \in Seq(Unit) /\ Values!Empty \in Seq(Unit)
  BY ValueUnits DEF Values!Empty
<1>2. \A w \in Var : Contents(rt', w) \in Seq(Unit)
  BY <1>1, SetUnits DEF Values!Store
<1>3. \A t \in Temps : Contents(rt', t) \in Seq(Unit)
  BY TakeUnits DEF Values!Store
<1> QED BY <1>2, <1>3 DEF AllUnits

(* A step of UStrValues leaves every text made of units. *)
LEMMA NextUnits == AllUnits /\ IInv /\ [Values!Next]_(Values!vars) => AllUnits'
<1> SUFFICES ASSUME AllUnits, IInv, [Values!Next]_(Values!vars)
             PROVE  AllUnits'
  OBVIOUS
<1>1. ASSUME NEW v \in Var, Values!Enter(v) PROVE AllUnits'
  <2>1. /\ [w \in Var |-> Contents(rt, w)]' = [w \in Var |-> Contents(rt, w)]
        /\ [t \in Temps |-> Contents(rt, t)]' = [t \in Temps |-> Contents(rt, t)]
    BY <1>1 DEF Values!Enter
  <2>2. \A w \in Var : Contents(rt', w) = Contents(rt, w) BY <2>1
  <2>3. \A t \in Temps : Contents(rt', t) = Contents(rt, t) BY <2>1
  <2> QED BY <2>2, <2>3 DEF AllUnits
<1>2. ASSUME NEW v \in Var, Values!Leave(v) PROVE AllUnits'
  <2>1. /\ Values!Set(v, << >>) /\ << >> \in Seq(Unit)
        /\ [t \in Temps |-> Contents(rt, t)]' = [t \in Temps |-> Contents(rt, t)]
    BY <1>2 DEF Values!Leave, Values!Empty
  <2>2. \A w \in Var : Contents(rt', w) \in Seq(Unit) BY <2>1, SetUnits
  <2>3. \A t \in Temps : Contents(rt', t) = Contents(rt, t) BY <2>1
  <2> QED BY <2>2, <2>3 DEF AllUnits
<1>3. ASSUME NEW v \in Var, Values!Return(v) PROVE AllUnits'
  <2>1. [w \in Var |-> Contents(rt, w)][v] = Contents(rt, v) OBVIOUS
  <2>2. /\ Values!Set(v, << >>) /\ << >> \in Seq(Unit)
        /\ Values!TakeAndGive({}, Contents(rt, v))
        /\ Contents(rt, v) \in Seq(Unit)
    BY <1>3, <2>1 DEF Values!Return, Values!Empty, AllUnits
  <2>3. \A w \in Var : Contents(rt', w) \in Seq(Unit) BY <2>2, SetUnits
  <2>4. \A t \in Temps : Contents(rt', t) \in Seq(Unit)
    BY <2>2, TakeAndGiveUnits
  <2> QED BY <2>3, <2>4 DEF AllUnits
<1>4. ASSUME NEW v \in Var, NEW src,
             Values!EnterWith(v, src) \/ Values!Assign(v, src)
      PROVE  AllUnits'
  BY <1>4, StoreUnits DEF Values!EnterWith, Values!Assign
<1>5. ASSUME NEW v \in Var, NEW src, Values!Extend(v, src) PROVE AllUnits'
  <2>1. [w \in Var |-> Contents(rt, w)][v] = Contents(rt, v) OBVIOUS
  <2>2. Contents(rt, v) \in Seq(Unit) /\ Values!Value(src) \in Seq(Unit)
    BY ValueUnits DEF AllUnits
  <2>3. Contents(rt, v) \o Values!Value(src) \in Seq(Unit) BY <2>2
  <2>4. \A t \in Temps : Contents(rt', t) \in Seq(Unit)
    BY <1>5, TakeUnits DEF Values!Extend
  <2>5. CASE Values!Set(v, Contents(rt, v) \o Values!Value(src))
    <3>1. \A w \in Var : Contents(rt', w) \in Seq(Unit)
      BY <2>3, <2>5, SetUnits
    <3> QED BY <2>4, <3>1 DEF AllUnits
  <2>6. CASE [w \in Var |-> Contents(rt, w)]' = [w \in Var |-> Contents(rt, w)]
    <3>1. \A w \in Var : Contents(rt', w) = Contents(rt, w) BY <2>6
    <3> QED BY <2>4, <3>1 DEF AllUnits
  <2> QED BY <1>5, <2>1, <2>5, <2>6 DEF Values!Extend
<1>6. ASSUME NEW v \in Var, NEW w \in Var, Values!SwapVars(v, w)
      PROVE  AllUnits'
  <2>1. /\ [x \in Var |-> Contents(rt, x)]' =
             [[x \in Var |-> Contents(rt, x)] EXCEPT
                ![v] = [x \in Var |-> Contents(rt, x)][w],
                ![w] = [x \in Var |-> Contents(rt, x)][v]]
        /\ [t \in Temps |-> Contents(rt, t)]' = [t \in Temps |-> Contents(rt, t)]
    BY <1>6 DEF Values!SwapVars
  <2>2. \A x \in Var : Contents(rt', x) \in
                         {Contents(rt, x), Contents(rt, v), Contents(rt, w)}
    BY <2>1
  <2>3. \A t \in Temps : Contents(rt', t) = Contents(rt, t) BY <2>1
  <2> QED BY <2>2, <2>3 DEF AllUnits
<1>7. CASE UNCHANGED Values!vars
  <2>1. /\ [w \in Var |-> Contents(rt, w)]' = [w \in Var |-> Contents(rt, w)]
        /\ [t \in Temps |-> Contents(rt, t)]' = [t \in Temps |-> Contents(rt, t)]
    BY <1>7 DEF Values!vars
  <2>2. \A w \in Var : Contents(rt', w) = Contents(rt, w) BY <2>1
  <2>3. \A t \in Temps : Contents(rt', t) = Contents(rt, t) BY <2>1
  <2> QED BY <2>2, <2>3 DEF AllUnits
<1> QED
  BY <1>1, <1>2, <1>3, <1>4, <1>5, <1>6, <1>7, ExpressionUnits
     DEF Values!Next

(* fb_UStrConcatAssign takes its source pointer before it reallocates the  *)
(* destination; no text ever holds what such a pointer would read from a   *)
(* freed buffer.                                                           *)
THEOREM NothingWild == Spec => []NoWildText
<1>1. Init => AllUnits
  <2> SUFFICES ASSUME Init PROVE AllUnits OBVIOUS
  <2>1. IInv /\ scope = {} /\ held = {} BY InitSound DEF Init
  <2>2. \A d \in Desc : Contents(rt, d) = << >> BY <2>1, IdleText
  <2>3. << >> \in Seq(Unit) OBVIOUS
  <2> QED BY <2>1, <2>2, <2>3, VarsApart DEF AllUnits
<1>2. ASSUME IInv, AllUnits PROVE NoWildText
  <2> SUFFICES ASSUME NEW d \in Desc, NEW i \in DOMAIN Contents(rt, d)
               PROVE  Contents(rt, d)[i] # Wild
    BY DEF NoWildText
  <2>1. Contents(rt, d) \in Seq(Unit)
    <3>1. CASE d \in Var \cup Temps BY <1>2, <3>1 DEF AllUnits
    <3>2. CASE d \notin Var \cup Temps
      <4>1. Contents(rt, d) = << >> BY <1>2, <3>2, IdleText DEF IInv
      <4> QED BY <4>1
    <3> QED BY <3>1, <3>2
  <2>2. Contents(rt, d)[i] \in Unit BY <2>1
  <2> QED BY <2>2, NameAssumption
<1> QED BY <1>1, <1>2, NextUnits, StepRefines, Invariance, PTL DEF Spec

=============================================================================
