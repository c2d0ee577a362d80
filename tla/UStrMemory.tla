----------------------------- MODULE UStrMemory -----------------------------
(***************************************************************************)
(* The memory behind var-len USTRINGs: descriptors, heap buffers and the   *)
(* pool of temp descriptors (rtlib/ustr_core.c, with list.c under it), and *)
(* the entry points that move text between descriptors (ustr_assign.c,     *)
(* ustr_concat.c, ustr_tempres.c, ustr_slice.c, ustr_case.c, ustr_misc.c). *)
(*                                                                         *)
(* Every C function that changes memory is an operator from the memory m   *)
(* before the call to the memory after it, under the C function's name, so *)
(* that an entry point composes them in the order in which the C makes the *)
(* calls.  The state machine that runs them is UStrRuntime.                *)
(*                                                                         *)
(* A memory is a record:                                                   *)
(*   desc  what each descriptor holds (data, len, size; the sign bit of    *)
(*         the C len, FB_TEMPSTRBIT, is the field temp)                    *)
(*   heap  each malloc block: whether it is live, the units it can hold    *)
(*         before the terminator, and the text last written to it          *)
(*   free  the pool's free list, a stack (utmpdsList.fhead)                *)
(*   used  the pool descriptors on the used list (utmpdsList.head)         *)
(***************************************************************************)
EXTENDS UStrSizes, Integers, Sequences

CONSTANTS
  Var,        \* descriptors of USTRING variables, parameters and results
  Tmp,        \* descriptors the compiler puts on the stack for concatenation
  PoolSize,   \* FB_STR_TMPDESCRIPTORS (256 in the code)
  Block,      \* blocks malloc can hand out
  Unit,       \* code units
  Space,      \* the unit SPACE repeats
  Cases,      \* what UCASE and LCASE make of each unit
  Wild,       \* a unit read from a block that was freed
  Raw,        \* sources that are not descriptors: literals, raw pointers
  RawText,    \* the text each of them holds up to its terminator
  NullDesc,   \* __fb_ctx.unull_desc, the shared empty descriptor
  NullPtr,    \* a NULL FBUSTRING *
  NoBlock     \* a NULL data pointer

Slot == 1 .. PoolSize
Desc == Var \cup Tmp \cup Slot \cup {NullDesc}
Temps == Tmp \cup Slot

(* What malloc and realloc may answer: the rounded request, only the       *)
(* unrounded one that is tried next, or neither.                           *)
Outcome == {"rounded", "exact", "none"}

ASSUME PoolAssumption == PoolSize \in Nat \ {0}
ASSUME NameAssumption ==
  /\ Var \cap Tmp = {} /\ Var \cap Slot = {} /\ Tmp \cap Slot = {}
  /\ NullDesc \notin Var \cup Tmp \cup Slot
  /\ NullPtr \notin Desc \cup Raw
  /\ Raw \cap Desc = {}
  /\ NoBlock \notin Block /\ Wild \notin Unit
ASSUME UnitAssumption ==
  /\ Space \in Unit
  /\ Cases \subseteq [Unit \cup {Wild} -> Unit \cup {Wild}]
  /\ \A table \in Cases, u \in Unit : table[u] \in Unit
ASSUME RawAssumption ==
  /\ RawText \in [Raw -> Seq(Unit)]
  /\ \A r \in Raw : Len(RawText[r]) <= MaxUnits

-----------------------------------------------------------------------------
(* Types *)

Descriptor == [data : Block \cup {NoBlock}, len : Nat, size : Nat,
               temp : BOOLEAN]
Buffer     == [live : BOOLEAN, cap : Nat, text : Seq(Unit \cup {Wild})]
Memory     == [desc : [Desc -> Descriptor], heap : [Block -> Buffer],
               free : Seq(Slot), used : SUBSET Slot]

Zero == [data |-> NoBlock, len |-> 0, size |-> 0, temp |-> FALSE]
Dead == [live |-> FALSE, cap |-> 0, text |-> << >>]

(* Program start: every descriptor zeroed, and the pool a static array     *)
(* whose list is built by the first allocation.                            *)
InitMemory == [desc |-> [d \in Desc |-> Zero],
               heap |-> [b \in Block |-> Dead],
               free |-> << >>, used |-> {}]

SetDesc(m, d, v) == [m EXCEPT !.desc[d] = v]
SetLen(m, d, n)  == SetDesc(m, d, [m.desc[d] EXCEPT !.len = n])
Data(m, d)       == m.desc[d].data
Contents(m, d)   == IF Data(m, d) = NoBlock THEN << >>
                    ELSE m.heap[Data(m, d)].text

-----------------------------------------------------------------------------
(* ustr_core.c: buffers *)

Free(m, b) == IF b = NoBlock THEN m ELSE [m EXCEPT !.heap[b] = Dead]

(* Bug: the buffer is freed and the descriptor keeps pointing at it. *)
DeleteKeepsDescriptor(m, d) == Free(m, Data(m, d))

UStrDelete(m, d) == SetDesc(Free(m, Data(m, d)), d, Zero)

(* A fresh buffer for d: room units if malloc grants them, else n.  Its    *)
(* contents are not written yet.                                           *)
Fresh(m) == CHOOSE b \in Block : ~ m.heap[b].live
HeapFull(m) == \A b \in Block : m.heap[b].live

Malloc(m, d, n, room, got) ==
  IF got = "none" \/ HeapFull(m)
  THEN SetDesc(m, d, Zero)
  ELSE LET cap == IF got = "rounded" THEN room ELSE n
       IN  [m EXCEPT
              !.heap[Fresh(m)] = [live |-> TRUE, cap |-> cap, text |-> << >>],
              !.desc[d] = [data |-> Fresh(m), len |-> n, size |-> cap,
                           temp |-> FALSE]]

UStrAlloc(m, d, n, got) ==
  IF TooBig(n) THEN SetDesc(m, d, Zero) ELSE Malloc(m, d, n, RoundSize(n), got)

(* realloc of d's buffer: the text moves with it, into a fresh block when  *)
(* moved (or when there was none), and the old block is then gone.         *)
Resize(m, d, n, got, moved) ==
  LET cap == IF got = "rounded" THEN Grown(n) ELSE n
      at  == IF Data(m, d) = NoBlock \/ (moved /\ ~ HeapFull(m))
             THEN Fresh(m) ELSE Data(m, d)
      new == [live |-> TRUE, cap |-> cap, text |-> Contents(m, d)]
      f   == Free(m, Data(m, d))
  IN  SetDesc([f EXCEPT !.heap[at] = new], d,
              [data |-> at, len |-> n, size |-> cap, temp |-> m.desc[d].temp])

NeedsBuffer(m, d, n, preserve) ==
  Data(m, d) = NoBlock \/ Misfit(m.desc[d].size, n, preserve)

(* Whether realloc, asked to keep the text, refuses. *)
Refused(m, d, got) ==
  got = "none" \/ (Data(m, d) = NoBlock /\ HeapFull(m))

(* Bug: a buffer that is used again keeps the length it had. *)
ReallocKeepsLength(m, d, n, preserve, got, moved) ==
  IF TooBig(n) \/ ~ NeedsBuffer(m, d, n, preserve) THEN m
  ELSE IF ~ preserve THEN Malloc(UStrDelete(m, d), d, n, Grown(n), got)
  ELSE IF Refused(m, d, got) THEN m
  ELSE Resize(m, d, n, got, moved)

UStrRealloc(m, d, n, preserve, got, moved) ==
  IF TooBig(n) THEN m
  ELSE IF ~ NeedsBuffer(m, d, n, preserve)
       THEN SetLen(m, d, n)
  ELSE IF ~ preserve THEN Malloc(UStrDelete(m, d), d, n, Grown(n), got)
  ELSE IF Refused(m, d, got) THEN m
  ELSE Resize(m, d, n, got, moved)

(* fb_hUStrCopy into d's buffer, from its start. *)
CopyTo(m, d, txt) ==
  IF Data(m, d) = NoBlock THEN m ELSE [m EXCEPT !.heap[Data(m, d)].text = txt]

-----------------------------------------------------------------------------
(* ustr_core.c: the temp-descriptor pool *)

(* fb_hListInit runs on the first allocation, when both lists are empty.   *)
FreeList(m) == IF m.free = << >> /\ m.used = {}
               THEN [i \in Slot |-> i] ELSE m.free

(* Bug: the last pool descriptor is never handed out. *)
PoolEmptyEarly(m) == Len(FreeList(m)) <= 1

PoolEmpty(m) == FreeList(m) = << >>

(* The descriptor fb_hUStrAllocTempDesc returns, and what it does. *)
NewSlot(m) == Head(FreeList(m))
AllocTempDesc(m) ==
  [m EXCEPT !.free = Tail(FreeList(m)), !.used = @ \cup {NewSlot(m)},
            !.desc[NewSlot(m)] = Zero]

(* fb_hUStrDelTempDesc leaves a descriptor that is not in the pool alone. *)
DelTempDesc(m, d) ==
  IF d \notin Slot THEN m
  ELSE [m EXCEPT !.free = << d >> \o @, !.used = @ \ {d}, !.desc[d] = Zero]

(* Bug: the descriptor goes back to the pool with its buffer. *)
DelTempKeepsBuffer(m, d) == IF d = NullPtr THEN m ELSE DelTempDesc(m, d)

(* fb_hUStrDelTemp_NoLock *)
DelTemp(m, d) ==
  IF d = NullPtr THEN m
  ELSE DelTempDesc(IF m.desc[d].temp THEN UStrDelete(m, d) ELSE m, d)

(* fb_hUStrAllocTemp_NoLock, in two parts: the descriptor it returns, and  *)
(* the memory afterwards.  d = NullPtr asks for a pool descriptor.         *)
MarkTemp(m, d) == [m EXCEPT !.desc[d].temp = TRUE]

AllocTempIn(m, d, n, got) ==
  LET r == UStrRealloc(m, d, n, FALSE, got, FALSE)
  IN  IF TooBig(n) \/ Data(r, d) = NoBlock
      THEN [at |-> NullPtr, mem |-> r] ELSE [at |-> d, mem |-> MarkTemp(r, d)]

AllocTemp(m, d, n, got) ==
  IF d # NullPtr THEN AllocTempIn(m, d, n, got)
  ELSE IF PoolEmpty(m) THEN [at |-> NullPtr, mem |-> m]
  ELSE LET r == AllocTempIn(AllocTempDesc(m), NewSlot(m), n, got)
       IN  IF r.at = NullPtr
           THEN [at |-> NullPtr, mem |-> DelTempDesc(r.mem, NewSlot(m))]
           ELSE r

-----------------------------------------------------------------------------
(* Operands: a descriptor (size -1), a raw source, or NULL *)

TextOf(m, o) == CASE o \in Desc -> Contents(m, o)
                  [] o \in Raw  -> RawText[o]
                  [] OTHER      -> << >>
LenOf(m, o)  == IF o \in Desc THEN m.desc[o].len ELSE Len(TextOf(m, o))
IsTemp(m, o) == o \in Desc /\ m.desc[o].temp

(* Every entry point ends by releasing the operands that were temps. *)
Release(m, o) == IF o \in Desc THEN DelTemp(m, o) ELSE m

-----------------------------------------------------------------------------
(* The entry points *)

(* fb_UStrAssignEx with a var-len destination.  An empty source empties    *)
(* the destination; a temp source gives its buffer away and loses its      *)
(* descriptor; anything else is copied.                                    *)
Clear(m, dst, isInit) ==
  IF isInit THEN SetDesc(m, dst, Zero) ELSE UStrDelete(m, dst)

(* Bugs: the source's descriptor stays in use; the destination keeps the    *)
(* temp bit.                                                               *)
StealKeepsSlot(m, dst, src, isInit) ==
  LET m1 == IF isInit THEN m ELSE UStrDelete(m, dst)
  IN  SetDesc(SetDesc(m1, dst, [m1.desc[src] EXCEPT !.temp = FALSE]), src, Zero)
StealKeepsBit(m, dst, src, isInit) ==
  LET m1 == IF isInit THEN m ELSE UStrDelete(m, dst)
  IN  DelTempDesc(SetDesc(SetDesc(m1, dst, m1.desc[src]), src, Zero), src)

Steal(m, dst, src, isInit) ==
  LET m1 == IF isInit THEN m ELSE UStrDelete(m, dst)
      m2 == SetDesc(m1, dst, [m1.desc[src] EXCEPT !.temp = FALSE])
  IN  DelTempDesc(SetDesc(m2, src, Zero), src)

CopyAssign(m, dst, src, isInit, got) ==
  LET n  == LenOf(m, src)
      m1 == IF isInit THEN UStrAlloc(m, dst, n, got)
            ELSE IF m.desc[dst].len = n THEN m
            ELSE UStrRealloc(m, dst, n, FALSE, got, FALSE)
  IN  CopyTo(m1, dst, TextOf(m, src))

AssignEx(m, dst, src, isInit, got) ==
  IF LenOf(m, src) = 0 THEN Release(Clear(m, dst, isInit), src)
  ELSE IF IsTemp(m, src) THEN Steal(m, dst, src, isInit)
  ELSE Release(CopyAssign(m, dst, src, isInit, got), src)

(* Bug: the operands are released before their text is read. *)
ConcatReleasesFirst(m, tmp, a, b, got) ==
  LET f == Release(Release(m, a), b)
      r == AllocTemp(f, tmp, LenOf(f, a) + LenOf(f, b), got)
  IN  [at  |-> r.at,
       mem |-> IF r.at = NullPtr THEN r.mem
               ELSE CopyTo(r.mem, tmp, TextOf(f, a) \o TextOf(f, b))]

(* fb_UStrConcat into the compiler's stack temp tmp. *)
Concat(m, tmp, a, b, got) ==
  LET r == AllocTemp(m, tmp, LenOf(m, a) + LenOf(m, b), got)
      w == IF r.at = NullPtr THEN r.mem
           ELSE CopyTo(r.mem, tmp, TextOf(m, a) \o TextOf(m, b))
  IN  [at |-> r.at, mem |-> Release(Release(w, a), b)]

(* fb_UStrConcatAssign with a var-len destination, whose text has to       *)
(* survive the reallocation.  The source pointer was taken before it: when *)
(* the source is the destination and its block moved, it now reads a freed *)
(* block, and whatever is there is what gets appended.                     *)
ReadAfter(m, m1, src) ==
  IF src \in Desc /\ Data(m, src) # NoBlock /\ ~ m1.heap[Data(m, src)].live
  THEN [i \in 1 .. LenOf(m, src) |-> Wild] ELSE TextOf(m, src)

AppendText(m, dst, src, got, moved) ==
  LET n  == LenOf(m, dst) + LenOf(m, src)
      m1 == UStrRealloc(m, dst, n, TRUE, got, moved)
  IN  IF TooBig(n) \/ (NeedsBuffer(m, dst, n, TRUE) /\ Refused(m, dst, got))
      THEN m1
      ELSE CopyTo(m1, dst, Contents(m, dst) \o ReadAfter(m, m1, src))

ConcatAssign(m, dst, src, got, moved) ==
  Release(IF LenOf(m, src) = 0 THEN m ELSE AppendText(m, dst, src, got, moved),
          src)

(* hUStrTempFrom and its likes: a pool temp holding txt, or the shared     *)
(* empty descriptor.                                                       *)
TempFrom(m, txt, got) ==
  LET r == AllocTemp(m, NullPtr, Len(txt), got)
  IN  IF txt = << >> THEN [at |-> NullDesc, mem |-> m]
      ELSE IF r.at = NullPtr THEN [at |-> NullDesc, mem |-> r.mem]
      ELSE [at |-> r.at, mem |-> CopyTo(r.mem, r.at, txt)]

(* hUStrCase: unit by unit through a table. *)
Recased(m, src, table, got) ==
  TempFrom(m, [i \in DOMAIN TextOf(m, src) |-> table[TextOf(m, src)[i]]], got)

(* SPACE and STRING: the first unit of the operand, or a space, n times.   *)
Repeated(m, src, n, got) ==
  LET unit == IF LenOf(m, src) > 0 THEN TextOf(m, src)[1] ELSE Space
  IN  TempFrom(m, [i \in 1 .. n |-> unit], got)

(* fb_StrToUStr, fb_WstrToUStr: as above for text decoded from bytes or    *)
(* FB_WCHARs, except that empty text still takes a pool temp.              *)
FromNarrow(m, txt, got) ==
  LET r == AllocTemp(m, NullPtr, Len(txt), got)
  IN  IF r.at = NullPtr THEN [at |-> NullDesc, mem |-> r.mem]
      ELSE [at |-> r.at, mem |-> CopyTo(r.mem, r.at, txt)]

(* fb_UStrAllocTempResult: the result variable's buffer moves to a pool    *)
(* descriptor.  An exhausted pool answers the shared empty descriptor.     *)
TempResult(m, v) ==
  IF PoolEmpty(m) THEN [at |-> NullDesc, mem |-> m]
  ELSE LET m1 == AllocTempDesc(m)
           m2 == SetDesc(m1, NewSlot(m), [m1.desc[v] EXCEPT !.temp = TRUE])
       IN  [at |-> NewSlot(m), mem |-> SetDesc(m2, v, Zero)]

(* fb_UStrSwap of two var-len ustrings: the descriptors change places. *)
Swap(m, a, b) == SetDesc(SetDesc(m, a, m.desc[b]), b, m.desc[a])

=============================================================================
