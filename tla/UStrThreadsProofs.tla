-------------------------- MODULE UStrThreadsProofs --------------------------
(***************************************************************************)
(* UStrThreads for every number of threads, every program and every        *)
(* memory.  First the two locks: who is where says who holds what.  Then   *)
(* the memory the threads share: it stays sound however their calls        *)
(* interleave, a read without a lock goes wrong only where it was raced,   *)
(* and the calls have the effect of calls made one after another.          *)
(***************************************************************************)
EXTENDS UStrThreads, UStrMemoryProofs, FiniteSetTheorems

InString == {"locked", "inner locked"}
InIo     == {"newline", "inner lock", "inner locked"}

(* The places as a function, and each lock held by exactly the thread that *)
(* is in a place where its code holds it.                                  *)
PlacesOK == at \in [Thread -> Places] /\ strLock \in Thread \cup {Nobody}
              /\ ioLock \in Thread \cup {Nobody}
              /\ line \in Thread \cup {Nobody}
StrHeld  == \A t \in Thread : strLock = t <=> at[t] \in InString
IoHeld   == \A t \in Thread : ioLock = t <=> at[t] \in InIo
LineOpen == \A t \in Thread : line = t <=> at[t] = "newline"

LockInv == PlacesOK /\ StrHeld /\ IoHeld /\ LineOpen

-----------------------------------------------------------------------------

(* At the start nobody holds a lock. *)
LEMMA LockInit == Init => LockInv
BY ThreadAssumption
DEF Init, LockInv, PlacesOK, StrHeld, IoHeld, LineOpen, Places, InString, InIo

(* A step that moves t alone, and no lock.                                 *)
LEMMA MovesKeepLocks ==
  ASSUME LockInv, NEW t \in Thread, NEW p \in Places,
         Goto(t, p), UNCHANGED << locks, line >>,
         at[t] \notin InString \cup InIo, p \notin InString \cup InIo
  PROVE  LockInv'
BY DEF LockInv, PlacesOK, StrHeld, IoHeld, LineOpen, Goto, locks, InString, InIo, Places

(* The places of a comparison that loads an operand come in this order. *)
LEMMA PlacesInOrder ==
  /\ DataPlace["a"] = "data a" /\ LenPlace["a"] = "len a" /\ NextPlace["a"] = "data b"
  /\ DataPlace["b"] = "data b" /\ LenPlace["b"] = "len b" /\ NextPlace["b"] = "read"
  /\ \A f \in Sides : /\ DataPlace[f] # LenPlace[f]
                     /\ DataPlace[f] \in {"data a", "data b"}
                     /\ LenPlace[f] \in {"len a", "len b"}
                     /\ NextPlace[f] \in {"data b", "read"}
<1>1. /\ DataPlace["a"] = "data a" /\ DataPlace["b"] = "data b"
      /\ LenPlace["a"] = "len a" /\ LenPlace["b"] = "len b"
      /\ NextPlace["a"] = "data b" /\ NextPlace["b"] = "read"
  BY DEF DataPlace, LenPlace, NextPlace
<1> QED BY <1>1 DEF Sides

LEMMA LockStep == LockInv /\ [Next]_vars => LockInv'
<1> SUFFICES ASSUME LockInv, [Next]_vars PROVE LockInv'
  OBVIOUS
<1> USE ThreadAssumption
<1>1. CASE UNCHANGED vars
  BY <1>1 DEF vars, LockInv, PlacesOK, StrHeld, IoHeld, LineOpen
<1>2. ASSUME NEW t \in Thread, LeaveScope(t) PROVE LockInv'
  BY <1>2 DEF LeaveScope, locks, LockInv, PlacesOK, StrHeld, IoHeld, LineOpen
<1>3. ASSUME NEW t \in Thread, NEW c \in CallsOf(t), Begin(t, c) PROVE LockInv'
  <2> DEFINE p == FirstPlace(c.op)
  <2>1. p \in {"data a", "device", "lock"}
    BY DEF FirstPlace
  <2>2. /\ at' = [at EXCEPT ![t] = p] /\ strLock' = strLock
        /\ ioLock' = ioLock /\ line' = line /\ at[t] = "idle"
    BY <1>3 DEF Begin, Goto, locks, InString, InIo
  <2> HIDE DEF p
  <2> QED
    BY <2>1, <2>2 DEF LockInv, PlacesOK, StrHeld, IoHeld, LineOpen, InString, InIo, Places
<1>4. ASSUME NEW t \in Thread, Lock(t) PROVE LockInv'
  BY <1>4 DEF Lock, TakeStrLock, Goto, LockInv, PlacesOK, StrHeld, IoHeld,
              LineOpen, InString, InIo, Places
<1>5. ASSUME NEW t \in Thread, NEW got \in Outcomes, Unlock(t, got) PROVE LockInv'
  <2>1. /\ at[t] = "locked" /\ strLock' = Nobody
        /\ ioLock' = ioLock /\ line' = line
    BY <1>5 DEF Unlock, GiveBack
  <2>2. PICK p \in {"device", "lock", "idle"} : at' = [at EXCEPT ![t] = p]
    BY <1>5 DEF Unlock, Proceed, Goto
  <2> QED
    BY <2>1, <2>2 DEF LockInv, PlacesOK, StrHeld, IoHeld, LineOpen, InString, InIo, Places
<1>6. ASSUME NEW t \in Thread, Setup(t) PROVE LockInv'
  <2>1. PICK f \in Sides :
          \/ at[t] = DataPlace[f] /\ Goto(t, LenPlace[f])
          \/ at[t] = LenPlace[f] /\ Goto(t, NextPlace[f])
    BY <1>6 DEF Setup
  <2>2. PICK p \in {"len a", "data b", "len b", "read"} :
          at' = [at EXCEPT ![t] = p] /\ at[t] \in {"data a", "len a", "data b", "len b"}
    BY <2>1, PlacesInOrder DEF Goto
  <2>3. UNCHANGED << locks, line >>
    BY <1>6 DEF Setup
  <2> QED
    BY <2>2, <2>3 DEF locks, LockInv, PlacesOK, StrHeld, IoHeld, LineOpen,
                      InString, InIo, Places
<1>7. ASSUME NEW t \in Thread, ReadText(t) PROVE LockInv'
  BY <1>7, MovesKeepLocks DEF ReadText, InString, InIo, Places
<1>8. ASSUME NEW t \in Thread, Device(t) PROVE LockInv'
  BY <1>8 DEF Device, TakeIoLock, Goto, LockInv, PlacesOK, StrHeld, IoHeld,
              LineOpen, InString, InIo, Places
<1>9. ASSUME NEW t \in Thread, Newline(t) PROVE LockInv'
  BY <1>9 DEF Newline, Goto, LockInv, PlacesOK, StrHeld, IoHeld, LineOpen, InString, InIo, Places
<1>10. ASSUME NEW t \in Thread, DropNarrow(t) PROVE LockInv'
  BY <1>10, MovesKeepLocks DEF DropNarrow, InString, InIo, Places
<1>11. ASSUME NEW t \in Thread, InnerLock(t) PROVE LockInv'
  BY <1>11 DEF InnerLock, Goto, LockInv, PlacesOK, StrHeld, IoHeld,
              LineOpen, InString, InIo, Places
<1>12. ASSUME NEW t \in Thread, InnerUnlock(t) PROVE LockInv'
  BY <1>12 DEF InnerUnlock, Goto, LockInv, PlacesOK, StrHeld, IoHeld,
              LineOpen, InString, InIo, Places
<1> QED
  BY <1>1, <1>2, <1>3, <1>4, <1>5, <1>6, <1>7, <1>8, <1>9, <1>10, <1>11, <1>12
  DEF Next, Continue

(* Each lock is held by exactly the thread whose code is inside it, so two *)
(* threads are never both inside the descriptors, nor both at a device.    *)
THEOREM LocksExclusive == Spec => []LockInv
<1>1. Spec => Init /\ [][Next]_vars
  BY DEF Spec
<1> QED
  BY <1>1, LockInit, LockStep, PTL

(* Nobody waits for FB_LOCK with FB_STRLOCK in hand.                       *)
THEOREM LockOrderHolds == Spec => []LockOrder
<1>1. LockInv => LockOrder
  BY DEF LockInv, StrHeld, LockOrder, InString
<1> QED
  BY <1>1, LocksExclusive, PTL

(* The text of a PRINT and its newline stay together.                      *)
THEOREM LinesStayWhole == Spec => LinesWhole
<1>1. LockInv /\ LockInv' /\ [Next]_vars
        => [line' # line => line = Nobody \/ line' = Nobody]_vars
  <2> SUFFICES ASSUME LockInv, [Next]_vars, line' # line
               PROVE  line = Nobody \/ line' = Nobody
    OBVIOUS
  <2>1. PICK t \in Thread : Device(t) \/ Newline(t)
    BY DEF Next, Continue, LeaveScope, Begin, Lock, Unlock, Setup, ReadText, DropNarrow,
           InnerLock, InnerUnlock, vars
  <2>2. CASE Newline(t)
    BY <2>2 DEF Newline
  <2>3. CASE Device(t)
    <3>1. ioLock = Nobody
      BY <2>3 DEF Device, TakeIoLock
    <3>2. ASSUME NEW u \in Thread PROVE line # u
      BY <3>1, ThreadAssumption DEF LockInv, IoHeld, LineOpen, InIo
    <3> QED
      BY <3>2 DEF LockInv, PlacesOK
  <2> QED
    BY <2>1, <2>2, <2>3
<1>2. Spec => Init /\ [][Next]_vars
  BY DEF Spec
<1> QED
  BY <1>1, <1>2, LockInit, LockStep, PTL DEF LinesWhole

-----------------------------------------------------------------------------
(* The memory.  While a thread is between Lock and Unlock the others can   *)
(* do one thing to it: end their frames, with no lock.  So the memory is   *)
(* the one that thread loaded with the variables of those frames deleted.  *)

(* The memory m with the descriptors in G deleted. *)
Without(m, G) ==
  [m EXCEPT
     !.desc = [d \in Desc |-> IF d \in G THEN Zero ELSE m.desc[d]],
     !.heap = [b \in Block |-> IF \E d \in G : Data(m, d) = b THEN Dead
                               ELSE m.heap[b]]]

LEMMA WithoutFields ==
  ASSUME NEW m \in Memory, NEW G \in SUBSET Desc
  PROVE  /\ Without(m, G) \in Memory
         /\ \A d \in G : Without(m, G).desc[d] = Zero
         /\ \A d \in Desc \ G : Without(m, G).desc[d] = m.desc[d]
         /\ \A b \in Block : (\E d \in G : Data(m, d) = b)
                             => Without(m, G).heap[b] = Dead
         /\ \A b \in Block : (~ \E d \in G : Data(m, d) = b)
                             => Without(m, G).heap[b] = m.heap[b]
         /\ Without(m, G).free = m.free /\ Without(m, G).used = m.used
<1>1. /\ m.desc \in [Desc -> Descriptor] /\ m.heap \in [Block -> Buffer]
      /\ m.free \in Seq(Slot) /\ m.used \in SUBSET Slot
  BY MemoryFields
<1>2. m = [desc |-> m.desc, heap |-> m.heap, free |-> m.free, used |-> m.used]
  BY DEF Memory
<1> DEFINE D == [d \in Desc |-> IF d \in G THEN Zero ELSE m.desc[d]]
           B == [b \in Block |-> IF \E d \in G : Data(m, d) = b THEN Dead
                                 ELSE m.heap[b]]
<1>3. D \in [Desc -> Descriptor] /\ B \in [Block -> Buffer]
  BY <1>1, Constants
<1> HIDE DEF D, B
<1>4. Without(m, G) = [m EXCEPT !.desc = D, !.heap = B] BY DEF Without, D, B
<1>5. Without(m, G) = [desc |-> D, heap |-> B, free |-> m.free, used |-> m.used]
  BY <1>2, <1>4
<1>6. Without(m, G) \in Memory BY <1>1, <1>3, <1>5 DEF Memory
<1>7. /\ \A d \in G : D[d] = Zero
      /\ \A d \in Desc \ G : D[d] = m.desc[d]
      /\ \A b \in Block : (\E d \in G : Data(m, d) = b) => B[b] = Dead
      /\ \A b \in Block : (~ \E d \in G : Data(m, d) = b) => B[b] = m.heap[b]
  BY DEF D, B
<1> QED BY <1>5, <1>6, <1>7

(* What is read through the descriptors that stay. *)
LEMMA WithoutText ==
  ASSUME NEW m, NEW A, NEW H, NEW L, Intact(m, A, H, Desc, L),
         NEW G \in SUBSET Desc, NEW d \in Desc \ G
  PROVE  /\ Without(m, G).desc[d] = m.desc[d]
         /\ Data(Without(m, G), d) = Data(m, d)
         /\ Data(m, d) # NoBlock =>
              Without(m, G).heap[Data(m, d)] = m.heap[Data(m, d)]
         /\ Contents(Without(m, G), d) = Contents(m, d)
<1>1. m \in Memory /\ Unshared(m) BY DEF Intact, Owned
<1>2. Without(m, G).desc[d] = m.desc[d] BY <1>1, WithoutFields
<1>3. Data(Without(m, G), d) = Data(m, d) BY <1>2 DEF Data
<1>4. Data(m, d) # NoBlock =>
        Without(m, G).heap[Data(m, d)] = m.heap[Data(m, d)]
  <2> SUFFICES ASSUME Data(m, d) # NoBlock
               PROVE  Without(m, G).heap[Data(m, d)] = m.heap[Data(m, d)]
    OBVIOUS
  <2>1. Data(m, d) \in Block BY <1>1, MemoryFields
  <2>2. ~ \E g \in G : Data(m, g) = Data(m, d) BY <1>1 DEF Unshared
  <2> QED BY <1>1, <2>1, <2>2, WithoutFields
<1> QED BY <1>2, <1>3, <1>4 DEF Contents

(* Deleting variables leaves the memory intact. *)
LEMMA WithoutIntact ==
  ASSUME NEW m, NEW A, NEW H, NEW L, Intact(m, A, H, Desc, L),
         NEW G \in SUBSET (Desc \ H)
  PROVE  Intact(Without(m, G), A, H, Desc, L)
<1> DEFINE n == Without(m, G)
<1>1. m \in Memory /\ G \in SUBSET Desc /\ Bound(m, L) /\ Unshared(m) /\ Reached(m, L)
  BY DEF Intact, Owned
<1>2. /\ n \in Memory /\ n.free = m.free /\ n.used = m.used
      /\ \A d \in G : n.desc[d] = Zero
      /\ \A b \in Block : (\E d \in G : Data(m, d) = b) => n.heap[b] = Dead
      /\ \A b \in Block : (~ \E d \in G : Data(m, d) = b) => n.heap[b] = m.heap[b]
  BY <1>1, WithoutFields
<1>3. \A d \in Desc \ G :
        /\ n.desc[d] = m.desc[d] /\ Data(n, d) = Data(m, d)
        /\ Data(m, d) # NoBlock => n.heap[Data(m, d)] = m.heap[Data(m, d)]
  BY <1>1, WithoutText
<1> HIDE DEF n
<1>4. \A d \in G : Data(n, d) = NoBlock BY <1>2 DEF Data, Zero
<1>5. Bound(n, L)
  <2> SUFFICES ASSUME NEW d \in Desc
               PROVE  /\ n.desc[d].len <= MaxUnits
                      /\ Data(n, d) = NoBlock =>
                           n.desc[d].len = 0 /\ n.desc[d].size = 0
                      /\ Data(n, d) # NoBlock =>
                           /\ n.heap[Data(n, d)].live
                           /\ Data(n, d) \notin L
                           /\ n.desc[d].size = n.heap[Data(n, d)].cap
                           /\ n.desc[d].len <= n.desc[d].size
    BY DEF Bound
  <2>1. CASE d \in G BY <2>1, <1>2, <1>4, SizeAssumption DEF Zero
  <2>2. CASE d \notin G BY <2>2, <1>1, <1>3 DEF Bound
  <2> QED BY <2>1, <2>2
<1>6. Unshared(n) BY <1>1, <1>3, <1>4 DEF Unshared
<1>7. Reached(n, L)
  <2> SUFFICES ASSUME NEW b \in Block
               PROVE  n.heap[b].live <=> b \in L \/ \E d \in Desc : Data(n, d) = b
    BY DEF Reached
  <2>1. b # NoBlock BY NameAssumption
  <2>2. CASE \E d \in G : Data(m, d) = b
    <3>1. PICK g \in G : Data(m, g) = b BY <2>2
    <3>2. ~ n.heap[b].live BY <1>2, <2>2, Constants
    <3>3. b \notin L BY <1>1, <2>1, <3>1 DEF Bound
    <3>4. \A d \in Desc : Data(n, d) # b
      BY <1>1, <1>3, <1>4, <2>1, <3>1 DEF Unshared
    <3> QED BY <3>2, <3>3, <3>4
  <2>3. CASE ~ \E d \in G : Data(m, d) = b
    <3>1. n.heap[b] = m.heap[b] BY <1>2, <2>3
    <3>2. \A d \in Desc : Data(n, d) = b <=> Data(m, d) = b
      BY <1>3, <1>4, <2>1, <2>3
    <3> QED BY <1>1, <3>1, <3>2 DEF Reached
  <2> QED BY <2>2, <2>3
<1>8. Pooled(n, A)
  <2>1. FreeList(n) = FreeList(m) BY <1>2 DEF FreeList
  <2> QED BY <1>2, <2>1 DEF Intact, Pooled
<1>9. Marked(n, A, H)
  <2>1. \A d \in G : ~ n.desc[d].temp /\ d \notin H BY <1>2 DEF Zero
  <2>2. Marked(m, A, H) BY DEF Intact
  <2> QED BY <1>2, <1>3, <2>1, <2>2 DEF Marked
<1>10. Written(n, Desc)
  <2>1. Written(m, Desc) BY DEF Intact
  <2> QED BY <1>3, <1>4, <2>1 DEF Written
<1> QED BY <1>2, <1>5, <1>6, <1>7, <1>8, <1>9, <1>10 DEF Intact, Owned, n

(* One more variable deleted. *)
LEMMA WithoutMore ==
  ASSUME NEW m, NEW A, NEW H, NEW L, Intact(m, A, H, Desc, L),
         NEW G \in SUBSET Desc, NEW v \in Desc \ G
  PROVE  UStrDelete(Without(m, G), v) = Without(m, G \cup {v})
<1> DEFINE k == Without(m, G)
           n == UStrDelete(k, v)
           w == Without(m, G \cup {v})
<1>1. m \in Memory /\ k \in Memory BY WithoutFields DEF Intact
<1>2. Data(k, v) = Data(m, v) BY WithoutText
<1>3. /\ \A d \in G : k.desc[d] = Zero
      /\ \A d \in Desc \ G : k.desc[d] = m.desc[d]
      /\ \A b \in Block : (\E d \in G : Data(m, d) = b) => k.heap[b] = Dead
      /\ \A b \in Block : (~ \E d \in G : Data(m, d) = b) => k.heap[b] = m.heap[b]
      /\ k.free = m.free /\ k.used = m.used
  BY <1>1, WithoutFields
<1>4. /\ w \in Memory
      /\ \A d \in G \cup {v} : w.desc[d] = Zero
      /\ \A d \in Desc \ (G \cup {v}) : w.desc[d] = m.desc[d]
      /\ \A b \in Block : (\E d \in G \cup {v} : Data(m, d) = b)
                          => w.heap[b] = Dead
      /\ \A b \in Block : (~ \E d \in G \cup {v} : Data(m, d) = b)
                          => w.heap[b] = m.heap[b]
      /\ w.free = m.free /\ w.used = m.used
  BY <1>1, WithoutFields
<1> HIDE DEF k, w
<1>5. /\ n \in Memory
      /\ n.desc = [k.desc EXCEPT ![v] = Zero]
      /\ n.heap = IF Data(k, v) = NoBlock THEN k.heap
                  ELSE [k.heap EXCEPT ![Data(k, v)] = Dead]
      /\ n.free = k.free /\ n.used = k.used
  BY <1>1, DeleteFields
<1> HIDE DEF n
<1>6. n.desc = w.desc
  <2>1. k.desc \in [Desc -> Descriptor] /\ w.desc \in [Desc -> Descriptor]
        /\ n.desc \in [Desc -> Descriptor]
    BY <1>1, <1>4, <1>5, MemoryFields
  <2>2. \A d \in Desc : n.desc[d] = w.desc[d] BY <1>3, <1>4, <1>5, <2>1
  <2> QED BY <2>1, <2>2
<1>7. n.heap = w.heap
  <2>1. ASSUME NEW b \in Block PROVE n.heap[b] = w.heap[b]
    <3>1. k.heap \in [Block -> Buffer] /\ b # NoBlock
      BY <1>1, MemoryFields, NameAssumption
    <3>2. n.heap[b] = IF Data(m, v) = b THEN Dead ELSE k.heap[b]
      BY <1>2, <1>5, <3>1
    <3> QED BY <1>3, <1>4, <3>2
  <2>2. n.heap \in [Block -> Buffer] /\ w.heap \in [Block -> Buffer]
    BY <1>4, <1>5, MemoryFields
  <2> QED BY <2>1, <2>2
<1>8. n = w BY <1>3, <1>4, <1>5, <1>6, <1>7 DEF Memory
<1> QED BY <1>8 DEF n, w, k

(* Deleting what holds nothing does nothing. *)
LEMMA WithoutNone ==
  ASSUME NEW m \in Memory, NEW G \in SUBSET Desc, \A d \in G : m.desc[d] = Zero
  PROVE  Without(m, G) = m
<1> DEFINE w == Without(m, G)
<1>1. /\ w \in Memory
      /\ \A d \in G : w.desc[d] = Zero
      /\ \A d \in Desc \ G : w.desc[d] = m.desc[d]
      /\ \A b \in Block : (~ \E d \in G : Data(m, d) = b) => w.heap[b] = m.heap[b]
      /\ w.free = m.free /\ w.used = m.used
  BY WithoutFields
<1>2. \A b \in Block, d \in G : Data(m, d) # b
  BY NameAssumption DEF Data, Zero
<1>3. /\ m.desc \in [Desc -> Descriptor] /\ m.heap \in [Block -> Buffer]
      /\ w.desc \in [Desc -> Descriptor] /\ w.heap \in [Block -> Buffer]
  BY <1>1, MemoryFields
<1> HIDE DEF w
<1>4. w.desc = m.desc
  <2>1. \A d \in Desc : w.desc[d] = m.desc[d] BY <1>1
  <2> QED BY <1>3, <2>1
<1>5. w.heap = m.heap
  <2>1. \A b \in Block : w.heap[b] = m.heap[b] BY <1>1, <1>2
  <2> QED BY <1>3, <2>1
<1>6. w = m BY <1>1, <1>4, <1>5 DEF Memory
<1> QED BY <1>6 DEF w

(* What is left alone is left alone in the memory without G too. *)
LEMMA KeepsWithout ==
  ASSUME NEW m, NEW A, NEW H, NEW L, Intact(m, A, H, Desc, L),
         NEW r, NEW B, NEW J, NEW M, Intact(r, B, J, Desc, M),
         NEW G \in SUBSET Desc, NEW D \in SUBSET Desc, Keeps(m, r, D)
  PROVE  Keeps(Without(m, G), Without(r, G), D)
<1> DEFINE k == Without(m, G)
           w == Without(r, G)
<1>1. m \in Memory /\ r \in Memory BY DEF Intact
<1> SUFFICES ASSUME NEW e \in D
             PROVE  /\ w.desc[e] = k.desc[e]
                    /\ Data(k, e) # NoBlock =>
                         w.heap[Data(k, e)] = k.heap[Data(k, e)]
  BY DEF Keeps
<1>2. /\ r.desc[e] = m.desc[e]
      /\ Data(m, e) # NoBlock => r.heap[Data(m, e)] = m.heap[Data(m, e)]
      /\ Data(r, e) = Data(m, e)
  BY DEF Keeps, Data
<1>3. CASE e \in G
  <2>1. w.desc[e] = Zero /\ k.desc[e] = Zero BY <1>1, <1>3, WithoutFields
  <2> HIDE DEF k, w
  <2> QED BY <2>1 DEF Data, Zero
<1>4. CASE e \notin G
  <2>1. /\ k.desc[e] = m.desc[e] /\ Data(k, e) = Data(m, e)
        /\ Data(m, e) # NoBlock => k.heap[Data(m, e)] = m.heap[Data(m, e)]
    BY <1>4, WithoutText
  <2>2. /\ w.desc[e] = r.desc[e]
        /\ Data(r, e) # NoBlock => w.heap[Data(r, e)] = r.heap[Data(r, e)]
    BY <1>4, WithoutText
  <2> HIDE DEF k, w
  <2> QED BY <1>2, <2>1, <2>2
<1> QED BY <1>3, <1>4

LEMMA ChangesWithout ==
  ASSUME NEW m, NEW A, NEW H, NEW L, Intact(m, A, H, Desc, L),
         NEW r, NEW B, NEW J, NEW M, Intact(r, B, J, Desc, M),
         NEW G \in SUBSET Desc, NEW D, NEW Z \in SUBSET Desc,
         OnlyChanges(m, r, D, Z), Z \cap G = {}
  PROVE  OnlyChanges(Without(m, G), Without(r, G), D, Z)
<1> DEFINE K == Desc \ (D \cup Z)
<1>1. Keeps(m, r, K) /\ \A o \in Z : r.desc[o] = Zero BY DEF OnlyChanges
<1>2. K \in SUBSET Desc OBVIOUS
<1> HIDE DEF K
<1>3. Keeps(Without(m, G), Without(r, G), K) BY <1>1, <1>2, KeepsWithout
<1>4. \A o \in Z : Without(r, G).desc[o] = Zero
  <2>1. r \in Memory BY DEF Intact
  <2> QED BY <1>1, <2>1, WithoutFields
<1> QED BY <1>3, <1>4 DEF OnlyChanges, K

(* The stores of a call that leaves G alone, into a memory where G has     *)
(* been deleted meanwhile: as if G had been deleted after the call.        *)
LEMMA StoreBack ==
  ASSUME NEW m \in Memory, NEW r \in Memory, NEW G \in SUBSET Desc,
         Keeps(m, r, G)
  PROVE  Changed(Without(m, G), m, r) = Without(r, G)
<1> DEFINE k == Without(m, G)
           w == Without(r, G)
           D == [d \in Desc  |-> IF r.desc[d] = m.desc[d]
                                 THEN k.desc[d] ELSE r.desc[d]]
           B == [b \in Block |-> IF r.heap[b] = m.heap[b]
                                 THEN k.heap[b] ELSE r.heap[b]]
<1>1. /\ \A d \in G : k.desc[d] = Zero
      /\ \A d \in Desc \ G : k.desc[d] = m.desc[d]
      /\ \A b \in Block : (\E d \in G : Data(m, d) = b) => k.heap[b] = Dead
      /\ \A b \in Block : (~ \E d \in G : Data(m, d) = b) => k.heap[b] = m.heap[b]
      /\ k.free = m.free /\ k.used = m.used
  BY WithoutFields
<1>2. /\ w \in Memory
      /\ \A d \in G : w.desc[d] = Zero
      /\ \A d \in Desc \ G : w.desc[d] = r.desc[d]
      /\ \A b \in Block : (\E d \in G : Data(r, d) = b) => w.heap[b] = Dead
      /\ \A b \in Block : (~ \E d \in G : Data(r, d) = b) => w.heap[b] = r.heap[b]
      /\ w.free = r.free /\ w.used = r.used
  BY WithoutFields
<1>3. \A d \in G : /\ r.desc[d] = m.desc[d] /\ Data(r, d) = Data(m, d)
                   /\ Data(m, d) # NoBlock =>
                        r.heap[Data(m, d)] = m.heap[Data(m, d)]
  BY DEF Keeps, Data
<1>4. Changed(k, m, r) = [desc |-> D, heap |-> B,
                          free |-> IF r.free = m.free THEN k.free ELSE r.free,
                          used |-> IF r.used = m.used THEN k.used ELSE r.used]
  BY DEF Changed
<1> HIDE DEF k, w
<1>5. w.desc \in [Desc -> Descriptor] /\ w.heap \in [Block -> Buffer]
  BY <1>2, MemoryFields
<1>6. D = w.desc
  <2>1. \A d \in Desc : D[d] = w.desc[d] BY <1>1, <1>2, <1>3
  <2> QED BY <1>5, <2>1
<1>7. B = w.heap
  <2>1. ASSUME NEW b \in Block PROVE B[b] = w.heap[b]
    <3>1. b # NoBlock BY NameAssumption
    <3>2. CASE \E d \in G : Data(m, d) = b
      <4>1. \E d \in G : Data(r, d) = b BY <1>3, <3>2
      <4>2. r.heap[b] = m.heap[b] BY <1>3, <3>1, <3>2
      <4> QED BY <1>1, <1>2, <3>2, <4>1, <4>2
    <3>3. CASE ~ \E d \in G : Data(m, d) = b
      <4>1. ~ \E d \in G : Data(r, d) = b BY <1>3, <3>3
      <4> QED BY <1>1, <1>2, <3>3, <4>1
    <3> QED BY <3>2, <3>3
  <2> QED BY <1>5, <2>1
<1> HIDE DEF D, B
<1>8. Changed(k, m, r) = w BY <1>1, <1>2, <1>4, <1>6, <1>7 DEF Memory
<1> QED BY <1>8 DEF k, w

-----------------------------------------------------------------------------
(* The calls *)

(* fb_UStrAssignFromA leaves the text, or for want of memory none. *)
LEMMA FromBytesIntact ==
  ASSUME NEW m, NEW A, NEW H, NEW L, Intact(m, A, H, Desc, L),
         NEW v \in A \ H, NEW txt \in Seq(Char), Len(txt) <= MaxUnits, NEW got
  PROVE  LET r == FromBytes(m, v, txt, got)
         IN  /\ Intact(r, A, H, Desc, L)
             /\ Keeps(m, r, Desc \ {v})
             /\ Contents(r, v) \in {txt, << >>}
<1> DEFINE r == FromBytes(m, v, txt, got)
<1>1. v \in Desc /\ m \in Memory BY DEF Intact, Sets
<1>2. CASE txt = << >>
  <2>1. r = UStrDelete(m, v) BY <1>2 DEF FromBytes
  <2>2. H \ {v} = H /\ Desc \cup {v} = Desc BY <1>1
  <2> HIDE DEF r
  <2>3. /\ Intact(r, A, H \ {v}, Desc \cup {v}, L)
        /\ r.desc[v] = Zero /\ Keeps(m, r, Desc \ {v})
    BY <1>1, <2>1, DeleteSound
  <2>4. Contents(r, v) = << >> BY <2>3, ZeroText
  <2> QED BY <2>2, <2>3, <2>4 DEF r
<1>3. CASE txt # << >>
  <2> DEFINE k == UStrRealloc(m, v, Len(txt), FALSE, got, FALSE)
  <2>1. r = CopyTo(k, v, txt) BY <1>3 DEF FromBytes
  <2>2. Len(txt) \in Nat /\ ~ TooBig(Len(txt)) BY SizeAssumption DEF TooBig
  <2>3. Sized(k, m, v, Len(txt), A, H, Desc, L)
    BY <1>1, <2>2, ReallocSound
  <2> HIDE DEF k, r
  <2>4. /\ Intact(CopyTo(k, v, txt), A, H, Desc, L)
        /\ Keeps(m, CopyTo(k, v, txt), Desc \ {v})
        /\ Contents(CopyTo(k, v, txt), v) \in {txt, << >>}
    BY <1>1, <2>3, WriteSizedSound
  <2> QED BY <2>1, <2>4 DEF r
<1> QED BY <1>2, <1>3

(* All temps in flight, whoever holds them. *)
AllHeld == UNION {held[t] : t \in Thread}

(* Which variables and temps there are, and whose. *)
NamesInv ==
  /\ scope \subseteq Var /\ Shared \subseteq scope
  /\ held \in [Thread -> SUBSET Temps]
  /\ \A t, u \in Thread : t # u => held[t] \cap held[u] = {}
  /\ \A t \in Thread : held[t] \cap Tmp \subseteq {Stack[t]}

(* The calls a thread can be in, by what they name. *)
Legal(t, c) ==
  \/ /\ c.op \in {"assign", "append"} /\ Uses(c) = {c.a}
     /\ c.dst \in Named(t) /\ c.a \in Operands(t) /\ c.a # c.dst
  \/ /\ c.op = "input" /\ Uses(c) = {c.a}
     /\ c.dst \in Named(t) /\ c.a \in Raw
  \/ /\ c.op \in {"print", "encode", "release"} /\ Uses(c) = {c.a}
     /\ c.a \in Operands(t)
  \/ /\ c.op = "result" /\ Uses(c) = {}
     /\ c.dst = Own[t] /\ Own[t] \in scope
  \/ /\ c.op \in {"compare", "concat"} /\ Uses(c) = {c.a, c.b}
     /\ c.a \in Shared /\ c.b \in Operands(t)
     /\ c.op = "concat" => Stack[t] \notin held[t]

(* The calls that begin are legal. *)
LEMMA CallsLegal ==
  ASSUME NEW t, NEW c \in CallsOf(t)
  PROVE  Legal(t, c)
<1>1. CASE c \in {d \in [op : {"assign", "append"}, dst : Named(t),
                         a : Operands(t)] : d.a # d.dst}
  <2>1. {"a", "b"} \cap DOMAIN c = {"a"} BY <1>1
  <2>2. Uses(c) = {c.a} BY <2>1 DEF Uses
  <2> QED BY <1>1, <2>2 DEF Legal
<1>2. CASE c \in [op : {"input"}, dst : Named(t), a : Raw]
  <2>1. {"a", "b"} \cap DOMAIN c = {"a"} BY <1>2
  <2>2. Uses(c) = {c.a} BY <2>1 DEF Uses
  <2> QED BY <1>2, <2>2 DEF Legal
<1>3. CASE c \in [op : {"print", "encode"}, a : Operands(t)]
  <2>1. {"a", "b"} \cap DOMAIN c = {"a"} BY <1>3
  <2>2. Uses(c) = {c.a} BY <2>1 DEF Uses
  <2> QED BY <1>3, <2>2 DEF Legal
<1>4. CASE c \in [op : {"result"}, dst : {Own[t]} \cap scope]
  <2>1. {"a", "b"} \cap DOMAIN c = {} BY <1>4
  <2>2. Uses(c) = {} BY <2>1 DEF Uses
  <2> QED BY <1>4, <2>2 DEF Legal
<1>5. ASSUME NEW p \in Pairs(t), NEW op \in {"compare", "concat"},
             c = [op |-> op, a |-> p[1], b |-> p[2]],
             op = "concat" => Stack[t] \notin held[t]
      PROVE  Legal(t, c)
  <2>1. {"a", "b"} \cap DOMAIN c = {"a", "b"} BY <1>5
  <2>2. Uses(c) = {c.a, c.b} BY <2>1 DEF Uses
  <2>3. p[1] \in Shared /\ p[2] \in Operands(t) BY DEF Pairs
  <2> QED BY <1>5, <2>2, <2>3 DEF Legal
<1> QED BY <1>1, <1>2, <1>3, <1>4, <1>5 DEF CallsOf

(* The operands a thread can name. *)
LEMMA NamedApart ==
  ASSUME NamesInv, NEW t \in Thread
  PROVE  /\ \A o \in Operands(t) : /\ o \in AnyOperand
                                   /\ o \in Slot => o \in AllHeld
                                   /\ o \in Var => o \in Named(t)
                                   /\ o \in AllHeld => o \in held[t]
                                   /\ o \in Temps => o \in held[t]
         /\ Named(t) \subseteq scope /\ Shared \subseteq scope
         /\ Named(t) \subseteq Shared \cup {Own[t]}
         /\ Var \subseteq Desc \ Slot /\ Var \cap Temps = {}
         /\ AllHeld \subseteq Temps /\ Var \cap AllHeld = {}
         /\ Own[t] \in Var /\ Stack[t] \in Tmp /\ Tmp \subseteq Temps
         /\ Temps \subseteq Desc /\ Var \cup AllHeld \subseteq Desc
<1>1. /\ Var \subseteq Desc \ Slot /\ Var \cap Temps = {} /\ Temps \subseteq Desc
      /\ Tmp \subseteq Temps /\ Raw \cap Desc = {}
  BY NameAssumption DEF Desc, Temps
<1>2. AllHeld \subseteq Temps /\ held[t] \subseteq AllHeld
  BY DEF NamesInv, AllHeld
<1>3. Own[t] \in Var /\ Stack[t] \in Tmp BY ThreadAssumption
<1>4. /\ Named(t) \subseteq scope /\ Shared \subseteq scope
      /\ Named(t) \subseteq Shared \cup {Own[t]} /\ scope \subseteq Var
  BY DEF NamesInv, Named
<1>5. Var \cap AllHeld = {} /\ Var \cup AllHeld \subseteq Desc BY <1>1, <1>2
<1>6. ASSUME NEW o \in Operands(t)
      PROVE  /\ o \in AnyOperand
             /\ o \in Slot => o \in AllHeld
             /\ o \in Var => o \in Named(t)
             /\ o \in AllHeld => o \in held[t]
             /\ o \in Temps => o \in held[t]
  <2>1. Slot \subseteq Temps BY DEF Temps
  <2>2. CASE o \in Named(t)
    <3>1. o \in Var /\ o \in Desc /\ o \notin Temps BY <1>1, <1>4, <2>2
    <3> QED BY <1>2, <2>1, <2>2, <3>1 DEF AnyOperand
  <2>3. CASE o \in held[t]
    <3>1. o \in Temps /\ o \in AllHeld BY <1>2, <2>3
    <3> QED BY <1>1, <2>3, <3>1 DEF AnyOperand
  <2>4. CASE o \in Raw
    <3>1. o \notin Desc BY <1>1, <2>4
    <3> QED BY <1>1, <1>2, <2>1, <2>4, <3>1 DEF AnyOperand
  <2> QED BY <2>2, <2>3, <2>4 DEF Operands
<1> QED BY <1>1, <1>2, <1>3, <1>4, <1>5, <1>6

-----------------------------------------------------------------------------
(* What a call does to the memory it loaded.                               *)

(* The temps in flight after it, where H are those in flight before. *)
Flying(c, r, H) == (H \ Passed(c)) \cup ({r.at} \cap Temps)

(* A memory between two calls with the temps H in flight. *)
Whole(m, H) == \E L : Intact(m, Var \cup H, H, Desc, L)

Ending(c) == IF c.op = "result" THEN {c.dst} ELSE {}

GivenText(m, c) == IF c.op = "concat" THEN TextOf(m, c.a) \o TextOf(m, c.b)
                   ELSE Contents(m, c.dst)

(* r is what call c of thread t makes of m: it writes its destination,     *)
(* releases its operands, ends the frame of a FUNCTION, and a temp it      *)
(* hands back was free and holds the text it should.                       *)
Does(m, r, t, c, H) ==
  /\ {r.at} \cap Temps \cap H = {}
  /\ {r.at} \cap Temps \cap Tmp \subseteq {Stack[t]}
  /\ c.op \notin {"concat", "result"} => {r.at} \cap Temps = {}
  /\ OnlyChanges(m, r.mem, Writes(c) \cup ({r.at} \cap Temps),
                 (Passed(c) \cap H) \cup Ending(c))
  /\ r.at \in Temps => Reads(r.mem, r.at, GivenText(m, c))
  /\ c.op \in {"assign", "input"} => Stored(m, r.mem, c.dst, c.a, H)
  /\ c.op = "append" => Contents(r.mem, c.dst) \in
                          {Contents(m, c.dst) \o TextOf(m, c.a), Contents(m, c.dst)}
  /\ Whole(r.mem, Flying(c, r, H))

LEMMA NoTempThere == NullPtr \notin Temps /\ {NullPtr} \cap Temps = {}
BY NameAssumption DEF Temps, Desc

(* A call that hands nothing back. *)
LEMMA SilentDoes ==
  ASSUME NEW m, NEW k, NEW t, NEW c, NEW H, c.op \notin {"concat", "result"},
         OnlyChanges(m, k, Writes(c), Passed(c) \cap H),
         Whole(k, H \ Passed(c)),
         c.op \in {"assign", "input"} => Stored(m, k, c.dst, c.a, H),
         c.op = "append" => Contents(k, c.dst) \in
                          {Contents(m, c.dst) \o TextOf(m, c.a), Contents(m, c.dst)}
  PROVE  Does(m, [at |-> NullPtr, mem |-> k], t, c, H)
<1> DEFINE r == [at |-> NullPtr, mem |-> k]
<1>1. r.at = NullPtr /\ r.mem = k OBVIOUS
<1>2. {r.at} \cap Temps = {} /\ r.at \notin Temps BY NoTempThere
<1>3. Ending(c) = {} BY DEF Ending
<1> HIDE DEF r
<1>4. Flying(c, r, H) = H \ Passed(c) BY <1>2 DEF Flying
<1>5. /\ Writes(c) \cup ({r.at} \cap Temps) = Writes(c)
      /\ (Passed(c) \cap H) \cup Ending(c) = Passed(c) \cap H
  BY <1>2, <1>3
<1>6. Does(m, r, t, c, H) BY <1>1, <1>2, <1>4, <1>5 DEF Does
<1> QED BY <1>6 DEF r

(* Assignment: *)
LEMMA AssignDoes ==
  ASSUME NamesInv, NEW t \in Thread, NEW c, Legal(t, c), c.op = "assign",
         NEW m, NEW L, Intact(m, Var \cup AllHeld, AllHeld, Desc, L), NEW got
  PROVE  Does(m, Body(m, t, c, got), t, c, AllHeld)
<1> DEFINE r == AssignEx(m, c.dst, c.a, FALSE, got)
           A == Var \cup AllHeld
           H == AllHeld
<1>1. /\ c.dst \in Named(t) /\ c.a \in Operands(t) /\ Uses(c) = {c.a}
      /\ Body(m, t, c, got) = [at |-> NullPtr, mem |-> r]
  BY DEF Legal, Body
<1>2. /\ c.dst \in A \ H /\ c.a \in AnyOperand /\ (c.a \in Slot => c.a \in H)
  BY <1>1, NamedApart DEF NamesInv
<1>3. /\ Passed(c) = {c.a} /\ Writes(c) = {c.dst} /\ Ending(c) = {}
  BY <1>1 DEF Passed, Writes, Ending
<1>4. A \ ({c.a} \cap H) = Var \cup (H \ {c.a})
  BY NamedApart
<1> HIDE DEF A, H, r
<1>5. Intact(m, A, H, Desc, L) BY DEF A, H
<1>6. /\ Intact(r, A \ ({c.a} \cap H), H \ {c.a}, Desc, L)
      /\ OnlyChanges(m, r, {c.dst}, {c.a} \cap H)
      /\ Stored(m, r, c.dst, c.a, H)
  BY <1>2, <1>5, AssignExSound DEF r
<1>7. Whole(r, H \ {c.a}) BY <1>4, <1>6 DEF Whole
<1>8. Does(m, [at |-> NullPtr, mem |-> r], t, c, H)
  BY <1>3, <1>6, <1>7, SilentDoes
<1> QED BY <1>1, <1>8 DEF H

(* Append in place: *)
LEMMA AppendDoes ==
  ASSUME NamesInv, NEW t \in Thread, NEW c, Legal(t, c), c.op = "append",
         NEW m, NEW L, Intact(m, Var \cup AllHeld, AllHeld, Desc, L), NEW got
  PROVE  Does(m, Body(m, t, c, got), t, c, AllHeld)
<1> DEFINE r == ConcatAssign(m, c.dst, c.a, got, TRUE)
           A == Var \cup AllHeld
           H == AllHeld
<1>1. /\ c.dst \in Named(t) /\ c.a \in Operands(t) /\ Uses(c) = {c.a}
      /\ c.a # c.dst /\ Body(m, t, c, got) = [at |-> NullPtr, mem |-> r]
  BY DEF Legal, Body
<1>2. /\ c.dst \in A \ H /\ c.a \in AnyOperand /\ (c.a \in Slot => c.a \in H)
  BY <1>1, NamedApart DEF NamesInv
<1>3. /\ Passed(c) = {c.a} /\ Writes(c) = {c.dst}
  BY <1>1 DEF Passed, Writes
<1>4. A \ ({c.a} \cap H) = Var \cup (H \ {c.a})
  BY NamedApart
<1> HIDE DEF A, H, r
<1>5. Intact(m, A, H, Desc, L) BY DEF A, H
<1>6. /\ Intact(r, A \ ({c.a} \cap H), H \ {c.a}, Desc, L)
      /\ OnlyChanges(m, r, {c.dst}, {c.a} \cap H)
      /\ c.a # c.dst => Contents(r, c.dst) \in
           {Contents(m, c.dst) \o TextOf(m, c.a), Contents(m, c.dst)}
  BY <1>2, <1>5, ConcatAssignSound DEF r
<1>7. Whole(r, H \ {c.a}) BY <1>4, <1>6 DEF Whole
<1>8. Does(m, [at |-> NullPtr, mem |-> r], t, c, H)
  BY <1>1, <1>3, <1>6, <1>7, SilentDoes
<1> QED BY <1>1, <1>8 DEF H

(* A line from a file: *)
LEMMA InputDoes ==
  ASSUME NamesInv, NEW t \in Thread, NEW c, Legal(t, c), c.op = "input",
         NEW m, NEW L, Intact(m, Var \cup AllHeld, AllHeld, Desc, L), NEW got
  PROVE  Does(m, Body(m, t, c, got), t, c, AllHeld)
<1> DEFINE txt == RawText[c.a]
           r == FromBytes(m, c.dst, txt, got)
           A == Var \cup AllHeld
           H == AllHeld
<1>1. /\ c.dst \in Named(t) /\ c.a \in Raw /\ Uses(c) = {c.a}
      /\ Body(m, t, c, got) = [at |-> NullPtr, mem |-> r]
  BY DEF Legal, Body
<1>2. c.dst \in A \ H /\ c.dst \in Desc
  BY <1>1, NamedApart DEF NamesInv
<1>3. /\ Passed(c) = {c.a} /\ Writes(c) = {c.dst}
  BY <1>1 DEF Passed, Writes
<1>4. txt \in Seq(Char) /\ Len(txt) <= MaxUnits
  <2>1. txt \in Seq(Unit) BY <1>1, RawAssumption
  <2> QED BY <1>1, <2>1, RawAssumption DEF Char
<1>5. /\ c.a \notin H /\ H \ {c.a} = H
      /\ TextOf(m, c.a) = txt
  BY <1>1, NamedApart, NameAssumption DEF TextOf
<1> HIDE DEF A, H, r, txt
<1>6. Intact(m, A, H, Desc, L) BY DEF A, H
<1>7. /\ Intact(r, A, H, Desc, L) /\ Keeps(m, r, Desc \ {c.dst})
      /\ Contents(r, c.dst) \in {txt, << >>}
  BY <1>2, <1>4, <1>6, FromBytesIntact DEF r
<1>8. Whole(r, H \ {c.a}) BY <1>5, <1>7 DEF Whole, A, H
<1>9. Stored(m, r, c.dst, c.a, H) BY <1>5, <1>7 DEF Stored, Reads
<1>10. OnlyChanges(m, r, {c.dst}, {c.a} \cap H)
  <2>1. {c.a} \cap H = {} BY <1>5
  <2> QED BY <2>1, <1>7, ChangesOne
<1>11. Does(m, [at |-> NullPtr, mem |-> r], t, c, H)
  BY <1>3, <1>8, <1>9, <1>10, SilentDoes
<1> QED BY <1>1, <1>11 DEF H

(* Comparison, PRINT, the release after an encoding: operands are released. *)
LEMMA ReleaseDoes ==
  ASSUME NamesInv, NEW t \in Thread, NEW c, Legal(t, c),
         c.op \in {"compare", "print", "release"},
         NEW m, NEW L, Intact(m, Var \cup AllHeld, AllHeld, Desc, L), NEW got
  PROVE  Does(m, Body(m, t, c, got), t, c, AllHeld)
<1> DEFINE A == Var \cup AllHeld
           H == AllHeld
<1>1. Writes(c) = {} /\ Passed(c) = Uses(c) BY DEF Writes, Passed
<1>2. A \ (Uses(c) \cap H) = Var \cup (H \ Uses(c)) BY NamedApart
<1>3. ASSUME NEW r, Intact(r, A \ (Uses(c) \cap H), H \ Uses(c), Desc, L),
             OnlyChanges(m, r, {}, Uses(c) \cap H)
      PROVE  Does(m, [at |-> NullPtr, mem |-> r], t, c, H)
  <2>1. Whole(r, H \ Uses(c)) BY <1>2, <1>3 DEF Whole
  <2> QED BY <1>1, <1>3, <2>1, SilentDoes
<1>4. CASE c.op = "compare"
  <2> DEFINE r == Release(Release(m, c.a), c.b)
  <2>1. /\ c.a \in Shared /\ c.b \in Operands(t) /\ Uses(c) = {c.a, c.b}
        /\ Body(m, t, c, got) = [at |-> NullPtr, mem |-> r]
    BY <1>4 DEF Legal, Body
  <2>2. c.a \in Var BY <2>1 DEF Shared
  <2>3. /\ c.a \in AnyOperand /\ (c.a \in Slot => c.a \in H) /\ c.a \notin H
        /\ c.b \in AnyOperand /\ (c.b \in Slot => c.b \in H)
    BY <2>1, <2>2, NamedApart DEF AnyOperand
  <2> HIDE DEF A, H, r
  <2>4. Intact(m, A, H, Desc, L) BY DEF A, H
  <2>5. /\ Intact(r, A \ ({c.a, c.b} \cap H), H \ {c.a, c.b}, Desc, L)
        /\ OnlyChanges(m, r, {}, {c.a, c.b} \cap H)
    BY <2>3, <2>4, ReleaseTwoSound DEF r
  <2> QED BY <1>3, <2>1, <2>5 DEF H
<1>5. CASE c.op \in {"print", "release"}
  <2> DEFINE r == Release(m, c.a)
  <2>1. /\ c.a \in Operands(t) /\ Uses(c) = {c.a}
        /\ Body(m, t, c, got) = [at |-> NullPtr, mem |-> r]
    BY <1>5 DEF Legal, Body
  <2>2. c.a \in AnyOperand /\ (c.a \in Slot => c.a \in H)
    BY <2>1, NamedApart
  <2> HIDE DEF A, H, r
  <2>3. Intact(m, A, H, Desc, L) BY DEF A, H
  <2>4. /\ Intact(r, A \ ({c.a} \cap H), H \ {c.a}, Desc, L)
        /\ OnlyChanges(m, r, {}, {c.a} \cap H)
    BY <2>2, <2>3, ReleaseSound DEF r
  <2> QED BY <1>3, <2>1, <2>4 DEF H
<1> QED BY <1>4, <1>5

(* Encoding into bytes leaves the memory alone. *)
LEMMA EncodeDoes ==
  ASSUME NamesInv, NEW t \in Thread, NEW c, Legal(t, c), c.op = "encode",
         NEW m, NEW L, Intact(m, Var \cup AllHeld, AllHeld, Desc, L), NEW got
  PROVE  Does(m, Body(m, t, c, got), t, c, AllHeld)
<1>1. Body(m, t, c, got) = [at |-> NullPtr, mem |-> m] BY DEF Body
<1>2. Writes(c) = {} /\ Passed(c) = {} BY DEF Writes, Passed
<1>3. OnlyChanges(m, m, {}, {}) BY DEF OnlyChanges, Keeps
<1>4. Whole(m, AllHeld) BY DEF Whole
<1>5. AllHeld \ {} = AllHeld /\ {} \cap AllHeld = {} OBVIOUS
<1>6. Does(m, [at |-> NullPtr, mem |-> m], t, c, AllHeld)
  BY <1>2, <1>3, <1>4, <1>5, SilentDoes
<1> QED BY <1>1, <1>6

(* Nobody has the stack temp of a thread that does not hold it. *)
LEMMA StackFree ==
  ASSUME NamesInv, NEW t \in Thread, Stack[t] \notin held[t]
  PROVE  Stack[t] \notin AllHeld
<1> SUFFICES ASSUME NEW u \in Thread, Stack[t] \in held[u] PROVE FALSE
  BY DEF AllHeld
<1>1. Stack[t] \in Tmp BY ThreadAssumption
<1>2. Stack[t] \in {Stack[u]} BY <1>1 DEF NamesInv
<1> QED BY <1>2, ThreadAssumption

(* Concatenation: *)
LEMMA ConcatDoes ==
  ASSUME NamesInv, NEW t \in Thread, NEW c, Legal(t, c), c.op = "concat",
         NEW m, NEW L, Intact(m, Var \cup AllHeld, AllHeld, Desc, L), NEW got
  PROVE  Does(m, Body(m, t, c, got), t, c, AllHeld)
<1> DEFINE s == Stack[t]
           A == Var \cup AllHeld
           H == AllHeld
           G == {c.a, c.b} \cap H
           r == Concat(m, s, c.a, c.b, got)
           txt == TextOf(m, c.a) \o TextOf(m, c.b)
<1>1. /\ c.a \in Shared /\ c.b \in Operands(t) /\ Uses(c) = {c.a, c.b}
      /\ s \notin held[t]
  BY DEF Legal
<1>2. s \in Tmp /\ s \in Desc /\ s \notin H /\ s \in Temps /\ s \notin Var
  BY <1>1, StackFree, NamedApart
<1>3. m.desc[s] = Zero BY <1>2 DEF Intact, Marked
<1>4. Body(m, t, c, got) = r
  <2>1. SetDesc(m, s, Zero) = m BY <1>2, <1>3, SetSame DEF Intact
  <2> QED BY <2>1 DEF Body
<1>5. c.a \in Var BY <1>1 DEF Shared
<1>6. /\ c.a \in AnyOperand /\ c.a # s /\ c.a \notin H /\ c.a \notin Slot
      /\ c.b \in AnyOperand /\ (c.b \in Slot => c.b \in H) /\ c.b # s
  BY <1>1, <1>2, <1>5, NamedApart DEF AnyOperand
<1>7. /\ Passed(c) = {c.a, c.b} /\ Writes(c) = {} /\ Ending(c) = {}
      /\ GivenText(m, c) = txt
  BY <1>1 DEF Passed, Writes, Ending, GivenText
<1>8. /\ A \ G = Var \cup (H \ {c.a, c.b}) /\ H \subseteq Temps
      /\ (A \cup {s}) \ G = Var \cup ((H \cup {s}) \ {c.a, c.b})
      /\ (H \cup {s}) \ {c.a, c.b} = (H \ {c.a, c.b}) \cup {s}
  BY <1>2, <1>6, NamedApart
<1> HIDE DEF A, H, r, txt, s
<1>9. Intact(m, A, H, Desc, L) /\ s \notin A BY <1>2 DEF A, H
<1>10. \/ /\ r.at = NullPtr
          /\ Intact(r.mem, A \ G, H \ {c.a, c.b}, Desc, L)
          /\ OnlyChanges(m, r.mem, {}, G)
       \/ /\ r.at = s
          /\ Intact(r.mem, (A \cup {s}) \ G, (H \cup {s}) \ {c.a, c.b}, Desc, L)
          /\ OnlyChanges(m, r.mem, {s}, G)
          /\ Reads(r.mem, s, txt)
  BY <1>2, <1>3, <1>6, <1>9, ConcatSound DEF r, txt
<1>11. CASE r.at = NullPtr
  <2>1. r.at # s BY <1>2, <1>11, NoTempThere
  <2>2. /\ Intact(r.mem, A \ G, H \ {c.a, c.b}, Desc, L)
        /\ OnlyChanges(m, r.mem, {}, G)
    BY <1>10, <2>1
  <2>3. {r.at} \cap Temps = {} /\ r.at \notin Temps BY <1>11, NoTempThere
  <2>4. Flying(c, r, H) = H \ {c.a, c.b} BY <1>7, <2>3 DEF Flying
  <2>5. Whole(r.mem, H \ {c.a, c.b}) BY <1>8, <2>2 DEF Whole
  <2>6. /\ Writes(c) \cup ({r.at} \cap Temps) = {}
        /\ (Passed(c) \cap H) \cup Ending(c) = G
    BY <1>7, <2>3
  <2>7. Does(m, r, t, c, H) BY <2>2, <2>3, <2>4, <2>5, <2>6 DEF Does
  <2> QED BY <1>4, <2>7 DEF H
<1>12. CASE r.at = s
  <2>1. r.at # NullPtr BY <1>2, <1>12, NoTempThere
  <2>2. /\ Intact(r.mem, (A \cup {s}) \ G, (H \cup {s}) \ {c.a, c.b}, Desc, L)
        /\ OnlyChanges(m, r.mem, {s}, G)
        /\ Reads(r.mem, s, txt)
    BY <1>10, <2>1
  <2>3. {r.at} \cap Temps = {s} BY <1>2, <1>12
  <2>4. Flying(c, r, H) = (H \cup {s}) \ {c.a, c.b} BY <1>7, <1>8, <2>3 DEF Flying
  <2>5. Whole(r.mem, (H \cup {s}) \ {c.a, c.b}) BY <1>8, <2>2 DEF Whole
  <2>6. /\ Writes(c) \cup ({r.at} \cap Temps) = {s}
        /\ (Passed(c) \cap H) \cup Ending(c) = G
    BY <1>7, <2>3
  <2>7. {s} \cap H = {} /\ {s} \cap Tmp \subseteq {Stack[t]}
    BY <1>2 DEF s
  <2>8. Does(m, r, t, c, H)
    BY <1>7, <1>12, <2>2, <2>3, <2>4, <2>5, <2>6, <2>7 DEF Does
  <2> QED BY <1>4, <2>8 DEF H
<1> QED BY <1>10, <1>11, <1>12

(* The result of a FUNCTION: *)
LEMMA ResultDoes ==
  ASSUME NamesInv, NEW t \in Thread, NEW c, Legal(t, c), c.op = "result",
         NEW m, NEW L, Intact(m, Var \cup AllHeld, AllHeld, Desc, L), NEW got
  PROVE  Does(m, Body(m, t, c, got), t, c, AllHeld)
<1> DEFINE v == c.dst
           A == Var \cup AllHeld
           H == AllHeld
           k == TempResult(m, v)
           r == [at |-> k.at, mem |-> SetDesc(k.mem, v, Zero)]
<1>1. v = Own[t] /\ v \in Var /\ Uses(c) = {} /\ Body(m, t, c, got) = r
  BY ThreadAssumption DEF Legal, Body
<1>2. v \in (A \cap Var) \ H /\ v \in Desc /\ v \notin Slot /\ H \ {v} = H
  BY <1>1, NamedApart
<1>3. /\ Passed(c) = {} /\ Writes(c) = {} /\ Ending(c) = {v}
      /\ GivenText(m, c) = Contents(m, v)
  BY <1>1 DEF Passed, Writes, Ending, GivenText
<1>4. r.at = k.at /\ r.mem = SetDesc(k.mem, v, Zero) OBVIOUS
<1> HIDE DEF A, H, r, v, k
<1>5. Intact(m, A, H, Desc, L) BY DEF A, H
<1>6. Returned(m, k, v, A, H, L)
  BY <1>2, <1>5, TempResultSound DEF k
<1>7. CASE k.at \notin Temps /\ k.mem = m
  <2>1. k.at \notin Temps BY <1>7
  <2>2. k.mem = m BY <1>7
  <2> DEFINE K == L \cup ({Data(m, v)} \ {NoBlock})
  <2>3. /\ Intact(r.mem, A \ {v}, H, Desc, K)
        /\ OnlyChanges(m, r.mem, {}, {v})
    BY <1>2, <1>4, <1>5, <2>2, AbandonSound
  <2> HIDE DEF K
  <2>4. Intact(r.mem, (A \ {v}) \cup {v}, H, Desc, K)
    BY <1>2, <2>3, EnterSound
  <2>5. (A \ {v}) \cup {v} = Var \cup H BY <1>2 DEF A, H
  <2>6. {r.at} \cap Temps = {} /\ r.at \notin Temps BY <1>4, <2>1
  <2>7. Flying(c, r, H) = H BY <1>3, <2>6 DEF Flying
  <2>8. Whole(r.mem, H) BY <2>4, <2>5 DEF Whole
  <2>9. /\ Writes(c) \cup ({r.at} \cap Temps) = {}
        /\ (Passed(c) \cap H) \cup Ending(c) = {v}
    BY <1>3, <2>6
  <2>10. Does(m, r, t, c, H) BY <2>3, <2>6, <2>7, <2>8, <2>9 DEF Does
  <2> QED BY <1>1, <2>10 DEF H
<1>8. ASSUME NEW s \in Slot \ A, k.at = s, k.mem.desc[v] = Zero,
             Intact(k.mem, A \cup {s}, H \cup {s}, Desc, L),
             Keeps(m, k.mem, Desc \ {v, s}), Reads(k.mem, s, Contents(m, v))
      PROVE  Does(m, Body(m, t, c, got), t, c, AllHeld)
  <2>1. s \in Slot \ A /\ s \in Temps /\ s \in Desc /\ s # v
    BY <1>2, NameAssumption DEF Temps, Desc
  <2>2. /\ Intact(k.mem, A \cup {s}, H \cup {s}, Desc, L)
        /\ OnlyChanges(m, k.mem, {s}, {v})
        /\ Reads(k.mem, s, Contents(m, v))
    <3>1. Desc \ {v, s} = Desc \ ({s} \cup {v}) OBVIOUS
    <3> QED BY <1>8, <3>1 DEF OnlyChanges
  <2>3. r.mem = k.mem
    <3>1. k.mem.desc[v] = Zero BY <2>2 DEF OnlyChanges
    <3> QED BY <1>2, <1>4, <2>2, <3>1, SetSame DEF Intact
  <2>4. {r.at} \cap Temps = {s} /\ r.at = s BY <1>4, <1>8, <2>1
  <2>5. Flying(c, r, H) = H \cup {s} BY <1>3, <2>4 DEF Flying
  <2>6. A \cup {s} = Var \cup (H \cup {s}) BY DEF A, H
  <2>7. Whole(r.mem, H \cup {s}) BY <2>2, <2>3, <2>6 DEF Whole
  <2>8. /\ Writes(c) \cup ({r.at} \cap Temps) = {s}
        /\ (Passed(c) \cap H) \cup Ending(c) = {v}
    BY <1>3, <2>4
  <2>9. {s} \cap H = {} /\ {s} \cap Tmp = {}
    BY <2>1, NameAssumption DEF A, H
  <2>10. Does(m, r, t, c, H)
    BY <1>3, <2>2, <2>3, <2>4, <2>5, <2>7, <2>8, <2>9 DEF Does
  <2> QED BY <1>1, <2>10 DEF H
<1> QED BY <1>6, <1>7, <1>8 DEF Returned

(* Any call. *)
LEMMA BodyDoes ==
  ASSUME NamesInv, NEW t \in Thread, NEW c, Legal(t, c),
         NEW m, NEW L, Intact(m, Var \cup AllHeld, AllHeld, Desc, L), NEW got
  PROVE  Does(m, Body(m, t, c, got), t, c, AllHeld)
<1>1. c.op \in {"assign", "append", "input", "print", "encode", "release",
                "result", "compare", "concat"}
  BY DEF Legal
<1> QED BY <1>1, AssignDoes, AppendDoes, InputDoes, ReleaseDoes, EncodeDoes,
           ResultDoes, ConcatDoes

-----------------------------------------------------------------------------
(* The same call, seen from the memory as it is: the variables in G, of    *)
(* frames that ended since the call loaded it, are no concern of the call. *)

LEMMA WithoutOperand ==
  ASSUME NEW m, NEW A, NEW H, NEW L, Intact(m, A, H, Desc, L),
         NEW G \in SUBSET Desc, NEW o, o \notin G
  PROVE  TextOf(Without(m, G), o) = TextOf(m, o)
<1>1. CASE o \in Desc
  <2>1. Contents(Without(m, G), o) = Contents(m, o) BY <1>1, WithoutText
  <2> QED BY <1>1, <2>1, NameAssumption DEF TextOf
<1>2. CASE o \notin Desc
  BY <1>2, NameAssumption DEF TextOf
<1> QED BY <1>1, <1>2

(* The variables whose frames have ended. *)
Left == Var \ scope

(* What a call names: the operands it reads, and the variable it writes or *)
(* whose frame it ends.                                                    *)
Names(c) ==
  /\ Writes(c) \cup Ending(c) \subseteq Var
  /\ c.op \in {"assign", "append", "input", "concat"} => c.a \in Uses(c)
  /\ c.op = "concat" => c.b \in Uses(c)

LEMMA LiftDoes ==
  ASSUME NEW m, NEW H, Whole(m, H), NEW r, NEW t, NEW c, Does(m, r, t, c, H),
         Names(c), NEW G \in SUBSET Var,
         G \cap (Writes(c) \cup Ending(c)) = {}, G \cap Uses(c) = {},
         NEW q, q.at = r.at, q.mem = Without(r.mem, G)
  PROVE  /\ Does(Without(m, G), q, t, c, H)
         /\ Changed(Without(m, G), m, r.mem) = q.mem
<1> DEFINE T == {r.at} \cap Temps
           D == Writes(c) \cup T
           Z == (Passed(c) \cap H) \cup Ending(c)
           J == Flying(c, r, H)
           k == r.mem
<1>1. PICK L : Intact(m, Var \cup H, H, Desc, L) BY DEF Whole
<1>2. /\ T \cap H = {} /\ T \cap Tmp \subseteq {Stack[t]}
      /\ c.op \notin {"concat", "result"} => T = {}
      /\ OnlyChanges(m, k, D, Z)
      /\ r.at \in Temps => Reads(k, r.at, GivenText(m, c))
      /\ c.op \in {"assign", "input"} => Stored(m, k, c.dst, c.a, H)
      /\ c.op = "append" => Contents(k, c.dst) \in
           {Contents(m, c.dst) \o TextOf(m, c.a), Contents(m, c.dst)}
      /\ Whole(k, J)
  BY DEF Does
<1>3. PICK M : Intact(k, Var \cup J, J, Desc, M) BY <1>2 DEF Whole
<1>4. Var \cap Temps = {} /\ Var \subseteq Desc /\ Temps \subseteq Desc
  BY NameAssumption DEF Temps, Desc
<1>5. /\ H \subseteq Temps /\ J \subseteq Temps /\ m \in Memory /\ k \in Memory
      /\ G \in SUBSET Desc /\ G \in SUBSET (Desc \ J)
  BY <1>1, <1>3, <1>4 DEF Intact, Sets
<1>6. /\ Flying(c, q, H) = J /\ {q.at} \cap Temps = T
  BY DEF Flying
<1>7. Z \in SUBSET Desc /\ Z \cap G = {} /\ D \cap G = {} /\ T \cap G = {}
  BY <1>4, <1>5 DEF Names
<1> DEFINE n == Without(m, G)
           w == Without(k, G)
<1> HIDE DEF T, D, Z, J, k, n, w
<1>8. OnlyChanges(n, w, D, Z)
  BY <1>1, <1>2, <1>3, <1>5, <1>7, ChangesWithout DEF n, w
<1>9. Whole(w, J)
  BY <1>3, <1>5, WithoutIntact DEF Whole, w
<1>10. \A o : o \notin G => TextOf(n, o) = TextOf(m, o)
  BY <1>1, <1>5, WithoutOperand DEF n
<1>11. \A d \in Desc \ G : Contents(n, d) = Contents(m, d)
  BY <1>1, <1>5, WithoutText DEF n
<1>12. \A d \in Desc \ G : Contents(w, d) = Contents(k, d)
  BY <1>3, <1>5, WithoutText DEF w
<1>13. r.at \in Temps => Reads(w, r.at, GivenText(n, c))
  <2> SUFFICES ASSUME r.at \in Temps PROVE Reads(w, r.at, GivenText(n, c))
    OBVIOUS
  <2>1. r.at \in Desc \ G BY <1>4, <1>7 DEF T
  <2>2. GivenText(n, c) = GivenText(m, c)
    <3>1. CASE c.op = "concat"
      BY <3>1, <1>10 DEF GivenText, Names
    <3>2. CASE c.op = "result"
      <4>1. c.dst \in Desc \ G BY <3>2, <1>4 DEF Ending, Names
      <4> QED BY <3>2, <4>1, <1>11 DEF GivenText
    <3> QED BY <3>1, <3>2, <1>2 DEF T
  <2> QED BY <2>1, <2>2, <1>2, <1>12 DEF Reads
<1>14. c.op \in {"assign", "append", "input"} =>
         c.dst \in Desc \ G /\ TextOf(n, c.a) = TextOf(m, c.a)
  BY <1>4, <1>10 DEF Writes, Names
<1>15. c.op \in {"assign", "input"} => Stored(n, w, c.dst, c.a, H)
  BY <1>2, <1>12, <1>14 DEF Stored, Reads
<1>16. c.op = "append" => Contents(w, c.dst) \in
         {Contents(n, c.dst) \o TextOf(n, c.a), Contents(n, c.dst)}
  BY <1>2, <1>11, <1>12, <1>14
<1>17. q.mem = w /\ q.at = r.at BY DEF w, k
<1>18. Does(n, q, t, c, H)
  BY <1>2, <1>6, <1>8, <1>9, <1>13, <1>15, <1>16, <1>17 DEF Does, T, D, Z
<1>19. Keeps(m, k, G)
  <2>1. G \subseteq Desc \ (D \cup Z) BY <1>5, <1>7
  <2> QED BY <2>1, <1>2, KeepsFewer DEF OnlyChanges
<1>20. Changed(n, m, k) = w BY <1>5, <1>19, StoreBack DEF n, w
<1> QED BY <1>18, <1>20, <1>17 DEF n, k

(* What a legal call names is in scope, or in the thread's own hands. *)
LEMMA LegalNames ==
  ASSUME NamesInv, NEW t \in Thread, NEW c, Legal(t, c)
  PROVE  /\ Names(c) /\ Passed(c) \subseteq Uses(c)
         /\ Uses(c) \subseteq Operands(t)
         /\ Writes(c) \cup Ending(c) \subseteq Named(t)
         /\ Ending(c) \subseteq {Own[t]}
         /\ (Writes(c) \cup Ending(c) \cup Uses(c)) \cap Left = {}
         /\ Passed(c) \cap AllHeld \subseteq held[t]
<1>1. /\ Uses(c) \subseteq Operands(t) /\ Writes(c) \cup Ending(c) \subseteq Named(t)
      /\ Ending(c) \subseteq {Own[t]}
  <2>1. /\ Own[t] \in scope => Own[t] \in Named(t)
        /\ \A v \in Shared : v \in Named(t) /\ v \in Operands(t)
        /\ Raw \subseteq Operands(t)
    BY DEF Named, Operands, NamesInv
  <2> QED BY <2>1 DEF Legal, Writes, Ending
<1>2. Passed(c) \subseteq Uses(c) BY DEF Passed
<1>3. /\ Named(t) \subseteq scope /\ scope \subseteq Var
      /\ \A o \in Operands(t) : /\ o \in Var => o \in Named(t)
                                /\ o \in AllHeld => o \in held[t]
  BY NamedApart DEF NamesInv
<1>4. /\ c.op \in {"assign", "append", "input", "concat"} => c.a \in Uses(c)
      /\ c.op = "concat" => c.b \in Uses(c)
  BY DEF Legal
<1>5. Names(c) BY <1>1, <1>3, <1>4 DEF Names
<1>6. (Writes(c) \cup Ending(c) \cup Uses(c)) \cap Left = {}
  BY <1>1, <1>3 DEF Left
<1>7. Passed(c) \cap AllHeld \subseteq held[t] BY <1>1, <1>2, <1>3
<1> QED BY <1>1, <1>2, <1>5, <1>6, <1>7

-----------------------------------------------------------------------------
(* The invariant *)

(* The memory is whole between calls, and what a thread inside the lock    *)
(* loaded is whole too: the two differ by the frames that ended since.     *)
MemInv ==
  /\ Whole(rt, AllHeld)
  /\ \A v \in Left : rt.desc[v] = Zero
  /\ \A t \in Thread : at[t] = "locked" =>
       Whole(seen[t], AllHeld) /\ rt = Without(seen[t], Left)

(* A thread inside a call is in one that it may make. *)
Setups == {"data a", "len a", "data b", "len b", "read"}
InCall(t) ==
  \/ at[t] \in {"lock", "locked", "inner lock", "inner locked"} \cup Setups
  \/ at[t] = "device" /\ call[t].op # "print"
CallInv ==
  \A t \in Thread : /\ InCall(t) => Legal(t, call[t])
                    /\ at[t] \in Setups => call[t].op = "compare"

(* The operands of which a comparison has the length too. *)
Measured(place) == CASE place \in {"data b", "len b"} -> {"a"}
                     [] place = "read" -> Sides
                     [] OTHER -> {}

(* What was loaded of operand o, on side f, is what it is, as far as the   *)
(* comparison has come.                                                    *)
Current(l, m, o, place, f) ==
  o \in Desc =>
    /\ f \in Pointed(place)  => l.data = Data(m, o) /\ l.cell = Cell(m, o)
    /\ f \in Measured(place) => l.len = m.desc[o].len

(* An operand that has none is not loaded. *)
Blank(l, o) == o \notin Desc => l = [data |-> NoBlock, cell |-> Dead, len |-> 0]

(* The operands of a comparison that is reading are as it loaded them,     *)
(* unless another thread stored to one.                                    *)
Watched(t) == Exposed(t) \cap Desc
AllCurrent(t) ==
  \A f \in Sides : Current(loaded[t][f], rt, call[t][f], at[t], f)
AllBlank(t) == \A f \in Sides : Blank(loaded[t][f], call[t][f])
Watch(t) == /\ t \in raced \/ AllCurrent(t)
            /\ IF at[t] \in Setups THEN AllBlank(t) ELSE loaded[t] = NotLoaded
WatchInv == \A t \in Thread : Watch(t)

Tables == /\ call = [t \in Thread |-> call[t]]
          /\ seen = [t \in Thread |-> seen[t]]
          /\ loaded = [t \in Thread |-> [f \in Sides |-> loaded[t][f]]]

(* What is left alone stays current. *)
LEMMA StaysCurrent ==
  ASSUME NEW l, NEW m, NEW r, NEW o, NEW place, NEW f,
         Current(l, m, o, place, f),
         o \in Desc /\ f \in Pointed(place) => Keeps(m, r, {o})
  PROVE  Current(l, r, o, place, f)
<1>1. Measured(place) \subseteq Pointed(place)
  <2>1. CASE place \in {"data b", "len b"}
    BY <2>1 DEF Measured, Pointed, Sides
  <2>2. CASE place = "read"
    BY <2>2 DEF Measured, Pointed
  <2>3. CASE place \notin {"data b", "len b", "read"}
    BY <2>3 DEF Measured
  <2> QED BY <2>1, <2>2, <2>3
<1>2. ASSUME o \in Desc, f \in Pointed(place)
      PROVE  r.desc[o] = m.desc[o] /\ Data(r, o) = Data(m, o) /\ Cell(r, o) = Cell(m, o)
  BY <1>2 DEF Keeps, Data, Cell
<1> QED
  BY <1>1, <1>2 DEF Current

(* Elsewhere nothing is loaded. *)
LEMMA NothingExposed ==
  ASSUME NEW place, place \notin Setups \ {"data a"}
  PROVE  /\ Pointed(place) = {} /\ Measured(place) = {}
         /\ \A l, m, o, f : Current(l, m, o, place, f)
<1>1. Pointed(place) = {} /\ Measured(place) = {}
  BY DEF Setups, Pointed, Measured
<1> QED
  BY <1>1 DEF Current

Inv == /\ LockInv /\ NamesInv /\ MemInv /\ Tables /\ CallInv /\ WatchInv
       /\ wild \subseteq raced

(* At the start every descriptor is zeroed and the heap empty. *)
LEMMA InitInv == Init => Inv
<1> SUFFICES ASSUME Init PROVE Inv
  OBVIOUS
<1> USE ThreadAssumption
<1>1. LockInv BY LockInit
<1>2. AllHeld = {} BY DEF Init, AllHeld
<1>3. Left = {} /\ Shared \subseteq Var BY DEF Init, Left, Shared
<1>4. NamesInv BY <1>3 DEF Init, NamesInv
<1>5. Whole(rt, AllHeld)
  <2>1. InitMemory \in Memory
    BY Constants DEF InitMemory, Memory
  <2>2. /\ \A d \in Desc : InitMemory.desc[d] = Zero
        /\ \A b \in Block : InitMemory.heap[b] = Dead
        /\ InitMemory.free = << >> /\ InitMemory.used = {}
    BY DEF InitMemory
  <2>3. \A d \in Desc : Data(InitMemory, d) = NoBlock
    BY <2>2 DEF Data, Zero
  <2>4. /\ Zero.len = 0 /\ Zero.size = 0 /\ ~ Zero.temp /\ ~ Dead.live
        /\ MaxUnits \in Nat
    BY SizeAssumption DEF Zero, Dead
  <2>5. Owned(InitMemory, {})
    BY <2>2, <2>3, <2>4, NameAssumption
    DEF Owned, Bound, Unshared, Reached
  <2>6. Pooled(InitMemory, Var)
    <3>1. FreeList(InitMemory) = [i \in Slot |-> i] BY <2>2 DEF FreeList
    <3>2. Var \cap Slot = {} BY NameAssumption
    <3> QED BY <2>2, <3>1, <3>2 DEF Pooled
  <2>7. Marked(InitMemory, Var, {}) /\ Written(InitMemory, Desc)
    BY <2>2, <2>3, <2>4 DEF Marked, Written
  <2>8. Sets(Var, {}, Desc, {}) BY DEF Sets, Desc
  <2>9. Intact(InitMemory, Var \cup {}, {}, Desc, {})
    BY <2>1, <2>5, <2>6, <2>7, <2>8 DEF Intact
  <2> QED BY <1>2, <2>9 DEF Whole, Init
<1>6. MemInv BY <1>3, <1>5 DEF MemInv, Init
<1>7. Tables BY DEF Init, Tables, NotLoaded
<1>8. CallInv /\ wild \subseteq raced
  BY DEF Init, CallInv, InCall, Setups
<1>9. WatchInv
  <2>1. ASSUME NEW t \in Thread  PROVE Watch(t)
    <3>1. at[t] = "idle" /\ loaded[t] = NotLoaded
      BY DEF Init
    <3>2. at[t] \notin Setups
      BY <3>1 DEF Setups
    <3> QED
      BY <3>1, <3>2, NothingExposed DEF Watch, AllCurrent
  <2> QED BY <2>1 DEF WatchInv
<1> QED BY <1>1, <1>4, <1>6, <1>7, <1>8, <1>9 DEF Inv

-----------------------------------------------------------------------------
(* The steps of a thread that leave the memory alone: what has to be shown *)
(* is about that thread only.                                              *)

Others(t) == \A u \in Thread \ {t} :
               /\ at'[u] = at[u] /\ call'[u] = call[u] /\ seen'[u] = seen[u]
               /\ loaded'[u] = loaded[u]
               /\ u \in raced => u \in raced'

LEMMA QuietStep ==
  ASSUME Inv, NEW t \in Thread, UNCHANGED << rt, scope, held >>, LockInv',
         Tables', Others(t), wild' \subseteq raced',
         at'[t] = "locked" =>
           Whole(seen'[t], AllHeld) /\ rt = Without(seen'[t], Left),
         InCall(t)' => Legal(t, call'[t]),
         at'[t] \in Setups => call'[t].op = "compare",
         Watch(t)'
  PROVE  Inv'
<1>1. AllHeld' = AllHeld /\ Left' = Left BY DEF AllHeld, Left
<1>2. NamesInv' BY DEF Inv, NamesInv
<1>3. MemInv'
  <2>1. Whole(rt, AllHeld)' BY <1>1 DEF Inv, MemInv
  <2>2. \A v \in Left' : rt'.desc[v] = Zero BY <1>1 DEF Inv, MemInv
  <2>3. ASSUME NEW u \in Thread, at'[u] = "locked"
        PROVE  Whole(seen'[u], AllHeld) /\ rt = Without(seen'[u], Left)
    BY <2>3 DEF Inv, MemInv, Others
  <2> QED BY <1>1, <2>1, <2>2, <2>3 DEF MemInv
<1>4. CallInv'
  <2>1. ASSUME NEW u \in Thread, InCall(u)' PROVE Legal(u, call'[u])
    BY <2>1 DEF Inv, CallInv, InCall, Others
  <2>2. ASSUME NEW u \in Thread, at'[u] \in Setups
        PROVE  call'[u].op = "compare"
    BY <2>2 DEF Inv, CallInv, Others
  <2>3. \A u \in Thread : Legal(u, call'[u]) <=> Legal(u, call[u])'
    BY DEF Legal, Named, Operands
  <2> QED BY <2>1, <2>2, <2>3 DEF CallInv
<1>5. WatchInv'
  <2>1. ASSUME NEW u \in Thread \ {t}  PROVE Watch(u)'
    <3>1. Watch(u) BY DEF Inv, WatchInv
    <3> QED BY <3>1 DEF Others, Watch, AllCurrent, AllBlank
  <2> QED BY <2>1 DEF WatchInv
<1> QED BY <1>2, <1>3, <1>4, <1>5 DEF Inv

LEMMA BeginInv ==
  ASSUME Inv, LockInv', NEW t \in Thread, NEW c \in CallsOf(t), Begin(t, c)
  PROVE  Inv'
<1>1. /\ at[t] = "idle" /\ call' = [call EXCEPT ![t] = c] /\ seen' = seen
      /\ at' = [at EXCEPT ![t] = FirstPlace(c.op)]
      /\ UNCHANGED << rt, scope, held, loaded, raced, wild >>
  BY DEF Begin, Goto, program, reads
<1>2. Legal(t, c) BY CallsLegal
<1>3. /\ FirstPlace(c.op) \in {"data a", "device", "lock"}
      /\ FirstPlace(c.op) \in Setups => c.op = "compare"
  BY DEF FirstPlace, Setups
<1>4. at'[t] = FirstPlace(c.op) /\ call'[t] = c
  BY <1>1 DEF Inv, LockInv, PlacesOK, Tables
<1>5. Others(t) BY <1>1 DEF Others, Inv, LockInv, PlacesOK, Tables
<1>6. Tables' BY <1>1 DEF Tables, Inv
<1>7. Watch(t)'
  <2>1. loaded'[t] = NotLoaded
    BY <1>1 DEF Inv, WatchInv, Watch, Setups
  <2>2. at'[t] \notin Setups \ {"data a"}
    BY <1>3, <1>4 DEF Setups
  <2>3. AllCurrent(t)' BY <2>2, NothingExposed DEF AllCurrent
  <2>4. AllBlank(t)' BY <2>1 DEF AllBlank, Blank, NotLoaded
  <2> QED BY <2>1, <2>3, <2>4 DEF Watch
<1> QED BY <1>1, <1>2, <1>3, <1>4, <1>5, <1>6, <1>7, QuietStep DEF Inv, InCall, Setups

LEMMA LockInvStep ==
  ASSUME Inv, LockInv', NEW t \in Thread, Lock(t)
  PROVE  Inv'
<1>1. /\ at[t] = "lock" /\ call' = call /\ seen' = [seen EXCEPT ![t] = rt]
      /\ at' = [at EXCEPT ![t] = "locked"]
      /\ UNCHANGED << rt, scope, held, loaded, raced, wild >>
  BY DEF Lock, TakeStrLock, Goto, program, reads
<1>2. at'[t] = "locked" /\ seen'[t] = rt
  BY <1>1 DEF Inv, LockInv, PlacesOK, Tables
<1>3. Others(t) BY <1>1 DEF Others, Inv, LockInv, PlacesOK, Tables
<1>4. Tables' BY <1>1 DEF Tables, Inv
<1>5. Whole(rt, AllHeld) /\ \A v \in Left : rt.desc[v] = Zero
  BY DEF Inv, MemInv
<1>6. rt = Without(rt, Left)
  <2>1. rt \in Memory BY <1>5 DEF Whole, Intact
  <2>2. Left \in SUBSET Desc BY DEF Left, Desc
  <2> QED BY <1>5, <2>1, <2>2, WithoutNone
<1>7. Legal(t, call[t]) BY <1>1 DEF Inv, CallInv, InCall
<1>8. Watch(t)'
  <2>1. at[t] \notin Setups /\ at'[t] \notin Setups
    BY <1>1, <1>2 DEF Setups
  <2>2. loaded'[t] = NotLoaded
    BY <1>1, <2>1 DEF Inv, WatchInv, Watch
  <2> QED BY <2>1, <2>2, NothingExposed DEF Watch, AllCurrent
<1>9. at'[t] \notin Setups BY <1>2 DEF Setups
<1> QED BY <1>1, <1>2, <1>3, <1>4, <1>5, <1>6, <1>7, <1>8, <1>9, QuietStep DEF Inv

LEMMA SetupInv ==
  ASSUME Inv, LockInv', NEW t \in Thread, Setup(t)
  PROVE  Inv'
<1>1. UNCHANGED << rt, scope, held, call, seen, raced, wild >>
  BY DEF Setup, SetupLen, program
<1>2. PICK f \in Sides :
        \/ /\ at[t] = DataPlace[f] /\ at' = [at EXCEPT ![t] = LenPlace[f]]
           /\ LoadData(t, f)
        \/ /\ at[t] = LenPlace[f] /\ at' = [at EXCEPT ![t] = NextPlace[f]]
           /\ LoadLen(t, f)
  BY DEF Setup, SetupLen, Goto
<1> DEFINE o == call[t][f]
           l == loaded[t][f]
           p == at[t]
           q == at'[t]
<1>3. PICK k : loaded' = [loaded EXCEPT ![t][f] = k]
                /\ k = IF o \notin Desc THEN l
                       ELSE IF p = DataPlace[f]
                            THEN [data |-> Data(rt, o), cell |-> Cell(rt, o), len |-> 0]
                            ELSE [l EXCEPT !.len = rt.desc[o].len]
  <2>1. DataPlace[f] # LenPlace[f] BY PlacesInOrder
  <2> QED BY <1>2, <2>1 DEF LoadData, LoadLen
<1>4. /\ loaded = [u \in Thread |-> [g \in Sides |-> loaded[u][g]]]
      /\ at \in [Thread -> Places] /\ Tables
  BY DEF Inv, Tables, LockInv, PlacesOK
<1>5. /\ loaded'[t][f] = k
      /\ \A g \in Sides \ {f} : loaded'[t][g] = loaded[t][g]
      /\ \A u \in Thread \ {t} : loaded'[u] = loaded[u]
  BY <1>3, <1>4
<1>6. Others(t)
  BY <1>1, <1>2, <1>4, <1>5 DEF Others
<1>7. Tables'
  BY <1>1, <1>3, <1>4 DEF Tables
<1>8. /\ p \in Setups \ {"read"} /\ q \in Setups
      /\ f \in Pointed(q) /\ Pointed(q) = Pointed(p) \cup {f}
      /\ Measured(q) = IF p = DataPlace[f] THEN Measured(p) ELSE Measured(p) \cup {f}
      /\ p = DataPlace[f] => f \notin Measured(q)
      /\ p # DataPlace[f] => f \in Pointed(p)
  <2>1. \/ p = DataPlace[f] /\ q = LenPlace[f]
        \/ p = LenPlace[f] /\ q = NextPlace[f]
    <3>1. CASE at[t] = DataPlace[f] /\ at' = [at EXCEPT ![t] = LenPlace[f]]
      BY <1>4, <3>1
    <3>2. CASE at[t] = LenPlace[f] /\ at' = [at EXCEPT ![t] = NextPlace[f]]
      BY <1>4, <3>2
    <3> QED BY <1>2, <3>1, <3>2
  <2>2. CASE f = "a"
    BY <2>1, <2>2, PlacesInOrder DEF Sides, Setups, Pointed, Measured
  <2>3. CASE f = "b"
    BY <2>1, <2>3, PlacesInOrder DEF Sides, Setups, Pointed, Measured
  <2> HIDE DEF p, q
  <2> QED
    BY <2>2, <2>3 DEF Sides
<1>9. InCall(t) /\ Legal(t, call[t]) /\ call[t].op = "compare" /\ Watch(t)
  BY <1>8 DEF Inv, CallInv, InCall, WatchInv, Setups
<1>10. Watch(t)'
  <2>1. AllBlank(t)'
    <3>1. AllBlank(t) BY <1>8, <1>9 DEF Watch
    <3> QED BY <1>1, <1>3, <1>5, <3>1 DEF AllBlank, Blank
  <2>2. ASSUME AllCurrent(t), NEW g \in Sides
        PROVE  Current(loaded'[t][g], rt, call[t][g], q, g)
    <3>1. Current(loaded[t][g], rt, call[t][g], p, g) BY <2>2 DEF AllCurrent
    <3>2. CASE g # f
      BY <1>5, <1>8, <3>1, <3>2 DEF Current
    <3>3. CASE g = f /\ p = DataPlace[f]
      BY <1>3, <1>5, <1>8, <3>3 DEF Current
    <3>4. CASE g = f /\ p # DataPlace[f]
      <4>1. ASSUME o \in Desc
            PROVE  k.data = l.data /\ k.cell = l.cell /\ k.len = rt.desc[o].len
        BY <1>3, <3>4, <4>1
      <4> QED
        BY <1>5, <1>8, <3>1, <3>4, <4>1 DEF Current
    <3> QED BY <3>2, <3>3, <3>4
  <2>3. AllCurrent(t) => AllCurrent(t)'
    BY <1>1, <2>2 DEF AllCurrent
  <2> QED BY <1>1, <1>8, <1>9, <2>1, <2>3 DEF Watch
<1>11. at'[t] # "locked" BY <1>8 DEF Setups
<1> QED BY <1>1, <1>6, <1>7, <1>9, <1>10, <1>11, QuietStep DEF Inv

(* A read that finds other text belongs to a comparison that was raced.    *)
LEMMA ReadTextInv ==
  ASSUME Inv, LockInv', NEW t \in Thread, ReadText(t)
  PROVE  Inv'
<1>1. /\ at[t] = "read" /\ call' = call /\ seen' = seen
      /\ at' = [at EXCEPT ![t] = "lock"]
      /\ loaded' = [loaded EXCEPT ![t] = NotLoaded]
      /\ UNCHANGED << rt, scope, held, raced >>
      /\ wild' = IF \E f \in Sides : ReadsOther(t, f)
                 THEN wild \cup {t} ELSE wild
  BY DEF ReadText, Goto, program
<1>2. at'[t] = "lock" BY <1>1 DEF Inv, LockInv, PlacesOK
<1>3. Others(t) BY <1>1 DEF Others, Inv, LockInv, PlacesOK, Tables
<1>4. Tables' BY <1>1 DEF Tables, Inv, NotLoaded
<1>5. Legal(t, call[t]) BY <1>1 DEF Inv, CallInv, InCall, Setups
<1>6. wild' \subseteq raced'
  <2>1. t \in raced \/ AllCurrent(t)
    BY DEF Inv, WatchInv, Watch
  <2>2. AllBlank(t)
    BY <1>1 DEF Inv, WatchInv, Watch, Setups
  <2>3. PICK L : Intact(rt, Var \cup AllHeld, AllHeld, Desc, L)
    BY DEF Inv, MemInv, Whole
  <2>4. Bound(rt, L) /\ Written(rt, Desc)
    BY <2>3 DEF Intact, Owned
  <2>5. ASSUME AllCurrent(t), NEW f \in Sides
        PROVE  ~ ReadsOther(t, f)
    <3> DEFINE o == call[t][f]
               l == loaded[t][f]
    <3>1. Len(Dead.text) = 0 BY DEF Dead
    <3>2. CASE o \notin Desc
      <4>1. l = [data |-> NoBlock, cell |-> Dead, len |-> 0]
        BY <2>2, <3>2 DEF AllBlank, Blank
      <4>2. l.data = NoBlock /\ l.cell = Dead /\ l.len = 0
        BY <4>1
      <4> QED BY <3>1, <4>2 DEF ReadsOther
    <3>3. CASE o \in Desc
      <4>1. l.data = Data(rt, o) /\ l.cell = Cell(rt, o) /\ l.len = rt.desc[o].len
        <5>1. f \in Pointed("read") /\ f \in Measured("read")
          BY DEF Pointed, Measured
        <5> QED BY <1>1, <2>5, <3>3, <5>1 DEF AllCurrent, Current
      <4>2. rt.desc[o].len = Len(Cell(rt, o).text)
        BY <2>4, <3>1, <3>3 DEF Bound, Written, Cell
      <4>3. Data(rt, o) # NoBlock => rt.heap[Data(rt, o)] = Cell(rt, o)
        BY DEF Cell
      <4> QED BY <4>1, <4>2, <4>3 DEF ReadsOther
    <3> QED BY <3>2, <3>3
  <2> QED BY <1>1, <2>1, <2>5 DEF Inv
<1>7. Watch(t)'
  <2>1. at'[t] \notin Setups BY <1>2 DEF Setups
  <2>2. loaded'[t] = NotLoaded BY <1>1 DEF Inv, Tables
  <2> QED BY <2>1, <2>2, NothingExposed DEF Watch, AllCurrent
<1>8. at'[t] \notin Setups BY <1>2 DEF Setups
<1> QED BY <1>1, <1>2, <1>3, <1>4, <1>5, <1>6, <1>7, <1>8, QuietStep DEF Inv

(* Devices, and the locks taken for them. *)
LEMMA DeviceInv ==
  ASSUME Inv, LockInv', NEW t \in Thread,
         Device(t) \/ Newline(t) \/ DropNarrow(t) \/ InnerLock(t) \/ InnerUnlock(t)
  PROVE  Inv'
<1>1. /\ UNCHANGED << rt, scope, held, loaded, raced, wild >>
      /\ Others(t) /\ Tables'
  <2>1. UNCHANGED << rt, scope, held, loaded, raced, wild >>
    BY DEF Device, Newline, DropNarrow, InnerLock, InnerUnlock, program, reads
  <2>2. at \in [Thread -> Places] /\ Tables
    BY DEF Inv, LockInv, PlacesOK
  <2>3. PICK p : at' = [at EXCEPT ![t] = p]
    BY DEF Device, Newline, DropNarrow, InnerLock, InnerUnlock, Goto
  <2>4. \/ UNCHANGED << call, seen >>
        \/ /\ call' = [call EXCEPT ![t] = NoCall]
           /\ seen' = [seen EXCEPT ![t] = InitMemory]
    BY DEF Device, Newline, DropNarrow, InnerLock, InnerUnlock, Forget
  <2>5. Others(t)
    BY <2>1, <2>2, <2>3, <2>4 DEF Others, Tables
  <2>6. Tables'
    BY <2>1, <2>2, <2>4 DEF Tables
  <2> QED BY <2>1, <2>5, <2>6
<1>2. \/ at'[t] \in {"newline", "narrow", "idle"}
      \/ /\ InCall(t) /\ call'[t] = call[t]
         /\ at'[t] \in {"inner lock", "inner locked", "lock"}
  BY DEF Device, Newline, DropNarrow, InnerLock, InnerUnlock, Goto, Inv, LockInv,
         PlacesOK, InCall
<1>3. InCall(t) => Legal(t, call[t]) BY DEF Inv, CallInv
<1>4. InCall(t)' => Legal(t, call'[t]) BY <1>2, <1>3 DEF InCall, Setups
<1>5. at'[t] \notin Setups \cup {"locked"} BY <1>2 DEF Setups
<1>6. Watch(t)'
  <2>1. at[t] \notin Setups
    BY DEF Device, Newline, DropNarrow, InnerLock, InnerUnlock, Setups
  <2>2. loaded'[t] = NotLoaded BY <1>1, <2>1 DEF Inv, WatchInv, Watch
  <2> QED BY <1>5, <2>2, NothingExposed DEF Watch, AllCurrent
<1> QED BY <1>1, <1>4, <1>5, <1>6, QuietStep DEF Inv

-----------------------------------------------------------------------------
(* The steps that change the memory *)

(* A call stays legal while what its thread can name stays. *)
LEMMA LegalKept ==
  ASSUME NEW u, NEW c, Legal(u, c), Named(u)' = Named(u), held'[u] = held[u],
         Own[u] \in scope => Own[u] \in scope'
  PROVE  Legal(u, c)'
BY DEF Legal, Operands

(* What other threads watch: it is theirs or everybody's. *)
LEMMA WatchedApart ==
  ASSUME Inv, NEW t \in Thread, NEW o \in Watched(t)
  PROVE  /\ o \in Named(t) \cup held[t]
         /\ \A u \in Thread \ {t} : o # Own[u] /\ o \notin held[u]
         /\ o \in Temps => o \in AllHeld
<1>1. NamesInv /\ at[t] \in Setups /\ Legal(t, call[t]) /\ call[t].op = "compare"
  <2>1. at[t] \in Setups
    BY NothingExposed DEF Watched, Exposed
  <2> QED BY <2>1 DEF Inv, CallInv, InCall
<1>2. o \in Operands(t) /\ o \in Desc
  <2>1. Uses(call[t]) = {call[t].a, call[t].b}
    BY <1>1 DEF Legal
  <2>2. o \in Uses(call[t]) /\ o \in Desc
    BY <2>1 DEF Watched, Exposed, Pointed, Sides
  <2> QED BY <1>1, <2>2, LegalNames
<1>3. o \in Named(t) \cup held[t]
  BY <1>2, NameAssumption DEF Operands
<1>4. ASSUME NEW u \in Thread \ {t} PROVE o # Own[u] /\ o \notin held[u]
  <2>1. Own[u] \in Var /\ Own[u] # Own[t] /\ Own[u] \notin Shared
    BY ThreadAssumption DEF Shared
  <2>2. held[u] \cap held[t] = {} /\ held[u] \subseteq Temps
        /\ held[t] \subseteq Temps
    BY <1>1 DEF NamesInv
  <2>3. Named(t) \cap Temps = {} /\ Var \cap Temps = {}
    BY <1>1, NamedApart DEF NamesInv
  <2> QED BY <1>3, <2>1, <2>2, <2>3 DEF Named
<1>5. o \in Temps => o \in AllHeld
  BY <1>1, <1>2, NamedApart DEF AllHeld
<1> QED BY <1>3, <1>4, <1>5

(* The end of a frame: one more variable deleted. *)
LEMMA LeaveScopeInv ==
  ASSUME Inv, LockInv', NEW t \in Thread, LeaveScope(t)
  PROVE  Inv'
<1> DEFINE v == Own[t]
<1>1. /\ at[t] = "idle" /\ v \in scope /\ rt' = UStrDelete(rt, v)
      /\ scope' = scope \ {v}
      /\ UNCHANGED << held, at, call, seen, loaded, raced, wild >>
  BY DEF LeaveScope, reads
<1>2. /\ v \in Var /\ v \in Desc /\ v \notin AllHeld /\ v \notin Shared
      /\ v \notin Left /\ AllHeld' = AllHeld /\ Left' = Left \cup {v}
      /\ Left \subseteq Desc
  BY <1>1, NamedApart, ThreadAssumption
  DEF Inv, NamesInv, AllHeld, Left, Shared, Desc
<1>3. NamesInv'
  BY <1>1, <1>2 DEF Inv, NamesInv
<1>4. PICK L : Intact(rt, Var \cup AllHeld, AllHeld, Desc, L)
  BY DEF Inv, MemInv, Whole
<1>5. /\ Intact(rt', Var \cup AllHeld, AllHeld, Desc, L)
      /\ rt'.desc[v] = Zero /\ Keeps(rt, rt', Desc \ {v})
  <2>1. AllHeld \ {v} = AllHeld /\ Desc \cup {v} = Desc BY <1>2
  <2>2. /\ Intact(rt', Var \cup AllHeld, AllHeld \ {v}, Desc \cup {v}, L)
        /\ rt'.desc[v] = Zero /\ Keeps(rt, rt', Desc \ {v})
    BY <1>1, <1>2, <1>4, DeleteSound
  <2> QED BY <2>1, <2>2
<1> HIDE DEF v
<1>6. MemInv'
  <2>1. Whole(rt', AllHeld) BY <1>5 DEF Whole
  <2>2. \A w \in Left \cup {v} : rt'.desc[w] = Zero
    BY <1>2, <1>5 DEF Inv, MemInv, Keeps
  <2>3. ASSUME NEW u \in Thread, at[u] = "locked"
        PROVE  Whole(seen[u], AllHeld) /\ rt' = Without(seen[u], Left \cup {v})
    <3>1. Whole(seen[u], AllHeld) /\ rt = Without(seen[u], Left)
      BY <2>3 DEF Inv, MemInv
    <3>2. PICK M : Intact(seen[u], Var \cup AllHeld, AllHeld, Desc, M)
      BY <3>1 DEF Whole
    <3>3. UStrDelete(Without(seen[u], Left), v) = Without(seen[u], Left \cup {v})
      BY <1>2, <3>2, WithoutMore
    <3> QED BY <1>1, <3>1, <3>3
  <2> QED BY <1>1, <1>2, <2>1, <2>2, <2>3 DEF MemInv
<1>7. CallInv'
  <2>1. ASSUME NEW u \in Thread, InCall(u) PROVE Legal(u, call[u])'
    <3>1. u # t BY <1>1, <2>1 DEF InCall, Setups
    <3>2. Own[u] # v BY <3>1, ThreadAssumption DEF v
    <3>3. Named(u)' = Named(u) BY <1>1, <1>2, <3>2 DEF Named, Shared
    <3>4. PICK c : c = call[u] OBVIOUS
    <3>5. Legal(u, c) BY <2>1, <3>4 DEF Inv, CallInv
    <3>6. Legal(u, c)' BY <1>1, <3>2, <3>3, <3>5, LegalKept
    <3> QED BY <1>1, <3>4, <3>6
  <2>2. \A u \in Thread : InCall(u)' <=> InCall(u) BY <1>1 DEF InCall
  <2>3. \A u \in Thread : at'[u] \in Setups => call'[u].op = "compare"
    BY <1>1 DEF Inv, CallInv
  <2> QED BY <2>1, <2>2, <2>3 DEF CallInv
<1>8. WatchInv'
  <2>1. ASSUME NEW u \in Thread, AllCurrent(u)  PROVE AllCurrent(u)'
    <3>1. v \notin Watched(u)
      <4>1. CASE u = t
        <5>1. at[u] \notin Setups BY <1>1, <4>1 DEF Setups
        <5> QED BY <5>1, NothingExposed DEF Watched, Exposed
      <4>2. CASE u # t BY <4>2, WatchedApart DEF v
      <4> QED BY <4>1, <4>2
    <3>2. ASSUME NEW f \in Sides
          PROVE  Current(loaded[u][f], rt', call[u][f], at[u], f)
      <4>1. Current(loaded[u][f], rt, call[u][f], at[u], f)
        BY <2>1 DEF AllCurrent
      <4>2. ASSUME call[u][f] \in Desc, f \in Pointed(at[u])
            PROVE  Keeps(rt, rt', {call[u][f]})
        <5>1. call[u][f] \in Watched(u) BY <4>2 DEF Watched, Exposed
        <5>2. {call[u][f]} \subseteq Desc \ {v} BY <3>1, <4>2, <5>1
        <5> QED BY <1>5, <5>2, KeepsFewer
      <4> QED BY <4>1, <4>2, StaysCurrent
    <3> QED BY <1>1, <3>2 DEF AllCurrent
  <2>2. ASSUME NEW u \in Thread  PROVE Watch(u)'
    <3>1. Watch(u) BY DEF Inv, WatchInv
    <3> QED BY <1>1, <2>1, <3>1 DEF Watch, AllBlank
  <2> QED BY <2>2 DEF WatchInv
<1>9. Tables' /\ wild' \subseteq raced' BY <1>1 DEF Inv, Tables
<1> QED BY <1>3, <1>6, <1>7, <1>8, <1>9 DEF Inv

(* What the steps after Unlock see of it: the call c of thread t has been  *)
(* made of the memory as it was a moment ago, though it worked on one that *)
(* it loaded before.                                                       *)
Returns(t, c, q) ==
  /\ Legal(t, c) /\ Does(rt, q, t, c, AllHeld)
  /\ rt' = q.mem
  /\ held' = [held EXCEPT ![t] = (@ \ Passed(c)) \cup ({q.at} \cap Temps)]
  /\ scope' = scope \ Ending(c)

LEMMA UnlockReturns ==
  ASSUME Inv, NEW t \in Thread, NEW got, Unlock(t, got), NEW c, c = call[t]
  PROVE  \E q : Returns(t, c, q)
<1> DEFINE m == seen[t]
           r == Body(m, t, c, got)
           q == [at |-> r.at, mem |-> Without(r.mem, Left)]
<1>1. at[t] = "locked" BY DEF Unlock
<1>2. /\ rt' = Changed(rt, m, r.mem)
      /\ held' = [held EXCEPT ![t] = (@ \ Passed(c)) \cup ({r.at} \cap Temps)]
      /\ scope' = IF c.op = "result" THEN scope \ {c.dst} ELSE scope
  BY DEF Unlock
<1>3. /\ Legal(t, c) /\ NamesInv
      /\ Whole(m, AllHeld) /\ rt = Without(m, Left)
  BY <1>1 DEF Inv, CallInv, InCall, MemInv
<1> HIDE DEF m, r
<1>4. Does(m, r, t, c, AllHeld)
  <2>1. PICK L : Intact(m, Var \cup AllHeld, AllHeld, Desc, L)
    BY <1>3 DEF Whole
  <2> QED BY <1>3, <2>1, BodyDoes DEF r
<1>5. /\ Left \in SUBSET Var /\ Names(c)
      /\ Left \cap (Writes(c) \cup Ending(c)) = {} /\ Left \cap Uses(c) = {}
  BY <1>3, LegalNames DEF Left
<1>6. q.at = r.at /\ q.mem = Without(r.mem, Left) OBVIOUS
<1> HIDE DEF q
<1>7. Does(rt, q, t, c, AllHeld) /\ Changed(rt, m, r.mem) = q.mem
  BY <1>3, <1>4, <1>5, <1>6, LiftDoes
<1>8. scope' = scope \ Ending(c)
  BY <1>2 DEF Ending
<1> QED BY <1>2, <1>3, <1>6, <1>7, <1>8 DEF Returns

(* The temps in flight after it. *)
LEMMA HeldAfter ==
  ASSUME NamesInv, NEW t \in Thread, NEW c, NEW q, Returns(t, c, q)
  PROVE  /\ AllHeld' = Flying(c, q, AllHeld) /\ NamesInv'
         /\ \A u \in Thread \ {t} : held'[u] = held[u] /\ Named(u)' = Named(u)
         /\ Left' = Left \cup Ending(c)
<1> DEFINE T == {q.at} \cap Temps
<1>1. /\ held \in [Thread -> SUBSET Temps]
      /\ \A u, w \in Thread : u # w => held[u] \cap held[w] = {}
      /\ \A u \in Thread : held[u] \cap Tmp \subseteq {Stack[u]}
      /\ scope \subseteq Var /\ Shared \subseteq scope
  BY DEF NamesInv
<1>2. /\ Legal(t, c) /\ T \cap AllHeld = {} /\ T \cap Tmp \subseteq {Stack[t]}
      /\ T \subseteq Temps
      /\ held' = [held EXCEPT ![t] = (held[t] \ Passed(c)) \cup T]
      /\ scope' = scope \ Ending(c)
  BY <1>1 DEF Returns, Does
<1>3. /\ Passed(c) \cap AllHeld \subseteq held[t]
      /\ Ending(c) \subseteq {Own[t]} /\ Ending(c) \subseteq Var
  BY <1>2, LegalNames DEF Names
<1>4. Flying(c, q, AllHeld) = (AllHeld \ Passed(c)) \cup T BY DEF Flying
<1> HIDE DEF T
<1>5. /\ held'[t] = (held[t] \ Passed(c)) \cup T
      /\ \A u \in Thread \ {t} : held'[u] = held[u]
  BY <1>1, <1>2
<1>6. \A u \in Thread \ {t} : held[u] \cap Passed(c) = {}
  BY <1>1, <1>3 DEF AllHeld
<1>7. AllHeld' = (AllHeld \ Passed(c)) \cup T
  <2>1. \A o : o \in AllHeld <=> \E u \in Thread : o \in held[u] BY DEF AllHeld
  <2>2. \A o : o \in AllHeld' <=> \E u \in Thread : o \in held'[u] BY DEF AllHeld
  <2>3. ASSUME NEW o, o \in AllHeld'
        PROVE  o \in (AllHeld \ Passed(c)) \cup T
    <3>1. PICK u \in Thread : o \in held'[u] BY <2>2, <2>3
    <3> QED BY <1>5, <1>6, <2>1, <3>1
  <2>4. ASSUME NEW o, o \in (AllHeld \ Passed(c)) \cup T
        PROVE  o \in AllHeld'
    <3>1. CASE o \in T BY <1>5, <2>2, <3>1
    <3>2. CASE o \in AllHeld /\ o \notin Passed(c)
      <4>1. PICK u \in Thread : o \in held[u] BY <2>1, <3>2
      <4> QED BY <1>5, <2>2, <3>2, <4>1
    <3> QED BY <2>4, <3>1, <3>2
  <2> QED BY <2>3, <2>4
<1>8. \A u \in Thread : T \cap held[u] = {} BY <1>2 DEF AllHeld
<1>9. NamesInv'
  <2>1. \A u, w \in Thread : u # w => held'[u] \cap held'[w] = {}
    BY <1>1, <1>5, <1>8
  <2>2. \A u \in Thread : held'[u] \cap Tmp \subseteq {Stack[u]}
    BY <1>1, <1>2, <1>5
  <2>3. held' \in [Thread -> SUBSET Temps]
    BY <1>1, <1>2
  <2>4. scope' \subseteq Var /\ Shared \subseteq scope'
    BY <1>1, <1>2, <1>3 DEF Shared
  <2> QED BY <2>1, <2>2, <2>3, <2>4 DEF NamesInv
<1>10. ASSUME NEW u \in Thread \ {t} PROVE Named(u)' = Named(u)
  <2>1. Own[u] # Own[t] /\ Own[t] \notin Shared BY ThreadAssumption DEF Shared
  <2> QED BY <1>2, <1>3, <2>1 DEF Named
<1>11. Left' = Left \cup Ending(c) BY <1>2, <1>3 DEF Left
<1> QED BY <1>4, <1>5, <1>7, <1>9, <1>10, <1>11

LEMMA UnlockInv ==
  ASSUME Inv, LockInv', NEW t \in Thread, NEW got, Unlock(t, got)
  PROVE  Inv'
<1>1. PICK c : c = call[t] OBVIOUS
<1>2. PICK q : Returns(t, c, q) BY <1>1, UnlockReturns
<1>3. /\ at[t] = "locked" /\ wild' = wild \ {t}
      /\ raced' = (raced \ {t}) \cup {u \in Thread \ {t} :
                    Writes(c) \cap Exposed(u) # {}}
      /\ loaded' = loaded
  BY <1>1 DEF Unlock
<1>4. /\ \A u \in Thread \ {t} : /\ at'[u] = at[u] /\ call'[u] = call[u]
                                 /\ seen'[u] = seen[u]
      /\ Tables'
      /\ at'[t] \notin Setups
      /\ \/ at'[t] = "device" /\ c.op = "print" /\ call'[t] = c
         \/ /\ at'[t] = "lock" /\ c.op = "encode"
            /\ call'[t] = [op |-> "release", a |-> c.a]
         \/ at'[t] = "idle"
  <2>1. /\ call = [u \in Thread |-> call[u]] /\ seen = [u \in Thread |-> seen[u]]
        /\ at \in [Thread -> Places]
    BY DEF Inv, Tables, LockInv, PlacesOK
  <2>2. Proceed(t, c) BY <1>1 DEF Unlock
  <2> DEFINE K == loaded' = [u \in Thread |-> [f \in Sides |-> loaded'[u][f]]]
  <2>0. K BY <1>3 DEF Inv, Tables
  <2> HIDE DEF K
  <2>3. CASE c.op = "print"
    BY <1>1, <2>0, <2>1, <2>2, <2>3 DEF Proceed, Goto, Tables, K, Setups
  <2>4. CASE c.op = "encode"
    BY <2>0, <2>1, <2>2, <2>4 DEF Proceed, Goto, Tables, K, Setups
  <2>5. CASE c.op \notin {"print", "encode"}
    BY <2>0, <2>1, <2>2, <2>5 DEF Proceed, Goto, Tables, Forget, K, Setups
  <2> QED BY <2>3, <2>4, <2>5
<1>5. /\ NamesInv /\ NamesInv' /\ AllHeld' = Flying(c, q, AllHeld)
      /\ Left' = Left \cup Ending(c)
      /\ \A u \in Thread \ {t} : held'[u] = held[u] /\ Named(u)' = Named(u)
  BY <1>2, HeldAfter DEF Inv
<1>6. /\ Legal(t, c) /\ rt' = q.mem /\ Whole(q.mem, Flying(c, q, AllHeld))
      /\ OnlyChanges(rt, q.mem, Writes(c) \cup ({q.at} \cap Temps),
                     (Passed(c) \cap AllHeld) \cup Ending(c))
      /\ {q.at} \cap Temps \cap AllHeld = {}
      /\ scope' = scope \ Ending(c)
  BY <1>2 DEF Returns, Does
<1>7. /\ (Writes(c) \cup Ending(c) \cup Uses(c)) \cap Left = {}
      /\ Passed(c) \subseteq Uses(c) /\ Ending(c) \subseteq {Own[t]}
      /\ Passed(c) \cap AllHeld \subseteq held[t]
  BY <1>5, <1>6, LegalNames
<1>8. MemInv'
  <2>1. Whole(rt', AllHeld') BY <1>5, <1>6
  <2>2. ASSUME NEW v \in Left \cup Ending(c) PROVE rt'.desc[v] = Zero
    <3>1. CASE v \in Ending(c) BY <1>6, <3>1 DEF OnlyChanges
    <3>2. CASE v \in Left
      <4>1. v \in Desc /\ v \notin Temps
        BY <3>2, NameAssumption DEF Left, Desc, Temps
      <4>2. v \notin Writes(c) \cup ({q.at} \cap Temps)
        BY <1>7, <3>2, <4>1
      <4>3. v \notin (Passed(c) \cap AllHeld) \cup Ending(c)
        BY <1>7, <3>2
      <4> QED BY <1>6, <3>2, <4>1, <4>2, <4>3 DEF OnlyChanges, Keeps, Inv, MemInv
    <3> QED BY <3>1, <3>2
  <2>3. \A u \in Thread : at'[u] # "locked"
    BY <1>3, <1>4 DEF Inv, LockInv, StrHeld, InString
  <2> QED BY <1>5, <2>1, <2>2, <2>3 DEF MemInv
<1>9. CallInv'
  <2>1. ASSUME NEW u \in Thread \ {t}, InCall(u) PROVE Legal(u, call[u])'
    <3>1. PICK d : d = call[u] OBVIOUS
    <3>2. Legal(u, d) BY <2>1, <3>1 DEF Inv, CallInv
    <3>3. Own[u] # Own[t] BY ThreadAssumption
    <3>4. Own[u] \in scope => Own[u] \in scope' BY <1>6, <1>7, <3>3
    <3>5. Legal(u, d)' BY <1>5, <3>2, <3>4, LegalKept
    <3>6. call'[u] = d BY <1>4, <3>1
    <3> QED BY <3>5, <3>6
  <2>2. ASSUME InCall(t)' PROVE Legal(t, call[t])'
    <3>1. /\ at'[t] = "lock" /\ c.op = "encode"
          /\ call'[t] = [op |-> "release", a |-> c.a]
      BY <1>4, <2>2 DEF InCall, Setups
    <3>2. c.a \in Operands(t) BY <1>6, <3>1 DEF Legal
    <3>3. PICK d : d = [op |-> "release", a |-> c.a] OBVIOUS
    <3>4. Uses(d) = {d.a} /\ d.op = "release" /\ d.a = c.a
      BY <3>3 DEF Uses
    <3>5. Legal(t, d) BY <3>2, <3>4 DEF Legal
    <3>6. Passed(c) = {} /\ Ending(c) = {} BY <3>1 DEF Passed, Ending
    <3>7. {q.at} \cap Temps = {} BY <1>2, <3>1 DEF Returns, Does
    <3>8. held'[t] = held[t] /\ scope' = scope
      BY <1>2, <1>5, <1>6, <3>6, <3>7 DEF Returns, NamesInv
    <3>9. Named(t)' = Named(t) BY <3>8 DEF Named
    <3>10. Legal(t, d)' BY <3>5, <3>8, <3>9, LegalKept
    <3>11. call'[t] = d BY <3>1, <3>3
    <3> QED BY <3>10, <3>11
  <2>3. \A u \in Thread \ {t} : InCall(u)' <=> InCall(u) BY <1>4 DEF InCall
  <2>4. \A u \in Thread : at'[u] \in Setups => call'[u].op = "compare"
    BY <1>4 DEF Inv, CallInv
  <2> QED BY <2>1, <2>2, <2>3, <2>4 DEF CallInv
<1>10. WatchInv'
  <2>1. ASSUME NEW u \in Thread \ {t}, u \notin raced'  PROVE AllCurrent(u)'
    <3>1. u \notin raced /\ Writes(c) \cap Exposed(u) = {} BY <1>3, <2>1
    <3>2. AllCurrent(u) BY <3>1 DEF Inv, WatchInv, Watch
    <3>3. ASSUME NEW o \in Watched(u)  PROVE Keeps(rt, rt', {o})
      <4>1. /\ o # Own[t] /\ o \notin held[t]
            /\ o \in Temps => o \in AllHeld
        BY <2>1, WatchedApart
      <4>2. o \in Desc /\ o \notin Writes(c) BY <3>1 DEF Watched
      <4>3. o \in Desc \ ((Writes(c) \cup ({q.at} \cap Temps))
                          \cup ((Passed(c) \cap AllHeld) \cup Ending(c)))
        BY <1>6, <1>7, <4>1, <4>2
      <4> QED BY <1>6, <4>3 DEF OnlyChanges, Keeps
    <3>4. ASSUME NEW f \in Sides
          PROVE  Current(loaded[u][f], rt', call[u][f], at[u], f)
      <4>1. Current(loaded[u][f], rt, call[u][f], at[u], f)
        BY <3>2 DEF AllCurrent
      <4>2. call[u][f] \in Desc /\ f \in Pointed(at[u]) => call[u][f] \in Watched(u)
        BY DEF Watched, Exposed
      <4> QED BY <3>3, <4>1, <4>2, StaysCurrent
    <3> QED BY <1>3, <1>4, <3>4 DEF AllCurrent
  <2>2. ASSUME NEW u \in Thread \ {t}  PROVE Watch(u)'
    <3>1. Watch(u) BY DEF Inv, WatchInv
    <3> QED BY <1>3, <1>4, <2>1, <3>1 DEF Watch, AllBlank
  <2>3. Watch(t)'
    <3>1. at[t] \notin Setups BY <1>3 DEF Setups
    <3>2. loaded'[t] = NotLoaded BY <1>3, <3>1 DEF Inv, WatchInv, Watch
    <3> QED BY <1>4, <3>2, NothingExposed DEF Watch, AllCurrent
  <2> QED BY <2>2, <2>3 DEF WatchInv
<1>11. wild' \subseteq raced' BY <1>3 DEF Inv
<1> QED BY <1>4, <1>5, <1>8, <1>9, <1>10, <1>11 DEF Inv

LEMMA InvStep == Inv /\ [Next]_vars => Inv'
<1> SUFFICES ASSUME Inv, [Next]_vars PROVE Inv'
  OBVIOUS
<1>1. LockInv' BY LockStep DEF Inv
<1>2. CASE UNCHANGED vars
  <2>1. /\ UNCHANGED << rt, scope, held, at, call, seen, loaded, raced, wild >>
        /\ AllHeld' = AllHeld /\ Left' = Left
    BY <1>2 DEF vars, AllHeld, Left
  <2>2. NamesInv' /\ MemInv' /\ Tables' /\ wild' \subseteq raced'
    BY <2>1 DEF Inv, NamesInv, MemInv, Tables
  <2>3. CallInv'
    <3>1. ASSUME NEW u \in Thread, Legal(u, call[u]) PROVE Legal(u, call[u])'
      <4>1. Named(u)' = Named(u) BY <2>1 DEF Named
      <4>2. PICK d : d = call[u] OBVIOUS
      <4>3. Legal(u, d)' BY <2>1, <3>1, <4>1, <4>2, LegalKept
      <4> QED BY <2>1, <4>2, <4>3
    <3> QED BY <2>1, <3>1 DEF Inv, CallInv, InCall
  <2>4. WatchInv' BY <2>1 DEF Inv, WatchInv, Watch, AllCurrent, AllBlank
  <2> QED BY <1>1, <2>2, <2>3, <2>4 DEF Inv
<1>3. CASE Next
  BY <1>1, <1>3, LeaveScopeInv, BeginInv, LockInvStep, UnlockInv, SetupInv,
     ReadTextInv, DeviceInv
  DEF Next, Continue
<1> QED BY <1>2, <1>3

LEMMA AlwaysInv == Spec => []Inv
<1>1. Spec => Init /\ [][Next]_vars BY DEF Spec
<1> QED BY <1>1, InitInv, InvStep, PTL

-----------------------------------------------------------------------------
(* What the locks are for *)

(* Each pool descriptor that is not in flight is on the free list once.    *)
LEMMA ListedOnce ==
  ASSUME NEW m, NEW A, NEW H, NEW W, NEW L, Intact(m, A, H, W, L),
         NEW s \in Slot
  PROVE  s \notin m.used <=>
           Cardinality({i \in DOMAIN FreeList(m) : FreeList(m)[i] = s}) = 1
<1> DEFINE I == {i \in DOMAIN FreeList(m) : FreeList(m)[i] = s}
<1>1. /\ \A i, j \in DOMAIN m.free : m.free[i] = m.free[j] => i = j
      /\ (\E i \in DOMAIN FreeList(m) : FreeList(m)[i] = s) <=> s \notin m.used
  BY DEF Intact, Pooled
<1>2. \A i, j \in I : i = j
  BY <1>1 DEF FreeList
<1>3. CASE s \notin m.used
  <2>1. PICK i \in DOMAIN FreeList(m) : FreeList(m)[i] = s BY <1>1, <1>3
  <2>2. I = {i} BY <1>2, <2>1
  <2> QED BY <1>3, <2>2, FS_Singleton
<1>4. CASE s \in m.used
  <2>1. I = {} BY <1>1, <1>4
  <2> QED BY <1>4, <2>1, FS_EmptySet
<1> QED BY <1>3, <1>4

(* No interleaving of the calls of any number of threads breaks the memory *)
(* they share: no temp is handed out twice, no pool descriptor is lost or  *)
(* listed twice, no buffer has two owners, and none is shorter than its    *)
(* descriptor says.                                                        *)
THEOREM SoundAlways == Spec => []Sound
<1>1. Inv => Sound
  <2> SUFFICES ASSUME Inv PROVE Sound
    OBVIOUS
  <2>1. PICK L : Intact(rt, Var \cup AllHeld, AllHeld, Desc, L)
    BY DEF Inv, MemInv, Whole
  <2>2. /\ Bound(rt, L) /\ Unshared(rt) /\ Written(rt, Desc)
        /\ rt.used = (Var \cup AllHeld) \cap Slot
    BY <2>1 DEF Intact, Owned, Pooled
  <2>3. \A t, u \in Thread : t # u => held[t] \cap held[u] = {}
    BY DEF Inv, NamesInv
  <2>4. rt.used = AllHeld \cap Slot BY <2>2, NameAssumption
  <2>5. \A s \in Slot : s \notin rt.used <=>
          Cardinality({i \in DOMAIN FreeList(rt) : FreeList(rt)[i] = s}) = 1
    BY <2>1, ListedOnce
  <2>6. ASSUME NEW d \in Desc, Data(rt, d) # NoBlock
        PROVE  /\ rt.heap[Data(rt, d)].live
               /\ \A e \in Desc : Data(rt, e) = Data(rt, d) => e = d
               /\ rt.desc[d].size = rt.heap[Data(rt, d)].cap
               /\ rt.desc[d].len = Len(rt.heap[Data(rt, d)].text)
               /\ rt.desc[d].len <= rt.desc[d].size
    BY <2>2, <2>6 DEF Bound, Unshared, Written
  <2> QED BY <2>3, <2>4, <2>5, <2>6 DEF Sound, AllHeld
<1> QED BY <1>1, AlwaysInv, PTL

(* A comparison, which reads with no lock held, finds other text than it   *)
(* loaded only if another thread stored to its operand meanwhile; no       *)
(* other store, no temp released or handed out, no frame that ends can.    *)
THEOREM RacesOnly == Spec => []WildOnlyIfRaced
<1>1. Inv => WildOnlyIfRaced BY DEF Inv, WildOnlyIfRaced
<1> QED BY <1>1, AlwaysInv, PTL

-----------------------------------------------------------------------------
(* One at a time: the steps in which a call returns or a frame ends are    *)
(* steps of UStrValues, and the others change no text.                     *)

(* An operand reads as the text of its descriptor. *)
LEMMA OperandReads ==
  ASSUME Inv, NEW t \in Thread, NEW o \in Operands(t)
  PROVE  o \in Values!Operand /\ Values!Value(o) = TextOf(rt, o)
<1> USE DEF AllHeld
<1>1. /\ scope \subseteq Var /\ Named(t) \subseteq scope
      /\ AllHeld \subseteq Temps /\ held[t] \subseteq AllHeld
  BY NamedApart DEF Inv, NamesInv
<1>2. /\ Var \cap Temps = {} /\ Var \subseteq Desc /\ Temps \subseteq Desc
      /\ Raw \cap Desc = {}
  BY NameAssumption DEF Temps, Desc
<1>3. CASE o \in scope
  BY <1>1, <1>2, <1>3 DEF Values!Operand, Values!Value, TextOf
<1>4. CASE o \in AllHeld
  <2>1. o \notin scope /\ o \in Desc BY <1>1, <1>2, <1>4
  <2> QED BY <1>1, <1>4, <2>1 DEF Values!Operand, Values!Value, TextOf
<1>5. CASE o \in Raw
  <2>1. o \notin scope /\ o \notin AllHeld /\ o \notin Desc BY <1>1, <1>2, <1>5
  <2> QED BY <1>5, <2>1 DEF Values!Operand, Values!Value, TextOf
<1> QED BY <1>1, <1>3, <1>4, <1>5 DEF Operands

(* The temps after a call: those it was passed are gone, and one may hold  *)
(* what it hands back.                                                     *)
LEMMA TempsAfter ==
  ASSUME Inv, NEW t \in Thread, NEW c, NEW q, Returns(t, c, q)
  PROVE  /\ {q.at} \cap Temps = {} => Values!Take(Passed(c))
         /\ Values!TakeAndGive(Passed(c), GivenText(rt, c))
<1> DEFINE T == {q.at} \cap Temps
           D == Writes(c) \cup T
           G == (Passed(c) \cap AllHeld) \cup Ending(c)
           txt == GivenText(rt, c)
<1>1. /\ NamesInv /\ Legal(t, c) /\ Names(c) /\ T \cap AllHeld = {}
      /\ OnlyChanges(rt, rt', D, G)
      /\ q.at \in Temps => Contents(rt', q.at) = txt
  BY LegalNames DEF Returns, Does, Inv, Reads
<1>2. AllHeld' = (AllHeld \ Passed(c)) \cup T
  BY <1>1, HeldAfter DEF Flying
<1>3. /\ Var \cap Temps = {} /\ Var \cap AllHeld = {} /\ Temps \subseteq Desc
      /\ AllHeld \subseteq Temps
  BY <1>1, NamedApart
<1> HIDE DEF txt
<1>4. ASSUME NEW s \in Temps \ T
      PROVE  Contents(rt', s) = IF s \in Passed(c) THEN << >> ELSE Contents(rt, s)
  <2>1. s \in Desc /\ s \notin D /\ s \notin Var BY <1>1, <1>3 DEF Names
  <2>2. Contents(rt', s) = IF s \in G THEN << >> ELSE Contents(rt, s)
    BY <1>1, <2>1, TextAfter
  <2>3. s \in G <=> s \in Passed(c) \cap AllHeld BY <1>1, <2>1 DEF Names
  <2>4. CASE s \in AllHeld BY <2>2, <2>3, <2>4
  <2>5. CASE s \notin AllHeld
    <3>1. PICK L : Intact(rt, Var \cup AllHeld, AllHeld, Desc, L)
      BY DEF Inv, MemInv, Whole
    <3>2. rt.desc[s] = Zero BY <2>1, <2>5, <3>1 DEF Intact, Marked
    <3>3. Contents(rt, s) = << >> BY <3>2, ZeroText
    <3> QED BY <2>2, <2>3, <2>5, <3>3
  <2> QED BY <2>4, <2>5
<1>5. ASSUME T = {} PROVE Values!Take(Passed(c))
  <2>1. AllHeld' = AllHeld \ Passed(c) BY <1>2, <1>5
  <2>2. \A s \in Temps : Contents(rt', s) =
                           IF s \in Passed(c) THEN << >> ELSE Contents(rt, s)
    BY <1>4, <1>5
  <2> QED BY <2>1, <2>2 DEF Values!Take, Values!Empty, AllHeld
<1>6. CASE T = {} BY <1>5, <1>6 DEF Values!TakeAndGive
<1>7. CASE T # {}
  <2> DEFINE p == q.at
  <2>1. T = {p} /\ p \in Temps \ AllHeld BY <1>1, <1>7
  <2>2. Contents(rt', p) = txt BY <1>1, <2>1
  <2> HIDE DEF p, T
  <2>3. AllHeld' = (AllHeld \ Passed(c)) \cup {p} BY <1>2, <2>1
  <2>4. \A s \in Temps : Contents(rt', s) =
                           IF s = p THEN txt
                           ELSE IF s \in Passed(c) THEN << >> ELSE Contents(rt, s)
    BY <1>4, <2>1, <2>2
  <2>5. Values!TakeAndGive(Passed(c), txt)
    BY <2>1, <2>3, <2>4 DEF Values!TakeAndGive, Values!Empty, AllHeld
  <2> QED BY <1>7, <2>5 DEF T, txt
<1> QED BY <1>5, <1>6, <1>7 DEF txt

(* The variables after a call: the one it names may have changed. *)
LEMMA VarsAfter ==
  ASSUME Inv, NEW t \in Thread, NEW c, NEW q, Returns(t, c, q)
  PROVE  /\ Writes(c) \cup Ending(c) = {} =>
              [v \in Var |-> Contents(rt, v)]' = [v \in Var |-> Contents(rt, v)]
         /\ \A v : Writes(c) \cup Ending(c) = {v} =>
              Values!Set(v, Contents(rt', v))
         /\ \A v \in Ending(c) : Contents(rt', v) = << >>
<1> DEFINE T == {q.at} \cap Temps
           D == Writes(c) \cup T
           G == (Passed(c) \cap AllHeld) \cup Ending(c)
<1>1. /\ NamesInv /\ Names(c) /\ OnlyChanges(rt, rt', D, G)
  BY LegalNames DEF Returns, Does, Inv
<1>2. Var \cap Temps = {} /\ Var \cap AllHeld = {} /\ Var \subseteq Desc
  BY <1>1, NamedApart
<1>3. ASSUME NEW v \in Var \ (Writes(c) \cup Ending(c))
      PROVE  Contents(rt', v) = Contents(rt, v)
  <2>1. v \in Desc /\ v \notin D /\ v \notin G BY <1>2
  <2> QED BY <1>1, <2>1, TextAfter
<1>4. \A v \in Ending(c) : Contents(rt', v) = << >>
  BY <1>1, ZeroText DEF OnlyChanges
<1>5. ASSUME NEW v, Writes(c) \cup Ending(c) = {v}
      PROVE  Values!Set(v, Contents(rt', v))
  <2>1. v \in Var BY <1>1, <1>5 DEF Names
  <2>2. \A w \in Var : w # v => Contents(rt', w) = Contents(rt, w)
    BY <1>3, <1>5
  <2> QED BY <2>1, <2>2 DEF Values!Set
<1>6. ASSUME Writes(c) \cup Ending(c) = {}
      PROVE  [v \in Var |-> Contents(rt, v)]' = [v \in Var |-> Contents(rt, v)]
  BY <1>3, <1>6
<1> QED BY <1>4, <1>5, <1>6

(* A call that returns is a step of UStrValues. *)
LEMMA CallRefines ==
  ASSUME Inv, NEW t \in Thread, NEW c, NEW q, Returns(t, c, q)
  PROVE  [Values!Next]_(Values!vars)
<1>1. /\ NamesInv /\ Legal(t, c) /\ Names(c) /\ Does(rt, q, t, c, AllHeld)
      /\ scope' = scope \ Ending(c) /\ rt' = q.mem
  BY LegalNames DEF Returns, Inv
<1>2. /\ {q.at} \cap Temps = {} => Values!Take(Passed(c))
      /\ Values!TakeAndGive(Passed(c), GivenText(rt, c))
  BY TempsAfter
<1>3. /\ Writes(c) \cup Ending(c) = {} =>
           [v \in Var |-> Contents(rt, v)]' = [v \in Var |-> Contents(rt, v)]
      /\ \A v : Writes(c) \cup Ending(c) = {v} =>
           Values!Set(v, Contents(rt', v))
      /\ \A v \in Ending(c) : Contents(rt', v) = << >>
  BY VarsAfter
<1>4. c.op \notin {"concat", "result"} => Values!Take(Passed(c))
  BY <1>1, <1>2 DEF Does
<1>5. \A o \in Operands(t) : o \in Values!Operand /\ Values!Value(o) = TextOf(rt, o)
  BY OperandReads
<1>6. Named(t) \subseteq scope /\ scope \subseteq Var /\ Shared \subseteq Operands(t)
  BY <1>1 DEF Named, NamesInv, Operands
<1>7. CASE c.op \in {"assign", "input"}
  <2>1. /\ c.dst \in scope /\ c.a \in Operands(t) /\ Uses(c) = {c.a}
        /\ c.dst \in Var
    BY <1>1, <1>6, <1>7 DEF Legal, Operands
  <2>2. Writes(c) = {c.dst} /\ Ending(c) = {} /\ Passed(c) = {c.a}
    BY <1>7, <2>1 DEF Writes, Ending, Passed
  <2>3. Writes(c) \cup Ending(c) = {c.dst} /\ scope' = scope BY <1>1, <2>2
  <2>4. Values!Set(c.dst, Contents(rt', c.dst)) BY <1>3, <2>3
  <2>5. Values!Take({c.a}) BY <1>4, <1>7, <2>2
  <2>6. \/ Contents(rt', c.dst) = Values!Value(c.a)
        \/ c.a \notin AllHeld /\ Contents(rt', c.dst) = Values!Empty
    BY <1>1, <1>5, <1>7, <2>1 DEF Does, Stored, Reads, Values!Empty
  <2>7. Values!Store(c.dst, c.a)
    BY <2>4, <2>5, <2>6 DEF Values!Store, AllHeld
  <2>8. Values!Assign(c.dst, c.a) BY <2>1, <2>3, <2>7 DEF Values!Assign
  <2> QED BY <1>5, <2>1, <2>8 DEF Values!Next
<1>8. CASE c.op = "append"
  <2>1. /\ c.dst \in scope /\ c.a \in Operands(t) /\ Uses(c) = {c.a}
        /\ c.dst \in Var
    BY <1>1, <1>6, <1>8 DEF Legal
  <2>2. Writes(c) = {c.dst} /\ Ending(c) = {} /\ Passed(c) = {c.a}
    BY <1>8, <2>1 DEF Writes, Ending, Passed
  <2>3. Writes(c) \cup Ending(c) = {c.dst} /\ scope' = scope BY <1>1, <2>2
  <2>4. Values!Set(c.dst, Contents(rt', c.dst)) BY <1>3, <2>3
  <2>5. Values!Take({c.a}) BY <1>4, <1>8, <2>2
  <2>6. Contents(rt', c.dst) \in
          {Contents(rt, c.dst) \o Values!Value(c.a), Contents(rt, c.dst)}
    BY <1>1, <1>5, <1>8, <2>1 DEF Does
  <2>7. CASE Contents(rt', c.dst) = Contents(rt, c.dst) \o Values!Value(c.a)
    <3>1. [v \in Var |-> Contents(rt, v)][c.dst] = Contents(rt, c.dst) BY <2>1
    <3>2. Values!Extend(c.dst, c.a)
      BY <2>1, <2>3, <2>4, <2>5, <2>7, <3>1 DEF Values!Extend
    <3> QED BY <1>5, <2>1, <3>2 DEF Values!Next
  <2>8. CASE Contents(rt', c.dst) = Contents(rt, c.dst)
    <3>1. [v \in Var |-> Contents(rt, v)]' = [v \in Var |-> Contents(rt, v)]
      BY <2>4, <2>8 DEF Values!Set
    <3>2. Values!Extend(c.dst, c.a)
      BY <2>1, <2>3, <2>5, <3>1 DEF Values!Extend
    <3> QED BY <1>5, <2>1, <3>2 DEF Values!Next
  <2> QED BY <2>6, <2>7, <2>8
<1>9. CASE c.op = "concat"
  <2>1. c.a \in Operands(t) /\ c.b \in Operands(t) /\ Uses(c) = {c.a, c.b}
    BY <1>1, <1>6, <1>9 DEF Legal
  <2>2. Writes(c) = {} /\ Ending(c) = {} /\ Passed(c) = {c.a, c.b}
    BY <1>9, <2>1 DEF Writes, Ending, Passed
  <2>3. /\ scope' = scope
        /\ [v \in Var |-> Contents(rt, v)]' = [v \in Var |-> Contents(rt, v)]
    BY <1>1, <1>3, <2>2
  <2> DEFINE used == {c.a, c.b}
             txt == Values!Value(c.a) \o Values!Value(c.b)
  <2>4. GivenText(rt, c) = txt BY <1>5, <1>9, <2>1 DEF GivenText
  <2>5. Passed(c) = used BY <2>2
  <2> HIDE DEF used, txt
  <2>6. Values!TakeAndGive(used, txt)
    BY <1>2, <2>4, <2>5 DEF Values!TakeAndGive, Values!Take
  <2>7. Values!Join(c.a, c.b) BY <2>6 DEF Values!Join, used, txt
  <2> QED BY <1>5, <2>1, <2>3, <2>7 DEF Values!Next, Values!Expression
<1>10. CASE c.op = "result"
  <2>1. c.dst = Own[t] /\ c.dst \in scope /\ c.dst \in Var /\ Uses(c) = {}
    BY <1>1, <1>6, <1>10 DEF Legal
  <2>2. Writes(c) = {} /\ Ending(c) = {c.dst} /\ Passed(c) = {}
    BY <1>10, <2>1 DEF Writes, Ending, Passed
  <2>3. /\ scope' = scope \ {c.dst} /\ Writes(c) \cup Ending(c) = {c.dst}
        /\ Contents(rt', c.dst) = << >>
    BY <1>1, <1>3, <2>2
  <2>4. Values!Set(c.dst, << >>) BY <1>3, <2>3
  <2>5. GivenText(rt, c) = [v \in Var |-> Contents(rt, v)][c.dst]
    BY <1>10, <2>1 DEF GivenText
  <2>6. Values!TakeAndGive({}, [v \in Var |-> Contents(rt, v)][c.dst])
    BY <1>2, <2>2, <2>5 DEF Values!TakeAndGive, Values!Take
  <2>7. Values!Return(c.dst)
    BY <2>1, <2>3, <2>4, <2>6 DEF Values!Return, Values!Empty
  <2> QED BY <2>1, <2>7 DEF Values!Next
<1>11. CASE c.op \in {"compare", "print", "release"}
  <2>1. PICK a \in Operands(t), b \in Operands(t) : Uses(c) = {a, b}
    <3>1. CASE c.op = "compare" BY <1>1, <1>6, <3>1 DEF Legal
    <3>2. CASE c.op \in {"print", "release"}
      <4>1. c.a \in Operands(t) /\ Uses(c) = {c.a} BY <1>1, <3>2 DEF Legal
      <4>2. {c.a} = {c.a, c.a} OBVIOUS
      <4> QED BY <4>1, <4>2
    <3> QED BY <1>11, <3>1, <3>2
  <2>2. Writes(c) = {} /\ Ending(c) = {} /\ Passed(c) = {a, b}
    BY <1>11, <2>1 DEF Writes, Ending, Passed
  <2>3. /\ scope' = scope
        /\ [v \in Var |-> Contents(rt, v)]' = [v \in Var |-> Contents(rt, v)]
    BY <1>1, <1>3, <2>2
  <2>4. Values!Read(a, b) BY <1>4, <1>11, <2>2 DEF Values!Read
  <2> QED BY <1>5, <2>1, <2>3, <2>4 DEF Values!Next, Values!Expression
<1>12. CASE c.op = "encode"
  <2>1. Writes(c) = {} /\ Ending(c) = {} /\ Passed(c) = {}
    BY <1>12 DEF Writes, Ending, Passed
  <2>2. /\ scope' = scope
        /\ [v \in Var |-> Contents(rt, v)]' = [v \in Var |-> Contents(rt, v)]
    BY <1>1, <1>3, <2>1
  <2>3. Values!Take({}) BY <1>4, <1>12, <2>1
  <2>4. /\ AllHeld' = AllHeld
        /\ [d \in Temps |-> Contents(rt, d)]' = [d \in Temps |-> Contents(rt, d)]
    BY <2>3 DEF Values!Take, AllHeld
  <2> QED BY <2>2, <2>4 DEF Values!vars, AllHeld
<1>13. c.op \in {"assign", "append", "input", "print", "encode", "release",
                 "result", "compare", "concat"}
  BY <1>1 DEF Legal
<1> QED BY <1>7, <1>8, <1>9, <1>10, <1>11, <1>12, <1>13

(* So is the end of a frame. *)
LEMMA LeaveRefines ==
  ASSUME Inv, NEW t \in Thread, LeaveScope(t)
  PROVE  Values!Next
<1> DEFINE v == Own[t]
<1>1. v \in scope /\ scope' = scope \ {v} /\ held' = held /\ rt' = UStrDelete(rt, v)
  BY DEF LeaveScope
<1>2. /\ v \in Var /\ Var \cap Temps = {} /\ Temps \subseteq Desc /\ Var \subseteq Desc
      /\ AllHeld' = AllHeld
  BY <1>1, NamedApart DEF Inv, AllHeld
<1>3. PICK L : Intact(rt, Var \cup AllHeld, AllHeld, Desc, L)
  BY DEF Inv, MemInv, Whole
<1>4. rt'.desc[v] = Zero /\ Keeps(rt, rt', Desc \ {v})
  BY <1>1, <1>2, <1>3, DeleteSound
<1> HIDE DEF v
<1>5. Contents(rt', v) = << >> BY <1>4, ZeroText
<1>6. \A d \in Desc \ {v} : Contents(rt', d) = Contents(rt, d)
  BY <1>4, KeptText
<1>7. Values!Set(v, << >>)
  <2>1. \A w \in Var : w # v => Contents(rt', w) = Contents(rt, w)
    BY <1>2, <1>6
  <2> QED BY <1>2, <1>5, <2>1 DEF Values!Set
<1>8. [d \in Temps |-> Contents(rt, d)]' = [d \in Temps |-> Contents(rt, d)]
  <2>1. \A d \in Temps : Contents(rt', d) = Contents(rt, d) BY <1>2, <1>6
  <2> QED BY <2>1
<1>9. Values!Leave(v)
  BY <1>1, <1>2, <1>7, <1>8 DEF Values!Leave, Values!Empty, AllHeld
<1> QED BY <1>2, <1>9 DEF Values!Next

LEMMA StepRefines == Inv /\ [Next]_vars => [Values!Next]_(Values!vars)
<1> SUFFICES ASSUME Inv, [Next]_vars PROVE [Values!Next]_(Values!vars)
  OBVIOUS
<1>1. ASSUME UNCHANGED << rt, scope, held >> PROVE UNCHANGED Values!vars
  BY <1>1 DEF Values!vars
<1>2. CASE UNCHANGED vars BY <1>1, <1>2 DEF vars
<1>3. ASSUME NEW t \in Thread, LeaveScope(t) PROVE Values!Next
  BY <1>3, LeaveRefines
<1>4. ASSUME NEW t \in Thread, NEW got, Unlock(t, got)
      PROVE  [Values!Next]_(Values!vars)
  <2>1. PICK c : c = call[t] OBVIOUS
  <2>2. PICK q : Returns(t, c, q) BY <1>4, <2>1, UnlockReturns
  <2> QED BY <2>2, CallRefines
<1>5. ASSUME NEW t \in Thread,
             \/ \E c \in CallsOf(t) : Begin(t, c)
             \/ Lock(t) \/ Setup(t) \/ ReadText(t) \/ Device(t) \/ Newline(t)
             \/ DropNarrow(t) \/ InnerLock(t) \/ InnerUnlock(t)
      PROVE  UNCHANGED Values!vars
  <2>1. UNCHANGED << rt, scope, held >>
    BY <1>5 DEF Begin, Lock, Setup, SetupLen, ReadText, Device, Newline, DropNarrow,
                InnerLock, InnerUnlock, program
  <2> QED BY <1>1, <2>1
<1> QED BY <1>2, <1>3, <1>4, <1>5 DEF Next, Continue

(* Whatever the scheduler does, the calls of all threads together have the *)
(* effect of calls made one after another on texts that share nothing.     *)
THEOREM CallsOneAtATime == Spec => OneAtATime
<1>1. Init => Values!Init
  <2> SUFFICES ASSUME Init PROVE Values!Init OBVIOUS
  <2>1. rt = InitMemory /\ scope = Var /\ held = [t \in Thread |-> {}]
    BY DEF Init
  <2>2. UNION {held[t] : t \in Thread} = {} BY <2>1
  <2>3. \A d \in Desc : Contents(rt, d) = << >>
    BY <2>1, ZeroText DEF InitMemory
  <2>4. Var \subseteq Desc /\ Temps \subseteq Desc BY DEF Temps, Desc
  <2> QED BY <2>1, <2>2, <2>3, <2>4 DEF Values!Init, Values!Empty
<1>2. Spec => Init /\ [][Next]_vars BY DEF Spec
<1> QED BY <1>1, <1>2, StepRefines, AlwaysInv, PTL DEF OneAtATime, Values!Spec

=============================================================================
