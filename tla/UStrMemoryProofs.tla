-------------------------- MODULE UStrMemoryProofs --------------------------
(***************************************************************************)
(* Lemmas about the functions of UStrMemory, for every number of           *)
(* descriptors and blocks and every answer of malloc: what the proofs      *)
(* about one thread (UStrRuntimeProofs) and about several                  *)
(* (UStrThreadsProofs) rest on.                                            *)
(*                                                                         *)
(* Intact(m, A, H, W, L) says what a memory is like in the middle of a     *)
(* call: A are the descriptors in use, H those with the temp bit on, W     *)
(* those whose text is written, L the lost blocks.  There is one lemma per *)
(* C function, from the Intact it needs to the Intact it leaves.           *)
(***************************************************************************)
EXTENDS UStrMemory, TLAPS

Char == Unit \cup {Wild}

(***************************************************************************)
(* The inductive invariant, over a memory m: A is the set of descriptors   *)
(* that may be in use, H those whose temp bit is on, W those whose text    *)
(* has been written, L the lost blocks.                                    *)
(***************************************************************************)
Bound(m, L) ==
  \A d \in Desc :
    /\ m.desc[d].len <= MaxUnits
    /\ Data(m, d) = NoBlock => m.desc[d].len = 0 /\ m.desc[d].size = 0
    /\ Data(m, d) # NoBlock =>
         /\ m.heap[Data(m, d)].live
         /\ Data(m, d) \notin L
         /\ m.desc[d].size = m.heap[Data(m, d)].cap
         /\ m.desc[d].len <= m.desc[d].size
Unshared(m) ==
  \A d, e \in Desc : Data(m, d) = Data(m, e) /\ Data(m, d) # NoBlock => d = e
Reached(m, L) ==
  \A b \in Block : m.heap[b].live <=> b \in L \/ \E d \in Desc : Data(m, d) = b
Owned(m, L) == Bound(m, L) /\ Unshared(m) /\ Reached(m, L)

Pooled(m, A) ==
  /\ m.used = A \cap Slot
  /\ \A i, j \in DOMAIN m.free : m.free[i] = m.free[j] => i = j
  /\ \A s \in Slot : (\E i \in DOMAIN FreeList(m) : FreeList(m)[i] = s)
                      <=> s \notin m.used

Marked(m, A, H) ==
  /\ \A d \in Desc : m.desc[d].temp <=> d \in H
  /\ \A d \in Desc \ A : m.desc[d] = Zero

Written(m, W) ==
  \A d \in W : Data(m, d) # NoBlock =>
    m.desc[d].len = Len(m.heap[Data(m, d)].text)

Sets(A, H, W, L) ==
  A \subseteq Desc /\ H \subseteq A \cap Temps /\ W \subseteq Desc /\ L \subseteq Block

Intact(m, A, H, W, L) ==
  /\ m \in Memory /\ Sets(A, H, W, L)
  /\ Owned(m, L) /\ Pooled(m, A) /\ Marked(m, A, H) /\ Written(m, W)

-----------------------------------------------------------------------------

(* What a call leaves alone: the descriptors in D and their buffers.       *)
Keeps(m, r, D) ==
  \A e \in D :
    /\ r.desc[e] = m.desc[e]
    /\ Data(m, e) # NoBlock => r.heap[Data(m, e)] = m.heap[Data(m, e)]

(* What is read through a descriptor. *)
Reads(m, d, txt) == Contents(m, d) = txt

(* A text that is kept is still read through its descriptor. *)
LEMMA KeptText ==
  ASSUME NEW m, NEW r, NEW D, Keeps(m, r, D), NEW e \in D
  PROVE  /\ r.desc[e] = m.desc[e] /\ Data(r, e) = Data(m, e)
         /\ Contents(r, e) = Contents(m, e)
BY DEF Keeps, Data, Contents

(* Two calls leave alone what each of them does. *)
LEMMA KeepsTwice ==
  ASSUME NEW m, NEW k, NEW r, NEW D, NEW E, Keeps(m, k, D), Keeps(k, r, E),
         NEW F, F \subseteq D, F \subseteq E
  PROVE  Keeps(m, r, F)
BY DEF Keeps, Data

(* What is left alone together is left alone in part. *)
LEMMA KeepsFewer ==
  ASSUME NEW m, NEW r, NEW D, Keeps(m, r, D), NEW E, E \subseteq D
  PROVE  Keeps(m, r, E)
BY DEF Keeps

(* What a call does to the descriptors: it leaves those in G zeroed, may   *)
(* change those in D, and leaves the rest alone.                           *)
OnlyChanges(m, r, D, G) ==
  Keeps(m, r, Desc \ (D \cup G)) /\ \A o \in G : r.desc[o] = Zero

(* Two calls one after the other. *)
LEMMA ChangesTwice ==
  ASSUME NEW m, NEW k, NEW r, NEW D, NEW E, NEW G \in SUBSET Desc, NEW F,
         OnlyChanges(m, k, D, G), OnlyChanges(k, r, E, F), E \cap G = {}
  PROVE  OnlyChanges(m, r, D \cup E, G \cup F)
<1>1. Keeps(m, r, Desc \ ((D \cup E) \cup (G \cup F)))
  BY KeepsTwice DEF OnlyChanges
<1>2. \A o \in G \cup F : r.desc[o] = Zero BY DEF OnlyChanges, Keeps
<1> QED BY <1>1, <1>2 DEF OnlyChanges

(* A call that changes one descriptor. *)
LEMMA ChangesOne ==
  ASSUME NEW m, NEW r, NEW d, Keeps(m, r, Desc \ {d})
  PROVE  OnlyChanges(m, r, {d}, {})
<1>1. Desc \ ({d} \cup {}) = Desc \ {d} OBVIOUS
<1> QED BY <1>1 DEF OnlyChanges

(* A descriptor that was empty and is empty again has not changed. *)
LEMMA EmptyAgain ==
  ASSUME NEW m, NEW r, NEW d, Keeps(m, r, Desc \ {d}),
         m.desc[d] = Zero, r.desc[d] = Zero
  PROVE  Keeps(m, r, Desc)
BY DEF Keeps, Data, Zero

(* An empty descriptor has no text. *)
LEMMA ZeroText ==
  ASSUME NEW m, NEW d, m.desc[d] = Zero
  PROVE  Contents(m, d) = << >>
BY DEF Contents, Data, Zero

(* What can be read after a call that changes D and zeroes G. *)
LEMMA TextAfter ==
  ASSUME NEW m, NEW r, NEW D, NEW G, OnlyChanges(m, r, D, G),
         NEW d \in Desc, d \notin D
  PROVE  Contents(r, d) = IF d \in G THEN << >> ELSE Contents(m, d)
<1>1. CASE d \in G BY <1>1, ZeroText DEF OnlyChanges
<1>2. CASE d \notin G
  <2>1. d \in Desc \ (D \cup G) BY <1>2
  <2> QED BY <1>2, <2>1, KeptText DEF OnlyChanges
<1> QED BY <1>1, <1>2

(* hUStrRoundSize never rounds a request down. *)
LEMMA RoundSizeBound ==
  ASSUME NEW n \in Nat
  PROVE  RoundSize(n) \in Nat /\ RoundSize(n) >= n
BY SizeAssumption DEF RoundSize

(* Nor does the growth policy of fb_hUStrRealloc. *)
LEMMA GrownBound ==
  ASSUME NEW n \in Nat
  PROVE  Grown(n) \in Nat /\ Grown(n) >= n
BY RoundSizeBound DEF Grown

(* What the assumptions say of the constants, in the forms the proofs use. *)
LEMMA Constants == Zero \in Descriptor /\ Dead \in Buffer /\ ~ Dead.live
                   /\ NullDesc \in Desc
BY DEF Zero, Descriptor, Dead, Buffer, Desc

(* A memory is fixed by its four fields. *)
LEMMA MemoryFields ==
  ASSUME NEW m \in Memory
  PROVE  /\ m.desc \in [Desc -> Descriptor] /\ m.heap \in [Block -> Buffer]
         /\ m.free \in Seq(Slot) /\ m.used \in SUBSET Slot
         /\ \A d \in Desc : /\ Data(m, d) \in Block \cup {NoBlock}
                            /\ m.desc[d] \in Descriptor
                            /\ m.desc[d].len \in Nat /\ m.desc[d].size \in Nat
                            /\ m.desc[d].temp \in BOOLEAN
         /\ \A b \in Block : /\ m.heap[b] \in Buffer
                             /\ m.heap[b].text \in Seq(Char)
                             /\ m.heap[b].cap \in Nat /\ m.heap[b].live \in BOOLEAN
<1>1. /\ m.desc \in [Desc -> Descriptor] /\ m.heap \in [Block -> Buffer]
      /\ m.free \in Seq(Slot) /\ m.used \in SUBSET Slot
  BY DEF Memory
<1>2. ASSUME NEW d \in Desc
      PROVE  /\ Data(m, d) \in Block \cup {NoBlock}
             /\ m.desc[d] \in Descriptor
             /\ m.desc[d].len \in Nat /\ m.desc[d].size \in Nat
             /\ m.desc[d].temp \in BOOLEAN
  <2>1. m.desc[d] \in Descriptor BY <1>1
  <2> QED BY <2>1 DEF Descriptor, Data
<1>3. ASSUME NEW b \in Block
      PROVE  /\ m.heap[b] \in Buffer
             /\ m.heap[b].text \in Seq(Char)
             /\ m.heap[b].cap \in Nat /\ m.heap[b].live \in BOOLEAN
  <2>1. m.heap[b] \in Buffer BY <1>1
  <2> QED BY <2>1 DEF Buffer, Char
<1> QED BY <1>1, <1>2, <1>3

(* Writing one descriptor leaves the heap and the pool alone. *)
LEMMA SetDescFields ==
  ASSUME NEW m \in Memory, NEW d \in Desc, NEW v \in Descriptor
  PROVE  /\ SetDesc(m, d, v) \in Memory
         /\ SetDesc(m, d, v).desc = [m.desc EXCEPT ![d] = v]
         /\ SetDesc(m, d, v).heap = m.heap
         /\ SetDesc(m, d, v).free = m.free
         /\ SetDesc(m, d, v).used = m.used
<1>1. [m.desc EXCEPT ![d] = v] \in [Desc -> Descriptor]
  BY DEF Memory
<1>2. SetDesc(m, d, v) \in Memory
  BY <1>1 DEF SetDesc, Memory
<1> QED BY <1>2 DEF SetDesc, Memory

(* Freeing a block touches that block only. *)
LEMMA FreeFields ==
  ASSUME NEW m \in Memory, NEW b \in Block \cup {NoBlock}
  PROVE  /\ Free(m, b) \in Memory
         /\ Free(m, b).heap = IF b = NoBlock THEN m.heap
                              ELSE [m.heap EXCEPT ![b] = Dead]
         /\ Free(m, b).desc = m.desc
         /\ Free(m, b).free = m.free
         /\ Free(m, b).used = m.used
<1>1. CASE b = NoBlock BY <1>1 DEF Free
<1>2. CASE b # NoBlock
  <2>1. [m.heap EXCEPT ![b] = Dead] \in [Block -> Buffer]
    BY Constants, <1>2 DEF Memory
  <2>2. Free(m, b) \in Memory BY <2>1, <1>2 DEF Free, Memory
  <2> QED BY <2>1, <2>2, <1>2 DEF Free, Memory
<1> QED BY <1>1, <1>2

(* fb_UStrDelete: the buffer is dead, the descriptor zeroed, the rest as it was. *)
LEMMA DeleteFields ==
  ASSUME NEW m \in Memory, NEW d \in Desc
  PROVE  /\ UStrDelete(m, d) \in Memory
         /\ UStrDelete(m, d).desc = [m.desc EXCEPT ![d] = Zero]
         /\ UStrDelete(m, d).heap = IF Data(m, d) = NoBlock THEN m.heap
                                    ELSE [m.heap EXCEPT ![Data(m, d)] = Dead]
         /\ UStrDelete(m, d).free = m.free
         /\ UStrDelete(m, d).used = m.used
<1> DEFINE f == Free(m, Data(m, d))
<1>1. Data(m, d) \in Block \cup {NoBlock} BY MemoryFields
<1>2. /\ f \in Memory /\ f.desc = m.desc
      /\ f.heap = IF Data(m, d) = NoBlock THEN m.heap
                  ELSE [m.heap EXCEPT ![Data(m, d)] = Dead]
      /\ f.free = m.free /\ f.used = m.used
  BY <1>1, FreeFields
<1>3. UStrDelete(m, d) = SetDesc(f, d, Zero) BY DEF UStrDelete
<1> HIDE DEF f
<1> QED BY <1>2, <1>3, SetDescFields, Constants

(* fb_UStrDelete leaves a sound memory, with d empty and not a temp. *)
LEMMA DeleteSound ==
  ASSUME NEW m, NEW A, NEW H, NEW W, NEW L, Intact(m, A, H, W, L),
         NEW d \in Desc
  PROVE  /\ Intact(UStrDelete(m, d), A, H \ {d}, W \cup {d}, L)
         /\ UStrDelete(m, d).desc[d] = Zero
         /\ Keeps(m, UStrDelete(m, d), Desc \ {d})
<1> DEFINE n == UStrDelete(m, d)
<1>1. m \in Memory /\ Sets(A, H, W, L) BY DEF Intact
<1>2. /\ n \in Memory
      /\ n.desc = [m.desc EXCEPT ![d] = Zero]
      /\ n.heap = IF Data(m, d) = NoBlock THEN m.heap
                  ELSE [m.heap EXCEPT ![Data(m, d)] = Dead]
      /\ n.free = m.free /\ n.used = m.used
  BY <1>1, DeleteFields
<1> HIDE DEF n
<1>3. n.desc[d] = Zero /\ \A e \in Desc : e # d => n.desc[e] = m.desc[e]
  BY <1>1, <1>2, MemoryFields
<1>4. \A b \in Block : n.heap[b] = IF b = Data(m, d) THEN Dead ELSE m.heap[b]
  BY <1>1, <1>2, MemoryFields, NameAssumption
<1>5. Data(n, d) = NoBlock /\ \A e \in Desc : e # d => Data(n, e) = Data(m, e)
  BY <1>3 DEF Data, Zero
<1>6. \A e \in Desc : e # d /\ Data(m, e) # NoBlock =>
        Data(m, e) \in Block /\ n.heap[Data(m, e)] = m.heap[Data(m, e)]
  BY <1>1, <1>4, MemoryFields DEF Intact, Owned, Unshared
<1>7. Bound(n, L)
  BY <1>3, <1>5, <1>6, SizeAssumption DEF Intact, Owned, Bound, Zero
<1>8. Unshared(n)
  BY <1>5 DEF Intact, Owned, Unshared
<1>9. Reached(n, L)
  <2> SUFFICES ASSUME NEW b \in Block
               PROVE  n.heap[b].live <=> b \in L \/ \E e \in Desc : Data(n, e) = b
    BY DEF Reached
  <2>1. CASE b = Data(m, d)
    BY <2>1, <1>4, <1>5, Constants, NameAssumption DEF Intact, Owned, Unshared, Bound
  <2>2. CASE b # Data(m, d)
    BY <2>2, <1>4, <1>5, NameAssumption DEF Intact, Owned, Reached
  <2> QED BY <2>1, <2>2
<1>10. Pooled(n, A)
  BY <1>2 DEF Intact, Pooled, FreeList
<1>11. Marked(n, A, H \ {d})
  <2>1. \A e \in Desc : n.desc[e].temp <=> e \in H \ {d}
    <3> SUFFICES ASSUME NEW e \in Desc
                 PROVE  n.desc[e].temp <=> e \in H \ {d}
      OBVIOUS
    <3>1. CASE e = d BY <3>1, <1>3 DEF Zero
    <3>2. CASE e # d BY <3>2, <1>3 DEF Intact, Marked
    <3> QED BY <3>1, <3>2
  <2>2. \A e \in Desc \ A : n.desc[e] = Zero
    BY <1>3 DEF Intact, Marked
  <2> QED BY <2>1, <2>2 DEF Marked
<1>12. Written(n, W \cup {d})
  BY <1>1, <1>3, <1>5, <1>6 DEF Intact, Written, Sets
<1>13. Sets(A, H \ {d}, W \cup {d}, L)
  BY <1>1 DEF Sets
<1>14. Keeps(m, n, Desc \ {d}) BY <1>3, <1>6 DEF Keeps
<1> QED
  BY <1>2, <1>3, <1>7, <1>8, <1>9, <1>10, <1>11, <1>12, <1>13, <1>14
     DEF Intact, Owned, n

(* A descriptor rewritten with what it holds is no change. *)
LEMMA SetSame ==
  ASSUME NEW m \in Memory, NEW d \in Desc, NEW v, m.desc[d] = v
  PROVE  SetDesc(m, d, v) = m
BY DEF SetDesc, Memory

(* An empty descriptor is no temp. *)
LEMMA ZeroIdle ==
  ASSUME NEW m, NEW A, NEW H, NEW W, NEW L, Intact(m, A, H, W, L),
         NEW d \in Desc, m.desc[d] = Zero
  PROVE  d \notin H
BY DEF Intact, Marked, Zero

(* A variable or stack temp that holds nothing enters or leaves the set of *)
(* descriptors in use without a call.                                      *)
LEMMA EnterSound ==
  ASSUME NEW m, NEW A, NEW H, NEW W, NEW L, Intact(m, A, H, W, L),
         NEW d \in Desc \ Slot
  PROVE  Intact(m, A \cup {d}, H, W, L)
BY DEF Intact, Sets, Pooled, Marked

(* A zeroed descriptor may stop being in use. *)
LEMMA LeaveSound ==
  ASSUME NEW m, NEW A, NEW H, NEW W, NEW L, Intact(m, A, H, W, L),
         NEW d \in Desc \ Slot, m.desc[d] = Zero
  PROVE  Intact(m, A \ {d}, H \ {d}, W, L)
<1>1. d \notin H BY ZeroIdle
<1>2. Sets(A \ {d}, H \ {d}, W, L) BY <1>1 DEF Intact, Sets
<1>3. Marked(m, A \ {d}, H \ {d}) BY <1>1 DEF Intact, Marked
<1>4. Pooled(m, A \ {d}) BY DEF Intact, Pooled
<1> QED BY <1>2, <1>3, <1>4 DEF Intact

(* What is true of the written texts is true of fewer of them. *)
LEMMA Weaken ==
  ASSUME NEW m, NEW A, NEW H, NEW W, NEW L, Intact(m, A, H, W, L),
         NEW V, V \subseteq W
  PROVE  Intact(m, A, H, V, L)
BY DEF Intact, Sets, Written

(* A pool descriptor given back goes to the head of the free list. *)
LEMMA DelTempDescFields ==
  ASSUME NEW m \in Memory, NEW d \in Slot
  PROVE  /\ DelTempDesc(m, d) \in Memory
         /\ DelTempDesc(m, d).desc = [m.desc EXCEPT ![d] = Zero]
         /\ DelTempDesc(m, d).heap = m.heap
         /\ DelTempDesc(m, d).free = << d >> \o m.free
         /\ DelTempDesc(m, d).used = m.used \ {d}
<1>1. d \in Desc BY DEF Desc
<1>2. [m.desc EXCEPT ![d] = Zero] \in [Desc -> Descriptor]
  BY <1>1, Constants DEF Memory
<1>3. << d >> \o m.free \in Seq(Slot) BY DEF Memory
<1>4. DelTempDesc(m, d) = [m EXCEPT !.free = << d >> \o m.free,
                                    !.used = m.used \ {d}, !.desc[d] = Zero]
  BY DEF DelTempDesc
<1>5. DelTempDesc(m, d) \in Memory BY <1>2, <1>3, <1>4 DEF Memory
<1> QED BY <1>4, <1>5 DEF Memory

(* fb_hUStrDelTempDesc takes a zeroed descriptor out of use, and keeps the pool
   in order when it is one of the pool's. *)
LEMMA DelTempDescSound ==
  ASSUME NEW m, NEW A, NEW H, NEW W, NEW L, Intact(m, A, H, W, L),
         NEW d \in A, m.desc[d] = Zero
  PROVE  /\ Intact(DelTempDesc(m, d), A \ {d}, H \ {d}, W, L)
         /\ Keeps(m, DelTempDesc(m, d), Desc)
<1> DEFINE n == DelTempDesc(m, d)
<1>1. m \in Memory /\ Sets(A, H, W, L) /\ d \in Desc BY DEF Intact, Sets
<1>2. CASE d \notin Slot
  <2>1. n = m BY <1>2 DEF DelTempDesc
  <2>2. Intact(m, A \ {d}, H \ {d}, W, L) BY <1>1, <1>2, LeaveSound
  <2> QED BY <2>1, <2>2 DEF Keeps
<1>3. CASE d \in Slot
  <2>1. /\ n \in Memory /\ n.desc = [m.desc EXCEPT ![d] = Zero]
        /\ n.heap = m.heap
        /\ n.free = << d >> \o m.free /\ n.used = m.used \ {d}
    BY <1>1, <1>3, DelTempDescFields
  <2> HIDE DEF n
  <2>2. n.desc = m.desc BY <1>1, <2>1 DEF Memory
  <2>3. Pooled(n, A \ {d})
    <3>1. d \in m.used BY <1>3 DEF Intact, Pooled
    <3>2. m.free \in Seq(Slot) /\ m.used \in SUBSET Slot BY <1>1, MemoryFields
    <3>3. FreeList(m) = m.free BY <3>1 DEF FreeList
    <3>4. FreeList(n) = n.free /\ n.free = << d >> \o m.free
      BY <2>1, <3>2 DEF FreeList
    <3>5. \A i \in DOMAIN m.free : m.free[i] # d
      BY <3>1, <3>2, <3>3, <1>3 DEF Intact, Pooled
    <3>6. /\ DOMAIN n.free = 1 .. Len(m.free) + 1
          /\ n.free[1] = d
          /\ \A i \in 2 .. Len(m.free) + 1 : n.free[i] = m.free[i - 1]
      BY <3>2, <3>4
    <3>7. DOMAIN m.free = 1 .. Len(m.free) /\ Len(m.free) \in Nat BY <3>2
    <3>8. \A i, j \in DOMAIN n.free : n.free[i] = n.free[j] => i = j
      <4>1. \A i, j \in 1 .. Len(m.free) : m.free[i] = m.free[j] => i = j
        BY <3>7 DEF Intact, Pooled
      <4> SUFFICES ASSUME NEW i \in 1 .. Len(m.free) + 1,
                          NEW j \in 1 .. Len(m.free) + 1,
                          n.free[i] = n.free[j]
                   PROVE  i = j
        BY <3>6
      <4>2. CASE i = 1 \/ j = 1
        <5>1. \A k \in 2 .. Len(m.free) + 1 :
                k - 1 \in DOMAIN m.free /\ n.free[k] # n.free[1]
          <6> SUFFICES ASSUME NEW k \in 2 .. Len(m.free) + 1
                       PROVE  k - 1 \in DOMAIN m.free /\ n.free[k] # n.free[1]
            OBVIOUS
          <6>1. k - 1 \in DOMAIN m.free BY <3>7
          <6>2. n.free[k] = m.free[k - 1] BY <3>6
          <6>3. n.free[1] = d BY <3>6
          <6> QED BY <6>1, <6>2, <6>3, <3>5
        <5> QED BY <4>2, <5>1, <3>7
      <4>3. CASE i # 1 /\ j # 1
        <5>1. /\ i - 1 \in 1 .. Len(m.free) /\ j - 1 \in 1 .. Len(m.free)
              /\ m.free[i - 1] = m.free[j - 1]
          BY <4>3, <3>6, <3>7
        <5>2. i - 1 = j - 1 BY <4>1, <5>1
        <5> QED BY <5>2
      <4> QED BY <4>2, <4>3
    <3>9. \A s \in Slot : (\E i \in DOMAIN n.free : n.free[i] = s)
                           <=> s \notin n.used
      <4> SUFFICES ASSUME NEW s \in Slot
                   PROVE  (\E i \in DOMAIN n.free : n.free[i] = s)
                          <=> s \notin n.used
        OBVIOUS
      <4>1. (\E i \in DOMAIN m.free : m.free[i] = s) <=> s \notin m.used
        BY <3>3 DEF Intact, Pooled
      <4>2. (\E i \in DOMAIN n.free : n.free[i] = s)
            <=> (s = d \/ \E i \in DOMAIN m.free : m.free[i] = s)
        <5>1. ASSUME NEW i \in DOMAIN m.free, m.free[i] = s
              PROVE  \E j \in DOMAIN n.free : n.free[j] = s
          <6>1. i + 1 \in DOMAIN n.free /\ n.free[i + 1] = s
            BY <5>1, <3>6, <3>7
          <6> QED BY <6>1
        <5>2. ASSUME NEW i \in DOMAIN n.free, n.free[i] = s, s # d
              PROVE  \E j \in DOMAIN m.free : m.free[j] = s
          <6>1. i - 1 \in DOMAIN m.free /\ m.free[i - 1] = s
            BY <5>2, <3>6, <3>7
          <6> QED BY <6>1
        <5>3. 1 \in DOMAIN n.free BY <3>6, <3>7
        <5> QED BY <5>1, <5>2, <5>3, <3>6
      <4> QED BY <4>1, <4>2, <2>1
    <3> QED BY <3>4, <3>8, <3>9, <2>1, <1>3 DEF Intact, Pooled
  <2>4. Owned(n, L) /\ Written(n, W)
    BY <2>1, <2>2, SMTT(30) DEF Intact, Owned, Bound, Unshared, Reached, Written, Data
  <2>5. Marked(n, A \ {d}, H \ {d})
    <3>1. d \notin H BY <1>1, ZeroIdle
    <3> QED BY <3>1, <2>2 DEF Intact, Marked, Zero
  <2>6. Sets(A \ {d}, H \ {d}, W, L) BY <1>1 DEF Sets
  <2>7. Keeps(m, n, Desc) BY <2>1, <2>2 DEF Keeps
  <2> QED BY <2>1, <2>2, <2>3, <2>4, <2>5, <2>6, <2>7 DEF Intact, n
<1> QED BY <1>2, <1>3

(* The pool hands out a descriptor that nobody has. *)
LEMMA NewSlotIdle ==
  ASSUME NEW m, NEW A, NEW H, NEW W, NEW L, Intact(m, A, H, W, L),
         ~ PoolEmpty(m)
  PROVE  /\ NewSlot(m) \in Slot \ A /\ NewSlot(m) \in Desc
         /\ m.desc[NewSlot(m)] = Zero
<1>1. m \in Memory /\ Sets(A, H, W, L) BY DEF Intact
<1>2. FreeList(m) \in Seq(Slot) /\ FreeList(m) # << >>
  <2>1. m.free \in Seq(Slot) BY <1>1, MemoryFields
  <2>2. [i \in Slot |-> i] \in Seq(Slot) BY PoolAssumption DEF Slot
  <2> QED BY <2>1, <2>2 DEF FreeList, PoolEmpty
<1>3. 1 \in DOMAIN FreeList(m) /\ NewSlot(m) = FreeList(m)[1]
  BY <1>2 DEF NewSlot
<1>4. NewSlot(m) \in Slot BY <1>2, <1>3
<1>5. NewSlot(m) \notin A BY <1>3, <1>4 DEF Intact, Pooled
<1> QED BY <1>4, <1>5 DEF Intact, Marked, Desc

(* fb_hUStrAllocTempDesc moves one descriptor from the free to the used list. *)
LEMMA AllocTempDescFields ==
  ASSUME NEW m \in Memory, NewSlot(m) \in Slot, ~ PoolEmpty(m)
  PROVE  /\ AllocTempDesc(m) \in Memory
         /\ AllocTempDesc(m).desc = [m.desc EXCEPT ![NewSlot(m)] = Zero]
         /\ AllocTempDesc(m).heap = m.heap
         /\ AllocTempDesc(m).free = Tail(FreeList(m))
         /\ AllocTempDesc(m).used = m.used \cup {NewSlot(m)}
<1> DEFINE s == NewSlot(m)
           q == Tail(FreeList(m))
<1>1. [m.desc EXCEPT ![s] = Zero] \in [Desc -> Descriptor]
  BY Constants DEF Memory, Desc
<1>2. q \in Seq(Slot)
  <2>1. m.free \in Seq(Slot) BY MemoryFields
  <2>2. [i \in Slot |-> i] \in Seq(Slot) BY PoolAssumption DEF Slot
  <2> QED BY <2>1, <2>2 DEF FreeList, PoolEmpty
<1>3. AllocTempDesc(m) =
        [m EXCEPT !.free = q, !.used = m.used \cup {s}, !.desc[s] = Zero]
  BY DEF AllocTempDesc
<1>4. s \in Slot OBVIOUS
<1> HIDE DEF s, q
<1>5. m.used \cup {s} \in SUBSET Slot BY <1>4 DEF Memory
<1> DEFINE u == m.used \cup {s}
<1> HIDE DEF u
<1>6. AllocTempDesc(m) =
        [desc |-> [m.desc EXCEPT ![s] = Zero], heap |-> m.heap,
         free |-> q, used |-> u]
  BY <1>3 DEF Memory, u
<1>7. AllocTempDesc(m) \in Memory BY <1>1, <1>2, <1>5, <1>6 DEF Memory, u
<1> QED BY <1>6, <1>7 DEF s, q, u

(* That descriptor is now in use, and zeroed. *)
LEMMA AllocTempDescSound ==
  ASSUME NEW m, NEW A, NEW H, NEW W, NEW L, Intact(m, A, H, W, L),
         ~ PoolEmpty(m)
  PROVE  /\ Intact(AllocTempDesc(m), A \cup {NewSlot(m)}, H, W, L)
         /\ AllocTempDesc(m).desc = m.desc
         /\ Keeps(m, AllocTempDesc(m), Desc)
<1> DEFINE n == AllocTempDesc(m)
           s == NewSlot(m)
<1>1. m \in Memory /\ Sets(A, H, W, L) BY DEF Intact
<1>2. s \in Slot \ A /\ s \in Desc /\ m.desc[s] = Zero BY NewSlotIdle
<1>3. /\ n \in Memory /\ n.desc = [m.desc EXCEPT ![s] = Zero]
      /\ n.heap = m.heap
      /\ n.free = Tail(FreeList(m)) /\ n.used = m.used \cup {s}
  BY <1>1, <1>2, AllocTempDescFields
<1>4. FreeList(m) \in Seq(Slot) /\ FreeList(m) # << >> /\ s = FreeList(m)[1]
  <2>1. m.free \in Seq(Slot) BY <1>1, MemoryFields
  <2>2. [i \in Slot |-> i] \in Seq(Slot) BY PoolAssumption DEF Slot
  <2> QED BY <2>1, <2>2 DEF FreeList, PoolEmpty, NewSlot
<1>5. \A i, j \in DOMAIN FreeList(m) : FreeList(m)[i] = FreeList(m)[j] => i = j
  BY DEF Intact, Pooled, FreeList
<1>6. \A t \in Slot : (\E i \in DOMAIN FreeList(m) : FreeList(m)[i] = t)
                      <=> t \notin m.used
  BY DEF Intact, Pooled
<1>7. m.used = A \cap Slot BY DEF Intact, Pooled
<1> HIDE DEF n, s
<1>8. n.desc = m.desc BY <1>1, <1>2, <1>3 DEF Memory
<1>9. Pooled(n, A \cup {s})
  <2>1. FreeList(n) = Tail(FreeList(m)) BY <1>3 DEF FreeList
  <2> DEFINE q == FreeList(m)
             p == Tail(FreeList(m))
  <2>2. q \in Seq(Slot) /\ q # << >> /\ s = q[1] BY <1>4
  <2>3. /\ DOMAIN q = 1 .. Len(q) /\ Len(q) \in Nat \ {0}
        /\ DOMAIN p = 1 .. Len(q) - 1
        /\ \A i \in 1 .. Len(q) - 1 : p[i] = q[i + 1]
    <3> HIDE DEF q
    <3> QED BY <2>2 DEF p, q
  <2>4. \A i, j \in DOMAIN q : q[i] = q[j] => i = j BY <1>5
  <2>5. \A t \in Slot : (\E i \in DOMAIN q : q[i] = t) <=> t \notin m.used
    BY <1>6
  <2> HIDE DEF q, p
  <2>6. \A i \in DOMAIN p : i + 1 \in DOMAIN q /\ p[i] = q[i + 1] BY <2>3
  <2>7. \A i, j \in DOMAIN p : p[i] = p[j] => i = j
    <3> SUFFICES ASSUME NEW i \in DOMAIN p, NEW j \in DOMAIN p, p[i] = p[j]
                 PROVE  i = j
      OBVIOUS
    <3>1. i + 1 = j + 1 BY <2>4, <2>6
    <3>2. i \in Int /\ j \in Int BY <2>3
    <3> QED BY <3>1, <3>2
  <2>8. \A t \in Slot : (\E i \in DOMAIN p : p[i] = t) <=> t \notin n.used
    <3> SUFFICES ASSUME NEW t \in Slot
                 PROVE  (\E i \in DOMAIN p : p[i] = t) <=> t \notin n.used
      OBVIOUS
    <3>1. ASSUME NEW i \in DOMAIN p, p[i] = t
          PROVE  t # s /\ \E j \in DOMAIN q : q[j] = t
      <4>1. i + 1 \in DOMAIN q /\ q[i + 1] = t BY <2>6, <3>1
      <4>2. i + 1 # 1 /\ 1 \in DOMAIN q BY <2>3
      <4> QED BY <4>1, <4>2, <2>2, <2>4
    <3>2. ASSUME NEW j \in DOMAIN q, q[j] = t, t # s
          PROVE  \E i \in DOMAIN p : p[i] = t
      <4>1. j # 1 BY <3>2, <2>2
      <4>2. j - 1 \in DOMAIN p /\ p[j - 1] = t BY <4>1, <3>2, <2>3
      <4> QED BY <4>2
    <3>3. s \in Slot BY <1>2
    <3> QED BY <3>1, <3>2, <3>3, <2>5, <1>3
  <2>9. n.used = (A \cup {s}) \cap Slot BY <1>2, <1>3, <1>7
  <2>10. n.free = p /\ FreeList(n) = p BY <1>3, <2>1 DEF p
  <2> QED BY <2>7, <2>8, <2>9, <2>10 DEF Pooled
<1>10. Owned(n, L) /\ Written(n, W)
  BY <1>3, <1>8 DEF Intact, Owned, Bound, Unshared, Reached, Written, Data
<1>11. Marked(n, A \cup {s}, H) BY <1>8 DEF Intact, Marked
<1>12. Sets(A \cup {s}, H, W, L) BY <1>1, <1>2 DEF Sets
<1>13. Keeps(m, n, Desc) BY <1>3, <1>8 DEF Keeps
<1> QED BY <1>3, <1>8, <1>9, <1>10, <1>11, <1>12, <1>13 DEF Intact, n, s

(***************************************************************************)
(* Buffers: written, marked, moved, exchanged, allocated and resized.      *)
(***************************************************************************)

(* Writing as many units as d's length counts makes d's text known. *)
LEMMA CopyToSound ==
  ASSUME NEW m, NEW A, NEW H, NEW W, NEW L, Intact(m, A, H, W, L),
         NEW d \in Desc, NEW txt \in Seq(Char),
         Data(m, d) # NoBlock => Len(txt) = m.desc[d].len
  PROVE  /\ Intact(CopyTo(m, d, txt), A, H, W \cup {d}, L)
         /\ CopyTo(m, d, txt).desc = m.desc
         /\ Keeps(m, CopyTo(m, d, txt), Desc \ {d})
         /\ Reads(CopyTo(m, d, txt), d,
                  IF Data(m, d) = NoBlock THEN << >> ELSE txt)
<1> DEFINE n == CopyTo(m, d, txt)
           b == Data(m, d)
<1>1. m \in Memory /\ Sets(A, H, W, L) /\ Sets(A, H, W \cup {d}, L)
  BY DEF Intact, Sets
<1>2. b \in Block \cup {NoBlock} BY <1>1, MemoryFields
<1>3. CASE b = NoBlock
  <2>1. n = m BY <1>3 DEF CopyTo
  <2>2. Written(m, W \cup {d}) BY <1>3 DEF Intact, Written
  <2>3. Keeps(m, n, Desc \ {d}) BY <2>1 DEF Keeps
  <2>4. Reads(n, d, << >>) BY <1>3, <2>1 DEF Contents, Reads
  <2>5. Intact(n, A, H, W \cup {d}, L) BY <2>1, <2>2, <1>1 DEF Intact
  <2> QED BY <1>3, <2>1, <2>3, <2>4, <2>5
<1>4. CASE b # NoBlock
  <2>1. n = [m EXCEPT !.heap[b].text = txt] BY <1>4 DEF CopyTo
  <2> HIDE DEF n
  <2>2. [m.heap EXCEPT ![b].text = txt] \in [Block -> Buffer]
    <3>1. m.heap[b] \in Buffer /\ m.heap \in [Block -> Buffer]
      BY <1>1, <1>2, <1>4, MemoryFields
    <3>2. [m.heap[b] EXCEPT !.text = txt] \in Buffer
      BY <3>1 DEF Buffer, Char
    <3> QED BY <3>1, <3>2
  <2>3. n \in Memory BY <2>1, <2>2, <1>1 DEF Memory
  <2>4. /\ n.desc = m.desc /\ n.free = m.free /\ n.used = m.used
        /\ n.heap = [m.heap EXCEPT ![b].text = txt]
    BY <2>1, <1>1 DEF Memory
  <2>5. /\ n.heap[b].text = txt
        /\ \A c \in Block : /\ n.heap[c].live = m.heap[c].live
                            /\ n.heap[c].cap = m.heap[c].cap
                            /\ c # b => n.heap[c] = m.heap[c]
    <3>1. m.heap[b] \in Buffer /\ m.heap \in [Block -> Buffer]
      BY <1>1, <1>2, <1>4, MemoryFields
    <3> QED BY <2>4, <3>1, <1>2, <1>4 DEF Buffer
  <2>6. \A e \in Desc : Data(n, e) = Data(m, e) BY <2>4 DEF Data
  <2>7. Owned(n, L)
    <3>1. \A e \in Desc : Data(m, e) # NoBlock => Data(m, e) \in Block
      BY <1>1, MemoryFields
    <3> QED BY <3>1, <2>4, <2>5, <2>6 DEF Intact, Owned, Bound, Unshared, Reached
  <2>8. Pooled(n, A) /\ Marked(n, A, H)
    BY <2>4 DEF Intact, Pooled, Marked, FreeList
  <2>9. Written(n, W \cup {d})
    <3> SUFFICES ASSUME NEW e \in W \cup {d}, Data(n, e) # NoBlock
                 PROVE  n.desc[e].len = Len(n.heap[Data(n, e)].text)
      BY DEF Written
    <3>1. CASE e = d BY <3>1, <1>4, <2>4, <2>5, <2>6
    <3>2. CASE e # d
      <4>1. e \in W /\ e \in Desc BY <3>2, <1>1 DEF Sets
      <4>2. Data(m, e) \in Block /\ Data(m, e) # b
        BY <3>2, <4>1, <2>6, <1>1, <1>4, MemoryFields DEF Intact, Owned, Unshared
      <4> QED BY <4>1, <4>2, <2>4, <2>5, <2>6 DEF Intact, Written
    <3> QED BY <3>1, <3>2
  <2>10. \A e \in Desc \ {d} : Data(m, e) # NoBlock =>
           Data(m, e) \in Block /\ Data(m, e) # b
    BY <1>1, <1>4, MemoryFields DEF Intact, Owned, Unshared
  <2>11. Keeps(m, n, Desc \ {d}) BY <2>4, <2>5, <2>10 DEF Keeps
  <2>12. Reads(n, d, txt) BY <1>4, <2>5, <2>6 DEF Contents, Reads
  <2>13. Intact(n, A, H, W \cup {d}, L)
    BY <2>3, <2>4, <2>7, <2>8, <2>9, <1>1 DEF Intact
  <2> QED BY <1>4, <2>4, <2>11, <2>12, <2>13 DEF n
<1> QED BY <1>2, <1>3, <1>4

(* Putting on the temp bit. *)
LEMMA MarkTempSound ==
  ASSUME NEW m, NEW A, NEW H, NEW W, NEW L, Intact(m, A, H, W, L),
         NEW d \in A \cap Temps
  PROVE  /\ Intact(MarkTemp(m, d), A, H \cup {d}, W, L)
         /\ MarkTemp(m, d).desc[d].len = m.desc[d].len
         /\ Data(MarkTemp(m, d), d) = Data(m, d)
         /\ Keeps(m, MarkTemp(m, d), Desc \ {d})
<1> DEFINE n == MarkTemp(m, d)
<1>1. m \in Memory /\ Sets(A, H, W, L) /\ d \in Desc BY DEF Intact, Sets
<1>2. m.desc \in [Desc -> Descriptor] /\ m.desc[d] \in Descriptor
  BY <1>1, MemoryFields
<1>3. n = [m EXCEPT !.desc[d].temp = TRUE] BY DEF MarkTemp
<1> HIDE DEF n
<1>4. [m.desc EXCEPT ![d].temp = TRUE] \in [Desc -> Descriptor]
  BY <1>2 DEF Descriptor
<1>5. n \in Memory BY <1>1, <1>3, <1>4 DEF Memory
<1>6. /\ n.desc = [m.desc EXCEPT ![d].temp = TRUE] /\ n.heap = m.heap
      /\ n.free = m.free /\ n.used = m.used
  BY <1>1, <1>3 DEF Memory
<1>7. /\ n.desc[d].temp = TRUE /\ n.desc[d].len = m.desc[d].len
      /\ n.desc[d].size = m.desc[d].size /\ n.desc[d].data = m.desc[d].data
      /\ \A e \in Desc : e # d => n.desc[e] = m.desc[e]
  BY <1>1, <1>2, <1>6 DEF Descriptor
<1>8. \A e \in Desc : /\ Data(n, e) = Data(m, e)
                      /\ n.desc[e].len = m.desc[e].len
                      /\ n.desc[e].size = m.desc[e].size
  BY <1>7 DEF Data
<1>9. Owned(n, L)
  BY <1>6, <1>8 DEF Intact, Owned, Bound, Unshared, Reached
<1>10. Written(n, W) BY <1>1, <1>6, <1>8 DEF Intact, Written, Sets
<1>11. Pooled(n, A) BY <1>6 DEF Intact, Pooled, FreeList
<1>12. Marked(n, A, H \cup {d})
  <2>1. \A e \in Desc : n.desc[e].temp <=> e \in H \cup {d}
    <3> SUFFICES ASSUME NEW e \in Desc
                 PROVE  n.desc[e].temp <=> e \in H \cup {d}
      OBVIOUS
    <3>1. CASE e = d BY <3>1, <1>7
    <3>2. CASE e # d BY <3>2, <1>7 DEF Intact, Marked
    <3> QED BY <3>1, <3>2
  <2>2. \A e \in Desc \ A : n.desc[e] = Zero BY <1>7 DEF Intact, Marked
  <2> QED BY <2>1, <2>2 DEF Marked
<1>13. Sets(A, H \cup {d}, W, L) BY <1>1 DEF Sets
<1>14. Keeps(m, n, Desc \ {d}) BY <1>6, <1>7 DEF Keeps
<1> QED
  BY <1>1, <1>5, <1>7, <1>8, <1>9, <1>10, <1>11, <1>12, <1>13, <1>14 DEF Intact, n

(* The buffer of x moves to the empty y, which is a temp afterwards or not *)
(* as bit says: what stealing a temp and returning a result have in common.*)
Moved(m, x, y, bit) ==
  SetDesc(SetDesc(m, y, [m.desc[x] EXCEPT !.temp = bit]), x, Zero)

(* A buffer may move from one descriptor in use to another that holds none, if
   the first is zeroed: stealing a temp's buffer, returning a result. *)
LEMMA MoveSound ==
  ASSUME NEW m, NEW A, NEW H, NEW L, Intact(m, A, H, Desc, L),
         NEW x \in Desc, NEW y \in A, x # y, m.desc[y] = Zero,
         NEW bit \in BOOLEAN, bit => y \in Temps
  PROVE  /\ Intact(Moved(m, x, y, bit), A,
                  (H \ {x}) \cup (IF bit THEN {y} ELSE {}), Desc, L)
         /\ Moved(m, x, y, bit).desc[x] = Zero
         /\ Keeps(m, Moved(m, x, y, bit), Desc \ {x, y})
         /\ Reads(Moved(m, x, y, bit), y, Contents(m, x))
<1> DEFINE v == [m.desc[x] EXCEPT !.temp = bit]
           k == SetDesc(m, y, v)
           n == SetDesc(k, x, Zero)
           G == (H \ {x}) \cup (IF bit THEN {y} ELSE {})
<1>1. m \in Memory /\ Sets(A, H, Desc, L) /\ y \in Desc BY DEF Intact, Sets
<1>2. m.desc[x] \in Descriptor /\ y \notin H BY <1>1, MemoryFields, ZeroIdle
<1>3. /\ v \in Descriptor
      /\ v.data = m.desc[x].data /\ v.len = m.desc[x].len
      /\ v.size = m.desc[x].size /\ v.temp = bit
  BY <1>2 DEF Descriptor
<1> HIDE DEF v
<1>4. /\ k \in Memory /\ k.desc = [m.desc EXCEPT ![y] = v]
      /\ k.heap = m.heap /\ k.free = m.free /\ k.used = m.used
  BY <1>1, <1>3, SetDescFields
<1> HIDE DEF k
<1>5. /\ n \in Memory /\ n.desc = [k.desc EXCEPT ![x] = Zero]
      /\ n.heap = m.heap /\ n.free = m.free /\ n.used = m.used
  BY <1>4, Constants, SetDescFields
<1> HIDE DEF n
<1>6. /\ n.desc[x] = Zero /\ n.desc[y] = v
      /\ \A e \in Desc : e # x /\ e # y => n.desc[e] = m.desc[e]
  BY <1>1, <1>4, <1>5, MemoryFields
<1>7. /\ Data(n, x) = NoBlock /\ Data(n, y) = Data(m, x)
      /\ Data(m, y) = NoBlock
      /\ \A e \in Desc : e # x /\ e # y => Data(n, e) = Data(m, e)
  BY <1>3, <1>6 DEF Data, Zero
<1>8. Bound(n, L)
  <2>1. Bound(m, L) BY DEF Intact, Owned
  <2> SUFFICES ASSUME NEW e \in Desc
               PROVE  /\ n.desc[e].len <= MaxUnits
                      /\ Data(n, e) = NoBlock =>
                           n.desc[e].len = 0 /\ n.desc[e].size = 0
                      /\ Data(n, e) # NoBlock =>
                           /\ n.heap[Data(n, e)].live
                           /\ Data(n, e) \notin L
                           /\ n.desc[e].size = n.heap[Data(n, e)].cap
                           /\ n.desc[e].len <= n.desc[e].size
    BY DEF Bound
  <2>2. CASE e = x BY <2>2, <1>6, <1>7, SizeAssumption DEF Zero
  <2>3. CASE e = y BY <2>1, <2>3, <1>3, <1>5, <1>6, <1>7 DEF Bound
  <2>4. CASE e # x /\ e # y BY <2>1, <2>4, <1>5, <1>6, <1>7 DEF Bound
  <2> QED BY <2>2, <2>3, <2>4
<1>9. Unshared(n)
  BY <1>1, <1>7 DEF Intact, Owned, Unshared
<1>10. Reached(n, L)
  <2> SUFFICES ASSUME NEW b \in Block
               PROVE  n.heap[b].live <=> b \in L \/ \E e \in Desc : Data(n, e) = b
    BY DEF Reached
  <2>1. (\E e \in Desc : Data(n, e) = b) <=> (\E e \in Desc : Data(m, e) = b)
    BY <1>1, <1>7, NameAssumption
  <2> QED BY <2>1, <1>5 DEF Intact, Owned, Reached
<1>11. Written(n, Desc)
  <2>1. Written(m, Desc) BY DEF Intact
  <2> SUFFICES ASSUME NEW e \in Desc, Data(n, e) # NoBlock
               PROVE  n.desc[e].len = Len(n.heap[Data(n, e)].text)
    BY DEF Written
  <2>2. CASE e = y BY <2>1, <2>2, <1>3, <1>5, <1>6, <1>7 DEF Written
  <2>3. CASE e # y BY <2>1, <2>3, <1>5, <1>6, <1>7 DEF Written
  <2> QED BY <2>2, <2>3
<1>12. Pooled(n, A) BY <1>5 DEF Intact, Pooled, FreeList
<1>13. Marked(n, A, G)
  <2>1. \A e \in Desc : n.desc[e].temp <=> e \in G
    <3> SUFFICES ASSUME NEW e \in Desc
                 PROVE  n.desc[e].temp <=> e \in G
      OBVIOUS
    <3>1. CASE e = x BY <3>1, <1>6 DEF Zero
    <3>2. CASE e = y
      <4>1. n.desc[e].temp = bit BY <3>2, <1>3, <1>6
      <4> QED BY <4>1, <3>2, <1>2
    <3>3. CASE e # x /\ e # y BY <3>3, <1>6 DEF Intact, Marked
    <3> QED BY <3>1, <3>2, <3>3
  <2>2. \A e \in Desc \ A : n.desc[e] = Zero BY <1>6 DEF Intact, Marked
  <2> QED BY <2>1, <2>2 DEF Marked
<1>14. Sets(A, G, Desc, L) BY <1>1 DEF Sets
<1>15. Intact(n, A, G, Desc, L)
  BY <1>5, <1>8, <1>9, <1>10, <1>11, <1>12, <1>13, <1>14 DEF Intact, Owned
<1>16. Keeps(m, n, Desc \ {x, y}) BY <1>5, <1>6 DEF Keeps
<1>17. Reads(n, y, Contents(m, x)) BY <1>5, <1>7 DEF Contents, Reads
<1> QED BY <1>6, <1>15, <1>16, <1>17 DEF Moved, n, k, v

(* Exchanging two descriptors that are not temps. *)
LEMMA SwapSound ==
  ASSUME NEW m, NEW A, NEW H, NEW L, Intact(m, A, H, Desc, L),
         NEW x \in A \ H, NEW y \in A \ H
  PROVE  /\ Intact(Swap(m, x, y), A, H, Desc, L)
         /\ Keeps(m, Swap(m, x, y), Desc \ {x, y})
         /\ Reads(Swap(m, x, y), x, Contents(m, y))
         /\ Reads(Swap(m, x, y), y, Contents(m, x))
<1> DEFINE k == SetDesc(m, x, m.desc[y])
           n == SetDesc(k, y, m.desc[x])
<1>1. m \in Memory /\ Sets(A, H, Desc, L) /\ x \in Desc /\ y \in Desc
  BY DEF Intact, Sets
<1>2. m.desc[x] \in Descriptor /\ m.desc[y] \in Descriptor
  BY <1>1, MemoryFields
<1>3. /\ k \in Memory /\ k.desc = [m.desc EXCEPT ![x] = m.desc[y]]
      /\ k.heap = m.heap /\ k.free = m.free /\ k.used = m.used
  BY <1>1, <1>2, SetDescFields
<1> HIDE DEF k
<1>4. /\ n \in Memory /\ n.desc = [k.desc EXCEPT ![y] = m.desc[x]]
      /\ n.heap = m.heap /\ n.free = m.free /\ n.used = m.used
  BY <1>1, <1>2, <1>3, SetDescFields
<1> HIDE DEF n
<1>5. /\ n.desc[x] = m.desc[y] /\ n.desc[y] = m.desc[x]
      /\ \A e \in Desc : e # x /\ e # y => n.desc[e] = m.desc[e]
  BY <1>1, <1>3, <1>4, MemoryFields
<1>6. /\ Data(n, x) = Data(m, y) /\ Data(n, y) = Data(m, x)
      /\ \A e \in Desc : e # x /\ e # y => Data(n, e) = Data(m, e)
  BY <1>5 DEF Data
<1>7. Bound(n, L)
  <2>1. Bound(m, L) BY DEF Intact, Owned
  <2> SUFFICES ASSUME NEW e \in Desc
               PROVE  \E f \in Desc : n.desc[e] = m.desc[f]
    BY <2>1, <1>4 DEF Bound, Data
  <2> QED BY <1>1, <1>5
<1>8. Unshared(n) BY <1>1, <1>6 DEF Intact, Owned, Unshared
<1>9. Reached(n, L)
  <2> SUFFICES ASSUME NEW b \in Block
               PROVE  n.heap[b].live <=> b \in L \/ \E e \in Desc : Data(n, e) = b
    BY DEF Reached
  <2>1. (\E e \in Desc : Data(n, e) = b) <=> (\E e \in Desc : Data(m, e) = b)
    BY <1>1, <1>6
  <2> QED BY <2>1, <1>4 DEF Intact, Owned, Reached
<1>10. Written(n, Desc)
  <2>1. Written(m, Desc) BY DEF Intact
  <2> SUFFICES ASSUME NEW e \in Desc
               PROVE  \E f \in Desc : n.desc[e] = m.desc[f]
    BY <2>1, <1>4 DEF Written, Data
  <2> QED BY <1>1, <1>5
<1>11. Pooled(n, A) BY <1>4 DEF Intact, Pooled, FreeList
<1>12. Marked(n, A, H)
  <2>1. \A e \in Desc : n.desc[e].temp <=> e \in H
    <3> SUFFICES ASSUME NEW e \in Desc
                 PROVE  n.desc[e].temp <=> e \in H
      OBVIOUS
    <3>1. CASE e = x BY <3>1, <1>1, <1>5 DEF Intact, Marked
    <3>2. CASE e = y BY <3>2, <1>1, <1>5 DEF Intact, Marked
    <3>3. CASE e # x /\ e # y BY <3>3, <1>5 DEF Intact, Marked
    <3> QED BY <3>1, <3>2, <3>3
  <2>2. \A e \in Desc \ A : n.desc[e] = Zero BY <1>5 DEF Intact, Marked
  <2> QED BY <2>1, <2>2 DEF Marked
<1>13. Intact(n, A, H, Desc, L)
  BY <1>1, <1>4, <1>7, <1>8, <1>9, <1>10, <1>11, <1>12 DEF Intact, Owned
<1>14. Keeps(m, n, Desc \ {x, y}) BY <1>4, <1>5 DEF Keeps
<1>15. Reads(n, x, Contents(m, y)) /\ Reads(n, y, Contents(m, x))
  BY <1>4, <1>6 DEF Contents, Reads
<1> QED BY <1>13, <1>14, <1>15 DEF Swap, n, k

(* A block that is not live is nobody's and not lost. *)
LEMMA DeadBlock ==
  ASSUME NEW m, NEW A, NEW H, NEW W, NEW L, Intact(m, A, H, W, L),
         NEW b \in Block, ~ m.heap[b].live
  PROVE  b \notin L /\ \A e \in Desc : Data(m, e) # b
BY DEF Intact, Owned, Reached

(* While the heap is not full there is a dead block to hand out. *)
LEMMA FreshBlock ==
  ASSUME NEW m, ~ HeapFull(m)
  PROVE  Fresh(m) \in Block /\ ~ m.heap[Fresh(m)].live
BY DEF HeapFull, Fresh

(* Whatever the allocator answers, d comes to own a buffer that nobody     *)
(* else has, of a capacity that covers its length, and the buffer it had   *)
(* is gone.  Allocation and reallocation share this step.                  *)
Placed(m, r, d, at, new, n) ==
  /\ at \in Block /\ (at = Data(m, d) \/ ~ m.heap[at].live)
  /\ new \in Buffer /\ new.live
  /\ n \in Nat /\ n <= MaxUnits /\ n <= new.cap
  /\ r \in Memory /\ r.free = m.free /\ r.used = m.used
  /\ r.desc[d] = [data |-> at, len |-> n, size |-> new.cap,
                  temp |-> m.desc[d].temp]
  /\ \A e \in Desc : e # d => r.desc[e] = m.desc[e]
  /\ \A b \in Block : r.heap[b] = IF b = at THEN new
                                   ELSE IF b = Data(m, d) THEN Dead
                                   ELSE m.heap[b]

(* A dead block that no descriptor points at may be given to a zeroed one. *)
LEMMA PlaceSound ==
  ASSUME NEW m, NEW A, NEW H, NEW W, NEW L, Intact(m, A, H, W, L),
         NEW d \in A, NEW r, NEW at, NEW new, NEW n,
         Placed(m, r, d, at, new, n)
  PROVE  /\ Intact(r, A, H, W \ {d}, L)
         /\ Keeps(m, r, Desc \ {d})
         /\ Reads(r, d, new.text)
<1> USE DEF Placed
<1>1. m \in Memory /\ Sets(A, H, W, L) /\ d \in Desc BY DEF Intact, Sets
<1>2. at # NoBlock /\ Data(m, d) \in Block \cup {NoBlock}
  BY <1>1, MemoryFields, NameAssumption
<1>3. \A e \in Desc : e # d => Data(m, e) # at
  BY <1>1, <1>2, DeadBlock DEF Intact, Owned, Unshared
<1>4. at \notin L
  BY <1>1, <1>2, DeadBlock DEF Intact, Owned, Bound
<1>5. Data(r, d) = at /\ \A e \in Desc : e # d => Data(r, e) = Data(m, e)
  BY DEF Data
<1>6. \A e \in Desc : e # d /\ Data(m, e) # NoBlock =>
        Data(m, e) \in Block /\ r.heap[Data(m, e)] = m.heap[Data(m, e)]
  BY <1>1, <1>3, MemoryFields DEF Intact, Owned, Unshared
<1>7. Bound(r, L)
  <2>1. Bound(m, L) BY DEF Intact, Owned
  <2> SUFFICES ASSUME NEW e \in Desc
               PROVE  /\ r.desc[e].len <= MaxUnits
                      /\ Data(r, e) = NoBlock =>
                           r.desc[e].len = 0 /\ r.desc[e].size = 0
                      /\ Data(r, e) # NoBlock =>
                           /\ r.heap[Data(r, e)].live
                           /\ Data(r, e) \notin L
                           /\ r.desc[e].size = r.heap[Data(r, e)].cap
                           /\ r.desc[e].len <= r.desc[e].size
    BY DEF Bound
  <2>2. CASE e = d BY <2>2, <1>2, <1>4, <1>5
  <2>3. CASE e # d BY <2>1, <2>3, <1>5, <1>6 DEF Bound
  <2> QED BY <2>2, <2>3
<1>8. Unshared(r)
  BY <1>3, <1>5 DEF Intact, Owned, Unshared
<1>9. Reached(r, L)
  <2> SUFFICES ASSUME NEW b \in Block
               PROVE  r.heap[b].live <=> b \in L \/ \E e \in Desc : Data(r, e) = b
    BY DEF Reached
  <2>1. CASE b = at BY <2>1, <1>1, <1>5
  <2>2. CASE b # at /\ b = Data(m, d)
    <3>1. ~ r.heap[b].live BY <2>2, Constants
    <3>2. b # NoBlock BY NameAssumption
    <3>3. b \notin L BY <2>2, <3>2, <1>1 DEF Intact, Owned, Bound
    <3>4. \A e \in Desc : Data(r, e) # b
      BY <2>2, <3>2, <1>1, <1>5 DEF Intact, Owned, Unshared
    <3> QED BY <3>1, <3>3, <3>4
  <2>3. CASE b # at /\ b # Data(m, d)
    BY <2>3, <1>5 DEF Intact, Owned, Reached
  <2> QED BY <2>1, <2>2, <2>3
<1>10. Written(r, W \ {d})
  BY <1>1, <1>5, <1>6 DEF Intact, Written, Sets
<1>11. Pooled(r, A) BY DEF Intact, Pooled, FreeList
<1>12. Marked(r, A, H)
  <2>1. \A e \in Desc : r.desc[e].temp <=> e \in H
    <3> SUFFICES ASSUME NEW e \in Desc
                 PROVE  r.desc[e].temp <=> e \in H
      OBVIOUS
    <3>1. r.desc[e].temp = m.desc[e].temp
      <4>1. CASE e = d BY <4>1
      <4>2. CASE e # d BY <4>2
      <4> QED BY <4>1, <4>2
    <3> QED BY <3>1 DEF Intact, Marked
  <2>2. \A e \in Desc \ A : r.desc[e] = Zero BY DEF Intact, Marked
  <2> QED BY <2>1, <2>2 DEF Marked
<1>13. Sets(A, H, W \ {d}, L) BY <1>1 DEF Sets
<1>14. Keeps(m, r, Desc \ {d}) BY <1>6 DEF Keeps
<1>15. Reads(r, d, new.text) BY <1>2, <1>5 DEF Contents, Reads
<1> QED
  BY <1>7, <1>8, <1>9, <1>10, <1>11, <1>12, <1>13, <1>14, <1>15 DEF Intact, Owned

(* r is m with d sized for n units, not yet written, or emptied. *)
Sized(r, m, d, n, A, H, W, L) ==
  /\ Intact(r, A, H, W \ {d}, L)
  /\ r.desc[d] = Zero \/ (Data(r, d) # NoBlock /\ r.desc[d].len = n)
  /\ Keeps(m, r, Desc \ {d})

(* A fresh buffer, or none: either way the memory is sound with the text of d
   not yet written. *)
LEMMA MallocSound ==
  ASSUME NEW m, NEW A, NEW H, NEW W, NEW L, Intact(m, A, H, W, L),
         NEW d \in A, m.desc[d] = Zero,
         NEW n \in Nat, n <= MaxUnits, NEW room \in Nat, n <= room, NEW got
  PROVE  Sized(Malloc(m, d, n, room, got), m, d, n, A, H, W, L)
<1> DEFINE r == Malloc(m, d, n, room, got)
           cap == IF got = "rounded" THEN room ELSE n
           new == [live |-> TRUE, cap |-> cap, text |-> << >>]
           at == Fresh(m)
           v == [data |-> at, len |-> n, size |-> cap, temp |-> FALSE]
<1>1. m \in Memory /\ Sets(A, H, W, L) /\ d \in Desc BY DEF Intact, Sets
<1>2. CASE got = "none" \/ HeapFull(m)
  <2>1. r = m BY <1>1, <1>2, SetSame DEF Malloc
  <2>2. Intact(m, A, H, W \ {d}, L) BY Weaken
  <2> QED BY <2>1, <2>2 DEF Sized, Keeps
<1>3. CASE ~ (got = "none" \/ HeapFull(m))
  <2>1. at \in Block /\ ~ m.heap[at].live BY <1>3, FreshBlock
  <2>2. r = [m EXCEPT !.heap[at] = new, !.desc[d] = v] BY <1>3 DEF Malloc
  <2>3. cap \in Nat /\ n <= cap OBVIOUS
  <2>4. new \in Buffer /\ new.live /\ new.cap = cap
    <3>1. << >> \in Seq(Unit \cup {Wild}) OBVIOUS
    <3> HIDE DEF cap
    <3> QED BY <2>3, <3>1 DEF Buffer
  <2> HIDE DEF new
  <2>5. v \in Descriptor /\ v.data = at /\ v.len = n /\ v.temp = FALSE
    <3> HIDE DEF cap, at
    <3> QED BY <2>1, <2>3 DEF Descriptor
  <2>6. v = [data |-> at, len |-> n, size |-> new.cap, temp |-> m.desc[d].temp]
    BY <2>4 DEF Zero
  <2> HIDE DEF r, cap, at, v
  <2>7. /\ [m.heap EXCEPT ![at] = new] \in [Block -> Buffer]
        /\ [m.desc EXCEPT ![d] = v] \in [Desc -> Descriptor]
    BY <1>1, <2>1, <2>4, <2>5, MemoryFields
  <2>8. r \in Memory BY <1>1, <2>2, <2>7 DEF Memory
  <2>9. /\ r.heap = [m.heap EXCEPT ![at] = new]
        /\ r.desc = [m.desc EXCEPT ![d] = v]
        /\ r.free = m.free /\ r.used = m.used
    BY <1>1, <2>2 DEF Memory
  <2>10. r.desc[d] = v /\ \A e \in Desc : e # d => r.desc[e] = m.desc[e]
    BY <1>1, <2>9, MemoryFields
  <2>11. Data(m, d) = NoBlock BY DEF Data, Zero
  <2>12. \A b \in Block : r.heap[b] = IF b = at THEN new
                                      ELSE IF b = Data(m, d) THEN Dead
                                      ELSE m.heap[b]
    BY <1>1, <2>9, <2>11, MemoryFields, NameAssumption
  <2>13. Intact(r, A, H, W \ {d}, L) /\ Keeps(m, r, Desc \ {d})
    <3>1. at \in Block /\ (at = Data(m, d) \/ ~ m.heap[at].live) BY <2>1
    <3>2. new \in Buffer /\ new.live /\ n <= new.cap BY <2>3, <2>4
    <3>3. r.desc[d] = [data |-> at, len |-> n, size |-> new.cap,
                       temp |-> m.desc[d].temp]
      BY <2>6, <2>10
    <3>4. r.free = m.free /\ r.used = m.used BY <2>9
    <3>5. Placed(m, r, d, at, new, n)
      BY <3>1, <3>2, <3>3, <3>4, <2>8, <2>10, <2>12 DEF Placed
    <3> QED BY <3>5, PlaceSound
  <2>14. Data(r, d) # NoBlock /\ r.desc[d].len = n
    BY <2>1, <2>5, <2>10, NameAssumption DEF Data
  <2> QED BY <2>10, <2>13, <2>14 DEF r, Sized
<1> QED BY <1>2, <1>3

(* realloc that succeeds, in place or elsewhere. *)
LEMMA ResizeSound ==
  ASSUME NEW m, NEW A, NEW H, NEW W, NEW L, Intact(m, A, H, W, L),
         NEW d \in A, NEW n \in Nat, n <= MaxUnits, NEW got,
         NEW moved \in BOOLEAN, ~ Refused(m, d, got)
  PROVE  /\ Intact(Resize(m, d, n, got, moved), A, H, W \ {d}, L)
         /\ Resize(m, d, n, got, moved).desc[d].len = n
         /\ Data(Resize(m, d, n, got, moved), d) # NoBlock
         /\ Keeps(m, Resize(m, d, n, got, moved), Desc \ {d})
<1> DEFINE r == Resize(m, d, n, got, moved)
           old == Data(m, d)
           cap == IF got = "rounded" THEN Grown(n) ELSE n
           at == IF old = NoBlock \/ (moved /\ ~ HeapFull(m))
                 THEN Fresh(m) ELSE old
           new == [live |-> TRUE, cap |-> cap, text |-> Contents(m, d)]
           f == Free(m, old)
<1>1. m \in Memory /\ Sets(A, H, W, L) /\ d \in Desc BY DEF Intact, Sets
<1>2. old \in Block \cup {NoBlock} BY <1>1, MemoryFields
<1>3. cap \in Nat /\ n <= cap BY GrownBound
<1>4. at \in Block /\ (at = old \/ ~ m.heap[at].live)
  BY <1>2, FreshBlock DEF Refused
<1>5. Contents(m, d) \in Seq(Char)
  BY <1>1, <1>2, MemoryFields DEF Contents
<1>6. new \in Buffer /\ new.live /\ new.cap = cap
  <2> HIDE DEF cap
  <2> QED BY <1>3, <1>5 DEF Buffer, Char
<1>7. /\ f \in Memory /\ f.desc = m.desc /\ f.free = m.free /\ f.used = m.used
      /\ f.heap = IF old = NoBlock THEN m.heap ELSE [m.heap EXCEPT ![old] = Dead]
  BY <1>1, <1>2, FreeFields
<1> DEFINE g == [f EXCEPT !.heap[at] = new]
           v == [data |-> at, len |-> n, size |-> cap, temp |-> m.desc[d].temp]
<1>8. r = SetDesc(g, d, v) BY DEF Resize
<1> HIDE DEF r, cap, at, new, f
<1>9. v \in Descriptor /\ v.len = n
  <2>1. m.desc[d].temp \in BOOLEAN BY <1>1, MemoryFields
  <2>2. cap \in Nat /\ at \in Block BY <1>3, <1>4
  <2> QED BY <2>1, <2>2 DEF Descriptor
<1>10. [f.heap EXCEPT ![at] = new] \in [Block -> Buffer]
  BY <1>4, <1>6, <1>7, MemoryFields
<1>11. g \in Memory BY <1>7, <1>10 DEF Memory
<1>12. /\ g.heap = [f.heap EXCEPT ![at] = new] /\ g.desc = m.desc
       /\ g.free = m.free /\ g.used = m.used
  BY <1>7, <1>11 DEF Memory
<1> HIDE DEF g, v
<1>13. /\ r \in Memory /\ r.heap = [f.heap EXCEPT ![at] = new]
       /\ r.desc = [m.desc EXCEPT ![d] = v]
       /\ r.free = m.free /\ r.used = m.used
  BY <1>1, <1>8, <1>9, <1>11, <1>12, SetDescFields
<1>14. r.desc[d] = v /\ \A e \in Desc : e # d => r.desc[e] = m.desc[e]
  BY <1>1, <1>13, MemoryFields
<1>15. \A b \in Block : r.heap[b] = IF b = at THEN new
                                    ELSE IF b = old THEN Dead ELSE m.heap[b]
  <2> SUFFICES ASSUME NEW b \in Block
               PROVE  r.heap[b] = IF b = at THEN new
                                  ELSE IF b = old THEN Dead ELSE m.heap[b]
    OBVIOUS
  <2>1. f.heap \in [Block -> Buffer] /\ m.heap \in [Block -> Buffer]
    BY <1>1, <1>7, MemoryFields
  <2>2. f.heap[b] = IF b = old THEN Dead ELSE m.heap[b]
    BY <2>1, <1>2, <1>7, NameAssumption
  <2> QED BY <2>1, <2>2, <1>13
<1>16. Intact(r, A, H, W \ {d}, L) /\ Keeps(m, r, Desc \ {d})
  <2>1. new \in Buffer /\ new.live /\ n <= new.cap BY <1>3, <1>6
  <2>2. r.desc[d] = [data |-> at, len |-> n, size |-> new.cap,
                     temp |-> m.desc[d].temp]
    BY <1>6, <1>14 DEF v
  <2>3. at = Data(m, d) \/ ~ m.heap[at].live BY <1>4
  <2>4. \A b \in Block : r.heap[b] = IF b = at THEN new
                                     ELSE IF b = Data(m, d) THEN Dead
                                     ELSE m.heap[b]
    BY <1>15
  <2>5. r.free = m.free /\ r.used = m.used BY <1>13
  <2>6. Placed(m, r, d, at, new, n)
    BY <2>1, <2>2, <2>3, <2>4, <2>5, <1>4, <1>13, <1>14 DEF Placed
  <2> QED BY <2>6, PlaceSound
<1>17. Data(r, d) # NoBlock BY <1>4, <1>14, NameAssumption DEF v, Data
<1> QED BY <1>9, <1>14, <1>16, <1>17 DEF r

(* A length that fits the buffer there is. *)
LEMMA ReuseSound ==
  ASSUME NEW m, NEW A, NEW H, NEW W, NEW L, Intact(m, A, H, W, L),
         NEW d \in A, Data(m, d) # NoBlock,
         NEW n \in Nat, n <= MaxUnits, n <= m.desc[d].size
  PROVE  Sized(SetLen(m, d, n), m, d, n, A, H, W, L)
<1> DEFINE r == SetLen(m, d, n)
           v == [m.desc[d] EXCEPT !.len = n]
           at == Data(m, d)
<1>1. m \in Memory /\ Sets(A, H, W, L) /\ d \in Desc BY DEF Intact, Sets
<1>2. m.desc[d] \in Descriptor /\ m.desc \in [Desc -> Descriptor]
  BY <1>1, MemoryFields
<1>3. /\ v \in Descriptor
      /\ v = [data |-> at, len |-> n, size |-> m.desc[d].size,
              temp |-> m.desc[d].temp]
  BY <1>2 DEF Descriptor, Data
<1>4. r = SetDesc(m, d, v) BY DEF SetLen
<1> HIDE DEF v, r
<1>6. /\ r \in Memory /\ r.desc = [m.desc EXCEPT ![d] = v]
      /\ r.heap = m.heap /\ r.free = m.free /\ r.used = m.used
  BY <1>1, <1>3, <1>4, SetDescFields
<1>7. r.desc[d] = v /\ \A e \in Desc : e # d => r.desc[e] = m.desc[e]
  BY <1>1, <1>2, <1>6
<1>8. at \in Block /\ m.heap[at] \in Buffer BY <1>1, MemoryFields
<1>9. m.heap[at].live /\ m.heap[at].cap = m.desc[d].size
  BY <1>1 DEF Intact, Owned, Bound
<1>10. Intact(r, A, H, W \ {d}, L) /\ Keeps(m, r, Desc \ {d})
  <2>1. r.desc[d] = [data |-> at, len |-> n, size |-> m.heap[at].cap,
                     temp |-> m.desc[d].temp]
    BY <1>3, <1>7, <1>9
  <2>2. \A b \in Block : r.heap[b] = IF b = at THEN m.heap[at]
                                     ELSE IF b = Data(m, d) THEN Dead
                                     ELSE m.heap[b]
    BY <1>6
  <2>3. at = Data(m, d) \/ ~ m.heap[at].live OBVIOUS
  <2>4. n <= m.heap[at].cap BY <1>9
  <2>5. r.free = m.free /\ r.used = m.used BY <1>6
  <2> DEFINE new == m.heap[at]
  <2>6. Placed(m, r, d, at, new, n)
    BY <2>1, <2>2, <2>3, <2>4, <2>5, <1>6, <1>7, <1>8, <1>9 DEF Placed
  <2> HIDE DEF new, at
  <2> QED BY <2>6, PlaceSound
<1>11. Data(r, d) = at /\ r.desc[d].len = n BY <1>3, <1>7 DEF Data
<1> QED BY <1>7, <1>10, <1>11 DEF r, Sized

(* fb_hUStrRealloc, when the text need not survive: on success d holds n   *)
(* units, and otherwise nothing.                                           *)
LEMMA ReallocSound ==
  ASSUME NEW m, NEW A, NEW H, NEW W, NEW L, Intact(m, A, H, W, L),
         NEW d \in A \ H, NEW n \in Nat, ~ TooBig(n), NEW got, NEW moved
  PROVE  Sized(UStrRealloc(m, d, n, FALSE, got, moved), m, d, n, A, H, W, L)
<1> DEFINE r == UStrRealloc(m, d, n, FALSE, got, moved)
           k == UStrDelete(m, d)
<1>1. m \in Memory /\ Sets(A, H, W, L) /\ d \in Desc BY DEF Intact, Sets
<1>2. n <= MaxUnits BY SizeAssumption DEF TooBig
<1>3. CASE ~ NeedsBuffer(m, d, n, FALSE)
  <2>1. r = SetLen(m, d, n) BY <1>3 DEF UStrRealloc
  <2>2. m.desc[d].size \in Nat BY <1>1, MemoryFields
  <2>3. Data(m, d) # NoBlock /\ n <= m.desc[d].size
    BY <1>3, <2>2 DEF NeedsBuffer, Misfit
  <2>4. Sized(SetLen(m, d, n), m, d, n, A, H, W, L) BY <2>3, <1>2, ReuseSound
  <2> QED BY <2>1, <2>4
<1>4. CASE NeedsBuffer(m, d, n, FALSE)
  <2> DEFINE g == Grown(n)
             K == H \ {d}
             V == W \cup {d}
  <2>1. r = Malloc(k, d, n, g, got) BY <1>4 DEF UStrRealloc
  <2>2. Intact(k, A, K, V, L) /\ k.desc[d] = Zero BY <1>1, DeleteSound
  <2>3. K = H /\ V \ {d} = W \ {d} OBVIOUS
  <2>4. Keeps(m, k, Desc \ {d}) BY <1>1, DeleteSound
  <2>5. g \in Nat /\ n <= g BY GrownBound
  <2> HIDE DEF k, r, g, K, V
  <2>6. Sized(Malloc(k, d, n, g, got), k, d, n, A, K, V, L)
    BY <2>2, <2>5, <1>2, MallocSound
  <2>7. Keeps(m, r, Desc \ {d}) BY <2>1, <2>4, <2>6, KeepsTwice DEF Sized
  <2>8. Sized(r, m, d, n, A, H, W, L) BY <2>1, <2>3, <2>6, <2>7 DEF Sized
  <2> QED BY <2>8 DEF r
<1> QED BY <1>3, <1>4

(* An empty descriptor has no text to be written. *)
LEMMA EmptyWritten ==
  ASSUME NEW m, NEW A, NEW H, NEW L, NEW d \in Desc,
         Intact(m, A, H, Desc \ {d}, L), m.desc[d] = Zero
  PROVE  Intact(m, A, H, Desc, L)
<1>1. Data(m, d) = NoBlock BY DEF Data, Zero
<1> QED BY <1>1 DEF Intact, Sets, Written

(***************************************************************************)
(* Operands: their text is what their length says, and releasing one ends  *)
(* its flight if it was a temp.                                            *)
(***************************************************************************)
AnyOperand == Desc \cup Raw \cup {NullPtr}

(* The text of an operand is as long as its length says, a sequence of units,
   and no longer than the largest request. *)
LEMMA OperandText ==
  ASSUME NEW m, NEW A, NEW H, NEW L, Intact(m, A, H, Desc, L),
         NEW o \in AnyOperand
  PROVE  /\ TextOf(m, o) \in Seq(Char)
         /\ LenOf(m, o) \in Nat /\ LenOf(m, o) <= MaxUnits
         /\ Len(TextOf(m, o)) = LenOf(m, o)
<1>1. m \in Memory BY DEF Intact
<1>2. CASE o \in Desc
  <2>1. TextOf(m, o) = Contents(m, o) /\ LenOf(m, o) = m.desc[o].len
    BY <1>2, NameAssumption DEF TextOf, LenOf
  <2>2. m.desc[o].len \in Nat /\ m.desc[o].len <= MaxUnits
    BY <1>1, <1>2, MemoryFields DEF Intact, Owned, Bound
  <2>3. CASE Data(m, o) = NoBlock
    <3>1. m.desc[o].len = 0 BY <2>3, <1>2 DEF Intact, Owned, Bound
    <3>2. Contents(m, o) = << >> BY <2>3 DEF Contents
    <3> QED BY <2>1, <2>2, <3>1, <3>2
  <2>4. CASE Data(m, o) # NoBlock
    <3>1. Contents(m, o) = m.heap[Data(m, o)].text BY <2>4 DEF Contents
    <3>2. Data(m, o) \in Block BY <2>4, <1>1, <1>2, MemoryFields
    <3>3. Contents(m, o) \in Seq(Char) BY <1>1, <3>1, <3>2, MemoryFields
    <3>4. m.desc[o].len = Len(Contents(m, o))
      BY <1>2, <2>4, <3>1 DEF Intact, Written
    <3> QED BY <2>1, <2>2, <3>3, <3>4
  <2> QED BY <2>3, <2>4
<1>3. CASE o \in Raw
  <2>1. o \notin Desc BY <1>3, NameAssumption
  <2>2. TextOf(m, o) = RawText[o] /\ LenOf(m, o) = Len(RawText[o])
    BY <1>3, <2>1 DEF TextOf, LenOf
  <2>3. RawText[o] \in Seq(Unit) /\ Len(RawText[o]) <= MaxUnits
    BY <1>3, RawAssumption
  <2> QED BY <2>2, <2>3 DEF Char
<1>4. CASE o = NullPtr
  <2>1. o \notin Desc /\ o \notin Raw BY <1>4, NameAssumption
  <2>2. TextOf(m, o) = << >> /\ LenOf(m, o) = Len(<< >>)
    BY <2>1 DEF TextOf, LenOf
  <2> QED BY <2>2, SizeAssumption
<1> QED BY <1>2, <1>3, <1>4 DEF AnyOperand

(* fb_hUStrDelTemp takes a temp out of use, and leaves a variable alone. *)
LEMMA DelTempSound ==
  ASSUME NEW m, NEW A, NEW H, NEW L, Intact(m, A, H, Desc, L),
         NEW o \in Desc, o \in Slot => o \in H
  PROVE  /\ Intact(Release(m, o), A \ ({o} \cap H), H \ {o}, Desc, L)
         /\ OnlyChanges(m, Release(m, o), {}, {o} \cap H)
<1>1. m \in Memory /\ Sets(A, H, Desc, L) BY DEF Intact
<1>2. Release(m, o) = DelTemp(m, o) /\ o # NullPtr
  BY NameAssumption DEF Release
<1>3. m.desc[o].temp <=> o \in H BY DEF Intact, Marked
<1>4. CASE o \in H
  <2> DEFINE k == UStrDelete(m, o)
             G == H \ {o}
  <2>1. Release(m, o) = DelTempDesc(k, o) BY <1>2, <1>3, <1>4 DEF DelTemp
  <2>2. Intact(k, A, G, Desc \cup {o}, L) /\ k.desc[o] = Zero
        /\ Keeps(m, k, Desc \ {o})
    BY DeleteSound
  <2>3. o \in A BY <1>1, <1>4 DEF Sets
  <2> HIDE DEF k, G
  <2>4. Desc \cup {o} = Desc OBVIOUS
  <2>5. Intact(k, A, G, Desc, L) BY <2>2, <2>4
  <2>6. /\ Intact(DelTempDesc(k, o), A \ {o}, G \ {o}, Desc, L)
        /\ Keeps(k, DelTempDesc(k, o), Desc)
    BY <2>2, <2>3, <2>5, DelTempDescSound
  <2>7. G \ {o} = H \ {o} /\ A \ ({o} \cap H) = A \ {o} BY <1>4 DEF G
  <2>8. Keeps(m, Release(m, o), Desc \ {o})
    BY <2>1, <2>2, <2>6, KeepsTwice
  <2>9. Desc \ {o} = Desc \ ({} \cup ({o} \cap H)) BY <1>4
  <2>10. Release(m, o).desc[o] = Zero BY <2>1, <2>2, <2>6 DEF Keeps
  <2>11. OnlyChanges(m, Release(m, o), {}, {o} \cap H)
    BY <2>8, <2>9, <2>10 DEF OnlyChanges
  <2> QED BY <2>1, <2>6, <2>7, <2>11
<1>5. CASE o \notin H
  <2>1. Release(m, o) = m BY <1>2, <1>3, <1>5 DEF DelTemp, DelTempDesc
  <2>2. H \ {o} = H /\ A \ ({o} \cap H) = A BY <1>5
  <2>3. OnlyChanges(m, m, {}, {o} \cap H) BY <1>5 DEF OnlyChanges, Keeps
  <2> QED BY <2>1, <2>2, <2>3
<1> QED BY <1>4, <1>5

(* The end of an entry point: an operand that was a temp is no longer in use. *)
LEMMA ReleaseSound ==
  ASSUME NEW m, NEW A, NEW H, NEW L, Intact(m, A, H, Desc, L),
         NEW o \in AnyOperand, o \in Slot => o \in H
  PROVE  /\ Intact(Release(m, o), A \ ({o} \cap H), H \ {o}, Desc, L)
         /\ OnlyChanges(m, Release(m, o), {}, {o} \cap H)
<1>1. CASE o \in Desc BY <1>1, DelTempSound
<1>2. CASE o \notin Desc
  <2>1. Release(m, o) = m BY <1>2 DEF Release
  <2>2. o \notin H BY <1>2 DEF Intact, Sets
  <2>3. H \ {o} = H /\ A \ ({o} \cap H) = A BY <2>2
  <2>4. OnlyChanges(m, m, {}, {o} \cap H) BY <2>2 DEF OnlyChanges, Keeps
  <2> QED BY <2>1, <2>3, <2>4
<1> QED BY <1>1, <1>2

(***************************************************************************)
(* Temps: allocated in an empty descriptor, or in one from the pool.       *)
(***************************************************************************)
NoTemp(m, r, A, H, L) ==
  r.at = NullPtr /\ Intact(r.mem, A, H, Desc, L) /\ Keeps(m, r.mem, Desc)
GotTemp(m, r, d, n, A, H, L) ==
  /\ r.at = d /\ Intact(r.mem, A, H \cup {d}, Desc \ {d}, L)
  /\ r.mem.desc[d].len = n /\ n <= MaxUnits /\ Data(r.mem, d) # NoBlock
  /\ Keeps(m, r.mem, Desc \ {d})

(* fb_hUStrAllocTemp in a descriptor the caller gives: it is marked as a temp
   with room for n units, or comes back empty and unmarked. *)
LEMMA AllocTempInSound ==
  ASSUME NEW m, NEW A, NEW H, NEW L, Intact(m, A, H, Desc, L),
         NEW d \in (A \cap Temps) \ H, m.desc[d] = Zero,
         NEW n \in Nat, NEW got
  PROVE  \/ /\ NoTemp(m, AllocTempIn(m, d, n, got), A, H, L)
            /\ AllocTempIn(m, d, n, got).mem.desc[d] = Zero
         \/ GotTemp(m, AllocTempIn(m, d, n, got), d, n, A, H, L)
<1> DEFINE r == UStrRealloc(m, d, n, FALSE, got, FALSE)
           t == AllocTempIn(m, d, n, got)
<1>1. m \in Memory /\ Sets(A, H, Desc, L) /\ d \in Desc BY DEF Intact, Sets
<1>2. CASE TooBig(n)
  <2>1. r = m BY <1>2 DEF UStrRealloc
  <2>2. t = [at |-> NullPtr, mem |-> m] BY <1>2, <2>1 DEF AllocTempIn
  <2> QED BY <2>2 DEF NoTemp, Keeps
<1>3. CASE ~ TooBig(n)
  <2>1. /\ Intact(r, A, H, Desc \ {d}, L)
        /\ r.desc[d] = Zero \/ (Data(r, d) # NoBlock /\ r.desc[d].len = n)
        /\ Keeps(m, r, Desc \ {d})
    <3>1. d \in A \ H OBVIOUS
    <3>2. Sized(r, m, d, n, A, H, Desc, L) BY <3>1, <1>3, ReallocSound
    <3> QED BY <3>2 DEF Sized
  <2>2. t = IF Data(r, d) = NoBlock THEN [at |-> NullPtr, mem |-> r]
            ELSE [at |-> d, mem |-> MarkTemp(r, d)]
    BY <1>3 DEF AllocTempIn
  <2> HIDE DEF r, t
  <2>3. CASE r.desc[d] = Zero
    <3>1. Data(r, d) = NoBlock BY <2>3 DEF Data, Zero
    <3>2. Intact(r, A, H, Desc, L) BY <2>1, <2>3, <1>1, EmptyWritten
    <3>3. Keeps(m, r, Desc) BY <2>1, <2>3, EmptyAgain
    <3> QED BY <2>2, <2>3, <3>1, <3>2, <3>3 DEF t, NoTemp
  <2>4. CASE Data(r, d) # NoBlock /\ r.desc[d].len = n
    <3>1. /\ Intact(MarkTemp(r, d), A, H \cup {d}, Desc \ {d}, L)
          /\ MarkTemp(r, d).desc[d].len = n
          /\ Data(MarkTemp(r, d), d) = Data(r, d)
          /\ Keeps(r, MarkTemp(r, d), Desc \ {d})
      BY <2>1, <2>4, MarkTempSound
    <3>2. n <= MaxUnits BY <1>3, SizeAssumption DEF TooBig
    <3>3. Keeps(m, MarkTemp(r, d), Desc \ {d}) BY <2>1, <3>1, KeepsTwice
    <3> QED BY <2>2, <2>4, <3>1, <3>2, <3>3 DEF t, GotTemp
  <2> QED BY <2>1, <2>3, <2>4
<1> QED BY <1>2, <1>3

(* fb_hUStrAllocTemp in a pool descriptor: as above, and on failure the
   descriptor has gone back to the pool. *)
LEMMA AllocPoolTempSound ==
  ASSUME NEW m, NEW A, NEW H, NEW L, Intact(m, A, H, Desc, L),
         NEW n \in Nat, NEW got
  PROVE  \/ NoTemp(m, AllocTemp(m, NullPtr, n, got), A, H, L)
         \/ \E s \in Slot \ A :
              GotTemp(m, AllocTemp(m, NullPtr, n, got), s, n, A \cup {s}, H, L)
<1> DEFINE t == AllocTemp(m, NullPtr, n, got)
           s == NewSlot(m)
           k == AllocTempDesc(m)
           r == AllocTempIn(k, s, n, got)
<1>1. Sets(A, H, Desc, L) BY DEF Intact
<1>2. CASE PoolEmpty(m)
  <2>1. t = [at |-> NullPtr, mem |-> m] BY <1>2 DEF AllocTemp
  <2> QED BY <2>1 DEF NoTemp, Keeps
<1>3. CASE ~ PoolEmpty(m)
  <2>1. t = IF r.at = NullPtr
            THEN [at |-> NullPtr, mem |-> DelTempDesc(r.mem, s)] ELSE r
    BY <1>3 DEF AllocTemp
  <2>2. s \in Slot \ A /\ s \in Desc /\ m.desc[s] = Zero
    BY <1>3, NewSlotIdle
  <2>3. Intact(k, A \cup {s}, H, Desc, L) /\ k.desc[s] = Zero
        /\ Keeps(m, k, Desc)
    BY <1>3, <2>2, AllocTempDescSound
  <2> DEFINE B == A \cup {s}
  <2>4. s \in (B \cap Temps) \ H BY <1>1, <2>2 DEF Temps, Sets
  <2>5. s # NullPtr BY <2>2, NameAssumption
  <2> HIDE DEF t, s, k, B
  <2>6. \/ NoTemp(k, r, B, H, L) /\ r.mem.desc[s] = Zero
        \/ GotTemp(k, r, s, n, B, H, L)
    <3>1. Intact(k, B, H, Desc, L) BY <2>3 DEF B
    <3> QED BY <3>1, <2>3, <2>4, AllocTempInSound
  <2> HIDE DEF r
  <2>7. CASE r.at = NullPtr
    <3>1. Intact(r.mem, B, H, Desc, L) /\ r.mem.desc[s] = Zero
          /\ Keeps(k, r.mem, Desc)
      BY <2>5, <2>6, <2>7 DEF NoTemp, GotTemp
    <3>2. /\ Intact(DelTempDesc(r.mem, s), B \ {s}, H \ {s}, Desc, L)
          /\ Keeps(r.mem, DelTempDesc(r.mem, s), Desc)
      BY <3>1, <2>4, DelTempDescSound
    <3>3. B \ {s} = A /\ H \ {s} = H BY <2>2, <2>4 DEF B
    <3>4. Keeps(m, r.mem, Desc) BY <2>3, <3>1, KeepsTwice
    <3>5. Keeps(m, DelTempDesc(r.mem, s), Desc) BY <3>2, <3>4, KeepsTwice
    <3>6. NoTemp(m, t, A, H, L) BY <2>1, <2>7, <3>2, <3>3, <3>5 DEF NoTemp
    <3> QED BY <3>6 DEF t
  <2>8. CASE r.at # NullPtr
    <3>1. t = r /\ GotTemp(k, r, s, n, B, H, L)
      BY <2>1, <2>6, <2>8 DEF NoTemp
    <3>2. Keeps(m, r.mem, Desc \ {s}) BY <2>3, <3>1 DEF GotTemp, Keeps, Data
    <3>3. GotTemp(m, r, s, n, B, H, L) BY <3>1, <3>2 DEF GotTemp
    <3> QED BY <2>2, <3>1, <3>3 DEF t, B
  <2> QED BY <2>7, <2>8
<1> QED BY <1>2, <1>3

(* Filling the temp just allocated completes it. *)
LEMMA WriteTempSound ==
  ASSUME NEW m, NEW r, NEW A, NEW H, NEW L, NEW d \in Desc, NEW n,
         GotTemp(m, r, d, n, A, H, L), NEW txt \in Seq(Char), Len(txt) = n
  PROVE  /\ Intact(CopyTo(r.mem, d, txt), A, H \cup {d}, Desc, L)
         /\ Keeps(m, CopyTo(r.mem, d, txt), Desc \ {d})
         /\ Reads(CopyTo(r.mem, d, txt), d, txt)
<1> DEFINE G == H \cup {d}
           V == Desc \ {d}
<1>1. Intact(r.mem, A, G, V, L) /\ r.mem.desc[d].len = n BY DEF GotTemp
<1>2. V \cup {d} = Desc OBVIOUS
<1> HIDE DEF G, V
<1>3. /\ Intact(CopyTo(r.mem, d, txt), A, G, V \cup {d}, L)
      /\ Keeps(r.mem, CopyTo(r.mem, d, txt), Desc \ {d})
      /\ Reads(CopyTo(r.mem, d, txt), d,
               IF Data(r.mem, d) = NoBlock THEN << >> ELSE txt)
  BY <1>1, CopyToSound
<1>4. Keeps(m, CopyTo(r.mem, d, txt), Desc \ {d})
  BY <1>3, KeepsTwice DEF GotTemp
<1> QED BY <1>2, <1>3, <1>4 DEF G, GotTemp

(* A fresh text written to a descriptor that was sized for it. *)
LEMMA WriteSizedSound ==
  ASSUME NEW r, NEW m, NEW A, NEW H, NEW L, NEW d \in Desc,
         NEW txt \in Seq(Char), Sized(r, m, d, Len(txt), A, H, Desc, L)
  PROVE  /\ Intact(CopyTo(r, d, txt), A, H, Desc, L)
         /\ Keeps(m, CopyTo(r, d, txt), Desc \ {d})
         /\ Contents(CopyTo(r, d, txt), d) \in {txt, << >>}
<1> DEFINE V == Desc \ {d}
<1>1. Intact(r, A, H, V, L) BY DEF Sized
<1>2. V \cup {d} = Desc OBVIOUS
<1>3. Data(r, d) # NoBlock => Len(txt) = r.desc[d].len
  BY DEF Sized, Data, Zero
<1> HIDE DEF V
<1>4. /\ Intact(CopyTo(r, d, txt), A, H, V \cup {d}, L)
      /\ Keeps(r, CopyTo(r, d, txt), Desc \ {d})
      /\ Reads(CopyTo(r, d, txt), d, IF Data(r, d) = NoBlock THEN << >> ELSE txt)
  BY <1>1, <1>3, CopyToSound
<1>5. Keeps(m, CopyTo(r, d, txt), Desc \ {d}) BY <1>4, KeepsTwice DEF Sized
<1> QED BY <1>2, <1>4, <1>5 DEF Reads

(* The end of an entry point with two operands, which are not the same temp. *)
LEMMA ReleaseTwoSound ==
  ASSUME NEW m, NEW A, NEW H, NEW L, Intact(m, A, H, Desc, L),
         NEW a \in AnyOperand, a \in Slot => a \in H,
         NEW b \in AnyOperand, b \in Slot => b \in H,
         a # b \/ a \notin H
  PROVE  LET r == Release(Release(m, a), b)
         IN  /\ Intact(r, A \ ({a, b} \cap H), H \ {a, b}, Desc, L)
             /\ OnlyChanges(m, r, {}, {a, b} \cap H)
<1> DEFINE k == Release(m, a)
           B == A \ ({a} \cap H)
           G == H \ {a}
           r == Release(k, b)
<1>1. Intact(k, B, G, Desc, L) /\ OnlyChanges(m, k, {}, {a} \cap H)
  BY ReleaseSound
<1>2. b \in Slot => b \in G OBVIOUS
<1>3. G \ {b} = H \ {a, b} /\ B \ ({b} \cap G) = A \ ({a, b} \cap H) OBVIOUS
<1>4. {a} \cap H \in SUBSET Desc BY DEF Intact, Sets
<1>5. ({} \cup {} = {}) /\ ({a} \cap H) \cup ({b} \cap G) = {a, b} \cap H
  OBVIOUS
<1> HIDE DEF k, B, G
<1>6. /\ Intact(r, B \ ({b} \cap G), G \ {b}, Desc, L)
      /\ OnlyChanges(k, r, {}, {b} \cap G)
  BY <1>1, <1>2, ReleaseSound
<1> HIDE DEF r
<1>7. OnlyChanges(m, r, {} \cup {}, ({a} \cap H) \cup ({b} \cap G))
  BY <1>1, <1>4, <1>6, ChangesTwice
<1> QED BY <1>3, <1>5, <1>6, <1>7 DEF k, r

(***************************************************************************)
(* The entry points.                                                       *)
(***************************************************************************)

(* fb_UStrAssignEx from empty text leaves the destination zeroed. *)
LEMMA ClearSound ==
  ASSUME NEW m, NEW A, NEW H, NEW L, Intact(m, A, H, Desc, L),
         NEW v \in A \ H, NEW isInit \in BOOLEAN, isInit => m.desc[v] = Zero
  PROVE  /\ Intact(Clear(m, v, isInit), A, H, Desc, L)
         /\ Clear(m, v, isInit).desc[v] = Zero
         /\ Keeps(m, Clear(m, v, isInit), Desc \ {v})
<1>1. m \in Memory /\ v \in Desc BY DEF Intact, Sets
<1>2. CASE isInit
  <2>1. Clear(m, v, isInit) = m BY <1>1, <1>2, SetSame DEF Clear
  <2> QED BY <2>1, <1>2 DEF Keeps
<1>3. CASE ~ isInit
  <2> DEFINE k == UStrDelete(m, v)
             G == H \ {v}
             V == Desc \cup {v}
  <2>1. Clear(m, v, isInit) = k BY <1>3 DEF Clear
  <2>2. /\ Intact(k, A, G, V, L) /\ k.desc[v] = Zero
        /\ Keeps(m, k, Desc \ {v})
    BY <1>1, DeleteSound
  <2>3. G = H /\ V = Desc BY <1>1
  <2> QED BY <2>1, <2>2, <2>3
<1> QED BY <1>2, <1>3

(* fb_UStrAssignEx from a temp: the destination has the buffer, the temp is gone. *)
LEMMA StealSound ==
  ASSUME NEW m, NEW A, NEW H, NEW L, Intact(m, A, H, Desc, L),
         NEW v \in A \ H, NEW src \in H,
         NEW isInit \in BOOLEAN, isInit => m.desc[v] = Zero
  PROVE  LET r == Steal(m, v, src, isInit)
         IN  /\ Intact(r, A \ {src}, H \ {src}, Desc, L)
             /\ OnlyChanges(m, r, {v}, {src})
             /\ Reads(r, v, Contents(m, src))
<1> DEFINE m1 == Clear(m, v, isInit)
           k == Moved(m1, src, v, FALSE)
           G == (H \ {src}) \cup {}
           r == Steal(m, v, src, isInit)
<1>1. m \in Memory /\ v \in Desc /\ src \in Desc /\ src \in A /\ src # v
  BY DEF Intact, Sets
<1>2. /\ Intact(m1, A, H, Desc, L) /\ m1.desc[v] = Zero
      /\ Keeps(m, m1, Desc \ {v})
  BY ClearSound
<1>3. m1 = IF isInit THEN m ELSE UStrDelete(m, v)
  BY <1>1, SetSame DEF Clear
<1>4. r = DelTempDesc(k, src)
  BY <1>3 DEF Steal, Moved
<1> HIDE DEF m1, r
<1>5. /\ Intact(k, A, G, Desc, L) /\ k.desc[src] = Zero
      /\ Keeps(m1, k, Desc \ {src, v})
      /\ Reads(k, v, Contents(m1, src))
  BY <1>1, <1>2, MoveSound, ZenonT(30)
<1> HIDE DEF k
<1>6. G \ {src} = H \ {src} OBVIOUS
<1> HIDE DEF G
<1>7. Intact(r, A \ {src}, G \ {src}, Desc, L) /\ Keeps(k, r, Desc)
  BY <1>1, <1>4, <1>5, DelTempDescSound
<1>8. Keeps(m, r, Desc \ ({v} \cup {src}))
  BY <1>2, <1>5, <1>7, SMTT(30) DEF Keeps, Data
<1>9. r.desc[src] = Zero BY <1>1, <1>5, <1>7 DEF Keeps
<1>10. Contents(m1, src) = Contents(m, src) BY <1>1, <1>2, KeptText
<1>11. Contents(r, v) = Contents(k, v) BY <1>1, <1>7, KeptText
<1> QED BY <1>5, <1>6, <1>7, <1>8, <1>9, <1>10, <1>11 DEF OnlyChanges, Reads, r

(* fb_UStrAssignEx from anything else: whatever malloc answered, the destination
   is sound and its text written. *)
LEMMA CopyAssignSound ==
  ASSUME NEW m, NEW A, NEW H, NEW L, Intact(m, A, H, Desc, L),
         NEW v \in A \ H, NEW src \in AnyOperand, LenOf(m, src) # 0,
         NEW isInit \in BOOLEAN, isInit => m.desc[v] = Zero, NEW got
  PROVE  LET r == CopyAssign(m, v, src, isInit, got)
         IN  /\ Intact(r, A, H, Desc, L)
             /\ Keeps(m, r, Desc \ {v})
             /\ Contents(r, v) \in {TextOf(m, src), << >>}
<1> DEFINE n  == LenOf(m, src)
           txt == TextOf(m, src)
           m1 == IF isInit THEN UStrAlloc(m, v, n, got)
                 ELSE IF m.desc[v].len = n THEN m
                 ELSE UStrRealloc(m, v, n, FALSE, got, FALSE)
<1>1. m \in Memory /\ v \in Desc BY DEF Intact, Sets
<1>2. txt \in Seq(Char) /\ n \in Nat /\ n <= MaxUnits /\ Len(txt) = n
  BY OperandText
<1>3. ~ TooBig(n) BY <1>2, SizeAssumption DEF TooBig
<1>4. CopyAssign(m, v, src, isInit, got) = CopyTo(m1, v, txt)
  BY DEF CopyAssign
<1>5. n # 0 OBVIOUS
<1> HIDE DEF n, txt
<1>6. Sized(m1, m, v, n, A, H, Desc, L)
  <2>1. CASE isInit
    <3> DEFINE g == RoundSize(n)
    <3>1. m1 = Malloc(m, v, n, g, got) BY <2>1, <1>3 DEF UStrAlloc
    <3>2. g \in Nat /\ n <= g BY <1>2, RoundSizeBound
    <3> HIDE DEF g
    <3>3. Sized(Malloc(m, v, n, g, got), m, v, n, A, H, Desc, L)
      BY <2>1, <3>2, <1>2, MallocSound
    <3> QED BY <3>1, <3>3
  <2>2. CASE ~ isInit /\ m.desc[v].len = n
    <3>1. m1 = m BY <2>2
    <3>2. Data(m, v) # NoBlock BY <2>2, <1>1, <1>5 DEF Intact, Owned, Bound
    <3>3. Intact(m, A, H, Desc \ {v}, L) BY Weaken
    <3> QED BY <2>2, <3>1, <3>2, <3>3 DEF Sized, Keeps
  <2>3. CASE ~ isInit /\ m.desc[v].len # n
    <3>1. m1 = UStrRealloc(m, v, n, FALSE, got, FALSE) BY <2>3
    <3>2. Sized(UStrRealloc(m, v, n, FALSE, got, FALSE), m, v, n, A, H, Desc, L)
      BY <1>2, <1>3, ReallocSound
    <3> QED BY <3>1, <3>2
  <2> QED BY <2>1, <2>2, <2>3
<1> HIDE DEF m1
<1>7. /\ Intact(CopyTo(m1, v, txt), A, H, Desc, L)
      /\ Keeps(m, CopyTo(m1, v, txt), Desc \ {v})
      /\ Contents(CopyTo(m1, v, txt), v) \in {txt, << >>}
  BY <1>1, <1>2, <1>6, WriteSizedSound
<1> QED BY <1>4, <1>7 DEF txt

(* The destination of an assignment reads as its source, or as empty for   *)
(* want of memory; from a temp it always reads as its source.              *)
Stored(m, r, v, src, H) ==
  \/ Reads(r, v, TextOf(m, src))
  \/ src \notin H /\ Reads(r, v, << >>)

(* fb_UStrAssignEx keeps the memory sound and takes a temp source out of use. *)
LEMMA AssignExSound ==
  ASSUME NEW m, NEW A, NEW H, NEW L, Intact(m, A, H, Desc, L),
         NEW v \in A \ H, NEW src \in AnyOperand, src \in Slot => src \in H,
         NEW isInit \in BOOLEAN, isInit => m.desc[v] = Zero, NEW got
  PROVE  LET r == AssignEx(m, v, src, isInit, got)
         IN  /\ Intact(r, A \ ({src} \cap H), H \ {src}, Desc, L)
             /\ OnlyChanges(m, r, {v}, {src} \cap H)
             /\ Stored(m, r, v, src, H)
<1> DEFINE r == AssignEx(m, v, src, isInit, got)
<1>1. v \in Desc /\ m \in Memory /\ {src} \cap H \subseteq Desc /\ H \subseteq Desc
  BY DEF Intact, Sets
<1>2. CASE LenOf(m, src) # 0 /\ IsTemp(m, src)
  <2>1. r = Steal(m, v, src, isInit) BY <1>2 DEF AssignEx
  <2>2. src \in H BY <1>2 DEF IsTemp, Intact, Marked
  <2>3. A \ ({src} \cap H) = A \ {src} /\ {src} \cap H = {src} BY <2>2
  <2>4. TextOf(m, src) = Contents(m, src)
    BY <2>2, <1>1, NameAssumption DEF TextOf
  <2> HIDE DEF r
  <2>5. /\ Intact(r, A \ {src}, H \ {src}, Desc, L)
        /\ OnlyChanges(m, r, {v}, {src})
        /\ Reads(r, v, Contents(m, src))
    BY <2>1, <2>2, StealSound
  <2> QED BY <2>3, <2>4, <2>5 DEF r, Stored
<1>3. ASSUME NEW k, r = Release(k, src), Intact(k, A, H, Desc, L),
             Keeps(m, k, Desc \ {v})
      PROVE  /\ Intact(r, A \ ({src} \cap H), H \ {src}, Desc, L)
             /\ OnlyChanges(m, r, {v}, {src} \cap H)
             /\ Contents(r, v) = Contents(k, v)
  <2> HIDE DEF r
  <2>1. /\ Intact(r, A \ ({src} \cap H), H \ {src}, Desc, L)
        /\ OnlyChanges(k, r, {}, {src} \cap H)
    BY <1>3, ReleaseSound
  <2>2. OnlyChanges(m, k, {v}, {}) BY <1>3, ChangesOne
  <2>3. OnlyChanges(m, r, {v} \cup {}, {} \cup ({src} \cap H))
    BY <2>1, <2>2, ChangesTwice
  <2>4. {v} \cup {} = {v} /\ {} \cup ({src} \cap H) = {src} \cap H OBVIOUS
  <2>5. v \in Desc \ ({} \cup ({src} \cap H)) BY <1>1
  <2>6. Contents(r, v) = Contents(k, v) BY <2>1, <2>5, KeptText DEF OnlyChanges
  <2> QED BY <2>1, <2>3, <2>4, <2>6
<1>4. CASE LenOf(m, src) = 0
  <2> DEFINE k == Clear(m, v, isInit)
  <2>1. r = Release(k, src) BY <1>4 DEF AssignEx
  <2>2. /\ Intact(k, A, H, Desc, L) /\ k.desc[v] = Zero
        /\ Keeps(m, k, Desc \ {v})
    BY ClearSound
  <2>3. Contents(k, v) = << >> BY <2>2, ZeroText
  <2>4. TextOf(m, src) = << >>
    <3>1. TextOf(m, src) \in Seq(Char) /\ Len(TextOf(m, src)) = 0
      BY <1>4, OperandText
    <3> QED BY <3>1
  <2> HIDE DEF k, r
  <2> QED BY <1>3, <2>1, <2>2, <2>3, <2>4 DEF r, Stored, Reads
<1>5. CASE LenOf(m, src) # 0 /\ ~ IsTemp(m, src)
  <2> DEFINE k == CopyAssign(m, v, src, isInit, got)
  <2>1. r = Release(k, src) BY <1>5 DEF AssignEx
  <2>2. /\ Intact(k, A, H, Desc, L) /\ Keeps(m, k, Desc \ {v})
        /\ Contents(k, v) \in {TextOf(m, src), << >>}
    BY <1>5, CopyAssignSound
  <2>3. src \notin H BY <1>1, <1>5 DEF IsTemp, Intact, Marked
  <2> HIDE DEF k, r
  <2> QED BY <1>3, <2>1, <2>2, <2>3 DEF r, Stored, Reads
<1> QED BY <1>2, <1>4, <1>5

(* A concatenation leaves the text in the stack temp t, or, for want of    *)
(* memory, t empty.                                                        *)
LEMMA ConcatSound ==
  ASSUME NEW m, NEW A, NEW H, NEW L, Intact(m, A, H, Desc, L),
         NEW t \in Tmp, t \notin A, m.desc[t] = Zero,
         NEW a \in AnyOperand, a \in Slot => a \in H, a # t,
         NEW b \in AnyOperand, b \in Slot => b \in H, b # t,
         a # b \/ a \notin H, NEW got
  PROVE  LET r == Concat(m, t, a, b, got)
             G == {a, b} \cap H
         IN  \/ /\ r.at = NullPtr
                /\ Intact(r.mem, A \ G, H \ {a, b}, Desc, L)
                /\ OnlyChanges(m, r.mem, {}, G)
             \/ /\ r.at = t
                /\ Intact(r.mem, (A \cup {t}) \ G, (H \cup {t}) \ {a, b}, Desc, L)
                /\ OnlyChanges(m, r.mem, {t}, G)
                /\ Reads(r.mem, t, TextOf(m, a) \o TextOf(m, b))
<1> DEFINE n == LenOf(m, a) + LenOf(m, b)
           txt == TextOf(m, a) \o TextOf(m, b)
           r == AllocTemp(m, t, n, got)
           w == IF r.at = NullPtr THEN r.mem ELSE CopyTo(r.mem, t, txt)
           c == Concat(m, t, a, b, got)
           B == A \cup {t}
           K == H \cup {t}
           G == {a, b} \cap H
<1>1. m \in Memory /\ Sets(A, H, Desc, L) BY DEF Intact
<1>2. t \in Desc \ Slot /\ t \notin H /\ t # NullPtr
  BY <1>1, NameAssumption DEF Desc, Sets
<1>3. n \in Nat /\ txt \in Seq(Char) /\ Len(txt) = n
  <2>1. /\ TextOf(m, a) \in Seq(Char) /\ LenOf(m, a) = Len(TextOf(m, a))
        /\ TextOf(m, b) \in Seq(Char) /\ LenOf(m, b) = Len(TextOf(m, b))
    BY OperandText
  <2> QED BY <2>1
<1>4. Intact(m, B, H, Desc, L) BY <1>2, EnterSound
<1>5. t \in (B \cap Temps) \ H BY <1>2 DEF Temps
<1>6. r = AllocTempIn(m, t, n, got) BY <1>2 DEF AllocTemp
<1>7. c = [at |-> r.at, mem |-> Release(Release(w, a), b)] BY DEF Concat
<1>8. w = IF r.at = NullPtr THEN r.mem ELSE CopyTo(r.mem, t, txt) OBVIOUS
<1>9. G \subseteq Desc /\ t \notin G /\ B \ {t} = A /\ H \ {t} = H /\ G = {a, b} \cap K
  BY <1>1, <1>2 DEF Sets
<1> HIDE DEF n, txt, r, w, c, B, K, G
<1>10. \/ NoTemp(m, r, B, H, L) /\ r.mem.desc[t] = Zero
       \/ GotTemp(m, r, t, n, B, H, L)
  BY <1>3, <1>4, <1>5, <1>6, AllocTempInSound
<1>11. CASE r.at = NullPtr
  <2>1. c.at = NullPtr /\ c.mem = Release(Release(r.mem, a), b)
    BY <1>7, <1>8, <1>11
  <2>2. Intact(r.mem, B, H, Desc, L) /\ r.mem.desc[t] = Zero /\ Keeps(m, r.mem, Desc)
    BY <1>2, <1>10, <1>11 DEF NoTemp, GotTemp
  <2>3. Intact(r.mem, A, H, Desc, L) BY <1>2, <1>9, <2>2, LeaveSound
  <2>4. /\ Intact(c.mem, A \ G, H \ {a, b}, Desc, L)
        /\ OnlyChanges(r.mem, c.mem, {}, G)
    BY <2>1, <2>3, ReleaseTwoSound, SMTT(30) DEF G
  <2>5. OnlyChanges(m, c.mem, {}, G)
    BY <2>2, <2>4 DEF OnlyChanges, Keeps, Data
  <2> QED BY <2>1, <2>4, <2>5 DEF c, G
<1>12. CASE r.at # NullPtr
  <2>1. GotTemp(m, r, t, n, B, H, L) BY <1>10, <1>12 DEF NoTemp
  <2>2. r.at = t /\ w = CopyTo(r.mem, t, txt) BY <2>1, <1>8, <1>12 DEF GotTemp
  <2>3. /\ Intact(w, B, K, Desc, L) /\ Reads(w, t, txt)
        /\ Keeps(m, w, Desc \ {t})
    BY <2>1, <2>2, <1>2, <1>3, WriteTempSound DEF K
  <2>4. c.at = t /\ c.mem = Release(Release(w, a), b) BY <1>7, <2>2
  <2>5. (a \in Slot => a \in K) /\ (b \in Slot => b \in K)
        /\ (a # b \/ a \notin K)
    BY DEF K
  <2>6. /\ Intact(c.mem, B \ G, K \ {a, b}, Desc, L)
        /\ OnlyChanges(w, c.mem, {}, G)
    <3> DEFINE k == Release(Release(w, a), b)
    <3>1. Intact(k, B \ ({a, b} \cap K), K \ {a, b}, Desc, L)
      BY <2>3, <2>5, ReleaseTwoSound
    <3>2. OnlyChanges(w, k, {}, {a, b} \cap K)
      BY <3>1, <2>3, <2>5, ReleaseTwoSound
    <3> QED BY <3>1, <3>2, <1>9, <2>4
  <2>7. OnlyChanges(m, c.mem, {t} \cup {}, {} \cup G)
    BY <2>3, <2>6, ChangesOne, ChangesTwice
  <2>8. {t} \cup {} = {t} /\ {} \cup G = G /\ t \in Desc \ ({} \cup G)
    BY <1>2, <1>9
  <2>9. Contents(c.mem, t) = Contents(w, t)
    BY <2>6, <2>8, KeptText DEF OnlyChanges
  <2> QED BY <2>3, <2>4, <2>6, <2>7, <2>8, <2>9 DEF c, B, K, G, txt, Reads
<1> QED BY <1>11, <1>12

(* An append, whatever its source reads as after the reallocation. *)
LEMMA AppendTextSound ==
  ASSUME NEW m, NEW A, NEW H, NEW L, Intact(m, A, H, Desc, L),
         NEW v \in A \ H, NEW src \in AnyOperand,
         NEW got, NEW moved \in BOOLEAN
  PROVE  LET r == AppendText(m, v, src, got, moved)
         IN  /\ Intact(r, A, H, Desc, L)
             /\ Keeps(m, r, Desc \ {v})
             /\ src # v => Contents(r, v) \in
                  {Contents(m, v) \o TextOf(m, src), Contents(m, v)}
<1> DEFINE n  == LenOf(m, v) + LenOf(m, src)
           m1 == UStrRealloc(m, v, n, TRUE, got, moved)
           tail == ReadAfter(m, m1, src)
           txt == Contents(m, v) \o tail
           k == AppendText(m, v, src, got, moved)
           none == TooBig(n) \/ (NeedsBuffer(m, v, n, TRUE) /\ Refused(m, v, got))
<1>1. m \in Memory /\ v \in Desc BY DEF Intact, Sets
<1>2. v \in AnyOperand /\ LenOf(m, v) = m.desc[v].len
      /\ TextOf(m, v) = Contents(m, v)
  BY <1>1, NameAssumption DEF AnyOperand, LenOf, TextOf
<1>3. /\ Contents(m, v) \in Seq(Char) /\ LenOf(m, v) \in Nat
      /\ Len(Contents(m, v)) = LenOf(m, v)
      /\ TextOf(m, src) \in Seq(Char) /\ LenOf(m, src) \in Nat
      /\ Len(TextOf(m, src)) = LenOf(m, src)
  BY <1>2, OperandText
<1>4. tail \in Seq(Char) /\ Len(tail) = LenOf(m, src)
  <2> DEFINE wild == [i \in 1 .. LenOf(m, src) |-> Wild]
  <2>1. tail = TextOf(m, src) \/ tail = wild BY DEF ReadAfter
  <2>2. wild \in Seq(Char) /\ Len(wild) = LenOf(m, src) BY <1>3 DEF Char
  <2> HIDE DEF tail, wild
  <2> QED BY <2>1, <2>2, <1>3
<1>5. k = IF none THEN m1 ELSE CopyTo(m1, v, txt) BY DEF AppendText
<1>6. n \in Nat /\ txt \in Seq(Char) /\ Len(txt) = n
  <2> HIDE DEF tail
  <2> QED BY <1>3, <1>4, SMTT(30)
<1>7. CASE none
  <2>1. m1 = m BY <1>7 DEF UStrRealloc
  <2> QED BY <2>1, <1>5, <1>7 DEF Keeps
<1>8. CASE ~ none
  <2>1. n <= MaxUnits
    <3>1. ~ TooBig(n) /\ n \in Nat BY <1>6, <1>8
    <3> HIDE DEF n
    <3> QED BY <3>1, SizeAssumption DEF TooBig
  <2>2. m1 = IF NeedsBuffer(m, v, n, TRUE) THEN Resize(m, v, n, got, moved)
             ELSE SetLen(m, v, n)
    BY <1>8 DEF UStrRealloc
  <2> HIDE DEF n, m1, txt, k, none, tail
  <2>3. /\ Intact(m1, A, H, Desc \ {v}, L) /\ m1.desc[v].len = n
        /\ Keeps(m, m1, Desc \ {v}) /\ Data(m1, v) # NoBlock
    <3>1. CASE NeedsBuffer(m, v, n, TRUE)
      <4>1. ~ Refused(m, v, got) BY <3>1, <1>8 DEF none
      <4>2. /\ Intact(Resize(m, v, n, got, moved), A, H, Desc \ {v}, L)
            /\ Resize(m, v, n, got, moved).desc[v].len = n
            /\ Data(Resize(m, v, n, got, moved), v) # NoBlock
            /\ Keeps(m, Resize(m, v, n, got, moved), Desc \ {v})
        BY <4>1, <2>1, <1>6, ResizeSound
      <4> QED BY <3>1, <4>2, <2>2
    <3>2. CASE ~ NeedsBuffer(m, v, n, TRUE)
      <4>1. m.desc[v].size \in Nat BY <1>1, MemoryFields
      <4>2. Data(m, v) # NoBlock /\ n <= m.desc[v].size
        BY <3>2, <4>1, <1>6 DEF NeedsBuffer, Misfit
      <4>3. Sized(SetLen(m, v, n), m, v, n, A, H, Desc, L)
        BY <4>2, <2>1, <1>6, ReuseSound
      <4>4. SetLen(m, v, n).desc[v].len = n
        <5>1. m.desc[v] \in Descriptor /\ m.desc \in [Desc -> Descriptor]
          BY <1>1, MemoryFields
        <5>2. [m.desc[v] EXCEPT !.len = n] \in Descriptor
          BY <5>1, <1>6 DEF Descriptor
        <5>3. SetLen(m, v, n).desc
                = [m.desc EXCEPT ![v] = [m.desc[v] EXCEPT !.len = n]]
          BY <5>2, <1>1, SetDescFields DEF SetLen
        <5> QED BY <5>1, <5>3, <1>1 DEF Descriptor
      <4>5. SetLen(m, v, n).desc[v] # Zero
        <5>1. SetLen(m, v, n).desc[v].data = Data(m, v)
          <6>1. m.desc[v] \in Descriptor /\ m.desc \in [Desc -> Descriptor]
            BY <1>1, MemoryFields
          <6> QED BY <6>1, <1>1 DEF SetLen, SetDesc, Descriptor, Data, Memory
        <5> QED BY <5>1, <4>2 DEF Zero
      <4> QED BY <3>2, <4>3, <4>4, <4>5, <2>2 DEF Sized
    <3> QED BY <3>1, <3>2
  <2> DEFINE V == Desc \ {v}
  <2>4. V \cup {v} = Desc BY <1>1
  <2>5. Intact(m1, A, H, V, L) BY <2>3
  <2> HIDE DEF V
  <2>6. /\ Intact(CopyTo(m1, v, txt), A, H, V \cup {v}, L)
        /\ Keeps(m1, CopyTo(m1, v, txt), Desc \ {v})
        /\ Reads(CopyTo(m1, v, txt), v,
                 IF Data(m1, v) = NoBlock THEN << >> ELSE txt)
    BY <2>3, <2>5, <1>1, <1>6, CopyToSound
  <2>7. k = CopyTo(m1, v, txt) BY <1>5, <1>8
  <2>8. Intact(k, A, H, Desc, L) BY <2>4, <2>6, <2>7
  <2>9. Keeps(m, k, Desc \ {v}) BY <2>3, <2>6, <2>7 DEF Keeps, Data
  <2>10. Contents(k, v) = txt BY <2>3, <2>6, <2>7 DEF Reads
  <2>11. ASSUME src # v PROVE tail = TextOf(m, src)
    <3>1. CASE src \in Desc /\ Data(m, src) # NoBlock
      <4>1. m.heap[Data(m, src)].live BY <3>1 DEF Intact, Owned, Bound
      <4>2. m1.heap[Data(m, src)] = m.heap[Data(m, src)]
        BY <2>3, <2>11, <3>1 DEF Keeps
      <4> QED BY <4>1, <4>2 DEF tail, ReadAfter
    <3>2. CASE ~ (src \in Desc /\ Data(m, src) # NoBlock)
      BY <3>2 DEF tail, ReadAfter
    <3> QED BY <3>1, <3>2
  <2> QED BY <2>8, <2>9, <2>10, <2>11 DEF k, txt
<1> QED BY <1>7, <1>8

(* fb_UStrConcatAssign keeps the memory sound and takes a temp source out of use. *)
LEMMA ConcatAssignSound ==
  ASSUME NEW m, NEW A, NEW H, NEW L, Intact(m, A, H, Desc, L),
         NEW v \in A \ H, NEW src \in AnyOperand, src \in Slot => src \in H,
         NEW got, NEW moved \in BOOLEAN
  PROVE  LET r == ConcatAssign(m, v, src, got, moved)
         IN  /\ Intact(r, A \ ({src} \cap H), H \ {src}, Desc, L)
             /\ OnlyChanges(m, r, {v}, {src} \cap H)
             /\ src # v => Contents(r, v) \in
                  {Contents(m, v) \o TextOf(m, src), Contents(m, v)}
<1> DEFINE k == IF LenOf(m, src) = 0 THEN m
                ELSE AppendText(m, v, src, got, moved)
           r == ConcatAssign(m, v, src, got, moved)
<1>1. /\ Intact(k, A, H, Desc, L) /\ Keeps(m, k, Desc \ {v})
      /\ src # v => Contents(k, v) \in
           {Contents(m, v) \o TextOf(m, src), Contents(m, v)}
  <2>1. CASE LenOf(m, src) = 0 BY <2>1 DEF Keeps
  <2>2. CASE LenOf(m, src) # 0 BY <2>2, AppendTextSound
  <2> QED BY <2>1, <2>2
<1>2. r = Release(k, src) BY DEF ConcatAssign
<1>3. v \in Desc \ ({} \cup ({src} \cap H)) BY DEF Intact, Sets
<1> HIDE DEF k, r
<1>4. /\ Intact(r, A \ ({src} \cap H), H \ {src}, Desc, L)
      /\ OnlyChanges(k, r, {}, {src} \cap H)
  BY <1>1, <1>2, ReleaseSound
<1>5. OnlyChanges(m, r, {v} \cup {}, {} \cup ({src} \cap H))
  BY <1>1, <1>4, ChangesOne, ChangesTwice
<1>6. {v} \cup {} = {v} /\ {} \cup ({src} \cap H) = {src} \cap H OBVIOUS
<1>7. Contents(r, v) = Contents(k, v) BY <1>3, <1>4, KeptText DEF OnlyChanges
<1> QED BY <1>1, <1>4, <1>5, <1>6, <1>7 DEF r

(* A text handed back in a pool descriptor, or nothing in its place. *)
Handed(m, r, txt, A, H, L) ==
  \/ /\ r.at \notin Temps /\ Intact(r.mem, A, H, Desc, L)
     /\ Keeps(m, r.mem, Desc)
  \/ \E s \in Slot \ A :
       /\ r.at = s /\ Intact(r.mem, A \cup {s}, H \cup {s}, Desc, L)
       /\ Keeps(m, r.mem, Desc \ {s}) /\ Reads(r.mem, s, txt)

(* The shared empty descriptor is neither a variable nor a temp. *)
LEMMA Sentinels == NullDesc \notin Temps /\ NullPtr \notin Temps
BY NameAssumption DEF Temps, Desc

(* fb_StrToUStr hands back a temp in use, or the shared empty descriptor. *)
LEMMA FromNarrowSound ==
  ASSUME NEW m, NEW A, NEW H, NEW L, Intact(m, A, H, Desc, L),
         NEW txt \in Seq(Char), NEW got
  PROVE  Handed(m, FromNarrow(m, txt, got), txt, A, H, L)
<1> DEFINE n == Len(txt)
           r == AllocTemp(m, NullPtr, n, got)
           f == FromNarrow(m, txt, got)
<1>1. f = IF r.at = NullPtr THEN [at |-> NullDesc, mem |-> r.mem]
          ELSE [at |-> r.at, mem |-> CopyTo(r.mem, r.at, txt)]
  BY DEF FromNarrow
<1>2. n \in Nat OBVIOUS
<1>3. \/ NoTemp(m, r, A, H, L)
      \/ \E s \in Slot \ A : GotTemp(m, r, s, n, A \cup {s}, H, L)
  BY <1>2, AllocPoolTempSound
<1> HIDE DEF f, r, n
<1>4. CASE NoTemp(m, r, A, H, L)
  <2>1. /\ f = [at |-> NullDesc, mem |-> r.mem] /\ Intact(r.mem, A, H, Desc, L)
        /\ Keeps(m, r.mem, Desc)
    BY <1>1, <1>4 DEF NoTemp
  <2> QED BY <2>1, Sentinels DEF Handed, f
<1>5. ASSUME NEW s \in Slot \ A, GotTemp(m, r, s, n, A \cup {s}, H, L)
      PROVE  Handed(m, f, txt, A, H, L)
  <2> DEFINE B == A \cup {s}
  <2>1. GotTemp(m, r, s, n, B, H, L) /\ s \in Desc /\ s # NullPtr
    BY <1>5, NameAssumption DEF Desc
  <2> HIDE DEF B
  <2>2. f = [at |-> s, mem |-> CopyTo(r.mem, s, txt)]
    BY <1>1, <2>1 DEF GotTemp
  <2>3. /\ Intact(CopyTo(r.mem, s, txt), B, H \cup {s}, Desc, L)
        /\ Keeps(m, CopyTo(r.mem, s, txt), Desc \ {s})
        /\ Reads(CopyTo(r.mem, s, txt), s, txt)
    BY <2>1, WriteTempSound DEF n
  <2> QED BY <2>2, <2>3 DEF Handed, B
<1> QED BY <1>3, <1>4, <1>5 DEF f

(* So do LEFT, RIGHT, MID and the other functions that build a result. *)
LEMMA TempFromSound ==
  ASSUME NEW m, NEW A, NEW H, NEW L, Intact(m, A, H, Desc, L),
         NEW txt \in Seq(Char), NEW got
  PROVE  Handed(m, TempFrom(m, txt, got), txt, A, H, L)
<1>1. CASE txt = << >>
  <2>1. TempFrom(m, txt, got) = [at |-> NullDesc, mem |-> m]
    BY <1>1 DEF TempFrom
  <2> QED BY <2>1, Sentinels DEF Handed, Keeps
<1>2. CASE txt # << >>
  <2>1. TempFrom(m, txt, got) = FromNarrow(m, txt, got)
    BY <1>2 DEF TempFrom, FromNarrow
  <2> QED BY <2>1, FromNarrowSound
<1> QED BY <1>1, <1>2

(* The buffer of v goes to a pool descriptor, or nothing changes because   *)
(* there is none.                                                          *)
Returned(m, r, v, A, H, L) ==
  \/ PoolEmpty(m) /\ r.at \notin Temps /\ r.mem = m
  \/ \E s \in Slot \ A :
       /\ r.at = s /\ r.mem.desc[v] = Zero
       /\ Intact(r.mem, A \cup {s}, H \cup {s}, Desc, L)
       /\ Keeps(m, r.mem, Desc \ {v, s})
       /\ Reads(r.mem, s, Contents(m, v))

(* A result variable's text moves to the pool, or stays where it was. *)
LEMMA TempResultSound ==
  ASSUME NEW m, NEW A, NEW H, NEW L, Intact(m, A, H, Desc, L),
         NEW v \in (A \cap Var) \ H
  PROVE  Returned(m, TempResult(m, v), v, A, H, L)
<1> DEFINE r == TempResult(m, v)
           s == NewSlot(m)
           k == AllocTempDesc(m)
           B == A \cup {s}
<1>1. Sets(A, H, Desc, L) /\ v \in Desc BY DEF Intact, Sets
<1>2. CASE PoolEmpty(m)
  <2>1. r = [at |-> NullDesc, mem |-> m] BY <1>2 DEF TempResult
  <2> QED BY <1>2, <2>1, Sentinels DEF Returned
<1>3. CASE ~ PoolEmpty(m)
  <2>1. r = [at |-> s, mem |-> Moved(k, v, s, TRUE)]
    BY <1>3 DEF TempResult, Moved
  <2>2. s \in Slot \ A /\ s \in Desc /\ m.desc[s] = Zero
    BY <1>3, NewSlotIdle
  <2>3. /\ Intact(k, B, H, Desc, L) /\ k.desc[s] = Zero
        /\ Keeps(m, k, Desc)
    BY <1>3, <2>2, AllocTempDescSound
  <2>4. v # s /\ s \in B /\ s \in Temps BY <2>2 DEF Temps
  <2> DEFINE G == (H \ {v}) \cup {s}
             J == (H \ {v}) \cup (IF TRUE THEN {s} ELSE {})
  <2>5. G = H \cup {s} /\ J = G OBVIOUS
  <2> HIDE DEF r, s, k, B, G
  <2>6. Intact(Moved(k, v, s, TRUE), B, J, Desc, L)
        /\ Moved(k, v, s, TRUE).desc[v] = Zero
        /\ Keeps(k, Moved(k, v, s, TRUE), Desc \ {v, s})
        /\ Reads(Moved(k, v, s, TRUE), s, Contents(k, v))
    BY <1>1, <2>3, <2>4, MoveSound, ZenonT(30)
  <2> HIDE DEF J
  <2>7. Intact(r.mem, B, G, Desc, L) /\ r.at = s /\ r.mem.desc[v] = Zero
    BY <2>1, <2>5, <2>6
  <2>8. Keeps(m, r.mem, Desc \ {v, s})
    <3>1. Desc \ {v, s} \subseteq Desc OBVIOUS
    <3> QED BY <3>1, <2>1, <2>3, <2>6, KeepsTwice
  <2>9. Reads(r.mem, s, Contents(m, v))
    <3>1. Contents(k, v) = Contents(m, v) BY <1>1, <2>3, KeptText
    <3> QED BY <3>1, <2>1, <2>6
  <2> QED BY <2>2, <2>5, <2>7, <2>8, <2>9 DEF r, B, Returned
<1> QED BY <1>2, <1>3

(* A variable whose frame dies while it holds a buffer loses the buffer. *)
LEMMA AbandonSound ==
  ASSUME NEW m, NEW A, NEW H, NEW L, Intact(m, A, H, Desc, L),
         NEW v \in (A \cap Var) \ H
  PROVE  /\ Intact(SetDesc(m, v, Zero), A \ {v}, H, Desc,
                  L \cup ({Data(m, v)} \ {NoBlock}))
         /\ OnlyChanges(m, SetDesc(m, v, Zero), {}, {v})
<1> DEFINE n == SetDesc(m, v, Zero)
           K == L \cup ({Data(m, v)} \ {NoBlock})
<1>1. m \in Memory /\ Sets(A, H, Desc, L) /\ v \in Desc /\ v \notin Slot
  BY NameAssumption DEF Intact, Sets
<1>2. /\ n \in Memory /\ n.desc = [m.desc EXCEPT ![v] = Zero]
      /\ n.heap = m.heap /\ n.free = m.free /\ n.used = m.used
  BY <1>1, SetDescFields, Constants
<1> HIDE DEF n
<1>3. n.desc[v] = Zero /\ \A e \in Desc : e # v => n.desc[e] = m.desc[e]
  BY <1>1, <1>2, MemoryFields
<1>4. /\ Data(n, v) = NoBlock
      /\ \A e \in Desc : e # v => Data(n, e) = Data(m, e)
  BY <1>3 DEF Data, Zero
<1>5. \A e \in Desc : e # v /\ Data(m, e) # NoBlock => Data(m, e) # Data(m, v)
  BY <1>1 DEF Intact, Owned, Unshared
<1>6. Bound(n, K)
  <2>1. Bound(m, L) BY DEF Intact, Owned
  <2> SUFFICES ASSUME NEW e \in Desc
               PROVE  /\ n.desc[e].len <= MaxUnits
                      /\ Data(n, e) = NoBlock =>
                           n.desc[e].len = 0 /\ n.desc[e].size = 0
                      /\ Data(n, e) # NoBlock =>
                           /\ n.heap[Data(n, e)].live
                           /\ Data(n, e) \notin K
                           /\ n.desc[e].size = n.heap[Data(n, e)].cap
                           /\ n.desc[e].len <= n.desc[e].size
    BY DEF Bound
  <2>2. CASE e = v BY <2>2, <1>3, <1>4, SizeAssumption DEF Zero
  <2>3. CASE e # v BY <2>1, <2>3, <1>2, <1>3, <1>4, <1>5 DEF Bound
  <2> QED BY <2>2, <2>3
<1>7. Unshared(n) BY <1>4 DEF Intact, Owned, Unshared
<1>8. Reached(n, K)
  <2> SUFFICES ASSUME NEW b \in Block
               PROVE  n.heap[b].live <=> b \in K \/ \E e \in Desc : Data(n, e) = b
    BY DEF Reached
  <2>1. m.heap[b].live <=> b \in L \/ \E e \in Desc : Data(m, e) = b
    BY DEF Intact, Owned, Reached
  <2>2. b # NoBlock BY NameAssumption
  <2> QED BY <2>1, <2>2, <1>1, <1>2, <1>4
<1>9. Written(n, Desc) BY <1>2, <1>3, <1>4 DEF Intact, Written
<1>10. Pooled(n, A \ {v})
  <2>1. (A \ {v}) \cap Slot = A \cap Slot BY <1>1
  <2>2. Pooled(m, A) BY DEF Intact
  <2> QED BY <2>1, <2>2, <1>2 DEF Pooled, FreeList
<1>11. Marked(n, A \ {v}, H)
  <2>1. \A e \in Desc : n.desc[e].temp <=> e \in H
    <3> SUFFICES ASSUME NEW e \in Desc
                 PROVE  n.desc[e].temp <=> e \in H
      OBVIOUS
    <3>1. CASE e = v BY <3>1, <1>3 DEF Zero
    <3>2. CASE e # v BY <3>2, <1>3 DEF Intact, Marked
    <3> QED BY <3>1, <3>2
  <2>2. \A e \in Desc \ (A \ {v}) : n.desc[e] = Zero
    BY <1>3 DEF Intact, Marked
  <2> QED BY <2>1, <2>2 DEF Marked
<1>12. Sets(A \ {v}, H, Desc, K)
  <2>1. Data(m, v) \in Block \cup {NoBlock} BY <1>1, MemoryFields
  <2> QED BY <2>1, <1>1 DEF Sets
<1>13. OnlyChanges(m, n, {}, {v}) BY <1>2, <1>3 DEF OnlyChanges, Keeps
<1> QED
  BY <1>2, <1>6, <1>7, <1>8, <1>9, <1>10, <1>11, <1>12, <1>13 DEF Intact, Owned, n

=============================================================================
