----------------------------- MODULE UStrThreads -----------------------------
(***************************************************************************)
(* Threads of one program on the ustring memory, under the two locks of    *)
(* the multi-threaded runtime (fb.h): FB_STRLOCK around the descriptors,   *)
(* buffers and temp pool, FB_LOCK around files and devices.  Both are      *)
(* recursive mutexes (unix/hinit.c); a nested acquisition by the owner     *)
(* never waits and is not a step here.                                     *)
(*                                                                         *)
(* A call that runs under the string lock loads the memory when it has     *)
(* the lock and stores what it changed when it gives it back: seen is what *)
(* it loaded.  Were the lock not held in between, the stores of others     *)
(* would be lost.  Comparison loads without the lock (ustr_comp.c), field  *)
(* by field, and fb_UStrDelete frees without it (ustr_core.c): the         *)
(* compiler calls it on variables of the thread's own frame only.          *)
(***************************************************************************)
EXTENDS UStrMemory, FiniteSets

CONSTANTS
  Thread,    \* threads
  Nobody,    \* no thread
  Own,       \* the local USTRING of each thread's frame
  Stack,     \* the stack temp of each thread's frame
  Outcomes,  \* the answers malloc may give in this instance
  Calls      \* bound on the calls of one behaviour

ASSUME ThreadAssumption ==
  /\ Nobody \notin Thread
  /\ Own \in [Thread -> Var] /\ Stack \in [Thread -> Tmp]
  /\ \A t, u \in Thread : t # u => Own[t] # Own[u] /\ Stack[t] # Stack[u]
ASSUME ThreadBounds ==
  Outcomes \subseteq Outcome /\ Outcomes # {} /\ Calls \in Nat

VARIABLES
  rt,       \* the memory
  scope,    \* variables in scope
  held,     \* per thread, the temps it was handed and has not passed on
  strLock,  \* who holds FB_STRLOCK
  ioLock,   \* who holds FB_LOCK
  at,       \* per thread, where it is
  call,     \* per thread, the call it is in
  seen,     \* per thread, the memory it loaded under the lock
  loaded,   \* per thread, what it loaded of each operand with no lock
  raced,    \* comparisons whose operand was stored to while they read it
  wild,     \* comparisons that read memory that was no longer the operand's
  line,     \* the thread whose line on the device has no newline yet
  begun     \* calls begun so far

locks   == << strLock, ioLock >>
program == << scope, held >>
reads   == << loaded, raced, wild >>
vars    == << rt, scope, held, strLock, ioLock, at, call, seen, loaded, raced,
              wild, line, begun >>

Shared == Var \ {Own[t] : t \in Thread}

NoCall == "no call"

(* The operands of a comparison, and what is loaded of one: the pointer,   *)
(* with the buffer it led to at that moment, and the length.               *)
Sides     == {"a", "b"}
NotLoaded == [f \in Sides |-> [data |-> NoBlock, cell |-> Dead, len |-> 0]]

(* What a thread can name: module-level variables, its own, the temps it   *)
(* was handed, literals.                                                   *)
Named(t)  == (Shared \cup {Own[t]}) \cap scope
Operands(t) == Named(t) \cup held[t] \cup Raw

(* The module-level variables exist, the frames have begun. *)
Init ==
  /\ rt = InitMemory
  /\ scope = Var /\ held = [t \in Thread |-> {}]
  /\ strLock = Nobody /\ ioLock = Nobody
  /\ at = [t \in Thread |-> "idle"]
  /\ call = [t \in Thread |-> NoCall]
  /\ seen = [t \in Thread |-> InitMemory]
  /\ loaded = [t \in Thread |-> NotLoaded]
  /\ raced = {} /\ wild = {}
  /\ line = Nobody
  /\ begun = 0

Goto(t, place) == at' = [at EXCEPT ![t] = place]

(* What a call loaded does not outlive it. *)
Forget(t) ==
  /\ call' = [call EXCEPT ![t] = NoCall]
  /\ seen' = [seen EXCEPT ![t] = InitMemory]

-----------------------------------------------------------------------------
(* The end of a frame: the thread's own variable is deleted, with no lock. *)

LeaveScope(t) ==
  /\ at[t] = "idle" /\ Own[t] \in scope
  /\ rt' = UStrDelete(rt, Own[t])
  /\ scope' = scope \ {Own[t]}
  /\ UNCHANGED << held, locks, at, call, seen, reads, line, begun >>

-----------------------------------------------------------------------------
(* A call begins *)

FirstPlace(op) == CASE op = "compare" -> "data a"
                    [] op = "input"   -> "device"
                    [] OTHER          -> "lock"

(* The generated code's side: an append does not name its destination      *)
(* twice, a temp is an operand of one call, a FUNCTION returns its own     *)
(* variable, and a line is read into a variable.  Where a call treats its  *)
(* two operands alike, the first is a module-level variable here.         *)
Pairs(t) == Shared \X Operands(t)

CallsOf(t) ==
       {c \in [op : {"assign", "append"}, dst : Named(t), a : Operands(t)] :
          c.a # c.dst}
  \cup [op : {"input"}, dst : Named(t), a : Raw]
  \cup [op : {"print", "encode"}, a : Operands(t)]
  \cup [op : {"result"}, dst : {Own[t]} \cap scope]
  \cup {[op |-> "compare", a |-> p[1], b |-> p[2]] : p \in Pairs(t)}
  \cup {[op |-> "concat", a |-> p[1], b |-> p[2]] :
          p \in {q \in Pairs(t) : Stack[t] \notin held[t]}}

Uses(c) == {c[f] : f \in {"a", "b"} \cap DOMAIN c}

Begin(t, c) ==
  /\ at[t] = "idle" /\ begun < Calls
  /\ call' = [call EXCEPT ![t] = c]
  /\ begun' = begun + 1
  /\ Goto(t, FirstPlace(c.op))
  /\ UNCHANGED << rt, program, locks, seen, reads, line >>

-----------------------------------------------------------------------------
(* Under the string lock *)

(* Bug: the call goes on although another thread has the lock. *)
LockWithoutWaiting(t) ==
  /\ strLock' = t
  /\ seen' = [seen EXCEPT ![t] = rt]

TakeStrLock(t) ==
  /\ strLock = Nobody
  /\ strLock' = t
  /\ seen' = [seen EXCEPT ![t] = rt]

Lock(t) ==
  /\ at[t] = "lock"
  /\ TakeStrLock(t)
  /\ Goto(t, "locked")
  /\ UNCHANGED << rt, program, ioLock, call, reads, line, begun >>

(* fb_UStrAssignFromA of text that was read from a file. *)
FromBytes(m, dst, txt, got) ==
  IF txt = << >> THEN UStrDelete(m, dst)
  ELSE CopyTo(UStrRealloc(m, dst, Len(txt), FALSE, got, FALSE), dst, txt)

(* What the call makes of the memory it loaded, and the temp it returns.   *)
(* The frame of a FUNCTION ends with its result.  fb_UStrAssignToA has two *)
(* such parts: it encodes into a buffer of its own, gives the lock back    *)
(* for the narrow assignment, and takes it again to release the operand.   *)
Body(m, t, c, got) ==
  CASE c.op = "assign" ->
         [at |-> NullPtr, mem |-> AssignEx(m, c.dst, c.a, FALSE, got)]
    [] c.op = "append" ->
         [at |-> NullPtr, mem |-> ConcatAssign(m, c.dst, c.a, got, TRUE)]
    [] c.op = "concat" ->
         Concat(SetDesc(m, Stack[t], Zero), Stack[t], c.a, c.b, got)
    [] c.op = "result" ->
         LET r == TempResult(m, c.dst)
         IN  [at |-> r.at, mem |-> SetDesc(r.mem, c.dst, Zero)]
    [] c.op = "compare" ->
         [at |-> NullPtr, mem |-> Release(Release(m, c.a), c.b)]
    [] c.op = "encode" -> [at |-> NullPtr, mem |-> m]
    [] c.op \in {"print", "release"} ->
         [at |-> NullPtr, mem |-> Release(m, c.a)]
    [] c.op = "input" ->
         [at |-> NullPtr, mem |-> FromBytes(m, c.dst, RawText[c.a], got)]

(* The stores: what the call changed of what it loaded; the rest stays as  *)
(* it now is.                                                              *)
Changed(now, old, new) ==
  [desc |-> [d \in Desc  |-> IF new.desc[d] = old.desc[d]
                             THEN now.desc[d] ELSE new.desc[d]],
   heap |-> [b \in Block |-> IF new.heap[b] = old.heap[b]
                             THEN now.heap[b] ELSE new.heap[b]],
   free |-> IF new.free = old.free THEN now.free ELSE new.free,
   used |-> IF new.used = old.used THEN now.used ELSE new.used]

Writes(c) == IF c.op \in {"assign", "append", "input"} THEN {c.dst} ELSE {}

(* Bug: fb_UStrAllocTempResult gives up on an exhausted pool with the lock *)
(* still held.                                                             *)
KeepsLockWhenExhausted(t, r) ==
  strLock' = IF call[t].op = "result" /\ r.at = NullDesc THEN t ELSE Nobody

(* Bug: PRINT reaches the device before it gives the lock back. *)
KeepsLockToPrint(t, r) ==
  strLock' = IF call[t].op = "print" THEN t ELSE Nobody

GiveBack(t, r) == strLock' = Nobody

(* PRINT goes on to the device with the UTF-8 text it made. *)
Proceed(t, c) ==
  CASE c.op = "print"  -> Goto(t, "device") /\ UNCHANGED << call, seen >>
    [] c.op = "encode" ->
         /\ Goto(t, "lock")
         /\ call' = [call EXCEPT ![t] = [op |-> "release", a |-> c.a]]
         /\ seen' = [seen EXCEPT ![t] = InitMemory]
    [] OTHER -> Goto(t, "idle") /\ Forget(t)

Passed(c) == IF c.op = "encode" THEN {} ELSE Uses(c)

(* The operands of which a comparison has the pointer, at each place. *)
Pointed(place) == CASE place \in {"len a", "data b"} -> {"a"}
                    [] place \in {"len b", "read"}   -> Sides
                    [] OTHER -> {}
Exposed(t) == {call[t][f] : f \in Pointed(at[t])}

Unlock(t, got) ==
  /\ at[t] = "locked"
  /\ \E r \in {Body(seen[t], t, call[t], got)}, c \in {call[t]} :
       /\ rt' = Changed(rt, seen[t], r.mem)
       /\ held' = [held EXCEPT ![t] = (@ \ Passed(c)) \cup ({r.at} \cap Temps)]
       /\ scope' = IF c.op = "result" THEN scope \ {c.dst} ELSE scope
       /\ raced' = (raced \ {t}) \cup {u \in Thread \ {t} :
                     Writes(c) \cap Exposed(u) # {}}
       /\ GiveBack(t, r)
       /\ Proceed(t, c)
  /\ wild' = wild \ {t}
  /\ UNCHANGED << ioLock, loaded, line, begun >>

-----------------------------------------------------------------------------
(* fb_UStrCompare: of one operand and then the other the pointer and then  *)
(* the length (FB_USTRSETUP), then the text of both, with no lock; then    *)
(* the lock to release the operands that were temps.                       *)

Cell(m, d) == IF Data(m, d) = NoBlock THEN Dead ELSE m.heap[Data(m, d)]

LoadData(t, f) ==
  LET o == call[t][f]
  IN  loaded' = [loaded EXCEPT ![t][f] =
                   IF o \in Desc
                   THEN [data |-> Data(rt, o), cell |-> Cell(rt, o), len |-> 0] ELSE @]

LoadLen(t, f) ==
  LET o == call[t][f]
  IN  loaded' = [loaded EXCEPT ![t][f] =
                   IF o \in Desc THEN [@ EXCEPT !.len = rt.desc[o].len] ELSE @]

(* Bug: each operand is released as soon as its pointer and length are     *)
(* known.                                                                  *)
SetupReleases(t, f) ==
  /\ LoadLen(t, f)
  /\ rt' = Release(rt, call[t][f])

SetupLen(t, f) ==
  /\ LoadLen(t, f)
  /\ UNCHANGED rt

DataPlace == [a |-> "data a", b |-> "data b"]
LenPlace  == [a |-> "len a",  b |-> "len b"]
NextPlace == [a |-> "data b", b |-> "read"]

Setup(t) ==
  /\ \E f \in Sides :
       \/ /\ at[t] = DataPlace[f] /\ Goto(t, LenPlace[f])
          /\ LoadData(t, f) /\ UNCHANGED rt
       \/ /\ at[t] = LenPlace[f] /\ Goto(t, NextPlace[f])
          /\ SetupLen(t, f)
  /\ UNCHANGED << program, locks, call, seen, raced, wild, line, begun >>

(* The length that was loaded is not that of the text at the pointer when  *)
(* that was loaded, or what is there now is other text.                    *)
ReadsOther(t, f) ==
  LET l == loaded[t][f]
  IN  \/ l.len # Len(l.cell.text)
      \/ l.data # NoBlock /\ rt.heap[l.data] # l.cell

ReadText(t) ==
  /\ at[t] = "read"
  /\ wild' = IF \E f \in Sides : ReadsOther(t, f) THEN wild \cup {t} ELSE wild
  /\ Goto(t, "lock")
  /\ loaded' = [loaded EXCEPT ![t] = NotLoaded]
  /\ UNCHANGED << rt, program, locks, call, seen, raced, line, begun >>

-----------------------------------------------------------------------------
(* Devices.  PRINT to a plain file or console: the text and its newline    *)
(* under FB_LOCK (fb_hPrintStrEx), then the release of the narrow temp     *)
(* under the string lock.  LINE INPUT from a plain file: FB_LOCK, and the  *)
(* string lock inside it for the narrow assignment (fb_hFileLineInputEx).  *)

(* Bug: no FB_LOCK around the text and its newline. *)
PrintWithoutLock(t) == UNCHANGED ioLock

TakeIoLock(t) == ioLock = Nobody /\ ioLock' = t

Device(t) ==
  /\ at[t] = "device"
  /\ TakeIoLock(t)
  /\ line' = IF call[t].op = "print" THEN t ELSE line
  /\ Goto(t, IF call[t].op = "print" THEN "newline" ELSE "inner lock")
  /\ UNCHANGED << rt, program, strLock, call, seen, reads, begun >>

Newline(t) ==
  /\ at[t] = "newline"
  /\ line' = Nobody /\ ioLock' = Nobody
  /\ Goto(t, "narrow")
  /\ UNCHANGED << rt, program, strLock, call, seen, reads, begun >>

(* fb_hStrDelTemp: the lock is taken and given back. *)
DropNarrow(t) ==
  /\ at[t] = "narrow" /\ strLock = Nobody
  /\ Goto(t, "idle") /\ Forget(t)
  /\ UNCHANGED << rt, program, locks, reads, line, begun >>

InnerLock(t) ==
  /\ at[t] = "inner lock"
  /\ strLock = Nobody /\ strLock' = t
  /\ Goto(t, "inner locked")
  /\ UNCHANGED << rt, program, ioLock, call, seen, reads, line, begun >>

InnerUnlock(t) ==
  /\ at[t] = "inner locked"
  /\ strLock' = Nobody /\ ioLock' = Nobody
  /\ Goto(t, "lock")
  /\ UNCHANGED << rt, program, call, seen, reads, line, begun >>

-----------------------------------------------------------------------------

(* A thread inside a call goes on. *)
Continue(t) ==
  \/ Lock(t)
  \/ \E got \in Outcomes : Unlock(t, got)
  \/ Setup(t) \/ ReadText(t)
  \/ Device(t) \/ Newline(t) \/ DropNarrow(t)
  \/ InnerLock(t) \/ InnerUnlock(t)

Next ==
  \E t \in Thread :
    \/ LeaveScope(t)
    \/ \E c \in CallsOf(t) : Begin(t, c)
    \/ Continue(t)

(* The scheduler runs every thread that can go on.  Nothing is assumed of  *)
(* the order in which a mutex is granted, nor that a thread makes a call.  *)
Fairness == \A t \in Thread : WF_vars(Continue(t))

Spec == Init /\ [][Next]_vars /\ Fairness

-----------------------------------------------------------------------------
(* What the locks are for *)

Places == {"idle", "lock", "locked", "data a", "len a", "data b", "len b",
           "read", "device", "newline", "narrow", "inner lock", "inner locked"}

(* Every field holds a value of its type. *)
TypeOK ==
  /\ rt \in Memory /\ seen \in [Thread -> Memory]
  /\ scope \subseteq Var /\ held \in [Thread -> SUBSET Temps]
  /\ strLock \in Thread \cup {Nobody} /\ ioLock \in Thread \cup {Nobody}
  /\ line \in Thread \cup {Nobody}
  /\ at \in [Thread -> Places]
  /\ raced \subseteq Thread /\ wild \subseteq Thread
  /\ loaded \in [Thread -> [Sides -> [data : Block \cup {NoBlock}, cell : Buffer,
                                       len : Nat]]]
  /\ begun \in 0 .. Calls

(* A temp is in the hands of one thread, a pool descriptor is on the free  *)
(* list or in flight and never both, no two descriptors share a buffer,    *)
(* and each buffer has the recorded capacity and the text that the length  *)
(* counts: what two threads inside the pool, or inside one variable, at    *)
(* once would break.                                                       *)
Sound ==
  /\ \A t, u \in Thread : t # u => held[t] \cap held[u] = {}
  /\ rt.used = (UNION {held[t] : t \in Thread}) \cap Slot
  /\ \A s \in Slot :
       s \notin rt.used <=>
         Cardinality({i \in DOMAIN FreeList(rt) : FreeList(rt)[i] = s}) = 1
  /\ \A d \in Desc : Data(rt, d) # NoBlock =>
       /\ rt.heap[Data(rt, d)].live
       /\ \A e \in Desc : Data(rt, e) = Data(rt, d) => e = d
       /\ rt.desc[d].size = rt.heap[Data(rt, d)].cap
       /\ rt.desc[d].len = Len(rt.heap[Data(rt, d)].text)
       /\ rt.desc[d].len <= rt.desc[d].size

(* A comparison reads memory that is no longer its operand's only when     *)
(* another thread stores to that very variable meanwhile: never a temp's,  *)
(* never a literal's, and never for a store to any other variable.         *)
WildOnlyIfRaced == wild \subseteq raced

(* Whoever waits for FB_LOCK does not hold FB_STRLOCK: the order that      *)
(* fb.h asks for, so that PRINT and LINE INPUT cannot lock each other out. *)
LockOrder == \A t \in Thread : at[t] = "device" => strLock # t

(* The text of one PRINT and its newline are not separated by another's.   *)
LinesWhole == [][line' # line => line = Nobody \/ line' = Nobody]_vars

(* Every call returns. *)
CallsReturn == \A t \in Thread : at[t] # "idle" ~> at[t] = "idle"

-----------------------------------------------------------------------------
(* The calls of all threads together take effect one at a time, each as    *)
(* the language promises it of a single thread (UStrValues).               *)

Values == INSTANCE UStrValues WITH
  val     <- [v \in Var |-> Contents(rt, v)],
  temp    <- [d \in Temps |-> Contents(rt, d)],
  held    <- UNION {held[t] : t \in Thread},
  Nothing <- NullPtr

OneAtATime == Values!Spec

=============================================================================
