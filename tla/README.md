# The USTRING runtime in TLA+

This directory models the `USTRING` type that this repository adds to the
FreeBASIC compiler and its runtime library: a string of UTF-16 code units, in a
var-len form (`USTRING`, a descriptor with a heap buffer that can grow) and a
fixed-length form (`USTRING * N`, a bare buffer with room for N units and a terminator).
The rest of the repository (the FreeBASIC compiler and runtime as they were, the
vendored headers, the built binaries) matters here only where ustring code
calls it.

Paths below are under `src/fbc-master/src/`; `rtlib/` is the runtime in C, `compiler/`
the compiler in BASIC.

1. [The system](#1-the-system)
2. [The modules and the code](#2-the-modules-and-the-code)
3. [What is checked, and with which bounds](#3-what-is-checked-and-with-which-bounds)
4. [What is proved, and how](#4-what-is-proved-and-how)
5. [Where the code and its documents disagree](#5-where-the-code-and-its-documents-disagree)
6. [What is not modelled](#6-what-is-not-modelled)
7. [Plan](#7-plan)

## 1. The system

### Components, their state and their operations

| component | code | state | operations |
|---|---|---|---|
| memory | `ustr_core.c`, `list.c`, `fb_ustring.h` | descriptors (`data`, `len` with the temp bit, `size`), heap blocks, a pool of 256 temp descriptors on a free and a used list | `fb_hUStrAlloc`, `fb_hUStrRealloc`, `fb_UStrDelete`, `fb_hUStrAllocTemp`, `fb_hUStrDelTemp` |
| assignment and concatenation | `ustr_assign.c`, `ustr_concat.c`, `ustr_tempres.c` | none of its own: it moves text and buffers between descriptors | `fb_UStrInit`, `fb_UStrAssignEx`, `fb_UStrConcat`, `fb_UStrConcatAssign`, `fb_UStrAllocTempResult` |
| statements in place | `ustr_misc.c`, `ustr_slice.c` 123-162 | none | `LSET`, `RSET`, `SWAP`, the `MID` statement |
| converters | `ustr_utf.c`, `ustr_conv.c` | position, count and destination of one conversion | `fb_hUtf8ToUtf16`, `fb_hUtf16ToUtf8`, assignment from and to narrow strings, mixed concatenation |
| search | `ustr_search.c`, `ustr_prim.c` | one scan | `INSTR`, `INSTRREV`, both with `ANY` |
| trim | `ustr_trim.c` | the window of one call | `LTRIM`, `RTRIM`, `TRIM`, each plain, with `ANY`, with a substring |
| slice | `ustr_slice.c` | the window of one call | `LEFT`, `RIGHT`, `MID`, `SPACE`, `STRING` |
| comparison, length | `ustr_comp.c`, `ustr_len.c` | none | `fb_UStrCompare`, `fb_UStrLen`; both release temps |
| wide strings | `ustr_convw.c`, `ustr_wchar_conv.h` | none | assignment from and to `WSTRING`, by the width of `wchar_t` |
| case | `ustr_case.c`, `ustr_casetable.c` | a generated table | `UCASE`, `LCASE` |
| output | `ustr_print.c`, `io_printusg.c` | the `PRINT USING` context of the thread | `PRINT`, `WRITE`, `PRINT USING` |
| input | `ustr_fileio.c`, `file_input_tok_wstr.c`, `file_get.c`, `file_putback*.c` | the file and its put-back buffer | `LINE INPUT #`, `INPUT #` |
| locks | `fb.h`, `unix/hinit.c` | two recursive mutexes | `FB_STRLOCK`, `FB_LOCK` |
| arrays | `array_destructustr.c` | the array descriptor | destruction, `ERASE` |
| graphics | `gfxlib2/gfx_drawstring_ustr.c` | none | `DRAW STRING` |
| compiler | `rtl-ustring.bas`, `ast-optimize.bas`, `ast-node-*.bas` | the tree of one statement | which of the calls above a statement becomes, and in which order |

### How they interact

* **Temps.** An expression such as `LEFT(a + b, 3)` is a chain of calls that pass
  descriptors to each other. A result is a *temp*: a descriptor from the pool, or
  one the compiler put on the stack for a concatenation, marked by the sign bit of
  `len`. Whoever receives a temp as an operand must release it, and nobody may
  release it twice. There is no other bookkeeping; every C function does its
  share, on each of its return paths.
* **Stealing.** Assignment from a temp does not copy. It takes the buffer over and
  returns the descriptor to the pool; returning a local from a `FUNCTION` moves its
  buffer into a temp likewise. So buffers change their owner and their descriptors
  all the time, and each owner frees what it points at.
* **Sizes.** A descriptor operand is passed with size -1, a field with its capacity
  and a flag, a raw pointer with a plain size. `FB_USTRSETUP` tells them apart in every
  function: the length of a descriptor is stored, that of a field is found by a
  walk to the first NUL.
* **The compiler** is the client. It promises to name variables while they are in
  scope, to pass each temp on once, and not to append to a variable that occurs in
  what is appended. It turns `u = u + x` and `u = a + b + c` into appends, so operands
  are read when `u` may be half built already.
* **Locks.** Each call takes `FB_STRLOCK` around what it does to descriptors, buffers and
  the pool. `PRINT` and `LINE INPUT` take `FB_LOCK` around the device as well.
  Comparison reads before it locks, and the conversions from and to narrow strings
  give the lock up in their middle.
* **Memory failure.** `malloc` is asked for a rounded size first and for the exact
  size next; both can fail. Nothing reports an error: text comes out empty.

### What makes it hard

The hazards are listed in `PROJECT.json`, each at its line. In short: ownership across
long chains of legal calls; an exhausted pool; an allocation that fails in the middle of a
call; a source pointer taken before a reallocation; capacities, terminators and
clamps off by one; overlapping copies; signed overflow of a count;
UTF-8 that is malformed or ends too early; searches and trims that see units where
the user sees characters; the steps of two threads between the critical sections;
a character read ahead and put back; a format string that outlives the
statement it belongs to; an expression that is taken apart into calls.

### What makes each component correct

* memory: one owner for each buffer, nothing leaks, the pool is conserved, lengths within
  capacities, linear total cost of appending;
* assignment and concatenation: variables behave as values, whatever is shared underneath;
* fields: terminator and tail intact, text clipped and padded as told, in-place
  statements as if on copies;
* converters: the decoding that Unicode recommends, no lone surrogate, no write past the
  capacity, round trips;
* search, trim, slice: what the manual says, without a read outside the text, and without
  parting a character where the comments say so;
* threads: calls take effect one at a time, lines stay whole, every call returns;
* compiler: the calls made of a statement leave what its expression was worth before them;
* input: the lines of the file, the values that were written, and an end of the loop until EOF;
* `PRINT USING`: the fields and the text the manual promises, and an end of every statement.

## 2. The modules and the code

| module | models | kind |
|---|---|---|
| `UStrSizes` | rounding, growth and reuse rule of buffers (`ustr_core.c` 74-81, 136-142) | operators |
| `UStrMemory` | the C functions on descriptors, heap and pool, each an operator from memory to memory | operators |
| `UStrRuntime` | a program making those calls: one action per call the compiler emits | state machine |
| `UStrValues` | what the language promises of var-len ustrings: variables and results hold texts of their own | abstract specification |
| `UStrGrowth` | the cost of the allocation policy, with a count of the units moved | state machine |
| `UStrFixed` | `USTRING * N`, cell by cell, and the statements that write in place | state machine |
| `UStrFields` | what those promise in terms of texts | abstract specification |
| `UStrCodec` | the UTF-8 converters and those of `WSTRING` for each width of `wchar_t`, one sequence a step, and a second conversion back | state machine |
| `UStrUnits` | surrogates, well-formed text and where its characters begin; the operands of a search and of a trim | operators |
| `UStrSearch` | the four searches, one position a step | state machine |
| `UStrTrim` | the nine trims, one unit or one copy of the string a step | state machine |
| `UStrSlice` | `LEFT`, `RIGHT`, `MID` over integers of bounded width | state machine |
| `UStrThreads` | threads that make the calls of `UStrMemory` under the two locks | state machine |
| `UStrLowering` | the rewriting of an assignment into calls (`ast-optimize.bas`), and the run of those calls | state machine |
| `UStrInput` | `LINE INPUT #` and `INPUT #`, one character a step, over a file with a put-back buffer | state machine |
| `UStrUsing` | `PRINT USING` with ustrings, one turn of its loops a step | state machine |
| `UStr*Proofs` | theorems about the modules they are named for; `UStrScanProofs` about `UStrSearch`, `UStrTrim` and `UStrLowering`, `UStrSizesProofs` about `UStrGrowth`, `UStrSlice` and `UStrUsing` | proofs |
| `MC*` | small constants for TLC | instances |

`UStrRuntime` composes everything that touches memory. The scanning components
(codec, search, trim, slice) only read their operands and hand a range of text to
a temp; their modules model the scan, and `Slice` and `Decode` of `UStrRuntime` what
happens to memory afterwards. `UStrThreads` composes the same operators of `UStrMemory` for
several threads, and implements the same `UStrValues`. `PROJECT.json` maps each definition to its lines.

### State and actions against the code

**UStrMemory, UStrRuntime.** A memory is a record: `desc` (an `FBUSTRING` for each variable, each stack
temp, each pool slot and the shared `unull_desc`; the sign bit of `len` is a field `temp`
of its own), `heap` (each block with its capacity and the text last written to it), `free` and `used`
(the two lists of `FB_LIST`: a stack and a set, since the used list is never
searched in order). `AssignEx(m, dst, src, isInit, got)` is `fb_UStrAssignEx`:
`Clear`, `Steal` and `CopyAssign` are its three branches, `Release` its end; `got` is what malloc
answers ("rounded", "exact" or "none") and `moved` whether a realloc changed the address. A length
stored before the text is copied and a text shorter than its length are different
things in the model, as in C. The actions of `UStrRuntime` are the calls: `Dim`, `DimInit`,
`Assign`, `Extend` (append), `ConcatInto`, `Slice`, `Recase` (`UCASE`, `LCASE`), `Fill` (`SPACE`,
`STRING`), `Decode` (narrow strings and `WSTRING`), `Consume`, `ConsumeTwo`, `SwapVars`, `Return`,
`LeaveScope`. A narrow operand of a mixed concatenation (`ustr_conv.c` 242-323) is one of `Raw`, since it is
decoded straight into the buffer. What the case tables make of a unit is the constant `Cases`.
Destruction of an array of ustrings is `LeaveScope` of each element. Besides the memory the state has what the generated code
knows (`scope`, `held`: the temps it was handed and has not passed on) and a history
variable `lost` for blocks nobody points at any more.

`Extend` never appends a variable to itself: the compiler turns `u &= u` into a concatenation,
which `AppendsOtherText` of `UStrLowering` says of every statement; `NoWildText` says that with
this no text of freed memory ever shows.

A text read from a freed block consists of the unit `Wild`: reading it is undefined
behaviour, and `Wild` stands for whatever is there.

**UStrGrowth.** `len` and `size` of one ustring, `copied` (units moved by reallocations) and
`written` (units the calls wrote). `Extend` is an append with all three answers of malloc: the rounded
size, the second attempt with the bare one (`ustr_core.c` 162-172), or neither, when nothing
is written. A buffer of the bare size has no room, so in a heap that full every append moves the text
and no policy is cheap; `forced` counts the units moved to such buffers, and only those are
exempt from `Amortised`.

**UStrFixed.** `cells` is the buffer of each field, terminator included, or the text of a var-len
ustring. `Text` is `FB_USTRSETUP` with its walk. `Stored` is the branch of `fb_UStrAssignEx` for
fixed-length destinations, `AssignFromA` its use by the narrow conversion, `AppendFixed` that of `fb_UStrConcatAssign`, `Mid`, `LSet`,
`RSet`, `Swap` the statements. `CopyOver` is `memcpy`: when source and destination overlap, either
the original units or the units already copied may arrive.

An operand may be the destination itself: `MID(u, 2) = u` is one of the behaviours of `Mid`. Texts may
have NULs inside: a field that is given one holds all its units and shows those before the NUL. `filled`
is a history variable, the number of units that the last assignment or append wrote into a field.
`Next` of `UStrFields` is what the statements promise; `NextUnordered` adds the one thing the code does beyond
that, `MidOfSelf`.

**UStrCodec.** `Decode` is one turn of the loop of `fb_hUtf8ToUtf16`: a scalar value, or U+FFFD for
the longest prefix of a well-formed sequence (`Found`). `Encode` is one turn of `fb_hUtf16ToUtf8`. `Emit`
counts always and writes while there is capacity, as `UEMIT` and `BEMIT` do. `Widen` and `Narrow` are
the template of `ustr_wchar_conv.h`, which is compiled for 8, 16 or 32 bits (`width`); for
32 bits it is also what the UTF-32 converters of `ustr_utf.c` do. `Turn` feeds
the output of a conversion that had ample room to the converter of the other direction.

**UStrSearch, UStrTrim, UStrSlice.** One action per branch of the loop body. `at`, or
`first` and `last`, are the C's loop variables; results are 1-based as in the code. In
`UStrSlice` a sum that overflows is either wrapped or compared as if it had not, the
two things compilers do with signed overflow.

**UStrThreads.** Between two steps of a thread another may run wherever the code holds no
lock. A call loads the memory (`seen`) when it takes the lock and stores what it changed when it
gives it back (`Changed`): without the lock the stores of others would be lost, so that the lock
does the work in the model that it does in the code. `Setup` and `ReadText` are the
unlocked reads of `fb_UStrCompare`: the pointer and then the length of the first operand, the pointer and then the
length of the second, and the texts, five steps between which others may store. `loaded` is what was loaded of each operand,
and the buffer the pointer led to at that moment. "encode" and "release" the two critical
sections of `fb_UStrAssignToA`, `Device` to `DropNarrow` and `InnerLock` to `InnerUnlock` the nested locks of
`PRINT` and `LINE INPUT`. `raced` and `wild` record comparisons whose operand was stored to
after its pointer was loaded, and those that read memory of something else, or as many units as another text had.

**UStrLowering.** A statement is a destination and a tree of `+` over the node classes of the
compiler. The tree is written as the list of its terms and, for each sum, the term behind which
its left side ends (`split`): a node is the range of terms below it, so that reassociation
changes `split` and nothing else. `Reassociate` is one call of `hOptAssocADD`, for one sum; the sums
it still has to be called for are in `todo`. `Assoc`, `IsMultStrConcat`, `GrowsInPlace`, `OptUStrAssignment` and `Lower`
are the functions of `ast-optimize.bas` with those names; the remaining actions run the calls, each of which reads its
operand from the store as the calls before it left it.

In `l = l + x` the code asks whether `x` may be built up in `l` piece by piece. It is never a sum there: had the right
side of the statement's sum been one, `hOptAssocADD` would have rotated it, and the left side would be a sum (`Rotated` of the proof).

**UStrInput.** `rest` is what the device has not handed out, `back` the put-back buffer. An action takes
one character or puts one back, since `FB_LOCK` covers no more. The program reads
until EOF: lines, tokens of a file that `WRITE #` wrote, or both in any order. `Drop` is every place
where memory may run out after something was read.

**UStrUsing.** `ctx` is `FB_PRINTUSGCTX`; `stack` are the statements in execution, since an argument may
be a `FUNCTION` with a `PRINT USING` of its own, and they share `ctx`. What is read where the format
was freed is any character of `Litter`. What the manual promises is said field by field, next to the
loops that go character by character: `Items` takes a format apart into literals and fields, `Taken` gives each value
its field, cyclically, and `Promised` puts the output together. `Shown` says of a text in a field which of its NULs
are printed as blanks; it states this on its own terms, not with the operators of the loop. `FieldLeft` says when a statement
frees its format with a field left over, `Remains` what may then follow, `Begun` what is printed of a statement that lost
its context.

## 3. What is checked, and with which bounds

| run | module, cfg | question |
|---|---|---|
| `runtime` | `MCRuntime`, `MCRuntime` | Is each buffer owned once, the pool conserved, nothing lost but by exhaustion, each length within its buffer, no freed memory read? Does the memory implement `UStrValues`? |
| `fields` | `MCFixed`, `MCFixed` | Do fields keep their terminator and no units of an earlier text, and implement `UStrFields` with `MidOfSelf`? |
| `mid_overlap` | `MCFixed`, `MCFixedMid` | (violated) Do fields implement `UStrFields` without `MidOfSelf`? |
| `pure` | `MCPure`, `MCPure` | Is appending amortised O(1) but for what refusals of malloc force, and no buffer far too large? Does a slice end with what the manual says, or with no text and only where start + units overflowed? Is the nearest occurrence found, at the beginning of a character? Is exactly the maximal run cut off, never half a character? Is every decoding the recommended one, within capacity, without lone surrogates, and stable over a round trip, for bytes and for each width of `wchar_t`? |
| `search_past` | `MCPure`, `MCPurePast` | (violated) Does a start past the text find nothing? |
| `trim_empty_set` | `MCPure`, `MCPureEmptySet` | (violated) Does an empty set strip nothing? |
| `threads` | `MCThreads`, `MCThreads` | Do calls of two threads take effect one at a time, do the lines of `PRINT` stay whole, does every call return? What can an unlocked comparison read? |
| `input` | `MCInput`, `MCInput` | Are the lines those of the file, do values come back as written, does the loop until EOF end? |
| `lowering` | `MCLowering`, `MCLowering` | Do the calls made of an assignment leave the value of its expression, and does no append read the text it appends to? |
| `narrow_append` | `MCLowering`, `MCLoweringNarrow` | (violated) The same for `u &= s` with a narrow `s`. |
| `using` | `MCUsing`, `MCUsing` | Does `PRINT USING` print exactly what the manual promises, but for the exceptions of section 5, and does every statement end? |
| `using_nul` | `MCUsing`, `MCUsingNul` | (violated) Are NULs printed as blanks? |

`pure` takes the modules whose state no other shares (`UStrGrowth`, `UStrSlice`, `UStrSearch`, `UStrTrim`, `UStrCodec`), one in each
behaviour, chosen by `part`; the variables of the others keep their first values.

The properties are stated, each with the behaviour it is about, at the end of the modules.
Each property of a passing run has a mutant in `PROJECT.json`: a variant of a mapped
definition with a plausible bug (marked "Bug" in the modules and used nowhere else),
under which the run finds the property violated.

### Bounds, and why they are enough

* **Runtime.** Two variables, one stack temp, a pool of one descriptor, three blocks,
  texts of at most two units, two letters. Every rule of
  ownership involves at most two operands and a destination, so with two
  variables, a stack temp and a pool temp each combination of kinds occurs; a pool
  of one is exhausted after one call. Three blocks are fewer than the four
  descriptors could own. malloc gives each of its answers at each call ("rounded", "exact" and "none"). The granule
  of rounding is 2, so that a rounded capacity differs from an exact one. `Space` is one of the two letters, and
  `Cases` maps every letter to one of them. Variables are symmetric: no action and no property names one. So
  are blocks: those that are not live are all alike, and which of them malloc takes is the only place where one is chosen. `MaxUnits` is the bound in
  `TooBig` and the bound on lengths; the code refuses requests above its own bound
  in the same place.
* **Growth.** Texts of at most 30 units with granule 8 (16 in the code; the growth
  of an eighth is exact when 8 divides the granule, which the assumption demands), calls that write 1, 7 or 16 units
  (`Requests`), 24 units written in all (`Budget`), every answer of malloc: three granules, so that growth by an eighth shows,
  and buffers shrink, grow, are adopted, and are had at the bare size several times in a row. The theorem removes these bounds.
* **Fields.** Capacities 1 and 3 and a var-len ustring; a ustring and a narrow string, each of three units with a
  NUL in the middle, so that a text fills a field exactly, falls short of it or runs past it, with a NUL inside or without: the
  var-len ustring takes both, and `MID`, `LSET` and `RSET` make others of them. The empty text is that of a
  variable that was not assigned yet. A narrow string is assigned to fields only (`AssignFromA`).
* **Codec.** Every text of up to 4 bytes over 14 bytes that stand on either side of each boundary
  in the decoder (ASCII, continuation bytes at both ends of the special ranges 80-8F, 90-9F,
  A0-BF, lead bytes of each length with those that have special second bytes,
  bytes that are never valid), and every text of up to 3 units over 8 units next to the
  boundaries of the encoder. No sequence is longer than 4 bytes, and a malformed
  one is replaced before the next is looked at, so each path through
  the loop body is taken. For `WSTRING` of 32 bits every text of up to 3 over 9 values on either side of the
  surrogates, of U+FFFF and of U+10FFFF; for 16 and 8 bits those of them that fit. Capacities: 1, where everything is cut, and enough; the theorem is for all.
* **Search, trim.** Texts of at most 4 units, patterns of at most 2, one letter (and a blank, to trim) and
  two characters outside the BMP that share their high half: enough for overlapping occurrences,
  runs, patterns that do not fit any more, and matches of half a character. Starts from
  -1 to one past the text. An empty set both with a buffer and without.
* **Slice.** Integers from -128 to 127, texts of up to 30 units: the relation between the
  largest text and the largest integer (more than twice, since a unit has
  two bytes) is the assumption. Every text of at most four units over two, and of 29 and 30 units those with one letter among blanks,
  which tells the windows apart; every start and count that is no more than two from 0, from the length, from either end of the integers, or from
  where the sum begins to overflow.
* **Threads.** Two threads, a module-level variable they share and a local of each frame, one
  stack temp each, a pool of one, five blocks, a literal of one unit, and at most three calls in a behaviour (`Calls`): a call that
  waits, one that holds the lock, and one before them that set up what they meet; two stores can fall
  between the loads of a comparison. All kinds of
  call and all operands a thread can name are taken. malloc answers "exact" here; its other answers
  are in `runtime`. The theorems about the locks have no such bound.
* **Lowering.** Every assignment of one, two or three operands, however they are bracketed, over all
  kinds of operand and of destination, and of four operands of six kinds: 83 thousand statements, 494 thousand states.
  The theorems have no bound on operands.
  The texts tell all places apart; a narrow string holds a character of two bytes. Two things are
  left out because nothing promises an order (see the hazards): a function that reads the
  destination where the compiler cannot see it, and a character cut between two narrow strings.
* **Input.** Every file of at most five characters over an ordinary letter, one past ASCII, CR, LF, comma, quote
  and blank, except those with the letter past ASCII behind a CR (section 5); every list of one or two values of at most
  three characters. `LINEBUF_INIT` is 1 so that lines outgrow the buffer twice, the put-back buffer holds
  one character, a token four. One reader: nothing is promised to two of one file. The first
  malloc of a call succeeds: when it fails the call returns at once, has read nothing, and a loop until EOF tries again.
* **Using.** Every format of at most three of seven characters, and six longer ones: a field wider than
  the buffer (`Room` = 3), two kinds of field with text between, a broken field after a good one, more
  literal text than the buffer takes. `PrintsAsPromised` is about formats whose literals fit (`WellFormed`); of the others `TypeOK` and
  `StatementsEnd` hold. No, one or two values (three for the longer formats), of no, one and three
  units with a NUL inside; with and without the newline; a `PRINT USING` in any argument.

`CHECK_DEADLOCK FALSE` is set where something is modelled from its beginning to its end: one call
(`pure`, where `UStrGrowth` alone goes on), one statement (lowering), the reading of one file (input), a bounded
number of calls (threads). Programs (`UStrRuntime`, `UStrFixed`, `UStrUsing`)
can always make another call, and there deadlock is checked.

### Fairness

Three modules state fairness, and all of it is weak.

* `UStrThreads`: for each thread, that it goes on when it is inside a call and can. That is what a
  preemptive scheduler gives. Nothing is assumed of the order in which a mutex is
  granted, and no thread need begin a call. `CallsReturn` holds under this with `Calls` bounded; with unboundedly
  many calls a mutex that is not fair may starve a thread, so the bound is part of the claim.
* `UStrInput`: the reading program runs on. `LoopEnds` is then a claim about the data: that
  every turn takes something from the file for good.
* `UStrUsing`: a thread that executes a statement goes on. New statements are not forced, and `Nest` is
  not either.

The other modules state none: their loops are over a bounded range.

## 4. What is proved, and how

All theorems are checked by TLAPS, for all values of the constants under the assumptions
named in the modules: names are disjoint, sizes are numbers, the pool has at least one
descriptor, `Cases` maps units to units, blanks are no halves of surrogate pairs, half of the
largest integer exceeds the longest text. `PROJECT.json` says of each theorem what it establishes.

**UStrMemoryProofs** has the lemmas about the C functions, in two layers, one lemma of each for a function.
The first is ownership. It does not hold in the middle of a call: a descriptor is
between two owners there, a length is stored before its text. Hence `Sound(m, A, H, W, L)`,
the invariant relative to which descriptors are in use (A, H), marked as temps (L) and have their
text written (W); a lemma takes the `Sound` its function needs to the `Sound` it leaves, and the
entry points chain them in the order of the calls. The second is text: `Intact` is `Sound`
with no `Wild` unit in any text that is written, and each lemma says which text the
destination reads afterwards and that every other descriptor in use reads what it read.
A call that malloc refuses leaves an empty text, or for an append the text as it was.

**UStrRuntimeProofs**, for any number of variables, stack temps, pool descriptors and
blocks, any texts and any answers of malloc: ownership, leaks, the pool, the temp bit, bounds,
losses, no text of freed memory (`NothingWild`), and that the runtime implements `UStrValues` (`Refinement`).
None of the properties is inductive by itself: that a buffer has one owner
depends on idle descriptors being zeroed (a stack temp is reused), that on the temp
bit, that on the pool, that on what is in flight. The invariant `IInv` is their conjunction
with bounds on lengths; one lemma per action puts `scope` and `held` in for the sets of `Sound`. For the
refinement one lemma per action takes the text lemmas together (`Stores`, `Gives`) and names the step of `UStrValues`.

**UStrThreadsProofs**, for any number of threads and any number of calls: the locks (`LocksExclusive`, `LockOrderHolds`),
the lines of `PRINT` (`LinesStayWhole`), the memory under them (`SoundAlways`), what an unlocked comparison reads
(`RacesOnly`), and that calls take effect one at a time (`CallsOneAtATime`). The invariant relates where a thread is to who holds
each lock and whose line is open, and the memory to who is in its critical section: the memory
that such a thread has loaded, less the variables of frames that have ended since, is the memory all see (`CallInv`).
With that a store is one call of `UStrMemory`, and the lemmas of `UStrMemoryProofs` apply. The point at which a call takes effect is
the store; of an assignment to a narrow string it is the second of its two critical sections, of a
comparison its release. `WatchInv` says of a comparison that is not marked `raced` that each pointer and each length it has loaded so far is
still that of the operand.

**UStrFixedProofs**: types and terminator, that nothing but NULs is behind what was last written into a field (`FieldTails`),
and that the statements on cells implement those on texts (`FieldRefinement`, with `MidOfSelf`), for operands with
NULs anywhere. The invariant says of each field how many cells it has, that the last is a terminator, and that its
text ends within the units that were written. A lemma for each statement takes what its operands show to what its destination
shows: the units up to the first NUL of what was written, whichever units an overlapping copy leaves.

**UStrSizesProofs**, on growth: `AppendIsAmortised` by a credit argument. Each written unit pays for itself
and for nine moves; the invariant says that the credit in hand suffices to move the
text once the buffer is full (`copied - forced + 9 len <= 9 written + 8 size`); a unit moved to a buffer of the bare
size is paid for by `forced`. It needs `SlackIsBounded`
as well, and arithmetic lemmas about rounding and growth, which are monotone.

On slices: bounds, what every call ends with (the empty text of a wrapped sum included), and refusals, for every width of the
integers. The invariant relates the window chosen by the
clamps to the promised text, and says that a count past the text is one whose sum overflowed.
On `PRINT USING`: `UsingStaysInside`, for every format, malformed ones included, any values, and whatever is found where a format
was freed. Added are that an allocated format begins before the pointer, that a statement is in execution, and where
`fb_PrintUsingFmtStr` returns to.

Then `UsingPrintsAsPromised`, for every format that is `WellFormed` (it has a field, none that is no field for a text, and no
more literal text in one piece than the buffer takes), any number of values, any size of the buffer and whatever is found where a
format was freed; a statement in execution may be interrupted by one whose format is anything. The code goes through the format a
character at a time, several times over, and the promise is made of a list of items, so the property is far from
inductive. The invariant (`PrintInv`) says, where a statement has the context for itself (`Here`), that the pointer is at
the beginning of an item (`Parsed`), that the field of the next value is the first one behind it, in this pass or the next (`Due`),
and that what was printed, what is collected in the buffer and what is due from the pointer on are together
what was promised (`Made`). In each place of the code something more is needed: that the buffer
takes the rest of the literals (`Fits`), that a field follows (`Comes`), how much of a field is behind the pointer. One lemma
per place and action (`CallStage` to `EndStage`) moves this on. A statement that freed its format has
printed all (`Released`), and either a field was left over or nothing is behind the pointer; one that lost the context to a
statement in its argument has printed what was due when it did (`Cut`), and nothing is collected or read for it any more (`Lost`).
`Items` and `Promised` are recursive functions; what they are piece by piece is shown by induction
downwards from the end (`TailsFacts`), what `Taken` is by induction upwards (`TakenFacts`).
TLC found `PrintInv` to hold on the instance of `using` before it was proved.

**UStrCodecProofs**: `ContractKept`, `DecodingIsWellFormed`, `CodecTypes`, whose conjunction is inductive: the lemmas
compute the range of a scalar for each length of sequence from the ranges of its bytes, the special
second bytes included. Then `DecodingAsRecommended` and `ComesBack`, which are about
whole texts of any length. The model decodes from the left, the recommendation (`Decoded`) is a recursive function
on the rest of the text; what the function yields for each rest is fixed by well-founded induction on the set of
positions that follow (`Tails`), and from there the invariant says that what is decoded so far, followed by what
the function makes of the rest, is what it makes of the whole (`Underway`). For the way back, the invariant
lists the places at which the pieces written by the first conversion begin (`Starts`); the lemmas say that the second one, at
such a place, finds exactly that piece and yields the units it was made from (`ReadBack`).

**UStrScanProofs**, about search and trim, for every text, pattern, start and choice of ends. Of search, the invariant adds
that no position tried so far matches, and what each outcome rests on. Of trim, it adds that what is
cut off either end so far is a run (`CutRuns`), and that an end that is done has no further piece to strip, or
no room for one (`Phases`): the right end can only take away what the left end would have had to look at.
That a run of copies extended by a copy is a run needs remainders by a length that is a variable, hence `RestIsUnique`.
Whole characters stay whole since no piece that is stripped ends in a high half or begins with a low one.

The same module has the theorems about `UStrLowering`, for any places, any set of statements, and expressions of any
length and bracketing. `LoweringKeepsItsOrder` needs no hypothesis: the calls take the terms in
order and each once, the first assigns and all others append (`InOrder`). Its invariant (`LoweringInv`) adds what the
compiler's questions establish: no append reads its destination (`Apart`), where the reads of the destination
show (`Plain`); and each is told of a narrow source (`Aware`), unless all that is appended is a narrow text.
`LoweringAppendsOtherText` assumes the first of these of the statements, `PlainStatements`. `LoweringMeansWhatItSays`
assumes it and two more: `NothingNarrowAlone`, which leaves out the statements of `narrow_append` (section 5), and
`WholeCharacters`, that no character is cut between two narrow strings. Each is needed: section 5 and the hazards say
what happens otherwise. The argument compares both sides with a third thing, the
units of the terms from one place to another put one behind the other (`Run`). What a node is worth, decoded, is the `Run` of its
terms, whatever its brackets (`NodeWorth`): here `WholeCharacters` comes in, since text decoded in two pieces is text decoded at
once only then (`DecodeJoins`). And at each moment the destination holds the `Run` of the terms taken so far, cut to what
it takes (`MeansInv`). `Eval`, `Decode` and `Operands` are recursive functions; the lemmas about them are
inductions on the number of terms or bytes (`EveryNumber`, and `Recursion` for what such a function is in the first place).

**UStrInputProofs**: `InputTypes` for any number of readers of any file, and for a single one what reading
is for. `LinesComeBack` assumes of the files only that a character behind a CR survives the
put-back buffer, which keeps one byte of it (`KeptBehindCR`, section 5); `ValuesComeBack` assumes nothing more than the
model does: values shorter than the array. Two readers of one file share its characters out, and nothing
is promised to either. What a text has for lines, and a list for its writing, are functions on what is left (`Joined`), and
lemmas by induction downwards from the end (`DownTo`) say what the first line or value contributes: `MarkedLine`,
`LastLine`, `WrittenStep`. The invariants say what is owed in each state of a call. For lines, those returned, followed by
those of the line so far and what is left of the file, are those that are due (`Owed`); for values, the one
under way is what the call holds followed by some `w`, and what is left of the file
begins with that `w` (`Ahead`). Every way memory may run out is a step of both.

Model-checked only:

* liveness: `CallsReturn`, `LoopEnds`, `StatementsEnd`. TLAPS reasons about neither fairness nor ENABLED.

## 5. Where the code and its documents disagree

Five runs are expected to find a violation, each of a property that says what a comment or the manual says;
`PROJECT.json` quotes the lines. The passing runs and the theorems take in the same inputs, and say what the code does with them.

* `narrow_append`: `u &= s`, `u += s` and `u = u + s` with a narrow `s` reach `fb_UStrConcatAssign`
  undecoded (`ast-optimize.bas` 1756), and the bytes of `s` are read as code units, against the comment at
  `ast-optimize.bas` 1581. With two or more operands behind `u` each is decoded.
* `mid_overlap`: `MID(u, 2) = u` copies overlapping units with `memcpy` (`ustr_slice.c` 156) although `fb_hUStrMove` exists for
  it (`ustr_prim.c` 79). Both outcomes of such a copy are behaviours of `Mid`, and `MidOfSelf` is all that `FieldSemantics` allows for them.
* `search_past`: `INSTRREV` with a start beyond the text searches from the end, where the manual
  (`KeyPgInstrrev.wakka` 25-29) says it returns 0.
* `trim_empty_set`: `TRIM` with `ANY` and an empty set strips blanks when the set is a var-len ustring without a buffer, and nothing when
  it is a field (`ustr_trim.c` 73), where by the manual only characters of the set go.
* `using_nul`: `fb_PrintUsingUStr` says that embedded NULs render as spaces (`io_printusg.c` 654); where the text is shorter than
  its field they are printed as they are (line 647).

Six more disagreements are inside the models. A passing property, and its theorem, states the exception and its
extent, and nothing beyond it is let through:

* A text with a NUL inside is copied into a field with all its units (`ustr_assign.c` 116), so a field is not always
  "zero-filled past its text" (`ustr_trim.c` 3). No reader looks there; `TailFilled` says that those units are never
  older than the last assignment or append.
* Such a text is cut at the NUL when it goes to a field from a narrow string
  (`ustr_conv.c` 105), where line 84 says that embedded NULs survive. Var-len destinations keep it. `UStrFields` has the text of a field end at
  its first NUL whatever it was given, as `doc/ustring.txt` says of `USTRING * N`.
* `INSTRREV` with start 0 returns 0, where the comment at `ustr_search.c` 97 says that start <= 0
  means "from the end". The manual (line 28) has it as the code does, and so has `FindsNearest`.
* `MID` with a count near the largest integer returns nothing where `start + units` wraps
  (`ustr_slice.c` 110), and the rest of the text by the manual (`KeyPgMidfunction.wakka` 24). `SliceAsPromised` and `RefusedOnOverflow` say
  that this is the only such case.
* The call for the last value of `PRINT USING` frees the format, and `fb_PrintUsingEnd` then reads on in it when a field
  is left over (`io_printusg.c` 695, 145). `PrintsAsPromised` bounds what follows: characters found there, no more than the
  format had and the buffer takes.
* A `FUNCTION` in an argument of `PRINT USING` that executes `PRINT USING` takes the context of the outer statement
  over (`io_printusg.c` 130-134), and leaves it empty. `PrintsAsPromised` says that the outer statement prints what was due up to
  there and its new line, and nothing else.

The others were met while modelling. No property is about them, or the models leave them out as said.

* Literal text of `PRINT USING` longer than the buffer in front of a field takes the field's value without printing it
  (`io_printusg.c` 596), where the manual (`KeyPgPrintusing.wakka` 18) says that output is truncated. `UStrUsing` models it; `PrintsAsPromised` is about
  formats whose literals fit.
* `SWAP` of two fields clips the longer text and pads the shorter one with spaces, also where both texts would fit
  (`ustr_misc.c` 126). `UStrFields` has it so (`Fitted`).
* `LINE INPUT #` puts the character behind a CR back by way of bytes (`ustr_fileio.c` 93, `file_putback.c` 42-46):
  of a character past ASCII the first byte is left. The instance of `input` has no such file.
* A `USTRING * N` argument of a `BYREF` parameter is copied back after the call (`ast-node-arg.bas` 651-667); the order with
  other copies back is not modelled.
* Units of a set match half of a character in the `ANY` searches and trims, where
  `ustr_search.c` 8 and `ustr_trim.c` 8 say that working by unit never lands in one. `FoundAtBoundary` and
  `KeepsCharacters` are therefore claims about the other forms only.
* The conversion of a narrow string to a field gives `FB_STRLOCK` up around the inner assignment (`ustr_conv.c` 104). `UStrThreads` has
  var-len ustrings only; the window of the other direction (line 158) is in it.

## 6. What is not modelled

* **Tables**: the contents of the case tables and of the CP437 table of `DRAW STRING`, and the
  binary search in the former (`ustr_casetable.c` 1352-1369).
* **The array runtime** around the loop that deletes the elements.
* **The console**, as a device of `PRINT` and of `INPUT`, and number fields of `PRINT USING`: FreeBASIC as it was before.
* **Comparison**: the ordering is a loop like `memcmp`; its reads, its lock and the release of temps are modelled.
* **Raw pointer destinations** (`WSTRING PTR`-like, without a capacity): the runtime
  trusts the caller.
* **`fb_UStrToWstr`**, whose result belongs to the `WSTRING` runtime.
* **The compiler** beyond assignments and the order of calls: literals, arguments, initialisers, code generation, name mangling.
* **Overflow of sizes in bytes**: `hUStrTooBig` is modelled by its bound.
* **The rest of the repository**: FreeBASIC's own compiler and runtime, built compilers for two
  systems, and about 900 vendored headers of other libraries, which declare and execute nothing.
  They are most of its lines.

## 7. Plan

Done, in this order: memory and runtime with their proof; values; growth; fields; codec;
search; trim; slice; then wide strings, threads with their proof, lowering, input, `PRINT USING`.

Then the proofs: ownership, growth, codec, search, slice, locks; then texts and the refinements, fields, trim, whole
decodings and round trips, the memory under threads, the lines and values of a file, what `PRINT USING` prints, and what
an assignment is compiled to.

With the two properties of `UStrLowering`, for which the tree became a list of terms, every safety property of a passing run
is a theorem. What would come next is more of the system: arguments and initialisers in `UStrLowering`, and the
number fields of `PRINT USING`.
