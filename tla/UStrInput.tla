------------------------------ MODULE UStrInput ------------------------------
(***************************************************************************)
(* LINE INPUT # and INPUT # into a USTRING from a file opened with an      *)
(* ENCODING: fb_FileLineInputUStr and fb_InputUStr (ustr_fileio.c), the    *)
(* tokenizer under INPUT # (file_input_tok_wstr.c), and the file under     *)
(* both: the device, which decodes one character at a time, and the        *)
(* put-back buffer in front of it (file_get.c, file_putback.c,             *)
(* file_putback_wstr.c).  FB_LOCK covers the reading of one character and  *)
(* the putting back of one, not the line or token as a whole: a step takes *)
(* one character from the file or puts one back, never both.               *)
(*                                                                         *)
(* The program is the documented loop: until EOF(f), read an item.  A      *)
(* character is one FB_WCHAR, as where that has 32 bits.                   *)
(***************************************************************************)
EXTENDS Integers, Sequences, SequencesExt

CONSTANTS
  Reader,       \* threads that read the file
  Char,         \* characters without a meaning of their own
  CR, LF, Comma, Quote, Blank,
  Weof,         \* FB_WEOF, which is also a value an FB_WCHAR can have
  NarrowOf,     \* what is left of a character by way of a char
  PutBackRoom,  \* characters putback_buffer holds (4 bytes in the code)
  LineInit,     \* LINEBUF_INIT (256 in the code)
  MaxToken,     \* FB_INPUT_MAXSTRINGLEN (4096 in the code)
  Files,        \* contents a file may have
  Lists,        \* lists of values that one WRITE # may have written
  OutOfMemory   \* may memory run out

Mark   == {CR, LF, Comma, Quote, Blank}
Letter == Char \cup Mark
Cell   == Letter \cup {Weof}

ASSUME CharAssumption ==
  /\ CR \notin {LF, Comma, Quote, Blank} /\ LF \notin {Comma, Quote, Blank}
  /\ Comma \notin {Quote, Blank} /\ Quote # Blank
  /\ Char \cap Mark = {} /\ Weof \notin Letter /\ NarrowOf \in [Cell -> Cell]
ASSUME RoomAssumption ==
  {PutBackRoom, LineInit, MaxToken} \subseteq Nat \ {0}
ASSUME FileAssumption ==
  /\ Files \subseteq Seq(Letter)
  /\ Lists \subseteq Seq(Seq(Letter \ {CR, LF, Quote}))
  /\ \A l \in Lists : \A i \in DOMAIN l : Len(l[i]) < MaxToken
ASSUME MemoryAssumption == OutOfMemory \in BOOLEAN

VARIABLES
  rest,   \* what the device has not handed out
  back,   \* the put-back buffer
  in,     \* per reader, the call it is in
  kinds,  \* the calls this program makes
  due,    \* the lines a program that reads lines will have got
  lines,  \* lines returned
  tokens, \* tokens returned
  wrote   \* the values in the file, less those dropped

file    == << rest, back >>
results == << due, lines, tokens, wrote >>
vars    == << rest, back, in, kinds, results >>

(* A call: where it is, the tokenizer's character and whether it is inside *)
(* quotes, the line or token so far and the room for it.                   *)
Idle == [at |-> "idle", ch |-> Weof, quoted |-> FALSE, buf |-> << >>,
         cap |-> LineInit]

Is(r, place)   == in[r].at = place
Goto(r, place) == in' = [in EXCEPT ![r].at = place]

-----------------------------------------------------------------------------
(* The file *)

Unread == back \o rest
Eof    == Unread = << >>

(* fb_FileGetDataEx for one character: the put-back buffer comes first.    *)
Next1 == Head(Unread)
Take1 == IF back # << >> THEN back' = Tail(back) /\ UNCHANGED rest
                         ELSE rest' = Tail(rest) /\ UNCHANGED back

(* hReadChar of the tokenizer: FB_WEOF at the end. *)
ReadChar == IF Eof THEN Weof ELSE Next1
Advance  == IF Eof THEN UNCHANGED file ELSE Take1

(* Putting back in front.  An overflow is an error that no caller sees.    *)
PutBackWstr(b, c) == IF Len(b) < PutBackRoom THEN << c >> \o b ELSE b

(* fb_FilePutBackEx takes chars: of an FB_WCHAR it keeps the first byte.   *)
PutBack(b, c) == PutBackWstr(b, NarrowOf[c])

-----------------------------------------------------------------------------
(* The lines of a text, as the language has them: CR LF, LF and a CR alone *)
(* each end one, and the last need not be ended.                           *)

(* The pieces P[1], P[1 + K[1]] and so on, joined. *)
Joined(P, K) ==
  LET f[i \in Nat] == IF i \in DOMAIN P THEN P[i] \o f[i + K[i]] ELSE << >>
  IN  f[1]

(* Where the line of t that begins at i ends. *)
Stop(t, i) == CHOOSE j \in i .. Len(t) + 1 :
                /\ j = Len(t) + 1 \/ t[j] \in {CR, LF}
                /\ \A k \in i .. j - 1 : t[k] \notin {CR, LF}

(* Where the one behind it begins. *)
Beyond(t, j) == IF j < Len(t) /\ t[j] = CR /\ t[j + 1] = LF THEN j + 2 ELSE j + 1

LinesOf(t) ==
  Joined([i \in 1 .. Len(t) |-> << SubSeq(t, i, Stop(t, i) - 1) >>],
         [i \in 1 .. Len(t) |-> Beyond(t, Stop(t, i)) - i])

-----------------------------------------------------------------------------
(* What a call returns *)

(* For want of memory a call returns nothing, and what it read is gone:    *)
(* the lines still due are those returned and those of what is left.       *)
Drop == /\ OutOfMemory
        /\ due' = IF kinds = {"line"} THEN lines \o LinesOf(back' \o rest')
                  ELSE due

(* fb_UStrAssignFromW leaves the destination alone when it has no memory   *)
(* for its copy, and LINE INPUT reports success all the same.              *)
ReturnLine(r) ==
  /\ \/ lines' = Append(lines, in[r].buf) /\ UNCHANGED due
     \/ Drop /\ UNCHANGED lines
  /\ in' = [in EXCEPT ![r] = Idle]
  /\ UNCHANGED << kinds, tokens, wrote >>

ReturnToken(r) ==
  /\ \/ tokens' = Append(tokens, in[r].buf) /\ UNCHANGED << due, wrote >>
     \/ /\ Drop /\ UNCHANGED tokens
        /\ wrote' = IF Len(tokens) < Len(wrote)
                    THEN RemoveAt(wrote, Len(tokens) + 1) ELSE wrote
  /\ in' = [in EXCEPT ![r] = Idle]
  /\ UNCHANGED << kinds, lines >>

-----------------------------------------------------------------------------
(* LINE INPUT # *)

BeginLine(r) ==
  /\ Is(r, "idle") /\ ~ Eof /\ "line" \in kinds
  /\ in' = [in EXCEPT ![r] = [Idle EXCEPT !.at = "line"]]
  /\ UNCHANGED << file, kinds, results >>

(* Bug: the buffer grows only when it is already too small. *)
LineGrowsLate(r) ==
  /\ Is(r, "line") /\ ~ Eof /\ Next1 \notin {CR, LF}
  /\ Take1
  /\ in' = [in EXCEPT ![r].buf = Append(@, Next1),
                      ![r].cap = IF Len(in[r].buf) <= @ THEN @ ELSE 2 * @]
  /\ UNCHANGED << kinds, results >>

LineChar(r) ==
  /\ Is(r, "line") /\ ~ Eof /\ Next1 \notin {CR, LF}
  /\ Take1
  /\ in' = [in EXCEPT ![r].buf = Append(@, Next1),
                      ![r].cap = IF Len(in[r].buf) < @ THEN @ ELSE 2 * @]
  /\ UNCHANGED << kinds, results >>

(* realloc refuses: the character, the line so far and the call are gone.  *)
LineNoRoom(r) ==
  /\ Is(r, "line") /\ ~ Eof /\ Next1 \notin {CR, LF}
  /\ Len(in[r].buf) >= in[r].cap
  /\ Take1
  /\ Drop
  /\ in' = [in EXCEPT ![r] = Idle]
  /\ UNCHANGED << kinds, lines, tokens, wrote >>

LineCR(r) ==
  /\ Is(r, "line") /\ ~ Eof /\ Next1 = CR
  /\ Take1 /\ Goto(r, "afterCR")
  /\ UNCHANGED << kinds, results >>

LineEnd(r) ==
  /\ Is(r, "line")
  /\ IF Eof THEN UNCHANGED file ELSE Next1 = LF /\ Take1
  /\ ReturnLine(r)

(* Bug: the character after a CR is swallowed whatever it is. *)
SwallowAny(r) ==
  /\ Is(r, "afterCR")
  /\ Advance
  /\ ReturnLine(r)

(* The character after a CR is read, and put back unless it is LF. *)
SwallowLF(r) ==
  /\ Is(r, "afterCR")
  /\ IF Eof \/ Next1 = LF THEN Advance /\ ReturnLine(r)
     ELSE /\ Take1
          /\ in' = [in EXCEPT ![r].at = "putback", ![r].ch = Next1]
          /\ UNCHANGED << kinds, results >>

LinePutBack(r) ==
  /\ Is(r, "putback")
  /\ back' = PutBack(back, in[r].ch) /\ UNCHANGED rest
  /\ ReturnLine(r)

-----------------------------------------------------------------------------
(* INPUT #: fb_FileInputNextTokenWstr *)

BeginToken(r) ==
  /\ Is(r, "idle") /\ ~ Eof /\ "token" \in kinds
  /\ in' = [in EXCEPT ![r] = [Idle EXCEPT !.at = "skip"]]
  /\ UNCHANGED << file, kinds, results >>

(* Bug: the end of the file does not end the skipping. *)
SkipPastEnd(r) ==
  /\ Is(r, "skip")
  /\ Advance
  /\ in' = IF ReadChar \in {Blank, Weof} THEN in
           ELSE [in EXCEPT ![r].at = "token", ![r].ch = ReadChar]
  /\ UNCHANGED << kinds, results >>

(* hSkipWhiteSpc *)
SkipBlank(r) ==
  /\ Is(r, "skip")
  /\ Advance
  /\ in' = IF ReadChar = Blank THEN in
           ELSE [in EXCEPT ![r].at = "token", ![r].ch = ReadChar]
  /\ UNCHANGED << kinds, results >>

InLoop(r) == in[r].ch # Weof /\ Len(in[r].buf) < MaxToken

(* A newline, or a comma outside quotes, ends the token and is consumed.   *)
TokenEnd(r) ==
  /\ Is(r, "token") /\ InLoop(r)
  /\ in[r].ch = LF \/ (in[r].ch = Comma /\ ~ in[r].quoted)
  /\ UNCHANGED file
  /\ ReturnToken(r)

TokenCR(r) ==
  /\ Is(r, "token") /\ InLoop(r) /\ in[r].ch = CR
  /\ Goto(r, "tokenCR")
  /\ UNCHANGED << file, kinds, results >>

(* The character after a CR: whatever hReadChar answers is put back unless *)
(* it is LF, FB_WEOF included.                                             *)
AfterCR(r) ==
  /\ Is(r, "tokenCR")
  /\ IF ReadChar = LF THEN Advance /\ ReturnToken(r)
     ELSE /\ Advance
          /\ in' = [in EXCEPT ![r].at = "unread", ![r].ch = ReadChar]
          /\ UNCHANGED << kinds, results >>

Unreads(r) ==
  /\ Is(r, "unread")
  /\ back' = PutBackWstr(back, in[r].ch) /\ UNCHANGED rest
  /\ ReturnToken(r)

(* A quote opens at the start of a token and closes it inside quotes. *)
Opens(r)  == in[r].ch = Quote /\ ~ in[r].quoted /\ in[r].buf = << >>
Closes(r) == in[r].ch = Quote /\ in[r].quoted

TokenQuote(r) ==
  /\ Is(r, "token") /\ InLoop(r) /\ (Opens(r) \/ Closes(r))
  /\ Advance
  /\ in' = [in EXCEPT ![r].quoted = ~ @, ![r].ch = ReadChar,
                      ![r].at = IF Closes(r) THEN "delimiter" ELSE "token"]
  /\ UNCHANGED << kinds, results >>

TokenChar(r) ==
  /\ Is(r, "token") /\ InLoop(r)
  /\ in[r].ch \notin {CR, LF} /\ ~ Opens(r) /\ ~ Closes(r)
  /\ in[r].ch = Comma => in[r].quoted
  /\ Advance
  /\ in' = [in EXCEPT ![r].buf = Append(@, in[r].ch), ![r].ch = ReadChar]
  /\ UNCHANGED << kinds, results >>

TokenFull(r) ==
  /\ Is(r, "token") /\ ~ InLoop(r)
  /\ Goto(r, "delimiter")
  /\ UNCHANGED << file, kinds, results >>

(* Bug: the newline behind a quoted value is put back. *)
KeepsNewline(r) ==
  /\ Is(r, "delimiter") /\ in[r].ch # Blank
  /\ IF in[r].ch \in {Comma, Weof} THEN UNCHANGED file /\ ReturnToken(r)
     ELSE Goto(r, "unread") /\ UNCHANGED << file, kinds, results >>

(* hSkipDelimiter: blanks, then one comma or newline; anything else is put *)
(* back.                                                                   *)
SkipDelimiter(r) ==
  /\ Is(r, "delimiter") /\ in[r].ch # Blank
  /\ CASE in[r].ch \in {Comma, LF, Weof} -> UNCHANGED file /\ ReturnToken(r)
       [] in[r].ch = CR -> Goto(r, "tokenCR") /\ UNCHANGED << file, kinds, results >>
       [] OTHER -> Goto(r, "unread") /\ UNCHANGED << file, kinds, results >>

SkipBlankAfter(r) ==
  /\ Is(r, "delimiter") /\ in[r].ch = Blank
  /\ Advance
  /\ in' = [in EXCEPT ![r].ch = ReadChar]
  /\ UNCHANGED << kinds, results >>

-----------------------------------------------------------------------------

(* What WRITE # puts into a file: each value quoted, then a comma, or the  *)
(* newline after the last (fb_WriteWstr).                                  *)
Quoted(v, mark) == << Quote >> \o v \o << Quote, mark >>
Written(list) ==
  Joined([i \in 1 .. Len(list) |->
            Quoted(list[i], IF i = Len(list) THEN LF ELSE Comma)],
         [i \in 1 .. Len(list) |-> 1])

Init ==
  /\ \/ kinds \in {{"line"}, {"line", "token"}} /\ rest \in Files /\ wrote = << >>
     \/ kinds = {"token"} /\ wrote \in Lists /\ rest = Written(wrote)
  /\ due = (IF kinds = {"line"} THEN LinesOf(rest) ELSE << >>)
  /\ back = << >>
  /\ in = [r \in Reader |-> Idle]
  /\ lines = << >> /\ tokens = << >>

Step(r) ==
  \/ BeginLine(r) \/ LineChar(r) \/ LineNoRoom(r) \/ LineCR(r) \/ LineEnd(r)
  \/ SwallowLF(r) \/ LinePutBack(r)
  \/ BeginToken(r) \/ SkipBlank(r) \/ TokenEnd(r) \/ TokenCR(r) \/ AfterCR(r)
  \/ Unreads(r) \/ TokenQuote(r) \/ TokenChar(r) \/ TokenFull(r)
  \/ SkipDelimiter(r) \/ SkipBlankAfter(r)

Next == \E r \in Reader : Step(r)

(* The reading program runs on. *)
Spec == Init /\ [][Next]_vars /\ \A r \in Reader : WF_vars(Step(r))

-----------------------------------------------------------------------------
(* What reading is for *)

Quiet == \A r \in Reader : Is(r, "idle")

(* Every field holds a value of its type: what was read fits the buffer    *)
(* that grows under a line, and the array that does not under a token.     *)
TypeOK ==
  /\ rest \in Seq(Letter)
  /\ back \in Seq(Cell) /\ Len(back) <= PutBackRoom
  /\ \A r \in Reader :
       /\ in[r].ch \in Cell /\ in[r].buf \in Seq(Cell)
       /\ Len(in[r].buf) <= IF in[r].at \in {"line", "afterCR", "putback"}
                            THEN in[r].cap ELSE MaxToken

(* A program that reads lines gets the lines of the file, in their order   *)
(* and whole, however they end: what was returned and what is left make up *)
(* the file, less exactly what a call read that reported or hid a want of  *)
(* memory.                                                                 *)
LinesOfTheFile ==
  kinds = {"line"} /\ Quiet => lines \o LinesOf(Unread) = due

(* What WRITE # wrote INPUT # reads back, value by value, with the commas  *)
(* and blanks inside them, and the file is then at its end.                *)
ReadsBack ==
  kinds = {"token"} /\ Quiet =>
    /\ tokens = SubSeq(wrote, 1, Len(tokens))
    /\ Unread = Written(SubSeq(wrote, Len(tokens) + 1, Len(wrote)))

(* The loop until EOF(f) ends, whatever the file and the mix of calls.     *)
LoopEnds == <>[](Eof /\ Quiet)

=============================================================================
