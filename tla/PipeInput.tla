----------------------------- MODULE PipeInput -----------------------------
(***************************************************************************)
(* Terminal input when stdin is a pipe or a script: the read loop at the   *)
(* end of process_stdin_events (stdin_handler.c).  One action is one turn  *)
(* of its loop: make room, read, strip, run the complete lines.            *)
(*                                                                         *)
(* Bytes: "a" text, "[" the CSI introducer, "E" ESC, "N" newline, "R"      *)
(* carriage return, "B" another control byte or DEL, "0" NUL.  The kernel  *)
(* hands the input over in pieces of any size.                             *)
(***************************************************************************)
EXTENDS Integers, Sequences, FiniteSets

CONSTANTS STDIN_BUF_INIT, STDIN_BUF_MAX, \* first and largest buffer
          Slack,                         \* room asked for before a read
          MaxFailures                    \* failed allocations and reads

VARIABLES
  input,          \* history: all the script will ever write
  taken,          \* how much of it has been read
  stdin_buf,      \* stdin_buf[0 .. stdin_len)
  stdin_cap,
  stdin_closed,
  failures,       \* allocations and reads that may still fail
  ran             \* history: lines in order, [text, run]: run or skipped

pipeVars == <<input, taken, stdin_buf, stdin_cap, stdin_closed, failures, ran>>

stdin_len == Len(stdin_buf)

Indices(s) == [i \in DOMAIN s |-> i]

\* ui_strip_ansi, then strlen: an ESC sequence goes, a control byte other than
\* TAB, LF and CR, and all from a NUL on.
\* Skip[i] is what follows byte i of s: "text", "E" after an ESC, "[" inside a
\* CSI (its parameters are not in the alphabet), "end" after a NUL.
After(state, b) ==
  CASE state = "end" \/ b = "0" -> "end"
    [] state = "text" /\ b = "E" -> "E"
    [] state = "E" /\ b = "[" -> "["
    [] OTHER -> "text"
ui_strip_ansi(s) ==
  LET Skip[i \in 0..Len(s)] == IF i = 0 THEN "text" ELSE After(Skip[i - 1], s[i])
      kept == SelectSeq(Indices(s), LAMBDA i : Skip[i - 1] = "text" /\ s[i] \notin {"E", "0", "B"})
  IN [k \in DOMAIN kept |-> s[kept[k]]]

\* The complete lines of s and the rest, without the trailing CR of a line.
Newlines(s) == SelectSeq(Indices(s), LAMBDA i : s[i] = "N")
Trimmed(l) == IF l # << >> /\ l[Len(l)] = "R" THEN SubSeq(l, 1, Len(l) - 1) ELSE l
Lines(s) ==
  LET nl == Newlines(s)
  IN [k \in DOMAIN nl |-> Trimmed(SubSeq(s, IF k = 1 THEN 1 ELSE nl[k - 1] + 1, nl[k] - 1))]
Rest(s) == IF Newlines(s) = << >> THEN s ELSE SubSeq(s, Newlines(s)[Len(Newlines(s))] + 1, Len(s))

NeedsRoom == stdin_len + Slack >= stdin_cap

\* Mutant: a full buffer is kept.
discard_nothing ==
  /\ NeedsRoom /\ stdin_cap >= STDIN_BUF_MAX
  /\ UNCHANGED pipeVars

\* The buffer is at its limit and holds no complete line: what it holds is dropped.
discard ==
  /\ NeedsRoom /\ stdin_cap >= STDIN_BUF_MAX
  /\ stdin_buf' = << >>
  /\ UNCHANGED <<input, taken, stdin_cap, stdin_closed, failures, ran>>

no_memory ==
  /\ NeedsRoom /\ stdin_cap < STDIN_BUF_MAX
  /\ failures > 0 /\ failures' = failures - 1
  /\ UNCHANGED <<input, taken, stdin_buf, stdin_cap, stdin_closed, ran>>

Doubled == IF stdin_cap = 0 THEN STDIN_BUF_INIT ELSE stdin_cap * 2
Grown == IF ~NeedsRoom THEN stdin_cap
         ELSE IF Doubled > STDIN_BUF_MAX THEN STDIN_BUF_MAX ELSE Doubled

\* read returned 0: the end of the input, or no room was asked for.
at_eof ==
  /\ ~(NeedsRoom /\ stdin_cap >= STDIN_BUF_MAX)
  /\ taken = Len(input) \/ Grown - stdin_len - 1 = 0
  /\ stdin_cap' = Grown
  /\ ran' = IF stdin_len > 0 THEN Append(ran, [text |-> stdin_buf, run |-> TRUE]) ELSE ran
  /\ stdin_buf' = << >>
  /\ stdin_closed' = TRUE
  /\ UNCHANGED <<input, taken, failures>>

\* Mutant: the rest behind the last newline is dropped.
AfterLines_drop(s) == IF Newlines(s) = << >> THEN s ELSE << >>

AfterLines(s) == Rest(s)

\* read failed, or had nothing yet: the buffer has grown, and stdin stays open.
read_error ==
  /\ ~(NeedsRoom /\ stdin_cap >= STDIN_BUF_MAX)
  /\ stdin_cap' = Grown
  /\ failures > 0 /\ failures' = failures - 1
  /\ UNCHANGED <<input, taken, stdin_buf, stdin_closed, ran>>

\* read returned n bytes.  After ui_strip_ansi the echo loop meets no backspace,
\* so the buffer keeps every byte.  The line copies may fail to be allocated; such a
\* line is skipped and the loop goes on with the next.
read_some ==
  /\ ~(NeedsRoom /\ stdin_cap >= STDIN_BUF_MAX)
  /\ stdin_cap' = Grown
  /\ \E n \in 1..(Grown - stdin_len - 1) :
       LET all == ui_strip_ansi(stdin_buf \o SubSeq(input, taken + 1, taken + n))
           new == Lines(all)
       IN /\ taken + n <= Len(input)
          /\ taken' = taken + n
          /\ stdin_buf' = AfterLines(all)
          /\ \E skipped \in SUBSET DOMAIN new :
               /\ Cardinality(skipped) <= failures
               /\ failures' = failures - Cardinality(skipped)
               /\ ran' = ran \o [k \in DOMAIN new |-> [text |-> new[k], run |-> k \notin skipped]]
  /\ UNCHANGED <<input, stdin_closed>>

read_stdin ==
  ~stdin_closed /\ (discard \/ no_memory \/ at_eof \/ read_error \/ read_some)

PipeStart(i) ==
  /\ input = i /\ taken = 0 /\ stdin_buf = << >> /\ stdin_cap = 0
  /\ stdin_closed = FALSE /\ failures = MaxFailures /\ ran = << >>

-----------------------------------------------------------------------------
Plain == \A i \in DOMAIN input : input[i] \notin {"E", "0"}
Printed == SelectSeq(input, LAMBDA b : b # "B")
Fits == \A i \in DOMAIN input : i + STDIN_BUF_MAX - Slack - 1 <= Len(input) =>
          \E j \in i..(i + STDIN_BUF_MAX - Slack - 1) : input[j] = "N"
Texts(s) == [k \in DOMAIN s |-> s[k].text]

\* However the kernel cuts the input, a script of lines that fit the buffer is
\* taken line by line without its control bytes, each line once and in order,
\* and at the end of the input the unterminated last line too (the memmove and
\* NUL bookkeeping of the loop).  A line is taken when it is run, or skipped
\* because its copy could not be allocated.
\* Whatever the script holds, stdin is taken off the loop only when it has ended:
\* the loop never asks read for no bytes, whose answer it would mistake for the end.
EachLineOnce ==
  /\ stdin_closed => taken = Len(input)
  /\ Plain /\ Fits =>
    LET whole == Lines(Printed)
        tail == Rest(Printed)
    IN /\ ~stdin_closed => Len(ran) <= Len(whole) /\ Texts(ran) = SubSeq(whole, 1, Len(ran))
       /\ stdin_closed => Texts(ran) = IF tail = << >> THEN whole ELSE Append(whole, tail)

=============================================================================
