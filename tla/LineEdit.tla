------------------------------ MODULE LineEdit ------------------------------
(***************************************************************************)
(* Terminal input in TTY mode: linenoise's multiplexed line editor         *)
(* (linenoise.c) and the way stdin_handler.c drives it.  One action is one *)
(* linenoiseEditFeed, i.e. one key, one escape sequence or one bracketed   *)
(* paste.                                                                  *)
(*                                                                         *)
(* The buffer is a sequence of code points: "a" a letter, " " a space, "m" *)
(* a code point that extends the one before it (combining mark, variation  *)
(* selector, skin tone), "z" the zero-width joiner, "i" a regional         *)
(* indicator, "n" a newline, "0" a NUL.  Only a paste can bring "n" and    *)
(* "0": typed control characters are dropped.  A fold is a range [s, e) of *)
(* the buffer that the renderer shows as "[... pasted ...]"; the history   *)
(* field text is what was pasted there.  Positions are the offsets of the  *)
(* code, from 0.                                                           *)
(***************************************************************************)
EXTENDS Integers, Sequences, FiniteSets

CONSTANTS NOX_EDIT_CAP,         \* room of the edit buffer
          LINENOISE_MAX_FOLDS,  \* fold slots
          PASTE_FOLD_THRESHOLD, \* a one-line paste this long is folded too
          Pastes                \* what arrives between the paste markers

VARIABLES
  buf, pos, folds,  \* linenoiseState
  marked,           \* history: a joining code point entered this line
  ln_active,        \* stdin is driven by linenoise
  rawmode, saved,   \* linenoise's rawmode flag and orig_termios
  term,             \* what the terminal really is: "cooked" (the user's mode), "main"
                    \* (setup_terminal's) or "raw" (linenoise's)
  unrestored,       \* history: the last tcsetattr that should give a mode back failed
  running           \* "starting", "yes", "no" (the loop is to stop) or "exited"

editing == <<buf, pos, folds, marked>>
modes == <<rawmode, saved, term, unrestored>>
session == <<ln_active, modes, running>>
editVars == <<editing, session>>

\* isGraphemeExtend; and the code points that may share a cluster with another.
Extends(c) == c \in {"m", "z"}
Joins(c) == Extends(c) \/ c = "i"

\* The cluster that ends at p.  From[q]: where it begins, once the code points
\* behind q are known to be part of it.  A joiner takes what is before it, an
\* extending code point what it extends, an indicator the one before it.
utf8PrevCharLen(p) ==
  LET From[q \in 0..(p - 1)] ==
        IF q = 0 THEN 0
        ELSE IF buf[q] = "z" THEN (IF q = 1 THEN 0 ELSE From[q - 2])
        ELSE IF Extends(buf[q + 1]) THEN From[q - 1]
        ELSE IF buf[q + 1] = "i" /\ buf[q] = "i" THEN q - 1 ELSE q
  IN IF p = 0 THEN 0 ELSE p - From[p - 1]

\* The cluster that begins at p.  To[q, ri]: where it ends, once it reaches q;
\* ri: a second indicator may still join the first.
utf8NextCharLen(p) ==
  LET To[q \in (p + 1)..Len(buf), ri \in BOOLEAN] ==
        IF q = Len(buf) THEN q
        ELSE IF buf[q + 1] = "z" /\ q + 1 < Len(buf) THEN To[q + 2, ri]
        ELSE IF Extends(buf[q + 1]) THEN To[q + 1, ri]
        ELSE IF ri /\ buf[q + 1] = "i" THEN To[q + 1, FALSE] ELSE q
  IN IF p >= Len(buf) THEN 0 ELSE To[p + 1, buf[p + 1] = "i"] - p

\* linenoiseGetRenderFolds: the folds the renderer and the cursor honour.
RenderFolds == SelectSeq(folds, LAMBDA f : f.s < f.e /\ f.e <= Len(buf))

\* The length of the step from p over a whole fold when one begins or ends there.
linenoiseEditNextLen(p) ==
  IF \E i \in DOMAIN RenderFolds : RenderFolds[i].s = p
  THEN LET f == SelectSeq(RenderFolds, LAMBDA g : g.s = p)[1] IN f.e - f.s
  ELSE utf8NextCharLen(p)
linenoiseEditPrevLen(p) ==
  IF \E i \in DOMAIN RenderFolds : RenderFolds[i].e = p
  THEN LET f == SelectSeq(RenderFolds, LAMBDA g : g.e = p)[1] IN f.e - f.s
  ELSE utf8PrevCharLen(p)

Moved(f, by) == [f EXCEPT !.s = f.s + by, !.e = f.e + by]

\* linenoiseFoldAdd: kept sorted by start; nothing happens when the slots are used.
linenoiseFoldAdd(fs, s, e, text) ==
  IF s >= e \/ Len(fs) = LINENOISE_MAX_FOLDS THEN fs
  ELSE LET j == Len(SelectSeq(fs, LAMBDA f : f.s <= s))
       IN SubSeq(fs, 1, j) \o <<[s |-> s, e |-> e, text |-> text]>> \o SubSeq(fs, j + 1, Len(fs))

\* Mutant: a fold that starts at the cursor does not move.
linenoiseAdjustFoldsAfterInsert_strict(fs, p, n) ==
  LET kept == SelectSeq(fs, LAMBDA f : p < f.s \/ p >= f.e \/ p = f.s)
  IN [i \in DOMAIN kept |-> IF p < kept[i].s THEN Moved(kept[i], n) ELSE kept[i]]

\* A fold at or after the insertion moves, one the insertion lands in goes.
linenoiseAdjustFoldsAfterInsert(fs, p, n) ==
  LET kept == SelectSeq(fs, LAMBDA f : p <= f.s \/ p >= f.e)
  IN [i \in DOMAIN kept |-> IF p <= kept[i].s THEN Moved(kept[i], n) ELSE kept[i]]

\* A fold after the deletion moves, one the deletion touches goes.
linenoiseAdjustFoldsAfterDelete(fs, p, n) ==
  LET kept == SelectSeq(fs, LAMBDA f : p + n <= f.s \/ p >= f.e)
  IN [i \in DOMAIN kept |-> IF p + n <= kept[i].s THEN Moved(kept[i], -n) ELSE kept[i]]

linenoiseRangeOverlapsFold(p, n) ==
  \E i \in DOMAIN folds : p + n > folds[i].s /\ p < folds[i].e

\* linenoiseEditInsertNoRefresh: all of text at the cursor, or nothing when
\* the fixed buffer (buflen_max = 0) has no room.
Room == NOX_EDIT_CAP - Len(buf)
InsertNoRefresh(text) ==
  /\ buf' = SubSeq(buf, 1, pos) \o text \o SubSeq(buf, pos + 1, Len(buf))
  /\ pos' = pos + Len(text)
  /\ marked' = (marked \/ \E i \in DOMAIN text : Joins(text[i]))
linenoiseEditInsert(text) ==
  \/ /\ Len(text) <= Room
     /\ InsertNoRefresh(text)
     /\ folds' = linenoiseAdjustFoldsAfterInsert(folds, pos, Len(text))
  \/ Len(text) > Room /\ UNCHANGED editing

\* Bytes [p, p + n) leave the buffer and the cursor goes to p.
Cut(p, n) ==
  /\ buf' = SubSeq(buf, 1, p) \o SubSeq(buf, p + n + 1, Len(buf))
  /\ folds' = linenoiseAdjustFoldsAfterDelete(folds, p, n)
  /\ pos' = p
  /\ UNCHANGED marked

Goto(p) == pos' = p /\ UNCHANGED <<buf, folds, marked>>

linenoiseEditMoveLeft == pos > 0 /\ Goto(pos - linenoiseEditPrevLen(pos))
linenoiseEditMoveRight == pos # Len(buf) /\ Goto(pos + linenoiseEditNextLen(pos))
linenoiseEditMoveHome == pos # 0 /\ Goto(0)
linenoiseEditMoveEnd == pos # Len(buf) /\ Goto(Len(buf))
linenoiseEditDelete == pos < Len(buf) /\ Cut(pos, linenoiseEditNextLen(pos))
linenoiseEditBackspace ==
  pos > 0 /\ LET n == linenoiseEditPrevLen(pos) IN Cut(pos - n, n)

\* Back over spaces, then over what is not a space, one cursor step at a time.
linenoiseEditDeletePrevWord ==
  LET Spaces[p \in 0..Len(buf)] ==
        IF p > 0 /\ buf[p] = " " THEN Spaces[p - linenoiseEditPrevLen(p)] ELSE p
      Word[p \in 0..Len(buf)] ==
        IF p > 0 /\ buf[p] # " " THEN Word[p - linenoiseEditPrevLen(p)] ELSE p
      start == Word[Spaces[pos]]
  IN pos > 0 /\ Cut(start, pos - start)

\* Ctrl-T: the clusters around the cursor change places, unless a fold is one of them.
Transpose ==
  LET prev == linenoiseEditPrevLen(pos)
      curr == linenoiseEditNextLen(pos)
      from == pos - prev
  IN /\ pos > 0 /\ pos < Len(buf)
     /\ ~linenoiseRangeOverlapsFold(from, prev + curr)
     /\ buf' = SubSeq(buf, 1, from) \o SubSeq(buf, pos + 1, pos + curr)
                 \o SubSeq(buf, from + 1, pos) \o SubSeq(buf, pos + curr + 1, Len(buf))
     /\ pos' = pos + curr
     /\ UNCHANGED <<folds, marked>>

KillLine == buf' = << >> /\ pos' = 0 /\ folds' = << >> /\ UNCHANGED marked
KillToEnd == Cut(pos, Len(buf) - pos)

\* CR and CRLF of a paste become one newline.
Normalised(t) ==
  LET heads == SelectSeq([i \in DOMAIN t |-> i], LAMBDA i : ~(i > 1 /\ t[i] = "n" /\ t[i - 1] = "r"))
  IN [k \in DOMAIN heads |-> IF t[heads[k]] = "r" THEN "n" ELSE t[heads[k]]]

shouldFoldText(t) == (\E i \in DOMAIN t : t[i] = "n") \/ Len(t) >= PASTE_FOLD_THRESHOLD

\* Mutant: the fold slots are not counted.
PasteRoom_any_slot == Room

\* maxlen: nothing is stored once every fold slot is used.
PasteRoom == IF Len(folds) = LINENOISE_MAX_FOLDS THEN 0 ELSE Room

\* raw is what was read before the end marker, EOF, or 250 ms of silence.
linenoiseEditPaste ==
  \E raw \in Pastes :
    LET text == Normalised(raw)
        moved == linenoiseAdjustFoldsAfterInsert(folds, pos, Len(text))
    IN /\ raw # << >> /\ Len(raw) <= PasteRoom
       /\ InsertNoRefresh(text)
       /\ folds' = IF shouldFoldText(text)
                   THEN linenoiseFoldAdd(moved, pos, pos + Len(text), text) ELSE moved

-----------------------------------------------------------------------------
\* The session around the editor.

\* Mutant: the mode is saved again when it is already raw.
enableRawMode_again ==
  rawmode' = TRUE /\ saved' = term /\ term' = "raw" /\ UNCHANGED unrestored

\* A terminal that is already raw is left alone, and so is orig_termios.
enableRawMode ==
  rawmode' = TRUE /\ saved' = (IF rawmode THEN saved ELSE term) /\ term' = "raw" /\ UNCHANGED unrestored

\* The flag is cleared although tcsetattr failed.
disableRawMode ==
  /\ rawmode' = FALSE /\ UNCHANGED saved
  /\ \/ term' = (IF rawmode THEN saved ELSE term) /\ unrestored' = FALSE
     \/ rawmode /\ UNCHANGED term /\ unrestored' = TRUE

Fresh == buf' = << >> /\ pos' = 0 /\ folds' = << >> /\ marked' = FALSE

\* ln_edit_init: on a terminal only.  Without memory, or when EditStart cannot
\* write the prompt, which is after it has put raw mode on, stdin is read the
\* way a pipe is.
ln_edit_init ==
  /\ Fresh
  /\ \/ enableRawMode /\ ln_active' \in BOOLEAN
     \/ UNCHANGED <<ln_active, modes>>

\* ln_edit_deinit of an active editor; of another it leaves the terminal alone.
ln_edit_deinit == disableRawMode /\ ln_active' = FALSE

\* The line has ended and the buffer is wiped: the editor starts again, and if
\* that fails it is given up.
EditStart ==
  /\ Fresh
  /\ \/ enableRawMode /\ UNCHANGED ln_active
     \/ ln_edit_deinit
  /\ UNCHANGED running

\* process_line runs the line, or /quit, which a pending trust question refuses.
EnterOrCtrlC ==
  \/ Fresh /\ running' = "no" /\ UNCHANGED <<ln_active, modes>>
  \/ EditStart
CtrlDOnEmpty == buf = << >> /\ EditStart

EditKey ==
  \/ \E c \in {"a", " ", "m", "z", "i"} : linenoiseEditInsert(<<c>>)
  \/ linenoiseEditMoveLeft \/ linenoiseEditMoveRight
  \/ linenoiseEditMoveHome \/ linenoiseEditMoveEnd
  \/ linenoiseEditDelete \/ linenoiseEditBackspace
  \/ linenoiseEditDeletePrevWord \/ Transpose
  \/ KillLine \/ KillToEnd \/ linenoiseEditPaste

linenoiseEditFeed ==
  /\ ln_active
  /\ \/ EditKey /\ UNCHANGED session
     \/ EnterOrCtrlC \/ CtrlDOnEmpty

\* cleanup: ln_edit_deinit, and at the end restore_terminal, which ignores a
\* tcsetattr that fails.  _exit skips the at-exit handlers.
edit_cleanup ==
  /\ Fresh
  /\ ln_active' = FALSE /\ rawmode' = (rawmode /\ ~ln_active) /\ UNCHANGED saved
  /\ \/ term' = "cooked" /\ unrestored' = FALSE
     \/ term # "cooked" /\ term' \in {term} \cup (IF ln_active THEN {saved} ELSE {}) /\ unrestored' = TRUE

EditIdle ==
  /\ buf = << >> /\ pos = 0 /\ folds = << >> /\ marked = FALSE
  /\ ln_active = FALSE /\ rawmode = FALSE /\ saved = "none" /\ unrestored = FALSE

-----------------------------------------------------------------------------
\* Every fold still shows what was pasted there: folds are in order, do not
\* overlap, lie inside the buffer and cover exactly the bytes of their paste,
\* whatever was typed, deleted or swapped around them
\* (linenoiseAdjustFoldsAfterInsert and AfterDelete).
FoldsIntact ==
  /\ Len(folds) <= LINENOISE_MAX_FOLDS
  /\ \A i \in DOMAIN folds :
       /\ 0 <= folds[i].s /\ folds[i].s < folds[i].e /\ folds[i].e <= Len(buf)
       /\ SubSeq(buf, folds[i].s + 1, folds[i].e) = folds[i].text
  /\ \A i \in 1..(Len(folds) - 1) : folds[i].e <= folds[i + 1].s

\* A pasted newline is always under a fold, so the renderer never writes one to
\* the terminal, and the cursor never stands inside a fold, as long as no code
\* point of the line joins another into one cluster (utf8NextCharLen,
\* utf8PrevCharLen).  A cluster that reaches into a fold is moved over and cut
\* as a whole, and takes part of the fold with it.
NewlinesHidden ==
  marked \/
    /\ \A k \in DOMAIN buf :
         buf[k] = "n" => \E i \in DOMAIN folds : folds[i].s < k /\ k <= folds[i].e
    /\ \A i \in DOMAIN folds : pos <= folds[i].s \/ pos >= folds[i].e

\* Whenever linenoise counts the terminal as given back, it is, unless the
\* tcsetattr that should have done it failed (disableRawMode clears the flag
\* then too): an editor that is given up after any number of lines leaves
\* main()'s mode, in which Enter ends a line, to the loop that reads stdin
\* instead.  At the exit the user has their own mode back unless
\* restore_terminal's own tcsetattr failed, whatever failed before it
\* (enableRawMode must not save the raw settings as the original ones).
TerminalGivenBack ==
  ~unrestored =>
    /\ ~rawmode => term # "raw"
    /\ running = "exited" => term = "cooked"
=============================================================================
