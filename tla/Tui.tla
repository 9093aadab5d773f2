-------------------------------- MODULE Tui --------------------------------
(***************************************************************************)
(* The termbox interface (tui.c, fe_tui.c): the input line, the contact    *)
(* list with its selection, and the scrollback.  One action is one key,    *)
(* one event the program reports, or one change of the terminal size.      *)
(*                                                                         *)
(* The input line is bytes: "a" a one-byte character, "L" and "c" the lead *)
(* and continuation byte of a two-byte one.  A scrollback entry is a heap  *)
(* pointer (0 is NULL).  The contact panel keeps a row until a drawing     *)
(* paints over it or tb_clear empties it.                                  *)
(***************************************************************************)
EXTENDS Integers, Sequences, FiniteSets, Functions

CONSTANTS InputCap,             \* sizeof(input_buf) - 1
          TUI_CHAT_SCROLLBACK, TUI_MAX_CONTACTS,
          Onions,               \* addresses a contact may have
          Page,                 \* lines PgUp and PgDn move
          Heights,              \* lines of the terminal
          TUI_INPUT_HEIGHT, MinChat, \* of the input panel, and at least of the chat panel
          MaxRows               \* rows one wrapped message takes

ASSUME TuiAssumption ==
  /\ InputCap \in Nat \ {0} /\ TUI_CHAT_SCROLLBACK \in Nat \ {0}
  /\ TUI_MAX_CONTACTS \in Nat /\ Page \in Nat /\ MaxRows \in Nat
  /\ Heights \subseteq Nat /\ TUI_INPUT_HEIGHT \in Nat /\ MinChat \in Nat /\ MinChat >= 2

VARIABLES
  active,                        \* g_tui.active
  input_buf, input_cursor,       \* input_len is Len(input_buf)
  focus, contacts, selected_idx,
  chat_lines, chat_line_count, chat_scroll_offset, rows,
  heap,                          \* scrollback strings not yet freed
  freed_twice,                   \* history: free() of what is not allocated
  book, peer,                    \* contacts in the database; active peer or NoOne
  highlighted                    \* rows of the contact panel that are lit, with what they show

typed == <<input_buf, input_cursor>>
sidebar == <<focus, contacts, selected_idx>>
chat == <<chat_lines, chat_line_count, chat_scroll_offset, heap, freed_twice>>
world == <<book, peer, rows>>
tuiVars == <<active, typed, sidebar, chat, world, highlighted>>

NoOne == "none"
Plus == "plus"    \* the row below the contacts
contact_count == Len(contacts)
input_len == Len(input_buf)
Pointers == 1..(TUI_CHAT_SCROLLBACK + 1)

-----------------------------------------------------------------------------
\* Drawing.

\* tui_load_contacts: the database's contacts, then the active peer if absent.
\* The list db_list_contacts gives may break off after n of them; in ghost mode
\* it is not asked.
Listed == 0..(IF Len(book) < TUI_MAX_CONTACTS THEN Len(book) ELSE TUI_MAX_CONTACTS)
Loaded(n) ==
  LET listed == SubSeq(book, 1, n)
  IN IF peer # NoOne /\ peer \notin Range(listed) /\ Len(listed) < TUI_MAX_CONTACTS
     THEN Append(listed, peer) ELSE listed

\* What Enter in the panel takes, for list c and selection i.
EnterTakes(c, i) == IF i < Len(c) THEN c[i + 1] ELSE Plus

\* The panel of a terminal of r lines: a row per contact, a rule, "+ /connect";
\* what is past its edge is not painted.
content_h(r) == r - 2
PlusRow(c) == IF c = << >> THEN 0 ELSE Len(c) + 1
SelectedRow(c, i) == IF i < Len(c) THEN i ELSE PlusRow(c)
OnPanel(c, i, r) == i <= Len(c) /\ SelectedRow(c, i) < content_h(r)
Lit(c, f, i, r) ==
  IF f = "sidebar" /\ OnPanel(c, i, r) THEN {<<SelectedRow(c, i), EnterTakes(c, i)>>} ELSE {}

\* Mutant: the panel is not drawn again.
tui_draw_sidebar_kept(old) == UNCHANGED <<contacts, highlighted>>

\* old: the lit rows before; those below the new list stay.
tui_draw_sidebar(old) ==
  /\ \E n \in Listed : contacts' = Loaded(n)
  /\ highlighted' = Lit(contacts', focus', selected_idx', rows') \cup {x \in old : x[1] > PlusRow(contacts')}

\* tui_draw_chat scrolls no further back than the oldest line.
ChatHeight(r) == (IF r - TUI_INPUT_HEIGHT < MinChat THEN MinChat ELSE r - TUI_INPUT_HEIGHT) - 2
Clamped(offset, count, h) ==
  LET most == IF count > h THEN count - h ELSE 0
  IN IF offset > most THEN most ELSE offset

tui_draw_chat(offset, count, r) == chat_scroll_offset' = Clamped(offset, count, ChatHeight(r))

\* The tail of tui_handle_input for a key that returns no line: no tb_clear.
Redrawn == UNCHANGED <<active, world>> /\ tui_draw_sidebar(highlighted)

-----------------------------------------------------------------------------
\* Keys (tui_handle_input).

switch_focus ==
  /\ focus' = IF focus = "input" THEN "sidebar" ELSE "input"
  /\ UNCHANGED <<typed, selected_idx, chat>> /\ Redrawn

Scrolled(offset) ==
  /\ tui_draw_chat(offset, chat_line_count, rows)
  /\ UNCHANGED <<typed, focus, selected_idx, chat_lines, chat_line_count, heap, freed_twice>>
  /\ Redrawn

NotBelowZero(n) == IF n < 0 THEN 0 ELSE n
page_up == Scrolled(chat_scroll_offset + Page)
page_down == Scrolled(NotBelowZero(chat_scroll_offset - Page))

Selects(i) ==
  /\ selected_idx' = i
  /\ UNCHANGED <<typed, focus, chat>> /\ Redrawn
arrow_up ==
  \/ focus = "sidebar" /\ Selects(IF selected_idx > 0 THEN selected_idx - 1 ELSE contact_count)
  \/ focus = "input" /\ Scrolled(chat_scroll_offset + 1)
arrow_down ==
  \/ focus = "sidebar" /\ Selects(IF selected_idx < contact_count THEN selected_idx + 1 ELSE 0)
  \/ focus = "input" /\ Scrolled(NotBelowZero(chat_scroll_offset - 1))

\* Left and right move by one byte; they also change the focus.
CursorTo(p) ==
  /\ focus = "input" /\ input_cursor' = p
  /\ UNCHANGED <<input_buf, focus, selected_idx, chat>> /\ Redrawn
arrow_left ==
  \/ input_cursor > 0 /\ CursorTo(input_cursor - 1)
  \/ focus = "input" /\ input_cursor = 0 /\ switch_focus
arrow_right ==
  \/ input_cursor < input_len /\ CursorTo(input_cursor + 1)
  \/ focus = "sidebar" /\ switch_focus
home_or_end == CursorTo(0) \/ CursorTo(input_len)

\* utf8_char_bytes: the lead byte says two, a stray continuation byte says two
\* as well, but never past the end.
utf8_char_bytes(p) ==
  IF input_buf[p + 1] = "a" \/ p + 2 > input_len THEN 1 ELSE 2
utf8_prev_char_bytes(p) ==
  CHOOSE n \in 1..p :
    /\ \A k \in 1..(n - 1) : input_buf[p - k + 1] = "c"
    /\ n = p \/ input_buf[p - n + 1] # "c"

Removed(p, n) ==
  /\ input_buf' = SubSeq(input_buf, 1, p) \o SubSeq(input_buf, p + n + 1, input_len)
  /\ UNCHANGED <<focus, selected_idx, chat>> /\ Redrawn
backspace ==
  /\ focus = "input" /\ input_cursor > 0 /\ input_len > 0
  /\ LET n == utf8_prev_char_bytes(input_cursor)
     IN Removed(input_cursor - n, n) /\ input_cursor' = input_cursor - n
delete ==
  /\ focus = "input" /\ input_cursor < input_len
  /\ Removed(input_cursor, utf8_char_bytes(input_cursor))
  /\ UNCHANGED input_cursor

insert ==
  /\ focus = "input"
  /\ \E bytes \in {<<"a">>, <<"L", "c">>} :
       /\ input_len + Len(bytes) <= InputCap
       /\ input_buf' = SubSeq(input_buf, 1, input_cursor) \o bytes
                         \o SubSeq(input_buf, input_cursor + 1, input_len)
       /\ input_cursor' = input_cursor + Len(bytes)
  /\ UNCHANGED <<focus, selected_idx, chat>> /\ Redrawn

Live == {chat_lines[i] : i \in 1..chat_line_count} \ {0}

\* What a command prints next is an append of its own.
EmptyInput == input_buf' = << >> /\ input_cursor' = 0

\* Enter on a contact frees the scrollback and hands "/connect <onion>" to
\* process_line; the input line is wiped after it ran.
enter_contact ==
  /\ focus = "sidebar" /\ selected_idx < contact_count
  /\ heap' = heap \ Live
  /\ freed_twice' = (freed_twice \/ ~(Live \subseteq heap))
  /\ chat_lines' = [i \in DOMAIN chat_lines |-> IF i <= chat_line_count THEN 0 ELSE chat_lines[i]]
  /\ chat_line_count' = 0 /\ chat_scroll_offset' = 0
  /\ EmptyInput
  /\ focus' = "input"
  /\ UNCHANGED <<active, contacts, selected_idx, world, highlighted>>

\* Enter below the contacts writes "/connect " into the input line.
enter_plus ==
  /\ focus = "sidebar" /\ selected_idx >= contact_count
  /\ input_buf' = <<"a">> /\ input_cursor' = 1
  /\ focus' = "input"
  /\ UNCHANGED <<selected_idx, chat>> /\ Redrawn

\* Enter hands a non-empty input line to process_line.
enter_line ==
  /\ focus = "input" /\ input_len > 0
  /\ EmptyInput
  /\ chat_scroll_offset' = 0
  /\ UNCHANGED <<active, sidebar, chat_lines, chat_line_count, heap, freed_twice, world, highlighted>>

\* A key without a meaning where the focus is only redraws.
other_key == UNCHANGED <<typed, focus, selected_idx, chat>> /\ Redrawn

TuiKey ==
  \/ switch_focus \/ page_up \/ page_down \/ arrow_up \/ arrow_down
  \/ arrow_left \/ arrow_right \/ home_or_end \/ backspace \/ delete \/ insert
  \/ enter_contact \/ enter_plus \/ enter_line \/ other_key

-----------------------------------------------------------------------------
\* Output.

\* Mutant: a failed strdup leaves the old pointer in the row.
Stored_if_any(lines, i, p) == IF p = 0 THEN lines ELSE [lines EXCEPT ![i] = p]

\* chat_lines[i] takes strdup's answer, NULL included.
Stored(lines, i, p) == [lines EXCEPT ![i] = p]

\* One row into the scrollback: the oldest goes when it is full; strdup may fail.
\* c is [lines, count, heap, twice].
PushRow(c, p) ==
  LET full == c.count >= TUI_CHAT_SCROLLBACK
      moved == IF full THEN [i \in DOMAIN c.lines |-> IF i < TUI_CHAT_SCROLLBACK THEN c.lines[i + 1] ELSE c.lines[i]]
               ELSE c.lines
      n == IF full THEN TUI_CHAT_SCROLLBACK - 1 ELSE c.count
      h == IF full THEN c.heap \ {c.lines[1]} ELSE c.heap
      twice == c.twice \/ (full /\ c.lines[1] \notin c.heap \cup {0})
  IN [lines |-> Stored(moved, n + 1, p),
      count |-> IF p = 0 THEN n ELSE n + 1,
      heap |-> IF p = 0 THEN h ELSE h \cup {p}, twice |-> twice]

NewPointer(c) ==
  CHOOSE p \in Pointers : p \notin IF c.count >= TUI_CHAT_SCROLLBACK THEN c.heap \ {c.lines[1]} ELSE c.heap
Chat == [lines |-> chat_lines, count |-> chat_line_count, heap |-> heap, twice |-> freed_twice]

\* n rows of a message, the last allocation failing when ok is FALSE.
Appended(n, ok) ==
  LET After[r \in 0..n] ==
        IF r = 0 THEN Chat
        ELSE LET c == After[r - 1] IN PushRow(c, IF r = n /\ ~ok THEN 0 ELSE NewPointer(c))
  IN After[n]

\* tui_chat_append: a message that is wrapped, into one row or several, also
\* scrolls to the end, unless an allocation failed.
ChatAppended(n, ok) ==
  LET c == Appended(n, ok)
  IN chat_lines' = c.lines /\ chat_line_count' = c.count /\ heap' = c.heap /\ freed_twice' = c.twice
AfterAppend(wrapped, ok) == IF wrapped /\ ok THEN 0 ELSE chat_scroll_offset

\* tb_clear, then all panels.
tui_refresh_all(offset, count, r) ==
  /\ UNCHANGED <<active, typed, focus, selected_idx>>
  /\ tui_draw_chat(offset, count, r) /\ tui_draw_sidebar({})

\* fe_tui_emit: append, then redraw all of it.  A progress event only redraws.
fe_tui_emit ==
  \E n \in 0..MaxRows, ok, wrapped \in BOOLEAN :
    /\ n = 0 => ok /\ ~wrapped
    /\ n > 1 => wrapped
    /\ UNCHANGED world
    /\ ChatAppended(n, ok)
    /\ tui_refresh_all(AfterAppend(wrapped, ok), chat_line_count', rows)

\* log.c appends without redrawing.
log_line ==
  \E n \in 1..MaxRows, ok, wrapped \in BOOLEAN :
    /\ n > 1 => wrapped
    /\ ChatAppended(n, ok)
    /\ chat_scroll_offset' = AfterAppend(wrapped, ok)
    /\ UNCHANGED <<active, typed, sidebar, world, highlighted>>

\* The terminal changed size: tui_resize, tui_refresh_all.
resized ==
  /\ rows' \in Heights
  /\ UNCHANGED <<book, peer, chat_lines, chat_line_count, heap, freed_twice>>
  /\ tui_refresh_all(chat_scroll_offset, chat_line_count, rows')

\* Elsewhere in the program: a contact is added, or stored again, which puts
\* it last; the active peer changes.  Nothing is drawn by it.
contacts_change ==
  /\ \/ \E o \in Onions \ Range(book) : book' = Append(book, o) /\ UNCHANGED peer
     \/ \E i \in DOMAIN book :
          book' = SubSeq(book, 1, i - 1) \o SubSeq(book, i + 1, Len(book)) \o <<book[i]>> /\ UNCHANGED peer
     \/ peer' \in Onions \cup {NoOne} /\ UNCHANGED book
  /\ UNCHANGED <<active, typed, sidebar, chat, rows, highlighted>>

tui_shutdown ==
  /\ active /\ active' = FALSE
  /\ heap' = heap \ Range(chat_lines)
  /\ freed_twice' = (freed_twice \/ ~(Range(chat_lines) \ {0} \subseteq heap)
                       \/ \E i, j \in DOMAIN chat_lines : i # j /\ chat_lines[i] # 0 /\ chat_lines[i] = chat_lines[j])
  /\ chat_lines' = [i \in DOMAIN chat_lines |-> 0]
  /\ UNCHANGED <<typed, sidebar, chat_line_count, chat_scroll_offset, world, highlighted>>

TuiIdle ==
  /\ active = FALSE
  /\ input_buf = << >> /\ input_cursor = 0
  /\ focus = "input" /\ contacts = << >> /\ selected_idx = 0
  /\ chat_lines = [i \in 1..TUI_CHAT_SCROLLBACK |-> 0] /\ chat_line_count = 0
  /\ chat_scroll_offset = 0 /\ rows \in Heights /\ \A h \in Heights : h <= rows
  /\ heap = {} /\ freed_twice = FALSE
  /\ book = << >> /\ peer = NoOne /\ highlighted = {}

TuiStep == TuiKey \/ fe_tui_emit \/ log_line \/ resized \/ contacts_change

-----------------------------------------------------------------------------
\* Indices stay inside their arrays: the cursor whatever bytes a cursor that
\* moves by single bytes leaves behind (utf8_char_bytes, utf8_prev_char_bytes),
\* the scroll offset, the contact list.  Every string of the scrollback is owned
\* by one entry and none is lost or freed twice, although the array is shifted
\* when it is full, strdup may fail, Enter on a contact empties it and
\* tui_shutdown frees all entries.
LinesOwnedOnce ==
  /\ input_len <= InputCap /\ input_cursor \in 0..input_len
  /\ contact_count <= TUI_MAX_CONTACTS /\ selected_idx \in 0..TUI_MAX_CONTACTS
  /\ chat_line_count \in 0..TUI_CHAT_SCROLLBACK
  /\ chat_scroll_offset \in 0..TUI_CHAT_SCROLLBACK
  /\ ~freed_twice
  /\ heap = Range(chat_lines) \ {0}
  /\ \A i, j \in DOMAIN chat_lines : chat_lines[i] # 0 /\ chat_lines[i] = chat_lines[j] => i = j

\* Of the list as it was last painted, a row is lit only if it is what Enter will
\* take, and it is lit if the panel has room for it, although the list is
\* reloaded, reordered and shortened behind the selection and its reading may
\* break off (tui_handle_input ends with tui_draw_sidebar, and contacts are
\* reloaded only where they are drawn).  Rows left over from a longer list lie
\* below it.
EnterActsOnHighlighted ==
  active /\ focus = "sidebar" =>
    /\ \A x \in highlighted : x[1] > PlusRow(contacts) \/ x[2] = EnterTakes(contacts, selected_idx)
    /\ OnPanel(contacts, selected_idx, rows) =>
         <<SelectedRow(contacts, selected_idx), EnterTakes(contacts, selected_idx)>> \in highlighted
=============================================================================
