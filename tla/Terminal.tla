------------------------------ MODULE Terminal ------------------------------
(***************************************************************************)
(* Where the user's lines come from: process_stdin_events chooses between  *)
(* the termbox interface, linenoise and the pipe loop by tui_is_active()   *)
(* and ln_active.  Which front end starts is decided once; only a          *)
(* linenoise that cannot start or restart hands its terminal over to the   *)
(* pipe loop.                                                              *)
(***************************************************************************)
EXTENDS LineEdit, PipeInput, Tui

CONSTANT ScriptBytes, MaxScript  \* what a piped stdin may hold, and how much

VARIABLE tty  \* isatty(STDIN_FILENO)

vars == <<editVars, pipeVars, tuiVars, tty>>

Init ==
  /\ running = "starting" /\ EditIdle /\ TuiIdle
  /\ \/ tty = TRUE /\ term = "main"
     \/ tty = FALSE /\ term = "cooked"
  /\ PipeStart(<< >>)

Scripts == UNION {[1..n -> ScriptBytes] : n \in 0..MaxScript}

\* tui_init, which opens /dev/tty whatever stdin is; when termbox does not come
\* up, ln_edit_init, which leaves a stdin that is no terminal alone.  What a
\* piped stdin holds is chosen when the pipe loop is to read it.
start ==
  /\ running = "starting" /\ running' = "yes"
  /\ \/ active' = TRUE /\ UNCHANGED <<editing, ln_active, modes, input>>
     \/ tty /\ UNCHANGED <<active, input>> /\ ln_edit_init
     \/ ~tty /\ input' \in Scripts /\ UNCHANGED <<active, editing, ln_active, modes>>
  /\ UNCHANGED <<taken, stdin_buf, stdin_cap, stdin_closed, failures, ran>>
  /\ UNCHANGED <<typed, sidebar, chat, world, highlighted, tty>>

process_stdin_events ==
  /\ running = "yes" /\ UNCHANGED tty
  /\ \/ active /\ TuiStep /\ UNCHANGED <<editVars, pipeVars>>
     \/ ~active /\ linenoiseEditFeed /\ UNCHANGED <<pipeVars, tuiVars>>
     \/ ~active /\ ~ln_active /\ read_stdin /\ UNCHANGED <<editVars, tuiVars>>

\* A signal, /quit, or Ctrl-C in the termbox interface.
stop ==
  /\ running = "yes" /\ running' = "no"
  /\ UNCHANGED <<editing, ln_active, modes, pipeVars, tuiVars, tty>>

\* cleanup: ln_edit_deinit, tui_shutdown, restore_terminal.
cleanup ==
  /\ running = "no" /\ running' = "exited"
  /\ edit_cleanup
  /\ \/ tui_shutdown
     \/ ~active /\ UNCHANGED tuiVars
  /\ UNCHANGED <<pipeVars, tty>>

Exited == running = "exited" /\ UNCHANGED vars

Next == start \/ process_stdin_events \/ stop \/ cleanup \/ Exited

\* epoll is level-triggered: while stdin is readable the loop is called again.
Spec == Init /\ [][Next]_vars /\ WF_vars(start)
          /\ WF_vars(running = "yes" /\ ~active /\ ~ln_active /\ process_stdin_events)

-----------------------------------------------------------------------------
\* A script the pipe loop reads is read to its end however long its lines are
\* and however often memory was short or a read failed before, unless the
\* program is stopped: the loop neither spins at a full buffer nor waits for
\* input it already has.  The termbox interface (active) never reads the pipe.
ScriptEnds == <>(tty \/ stdin_closed \/ active \/ running \in {"no", "exited"})
=============================================================================
