------------------------------ MODULE TorProcess ------------------------------
(***************************************************************************)
(* The child processes of noxtor and the control connection to Tor         *)
(* (network.c, and the signal handlers of main.c).                         *)
(*                                                                         *)
(* The main thread forks twice: once for the shadow stack self-test        *)
(* (cet_shstk.c), which must read its child's exit status, and once for    *)
(* Tor.  The SIGCHLD handler reaps every dead child with waitpid(-1) and   *)
(* can run between any two steps of the main thread.  Another process of   *)
(* the same user may bind control.sock before, or instead of, Tor.         *)
(***************************************************************************)
EXTENDS Naturals, Sequences

VARIABLES
  proc,        \* the children: "none", "up", "zombie" or "reaped"
  blocked,     \* SIGCHLD is in the signal mask
  pend,        \* SIGCHLD is pending
  g_tor_pid,   \* g_tor_pid holds Tor's PID
  g_tor_died,
  sig,         \* the strongest signal Tor was sent
  sock,        \* who is bound to control.sock
  ctrl,        \* the peer of the control connection, or "closed"
  cmds,        \* commands written to Tor and not yet answered
  replies,     \* lines written by Tor and not yet read, with their command
  resp         \* the data line of the reply being read

torVars == <<proc, blocked, pend, g_tor_pid, g_tor_died, sig, sock, ctrl, cmds, replies, resp>>

Children == {"cet", "tor"}
Lines == {"full", "part", "ours", "strange", "last", "error"}
Commands == {"AUTHENTICATE", "GETINFO", "ADD_ONION"}

\* What Tor may answer, line by line: data lines ("250-..."), then the last
\* line ("250 ..."), or an error line (4xx, 5xx).  "full" is PROGRESS=100 and
\* "ours" the ServiceID of the key that was sent.
Answers(c) == CASE c = "AUTHENTICATE" -> {<<"last">>, <<"error">>}
                [] c = "GETINFO" -> {<<"full", "last">>, <<"part", "last">>, <<"error">>}
                [] c = "ADD_ONION" -> {<<"ours", "last">>, <<"strange", "last">>, <<"error">>}

TorInit ==
  /\ proc = [c \in Children |-> "none"]
  /\ blocked = FALSE /\ pend = FALSE
  /\ g_tor_pid = FALSE /\ g_tor_died = FALSE
  /\ sig = "none" /\ sock = "nobody" /\ ctrl = "closed"
  /\ cmds = <<>> /\ replies = <<>> /\ resp = "none"

Alive(c) == proc[c] = "up"
Reap(c) == proc' = [proc EXCEPT ![c] = "reaped"]

-----------------------------------------------------------------------------
(* The signal handler.                                                      *)

\* SIGCHLD reaps every zombie; g_tor_died is for the child it knows as Tor.
sigchld_handler ==
  /\ pend /\ ~blocked
  /\ pend' = FALSE
  /\ proc' = [c \in Children |-> IF proc[c] = "zombie" THEN "reaped" ELSE proc[c]]
  /\ g_tor_died' = (g_tor_died \/ (g_tor_pid /\ proc["tor"] = "zombie"))
  /\ UNCHANGED <<blocked, g_tor_pid, sig, sock, ctrl, cmds, replies, resp>>

-----------------------------------------------------------------------------
(* The environment: the children and the other process.                     *)

\* A child exits or crashes.
ChildDies(c) ==
  /\ Alive(c)
  /\ proc' = [proc EXCEPT ![c] = "zombie"]
  /\ pend' = TRUE
  /\ sock' = IF c = "tor" /\ sock = "tor" THEN "nobody" ELSE sock
  /\ UNCHANGED <<blocked, g_tor_pid, g_tor_died, sig, ctrl, cmds, replies, resp>>

TorListens ==
  /\ Alive("tor") /\ sock = "nobody"
  /\ sock' = "tor"
  /\ UNCHANGED <<proc, blocked, pend, g_tor_pid, g_tor_died, sig, ctrl, cmds, replies, resp>>

OtherListens ==
  /\ proc["tor"] # "none" /\ sock # "other"
  /\ sock' = "other"
  /\ UNCHANGED <<proc, blocked, pend, g_tor_pid, g_tor_died, sig, ctrl, cmds, replies, resp>>

TorAnswers ==
  /\ Alive("tor") /\ cmds # <<>>
  /\ \E a \in Answers(Head(cmds)) :
       replies' = replies \o [i \in DOMAIN a |-> <<Head(cmds), a[i]>>]
  /\ cmds' = Tail(cmds)
  /\ UNCHANGED <<proc, blocked, pend, g_tor_pid, g_tor_died, sig, sock, ctrl, resp>>

-----------------------------------------------------------------------------
(* System calls of the main thread on its children and on the connection.   *)

\* A forked child; the control socket an earlier Tor left is unlinked before.
Fork(c) == proc' = [proc EXCEPT ![c] = "up"]

\* kill(tor, s).  A reaped child is no longer ours: nothing of Tor changes.
Kill(s) == sig' = IF Alive("tor") THEN s ELSE sig

\* tor_verify_peer: SO_PEERCRED names the process that listens.
tor_verify_peer(peer) == peer = "tor"

\* ctrl_send_command fails once Tor has closed its end.
ctrl_send_command(c) ==
  /\ Alive("tor")
  /\ cmds' = Append(cmds, c)
  /\ resp' = "none"
  /\ UNCHANGED <<proc, blocked, pend, g_tor_pid, g_tor_died, sig, sock, ctrl, replies>>

\* Mutant: the first line that is no error ends the reply.
EndOfReply_first(line) == line # "error"

\* The line that ends a reply.
EndOfReply(line) == line = "last"

\* ctrl_read_line, whichever command the line answers.
ctrl_read_line(lines) ==
  /\ replies # <<>>
  /\ Head(replies)[2] \in lines
  /\ replies' = Tail(replies)
  /\ resp' = IF Head(replies)[2] = "last" THEN resp ELSE Head(replies)[2]
  /\ UNCHANGED <<proc, blocked, pend, g_tor_pid, g_tor_died, sig, sock, ctrl, cmds>>

\* ctrl_read_response: one data line ...
ctrl_read_data == ctrl_read_line({l \in Lines \ {"error"} : ~EndOfReply(l)})

\* ... the end of the reply ...
ctrl_read_end == ctrl_read_line({l \in Lines : EndOfReply(l)})

\* ... or failure: an error line, or the deadline passes, Tor closes the
\* connection or a shutdown is asked for before the reply is complete.
ctrl_read_fails == ctrl_read_line({"error"}) \/ UNCHANGED torVars
=============================================================================
