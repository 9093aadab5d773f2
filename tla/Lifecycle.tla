------------------------------ MODULE Lifecycle ------------------------------
(***************************************************************************)
(* One run of noxtor, from main() to the end of the process (main.c,       *)
(* network.c, cet_shstk.c and the Tor health check of event_loop.c).       *)
(*                                                                         *)
(* Every stage of main() may fail, and SIGINT, SIGTERM or SIGQUIT may set  *)
(* g_shutdown at any moment; each way out must give back what the stages   *)
(* before it acquired.  held is what the process holds: locked buffers,    *)
(* the arena and the keys in it, the database, the listener, the Tor       *)
(* files.  Failures that end a process at once (SIGKILL) are not steps:    *)
(* nothing can be promised of them.                                        *)
(***************************************************************************)
EXTENDS TorProcess

CONSTANTS
  MaxTries      \* passes of each bounded waiting loop

ASSUME TriesAssumption == MaxTries \in Nat \ {0}

VARIABLES
  pc,           \* the stage main() is at
  tty,          \* stdin is a terminal
  ghost,        \* --ghost
  active,       \* during the self-test: the kernel says the shadow stack is on
  cetcode,      \* during the self-test: exit status of its child
  term,         \* mode of the terminal
  saved,        \* g_termios_saved
  held,
  g_shutdown,
  tor_pid,      \* state->tor_pid holds Tor's PID
  tries,        \* passes made by the current waiting loop
  back,         \* where terminate_and_reap returns to
  how,          \* how the process ends: by return or by _exit
  left          \* Tor files of an earlier run that was killed

mainVars == <<pc, tty, ghost, active, cetcode, term, saved, held, g_shutdown,
              tor_pid, tries, back, how, left>>
vars == <<mainVars, torVars>>

\* Everything held is one of these; the keys live in the arena.
InArena == {"arena", "master", "unlock"}
Things == InArena \union {"pin", "ed", "db", "files", "listener", "seed"}

Init ==
  /\ TorInit
  /\ pc = "start"
  /\ tty \in BOOLEAN /\ ghost \in BOOLEAN
  /\ active = FALSE /\ cetcode = 0
  /\ term = "orig" /\ saved = FALSE
  /\ held = {} /\ g_shutdown = FALSE /\ tor_pid = FALSE
  /\ tries = 0 /\ back = "none" /\ how = "none"
  /\ left \in {"none", "dead", "tor_up", "pid_in_use"}

\* A step to stage p after which the process holds h.
To(p, h) ==
  /\ pc' = p /\ held' = h
  /\ UNCHANGED <<tty, ghost, active, cetcode, term, saved, g_shutdown, tor_pid, tries, back, how, left>>

\* arena_destroy wipes the keys with the arena.
arena_destroy(h) == h \ InArena

\* return from main: atexit runs restore_terminal.
Return(h) ==
  /\ pc' = "exited" /\ how' = "return" /\ held' = h
  /\ term' = IF saved THEN "orig" ELSE term
  /\ saved' = FALSE
  /\ UNCHANGED <<tty, ghost, active, cetcode, g_shutdown, tor_pid, tries, back, left, torVars>>

\* cleanup(), then return or NOX_EXIT, which is _exit and runs no atexit.
Cleanup(e) ==
  /\ pc' = "cleanup" /\ how' = e
  /\ UNCHANGED <<tty, ghost, active, cetcode, term, saved, held, g_shutdown, tor_pid, tries, back, left>>

\* "if (g_shutdown) goto shutdown_clean": a stage begins only without it.
Stage(p) == pc = p /\ ~g_shutdown
ShutdownSeen ==
  /\ pc \in {"tui", "auth", "boot", "listener", "loop"}
  /\ g_shutdown
  /\ Cleanup("_exit") /\ UNCHANGED torVars

-----------------------------------------------------------------------------
(* Up to the keys.                                                          *)

\* Signal handlers, terminal mode, atexit, sodium_init.
Setup ==
  /\ pc = "start"
  /\ pc' = "cet"
  /\ saved' = tty
  /\ term' = IF tty THEN "raw" ELSE term
  /\ UNCHANGED <<tty, ghost, active, cetcode, held, g_shutdown, tor_pid, tries, back, how, left, torVars>>

\* cet_ss_lock_and_verify without support goes on.  sodium_init, the lock, the
\* mask or the fork may fail.
cet_unsupported == pc = "cet" /\ To("config", held) /\ UNCHANGED torVars
cet_fails == pc = "cet" /\ Return(held)

\* Mutant: SIGCHLD is not blocked during the self-test.
MaskSigchld_skipped == blocked' = blocked

\* The self-test forks with SIGCHLD blocked ...
MaskSigchld == blocked' = TRUE
cet_fork ==
  /\ pc = "cet"
  /\ pc' = "cet_wait" /\ active' \in BOOLEAN
  /\ Fork("cet") /\ MaskSigchld
  /\ UNCHANGED <<tty, ghost, cetcode, term, saved, held, g_shutdown, tor_pid, tries, back, how, left>>
  /\ UNCHANGED <<pend, g_tor_pid, g_tor_died, sig, sock, ctrl, cmds, replies, resp>>

\* ... waits for the child and gets the mask back; a child somebody else has
\* reaped leaves no status to read ...
cet_wait ==
  /\ pc = "cet_wait" /\ ~Alive("cet")
  /\ pc' = IF proc["cet"] = "zombie" THEN "cet_verdict" ELSE "cet_broken"
  /\ cetcode' \in {101, 100, 102}
  /\ Reap("cet") /\ blocked' = FALSE
  /\ UNCHANGED <<tty, ghost, active, term, saved, held, g_shutdown, tor_pid, tries, back, how, left>>
  /\ UNCHANGED <<pend, g_tor_pid, g_tor_died, sig, sock, ctrl, cmds, replies, resp>>

\* ... and compares the exit status with what the kernel said.
Enforced == cetcode = (IF active THEN 101 ELSE 100)
cet_verdict ==
  /\ pc = "cet_verdict"
  /\ pc' = IF Enforced THEN "config" ELSE "cet_broken"
  /\ active' = (active /\ ~Enforced) /\ cetcode' = IF Enforced THEN 0 ELSE cetcode
  /\ UNCHANGED <<tty, ghost, term, saved, held, g_shutdown, tor_pid, tries, back, how, left, torVars>>

cet_broken == pc = "cet_broken" /\ Return(held)

\* resolve_config_paths and ensure_config_dir, then the buffer for the PIN.
Config == pc = "config" /\ To("pin", held) /\ UNCHANGED torVars
ConfigFails == pc \in {"config", "pin"} /\ Return(held)

\* read_pin turns the echo off for as long as it reads.
read_pin ==
  /\ pc = "pin"
  /\ pc' = "pin_read" /\ held' = held \union {"pin"}
  /\ term' = IF tty THEN "noecho" ELSE term
  /\ UNCHANGED <<tty, ghost, active, cetcode, saved, g_shutdown, tor_pid, tries, back, how, left, torVars>>

PinRead ==
  /\ pc = "pin_read"
  /\ pc' \in {"arena", "pin_bad"}
  /\ term' = IF tty THEN "raw" ELSE term
  /\ UNCHANGED <<tty, ghost, active, cetcode, saved, held, g_shutdown, tor_pid, tries, back, how, left, torVars>>
PinBad == pc = "pin_bad" /\ Return(held \ {"pin"})

\* RLIMIT_MEMLOCK and arena_init.
Arena == pc = "arena" /\ To("salt", held \union {"arena"}) /\ UNCHANGED torVars
ArenaFails == pc = "arena" /\ Return(held \ {"pin"})

\* Salt, master key, and the PIN freed whether or not derivation succeeds.
SaltFails == pc = "salt" /\ Return(arena_destroy(held \ {"pin"}))
Derive ==
  /\ pc = "salt"
  /\ \E p \in {"subkeys", "derive_failed"} : To(p, (held \union {"master"}) \ {"pin"})
  /\ UNCHANGED torVars
DeriveFails == pc = "derive_failed" /\ Return(arena_destroy(held))

\* Subkeys; a ghost's master key is wiped at once.
Subkeys ==
  /\ pc = "subkeys"
  /\ To("identity", (held \union {"unlock"}) \ (IF ghost THEN {"master"} ELSE {}))
  /\ UNCHANGED torVars

\* The identity key is generated or loaded through Ed25519 buffers, which are
\* freed with the unlock key once the Curve25519 pair is made.
Identity == pc = "identity" /\ To("convert", held \union {"ed"}) /\ UNCHANGED torVars
IdentityFails ==
  /\ pc \in {"subkeys", "identity", "convert"}
  /\ Return(arena_destroy(held \ {"ed"}))
Convert == pc = "convert" /\ To("transport", held \ {"ed", "unlock"}) /\ UNCHANGED torVars

\* prompt_transport_selection shows what is typed; at end of file, or when a
\* signal interrupts it, it returns without putting the mode back.
prompt_transport_selection ==
  /\ pc = "transport"
  /\ pc' = "transport_read"
  /\ term' = IF tty THEN "echo" ELSE term
  /\ UNCHANGED <<tty, ghost, active, cetcode, saved, held, g_shutdown, tor_pid, tries, back, how, left, torVars>>
TransportRead ==
  /\ pc = "transport_read"
  /\ pc' = "transport_done"
  /\ term' \in {term, IF tty THEN "raw" ELSE term}
  /\ UNCHANGED <<tty, ghost, active, cetcode, saved, held, g_shutdown, tor_pid, tries, back, how, left, torVars>>
TransportShutdown ==
  /\ pc = "transport_done" /\ g_shutdown
  /\ Cleanup("return") /\ UNCHANGED torVars

\* The database, which a ghost has not.
Database ==
  /\ Stage("transport_done")
  /\ To("torrc", held \union (IF ghost THEN {} ELSE {"db"}))
  /\ UNCHANGED torVars
DatabaseFails == Stage("transport_done") /\ ~ghost /\ Return(arena_destroy(held))

-----------------------------------------------------------------------------
(* tor_spawn.                                                               *)

\* is_our_stale_entry: files of a dead PID; whether their Tor still runs is
\* not looked at, since the PID in the name is noxtor's own.
is_our_stale_entry(l) == l \in {"dead", "tor_up"}
cleanup_stale_tor_dirs(l) == IF is_our_stale_entry(l) THEN "none" ELSE l

\* generate_torrc removes what earlier runs left, then writes this run's
\* files; it may fail before it has made any.
generate_torrc ==
  /\ pc = "torrc"
  /\ pc' \in {"fork", "spawn_failed"}
  /\ held' = held \union {"files"}
  /\ left' = cleanup_stale_tor_dirs(left)
  /\ tries' = 0
  /\ UNCHANGED <<tty, ghost, active, cetcode, term, saved, g_shutdown, tor_pid, back, how, torVars>>

tor_fork ==
  /\ pc = "fork"
  /\ To("wait", held)
  /\ Fork("tor")
  /\ UNCHANGED <<blocked, pend, g_tor_pid, g_tor_died, sig, sock, ctrl, cmds, replies, resp>>
fork_fails == pc = "fork" /\ To("spawn_failed", held) /\ UNCHANGED torVars

\* tor_child_cleanup after a failure.
ChildCleanup ==
  /\ pc' = "terminate" /\ back' = "spawn_failed"
  /\ UNCHANGED <<tty, ghost, active, cetcode, term, saved, held, g_shutdown, tor_pid, tries, how, left>>

\* The first pass of a waiting loop, at stage p ...
ToLoop(p) ==
  /\ pc' = p /\ tries' = 0
  /\ UNCHANGED <<tty, ghost, active, cetcode, term, saved, held, g_shutdown, tor_pid, back, how, left>>

\* ... and one more pass of it.
Again(p) ==
  /\ tries < MaxTries
  /\ pc' = p /\ tries' = tries + 1
  /\ UNCHANGED <<tty, ghost, active, cetcode, term, saved, held, g_shutdown, tor_pid, back, how, left>>

\* Mutant: a failed wait returns without tor_child_cleanup.
wait_gives_up_orphan ==
  /\ pc = "wait"
  /\ g_shutdown \/ g_tor_died \/ ~Alive("tor") \/ tries = MaxTries
  /\ To("spawn_failed", held)
  /\ UNCHANGED torVars

\* A pass of wait_for_control_socket finds the child dead, by the flag or by
\* waitpid, which reaps it; or a shutdown; or runs out of passes ...
wait_gives_up ==
  /\ pc = "wait"
  /\ g_shutdown \/ g_tor_died \/ ~Alive("tor") \/ tries = MaxTries
  /\ ChildCleanup
  /\ IF proc["tor"] = "zombie" /\ ~g_shutdown /\ ~g_tor_died /\ tries < MaxTries
       THEN Reap("tor") ELSE proc' = proc
  /\ UNCHANGED <<blocked, pend, g_tor_pid, g_tor_died, sig, sock, ctrl, cmds, replies, resp>>

\* ... finds nobody listening ...
wait_again ==
  /\ Stage("wait") /\ Alive("tor") /\ sock = "nobody"
  /\ Again("wait") /\ UNCHANGED torVars

\* ... or somebody, who must be the child.
wait_for_control_socket ==
  /\ Stage("wait") /\ tries < MaxTries /\ Alive("tor") /\ sock # "nobody"
  /\ IF tor_verify_peer(sock) THEN ToLoop("connect") ELSE ChildCleanup
  /\ UNCHANGED torVars

\* The connection itself: socket() may fail, connect() is tried again until
\* the retries are used up or a shutdown is asked for.
connect_gives_up ==
  /\ pc = "connect"
  /\ ChildCleanup /\ UNCHANGED torVars
connect_again ==
  /\ Stage("connect") /\ sock = "nobody"
  /\ Again("connect") /\ UNCHANGED torVars
connect ==
  /\ Stage("connect") /\ sock # "nobody"
  /\ To("verify", held)
  /\ ctrl' = sock
  /\ UNCHANGED <<proc, blocked, pend, g_tor_pid, g_tor_died, sig, sock, cmds, replies, resp>>

\* The connection's own peer is verified before anything is sent on it, and
\* only then are the PIDs stored.
Spawned ==
  /\ pc = "verify" /\ tor_verify_peer(ctrl)
  /\ pc' = "tui" /\ tor_pid' = TRUE
  /\ g_tor_pid' = TRUE
  /\ UNCHANGED <<tty, ghost, active, cetcode, term, saved, held, g_shutdown, tries, back, how, left>>
  /\ UNCHANGED <<proc, blocked, pend, g_tor_died, sig, sock, ctrl, cmds, replies, resp>>
verify_fails ==
  /\ pc = "verify" /\ ~tor_verify_peer(ctrl)
  /\ ChildCleanup
  /\ ctrl' = "closed"
  /\ UNCHANGED <<proc, blocked, pend, g_tor_pid, g_tor_died, sig, sock, cmds, replies, resp>>

SpawnFails ==
  /\ pc = "spawn_failed"
  /\ Cleanup(IF g_shutdown THEN "_exit" ELSE "return")
  /\ UNCHANGED torVars

-----------------------------------------------------------------------------
(* terminate_and_reap: SIGTERM, up to 50 looks, SIGKILL, a blocking wait.   *)

terminate ==
  /\ pc = "terminate"
  /\ ToLoop("poll")
  /\ Kill("term")
  /\ UNCHANGED <<proc, blocked, pend, g_tor_pid, g_tor_died, sock, ctrl, cmds, replies, resp>>

\* waitpid finds it dead, or already reaped by the handler (ECHILD).
Reaped ==
  /\ pc \in {"poll", "reap"} /\ ~Alive("tor")
  /\ To(back, held)
  /\ Reap("tor")
  /\ UNCHANGED <<blocked, pend, g_tor_pid, g_tor_died, sig, sock, ctrl, cmds, replies, resp>>

poll_again ==
  /\ pc = "poll" /\ Alive("tor")
  /\ Again("poll") /\ UNCHANGED torVars

\* Mutant: SIGTERM once more instead of SIGKILL.
kill_child_gently ==
  /\ pc = "poll" /\ Alive("tor") /\ tries = MaxTries
  /\ To("reap", held)
  /\ Kill("term")
  /\ UNCHANGED <<proc, blocked, pend, g_tor_pid, g_tor_died, sock, ctrl, cmds, replies, resp>>
kill_child ==
  /\ pc = "poll" /\ Alive("tor") /\ tries = MaxTries
  /\ To("reap", held)
  /\ Kill("kill")
  /\ UNCHANGED <<proc, blocked, pend, g_tor_pid, g_tor_died, sock, ctrl, cmds, replies, resp>>

\* SIGINT, SIGTERM and SIGQUIT are handled without SA_RESTART: one that comes,
\* the first or a further one, ends the blocking wait with EINTR, which is not
\* tried again.
reap_interrupted ==
  /\ pc = "reap"
  /\ pc' = back /\ g_shutdown' = TRUE
  /\ UNCHANGED <<tty, ghost, active, cetcode, term, saved, held, tor_pid, tries, back, how, left, torVars>>

-----------------------------------------------------------------------------
(* From Tor to the event loop.                                              *)

\* The screen and seccomp stage 2.
Tui ==
  /\ Stage("tui")
  /\ pc' = "auth"
  /\ term' \in {term, IF tty THEN "tui" ELSE term}
  /\ UNCHANGED <<tty, ghost, active, cetcode, saved, held, g_shutdown, tor_pid, tries, back, how, left, torVars>>

\* A stage that fails: cleanup and _exit, with 0 or 1.
StageFails ==
  /\ Stage("tui") \/ Stage("auth") \/ Stage("boot") \/ Stage("listener") \/ pc \in {"hs", "address", "epoll"}
  /\ Cleanup("_exit") /\ UNCHANGED torVars

\* The data lines of a reply.
ReadData ==
  /\ pc \in {"auth_read", "boot_read", "hs_read"}
  /\ ctrl_read_data /\ UNCHANGED mainVars

\* tor_authenticate.
tor_authenticate ==
  /\ Stage("auth")
  /\ To("auth_read", held) /\ ctrl_send_command("AUTHENTICATE")
authenticated ==
  /\ pc = "auth_read"
  /\ ToLoop("boot") /\ ctrl_read_end
auth_read_fails == pc = "auth_read" /\ ctrl_read_fails /\ Cleanup("_exit")

\* tor_wait_bootstrap asks until Tor reports 100, at most MaxTries times more.
tor_wait_bootstrap ==
  /\ Stage("boot")
  /\ To("boot_read", held) /\ ctrl_send_command("GETINFO")
bootstrapped ==
  /\ pc = "boot_read" /\ resp = "full"
  /\ To("listener", held) /\ ctrl_read_end
boot_again ==
  /\ pc = "boot_read" /\ resp # "full"
  /\ Again("boot") /\ ctrl_read_end
boot_timeout ==
  /\ pc = "boot_read" /\ resp # "full" /\ tries = MaxTries
  /\ Cleanup("_exit") /\ ctrl_read_end
boot_read_fails == pc = "boot_read" /\ ctrl_read_fails /\ Cleanup("_exit")

\* listener_create, the seed's buffer and, unless a ghost, its derivation.
listener_create ==
  /\ Stage("listener")
  /\ To("hs", held \union {"listener", "seed"}) /\ UNCHANGED torVars

\* ADD_ONION; the master key is wiped whether or not Tor answers.
create_hs ==
  /\ pc = "hs"
  /\ To("hs_read", held) /\ ctrl_send_command("ADD_ONION")
hs_created ==
  /\ pc = "hs_read"
  /\ To("address", held \ {"master"}) /\ ctrl_read_end
hs_read_fails == pc = "hs_read" /\ ctrl_read_fails /\ Cleanup("_exit")

\* The address must be that of the seed.
AddressChecked == pc = "address" /\ resp = "ours" /\ To("epoll", held) /\ UNCHANGED torVars

\* epoll_setup; the event loop switches the editor on when there is no screen.
epoll_setup ==
  /\ pc = "epoll"
  /\ pc' = "loop"
  /\ term' = IF tty /\ term # "tui" THEN "edit" ELSE term
  /\ UNCHANGED <<tty, ghost, active, cetcode, saved, held, g_shutdown, tor_pid, tries, back, how, left, torVars>>

\* /quit.
Quit == Stage("loop") /\ Cleanup("_exit") /\ UNCHANGED torVars

\* tor_dead: the handler's flag, or kill(tor_pid, 0) with no such process.
tor_dead == g_tor_died \/ (tor_pid /\ proc["tor"] = "reaped")

\* Mutant: the onion seed, which is not in the arena, is forgotten.
WipedByHealthCheck_arena == InArena \union {"db"}

\* What the health check wipes when Tor is gone.
WipedByHealthCheck == InArena \union {"db", "seed"}

health_check ==
  /\ Stage("loop") /\ tor_dead /\ tor_pid
  /\ held' = held \ WipedByHealthCheck
  /\ tor_pid' = FALSE
  /\ g_tor_pid' = FALSE /\ g_tor_died' = FALSE /\ ctrl' = "closed"
  /\ UNCHANGED <<pc, tty, ghost, active, cetcode, term, saved, g_shutdown, tries, back, how, left>>
  /\ UNCHANGED <<proc, blocked, pend, sig, sock, cmds, replies, resp>>

-----------------------------------------------------------------------------
(* cleanup().                                                               *)

\* What cleanup gives back before it turns to Tor.
cleanup ==
  /\ pc = "cleanup"
  /\ pc' = "shutdown"
  /\ term' = IF saved THEN "orig" ELSE term
  /\ saved' = FALSE
  /\ held' = held \ (InArena \union {"db", "seed"})
  /\ UNCHANGED <<tty, ghost, active, cetcode, g_shutdown, tor_pid, tries, back, how, left, torVars>>

\* tor_shutdown: SIGNAL SHUTDOWN on the connection, then the child ...
tor_shutdown ==
  /\ pc = "shutdown"
  /\ pc' = IF tor_pid THEN "terminate" ELSE "tor_files"
  /\ back' = "tor_gone"
  /\ ctrl' = "closed"
  /\ UNCHANGED <<tty, ghost, active, cetcode, term, saved, held, g_shutdown, tor_pid, tries, how, left>>
  /\ UNCHANGED <<proc, blocked, pend, g_tor_pid, g_tor_died, sig, sock, cmds, replies, resp>>
tor_gone ==
  /\ pc = "tor_gone"
  /\ pc' = "tor_files" /\ tor_pid' = FALSE
  /\ g_tor_pid' = FALSE
  /\ UNCHANGED <<tty, ghost, active, cetcode, term, saved, held, g_shutdown, tries, back, how, left>>
  /\ UNCHANGED <<proc, blocked, pend, g_tor_died, sig, sock, ctrl, cmds, replies, resp>>

\* ... then its files; the listener and the process end last.
tor_files ==
  /\ pc = "tor_files"
  /\ pc' = "exited"
  /\ held' = held \ {"files", "listener"}
  /\ UNCHANGED <<tty, ghost, active, cetcode, term, saved, g_shutdown, tor_pid, tries, back, how, left, torVars>>

-----------------------------------------------------------------------------
(* Signals and the environment.                                             *)

signal_handler ==
  /\ pc \notin {"start", "exited"} /\ ~g_shutdown
  /\ g_shutdown' = TRUE
  /\ UNCHANGED <<pc, tty, ghost, active, cetcode, term, saved, held, tor_pid, tries, back, how, left, torVars>>

SigChld == pc # "exited" /\ sigchld_handler /\ UNCHANGED mainVars

Environment ==
  /\ pc # "exited"
  /\ \/ \E c \in Children : ChildDies(c)
     \/ TorListens
     \/ OtherListens
     \/ TorAnswers
  /\ UNCHANGED mainVars

\* The Tor of the killed run finishes.
OldTorExits ==
  /\ left = "tor_up" /\ left' = "dead"
  /\ UNCHANGED <<pc, tty, ghost, active, cetcode, term, saved, held, g_shutdown, tor_pid, tries, back, how, torVars>>

Exited == pc = "exited" /\ UNCHANGED vars

Early == \/ Setup \/ cet_unsupported \/ cet_fails \/ cet_fork \/ cet_wait \/ cet_verdict
         \/ cet_broken \/ Config \/ ConfigFails \/ read_pin \/ PinRead \/ PinBad \/ Arena
         \/ ArenaFails \/ SaltFails \/ Derive \/ DeriveFails \/ Subkeys \/ Identity
         \/ IdentityFails \/ Convert \/ prompt_transport_selection \/ TransportRead
         \/ TransportShutdown \/ Database \/ DatabaseFails
tor_spawn == \/ generate_torrc \/ tor_fork \/ fork_fails \/ wait_gives_up \/ wait_again
             \/ wait_for_control_socket \/ connect_gives_up \/ connect_again \/ connect
             \/ Spawned \/ verify_fails \/ SpawnFails
terminate_and_reap == terminate \/ Reaped \/ poll_again \/ kill_child
Late == \/ ShutdownSeen \/ Tui \/ StageFails \/ ReadData \/ tor_authenticate \/ authenticated
        \/ auth_read_fails \/ tor_wait_bootstrap \/ bootstrapped \/ boot_again \/ boot_timeout
        \/ boot_read_fails \/ listener_create \/ create_hs \/ hs_created \/ hs_read_fails
        \/ AddressChecked \/ epoll_setup \/ health_check
Closing == cleanup \/ tor_shutdown \/ tor_gone \/ tor_files

Main == Early \/ tor_spawn \/ terminate_and_reap \/ Late \/ Closing

Next == Main \/ Quit \/ signal_handler \/ reap_interrupted \/ SigChld \/ Environment \/ OldTorExits \/ Exited

Spec == Init /\ [][Next]_vars

\* The main thread runs; a pending signal is delivered; a child that was sent
\* SIGKILL dies, and the self-test's child, which only traps or exits, ends.
FairSpec ==
  /\ Spec
  /\ WF_vars(Main)
  /\ WF_vars(SigChld)
  /\ WF_vars(ChildDies("cet") /\ UNCHANGED mainVars)
  /\ WF_vars(sig = "kill" /\ ChildDies("tor") /\ UNCHANGED mainVars)

-----------------------------------------------------------------------------
(* Properties.                                                              *)

\* However the process ends (any stage failing, a signal at any moment, Tor
\* dying, /quit), nothing is left behind: the terminal is in the mode it was
\* found in, no key, locked buffer, database handle or Tor file is held, no
\* child runs or is a zombie (but for a Tor that was sent SIGKILL while another
\* signal cut the wait for it short), and a run that started Tor has removed
\* what a dead run had left.  Before that, keys live no longer than they are
\* needed: the PIN, the Ed25519 buffers and the key that opens identity.key are
\* gone before Tor is forked, and the master key before the event loop starts.
AllReleased ==
  /\ pc = "exited" =>
       /\ held = {} /\ term = "orig"
       /\ \A c \in Children : proc[c] \in {"none", "reaped"} \/ (c = "tor" /\ sig = "kill")
       /\ proc["tor"] = "reaped" => left # "dead"
  /\ proc["tor"] # "none" => held \intersect {"pin", "ed", "unlock"} = {}
  /\ pc \in {"address", "epoll", "loop"} => "master" \notin held

\* The cookie and the onion key are only ever sent to the Tor this process
\* forked, whoever binds control.sock and whenever; and a reply is read as the
\* answer to the command it answers: when a command has been dealt with,
\* nothing of its reply is left on the connection.
OwnTorAnswers ==
  /\ tor_pid \/ cmds # <<>> => ctrl # "other"
  /\ pc = "auth_read" => \A i \in DOMAIN replies : replies[i][1] = "AUTHENTICATE"
  /\ pc = "boot_read" => \A i \in DOMAIN replies : replies[i][1] = "GETINFO"
  /\ pc = "hs_read" => \A i \in DOMAIN replies : replies[i][1] = "ADD_ONION"
  /\ pc \in {"boot", "listener", "hs", "address", "epoll", "loop"} => replies = <<>> /\ cmds = <<>>

\* The shadow stack self-test gets the exit status of its child even though
\* the SIGCHLD handler reaps whatever it finds: it reports a broken shadow
\* stack only when the child's status contradicts the kernel.
CetStatusKept == pc = "cet_broken" => ~Enforced

\* When Tor dies under the event loop, the keys, the database and the onion
\* seed are wiped.
WipedByTorDeath == InArena \union {"db", "seed"}
TorDeathWipes ==
  pc = "loop" /\ proc["tor"] # "up" ~> held \intersect WipedByTorDeath = {}

\* A shutdown asked for at any moment ends the process, provided that the
\* prompts are answered.
ShutdownHonoured == g_shutdown ~> pc = "exited"
=============================================================================
