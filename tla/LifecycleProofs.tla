---------------------------- MODULE LifecycleProofs ----------------------------
(***************************************************************************)
(* Proofs about one run of noxtor (Lifecycle), for any number of passes of *)
(* its waiting loops.  The inductive invariant says, stage by stage of     *)
(* main(), how the terminal stands to the saved mode, what the process may *)
(* hold, how far Tor is, and what may be on the control connection.        *)
(***************************************************************************)
EXTENDS Lifecycle, TLAPS

\* The stages of main(), in the order in which they are passed.
BeforeKeys == {"start", "cet", "cet_wait", "cet_verdict", "cet_broken", "config", "pin"}
KeyStages == {"pin_read", "pin_bad", "arena", "salt", "derive_failed", "subkeys", "identity",
              "convert", "transport", "transport_read", "transport_done"}
BeforeFork == BeforeKeys \union KeyStages \union {"torrc", "fork"}
Spawning == {"wait", "connect", "verify"}
WithTor == {"tui", "auth", "auth_read", "boot", "boot_read", "listener", "hs", "hs_read",
            "address", "epoll", "loop"}
Ending == {"terminate", "poll", "reap"}
AfterCleanup == {"shutdown", "tor_gone", "tor_files", "exited"}

\* terminate_and_reap has two callers.
BackInv == pc \in Ending => back \in {"spawn_failed", "tor_gone"}

\* cleanup() has given back what it gives back before it turns to Tor.
CleanedUp == pc \in AfterCleanup \/ (pc \in Ending /\ back = "tor_gone")

-----------------------------------------------------------------------------
(* The self-test of the shadow stack.                                       *)

\* The self-test's child is alive or waits to be reaped for as long as its
\* status is needed, since SIGCHLD is blocked; it is gone afterwards.
CetInv ==
  /\ pc \in {"start", "cet"} => proc["cet"] = "none"
  /\ pc = "cet_wait" => blocked /\ proc["cet"] \in {"up", "zombie"}
  /\ pc # "cet_wait" => proc["cet"] \in {"none", "reaped"}
  /\ pc = "cet_broken" => ~Enforced

-----------------------------------------------------------------------------
(* The terminal.                                                            *)

\* The mode is the original one unless it is saved, and it is saved on a
\* terminal from Setup until cleanup or return.
TermInv ==
  /\ ~saved => term = "orig"
  /\ pc = "start" => ~saved
  /\ pc \in (BeforeFork \ {"start"}) \union Spawning \union WithTor => (tty => saved)
  /\ CleanedUp => ~saved

-----------------------------------------------------------------------------
(* What the process holds.                                                  *)

HeldInv ==
  /\ held \subseteq Things
  /\ pc \in BeforeKeys => held = {}
  /\ pc \in {"pin_read", "pin_bad", "arena"} => held \subseteq {"pin"}
  /\ pc = "salt" => held \subseteq {"pin", "arena"}
  /\ pc = "identity" => held \subseteq InArena
  /\ pc = "convert" => held \subseteq InArena \union {"ed"}
  /\ pc \in {"derive_failed", "subkeys", "transport", "transport_read", "transport_done"}
       => held \subseteq {"arena", "master"}
  /\ pc \notin BeforeFork \/ pc = "torrc" \/ pc = "fork"
       => held \intersect {"pin", "ed", "unlock"} = {}
  /\ pc \in {"address", "epoll", "loop"} => "master" \notin held
  /\ CleanedUp => held \subseteq {"files", "listener"}
  /\ pc = "exited" => held = {}

-----------------------------------------------------------------------------
(* Tor.                                                                     *)

\* No Tor of this run is left that was not at least sent SIGKILL.
TorDone == proc["tor"] \in {"none", "reaped"} \/ sig = "kill"

\* Tor is forked at one place, and its PID forgotten only when it is done.
TorInv ==
  /\ proc \in [Children -> {"none", "up", "zombie", "reaped"}]
  /\ pc \in BeforeFork => proc["tor"] = "none"
  /\ tor_pid \/ pc \in Spawning \union Ending => proc["tor"] # "none"
  /\ pc = "fork" \/ proc["tor"] # "none" => left \notin {"dead", "tor_up"}
  /\ g_tor_died => proc["tor"] = "reaped"
  /\ pc \in WithTor \ {"loop"} => tor_pid
  /\ pc \in {"loop", "cleanup", "shutdown"} => tor_pid \/ TorDone
  /\ pc = "reap" => sig = "kill"
  /\ pc \in {"spawn_failed", "tor_gone", "tor_files", "exited"} => TorDone

-----------------------------------------------------------------------------
(* The control connection.                                                  *)

\* Of cs and rs, the commands and the replies on their way: the one command
\* sent is not answered yet, or what is left of its answer waits to be read.
Awaiting(c, cs, rs) ==
  \/ cs = <<c>> /\ rs = <<>>
  \/ /\ cs = <<>>
     /\ \/ \E l \in {"last", "error"} : rs = << <<c, l>> >>
        \/ \E l \in {"full", "part", "ours", "strange"} : rs = << <<c, l>>, <<c, "last">> >>

\* Nothing is sent before the peer is verified, and one command at a time
\* after that.
Quiet == {"tui", "auth", "boot", "listener", "hs", "address", "epoll", "loop"}
ConnInv ==
  /\ ctrl = "other" => pc = "verify"
  /\ pc \in BeforeFork \union Spawning => ~tor_pid
  /\ pc \in BeforeFork \union Spawning \union Quiet => cmds = <<>> /\ replies = <<>>
  /\ pc = "auth_read" => Awaiting("AUTHENTICATE", cmds, replies)
  /\ pc = "boot_read" => Awaiting("GETINFO", cmds, replies)
  /\ pc = "hs_read" => Awaiting("ADD_ONION", cmds, replies)

IInv == BackInv /\ CetInv /\ TermInv /\ HeldInv /\ TorInv /\ ConnInv

-----------------------------------------------------------------------------
(* Every step keeps each conjunct of the invariant.                         *)

\* terminate_and_reap returns to the caller that called it.
LEMMA BackStep ==
  ASSUME BackInv, [Next]_vars
  PROVE  BackInv'
<1> USE DEF BackInv, Ending, To, Return, Cleanup, Stage, ChildCleanup, ToLoop, Again,
    ctrl_send_command, ctrl_read_line, ctrl_read_data, ctrl_read_end, ctrl_read_fails, vars,
    mainVars, torVars
<1>1. CASE Early BY ZenonT(40), <1>1 DEF Early, Setup, cet_unsupported, cet_fails, cet_fork, cet_wait,
    cet_verdict, cet_broken, Config, ConfigFails, read_pin, PinRead, PinBad, Arena, ArenaFails,
    SaltFails, Derive, DeriveFails, Subkeys, Identity, IdentityFails, Convert,
    prompt_transport_selection, TransportRead, TransportShutdown, Database, DatabaseFails
<1>2. CASE tor_spawn BY <1>2 DEF tor_spawn, generate_torrc, tor_fork, fork_fails, wait_gives_up,
    wait_again, wait_for_control_socket, connect_gives_up, connect_again, connect, Spawned,
    verify_fails, SpawnFails
<1>3. CASE terminate_and_reap BY SMTT(20), <1>3 DEF terminate_and_reap, terminate, Reaped, poll_again,
    kill_child
<1>4. CASE Late BY Zenon, <1>4 DEF Late, ShutdownSeen, Tui, StageFails, ReadData, tor_authenticate,
    authenticated, auth_read_fails, tor_wait_bootstrap, bootstrapped, boot_again, boot_timeout,
    boot_read_fails, listener_create, create_hs, hs_created, hs_read_fails, AddressChecked,
    epoll_setup, health_check
<1>5. CASE Closing BY <1>5 DEF Closing, cleanup, tor_shutdown, tor_gone, tor_files
<1>6. CASE Quit BY <1>6 DEF Quit
<1>7. CASE signal_handler BY <1>7 DEF signal_handler
<1>8. CASE reap_interrupted BY <1>8 DEF reap_interrupted
<1>9. CASE SigChld BY <1>9 DEF SigChld, sigchld_handler
<1>10. CASE Environment BY <1>10 DEF Environment, ChildDies, TorListens, OtherListens, TorAnswers
<1>11. CASE OldTorExits BY <1>11 DEF OldTorExits
<1>12. CASE Exited BY <1>12 DEF Exited
<1>13. CASE UNCHANGED vars BY <1>13
<1> HIDE DEF BackInv, vars
<1> QED BY SMTT(20), <1>1, <1>2, <1>3, <1>4, <1>5, <1>6, <1>7, <1>8, <1>9, <1>10, <1>11, <1>12, <1>13 DEF
    Next, Main

\* The status of the self-test's child stays there to be read.
LEMMA CetStep ==
  ASSUME BackInv, CetInv, TorInv, [Next]_vars
  PROVE  CetInv'
<1> USE DEF BackInv, CetInv, TorInv, Enforced, MaskSigchld, Ending, To, Return, Cleanup, Stage,
    ChildCleanup, ToLoop, Again, ctrl_send_command, ctrl_read_line, ctrl_read_data, ctrl_read_end,
    ctrl_read_fails, Kill, Fork, Reap, Alive, Children, vars, mainVars, torVars
<1>1. CASE Early BY ZenonT(40), <1>1 DEF Early, Setup, cet_unsupported, cet_fails, cet_fork, cet_wait,
    cet_verdict, cet_broken, Config, ConfigFails, read_pin, PinRead, PinBad, Arena, ArenaFails,
    SaltFails, Derive, DeriveFails, Subkeys, Identity, IdentityFails, Convert,
    prompt_transport_selection, TransportRead, TransportShutdown, Database, DatabaseFails
<1>2. CASE tor_spawn BY Zenon, <1>2 DEF tor_spawn, generate_torrc, tor_fork, fork_fails, wait_gives_up,
    wait_again, wait_for_control_socket, connect_gives_up, connect_again, connect, Spawned,
    verify_fails, SpawnFails
<1>3. CASE terminate_and_reap BY <1>3 DEF terminate_and_reap, terminate, Reaped, poll_again,
    kill_child
<1>4. CASE Late BY Zenon, <1>4 DEF Late, ShutdownSeen, Tui, StageFails, ReadData, tor_authenticate,
    authenticated, auth_read_fails, tor_wait_bootstrap, bootstrapped, boot_again, boot_timeout,
    boot_read_fails, listener_create, create_hs, hs_created, hs_read_fails, AddressChecked,
    epoll_setup, health_check
<1>5. CASE Closing BY <1>5 DEF Closing, cleanup, tor_shutdown, tor_gone, tor_files
<1>6. CASE Quit BY <1>6 DEF Quit
<1>7. CASE signal_handler BY <1>7 DEF signal_handler
<1>8. CASE reap_interrupted BY <1>8 DEF reap_interrupted
<1>9. CASE SigChld BY <1>9 DEF SigChld, sigchld_handler
<1>10. CASE Environment
  <2>1. CASE TorListens BY <1>10, <2>1 DEF Environment, TorListens
  <2>2. CASE OtherListens BY SMTT(20), <1>10, <2>2 DEF Environment, OtherListens
  <2>3. CASE TorAnswers BY SMTT(20), <1>10, <2>3 DEF Environment, TorAnswers
  <2>4. ASSUME NEW c \in Children, ChildDies(c) PROVE CetInv'
    BY <1>10, <2>4 DEF Environment, ChildDies
  <2> HIDE DEF CetInv
  <2> QED BY <1>10, <2>1, <2>2, <2>3, <2>4 DEF Environment
<1>11. CASE OldTorExits BY <1>11 DEF OldTorExits
<1>12. CASE Exited BY <1>12 DEF Exited
<1>13. CASE UNCHANGED vars BY <1>13
<1> HIDE DEF CetInv, vars
<1> QED BY SMTT(20), <1>1, <1>2, <1>3, <1>4, <1>5, <1>6, <1>7, <1>8, <1>9, <1>10, <1>11, <1>12, <1>13 DEF
    Next, Main

\* The terminal is in another mode only while the original one is saved.
LEMMA TermStep ==
  ASSUME BackInv, TermInv, [Next]_vars
  PROVE  TermInv'
<1> USE DEF BackInv, TermInv, CleanedUp, BeforeKeys, KeyStages, BeforeFork, Spawning, WithTor,
    Ending, AfterCleanup, To, Return, Cleanup, Stage, ChildCleanup, ToLoop, Again,
    ctrl_send_command, ctrl_read_line, ctrl_read_data, ctrl_read_end, ctrl_read_fails, vars,
    mainVars, torVars
<1>1. CASE Early
  <2>1. CASE Setup
    <3>1. /\ saved' = tty /\ term' = (IF tty THEN "raw" ELSE term) /\ pc' = "cet" /\ tty' = tty
          /\ ~saved /\ term = "orig"
      BY <2>1 DEF Setup
    <3>2. CASE tty BY <3>1, <3>2
    <3>3. CASE ~tty BY <3>1, <3>3
    <3> QED BY <3>2, <3>3
  <2>2. CASE cet_unsupported BY <2>2 DEF cet_unsupported
  <2>3. CASE cet_fails BY <2>3 DEF cet_fails
  <2>4. CASE cet_fork BY <2>4 DEF cet_fork
  <2>5. CASE cet_wait BY <2>5 DEF cet_wait
  <2>6. CASE cet_verdict BY <2>6 DEF cet_verdict
  <2>7. CASE cet_broken BY <2>7 DEF cet_broken
  <2>8. CASE Config BY <2>8 DEF Config
  <2>9. CASE ConfigFails BY <2>9 DEF ConfigFails
  <2>10. CASE read_pin BY <2>10 DEF read_pin
  <2>11. CASE PinRead BY <2>11 DEF PinRead
  <2>12. CASE PinBad BY <2>12 DEF PinBad
  <2>13. CASE Arena BY <2>13 DEF Arena
  <2>14. CASE ArenaFails BY <2>14 DEF ArenaFails
  <2>15. CASE SaltFails BY <2>15 DEF SaltFails
  <2>16. CASE Derive
    <3>1. PICK p \in {"subkeys", "derive_failed"} : pc' = p /\ UNCHANGED <<tty, term, saved, back>>
      BY <2>16 DEF Derive
    <3> QED BY <2>16, <3>1 DEF Derive
  <2>17. CASE DeriveFails BY <2>17 DEF DeriveFails
  <2>18. CASE Subkeys BY <2>18 DEF Subkeys
  <2>19. CASE Identity BY <2>19 DEF Identity
  <2>20. CASE IdentityFails BY <2>20 DEF IdentityFails
  <2>21. CASE Convert BY <2>21 DEF Convert
  <2>22. CASE prompt_transport_selection BY <2>22 DEF prompt_transport_selection
  <2>23. CASE TransportRead BY <2>23 DEF TransportRead
  <2>24. CASE TransportShutdown BY <2>24 DEF TransportShutdown
  <2>25. CASE Database BY <2>25 DEF Database
  <2>26. CASE DatabaseFails BY <2>26 DEF DatabaseFails
  <2> HIDE DEF TermInv
  <2> QED BY SMTT(20), <1>1, <2>1, <2>2, <2>3, <2>4, <2>5, <2>6, <2>7, <2>8, <2>9, <2>10, <2>11, <2>12,
      <2>13, <2>14, <2>15, <2>16, <2>17, <2>18, <2>19, <2>20, <2>21, <2>22, <2>23, <2>24, <2>25,
      <2>26 DEF Early
<1>2. CASE tor_spawn
  <2>1. CASE generate_torrc BY <2>1 DEF generate_torrc
  <2>2. CASE tor_fork BY <2>2 DEF tor_fork
  <2>3. CASE fork_fails BY <2>3 DEF fork_fails
  <2>4. CASE wait_gives_up BY <2>4 DEF wait_gives_up
  <2>5. CASE wait_again BY <2>5 DEF wait_again
  <2>6. CASE wait_for_control_socket BY <2>6 DEF wait_for_control_socket
  <2>7. CASE connect_gives_up BY <2>7 DEF connect_gives_up
  <2>8. CASE connect_again BY <2>8 DEF connect_again
  <2>9. CASE connect BY <2>9 DEF connect
  <2>10. CASE Spawned BY <2>10 DEF Spawned
  <2>11. CASE verify_fails BY <2>11 DEF verify_fails
  <2>12. CASE SpawnFails BY <2>12 DEF SpawnFails
  <2> HIDE DEF TermInv
  <2> QED BY SMTT(20), <1>2, <2>1, <2>2, <2>3, <2>4, <2>5, <2>6, <2>7, <2>8, <2>9, <2>10, <2>11, <2>12 DEF
      tor_spawn
<1>3. CASE terminate_and_reap
  <2>1. CASE terminate BY <2>1 DEF terminate
  <2>2. CASE Reaped BY <2>2 DEF Reaped
  <2>3. CASE poll_again BY <2>3 DEF poll_again
  <2>4. CASE kill_child BY <2>4 DEF kill_child
  <2> HIDE DEF TermInv
  <2> QED BY <1>3, <2>1, <2>2, <2>3, <2>4 DEF terminate_and_reap
<1>4. CASE Late
  <2>1. CASE ShutdownSeen BY <2>1 DEF ShutdownSeen
  <2>2. CASE Tui BY <2>2 DEF Tui
  <2>3. CASE StageFails BY <2>3 DEF StageFails
  <2>4. CASE ReadData BY <2>4 DEF ReadData
  <2>5. CASE tor_authenticate BY <2>5 DEF tor_authenticate
  <2>6. CASE authenticated BY <2>6 DEF authenticated
  <2>7. CASE auth_read_fails BY <2>7 DEF auth_read_fails
  <2>8. CASE tor_wait_bootstrap BY <2>8 DEF tor_wait_bootstrap
  <2>9. CASE bootstrapped BY <2>9 DEF bootstrapped
  <2>10. CASE boot_again BY <2>10 DEF boot_again
  <2>11. CASE boot_timeout BY <2>11 DEF boot_timeout
  <2>12. CASE boot_read_fails BY <2>12 DEF boot_read_fails
  <2>13. CASE listener_create BY <2>13 DEF listener_create
  <2>14. CASE create_hs BY <2>14 DEF create_hs
  <2>15. CASE hs_created BY <2>15 DEF hs_created
  <2>16. CASE hs_read_fails BY <2>16 DEF hs_read_fails
  <2>17. CASE AddressChecked BY <2>17 DEF AddressChecked
  <2>18. CASE epoll_setup BY <2>18 DEF epoll_setup
  <2>19. CASE health_check BY SMTT(20), <2>19 DEF health_check
  <2> HIDE DEF TermInv
  <2> QED BY SMTT(20), <1>4, <2>1, <2>2, <2>3, <2>4, <2>5, <2>6, <2>7, <2>8, <2>9, <2>10, <2>11, <2>12,
      <2>13, <2>14, <2>15, <2>16, <2>17, <2>18, <2>19 DEF Late
<1>5. CASE Closing
  <2>1. CASE cleanup BY <2>1 DEF cleanup
  <2>2. CASE tor_shutdown BY <2>2 DEF tor_shutdown
  <2>3. CASE tor_gone BY SMTT(20), <2>3 DEF tor_gone
  <2>4. CASE tor_files BY <2>4 DEF tor_files
  <2> HIDE DEF TermInv
  <2> QED BY <1>5, <2>1, <2>2, <2>3, <2>4 DEF Closing
<1>6. CASE Quit BY <1>6 DEF Quit
<1>7. CASE signal_handler BY <1>7 DEF signal_handler
<1>8. CASE reap_interrupted BY <1>8 DEF reap_interrupted
<1>9. CASE SigChld BY SMTT(20), <1>9 DEF SigChld, sigchld_handler
<1>10. CASE Environment BY <1>10 DEF Environment, ChildDies, TorListens, OtherListens, TorAnswers
<1>11. CASE OldTorExits BY <1>11 DEF OldTorExits
<1>12. CASE Exited BY <1>12 DEF Exited
<1>13. CASE UNCHANGED vars BY SMTT(20), <1>13
<1> HIDE DEF TermInv, vars
<1> QED BY SMTT(20), <1>1, <1>2, <1>3, <1>4, <1>5, <1>6, <1>7, <1>8, <1>9, <1>10, <1>11, <1>12, <1>13 DEF
    Next, Main

\* What is acquired at a stage is given back on every way out of it.
LEMMA HeldStep ==
  ASSUME BackInv, HeldInv, [Next]_vars
  PROVE  HeldInv'
<1> USE DEF BackInv, HeldInv, CleanedUp, Things, InArena, arena_destroy, WipedByHealthCheck,
    BeforeKeys, KeyStages, BeforeFork, Spawning, WithTor, Ending, AfterCleanup, To, Return,
    Cleanup, Stage, ChildCleanup, ToLoop, Again, ctrl_send_command, ctrl_read_line, ctrl_read_data,
    ctrl_read_end, ctrl_read_fails, vars, mainVars, torVars
<1>1. CASE Early BY ZenonT(40), <1>1 DEF Early, Setup, cet_unsupported, cet_fails, cet_fork, cet_wait,
    cet_verdict, cet_broken, Config, ConfigFails, read_pin, PinRead, PinBad, Arena, ArenaFails,
    SaltFails, Derive, DeriveFails, Subkeys, Identity, IdentityFails, Convert,
    prompt_transport_selection, TransportRead, TransportShutdown, Database, DatabaseFails
<1>2. CASE tor_spawn BY ZenonT(40), <1>2 DEF tor_spawn, generate_torrc, tor_fork, fork_fails, wait_gives_up,
    wait_again, wait_for_control_socket, connect_gives_up, connect_again, connect, Spawned,
    verify_fails, SpawnFails
<1>3. CASE terminate_and_reap BY Zenon, <1>3 DEF terminate_and_reap, terminate, Reaped, poll_again,
    kill_child
<1>4. CASE Late
  <2>1. CASE ShutdownSeen BY <2>1 DEF ShutdownSeen
  <2>2. CASE Tui BY <2>2 DEF Tui
  <2>3. CASE StageFails BY <2>3 DEF StageFails
  <2>4. CASE ReadData BY <2>4 DEF ReadData
  <2>5. CASE tor_authenticate BY <2>5 DEF tor_authenticate
  <2>6. CASE authenticated BY <2>6 DEF authenticated
  <2>7. CASE auth_read_fails BY SMTT(20), <2>7 DEF auth_read_fails
  <2>8. CASE tor_wait_bootstrap BY SMTT(20), <2>8 DEF tor_wait_bootstrap
  <2>9. CASE bootstrapped BY SMTT(20), <2>9 DEF bootstrapped
  <2>10. CASE boot_again BY SMTT(20), <2>10 DEF boot_again
  <2>11. CASE boot_timeout BY SMTT(20), <2>11 DEF boot_timeout
  <2>12. CASE boot_read_fails BY <2>12 DEF boot_read_fails
  <2>13. CASE listener_create BY SMTT(20), <2>13 DEF listener_create
  <2>14. CASE create_hs BY SMTT(20), <2>14 DEF create_hs
  <2>15. CASE hs_created BY SMTT(20), <2>15 DEF hs_created
  <2>16. CASE hs_read_fails BY SMTT(20), <2>16 DEF hs_read_fails
  <2>17. CASE AddressChecked BY SMTT(20), <2>17 DEF AddressChecked
  <2>18. CASE epoll_setup BY SMTT(20), <2>18 DEF epoll_setup
  <2>19. CASE health_check BY <2>19 DEF health_check
  <2> HIDE DEF HeldInv
  <2> QED BY <1>4, <2>1, <2>2, <2>3, <2>4, <2>5, <2>6, <2>7, <2>8, <2>9, <2>10, <2>11, <2>12,
      <2>13, <2>14, <2>15, <2>16, <2>17, <2>18, <2>19 DEF Late
<1>5. CASE Closing BY ZenonT(40), <1>5 DEF Closing, cleanup, tor_shutdown, tor_gone, tor_files
<1>6. CASE Quit BY <1>6 DEF Quit
<1>7. CASE signal_handler BY <1>7 DEF signal_handler
<1>8. CASE reap_interrupted BY SMTT(20), <1>8 DEF reap_interrupted
<1>9. CASE SigChld BY SMTT(20), <1>9 DEF SigChld, sigchld_handler
<1>10. CASE Environment BY SMTT(20), <1>10 DEF Environment, ChildDies, TorListens, OtherListens, TorAnswers
<1>11. CASE OldTorExits BY SMTT(20), <1>11 DEF OldTorExits
<1>12. CASE Exited BY SMTT(20), <1>12 DEF Exited
<1>13. CASE UNCHANGED vars BY SMTT(20), <1>13
<1> HIDE DEF HeldInv, vars
<1> QED BY <1>1, <1>2, <1>3, <1>4, <1>5, <1>6, <1>7, <1>8, <1>9, <1>10, <1>11, <1>12, <1>13 DEF
    Next, Main

\* Up to the database nothing is done about Tor.
LEMMA EarlyFrame ==
  ASSUME TorInv, Early
  PROVE  /\ pc \in BeforeFork /\ pc \notin {"torrc", "fork"}
         /\ pc' \in (BeforeFork \ {"start", "fork"}) \union {"cleanup", "exited"}
         /\ proc' \in [Children -> {"none", "up", "zombie", "reaped"}]
         /\ proc'["tor"] = proc["tor"]
         /\ UNCHANGED <<g_tor_died, sig, left, tor_pid, back, ctrl, cmds, replies>>
<1> USE DEF BeforeKeys, KeyStages, BeforeFork, To, Return, Cleanup, Stage, Fork, Reap, Alive,
    Children, torVars, TorInv
<1>1. CASE Setup BY <1>1 DEF Setup
<1>2. CASE cet_unsupported BY <1>2 DEF cet_unsupported
<1>3. CASE cet_fails BY <1>3 DEF cet_fails
<1>4. CASE cet_fork BY <1>4 DEF cet_fork
<1>5. CASE cet_wait BY <1>5 DEF cet_wait
<1>6. CASE cet_verdict BY <1>6 DEF cet_verdict
<1>7. CASE cet_broken BY <1>7 DEF cet_broken
<1>8. CASE Config BY SMTT(20), <1>8 DEF Config
<1>9. CASE ConfigFails BY <1>9 DEF ConfigFails
<1>10. CASE read_pin BY <1>10 DEF read_pin
<1>11. CASE PinRead BY <1>11 DEF PinRead
<1>12. CASE PinBad BY SMTT(20), <1>12 DEF PinBad
<1>13. CASE Arena BY <1>13 DEF Arena
<1>14. CASE ArenaFails BY <1>14 DEF ArenaFails
<1>15. CASE SaltFails BY <1>15 DEF SaltFails
<1>16. CASE Derive BY <1>16 DEF Derive
<1>17. CASE DeriveFails BY <1>17 DEF DeriveFails
<1>18. CASE Subkeys BY <1>18 DEF Subkeys
<1>19. CASE Identity BY SMTT(20), <1>19 DEF Identity
<1>20. CASE IdentityFails BY <1>20 DEF IdentityFails
<1>21. CASE Convert BY <1>21 DEF Convert
<1>22. CASE prompt_transport_selection BY SMTT(20), <1>22 DEF prompt_transport_selection
<1>23. CASE TransportRead BY SMTT(20), <1>23 DEF TransportRead
<1>24. CASE TransportShutdown BY SMTT(20), <1>24 DEF TransportShutdown
<1>25. CASE Database BY SMTT(20), <1>25 DEF Database
<1>26. CASE DatabaseFails BY SMTT(20), <1>26 DEF DatabaseFails
<1> QED BY ZenonT(40), <1>1, <1>2, <1>3, <1>4, <1>5, <1>6, <1>7, <1>8, <1>9, <1>10, <1>11, <1>12, <1>13, <1>14,
    <1>15, <1>16, <1>17, <1>18, <1>19, <1>20, <1>21, <1>22, <1>23, <1>24, <1>25, <1>26 DEF Early

\* Tor's PID is forgotten only once Tor is gone, or was sent SIGKILL.
LEMMA TorStep ==
  ASSUME BackInv, TorInv, [Next]_vars
  PROVE  TorInv'
<1>1. CASE Early
  <2>1. pc \in BeforeFork /\ pc' \in (BeforeFork \ {"start", "fork"}) \union {"cleanup", "exited"}
    BY <1>1, EarlyFrame
  <2>2. /\ proc' \in [Children -> {"none", "up", "zombie", "reaped"}]
        /\ proc'["tor"] = proc["tor"]
        /\ UNCHANGED <<g_tor_died, sig, left, tor_pid, back, ctrl, cmds, replies>>
    BY <1>1, EarlyFrame
  <2>3. pc' \notin Spawning \union WithTor \union {"fork", "reap", "shutdown", "spawn_failed", "tor_gone", "tor_files"}
    BY <2>1 DEF BeforeKeys, KeyStages, BeforeFork, Spawning, WithTor
  <2>4. pc # "verify" /\ pc' \notin Ending
    BY SMTT(20), <2>1 DEF BeforeKeys, KeyStages, BeforeFork, Ending
  <2> QED BY <2>1, <2>2, <2>3, <2>4 DEF TorInv, TorDone, WithTor
<1> USE DEF BackInv, TorInv, TorDone, tor_dead, cleanup_stale_tor_dirs, is_our_stale_entry,
    BeforeKeys, KeyStages, BeforeFork, Spawning, WithTor, Ending, AfterCleanup, To, Return,
    Cleanup, Stage, ChildCleanup, ToLoop, Again, ctrl_send_command, ctrl_read_line, ctrl_read_data,
    ctrl_read_end, ctrl_read_fails, Kill, Fork, Reap, Alive, Children, vars, mainVars, torVars
<1>2. CASE tor_spawn
  <2>1. CASE generate_torrc BY SMTT(20), <2>1 DEF generate_torrc
  <2>2. CASE tor_fork BY SMTT(20), <2>2 DEF tor_fork
  <2>3. CASE fork_fails BY SMTT(20), <2>3 DEF fork_fails
  <2>4. CASE wait_gives_up BY SMTT(20), <2>4 DEF wait_gives_up
  <2>5. CASE wait_again BY SMTT(20), <2>5 DEF wait_again
  <2>6. CASE wait_for_control_socket BY SMTT(20), <2>6 DEF wait_for_control_socket
  <2>7. CASE connect_gives_up BY SMTT(20), <2>7 DEF connect_gives_up
  <2>8. CASE connect_again BY SMTT(20), <2>8 DEF connect_again
  <2>9. CASE connect BY SMTT(20), <2>9 DEF connect
  <2>10. CASE Spawned BY SMTT(20), <2>10 DEF Spawned
  <2>11. CASE verify_fails BY SMTT(20), <2>11 DEF verify_fails
  <2>12. CASE SpawnFails BY SMTT(20), <2>12 DEF SpawnFails
  <2> HIDE DEF TorInv
  <2> QED BY <1>2, <2>1, <2>2, <2>3, <2>4, <2>5, <2>6, <2>7, <2>8, <2>9, <2>10, <2>11, <2>12 DEF
      tor_spawn
<1>3. CASE terminate_and_reap
  <2>1. CASE terminate BY SMTT(20), <2>1 DEF terminate
  <2>2. CASE Reaped
    <3>1. /\ proc' = [proc EXCEPT !["tor"] = "reaped"] /\ pc' = back
          /\ back \in {"spawn_failed", "tor_gone"}
      BY SMTT(20), <2>2 DEF Reaped
    <3>2. proc' \in [Children -> {"none", "up", "zombie", "reaped"}] /\ proc'["tor"] = "reaped"
      BY SMTT(20), <3>1
    <3>3. UNCHANGED <<left, sig, g_tor_died, tor_pid>> /\ proc["tor"] # "none" BY SMTT(20), <2>2 DEF Reaped
    <3> QED BY SMTT(20), <3>1, <3>2, <3>3
  <2>3. CASE poll_again BY SMTT(20), <2>3 DEF poll_again
  <2>4. CASE kill_child BY SMTT(20), <2>4 DEF kill_child
  <2> HIDE DEF TorInv
  <2> QED BY <1>3, <2>1, <2>2, <2>3, <2>4 DEF terminate_and_reap
<1>4. CASE Late
  <2>1. CASE ShutdownSeen BY SMTT(20), <2>1 DEF ShutdownSeen
  <2>2. CASE Tui BY SMTT(20), <2>2 DEF Tui
  <2>3. CASE StageFails BY SMTT(20), <2>3 DEF StageFails
  <2>4. CASE ReadData BY SMTT(20), <2>4 DEF ReadData
  <2>5. CASE tor_authenticate BY SMTT(20), <2>5 DEF tor_authenticate
  <2>6. CASE authenticated BY SMTT(20), <2>6 DEF authenticated
  <2>7. CASE auth_read_fails
    <3>1. UNCHANGED <<proc, g_tor_died, sig>> BY SMTT(20), <2>7 DEF auth_read_fails
    <3> QED BY SMTT(20), <2>7, <3>1 DEF auth_read_fails
  <2>8. CASE tor_wait_bootstrap BY SMTT(20), <2>8 DEF tor_wait_bootstrap
  <2>9. CASE bootstrapped BY SMTT(20), <2>9 DEF bootstrapped
  <2>10. CASE boot_again BY SMTT(20), <2>10 DEF boot_again
  <2>11. CASE boot_timeout BY SMTT(20), <2>11 DEF boot_timeout
  <2>12. CASE boot_read_fails
    <3>1. UNCHANGED <<proc, g_tor_died, sig>> BY SMTT(20), <2>12 DEF boot_read_fails
    <3> QED BY SMTT(20), <2>12, <3>1 DEF boot_read_fails
  <2>13. CASE listener_create BY SMTT(20), <2>13 DEF listener_create
  <2>14. CASE create_hs BY SMTT(20), <2>14 DEF create_hs
  <2>15. CASE hs_created BY SMTT(20), <2>15 DEF hs_created
  <2>16. CASE hs_read_fails
    <3>1. UNCHANGED <<proc, g_tor_died, sig>> BY SMTT(20), <2>16 DEF hs_read_fails
    <3> QED BY SMTT(20), <2>16, <3>1 DEF hs_read_fails
  <2>17. CASE AddressChecked BY SMTT(20), <2>17 DEF AddressChecked
  <2>18. CASE epoll_setup BY SMTT(20), <2>18 DEF epoll_setup
  <2>19. CASE health_check BY SMTT(20), <2>19 DEF health_check
  <2> HIDE DEF TorInv
  <2> QED BY <1>4, <2>1, <2>2, <2>3, <2>4, <2>5, <2>6, <2>7, <2>8, <2>9, <2>10, <2>11, <2>12,
      <2>13, <2>14, <2>15, <2>16, <2>17, <2>18, <2>19 DEF Late
<1>5. CASE Closing
  <2>1. CASE cleanup BY SMTT(20), <2>1 DEF cleanup
  <2>2. CASE tor_shutdown BY SMTT(20), <2>2 DEF tor_shutdown
  <2>3. CASE tor_gone BY SMTT(20), <2>3 DEF tor_gone
  <2>4. CASE tor_files BY SMTT(20), <2>4 DEF tor_files
  <2> HIDE DEF TorInv
  <2> QED BY <1>5, <2>1, <2>2, <2>3, <2>4 DEF Closing
<1>6. CASE Quit BY SMTT(20), <1>6 DEF Quit
<1>7. CASE signal_handler BY SMTT(20), <1>7 DEF signal_handler
<1>8. CASE reap_interrupted BY <1>8 DEF reap_interrupted
<1>9. CASE SigChld BY Zenon, <1>9 DEF SigChld, sigchld_handler
<1>10. CASE Environment
  <2>1. CASE TorListens BY SMTT(20), <1>10, <2>1 DEF Environment, TorListens
  <2>2. CASE OtherListens BY SMTT(20), <1>10, <2>2 DEF Environment, OtherListens
  <2>3. CASE TorAnswers BY SMTT(20), <1>10, <2>3 DEF Environment, TorAnswers
  <2>4. ASSUME NEW c \in Children, ChildDies(c) PROVE TorInv'
    BY SMTT(20), <1>10, <2>4 DEF Environment, ChildDies
  <2> HIDE DEF TorInv
  <2> QED BY SMTT(20), <1>10, <2>1, <2>2, <2>3, <2>4 DEF Environment
<1>11. CASE OldTorExits BY SMTT(20), <1>11 DEF OldTorExits
<1>12. CASE Exited BY SMTT(20), <1>12 DEF Exited
<1>13. CASE UNCHANGED vars BY <1>13
<1> HIDE DEF TorInv, vars
<1> QED BY <1>1, <1>2, <1>3, <1>4, <1>5, <1>6, <1>7, <1>8, <1>9, <1>10, <1>11, <1>12, <1>13 DEF
    Next, Main

\* A command is sent on a connection with nothing on its way.
LEMMA AwaitingSent ==
  ASSUME NEW c
  PROVE  Awaiting(c, Append(<<>>, c), <<>>)
BY SMTT(20) DEF Awaiting

\* The line that is not an error is the last one, or leaves the last one.
LEMMA AwaitingRead ==
  ASSUME NEW c, NEW cs, NEW rs, Awaiting(c, cs, rs), rs # <<>>
  PROVE  /\ cs = <<>>
         /\ Head(rs)[2] = "last" => Tail(rs) = <<>>
         /\ Head(rs)[2] \notin {"last", "error"} => Awaiting(c, cs, Tail(rs))
<1>1. cs = <<>> BY DEF Awaiting
<1>2. CASE \E l \in {"last", "error"} : rs = << <<c, l>> >>
  BY <1>1, <1>2 DEF Awaiting
<1>3. CASE \E l \in {"full", "part", "ours", "strange"} : rs = << <<c, l>>, <<c, "last">> >>
  <2>1. PICK l \in {"full", "part", "ours", "strange"} : rs = << <<c, l>>, <<c, "last">> >> BY <1>3
  <2>2. Head(rs)[2] = l /\ Tail(rs) = << <<c, "last">> >> BY <2>1
  <2> QED BY <1>1, <2>1, <2>2 DEF Awaiting
<1> QED BY <1>1, <1>2, <1>3 DEF Awaiting

\* Tor answers the command it was sent.
LEMMA AwaitingAnswered ==
  ASSUME NEW c \in Commands, NEW cs, NEW rs, Awaiting(c, cs, rs), cs # <<>>,
         NEW a \in Answers(Head(cs))
  PROVE  Awaiting(c, Tail(cs), rs \o [i \in DOMAIN a |-> <<Head(cs), a[i]>>])
<1>1. cs = <<c>> /\ rs = <<>> BY DEF Awaiting
<1>2. Head(cs) = c /\ Tail(cs) = <<>> BY <1>1
<1> DEFINE t == [i \in DOMAIN a |-> <<c, a[i]>>]
<1>3. CASE \E l \in {"last", "error"} : a = <<l>>
  <2>1. PICK l \in {"last", "error"} : a = <<l>> BY <1>3
  <2>2. t = << <<c, l>> >> BY <2>1
  <2>3. rs \o t = << <<c, l>> >> BY <1>1, <2>2
  <2> QED BY <1>2, <2>3 DEF Awaiting
<1>4. CASE \E l \in {"full", "part", "ours", "strange"} : a = <<l, "last">>
  <2>1. PICK l \in {"full", "part", "ours", "strange"} : a = <<l, "last">> BY <1>4
  <2>2. t = << <<c, l>>, <<c, "last">> >> BY <2>1
  <2>3. rs \o t = << <<c, l>>, <<c, "last">> >> BY <1>1, <2>2
  <2> QED BY SMTT(20), <1>2, <2>3 DEF Awaiting
<1> QED BY <1>2, <1>3, <1>4 DEF Answers, Commands
\* At most the answer to the command last sent is on the connection.
LEMMA ConnStep ==
  ASSUME BackInv, TorInv, ConnInv, [Next]_vars
  PROVE  ConnInv'
<1>1. CASE Early
  <2>1. pc \in BeforeFork /\ pc' \in (BeforeFork \ {"start", "fork"}) \union {"cleanup", "exited"}
    BY <1>1, EarlyFrame
  <2>2. /\ proc' \in [Children -> {"none", "up", "zombie", "reaped"}]
        /\ proc'["tor"] = proc["tor"]
        /\ UNCHANGED <<g_tor_died, sig, left, tor_pid, back, ctrl, cmds, replies>>
    BY <1>1, EarlyFrame
  <2>3. pc' \notin Spawning \union WithTor \union {"fork", "reap", "shutdown", "spawn_failed", "tor_gone", "tor_files"}
    BY <2>1 DEF BeforeKeys, KeyStages, BeforeFork, Spawning, WithTor
  <2>4. pc # "verify" /\ pc' \notin Ending
    BY SMTT(20), <2>1 DEF BeforeKeys, KeyStages, BeforeFork, Ending
  <2> QED BY <2>1, <2>2, <2>3, <2>4 DEF ConnInv, Quiet, WithTor, Spawning
<1> USE DEF BackInv, ConnInv, Quiet, BeforeKeys, KeyStages, BeforeFork, Spawning, WithTor, Ending,
    AfterCleanup, To, Return, Cleanup, Stage, ChildCleanup, ToLoop, Again, tor_verify_peer, vars,
    mainVars, torVars
<1>2. CASE tor_spawn
  <2>1. CASE generate_torrc BY SMTT(20), <2>1 DEF generate_torrc
  <2>2. CASE tor_fork BY SMTT(20), <2>2 DEF tor_fork
  <2>3. CASE fork_fails BY SMTT(20), <2>3 DEF fork_fails
  <2>4. CASE wait_gives_up BY SMTT(20), <2>4 DEF wait_gives_up
  <2>5. CASE wait_again BY SMTT(20), <2>5 DEF wait_again
  <2>6. CASE wait_for_control_socket BY SMTT(20), <2>6 DEF wait_for_control_socket
  <2>7. CASE connect_gives_up BY SMTT(20), <2>7 DEF connect_gives_up
  <2>8. CASE connect_again BY SMTT(20), <2>8 DEF connect_again
  <2>9. CASE connect BY SMTT(20), <2>9 DEF connect
  <2>10. CASE Spawned BY SMTT(20), <2>10 DEF Spawned
  <2>11. CASE verify_fails BY SMTT(20), <2>11 DEF verify_fails
  <2>12. CASE SpawnFails BY SMTT(20), <2>12 DEF SpawnFails
  <2> HIDE DEF ConnInv
  <2> QED BY SMTT(20), <1>2, <2>1, <2>2, <2>3, <2>4, <2>5, <2>6, <2>7, <2>8, <2>9, <2>10, <2>11, <2>12 DEF
      tor_spawn
<1>3. CASE terminate_and_reap BY SMTT(20), <1>3 DEF terminate_and_reap, terminate, Reaped, poll_again,
    kill_child
<1>4. CASE Late
  <2>1. CASE ShutdownSeen BY SMTT(20), <2>1 DEF ShutdownSeen
  <2>2. CASE Tui BY SMTT(20), <2>2 DEF Tui
  <2>3. CASE StageFails BY SMTT(20), <2>3 DEF StageFails
  <2>4. CASE ReadData
    <3>1. /\ replies # <<>> /\ Head(replies)[2] \notin {"last", "error"}
          /\ replies' = Tail(replies) /\ UNCHANGED <<ctrl, cmds>>
      BY SMTT(20), <2>4 DEF ReadData, ctrl_read_data, ctrl_read_end, ctrl_read_line, EndOfReply, Lines
    <3> QED BY SMTT(20), <2>4, <3>1, AwaitingRead DEF ReadData
  <2>5. CASE tor_authenticate
    <3>1. /\ cmds = <<>> /\ replies = <<>> /\ cmds' = Append(cmds, "AUTHENTICATE")
          /\ UNCHANGED <<ctrl, replies>>
      BY SMTT(20), <2>5 DEF tor_authenticate, ctrl_send_command
    <3> QED BY SMTT(20), <2>5, <3>1, AwaitingSent DEF tor_authenticate
  <2>6. CASE authenticated
    <3>1. /\ replies # <<>> /\ Head(replies)[2] = "last" /\ replies' = Tail(replies)
          /\ UNCHANGED <<ctrl, cmds>>
      BY SMTT(20), <2>6 DEF authenticated, ctrl_read_data, ctrl_read_end, ctrl_read_line, EndOfReply, Lines
    <3>2. Awaiting("AUTHENTICATE", cmds, replies) BY <2>6 DEF authenticated
    <3>3. cmds = <<>> /\ Tail(replies) = <<>> BY ZenonT(40), <3>1, <3>2, AwaitingRead
    <3> QED BY SMTT(20), <2>6, <3>1, <3>3 DEF authenticated
  <2>7. CASE auth_read_fails
    <3>1. ctrl' = ctrl BY SMTT(20), <2>7 DEF auth_read_fails, ctrl_read_fails, ctrl_read_line
    <3> QED BY <2>7, <3>1 DEF auth_read_fails
  <2>8. CASE tor_wait_bootstrap
    <3>1. /\ cmds = <<>> /\ replies = <<>> /\ cmds' = Append(cmds, "GETINFO")
          /\ UNCHANGED <<ctrl, replies>>
      BY SMTT(20), <2>8 DEF tor_wait_bootstrap, ctrl_send_command
    <3> QED BY SMTT(20), <2>8, <3>1, AwaitingSent DEF tor_wait_bootstrap
  <2>9. CASE bootstrapped
    <3>1. /\ replies # <<>> /\ Head(replies)[2] = "last" /\ replies' = Tail(replies)
          /\ UNCHANGED <<ctrl, cmds>>
      BY SMTT(20), <2>9 DEF bootstrapped, ctrl_read_data, ctrl_read_end, ctrl_read_line, EndOfReply, Lines
    <3>2. Awaiting("GETINFO", cmds, replies) BY <2>9 DEF bootstrapped
    <3>3. cmds = <<>> /\ Tail(replies) = <<>> BY ZenonT(40), <3>1, <3>2, AwaitingRead
    <3> QED BY SMTT(20), <2>9, <3>1, <3>3 DEF bootstrapped
  <2>10. CASE boot_again
    <3>1. /\ replies # <<>> /\ Head(replies)[2] = "last" /\ replies' = Tail(replies)
          /\ UNCHANGED <<ctrl, cmds>>
      BY SMTT(20), <2>10 DEF boot_again, ctrl_read_data, ctrl_read_end, ctrl_read_line, EndOfReply, Lines
    <3>2. Awaiting("GETINFO", cmds, replies) BY SMTT(20), <2>10 DEF boot_again
    <3>3. cmds = <<>> /\ Tail(replies) = <<>> BY Zenon, <3>1, <3>2, AwaitingRead
    <3> QED BY <2>10, <3>1, <3>3 DEF boot_again
  <2>11. CASE boot_timeout
    <3>1. /\ replies # <<>> /\ Head(replies)[2] = "last" /\ replies' = Tail(replies)
          /\ UNCHANGED <<ctrl, cmds>>
      BY SMTT(20), <2>11 DEF boot_timeout, ctrl_read_data, ctrl_read_end, ctrl_read_line, EndOfReply, Lines
    <3>2. Awaiting("GETINFO", cmds, replies) BY SMTT(20), <2>11 DEF boot_timeout
    <3>3. cmds = <<>> /\ Tail(replies) = <<>> BY Zenon, <3>1, <3>2, AwaitingRead
    <3> QED BY SMTT(20), <2>11, <3>1, <3>3 DEF boot_timeout
  <2>12. CASE boot_read_fails
    <3>1. ctrl' = ctrl BY <2>12 DEF boot_read_fails, ctrl_read_fails, ctrl_read_line
    <3> QED BY <2>12, <3>1 DEF boot_read_fails
  <2>13. CASE listener_create BY SMTT(20), <2>13 DEF listener_create
  <2>14. CASE create_hs
    <3>1. /\ cmds = <<>> /\ replies = <<>> /\ cmds' = Append(cmds, "ADD_ONION")
          /\ UNCHANGED <<ctrl, replies>>
      BY SMTT(20), <2>14 DEF create_hs, ctrl_send_command
    <3> QED BY SMTT(20), <2>14, <3>1, AwaitingSent DEF create_hs
  <2>15. CASE hs_created
    <3>1. /\ replies # <<>> /\ Head(replies)[2] = "last" /\ replies' = Tail(replies)
          /\ UNCHANGED <<ctrl, cmds>>
      BY SMTT(20), <2>15 DEF hs_created, ctrl_read_data, ctrl_read_end, ctrl_read_line, EndOfReply, Lines
    <3>2. Awaiting("ADD_ONION", cmds, replies) BY <2>15 DEF hs_created
    <3>3. cmds = <<>> /\ Tail(replies) = <<>> BY Zenon, <3>1, <3>2, AwaitingRead
    <3> QED BY SMTT(20), <2>15, <3>1, <3>3 DEF hs_created
  <2>16. CASE hs_read_fails
    <3>1. ctrl' = ctrl BY SMTT(20), <2>16 DEF hs_read_fails, ctrl_read_fails, ctrl_read_line
    <3> QED BY SMTT(20), <2>16, <3>1 DEF hs_read_fails
  <2>17. CASE AddressChecked BY SMTT(20), <2>17 DEF AddressChecked
  <2>18. CASE epoll_setup BY SMTT(20), <2>18 DEF epoll_setup
  <2>19. CASE health_check BY SMTT(20), <2>19 DEF health_check
  <2> HIDE DEF ConnInv
  <2> QED BY SMTT(20), <1>4, <2>1, <2>2, <2>3, <2>4, <2>5, <2>6, <2>7, <2>8, <2>9, <2>10, <2>11, <2>12,
      <2>13, <2>14, <2>15, <2>16, <2>17, <2>18, <2>19 DEF Late
<1>5. CASE Closing BY SMTT(20), <1>5 DEF Closing, cleanup, tor_shutdown, tor_gone, tor_files
<1>6. CASE Quit BY SMTT(20), <1>6 DEF Quit
<1>7. CASE signal_handler BY SMTT(20), <1>7 DEF signal_handler
<1>8. CASE reap_interrupted BY SMTT(20), <1>8 DEF reap_interrupted
<1>9. CASE SigChld BY SMTT(20), <1>9 DEF SigChld, sigchld_handler
<1>10. CASE Environment
  <2>1. CASE TorListens BY SMTT(20), <1>10, <2>1 DEF Environment, TorListens
  <2>2. CASE OtherListens BY SMTT(20), <1>10, <2>2 DEF Environment, OtherListens
  <2>3. CASE TorAnswers
    <3>1. PICK a \in Answers(Head(cmds)) :
            replies' = replies \o [n \in DOMAIN a |-> <<Head(cmds), a[n]>>]
      BY ZenonT(40), <2>3 DEF TorAnswers
    <3>2. cmds # <<>> /\ cmds' = Tail(cmds) /\ UNCHANGED <<mainVars, ctrl>>
      BY SMTT(20), <1>10, <2>3 DEF Environment, TorAnswers
    <3>3. ASSUME NEW c \in Commands, Awaiting(c, cmds, replies) PROVE Awaiting(c, cmds', replies')
      BY SMTT(20), <3>1, <3>2, <3>3, AwaitingAnswered
    <3> QED BY <3>2, <3>3 DEF Commands
  <2>4. ASSUME NEW c \in Children, ChildDies(c) PROVE ConnInv'
    BY SMTT(20), <1>10, <2>4 DEF Environment, ChildDies
  <2> HIDE DEF ConnInv
  <2> QED BY SMTT(20), <1>10, <2>1, <2>2, <2>3, <2>4 DEF Environment
<1>11. CASE OldTorExits BY SMTT(20), <1>11 DEF OldTorExits
<1>12. CASE Exited BY SMTT(20), <1>12 DEF Exited
<1>13. CASE UNCHANGED vars BY <1>13
<1> HIDE DEF ConnInv, vars
<1> QED BY <1>1, <1>2, <1>3, <1>4, <1>5, <1>6, <1>7, <1>8, <1>9, <1>10, <1>11, <1>12, <1>13 DEF
    Next, Main

-----------------------------------------------------------------------------
(* The theorems.                                                            *)

\* The invariant is inductive.
LEMMA Invariance == Spec => []IInv
<1>1. Init => IInv
  BY DEF Init, TorInit, IInv, BackInv, CetInv, TermInv, HeldInv, TorInv, TorDone, ConnInv, CleanedUp, Quiet,
    BeforeKeys, KeyStages, BeforeFork, Spawning, WithTor, Ending, AfterCleanup, Children
<1>2. IInv /\ [Next]_vars => IInv'
  BY BackStep, CetStep, TermStep, HeldStep, TorStep, ConnStep DEF IInv
<1> QED BY <1>1, <1>2, PTL DEF Spec

\* The self-test reports a broken shadow stack only when the status of its
\* child contradicts the kernel, whatever the SIGCHLD handler does between.
THEOREM CetStatus == Spec => []CetStatusKept
<1>1. IInv => CetStatusKept BY DEF IInv, CetInv, CetStatusKept
<1> QED BY <1>1, Invariance, PTL

\* However the process ends, the terminal, the keys, the buffers, the files
\* and the children are given back, and no key outlives its use.
THEOREM Released == Spec => []AllReleased
<1>1. IInv => AllReleased
  <2> SUFFICES ASSUME IInv PROVE AllReleased BY SMTT(20)
  <2>1. ASSUME pc = "exited"
        PROVE  /\ held = {} /\ term = "orig"
               /\ proc["cet"] \in {"none", "reaped"} /\ TorDone
               /\ proc["tor"] = "reaped" => left # "dead"
    BY SMTT(20), <2>1 DEF IInv, TermInv, HeldInv, CetInv, TorInv, CleanedUp, AfterCleanup
  <2>2. proc["tor"] # "none" => held \intersect {"pin", "ed", "unlock"} = {}
    BY DEF IInv, HeldInv, TorInv
  <2>3. pc \in {"address", "epoll", "loop"} => "master" \notin held
    BY SMTT(20) DEF IInv, HeldInv
  <2> QED BY <2>1, <2>2, <2>3 DEF AllReleased, Children, TorDone
<1> QED BY <1>1, Invariance, PTL

\* Only the Tor this process forked is sent a command, and what is read in
\* answer to a command is its answer.
THEOREM TorAnswersUs == Spec => []OwnTorAnswers
<1>1. IInv => OwnTorAnswers
  <2> SUFFICES ASSUME IInv PROVE OwnTorAnswers OBVIOUS
  <2>1. tor_pid \/ cmds # <<>> => ctrl # "other"
    BY DEF IInv, ConnInv, Spawning
  <2>2. ASSUME NEW c, Awaiting(c, cmds, replies)
        PROVE  \A i \in DOMAIN replies : replies[i][1] = c
    BY <2>2 DEF Awaiting
  <2>3. pc \in Quiet => replies = <<>> /\ cmds = <<>>
    BY DEF IInv, ConnInv
  <2> QED BY <2>1, <2>2, <2>3 DEF IInv, ConnInv, OwnTorAnswers, Quiet
<1> QED BY <1>1, Invariance, PTL
=============================================================================
