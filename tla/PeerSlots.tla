----------------------------- MODULE PeerSlots ------------------------------
(***************************************************************************)
(* The peer slots of one node: how event_loop.c and stdin_handler.c drive   *)
(* the state machine of state_machine.c, the trust-on-first-use (TOFU)      *)
(* decision with its approval token, the contact keys it reads and writes,  *)
(* the active peer, and the death of Tor.                                   *)
(*                                                                          *)
(* One action is one pass of the single-threaded loop through one handler.  *)
(* Remote peers, the clock and the user are the environment: a handshake    *)
(* may present any onion address with any static key whose claim verifies,  *)
(* a timeout may expire whenever its state lasts, a call may fail wherever  *)
(* the code tests for failure.  A failure that the code rolls back          *)
(* completely (a refused accept, a /connect that does not get through)      *)
(* leaves every variable unchanged and is a stuttering step.                *)
(***************************************************************************)
EXTENDS Naturals, Sequences, FiniteSets, StateMachine

CONSTANTS
  NOX_MAX_PEERS,  \* number of slots, 16 in types.h
  Onions,         \* onion addresses of other nodes
  Keys,           \* nonzero static public keys
  MaxEpoch,       \* bound on the TOFU prompts of one run
  TypeAhead,      \* may the user type an answer when no prompt is open?
  MaxTyped,       \* bound on the answers typed and not read yet
  DbFails         \* may a database call fail?

\* Absent values: an empty address, no key, the all-zero key /add stores, and
\* a missing contact row.
CONSTANTS NoOnion, NoKey, ZeroKey, NoContact

ASSUME PeersAssumption == NOX_MAX_PEERS \in Nat \ {0}

ASSUME EpochAssumption == MaxEpoch \in Nat /\ MaxTyped \in Nat

ASSUME SwitchAssumption == TypeAhead \in BOOLEAN /\ DbFails \in BOOLEAN

ASSUME AbsentAssumption ==
  /\ NoOnion \notin Onions
  /\ {NoKey, ZeroKey, NoContact} \intersect Keys = {}
  /\ NoContact # ZeroKey

VARIABLES
  peers,              \* the slots: app_state.peers
  active_peer_idx,    \* slot that receives typed messages, or NoSlot
  active_peer_onion,  \* address shown as the active peer
  tofu_epoch,         \* number of prompts printed so far
  tofu_prompt_epoch,  \* epoch the pending answer is bound to, 0 if none
  tofu_prompt_fp,     \* key the pending answer is bound to
  contacts,           \* contact table: key stored for each address
  ghost_mode,         \* --ghost: no database
  keys,               \* the arena holds our keys and the database is open
  line,               \* typed answers the loop has not read yet, oldest first
  line_seen,          \* history: newest prompt when the oldest of them was typed, 0
                      \* if none was open or an earlier answer was still unread
  approved,           \* history: (address, key) pairs the user ever approved
  flushed             \* history: sessions the offline queue was sent to

prompt == <<tofu_epoch, tofu_prompt_epoch, tofu_prompt_fp>>
active == <<active_peer_idx, active_peer_onion>>
typed == <<line, line_seen>>
vars == <<peers, active, prompt, contacts, ghost_mode, keys, typed, approved, flushed>>

Slots == 1 .. NOX_MAX_PEERS
NoSlot == 0
NoHs == 4   \* no handshake object; otherwise its msg_index, 0 to 3

\* What a slot holds that is in state st, had e as its last TOFU epoch and is
\* otherwise as action_cleanup leaves it.  rs is the static key the handshake learned; the
\* code drops it with the handshake object, here it is kept as history for as
\* long as the session lasts.
ClearedPeer(st, e) ==
  [state |-> st, fd |-> FALSE, hs |-> NoHs, session |-> FALSE, rs |-> NoKey,
   peer_onion |-> NoOnion, connect_target |-> NoOnion,
   tofu_onion |-> NoOnion, tofu_new_key |-> NoKey, tofu_was_zero_key |-> FALSE,
   tofu_epoch |-> e,
   peer_verified |-> FALSE, queue_flushed |-> FALSE, rx_active |-> FALSE]

Init ==
  /\ peers = [s \in Slots |-> ClearedPeer("IDLE", 0)]
  /\ active_peer_idx = NoSlot
  /\ active_peer_onion = NoOnion
  /\ tofu_epoch = 0
  /\ tofu_prompt_epoch = 0
  /\ tofu_prompt_fp = NoKey
  /\ contacts \in [Onions -> Keys \union {ZeroKey, NoContact}]
  /\ ghost_mode \in BOOLEAN
  /\ keys = TRUE
  /\ line = <<>>
  /\ line_seen = 0
  /\ approved = {c \in Onions \X Keys : contacts[c[1]] = c[2]}
  /\ flushed = {}

-----------------------------------------------------------------------------
(* The state machine's actions with an effect on the slot.                  *)

\* sm_dispatch(s, ev) for a row whose action is action_cleanup: nothing is left
\* in the slot but its last TOFU epoch.
action_cleanup(s, ev) ==
  /\ HasRow(peers[s].state, ev)
  /\ peers' = [peers EXCEPT ![s] = ClearedPeer(sm_dispatch(@.state, ev), @.tofu_epoch)]
  /\ active_peer_idx' = IF active_peer_idx = s THEN NoSlot ELSE active_peer_idx
  /\ active_peer_onion' = IF active_peer_idx = s THEN NoOnion ELSE active_peer_onion

\* The prompt of slot s takes the next epoch.  The token an answer is checked
\* against is written only when no earlier prompt awaits its answer.
action_tofu_prompt(key) ==
  /\ tofu_epoch < MaxEpoch
  /\ tofu_epoch' = tofu_epoch + 1
  /\ tofu_prompt_epoch' =
       IF tofu_prompt_epoch = 0 THEN tofu_epoch + 1 ELSE tofu_prompt_epoch
  /\ tofu_prompt_fp' = IF tofu_prompt_epoch = 0 THEN key ELSE tofu_prompt_fp

\* Mutant: the answer is taken for whichever instance is pending.
TokenMatches_Any(p) == p.tofu_epoch # 0

\* The instance in slot p is the one the answer is bound to.
TokenMatches(p) ==
  /\ p.tofu_epoch = tofu_prompt_epoch
  /\ p.tofu_new_key = tofu_prompt_fp

\* Mutant: the approval counts as verification for the session it opens.
TofuSession_Verified(p) ==
  [p EXCEPT !.state = sm_dispatch(p.state, "TOFU_ACCEPTED"),
            !.hs = NoHs, !.session = TRUE, !.queue_flushed = FALSE,
            !.peer_verified = TRUE, !.peer_onion = p.tofu_onion]

\* The session an approved peer gets: unverified for this connection.
TofuSession(p) ==
  [p EXCEPT !.state = sm_dispatch(p.state, "TOFU_ACCEPTED"),
            !.hs = NoHs, !.session = TRUE, !.queue_flushed = FALSE,
            !.peer_verified = FALSE, !.peer_onion = p.tofu_onion]

\* db_add_contact, INSERT OR REPLACE: skipped in ghost mode; an error of the
\* database is reported and otherwise ignored.
db_add_contact(o, k) ==
  \/ ~ghost_mode /\ contacts' = [contacts EXCEPT ![o] = k]
  \/ (ghost_mode \/ DbFails) /\ UNCHANGED contacts

\* The contact is stored first, then the session is set up; when that fails the
\* slot is cleaned, by the nested dispatch of PEER_DISCONNECTED.
action_tofu_accept(s) ==
  /\ TokenMatches(peers[s])
  /\ peers[s].hs # NoHs
  /\ db_add_contact(peers[s].tofu_onion, peers[s].tofu_new_key)
  /\ approved' = approved \union {<<peers[s].tofu_onion, peers[s].tofu_new_key>>}
  /\ \/ /\ peers' = [peers EXCEPT ![s] = TofuSession(@)]
        /\ active_peer_onion' = peers[s].tofu_onion
        /\ UNCHANGED active_peer_idx
     \/ action_cleanup(s, "PEER_DISCONNECTED")

-----------------------------------------------------------------------------
(* Connections.                                                             *)

IsFree(s) == ~peers[s].fd /\ peers[s].state = "IDLE"

\* The scans of event_loop.c and /connect take the first free slot.
FirstFree(s) == IsFree(s) /\ \A r \in 1 .. s - 1 : ~IsFree(r)

Accepted(p) ==
  [p EXCEPT !.fd = TRUE, !.hs = 0, !.state = sm_dispatch(p.state, "PEER_ACCEPTED")]

\* accept4: without keys handshake_init fails and the connection is closed.
AcceptPeer(s) ==
  /\ FirstFree(s)
  /\ keys
  /\ peers' = [peers EXCEPT ![s] = Accepted(@)]
  /\ active_peer_idx' = IF active_peer_idx = NoSlot THEN s ELSE active_peer_idx
  /\ UNCHANGED <<active_peer_onion, prompt, contacts, ghost_mode, keys, typed,
                 approved, flushed>>

Dialled(p, o) ==
  [p EXCEPT !.fd = TRUE, !.hs = 1, !.peer_onion = o, !.connect_target = o,
            !.state = sm_dispatch(p.state, "CONNECT_CMD")]

\* /connect o, up to the handshake's first message on the wire.
ConnectPeer(s, o) ==
  /\ FirstFree(s)
  /\ keys
  /\ \A r \in Slots \ {s} : ~(peers[r].fd /\ peers[r].peer_onion = o)
  /\ peers' = [peers EXCEPT ![s] = Dialled(@, o)]
  /\ active_peer_idx' = s
  /\ active_peer_onion' = o
  /\ UNCHANGED <<prompt, contacts, ghost_mode, keys, typed, approved, flushed>>

\* recv returned 0 or an error, or a send to the peer was cut short.
PeerGone(s) ==
  /\ peers[s].fd
  /\ action_cleanup(s, "PEER_DISCONNECTED")
  /\ UNCHANGED <<prompt, contacts, ghost_mode, keys, typed, approved, flushed>>

\* /disconnect.
UserDisconnect ==
  /\ active_peer_idx # NoSlot
  /\ peers[active_peer_idx].fd
  /\ action_cleanup(active_peer_idx, "PEER_DISCONNECTED")
  /\ UNCHANGED <<prompt, contacts, ghost_mode, keys, typed, approved, flushed>>

\* /switch o: the first slot with that address, if its session is up.
SwitchPeer(s, o) ==
  /\ peers[s].peer_onion = o
  /\ \A r \in 1 .. s - 1 : peers[r].peer_onion # o
  /\ peers[s].fd /\ peers[s].session /\ peers[s].state = "ACTIVE"
  /\ active_peer_idx' = s
  /\ active_peer_onion' = o
  /\ UNCHANGED <<peers, prompt, contacts, ghost_mode, keys, typed, approved, flushed>>

\* /add o: stores the all-zero key, over whatever key the contact had.
AddContact(o) ==
  /\ ~ghost_mode /\ keys
  /\ db_add_contact(o, ZeroKey)
  /\ UNCHANGED <<peers, active, prompt, ghost_mode, keys, typed, approved, flushed>>

-----------------------------------------------------------------------------
(* Handshake frames (type CTRL) of process_peer_frames.                     *)

\* The responder reads the first message and answers it.
HandshakeReply(s) ==
  /\ peers[s].state = "HANDSHAKE_RESP" /\ peers[s].hs = 0
  /\ peers' = [peers EXCEPT ![s] = [@ EXCEPT !.hs = 2]]
  /\ UNCHANGED <<active, prompt, contacts, ghost_mode, keys, typed, approved, flushed>>

\* Reading, answering, allocating or splitting failed, or the claim of the
\* peer did not verify.
HandshakeError(s) ==
  /\ \E ev \in {"HANDSHAKE_ERROR", "ARENA_FAIL"} : action_cleanup(s, ev)
  /\ UNCHANGED <<prompt, contacts, ghost_mode, keys, typed, approved, flushed>>

\* The message that brings msg_index to 3 has been read: the initiator reads
\* message 1 and sends message 2 at once, the responder reads message 2.
Completes(s) ==
  \/ peers[s].state = "HANDSHAKE_INIT" /\ peers[s].hs = 1
  \/ peers[s].state = "HANDSHAKE_RESP" /\ peers[s].hs = 2

\* Mutant: the address dialled is not compared with the address claimed.
TargetMatches_Any(s, o) == o \in Onions

\* An outgoing connection must reach the address it dialled.
TargetMatches(s, o) == peers[s].connect_target \in {NoOnion, o}

\* db_get_contact: no row in ghost mode, and when the database fails.
db_get_contact(o, dbOk) == IF ~ghost_mode /\ dbOk THEN contacts[o] ELSE NoContact

KnownSession(p, o, k) ==
  [p EXCEPT !.hs = NoHs, !.session = TRUE, !.rs = k, !.queue_flushed = FALSE,
            !.peer_verified = TRUE, !.tofu_was_zero_key = FALSE, !.peer_onion = o,
            !.state = sm_dispatch(p.state, "SESSION_READY")]

\* Mutant: a known address is enough, its key is not compared.
HandshakeKnown_AnyKey(s, o, k) ==
  /\ Completes(s) /\ TargetMatches(s, o)
  /\ db_get_contact(o, TRUE) \in Keys
  /\ peers' = [peers EXCEPT ![s] = KnownSession(@, o, k)]
  /\ active_peer_onion' = o
  /\ UNCHANGED <<active_peer_idx, prompt, contacts, ghost_mode, keys, typed,
                 approved, flushed>>

\* A contact presents its stored key: the session is set up at once.
HandshakeKnown(s, o, k) ==
  /\ Completes(s) /\ TargetMatches(s, o)
  /\ db_get_contact(o, TRUE) = k
  /\ peers' = [peers EXCEPT ![s] = KnownSession(@, o, k)]
  /\ active_peer_onion' = o
  /\ UNCHANGED <<active_peer_idx, prompt, contacts, ghost_mode, keys, typed,
                 approved, flushed>>

Prompted(p, o, k, stored, e) ==
  [p EXCEPT !.hs = 3, !.rs = k, !.tofu_onion = o, !.tofu_new_key = k,
            !.tofu_was_zero_key = (stored = ZeroKey), !.tofu_epoch = e,
            !.peer_verified = FALSE, !.state = sm_dispatch(p.state, "HANDSHAKE_DONE")]

\* Any other key opens a TOFU prompt.
HandshakePrompt(s, o, k, dbOk) ==
  LET stored == db_get_contact(o, dbOk) IN
  /\ Completes(s) /\ TargetMatches(s, o)
  /\ stored # k
  /\ action_tofu_prompt(k)
  /\ peers' = [peers EXCEPT ![s] = Prompted(@, o, k, stored, tofu_epoch + 1)]
  /\ UNCHANGED <<active, contacts, ghost_mode, keys, typed, approved, flushed>>

-----------------------------------------------------------------------------
(* Frames of an established session.                                        *)

\* A text decrypts.  The first one of a session decides about the offline
\* queue: it is sent only to a verified peer.  Sending it may lose the peer.
ReceiveText(s) ==
  /\ peers[s].session
  /\ IF peers[s].queue_flushed \/ ghost_mode
     THEN UNCHANGED <<peers, active, flushed>>
     ELSE IF ~peers[s].peer_verified
     THEN /\ peers' = [peers EXCEPT ![s] = [@ EXCEPT !.queue_flushed = TRUE]]
          /\ UNCHANGED <<active, flushed>>
     ELSE /\ flushed' = flushed \union
               {[onion |-> peers[s].peer_onion, key |-> peers[s].rs,
                 tofu |-> peers[s].tofu_onion # NoOnion]}
          /\ \/ /\ peers' = [peers EXCEPT ![s] = [@ EXCEPT !.queue_flushed = TRUE]]
                /\ UNCHANGED active
             \/ action_cleanup(s, "PEER_DISCONNECTED")
  /\ UNCHANGED <<prompt, contacts, ghost_mode, keys, typed, approved>>

\* A frame's sequence number is not the expected one.
SeqMismatch(s) ==
  /\ peers[s].session
  /\ action_cleanup(s, "SEQ_MISMATCH")
  /\ UNCHANGED <<prompt, contacts, ghost_mode, keys, typed, approved, flushed>>

Receiving(p) ==
  [p EXCEPT !.rx_active = TRUE, !.state = sm_dispatch(p.state, "FILE_RX_START")]

\* File metadata was accepted and the local file opened.
FileRxStart(s) ==
  /\ peers[s].session /\ ~peers[s].rx_active
  /\ peers' = [peers EXCEPT ![s] = Receiving(@)]
  /\ UNCHANGED <<active, prompt, contacts, ghost_mode, keys, typed, approved, flushed>>

\* Mutant: the file is closed without dispatching FILE_DONE.
Received_NoDispatch(p) == [p EXCEPT !.rx_active = FALSE]

Received(p) ==
  [p EXCEPT !.rx_active = FALSE, !.state = sm_dispatch(p.state, "FILE_DONE")]

\* The file is complete, the transfer aborts, or its chunk timeout expires.
FileRxEnd(s) ==
  /\ peers[s].rx_active
  /\ peers' = [peers EXCEPT ![s] = Received(@)]
  /\ UNCHANGED <<active, prompt, contacts, ghost_mode, keys, typed, approved, flushed>>

-----------------------------------------------------------------------------
(* Timeouts of the loop, and Tor.                                           *)

HandshakeTimeout(s) ==
  /\ peers[s].state \in HandshakeStates
  /\ action_cleanup(s, "HANDSHAKE_TIMEOUT")
  /\ UNCHANGED <<prompt, contacts, ghost_mode, keys, typed, approved, flushed>>

\* Mutant: the expiry dispatches an event that has no row in TOFU_PENDING.
TofuTimeout_NoRow(s) ==
  /\ peers[s].state = "TOFU_PENDING"
  /\ action_cleanup(s, "HANDSHAKE_TIMEOUT")
  /\ UNCHANGED <<prompt, contacts, ghost_mode, keys, typed, approved, flushed>>

\* The token keeps the epoch of the prompt that expired.
TofuTimeout(s) ==
  /\ peers[s].state = "TOFU_PENDING"
  /\ action_cleanup(s, "PEER_DISCONNECTED")
  /\ UNCHANGED <<prompt, contacts, ghost_mode, keys, typed, approved, flushed>>

\* Idle and half-frame timeouts.
IdleTimeout(s) ==
  /\ peers[s].state \in SessionStates
  /\ action_cleanup(s, "PEER_DISCONNECTED")
  /\ UNCHANGED <<prompt, contacts, ghost_mode, keys, typed, approved, flushed>>

\* The loop notices that Tor is gone: TOR_DIED to every slot in use, then the
\* database is closed and the arena with our keys destroyed.
TorDied ==
  /\ keys
  /\ keys' = FALSE
  /\ peers' = [s \in Slots |->
       IF peers[s].fd \/ peers[s].state # "IDLE"
       THEN ClearedPeer(sm_dispatch(peers[s].state, "TOR_DIED"), peers[s].tofu_epoch)
       ELSE peers[s]]
  /\ IF active_peer_idx # NoSlot /\ ~IsFree(active_peer_idx)
     THEN active_peer_idx' = NoSlot /\ active_peer_onion' = NoOnion
     ELSE UNCHANGED active
  /\ UNCHANGED <<prompt, contacts, ghost_mode, typed, approved, flushed>>

-----------------------------------------------------------------------------
(* The user's answer to a prompt: typed at one moment, read at another.     *)

Pending == {s \in Slots : peers[s].state = "TOFU_PENDING"}

\* Also typed when no prompt is open or behind an answer that is still unread,
\* and perhaps read when another prompt is open.
TypeAnswer(a) ==
  /\ Len(line) < MaxTyped
  /\ TypeAhead \/ Pending # {}
  /\ line' = Append(line, a)
  /\ line_seen' = IF line = <<>> /\ Pending # {} THEN tofu_epoch ELSE line_seen
  /\ UNCHANGED <<peers, active, prompt, contacts, ghost_mode, keys, approved, flushed>>

\* 'y' on the only pending instance when it is not the one the token names:
\* the token is bound to it and the user is asked again.
Rearm(s) ==
  /\ ~TokenMatches(peers[s])
  /\ tofu_prompt_epoch' = peers[s].tofu_epoch
  /\ tofu_prompt_fp' = peers[s].tofu_new_key
  /\ UNCHANGED <<tofu_epoch, peers, active, contacts, approved>>

AnswerYes(s) ==
  \/ Rearm(s)
  \/ /\ action_tofu_accept(s)
     /\ tofu_prompt_epoch' = 0
     /\ UNCHANGED <<tofu_epoch, tofu_prompt_fp>>

AnswerNo(s) ==
  /\ tofu_prompt_epoch' = 0
  /\ action_cleanup(s, "TOFU_REJECTED")
  /\ UNCHANGED <<tofu_epoch, tofu_prompt_fp, contacts, approved>>

\* Without a pending prompt the line is a message to the active peer, which is
\* lost when the write is cut short.
SendLine ==
  /\ Pending = {}
  /\ \/ UNCHANGED <<peers, active>>
     \/ /\ active_peer_idx # NoSlot
        /\ peers[active_peer_idx].session
        /\ action_cleanup(active_peer_idx, "PEER_DISCONNECTED")
  /\ UNCHANGED <<prompt, contacts, approved>>

\* process_line and tofu_user_response, for the oldest unread answer: one line
\* is read and handled at a time.  With several prompts pending it is refused.
tofu_user_response ==
  /\ line # <<>>
  /\ \/ SendLine
     \/ \E s \in Slots : /\ Pending = {s}
                         /\ IF Head(line) = "y" THEN AnswerYes(s) ELSE AnswerNo(s)
     \/ /\ \E s, r \in Pending : s # r
        /\ UNCHANGED <<peers, active, prompt, contacts, approved>>
  /\ line' = Tail(line) /\ line_seen' = 0
  /\ UNCHANGED <<ghost_mode, keys, flushed>>

-----------------------------------------------------------------------------

SlotNext(s) ==
  \/ AcceptPeer(s)
  \/ \E o \in Onions : ConnectPeer(s, o) \/ SwitchPeer(s, o)
  \/ PeerGone(s)
  \/ HandshakeReply(s)
  \/ HandshakeError(s)
  \/ \E o \in Onions, k \in Keys :
       \/ HandshakeKnown(s, o, k)
       \/ \E dbOk \in {TRUE, ~DbFails} : HandshakePrompt(s, o, k, dbOk)
  \/ ReceiveText(s)
  \/ SeqMismatch(s)
  \/ FileRxStart(s)
  \/ FileRxEnd(s)
  \/ HandshakeTimeout(s)
  \/ TofuTimeout(s)
  \/ IdleTimeout(s)

Next ==
  \/ \E s \in Slots : SlotNext(s)
  \/ UserDisconnect
  \/ \E o \in Onions : AddContact(o)
  \/ TorDied
  \/ \E a \in {"y", "n"} : TypeAnswer(a)
  \/ tofu_user_response

Spec == Init /\ [][Next]_vars

\* The loop runs the timeout checks on every iteration, at least every two
\* seconds, and neither handshake_start nor tofu_start is ever moved while the
\* slot stays in the state, so a timeout cannot be put off for ever.
Fairness == \A s \in Slots : WF_vars(HandshakeTimeout(s)) /\ WF_vars(TofuTimeout(s))

FairSpec == Spec /\ Fairness

-----------------------------------------------------------------------------
(* Properties.                                                              *)

PeerSession ==
  [state : peer_state_t, fd : BOOLEAN, hs : 0 .. NoHs, session : BOOLEAN,
   rs : Keys \union {NoKey},
   peer_onion : Onions \union {NoOnion}, connect_target : Onions \union {NoOnion},
   tofu_onion : Onions \union {NoOnion}, tofu_new_key : Keys \union {NoKey},
   tofu_was_zero_key : BOOLEAN, tofu_epoch : Nat,
   peer_verified : BOOLEAN, queue_flushed : BOOLEAN, rx_active : BOOLEAN]

\* Types of the slots, of the token and of the history variables.
TypeOK ==
  /\ peers \in [Slots -> PeerSession]
  /\ active_peer_idx \in Slots \union {NoSlot}
  /\ active_peer_onion \in Onions \union {NoOnion}
  /\ tofu_epoch \in Nat
  /\ tofu_prompt_epoch \in Nat
  /\ tofu_prompt_fp \in Keys \union {NoKey}
  /\ contacts \in [Onions -> Keys \union {ZeroKey, NoContact}]
  /\ ghost_mode \in BOOLEAN
  /\ keys \in BOOLEAN
  /\ line \in Seq({"y", "n"})
  /\ line_seen \in Nat
  /\ approved \subseteq Onions \X Keys
  /\ flushed \subseteq [onion : Onions \union {NoOnion}, key : Keys \union {NoKey},
                        tofu : BOOLEAN]

\* The fields of a slot agree with its state after every handler, error paths
\* and nested dispatches included: a socket exactly outside IDLE, a handshake
\* object exactly while one is needed and at the right message, a session
\* exactly in the session states, an open received file exactly in FILE_RX,
\* and an idle slot keeps nothing of its last peer.
SlotConsistent ==
  \A s \in Slots : LET p == peers[s] IN
    /\ p.fd <=> p.state # "IDLE"
    /\ p.session <=> p.state \in SessionStates
    /\ p.rx_active <=> p.state = "FILE_RX"
    /\ p.hs = (CASE p.state = "HANDSHAKE_INIT" -> 1
                 [] p.state = "HANDSHAKE_RESP" -> IF p.hs = 0 THEN 0 ELSE 2
                 [] p.state = "TOFU_PENDING" -> 3
                 [] OTHER -> NoHs)
    /\ p.state = "IDLE" => p = ClearedPeer("IDLE", p.tofu_epoch)

\* The active peer is always a slot in use: action_cleanup resets the index
\* when it frees the active slot, whoever triggers it (state_machine.c).
ActiveIsLive == active_peer_idx # NoSlot => peers[active_peer_idx].state # "IDLE"

\* While some prompt is pending a token is armed, for a prompt that has been
\* printed: no sequence of drops, timeouts, refusals and re-arms leaves a
\* pending instance whose answer would be checked against nothing.
TokenArmed == Pending # {} => tofu_prompt_epoch \in 1 .. tofu_epoch

\* C2: a 'y' typed at a prompt never admits an instance whose prompt was printed
\* after the 'y' was typed, even if the instance it answered dropped and its
\* slot was recycled in between (tofu_user_response, action_tofu_accept).  Two
\* kinds of 'y' have no such protection: one typed when no prompt was open, and
\* one typed behind an unread answer, which may close the prompt, so that the
\* next one arms the token, or re-arm it.
YesIsForSeen ==
  [][\A s \in Slots :
       peers[s].state = "TOFU_PENDING" /\ peers'[s].state = "ACTIVE" /\ line_seen # 0
         => peers[s].tofu_epoch <= line_seen]_vars

\* Every key stored for a contact and every session's peer is an (address,
\* static key) pair the user approved, now or in an earlier session: nothing
\* the network does binds a key by itself.
OnlyApproved ==
  /\ \A o \in Onions : contacts[o] \in Keys => <<o, contacts[o]>> \in approved
  /\ \A s \in Slots : peers[s].session => <<peers[s].peer_onion, peers[s].rs>> \in approved

\* H-1: the offline queue is sent only in sessions that were set up with an
\* already stored key, never in the session whose key was just approved.
QueueOnlyToVerified ==
  \A f \in flushed : ~f.tofu /\ <<f.onion, f.key>> \in approved

\* H-1: a session of an outgoing connection is with the address dialled, on
\* the direct path and on the TOFU path alike.
DialledIsReached ==
  \A s \in Slots :
    peers[s].session /\ peers[s].connect_target # NoOnion
      => peers[s].peer_onion = peers[s].connect_target

\* Once Tor has died and the keys are destroyed no slot is ever in use again
\* (the fail-closed design of the health check in event_loop.c).
NoPeerWithoutKeys == keys \/ \A s \in Slots : IsFree(s)

\* The books of the loop balance after every handler: every slot is consistent,
\* the active index and the TOFU token name a slot and a prompt that exist, and
\* nothing is in use once the keys are gone.
SlotsInOrder == SlotConsistent /\ ActiveIsLive /\ TokenArmed /\ NoPeerWithoutKeys

\* A handshake and a TOFU prompt do not hold their slot for ever, whatever the
\* peer and the user do or fail to do: every slot is out of either state again
\* and again.
SlotsComeBack ==
  \A s \in Slots :
    /\ []<>(peers[s].state \notin HandshakeStates)
    /\ []<>(peers[s].state # "TOFU_PENDING")
=============================================================================
