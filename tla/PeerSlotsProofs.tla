-------------------------- MODULE PeerSlotsProofs ---------------------------
(***************************************************************************)
(* Proofs about PeerSlots for any number of slots, addresses and keys and   *)
(* any bound on the prompts.                                                *)
(*                                                                          *)
(* IInv is inductive.  It adds to the checked invariants what they lean on: *)
(* a slot still in its handshake has no TOFU data yet, a pending slot holds *)
(* the data its session will be made from, a verified session did not come  *)
(* from a prompt, and the oldest unread answer, if nothing was unread when  *)
(* it was typed, was typed when the armed prompt was on the screen.         *)
(***************************************************************************)
EXTENDS PeerSlots, TLAPS

-----------------------------------------------------------------------------
(* What the transition table of state_machine.c determines.                 *)

\* The events every row of which runs action_cleanup.
CleanupEvents ==
  {"PEER_DISCONNECTED", "TOR_DIED", "SEQ_MISMATCH", "TOFU_REJECTED"}
  \union HandshakeFailures

\* No two rows of the table share a state and an event, so the linear search of
\* sm_dispatch finds the same row in whatever order the rows are written.
THEOREM TableIsDeterministic ==
  \A t, u \in transitions : t[1] = u[1] /\ t[2] = u[2] => t[3] = u[3]
<1>1. \A t \in ProgressRows : t[2] \notin CleanupEvents
  BY DEF ProgressRows, CleanupEvents, HandshakeStates, HandshakeFailures
<1>2. \A r \in CleanupRows : r[2] \in CleanupEvents
  BY DEF CleanupRows, CleanupEvents, HandshakeFailures
<1>3. \A t, u \in ProgressRows : t[1] = u[1] /\ t[2] = u[2] => t[3] = u[3]
  BY DEF ProgressRows, HandshakeStates
<1> QED
  BY <1>1, <1>2, <1>3 DEF transitions

\* A row of the table for a cleanup event leads to IDLE.
LEMMA CleanupGoesIdle ==
  ASSUME NEW st, NEW ev \in CleanupEvents, HasRow(st, ev)
  PROVE  sm_dispatch(st, ev) = "IDLE"
<1>1. \A t \in transitions : t[2] \in CleanupEvents => t[3] = "IDLE"
  <2>1. \A t \in ProgressRows : t[2] \notin CleanupEvents
    BY DEF ProgressRows, CleanupEvents, HandshakeStates, HandshakeFailures
  <2> QED
    BY <2>1 DEF transitions
<1>2. PICK t \in transitions : t[1] = st /\ t[2] = ev
  BY DEF HasRow
<1>3. LET c == CHOOSE u \in transitions : u[1] = st /\ u[2] = ev
      IN  c \in transitions /\ c[1] = st /\ c[2] = ev
  BY <1>2
<1> QED
  BY <1>1, <1>3 DEF sm_dispatch

\* Any row of the table is the one sm_dispatch takes.
LEMMA RowTaken ==
  ASSUME NEW t \in transitions
  PROVE  HasRow(t[1], t[2]) /\ sm_dispatch(t[1], t[2]) = t[3]
<1>1. HasRow(t[1], t[2])
  BY DEF HasRow
<1>2. LET c == CHOOSE u \in transitions : u[1] = t[1] /\ u[2] = t[2]
      IN  c \in transitions /\ c[1] = t[1] /\ c[2] = t[2]
  OBVIOUS
<1> QED
  BY <1>1, <1>2, TableIsDeterministic DEF sm_dispatch

\* TOR_DIED and, outside IDLE, PEER_DISCONNECTED have a row in every state: no
\* state can keep a slot from being cleaned.
LEMMA AlwaysCleanable ==
  /\ \A st \in peer_state_t : HasRow(st, "TOR_DIED")
  /\ \A st \in peer_state_t \ {"IDLE"} : HasRow(st, "PEER_DISCONNECTED")
<1>1. ASSUME NEW st \in peer_state_t PROVE HasRow(st, "TOR_DIED")
  <2>1. <<st, "TOR_DIED">> \in CleanupRows
    BY DEF CleanupRows
  <2>2. <<st, "TOR_DIED", "IDLE">> \in transitions
    BY <2>1 DEF transitions
  <2> QED
    BY <2>2 DEF HasRow
<1>2. ASSUME NEW st \in peer_state_t \ {"IDLE"} PROVE HasRow(st, "PEER_DISCONNECTED")
  <2>1. <<st, "PEER_DISCONNECTED">> \in CleanupRows
    BY DEF CleanupRows
  <2>2. <<st, "PEER_DISCONNECTED", "IDLE">> \in transitions
    BY <2>1 DEF transitions
  <2> QED
    BY <2>2 DEF HasRow
<1> QED
  BY <1>1, <1>2

\* The rows by which a slot makes progress.
LEMMA ProgressTaken ==
  /\ sm_dispatch("IDLE", "CONNECT_CMD") = "HANDSHAKE_INIT"
  /\ sm_dispatch("IDLE", "PEER_ACCEPTED") = "HANDSHAKE_RESP"
  /\ sm_dispatch("TOFU_PENDING", "TOFU_ACCEPTED") = "ACTIVE"
  /\ sm_dispatch("ACTIVE", "FILE_RX_START") = "FILE_RX"
  /\ sm_dispatch("FILE_RX", "FILE_DONE") = "ACTIVE"
  /\ \A h \in HandshakeStates : /\ sm_dispatch(h, "SESSION_READY") = "ACTIVE"
                                /\ sm_dispatch(h, "HANDSHAKE_DONE") = "TOFU_PENDING"
<1>1. /\ <<"IDLE", "CONNECT_CMD", "HANDSHAKE_INIT">> \in transitions
      /\ <<"IDLE", "PEER_ACCEPTED", "HANDSHAKE_RESP">> \in transitions
      /\ <<"TOFU_PENDING", "TOFU_ACCEPTED", "ACTIVE">> \in transitions
      /\ <<"ACTIVE", "FILE_RX_START", "FILE_RX">> \in transitions
      /\ <<"FILE_RX", "FILE_DONE", "ACTIVE">> \in transitions
  BY DEF transitions, ProgressRows
<1>2. \A h \in HandshakeStates : /\ <<h, "SESSION_READY", "ACTIVE">> \in transitions
                                 /\ <<h, "HANDSHAKE_DONE", "TOFU_PENDING">> \in transitions
  BY DEF transitions, ProgressRows
<1> QED
  BY Zenon, <1>1, <1>2, RowTaken

-----------------------------------------------------------------------------
(* The invariant.                                                           *)

\* The facts about one slot p, with e prompts printed so far and the pairs in a
\* approved.
SlotInv(p, e, a) ==
  /\ p \in PeerSession
  /\ p.state \notin {"CONNECTING", "FILE_TX"}
  /\ p.fd <=> p.state # "IDLE"
  /\ p.session <=> p.state \in SessionStates
  /\ p.rx_active <=> p.state = "FILE_RX"
  /\ p.state = "HANDSHAKE_INIT" => p.hs = 1
  /\ p.state = "HANDSHAKE_RESP" => p.hs \in {0, 2}
  /\ p.state = "TOFU_PENDING" => p.hs = 3
  /\ p.state \in {"IDLE", "ACTIVE", "FILE_RX"} => p.hs = NoHs
  /\ p.state = "IDLE" => p = ClearedPeer("IDLE", p.tofu_epoch)
  /\ p.state \in HandshakeStates => p.tofu_onion = NoOnion /\ ~p.peer_verified
  /\ p.state = "TOFU_PENDING" =>
       /\ p.tofu_onion \in Onions /\ p.tofu_new_key \in Keys /\ p.rs = p.tofu_new_key
       /\ p.connect_target \in {NoOnion, p.tofu_onion}
       /\ p.tofu_epoch # 0 /\ p.tofu_epoch <= e
  /\ p.session =>
       /\ <<p.peer_onion, p.rs>> \in a
       /\ p.connect_target \in {NoOnion, p.peer_onion}
       /\ p.peer_verified => p.tofu_onion = NoOnion

\* The facts about the token and the answer in flight.
TokenInv ==
  /\ tofu_prompt_epoch <= tofu_epoch
  /\ Pending # {} => tofu_prompt_epoch # 0
  /\ line_seen # 0 => tofu_prompt_epoch \in 1 .. line_seen

\* Types of everything but the slots.
GlobalTypes ==
  /\ active_peer_idx \in Slots \union {NoSlot}
  /\ active_peer_onion \in Onions \union {NoOnion}
  /\ tofu_epoch \in Nat
  /\ tofu_prompt_epoch \in Nat
  /\ tofu_prompt_fp \in Keys \union {NoKey}
  /\ contacts \in [Onions -> Keys \union {ZeroKey, NoContact}]
  /\ ghost_mode \in BOOLEAN
  /\ keys \in BOOLEAN
  /\ line \in Seq({"y", "n"})
  /\ line_seen \in Nat
  /\ approved \subseteq Onions \X Keys
  /\ flushed \subseteq [onion : Onions \union {NoOnion}, key : Keys \union {NoKey},
                        tofu : BOOLEAN]

ContactsInv == \A o \in Onions : contacts[o] \in Keys => <<o, contacts[o]>> \in approved

IInv ==
  /\ GlobalTypes
  /\ peers \in [Slots -> PeerSession]
  /\ \A s \in Slots : SlotInv(peers[s], tofu_epoch, approved)
  /\ ActiveIsLive
  /\ TokenInv
  /\ ContactsInv
  /\ QueueOnlyToVerified
  /\ NoPeerWithoutKeys

-----------------------------------------------------------------------------
(* Lemmas about slots.                                                      *)

\* More prompts and more approvals do not disturb a slot.
LEMMA SlotMono ==
  ASSUME NEW p, NEW e \in Nat, NEW f \in Nat, e <= f, NEW a, NEW b, a \subseteq b,
         SlotInv(p, e, a)
  PROVE  SlotInv(p, f, b)
<1>1. p \in PeerSession /\ p.tofu_epoch \in Nat
  BY DEF SlotInv, PeerSession
<1> QED
  BY <1>1 DEF SlotInv

\* action_cleanup leaves a slot that satisfies the invariant.
LEMMA ClearedSlot ==
  ASSUME NEW n \in Nat, NEW e, NEW a
  PROVE  /\ ClearedPeer("IDLE", n).state = "IDLE"
         /\ SlotInv(ClearedPeer("IDLE", n), e, a)
<1> DEFINE q == ClearedPeer("IDLE", n)
<1>1. q \in PeerSession
  BY DEF ClearedPeer, PeerSession, peer_state_t, NoHs
<1>2. /\ q.state = "IDLE" /\ ~q.fd /\ ~q.session /\ ~q.rx_active
      /\ q.hs = NoHs /\ q.tofu_epoch = n
  BY DEF ClearedPeer
<1> HIDE DEF q
<1>3. q = ClearedPeer("IDLE", q.tofu_epoch)
  BY <1>2 DEF q
<1>4. SlotInv(q, e, a)
  BY <1>1, <1>2, <1>3 DEF SlotInv, SessionStates, HandshakeStates
<1> QED
  BY <1>2, <1>4 DEF q

\* A step that rewrites one slot preserves the invariant of all slots if it
\* gives that slot a good value.
LEMMA OneSlotStep ==
  ASSUME NEW s \in Slots, NEW q,
         peers \in [Slots -> PeerSession],
         \A r \in Slots : SlotInv(peers[r], tofu_epoch, approved),
         tofu_epoch \in Nat, tofu_epoch' \in Nat, tofu_epoch <= tofu_epoch',
         approved \subseteq approved',
         peers' = [peers EXCEPT ![s] = q],
         SlotInv(q, tofu_epoch', approved')
  PROVE  /\ peers' \in [Slots -> PeerSession]
         /\ \A r \in Slots : SlotInv(peers'[r], tofu_epoch', approved')
<1>1. q \in PeerSession
  BY DEF SlotInv
<1>2. \A r \in Slots : SlotInv(peers[r], tofu_epoch', approved')
  BY SlotMono
<1>3. \A r \in Slots : peers'[r] = IF r = s THEN q ELSE peers[r]
  OBVIOUS
<1> QED
  BY <1>1, <1>2, <1>3

\* The whole effect of a dispatch that runs action_cleanup.
LEMMA CleanupStep ==
  ASSUME IInv, NEW s \in Slots, NEW ev \in CleanupEvents, action_cleanup(s, ev)
  PROVE  /\ peers' = [peers EXCEPT ![s] = ClearedPeer("IDLE", peers[s].tofu_epoch)]
         /\ active_peer_idx' = IF active_peer_idx = s THEN NoSlot ELSE active_peer_idx
         /\ active_peer_onion' = IF active_peer_idx = s THEN NoOnion ELSE active_peer_onion
<1>1. sm_dispatch(peers[s].state, ev) = "IDLE"
  BY CleanupGoesIdle DEF action_cleanup
<1> QED
  BY <1>1 DEF action_cleanup, IInv

\* What a cleanup preserves, whatever else the handler does with the token, the
\* contacts and the approvals.
LEMMA CleanupSlots ==
  ASSUME IInv, NEW s \in Slots, NEW ev \in CleanupEvents, action_cleanup(s, ev),
         tofu_epoch' = tofu_epoch, approved \subseteq approved'
  PROVE  /\ peers' \in [Slots -> PeerSession]
         /\ \A r \in Slots : SlotInv(peers'[r], tofu_epoch', approved')
         /\ active_peer_idx' \in Slots \union {NoSlot}
         /\ active_peer_onion' \in Onions \union {NoOnion}
         /\ ActiveIsLive'
         /\ Pending' = Pending \ {s}
         /\ keys' = keys => NoPeerWithoutKeys'
<1> DEFINE q == ClearedPeer("IDLE", peers[s].tofu_epoch)
<1>1. /\ peers' = [peers EXCEPT ![s] = q]
      /\ active_peer_idx' = IF active_peer_idx = s THEN NoSlot ELSE active_peer_idx
      /\ active_peer_onion' = IF active_peer_idx = s THEN NoOnion ELSE active_peer_onion
  BY CleanupStep
<1>2. peers[s].tofu_epoch \in Nat
  BY DEF IInv, PeerSession
<1>3. q.state = "IDLE" /\ SlotInv(q, tofu_epoch', approved') /\ ~q.fd
  BY <1>2, ClearedSlot DEF ClearedPeer
<1> HIDE DEF q
<1>4. /\ peers' \in [Slots -> PeerSession]
      /\ \A r \in Slots : SlotInv(peers'[r], tofu_epoch', approved')
  <2>0. tofu_epoch \in Nat
    BY Zenon DEF IInv, GlobalTypes
  <2>1. tofu_epoch' \in Nat /\ tofu_epoch <= tofu_epoch'
    BY <2>0
  <2>2. /\ peers \in [Slots -> PeerSession]
        /\ \A r \in Slots : SlotInv(peers[r], tofu_epoch, approved)
    BY DEF IInv
  <2> QED
    BY Zenon, <1>1, <1>3, <2>0, <2>1, <2>2, OneSlotStep
<1>5. \A r \in Slots : peers'[r] = IF r = s THEN q ELSE peers[r]
  BY <1>1 DEF IInv
<1>6. /\ active_peer_idx' \in Slots \union {NoSlot}
      /\ active_peer_onion' \in Onions \union {NoOnion}
  BY Zenon, <1>1 DEF IInv, GlobalTypes
<1>7. ActiveIsLive'
  BY Zenon, <1>1, <1>5 DEF IInv, GlobalTypes, ActiveIsLive
<1>8. Pending' = Pending \ {s}
  BY <1>3, <1>5 DEF Pending
<1>9. keys' = keys => NoPeerWithoutKeys'
  BY <1>3, <1>5 DEF IInv, NoPeerWithoutKeys, IsFree
<1> QED
  BY <1>4, <1>6, <1>7, <1>8, <1>9

\* A handler whose only effect is a cleanup preserves the invariant.
LEMMA CleanupOnly ==
  ASSUME IInv, NEW s \in Slots, NEW ev \in CleanupEvents, action_cleanup(s, ev),
         UNCHANGED <<prompt, contacts, ghost_mode, keys, typed, approved, flushed>>
  PROVE  IInv'
<1>1. /\ peers' \in [Slots -> PeerSession]
      /\ \A r \in Slots : SlotInv(peers'[r], tofu_epoch', approved')
      /\ active_peer_idx' \in Slots \union {NoSlot}
      /\ active_peer_onion' \in Onions \union {NoOnion}
      /\ ActiveIsLive'
      /\ Pending' = Pending \ {s}
      /\ NoPeerWithoutKeys'
  BY CleanupSlots DEF prompt
<1>2. GlobalTypes'
  BY Zenon, <1>1 DEF IInv, GlobalTypes, prompt, typed
<1>3. TokenInv'
  BY Zenon, <1>1 DEF IInv, TokenInv, prompt, typed
<1>4. ContactsInv' /\ QueueOnlyToVerified'
  BY DEF IInv, ContactsInv, QueueOnlyToVerified
<1> QED
  BY <1>1, <1>2, <1>3, <1>4 DEF IInv

\* A handler that rewrites one slot, takes it into use only while the keys
\* exist, and opens no prompt.
LEMMA SlotOnly ==
  ASSUME IInv, NEW s \in Slots, NEW q, peers' = [peers EXCEPT ![s] = q],
         SlotInv(q, tofu_epoch, approved),
         q.state \notin {"IDLE", "TOFU_PENDING"},
         keys, keys' = keys,
         UNCHANGED <<prompt, contacts, ghost_mode, typed, approved>>,
         active_peer_idx' \in {active_peer_idx, s},
         active_peer_onion' \in Onions \union {NoOnion},
         flushed' \subseteq [onion : Onions \union {NoOnion}, key : Keys \union {NoKey},
                             tofu : BOOLEAN],
         QueueOnlyToVerified'
  PROVE  IInv'
<1>1. /\ peers' \in [Slots -> PeerSession]
      /\ \A r \in Slots : SlotInv(peers'[r], tofu_epoch', approved')
  <2>0. tofu_epoch \in Nat
    BY Zenon DEF IInv, GlobalTypes
  <2>1. tofu_epoch' \in Nat /\ tofu_epoch <= tofu_epoch'
    BY <2>0 DEF prompt
  <2>2. /\ peers \in [Slots -> PeerSession]
        /\ \A r \in Slots : SlotInv(peers[r], tofu_epoch, approved)
    BY DEF IInv
  <2>3. SlotInv(q, tofu_epoch', approved') /\ approved \subseteq approved'
    BY DEF prompt
  <2> QED
    BY Zenon, <2>0, <2>1, <2>2, <2>3, OneSlotStep
<1>2. \A r \in Slots : peers'[r] = IF r = s THEN q ELSE peers[r]
  BY DEF IInv
<1>3. GlobalTypes'
  BY Zenon DEF IInv, GlobalTypes, prompt, typed
<1>4. ActiveIsLive'
  BY Zenon, <1>2 DEF IInv, GlobalTypes, ActiveIsLive
<1>5. Pending' \subseteq Pending
  BY <1>2 DEF Pending
<1>6. TokenInv'
  BY Zenon, <1>5 DEF IInv, TokenInv, prompt, typed
<1>7. ContactsInv' /\ NoPeerWithoutKeys'
  BY DEF IInv, ContactsInv, NoPeerWithoutKeys
<1> QED
  BY <1>1, <1>3, <1>4, <1>6, <1>7 DEF IInv

\* What IInv says of one slot, for the leaves about its fields.
LEMMA SlotFacts ==
  ASSUME IInv, NEW s \in Slots
  PROVE  /\ peers[s] \in PeerSession
         /\ SlotInv(peers[s], tofu_epoch, approved)
         /\ peers[s].state # "IDLE" => keys
BY DEF IInv, NoPeerWithoutKeys, IsFree

-----------------------------------------------------------------------------
(* One lemma per handler that changes a slot.                               *)

\* The values the handlers give to the fields state and hs.
LEMMA FieldTypes ==
  /\ {"HANDSHAKE_INIT", "HANDSHAKE_RESP", "TOFU_PENDING", "ACTIVE", "FILE_RX"}
       \subseteq peer_state_t
  /\ {0, 1, 2, 3, NoHs} \subseteq 0 .. NoHs
BY DEF peer_state_t, HandshakeStates, SessionStates, NoHs

\* The offline queue's record is untouched by a handler that does not send it.
LEMMA FlushedKept ==
  ASSUME IInv, UNCHANGED <<approved, flushed>>
  PROVE  /\ flushed' \subseteq [onion : Onions \union {NoOnion}, key : Keys \union {NoKey},
                               tofu : BOOLEAN]
         /\ QueueOnlyToVerified'
BY Zenon DEF IInv, GlobalTypes, QueueOnlyToVerified

LEMMA AcceptPeerStep ==
  ASSUME IInv, NEW s \in Slots, AcceptPeer(s)
  PROVE  IInv'
<1> DEFINE p == peers[s]
           q == Accepted(p)
<1>1. p \in PeerSession /\ p = ClearedPeer("IDLE", p.tofu_epoch)
  BY Zenon, SlotFacts DEF AcceptPeer, FirstFree, IsFree, SlotInv
<1>2. sm_dispatch(p.state, "PEER_ACCEPTED") = "HANDSHAKE_RESP"
  BY SMTT(20), <1>1, ProgressTaken DEF ClearedPeer
<1>3. SlotInv(q, tofu_epoch, approved) /\ q.state = "HANDSHAKE_RESP"
  <2>1. /\ q.state = "HANDSHAKE_RESP" /\ q.fd /\ ~q.session /\ ~q.rx_active /\ q.hs = 0
        /\ q.tofu_onion = NoOnion /\ ~q.peer_verified
    BY <1>1, <1>2 DEF Accepted, PeerSession, ClearedPeer
  <2>2. q \in PeerSession
    BY Zenon, <1>1, <1>2, FieldTypes DEF Accepted, PeerSession
  <2> HIDE DEF q
  <2> QED
    BY <2>1, <2>2 DEF SlotInv, HandshakeStates, SessionStates
<1>4. /\ peers' = [peers EXCEPT ![s] = q]
      /\ active_peer_idx' \in {active_peer_idx, s}
      /\ active_peer_onion' \in Onions \union {NoOnion}
      /\ keys /\ keys' = keys
      /\ UNCHANGED <<prompt, contacts, ghost_mode, typed, approved, flushed>>
  BY Zenon DEF AcceptPeer, IInv, GlobalTypes
<1> HIDE DEF q
<1> QED
  BY Zenon, <1>3, <1>4, SlotOnly, FlushedKept

LEMMA ConnectPeerStep ==
  ASSUME IInv, NEW s \in Slots, NEW o \in Onions, ConnectPeer(s, o)
  PROVE  IInv'
<1> DEFINE p == peers[s]
           q == Dialled(p, o)
<1>1. p \in PeerSession /\ p = ClearedPeer("IDLE", p.tofu_epoch)
  BY Zenon, SlotFacts DEF ConnectPeer, FirstFree, IsFree, SlotInv
<1>2. sm_dispatch(p.state, "CONNECT_CMD") = "HANDSHAKE_INIT"
  BY <1>1, ProgressTaken DEF ClearedPeer
<1>3. SlotInv(q, tofu_epoch, approved) /\ q.state = "HANDSHAKE_INIT"
  <2>1. /\ q.state = "HANDSHAKE_INIT" /\ q.fd /\ ~q.session /\ ~q.rx_active /\ q.hs = 1
        /\ q.tofu_onion = NoOnion /\ ~q.peer_verified
    BY <1>1, <1>2 DEF Dialled, PeerSession, ClearedPeer
  <2>2. q \in PeerSession
    BY Zenon, <1>1, <1>2, FieldTypes DEF Dialled, PeerSession
  <2> HIDE DEF q
  <2> QED
    BY <2>1, <2>2 DEF SlotInv, HandshakeStates, SessionStates
<1>4. /\ peers' = [peers EXCEPT ![s] = q]
      /\ active_peer_idx' \in {active_peer_idx, s}
      /\ active_peer_onion' \in Onions \union {NoOnion}
      /\ keys /\ keys' = keys
      /\ UNCHANGED <<prompt, contacts, ghost_mode, typed, approved, flushed>>
  BY DEF ConnectPeer
<1> HIDE DEF q
<1> QED
  BY Zenon, <1>3, <1>4, SlotOnly, FlushedKept

LEMMA HandshakeReplyStep ==
  ASSUME IInv, NEW s \in Slots, HandshakeReply(s)
  PROVE  IInv'
<1> DEFINE p == peers[s]
           q == [p EXCEPT !.hs = 2]
<1>1. /\ p \in PeerSession /\ SlotInv(p, tofu_epoch, approved) /\ keys
      /\ p.state = "HANDSHAKE_RESP"
  BY SlotFacts DEF HandshakeReply
<1>2. SlotInv(q, tofu_epoch, approved) /\ q.state = "HANDSHAKE_RESP"
  <2>1. /\ q.state = "HANDSHAKE_RESP" /\ q.fd /\ ~q.session /\ ~q.rx_active /\ q.hs = 2
        /\ q.tofu_onion = NoOnion /\ ~q.peer_verified
    BY <1>1 DEF SlotInv, PeerSession, HandshakeStates, SessionStates
  <2>2. q \in PeerSession
    BY <1>1, FieldTypes DEF PeerSession
  <2> HIDE DEF q
  <2> QED
    BY <2>1, <2>2 DEF SlotInv, HandshakeStates, SessionStates
<1>3. /\ peers' = [peers EXCEPT ![s] = q]
      /\ active_peer_idx' \in {active_peer_idx, s}
      /\ active_peer_onion' \in Onions \union {NoOnion}
      /\ keys' = keys
      /\ UNCHANGED <<prompt, contacts, ghost_mode, typed, approved, flushed>>
  BY Zenon DEF HandshakeReply, active, IInv, GlobalTypes
<1> HIDE DEF q
<1> QED
  BY Zenon, <1>1, <1>2, <1>3, SlotOnly, FlushedKept

LEMMA HandshakeKnownStep ==
  ASSUME IInv, NEW s \in Slots, NEW o \in Onions, NEW k \in Keys,
         HandshakeKnown(s, o, k)
  PROVE  IInv'
<1> DEFINE p == peers[s]
           q == KnownSession(p, o, k)
<1>1. /\ p \in PeerSession /\ SlotInv(p, tofu_epoch, approved) /\ keys
      /\ p.state \in HandshakeStates
  BY SlotFacts DEF HandshakeKnown, Completes, HandshakeStates
<1>2. sm_dispatch(p.state, "SESSION_READY") = "ACTIVE"
  BY <1>1, ProgressTaken
<1>3. <<o, k>> \in approved
  BY SMTT(20), AbsentAssumption DEF HandshakeKnown, db_get_contact, IInv, ContactsInv
<1>4. SlotInv(q, tofu_epoch, approved) /\ q.state = "ACTIVE"
  <2>1. /\ q.state = "ACTIVE" /\ q.fd /\ q.session /\ ~q.rx_active /\ q.hs = NoHs
        /\ q.tofu_onion = NoOnion /\ q.connect_target \in {NoOnion, o}
        /\ q.peer_onion = o /\ q.rs = k
    BY <1>1, <1>2 DEF KnownSession, SlotInv, PeerSession, HandshakeStates, SessionStates,
                      HandshakeKnown, TargetMatches
  <2>2. q \in PeerSession
    BY Zenon, <1>1, <1>2, FieldTypes DEF KnownSession, PeerSession
  <2> HIDE DEF q
  <2> QED
    BY SMTT(20), <1>3, <2>1, <2>2 DEF SlotInv, HandshakeStates, SessionStates
<1>5. /\ peers' = [peers EXCEPT ![s] = q]
      /\ active_peer_idx' \in {active_peer_idx, s}
      /\ active_peer_onion' \in Onions \union {NoOnion}
      /\ keys' = keys
      /\ UNCHANGED <<prompt, contacts, ghost_mode, typed, approved, flushed>>
  BY DEF HandshakeKnown
<1> HIDE DEF q
<1> QED
  BY Zenon, <1>1, <1>4, <1>5, SlotOnly, FlushedKept

\* Opening and closing a received file.
LEMMA FileRxStep ==
  ASSUME IInv, NEW s \in Slots, FileRxStart(s) \/ FileRxEnd(s)
  PROVE  IInv'
<1> DEFINE p == peers[s]
           q == IF FileRxStart(s) THEN Receiving(p) ELSE Received(p)
<1>1. p \in PeerSession /\ SlotInv(p, tofu_epoch, approved)
  BY SMTT(20), SlotFacts
<1>2. p.session /\ p.state \in {"ACTIVE", "FILE_RX"} /\ keys
  BY SMTT(20), <1>1, SlotFacts DEF SlotInv, FileRxStart, FileRxEnd, SessionStates
<1>3. SlotInv(q, tofu_epoch, approved) /\ q.state \in {"ACTIVE", "FILE_RX"}
  <2>1. CASE FileRxStart(s)
    <3>1. p.state = "ACTIVE" /\ sm_dispatch(p.state, "FILE_RX_START") = "FILE_RX"
      BY <1>1, <1>2, <2>1, ProgressTaken DEF FileRxStart, SlotInv
    <3>2. q \in PeerSession
      BY ZenonT(40), <1>1, <2>1, <3>1, FieldTypes DEF Receiving, PeerSession
    <3>3. /\ q.state = "FILE_RX" /\ q.fd /\ q.session /\ q.rx_active /\ q.hs = NoHs
          /\ q.peer_onion = p.peer_onion /\ q.rs = p.rs
          /\ q.connect_target = p.connect_target /\ q.tofu_onion = p.tofu_onion
          /\ q.peer_verified = p.peer_verified
      BY <1>1, <1>2, <2>1, <3>1 DEF Receiving, PeerSession, SlotInv
    <3> HIDE DEF q
    <3> QED
      BY SMTT(20), <1>1, <1>2, <3>2, <3>3 DEF SlotInv, HandshakeStates, SessionStates
  <2>2. CASE ~FileRxStart(s) /\ FileRxEnd(s)
    <3>1. p.state = "FILE_RX" /\ sm_dispatch(p.state, "FILE_DONE") = "ACTIVE"
      BY <1>1, <1>2, <2>2, ProgressTaken DEF FileRxEnd, SlotInv
    <3>2. q \in PeerSession
      BY ZenonT(40), <1>1, <2>2, <3>1, FieldTypes DEF Received, PeerSession
    <3>3. /\ q.state = "ACTIVE" /\ q.fd /\ q.session /\ ~q.rx_active /\ q.hs = NoHs
          /\ q.peer_onion = p.peer_onion /\ q.rs = p.rs
          /\ q.connect_target = p.connect_target /\ q.tofu_onion = p.tofu_onion
          /\ q.peer_verified = p.peer_verified
      BY <1>1, <1>2, <2>2, <3>1 DEF Received, PeerSession, SlotInv
    <3> HIDE DEF q
    <3> QED
      BY SMTT(20), <1>1, <1>2, <3>2, <3>3 DEF SlotInv, HandshakeStates, SessionStates
  <2> QED
    BY SMTT(20), <2>1, <2>2
<1>4. /\ peers' = [peers EXCEPT ![s] = q]
      /\ active_peer_idx' \in {active_peer_idx, s}
      /\ active_peer_onion' \in Onions \union {NoOnion}
      /\ keys' = keys
      /\ UNCHANGED <<prompt, contacts, ghost_mode, typed, approved, flushed>>
  BY Zenon DEF FileRxStart, FileRxEnd, active, IInv, GlobalTypes
<1> HIDE DEF q
<1> QED
  BY Zenon, <1>2, <1>3, <1>4, SlotOnly, FlushedKept

LEMMA ReceiveTextStep ==
  ASSUME IInv, NEW s \in Slots, ReceiveText(s)
  PROVE  IInv'
<1> DEFINE p == peers[s]
           q == [p EXCEPT !.queue_flushed = TRUE]
           f == [onion |-> p.peer_onion, key |-> p.rs, tofu |-> p.tofu_onion # NoOnion]
<1>1. /\ p \in PeerSession /\ SlotInv(p, tofu_epoch, approved)
      /\ p.session /\ p.state \in {"ACTIVE", "FILE_RX"} /\ keys
  BY SlotFacts DEF SlotInv, ReceiveText, SessionStates
<1>2. UNCHANGED <<prompt, contacts, ghost_mode, keys, typed, approved>>
  BY SMTT(20) DEF ReceiveText
<1>3. SlotInv(q, tofu_epoch, approved) /\ q.state \notin {"IDLE", "TOFU_PENDING"}
  <2>1. q \in PeerSession
    BY Zenon, <1>1 DEF PeerSession
  <2>2. /\ q.state = p.state /\ q.fd = p.fd /\ q.session = p.session
        /\ q.rx_active = p.rx_active /\ q.hs = p.hs
        /\ q.peer_onion = p.peer_onion /\ q.rs = p.rs
        /\ q.connect_target = p.connect_target /\ q.tofu_onion = p.tofu_onion
        /\ q.peer_verified = p.peer_verified
    BY Zenon, <1>1 DEF PeerSession
  <2> HIDE DEF q
  <2> QED
    BY <1>1, <2>1, <2>2 DEF SlotInv, HandshakeStates, SessionStates
<1> HIDE DEF q
<1>4. active_peer_onion \in Onions \union {NoOnion}
  BY Zenon DEF IInv, GlobalTypes
<1>5. CASE UNCHANGED <<peers, active, flushed>>
  <2>1. GlobalTypes' /\ TokenInv' /\ ContactsInv' /\ QueueOnlyToVerified'
    BY Zenon, <1>2, <1>5 DEF IInv, GlobalTypes, TokenInv, ContactsInv, QueueOnlyToVerified,
                      Pending, prompt, typed, active
  <2>2. \A r \in Slots : SlotInv(peers'[r], tofu_epoch', approved')
    BY <1>2, <1>5 DEF IInv, prompt
  <2>3. ActiveIsLive' /\ NoPeerWithoutKeys' /\ peers' \in [Slots -> PeerSession]
    BY <1>2, <1>5 DEF IInv, ActiveIsLive, NoPeerWithoutKeys, IsFree, active
  <2> QED
    BY SMTT(20), <2>1, <2>2, <2>3 DEF IInv
<1>6. CASE peers' = [peers EXCEPT ![s] = q] /\ UNCHANGED <<active, flushed>>
  BY Zenon, <1>1, <1>2, <1>3, <1>4, <1>6, SlotOnly, FlushedKept DEF active
<1>7. CASE /\ p.peer_verified
           /\ flushed' = flushed \union {f}
           /\ \/ peers' = [peers EXCEPT ![s] = q] /\ UNCHANGED active
              \/ action_cleanup(s, "PEER_DISCONNECTED")
  <2>1. /\ f \in [onion : Onions \union {NoOnion}, key : Keys \union {NoKey}, tofu : BOOLEAN]
        /\ ~f.tofu /\ <<f.onion, f.key>> \in approved
    BY Zenon, <1>1, <1>7 DEF SlotInv, PeerSession
  <2> HIDE DEF f
  <2>2. /\ flushed' \subseteq [onion : Onions \union {NoOnion}, key : Keys \union {NoKey},
                              tofu : BOOLEAN]
        /\ QueueOnlyToVerified'
    BY Zenon, <1>2, <1>7, <2>1 DEF IInv, GlobalTypes, QueueOnlyToVerified
  <2>3. CASE peers' = [peers EXCEPT ![s] = q] /\ UNCHANGED active
    BY Zenon, <1>1, <1>2, <1>3, <1>4, <2>2, <2>3, SlotOnly DEF active
  <2>4. CASE action_cleanup(s, "PEER_DISCONNECTED")
    <3>1. "PEER_DISCONNECTED" \in CleanupEvents
      BY DEF CleanupEvents
    <3>2. /\ peers' \in [Slots -> PeerSession]
          /\ \A r \in Slots : SlotInv(peers'[r], tofu_epoch', approved')
          /\ active_peer_idx' \in Slots \union {NoSlot}
          /\ active_peer_onion' \in Onions \union {NoOnion}
          /\ ActiveIsLive'
          /\ Pending' = Pending \ {s}
          /\ NoPeerWithoutKeys'
      BY SMTT(20), <1>2, <2>4, <3>1, CleanupSlots DEF prompt
    <3>3. GlobalTypes'
      BY Zenon, <1>2, <2>2, <3>2 DEF IInv, GlobalTypes, prompt, typed
    <3>4. TokenInv'
      BY Zenon, <1>2, <3>2 DEF IInv, TokenInv, prompt, typed
    <3>5. ContactsInv'
      BY <1>2 DEF IInv, ContactsInv
    <3> QED
      BY <2>2, <3>2, <3>3, <3>4, <3>5 DEF IInv
  <2> QED
    BY <1>7, <2>3, <2>4
<1> QED
  BY SMTT(20), <1>5, <1>6, <1>7 DEF ReceiveText, q

LEMMA HandshakePromptStep ==
  ASSUME IInv, NEW s \in Slots, NEW o \in Onions, NEW k \in Keys, NEW dbOk,
         HandshakePrompt(s, o, k, dbOk)
  PROVE  IInv'
<1> DEFINE p == peers[s]
           q == Prompted(p, o, k, db_get_contact(o, dbOk), tofu_epoch + 1)
<1>1. /\ p \in PeerSession /\ SlotInv(p, tofu_epoch, approved) /\ keys
      /\ p.state \in HandshakeStates
  BY SMTT(20), SlotFacts DEF HandshakePrompt, Completes, HandshakeStates
<1>2. sm_dispatch(p.state, "HANDSHAKE_DONE") = "TOFU_PENDING"
  BY <1>1, ProgressTaken
<1>3. tofu_epoch \in Nat /\ tofu_prompt_epoch \in Nat /\ line_seen \in Nat
  BY Zenon DEF IInv, GlobalTypes
<1>4. tofu_epoch' = tofu_epoch + 1 /\ tofu_epoch' \in Nat /\ tofu_epoch <= tofu_epoch'
  <2>1. tofu_epoch' = tofu_epoch + 1
    BY DEF HandshakePrompt, action_tofu_prompt
  <2> QED
    BY SMTT(20), <1>3, <2>1
<1>5. /\ peers' = [peers EXCEPT ![s] = q]
      /\ tofu_prompt_epoch' = IF tofu_prompt_epoch = 0 THEN tofu_epoch + 1
                              ELSE tofu_prompt_epoch
      /\ tofu_prompt_fp' = IF tofu_prompt_epoch = 0 THEN k ELSE tofu_prompt_fp
      /\ UNCHANGED <<active, contacts, ghost_mode, keys, typed, approved, flushed>>
  BY SMTT(20) DEF HandshakePrompt, action_tofu_prompt
<1>6. SlotInv(q, tofu_epoch', approved') /\ q.state = "TOFU_PENDING"
  <2>1. /\ q.state = "TOFU_PENDING" /\ q.fd /\ ~q.session /\ ~q.rx_active /\ q.hs = 3
        /\ q.tofu_onion = o /\ q.tofu_new_key = k /\ q.rs = k
        /\ q.connect_target \in {NoOnion, o}
    BY <1>1, <1>2 DEF Prompted, SlotInv, PeerSession, HandshakeStates, SessionStates,
                      HandshakePrompt, TargetMatches
  <2>2. q.tofu_epoch = tofu_epoch + 1
    BY <1>1 DEF Prompted, PeerSession
  <2>3. q.tofu_epoch # 0 /\ q.tofu_epoch <= tofu_epoch'
    BY <1>3, <1>4, <2>2
  <2>4. q \in PeerSession
    <3>1. tofu_epoch + 1 \in Nat
      BY <1>3
    <3> DEFINE stored == db_get_contact(o, dbOk)
               zero == stored = ZeroKey
               st == sm_dispatch(p.state, "HANDSHAKE_DONE")
               e == tofu_epoch + 1
               u == [p EXCEPT !.hs = 3, !.rs = k, !.tofu_onion = o, !.tofu_new_key = k]
               v == [u EXCEPT !.tofu_was_zero_key = zero]
    <3>2. zero \in BOOLEAN
      OBVIOUS
    <3>3. st \in peer_state_t
      BY <1>2, FieldTypes
    <3>4. q = [v EXCEPT !.tofu_epoch = e, !.peer_verified = FALSE, !.state = st]
      BY DEF Prompted
    <3>5. u \in PeerSession
      BY Zenon, <1>1, FieldTypes DEF PeerSession
    <3> HIDE DEF zero, st, e, q, u
    <3>6. v \in PeerSession
      BY <3>2, <3>5 DEF PeerSession
    <3> HIDE DEF v
    <3>7. e \in Nat
      BY <3>1 DEF e
    <3> QED
      BY Zenon, <3>3, <3>4, <3>6, <3>7 DEF PeerSession
  <2> HIDE DEF q
  <2> QED
    BY SMTT(20), <2>1, <2>3, <2>4 DEF SlotInv, HandshakeStates, SessionStates
<1> HIDE DEF q
<1>7. /\ peers' \in [Slots -> PeerSession]
      /\ \A r \in Slots : SlotInv(peers'[r], tofu_epoch', approved')
  <2>1. /\ peers \in [Slots -> PeerSession]
        /\ \A r \in Slots : SlotInv(peers[r], tofu_epoch, approved)
        /\ approved \subseteq approved'
    BY <1>5 DEF IInv
  <2> QED
    BY Zenon, <1>3, <1>4, <1>5, <1>6, <2>1, OneSlotStep
<1>8. \A r \in Slots : peers'[r] = IF r = s THEN q ELSE peers[r]
  BY SMTT(20), <1>5 DEF IInv
<1>9. ActiveIsLive' /\ ContactsInv' /\ QueueOnlyToVerified' /\ NoPeerWithoutKeys'
  BY Zenon, <1>1, <1>5, <1>6, <1>8
     DEF IInv, GlobalTypes, ActiveIsLive, ContactsInv, QueueOnlyToVerified,
         NoPeerWithoutKeys, active
<1>10. TokenInv'
  <2>1. tofu_prompt_epoch <= tofu_epoch
    BY Zenon DEF IInv, TokenInv
  <2>2. tofu_prompt_epoch' <= tofu_epoch' /\ tofu_prompt_epoch' # 0
    BY <1>3, <1>4, <1>5, <2>1
  <2>3. line_seen' # 0 => tofu_prompt_epoch' \in 1 .. line_seen'
    <3>1. line_seen # 0 => tofu_prompt_epoch \in 1 .. line_seen
      BY Zenon DEF IInv, TokenInv
    <3>2. UNCHANGED <<line, line_seen>>
      BY <1>5 DEF typed
    <3>3. tofu_prompt_epoch \in 1 .. line_seen => tofu_prompt_epoch' \in 1 .. line_seen'
      BY SMTT(20), <1>3, <1>5, <3>2
    <3> QED
      BY Zenon, <3>1, <3>2, <3>3
  <2> QED
    BY Zenon, <2>2, <2>3 DEF TokenInv
<1>11. GlobalTypes'
  <2>1. tofu_prompt_epoch' \in Nat
    BY SMTT(20), <1>3, <1>4, <1>5
  <2> QED
    BY Zenon, <1>4, <1>5, <2>1 DEF IInv, GlobalTypes, active, typed
<1> QED
  BY <1>7, <1>9, <1>10, <1>11 DEF IInv

\* TofuSession turns a pending slot into a session with the approved pair.
LEMMA TofuSessionSlot ==
  ASSUME NEW p \in PeerSession, NEW e, NEW a, NEW b, SlotInv(p, e, a),
         p.state = "TOFU_PENDING", <<p.tofu_onion, p.tofu_new_key>> \in b
  PROVE  SlotInv(TofuSession(p), e, b) /\ TofuSession(p).state = "ACTIVE"
<1> DEFINE q == TofuSession(p)
<1>1. sm_dispatch(p.state, "TOFU_ACCEPTED") = "ACTIVE"
  BY ProgressTaken
<1>2. q \in PeerSession
  BY Zenon, <1>1, FieldTypes DEF TofuSession, PeerSession
<1>3. /\ q.state = "ACTIVE" /\ q.fd /\ q.session /\ ~q.rx_active /\ q.hs = NoHs
      /\ q.peer_onion = p.tofu_onion /\ q.rs = p.tofu_new_key
      /\ q.connect_target = p.connect_target /\ ~q.peer_verified
  BY <1>1 DEF TofuSession, PeerSession, SlotInv
<1> HIDE DEF q
<1>4. SlotInv(q, e, b)
  BY <1>2, <1>3 DEF SlotInv, HandshakeStates, SessionStates
<1> QED
  BY <1>3, <1>4 DEF q

\* What a step that leaves the slots alone and keeps the token preserves.
LEMMA SlotsKept ==
  ASSUME IInv, UNCHANGED <<peers, tofu_epoch, approved, flushed, keys>>
  PROVE  /\ peers' \in [Slots -> PeerSession]
         /\ \A r \in Slots : SlotInv(peers'[r], tofu_epoch', approved')
         /\ Pending' = Pending
         /\ QueueOnlyToVerified'
         /\ NoPeerWithoutKeys'
BY DEF IInv, Pending, QueueOnlyToVerified, NoPeerWithoutKeys, IsFree

LEMMA SwitchPeerStep ==
  ASSUME IInv, NEW s \in Slots, NEW o \in Onions, SwitchPeer(s, o)
  PROVE  IInv'
<1>1. UNCHANGED <<peers, prompt, contacts, ghost_mode, keys, typed, approved, flushed>>
  BY SMTT(20) DEF SwitchPeer
<1>2. active_peer_idx' = s /\ active_peer_onion' = o /\ peers[s].state = "ACTIVE"
  BY DEF SwitchPeer
<1>3. ActiveIsLive' /\ ContactsInv'
  BY SMTT(20), <1>1, <1>2 DEF ActiveIsLive, IInv, ContactsInv
<1>4. GlobalTypes' /\ TokenInv'
  BY Zenon, <1>1, <1>2 DEF IInv, GlobalTypes, TokenInv, Pending, prompt, typed
<1> QED
  BY SMTT(20), <1>1, <1>3, <1>4, SlotsKept DEF IInv, prompt

LEMMA AddContactStep ==
  ASSUME IInv, NEW o \in Onions, AddContact(o)
  PROVE  IInv'
<1>1. UNCHANGED <<peers, active, prompt, ghost_mode, keys, typed, approved, flushed>>
  BY DEF AddContact
<1>2. contacts' = [contacts EXCEPT ![o] = ZeroKey] \/ contacts' = contacts
  BY DEF AddContact, db_add_contact
<1>3. contacts \in [Onions -> Keys \union {ZeroKey, NoContact}]
  BY Zenon DEF IInv, GlobalTypes
<1>4. ContactsInv' /\ contacts' \in [Onions -> Keys \union {ZeroKey, NoContact}]
  BY SMTT(20), <1>1, <1>2, <1>3, AbsentAssumption DEF IInv, ContactsInv
<1>5. GlobalTypes' /\ TokenInv' /\ ActiveIsLive'
  BY Zenon, <1>1, <1>4 DEF IInv, GlobalTypes, TokenInv, ActiveIsLive, Pending, prompt, typed, active
<1> QED
  BY <1>1, <1>4, <1>5, SlotsKept DEF IInv, prompt

LEMMA TypeAnswerStep ==
  ASSUME IInv, NEW a \in {"y", "n"}, TypeAnswer(a)
  PROVE  IInv'
<1>1. UNCHANGED <<peers, active, prompt, contacts, ghost_mode, keys, approved, flushed>>
  BY Zenon DEF TypeAnswer
<1>2. /\ line' = Append(line, a)
      /\ (line_seen' = tofu_epoch /\ Pending # {}) \/ line_seen' = line_seen
  BY DEF TypeAnswer
<1>3. tofu_prompt_epoch \in Nat /\ tofu_epoch \in Nat
  BY Zenon DEF IInv, GlobalTypes
<1>4. /\ tofu_prompt_epoch <= tofu_epoch /\ (Pending # {} => tofu_prompt_epoch # 0)
      /\ line_seen # 0 => tofu_prompt_epoch \in 1 .. line_seen
  BY Zenon DEF IInv, TokenInv
<1>5. Pending # {} => tofu_prompt_epoch \in 1 .. tofu_epoch
  BY SMTT(20), <1>3, <1>4
<1>6. TokenInv'
  BY Zenon, <1>1, <1>2, <1>4, <1>5 DEF TokenInv, Pending, prompt
<1>7. GlobalTypes' /\ ActiveIsLive' /\ ContactsInv'
  <2>1. line \in Seq({"y", "n"}) /\ line_seen \in Nat
    BY Zenon DEF IInv, GlobalTypes
  <2>2. line' \in Seq({"y", "n"})
    BY <1>2, <2>1
  <2>3. line_seen' \in Nat
    BY <1>2, <1>3, <2>1
  <2> QED
    BY Zenon, <1>1, <2>2, <2>3
       DEF IInv, GlobalTypes, ActiveIsLive, ContactsInv, prompt, active
<1> QED
  BY SMTT(20), <1>1, <1>6, <1>7, SlotsKept DEF IInv, prompt

LEMMA TorDiedStep ==
  ASSUME IInv, TorDied
  PROVE  IInv'
<1>1. \A s \in Slots : peers'[s] = ClearedPeer("IDLE", peers[s].tofu_epoch)
  <2> SUFFICES ASSUME NEW s \in Slots
               PROVE  peers'[s] = ClearedPeer("IDLE", peers[s].tofu_epoch)
    BY SMTT(20)
  <2>1. peers[s].state \in peer_state_t /\ SlotInv(peers[s], tofu_epoch, approved)
    BY SlotFacts DEF PeerSession
  <2>2. sm_dispatch(peers[s].state, "TOR_DIED") = "IDLE"
    BY SMTT(20), <2>1, CleanupGoesIdle, AlwaysCleanable DEF CleanupEvents
  <2>3. ~(peers[s].fd \/ peers[s].state # "IDLE")
          => peers[s] = ClearedPeer("IDLE", peers[s].tofu_epoch)
    BY SMTT(20), <2>1 DEF SlotInv
  <2> QED
    BY <2>2, <2>3 DEF TorDied
<1>2. UNCHANGED <<prompt, contacts, ghost_mode, typed, approved, flushed>> /\ keys' = FALSE
  BY SMTT(20) DEF TorDied
<1>3. \A s \in Slots : /\ peers'[s].state = "IDLE" /\ ~peers'[s].fd
                       /\ SlotInv(peers'[s], tofu_epoch', approved')
                       /\ peers'[s] \in PeerSession
  <2> SUFFICES ASSUME NEW s \in Slots
               PROVE  /\ peers'[s].state = "IDLE" /\ ~peers'[s].fd
                      /\ SlotInv(peers'[s], tofu_epoch', approved')
                      /\ peers'[s] \in PeerSession
    OBVIOUS
  <2>1. peers[s].tofu_epoch \in Nat
    BY SMTT(20), SlotFacts DEF PeerSession
  <2> DEFINE q == ClearedPeer("IDLE", peers[s].tofu_epoch)
  <2>2. q.state = "IDLE" /\ SlotInv(q, tofu_epoch', approved') /\ ~q.fd
    BY SMTT(20), <2>1, ClearedSlot DEF ClearedPeer
  <2> HIDE DEF q
  <2> QED
    BY Zenon, <1>1, <2>2 DEF q, SlotInv
<1>4. peers' \in [Slots -> PeerSession]
  BY <1>3 DEF TorDied
<1>5. active_peer_idx \in Slots \union {NoSlot} /\ ActiveIsLive
  BY Zenon DEF IInv, GlobalTypes
<1>6. active_peer_idx' = NoSlot /\ active_peer_onion' \in Onions \union {NoOnion}
  BY Zenon, <1>5 DEF TorDied, ActiveIsLive, IsFree, active, IInv, GlobalTypes
<1>7. GlobalTypes' /\ ContactsInv' /\ QueueOnlyToVerified'
  BY Zenon, <1>2, <1>6 DEF IInv, GlobalTypes, ContactsInv, QueueOnlyToVerified, prompt, typed
<1>8. Pending' = {}
  BY SMTT(20), <1>3 DEF Pending
<1>9. TokenInv'
  BY Zenon, <1>2, <1>8 DEF IInv, TokenInv, prompt, typed
<1>10. ActiveIsLive' /\ NoPeerWithoutKeys'
  BY SMTT(20), <1>3, <1>6 DEF ActiveIsLive, NoPeerWithoutKeys, IsFree
<1> QED
  BY SMTT(20), <1>3, <1>4, <1>7, <1>9, <1>10 DEF IInv

\* What a line that has been read leaves to show.
LEMMA LineRead ==
  ASSUME IInv, line' \in Seq({"y", "n"}), line_seen' = 0, UNCHANGED <<ghost_mode, keys, flushed, tofu_epoch>>,
         tofu_prompt_epoch' \in Nat, tofu_prompt_epoch' <= tofu_epoch,
         Pending' # {} => tofu_prompt_epoch' # 0,
         tofu_prompt_fp' \in Keys \union {NoKey},
         contacts' \in [Onions -> Keys \union {ZeroKey, NoContact}], ContactsInv',
         approved \subseteq approved', approved' \subseteq Onions \X Keys,
         active_peer_idx' \in Slots \union {NoSlot},
         active_peer_onion' \in Onions \union {NoOnion},
         peers' \in [Slots -> PeerSession],
         \A r \in Slots : SlotInv(peers'[r], tofu_epoch', approved'),
         ActiveIsLive', NoPeerWithoutKeys'
  PROVE  IInv'
<1>1. GlobalTypes' /\ QueueOnlyToVerified'
  BY Zenon DEF IInv, GlobalTypes, QueueOnlyToVerified
<1>2. TokenInv'
  BY Zenon DEF TokenInv
<1> QED
  BY Zenon, <1>1, <1>2 DEF IInv

\* The approval adds the pair it stores, so every stored key stays approved.
LEMMA AcceptContacts ==
  ASSUME IInv, NEW o \in Onions, NEW k \in Keys, db_add_contact(o, k),
         approved' = approved \union {<<o, k>>}
  PROVE  /\ contacts' \in [Onions -> Keys \union {ZeroKey, NoContact}]
         /\ ContactsInv'
         /\ approved \subseteq approved' /\ approved' \subseteq Onions \X Keys
<1>1. contacts \in [Onions -> Keys \union {ZeroKey, NoContact}] /\ approved \subseteq Onions \X Keys
  BY Zenon DEF IInv, GlobalTypes
<1>2. contacts' = [contacts EXCEPT ![o] = k] \/ contacts' = contacts
  BY DEF db_add_contact
<1> QED
  BY <1>1, <1>2 DEF IInv, ContactsInv

LEMMA ResponseStep ==
  ASSUME IInv, tofu_user_response
  PROVE  IInv'
<1>1. /\ tofu_epoch \in Nat /\ tofu_prompt_epoch \in Nat
      /\ tofu_prompt_fp \in Keys \union {NoKey}
      /\ contacts \in [Onions -> Keys \union {ZeroKey, NoContact}]
      /\ approved \subseteq Onions \X Keys
      /\ active_peer_idx \in Slots \union {NoSlot}
      /\ active_peer_onion \in Onions \union {NoOnion}
  BY Zenon DEF IInv, GlobalTypes
<1>2. tofu_prompt_epoch <= tofu_epoch /\ (Pending # {} => tofu_prompt_epoch # 0)
      /\ ContactsInv /\ ActiveIsLive
  BY Zenon DEF IInv, TokenInv
<1>3. /\ line' \in Seq({"y", "n"}) /\ line_seen' = 0
      /\ UNCHANGED <<ghost_mode, keys, flushed>>
  <2>1. line \in Seq({"y", "n"})
    BY Zenon DEF IInv, GlobalTypes
  <2>2. /\ line # <<>> /\ line' = Tail(line) /\ line_seen' = 0
        /\ UNCHANGED <<ghost_mode, keys, flushed>>
    BY Zenon DEF tofu_user_response
  <2> QED
    BY <2>1, <2>2
<1>4. {"PEER_DISCONNECTED", "TOFU_REJECTED"} \subseteq CleanupEvents
  BY DEF CleanupEvents
<1>0. 0 \in Nat /\ 0 <= tofu_epoch
  BY SMTT(20), <1>1
<1>5. CASE UNCHANGED <<peers, active, prompt, contacts, approved>>
  <2>1. /\ peers' \in [Slots -> PeerSession] /\ Pending' = Pending /\ NoPeerWithoutKeys'
        /\ \A r \in Slots : SlotInv(peers'[r], tofu_epoch', approved')
    BY ZenonT(40), <1>3, <1>5, SlotsKept DEF prompt
  <2>2. ActiveIsLive' /\ ContactsInv'
    BY <1>2, <1>5 DEF ActiveIsLive, ContactsInv, active
  <2> QED
    BY Zenon, <1>1, <1>2, <1>3, <1>5, <2>1, <2>2, LineRead DEF prompt, active
<1>6. CASE SendLine
  <2>1. UNCHANGED <<prompt, contacts, approved>>
    BY <1>6 DEF SendLine
  <2>2. CASE UNCHANGED <<peers, active>>
    BY SMTT(20), <1>5, <2>1, <2>2
  <2>3. CASE ~UNCHANGED <<peers, active>>
    <3> DEFINE s == active_peer_idx
    <3>1. s \in Slots /\ action_cleanup(s, "PEER_DISCONNECTED")
      BY SMTT(20), <1>1, <1>6, <2>3 DEF SendLine
    <3> HIDE DEF s
    <3>2. /\ peers' \in [Slots -> PeerSession]
          /\ \A r \in Slots : SlotInv(peers'[r], tofu_epoch', approved')
          /\ active_peer_idx' \in Slots \union {NoSlot}
          /\ active_peer_onion' \in Onions \union {NoOnion}
          /\ ActiveIsLive' /\ Pending' = Pending \ {s} /\ NoPeerWithoutKeys'
      BY Zenon, <1>3, <1>4, <2>1, <3>1, CleanupSlots DEF prompt
    <3>3. ContactsInv'
      BY SMTT(20), <1>2, <2>1 DEF ContactsInv
    <3> QED
      BY Zenon, <1>1, <1>2, <1>3, <2>1, <3>2, <3>3, LineRead DEF prompt
  <2> QED
    BY <2>2, <2>3
<1>7. ASSUME NEW s \in Slots, Pending = {s}, Rearm(s)
      PROVE  IInv'
  <2>1. UNCHANGED <<tofu_epoch, peers, active, contacts, approved>>
    BY <1>7 DEF Rearm
  <2>2. /\ tofu_prompt_epoch' = peers[s].tofu_epoch
        /\ tofu_prompt_fp' = peers[s].tofu_new_key
    BY <1>7 DEF Rearm
  <2>3. /\ peers[s].tofu_epoch \in Nat /\ peers[s].tofu_new_key \in Keys \union {NoKey}
        /\ peers[s].tofu_epoch # 0 /\ peers[s].tofu_epoch <= tofu_epoch
    BY Zenon, <1>7, SlotFacts DEF Pending, SlotInv, PeerSession
  <2>4. /\ peers' \in [Slots -> PeerSession] /\ NoPeerWithoutKeys'
        /\ \A r \in Slots : SlotInv(peers'[r], tofu_epoch', approved')
    BY Zenon, <1>3, <2>1, SlotsKept
  <2>5. ActiveIsLive' /\ ContactsInv'
    BY <1>2, <2>1 DEF ActiveIsLive, ContactsInv, active
  <2> QED
    BY Zenon, <1>1, <1>3, <2>1, <2>2, <2>3, <2>4, <2>5, LineRead DEF active
<1>8. ASSUME NEW s \in Slots, Pending = {s}, action_tofu_accept(s), tofu_prompt_epoch' = 0,
             UNCHANGED <<tofu_epoch, tofu_prompt_fp>>
      PROVE  IInv'
  <2> DEFINE p == peers[s]
  <2>1. /\ p \in PeerSession /\ SlotInv(p, tofu_epoch, approved) /\ keys
        /\ p.state = "TOFU_PENDING" /\ p.tofu_onion \in Onions /\ p.tofu_new_key \in Keys
    BY Zenon, <1>8, SlotFacts DEF Pending, SlotInv
  <2>2. approved' = approved \union {<<p.tofu_onion, p.tofu_new_key>>}
    BY SMTT(20), <1>8 DEF action_tofu_accept
  <2>3. /\ contacts' \in [Onions -> Keys \union {ZeroKey, NoContact}]
        /\ ContactsInv'
        /\ approved \subseteq approved' /\ approved' \subseteq Onions \X Keys
    BY SMTT(20), <1>8, <2>1, <2>2, AcceptContacts DEF action_tofu_accept
  <2>4. CASE /\ peers' = [peers EXCEPT ![s] = TofuSession(p)]
             /\ active_peer_onion' = p.tofu_onion
             /\ UNCHANGED active_peer_idx
    <3> DEFINE q == TofuSession(p)
    <3>1. SlotInv(q, tofu_epoch', approved') /\ q.state = "ACTIVE"
      BY Zenon, <1>8, <2>1, <2>2, TofuSessionSlot
    <3> HIDE DEF q
    <3>2. tofu_epoch' \in Nat /\ tofu_epoch <= tofu_epoch'
      BY <1>1, <1>8
    <3>3. /\ peers \in [Slots -> PeerSession]
          /\ \A r \in Slots : SlotInv(peers[r], tofu_epoch, approved)
      BY DEF IInv
    <3>4. peers' = [peers EXCEPT ![s] = q]
      BY <2>4 DEF q
    <3>5. /\ peers' \in [Slots -> PeerSession]
          /\ \A r \in Slots : SlotInv(peers'[r], tofu_epoch', approved')
      BY Zenon, <1>1, <2>3, <3>1, <3>2, <3>3, <3>4, OneSlotStep
    <3>6. \A r \in Slots : peers'[r] = IF r = s THEN q ELSE peers[r]
      BY SMTT(20), <3>3, <3>4
    <3>7. Pending' = {}
      BY SMTT(20), <1>8, <3>1, <3>6 DEF Pending
    <3>8. ActiveIsLive' /\ NoPeerWithoutKeys'
      BY Zenon, <1>1, <1>2, <1>3, <2>1, <2>4, <3>1, <3>6 DEF ActiveIsLive, NoPeerWithoutKeys
    <3> QED
      BY Zenon, <1>0, <1>1, <1>3, <1>8, <2>1, <2>3, <2>4, <3>5, <3>7, <3>8, LineRead
  <2>5. CASE action_cleanup(s, "PEER_DISCONNECTED")
    <3>1. /\ peers' \in [Slots -> PeerSession]
          /\ \A r \in Slots : SlotInv(peers'[r], tofu_epoch', approved')
          /\ active_peer_idx' \in Slots \union {NoSlot}
          /\ active_peer_onion' \in Onions \union {NoOnion}
          /\ ActiveIsLive' /\ Pending' = Pending \ {s} /\ NoPeerWithoutKeys'
      BY Zenon, <1>3, <1>4, <1>8, <2>3, <2>5, CleanupSlots
    <3>2. Pending' = {}
      BY SMTT(20), <1>8, <3>1
    <3> QED
      BY Zenon, <1>0, <1>1, <1>3, <1>8, <2>3, <3>1, <3>2, LineRead
  <2> QED
    BY <1>8, <2>4, <2>5 DEF action_tofu_accept
<1>9. ASSUME NEW s \in Slots, Pending = {s}, AnswerNo(s)
      PROVE  IInv'
  <2>1. /\ action_cleanup(s, "TOFU_REJECTED") /\ tofu_prompt_epoch' = 0
        /\ UNCHANGED <<tofu_epoch, tofu_prompt_fp, contacts, approved>>
    BY <1>9 DEF AnswerNo
  <2>2. /\ peers' \in [Slots -> PeerSession]
        /\ \A r \in Slots : SlotInv(peers'[r], tofu_epoch', approved')
        /\ active_peer_idx' \in Slots \union {NoSlot}
        /\ active_peer_onion' \in Onions \union {NoOnion}
        /\ ActiveIsLive' /\ Pending' = Pending \ {s} /\ NoPeerWithoutKeys'
    BY Zenon, <1>3, <1>4, <2>1, CleanupSlots
  <2>3. ContactsInv'
    BY <1>2, <2>1 DEF ContactsInv
  <2>4. Pending' = {}
    BY <1>9, <2>2
  <2> QED
    BY Zenon, <1>0, <1>1, <1>3, <2>1, <2>2, <2>3, <2>4, LineRead
<1> QED
  BY Zenon, <1>5, <1>6, <1>7, <1>8, <1>9 DEF tofu_user_response, AnswerYes

-----------------------------------------------------------------------------
(* The inductive invariant, and what follows from it.                       *)

LEMMA InitIInv == Init => IInv
<1> SUFFICES ASSUME Init PROVE IInv
  BY SMTT(20)
<1>1. \A s \in Slots : /\ peers[s].state = "IDLE" /\ peers[s] \in PeerSession
                       /\ SlotInv(peers[s], tofu_epoch, approved)
  <2>1. 0 \in Nat
    OBVIOUS
  <2> DEFINE q == ClearedPeer("IDLE", 0)
  <2>2. q.state = "IDLE" /\ SlotInv(q, tofu_epoch, approved)
    BY <2>1, ClearedSlot
  <2> HIDE DEF q
  <2>3. \A s \in Slots : peers[s] = q
    BY Zenon DEF Init, q
  <2> QED
    BY <2>2, <2>3 DEF SlotInv
<1>2. peers \in [Slots -> PeerSession]
  BY Zenon, <1>1 DEF Init
<1>3. Pending = {}
  BY SMTT(20), <1>1 DEF Pending
<1>4. GlobalTypes
  <2>1. line = <<>>
    BY Zenon DEF Init
  <2>2. line \in Seq({"y", "n"})
    BY <2>1
  <2> QED
    BY Zenon, <2>2 DEF Init, GlobalTypes
<1>5. TokenInv
  <2>1. tofu_prompt_epoch = 0 /\ tofu_epoch = 0
    BY Zenon DEF Init
  <2>2. tofu_prompt_epoch <= tofu_epoch
    BY <2>1
  <2>3. line_seen = 0
    BY Zenon DEF Init
  <2> QED
    BY Zenon, <1>3, <2>2, <2>3 DEF TokenInv
<1>6. ActiveIsLive /\ QueueOnlyToVerified
  BY Zenon DEF Init, ActiveIsLive, QueueOnlyToVerified
<1>7. ContactsInv
  BY Zenon DEF Init, ContactsInv
<1>8. NoPeerWithoutKeys
  BY Zenon DEF Init, NoPeerWithoutKeys
<1> QED
  BY <1>1, <1>2, <1>4, <1>5, <1>6, <1>7, <1>8 DEF IInv

\* The handlers that only clean one slot.
LEMMA CleaningStep ==
  ASSUME IInv, NEW s \in Slots,
         \/ PeerGone(s) \/ HandshakeError(s) \/ SeqMismatch(s)
         \/ HandshakeTimeout(s) \/ TofuTimeout(s) \/ IdleTimeout(s)
  PROVE  IInv' /\ (peers'[s].state = "IDLE" /\ \A r \in Slots \ {s} : peers'[r] = peers[r])
<1>1. PICK ev \in CleanupEvents : action_cleanup(s, ev)
  BY SMTT(20) DEF PeerGone, HandshakeError, SeqMismatch, HandshakeTimeout, TofuTimeout,
         IdleTimeout, CleanupEvents, HandshakeFailures
<1>2. UNCHANGED <<prompt, contacts, ghost_mode, keys, typed, approved, flushed>>
  BY DEF PeerGone, HandshakeError, SeqMismatch, HandshakeTimeout, TofuTimeout,
         IdleTimeout
<1>3. peers' = [peers EXCEPT ![s] = ClearedPeer("IDLE", peers[s].tofu_epoch)]
  BY <1>1, CleanupStep
<1>4. peers \in [Slots -> PeerSession]
  BY SMTT(20) DEF IInv
<1>5. peers'[s].state = "IDLE" /\ \A r \in Slots \ {s} : peers'[r] = peers[r]
  BY <1>3, <1>4 DEF ClearedPeer
<1> QED
  BY SMTT(20), <1>1, <1>2, <1>5, CleanupOnly

LEMMA UserDisconnectStep ==
  ASSUME IInv, UserDisconnect
  PROVE  IInv'
<1> DEFINE s == active_peer_idx
<1>1. s \in Slots /\ action_cleanup(s, "PEER_DISCONNECTED")
  BY Zenon DEF UserDisconnect, IInv, GlobalTypes
<1> HIDE DEF s
<1>2. UNCHANGED <<prompt, contacts, ghost_mode, keys, typed, approved, flushed>>
  BY DEF UserDisconnect
<1>3. "PEER_DISCONNECTED" \in CleanupEvents
  BY DEF CleanupEvents
<1> QED
  BY SMTT(20), <1>1, <1>2, <1>3, CleanupOnly

LEMMA NextIInv == IInv /\ [Next]_vars => IInv'
<1> SUFFICES ASSUME IInv, [Next]_vars PROVE IInv'
  BY SMTT(20)
<1>1. ASSUME NEW s \in Slots, SlotNext(s) PROVE IInv'
  BY Zenon, <1>1, AcceptPeerStep, ConnectPeerStep, SwitchPeerStep, HandshakeReplyStep,
     HandshakeKnownStep, HandshakePromptStep, ReceiveTextStep, FileRxStep, CleaningStep
     DEF SlotNext
<1>2. CASE UserDisconnect
  BY <1>2, UserDisconnectStep
<1>3. CASE \E o \in Onions : AddContact(o)
  BY <1>3, AddContactStep
<1>4. CASE TorDied
  BY <1>4, TorDiedStep
<1>5. CASE \E a \in {"y", "n"} : TypeAnswer(a)
  BY SMTT(20), <1>5, TypeAnswerStep
<1>6. CASE tofu_user_response
  BY <1>6, ResponseStep
<1>7. CASE UNCHANGED vars
  <2>1. UNCHANGED <<peers, active, prompt, contacts, ghost_mode, keys, typed, approved, flushed>>
    BY SMTT(20), <1>7 DEF vars
  <2>2. GlobalTypes' /\ TokenInv' /\ ActiveIsLive' /\ ContactsInv'
    BY Zenon, <2>1 DEF IInv, GlobalTypes, TokenInv, ActiveIsLive, ContactsInv, Pending,
                prompt, typed, active
  <2> QED
    BY <2>1, <2>2, SlotsKept DEF IInv, prompt
<1> QED
  BY <1>1, <1>2, <1>3, <1>4, <1>5, <1>6, <1>7 DEF Next

LEMMA IInvAlways == Spec => []IInv
BY InitIInv, NextIInv, PTL DEF Spec

\* Every variable keeps its type through every handler of the loop.
THEOREM TypeCorrect == Spec => []TypeOK
<1>1. IInv => TypeOK
  BY Zenon DEF IInv, GlobalTypes, TypeOK
<1> QED
  BY <1>1, IInvAlways, PTL

\* In every reachable state the fields of every slot agree with its state: no
\* handler, error path or nested dispatch leaves a half-cleaned slot.
THEOREM SlotsConsistent == Spec => []SlotConsistent
<1>1. IInv => SlotConsistent
  <2> SUFFICES ASSUME IInv, NEW s \in Slots
               PROVE  LET p == peers[s] IN
                        /\ p.fd <=> p.state # "IDLE"
                        /\ p.session <=> p.state \in SessionStates
                        /\ p.rx_active <=> p.state = "FILE_RX"
                        /\ p.hs = (CASE p.state = "HANDSHAKE_INIT" -> 1
                                     [] p.state = "HANDSHAKE_RESP" -> IF p.hs = 0 THEN 0 ELSE 2
                                     [] p.state = "TOFU_PENDING" -> 3
                                     [] OTHER -> NoHs)
                        /\ p.state = "IDLE" => p = ClearedPeer("IDLE", p.tofu_epoch)
    BY SMTT(20) DEF SlotConsistent
  <2> DEFINE p == peers[s]
  <2>1. SlotInv(p, tofu_epoch, approved) /\ p.state \in peer_state_t
    BY SlotFacts DEF PeerSession
  <2> HIDE DEF p
  <2>2. p.hs = (CASE p.state = "HANDSHAKE_INIT" -> 1
                  [] p.state = "HANDSHAKE_RESP" -> IF p.hs = 0 THEN 0 ELSE 2
                  [] p.state = "TOFU_PENDING" -> 3
                  [] OTHER -> NoHs)
    BY SMTT(20), <2>1 DEF SlotInv, peer_state_t, HandshakeStates, SessionStates
  <2> QED
    BY <2>1, <2>2 DEF SlotInv, p
<1> QED
  BY <1>1, IInvAlways, PTL

\* Nothing but the user's approval binds a key to an address, and every
\* session is with an approved pair.
THEOREM ApprovedOnly == Spec => []OnlyApproved
<1>1. IInv => OnlyApproved
  BY Zenon, SlotFacts DEF IInv, ContactsInv, OnlyApproved, SlotInv
<1> QED
  BY <1>1, IInvAlways, PTL

\* The offline queue leaves only in sessions set up with a stored, approved key.
THEOREM QueueVerified == Spec => []QueueOnlyToVerified
<1>1. IInv => QueueOnlyToVerified
  BY DEF IInv
<1> QED
  BY <1>1, IInvAlways, PTL

\* While a prompt is pending the token names a prompt that has been printed.
THEOREM TokenIsArmed == Spec => []TokenArmed
<1>1. IInv => TokenArmed
  <2> SUFFICES ASSUME IInv, Pending # {} PROVE tofu_prompt_epoch \in 1 .. tofu_epoch
    BY DEF TokenArmed
  <2>1. tofu_epoch \in Nat /\ tofu_prompt_epoch \in Nat
    BY Zenon DEF IInv, GlobalTypes
  <2>2. tofu_prompt_epoch <= tofu_epoch /\ tofu_prompt_epoch # 0
    BY Zenon DEF IInv, TokenInv
  <2> QED
    BY <2>1, <2>2
<1> QED
  BY <1>1, IInvAlways, PTL

\* The active index never names an idle slot: cleanup and Tor's death move it.
THEOREM ActiveLive == Spec => []ActiveIsLive
<1>1. IInv => ActiveIsLive
  BY DEF IInv
<1> QED
  BY <1>1, IInvAlways, PTL

\* An outgoing session is with the address /connect dialled, whatever the peer
\* claims in its handshake.
THEOREM DialledReached == Spec => []DialledIsReached
<1>1. IInv => DialledIsReached
  BY ZenonT(40), SlotFacts DEF DialledIsReached, SlotInv
<1> QED
  BY <1>1, IInvAlways, PTL

\* After the death of Tor has wiped the keys no slot is in use.
THEOREM NoneWithoutKeys == Spec => []NoPeerWithoutKeys
<1>1. IInv => NoPeerWithoutKeys
  BY DEF IInv
<1> QED
  BY <1>1, IInvAlways, PTL

\* Slots, active index, token and keys agree after every handler, for any
\* number of slots.
THEOREM SlotsAlwaysInOrder == Spec => []SlotsInOrder
BY SlotsConsistent, ActiveLive, TokenIsArmed, NoneWithoutKeys, PTL DEF SlotsInOrder

\* The only step from a pending prompt to a session is the answer 'y' to the
\* instance the token names.
LEMMA OnlyYesAdmits ==
  ASSUME IInv, [Next]_vars, NEW s \in Slots, peers[s].state = "TOFU_PENDING",
         peers'[s].state = "ACTIVE"
  PROVE  line # <<>> /\ TokenMatches(peers[s])
<1>0. peers \in [Slots -> PeerSession]
  BY SMTT(20) DEF IInv
<1>1. ASSUME NEW r \in Slots, SlotNext(r) PROVE FALSE
  <2>1. CASE r # s
    <3>1. peers'[s] = peers[s]
      BY ZenonT(40), <1>0, <1>1, <2>1, CleaningStep
         DEF SlotNext, AcceptPeer, ConnectPeer, SwitchPeer, HandshakeReply, HandshakeKnown,
             HandshakePrompt, ReceiveText, action_cleanup, FileRxStart, FileRxEnd
    <3> QED
      BY SMTT(20), <3>1
  <2>2. CASE r = s
    <3>1. ~peers[s].session /\ ~peers[s].rx_active /\ ~Completes(s) /\ ~IsFree(s)
      BY Zenon, SlotFacts DEF SlotInv, SessionStates, Completes, IsFree
    <3> QED
      BY Zenon, <1>1, <2>2, <3>1, CleaningStep
         DEF SlotNext, AcceptPeer, ConnectPeer, SwitchPeer, FirstFree, HandshakeReply,
             HandshakeKnown, HandshakePrompt, ReceiveText, FileRxStart, FileRxEnd
  <2> QED
    BY <2>1, <2>2
<1>2. ASSUME NEW r \in Slots, NEW ev \in CleanupEvents, action_cleanup(r, ev) PROVE FALSE
  <2>1. peers' = [peers EXCEPT ![r] = ClearedPeer("IDLE", peers[r].tofu_epoch)]
    BY <1>2, CleanupStep
  <2>2. peers'[s] = peers[s] \/ peers'[s] = ClearedPeer("IDLE", peers[r].tofu_epoch)
    BY <1>0, <2>1
  <2> QED
    BY <2>2 DEF ClearedPeer
<1>3. active_peer_idx \in Slots \union {NoSlot}
  BY Zenon DEF IInv, GlobalTypes
<1>4. {"PEER_DISCONNECTED", "TOFU_REJECTED"} \subseteq CleanupEvents
  BY DEF CleanupEvents
<1>5. CASE UserDisconnect
  BY ZenonT(40), <1>2, <1>3, <1>4, <1>5 DEF UserDisconnect
<1>6. CASE (\E o \in Onions : AddContact(o)) \/ (\E a \in {"y", "n"} : TypeAnswer(a)) \/ UNCHANGED vars
  BY ZenonT(40), <1>6 DEF AddContact, TypeAnswer, vars
<1>7. CASE TorDied
  <2>1. NoPeerWithoutKeys'
    BY <1>7, TorDiedStep DEF IInv
  <2> QED
    BY Zenon, <1>7, <2>1 DEF NoPeerWithoutKeys, IsFree, TorDied
<1>8. CASE tofu_user_response
  <2>1. line # <<>>
    BY Zenon, <1>8 DEF tofu_user_response
  <2>2. peers' # peers
    BY SMTT(20)
  <2>3. ~SendLine
    BY SMTT(20), <1>2, <1>3, <1>4, <2>2 DEF SendLine
  <2>4. PICK r \in Slots : Pending = {r} /\ (AnswerYes(r) \/ AnswerNo(r))
    BY Zenon, <1>8, <2>2, <2>3 DEF tofu_user_response
  <2>5. r = s
    BY SMTT(20), <2>4 DEF Pending
  <2>6. action_tofu_accept(s)
    BY <1>2, <1>4, <2>2, <2>4, <2>5 DEF AnswerYes, AnswerNo, Rearm
  <2> QED
    BY Zenon, <2>1, <2>6 DEF action_tofu_accept
<1> QED
  BY Zenon, <1>1, <1>5, <1>6, <1>7, <1>8 DEF Next

\* C2 for every number of slots, peers, prompts and unread answers: no 'y' typed
\* at a prompt with nothing unread before it admits an instance whose prompt
\* came after it was typed.
THEOREM YesForSeen == Spec => YesIsForSeen
<1> DEFINE Seen == \A s \in Slots :
                     peers[s].state = "TOFU_PENDING" /\ peers'[s].state = "ACTIVE" /\ line_seen # 0
                       => peers[s].tofu_epoch <= line_seen
<1>1. IInv /\ [Next]_vars => Seen
  <2> SUFFICES ASSUME IInv, [Next]_vars, NEW s \in Slots,
                      peers[s].state = "TOFU_PENDING", peers'[s].state = "ACTIVE", line_seen # 0
               PROVE  peers[s].tofu_epoch <= line_seen
    BY SMTT(20)
  <2>1. line # <<>> /\ TokenMatches(peers[s])
    BY Zenon, OnlyYesAdmits
  <2>2. tofu_prompt_epoch \in 1 .. line_seen
    BY Zenon, <2>1 DEF IInv, TokenInv
  <2>3. peers[s].tofu_epoch = tofu_prompt_epoch
    BY Zenon, <2>1 DEF TokenMatches
  <2>4. line_seen \in Nat
    BY ZenonT(40) DEF IInv, GlobalTypes
  <2> QED
    BY <2>2, <2>3, <2>4
<1>2. IInv /\ [Next]_vars => [Seen]_vars
  BY <1>1
<1> QED
  BY <1>2, IInvAlways, PTL DEF Spec, YesIsForSeen
=============================================================================
