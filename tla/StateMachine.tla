---------------------------- MODULE StateMachine ----------------------------
(***************************************************************************)
(* The peer state machine of state_machine.c: the states and events of     *)
(* state_machine.h, the transition table transitions[], and the search     *)
(* sm_dispatch makes in it.  The effects of the table's actions on the     *)
(* peer slot belong to the modules that own the slot's fields.             *)
(***************************************************************************)

HandshakeStates == {"HANDSHAKE_INIT", "HANDSHAKE_RESP"}

SessionStates == {"ACTIVE", "FILE_TX", "FILE_RX"}

peer_state_t ==
  {"IDLE", "CONNECTING", "TOFU_PENDING"} \union HandshakeStates \union SessionStates

\* The events of a handshake in progress that abort it.
HandshakeFailures ==
  {"HANDSHAKE_TIMEOUT", "HANDSHAKE_ERROR", "ARENA_FAIL", "RATE_LIMIT"}

peer_event_t ==
  {"CONNECT_CMD", "PEER_ACCEPTED", "HANDSHAKE_MSG", "HANDSHAKE_DONE",
   "SESSION_READY", "TOFU_ACCEPTED", "TOFU_REJECTED", "PEER_DISCONNECTED",
   "FILE_START", "FILE_RX_START", "FILE_DONE", "SEQ_MISMATCH", "TOR_DIED"}
  \union HandshakeFailures

\* The rows of the table whose action is action_cleanup; all lead to IDLE.
CleanupRows ==
  ((peer_state_t \ {"IDLE"}) \X {"PEER_DISCONNECTED"})
  \union (peer_state_t \X {"TOR_DIED"})
  \union (HandshakeStates \X HandshakeFailures)
  \union (SessionStates \X {"SEQ_MISMATCH"})
  \union {<<"TOFU_PENDING", "TOFU_REJECTED">>}

\* The other rows: state, event, next state.
ProgressRows ==
  {<<"IDLE", "CONNECT_CMD", "HANDSHAKE_INIT">>,
   <<"IDLE", "PEER_ACCEPTED", "HANDSHAKE_RESP">>,
   <<"TOFU_PENDING", "TOFU_ACCEPTED", "ACTIVE">>,
   <<"ACTIVE", "FILE_START", "FILE_TX">>,
   <<"ACTIVE", "FILE_RX_START", "FILE_RX">>,
   <<"FILE_TX", "FILE_DONE", "ACTIVE">>,
   <<"FILE_RX", "FILE_DONE", "ACTIVE">>}
  \union {<<h, "HANDSHAKE_MSG", h>> : h \in HandshakeStates}
  \union (HandshakeStates \X {"SESSION_READY"} \X {"ACTIVE"})
  \union (HandshakeStates \X {"HANDSHAKE_DONE"} \X {"TOFU_PENDING"})

transitions == ProgressRows \union {<<r[1], r[2], "IDLE">> : r \in CleanupRows}

\* A row of the table applies.  Without one sm_dispatch changes nothing and
\* returns NOX_ERR_STATE.
HasRow(st, ev) == \E t \in transitions : t[1] = st /\ t[2] = ev

\* The state sm_dispatch leaves behind when the row's action returns NOX_OK.
sm_dispatch(st, ev) ==
  IF HasRow(st, ev)
  THEN (CHOOSE t \in transitions : t[1] = st /\ t[2] = ev)[3]
  ELSE st
=============================================================================
