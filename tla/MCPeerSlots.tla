---------------------------- MODULE MCPeerSlots -----------------------------
(* Instances of PeerSlots for TLC.  Addresses and keys are interchangeable.  *)
EXTENDS PeerSlots, TLC

Symmetry == Permutations(Onions) \union Permutations(Keys)

\* No step and no property reads the epoch of a slot whose prompt is closed, or
\* the key of a token that names no epoch, and of the sessions the queue was sent to
\* only whether all were verified is ever asked; states that differ only there are
\* one.
View ==
  <<[s \in Slots |-> IF s \in Pending THEN peers[s] ELSE [peers[s] EXCEPT !.tofu_epoch = 0]],
    active, tofu_epoch, tofu_prompt_epoch,
    IF tofu_prompt_epoch = 0 THEN NoKey ELSE tofu_prompt_fp,
    contacts, ghost_mode, keys, typed, approved,
    QueueOnlyToVerified>>
=============================================================================
