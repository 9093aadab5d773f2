------------------------------- MODULE Outbox -------------------------------
(***************************************************************************)
(* What the offline queue promises for one recipient: rows leave in the     *)
(* order they came in, and a row of a message the user was told is queued   *)
(* leaves only after it has been sent at least once, unless it cannot be    *)
(* decrypted any more.                                                      *)
(***************************************************************************)
EXTENDS Naturals, Sequences

CONSTANTS
  Rows,      \* rows that may be queued: pairs of a message and a part
  BadRows    \* rows that do not decrypt when they are read back

VARIABLES
  stored,    \* rows in the queue, oldest first
  sent,      \* rows sent at least once
  accepted   \* messages the user was told are queued

vars == <<stored, sent, accepted>>

Init == stored = <<>> /\ sent = {} /\ accepted = {}

Put(r) ==
  /\ stored' = Append(stored, r)
  /\ UNCHANGED <<sent, accepted>>

\* Put the last part of a message: the others are stored, sent or unreadable.
PutLast(r) ==
  /\ \A p \in Rows : p[1] = r[1] /\ p # r => p \in {stored[i] : i \in 1 .. Len(stored)} \union sent \union BadRows
  /\ stored' = Append(stored, r)
  /\ accepted' = accepted \union {r[1]}
  /\ UNCHANGED sent

\* Take back the newest rows, none of them of an accepted message.
TakeBack(k) ==
  /\ \A i \in k .. Len(stored) : stored[i][1] \notin accepted
  /\ stored' = SubSeq(stored, 1, k - 1)
  /\ UNCHANGED <<sent, accepted>>

\* Send a row: every older row has been sent before, or is unreadable.
Send(i) ==
  /\ \A j \in 1 .. i - 1 : stored[j] \in sent \union BadRows
  /\ sent' = sent \union {stored[i]}
  /\ UNCHANGED <<stored, accepted>>

Without(s, i) == SubSeq(s, 1, i - 1) \o SubSeq(s, i + 1, Len(s))

Remove(i) ==
  /\ stored[i] \in sent \union BadRows
  /\ stored' = Without(stored, i)
  /\ UNCHANGED <<sent, accepted>>

Next ==
  \/ \E r \in Rows : Put(r) \/ PutLast(r)
  \/ \E i \in 1 .. Len(stored) : TakeBack(i) \/ Send(i) \/ Remove(i)

Spec == Init /\ [][Next]_vars
=============================================================================
