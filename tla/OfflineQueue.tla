---------------------------- MODULE OfflineQueue ----------------------------
(***************************************************************************)
(* The offline queue for one recipient: /msg to a peer that is not          *)
(* connected cuts the message into parts and inserts one row for each, and  *)
(* a verified session sends the rows and deletes them one by one.  Every    *)
(* statement is its own transaction, and the process may die between any    *)
(* two of them.                                                             *)
(***************************************************************************)
EXTENDS Naturals, Sequences, FiniteSets

CONSTANTS
  MaxMsgs,            \* bound on the messages typed
  Parts,              \* parts of each message
  QUEUE_BATCH_LIMIT,  \* rows sent in one session, 256 in database.c
  MaxErrors,          \* bound on the statements that fail
  MaxCrashes,         \* bound on the crashes
  BadRows,            \* rows that do not decrypt when they are read back
  Malformed           \* rows with a nonce or payload of an impossible size

Rows == (1 .. MaxMsgs) \X (1 .. Parts)

ASSUME QueueAssumption ==
  /\ MaxMsgs \in Nat /\ Parts \in Nat \ {0} /\ QUEUE_BATCH_LIMIT \in Nat \ {0}
  /\ MaxErrors \in Nat /\ MaxCrashes \in Nat
  /\ BadRows \subseteq Rows /\ Malformed \subseteq Rows

VARIABLES
  queue,     \* rows of the table, by id
  pc,        \* what the process is doing
  msgs,      \* messages typed so far
  queued,    \* parts of the current message inserted so far
  batch,     \* rows read from the table and not sent yet
  cursor,    \* rows the SELECT of db_process_queue has returned
  accepted,  \* messages queued whole: queue_segmented_message returned NOX_OK
  wire,      \* history: rows written to the socket, in order
  errors,    \* statements that failed so far
  crashes    \* crashes so far

vars == <<queue, pc, msgs, queued, batch, cursor, accepted, wire, errors, crashes>>

Init ==
  /\ queue = <<>> /\ batch = <<>> /\ wire = <<>>
  /\ pc = "idle"
  /\ msgs = 0 /\ queued = 0 /\ cursor = 0 /\ errors = 0 /\ crashes = 0
  /\ accepted = {}

Elements(s) == {s[i] : i \in 1 .. Len(s)}
Without(s, i) == SubSeq(s, 1, i - 1) \o SubSeq(s, i + 1, Len(s))

\* A statement fails.
DbError == errors < MaxErrors /\ errors' = errors + 1

-----------------------------------------------------------------------------

\* /msg to a peer without a session: queue_segmented_message begins.
queue_segmented_message ==
  /\ pc = "idle" /\ msgs < MaxMsgs
  /\ pc' = "queueing"
  /\ msgs' = msgs + 1
  /\ queued' = 0
  /\ UNCHANGED <<queue, batch, cursor, accepted, wire, errors, crashes>>

\* The next part is inserted.  After the last one the user is told so.
db_queue_message ==
  /\ pc = "queueing"
  /\ queue' = Append(queue, <<msgs, queued + 1>>)
  /\ queued' = queued + 1
  /\ IF queued + 1 = Parts
     THEN pc' = "idle" /\ accepted' = accepted \union {msgs}
     ELSE UNCHANGED <<pc, accepted>>
  /\ UNCHANGED <<msgs, batch, cursor, wire, errors, crashes>>

\* The insertion fails: what was inserted of the message is to be taken back.
QueueFails ==
  /\ pc = "queueing" /\ DbError
  /\ pc' = IF queued > 0 THEN "rollback" ELSE "idle"
  /\ UNCHANGED <<queue, msgs, queued, batch, cursor, accepted, wire, crashes>>

\* Mutant: one row too few is taken back.
db_queue_rollback_last_OneFewer ==
  /\ pc = "rollback"
  /\ queue' = SubSeq(queue, 1, Len(queue) - queued + 1)
  /\ pc' = "idle"
  /\ UNCHANGED <<msgs, queued, batch, cursor, accepted, wire, errors, crashes>>

\* db_queue_rollback_last: the newest rows go, unless the statement fails too.
db_queue_rollback_last ==
  /\ pc = "rollback"
  /\ \/ queue' = SubSeq(queue, 1, Len(queue) - queued) /\ UNCHANGED errors
     \/ DbError /\ UNCHANGED queue
  /\ pc' = "idle"
  /\ UNCHANGED <<msgs, queued, batch, cursor, accepted, wire, crashes>>

\* A verified session received its first text: db_process_queue prepares the
\* SELECT of the rows, oldest first.
db_process_queue ==
  /\ pc = "idle" /\ queue # <<>>
  /\ pc' = "read"
  /\ UNCHANGED <<queue, msgs, queued, batch, cursor, accepted, wire, errors, crashes>>

Take(r) == batch' = IF r \in Malformed THEN batch ELSE Append(batch, r)

\* Mutant: the newest rows are read first.
sqlite3_step_Newest ==
  /\ pc = "read" /\ cursor < Len(queue) /\ Len(batch) < QUEUE_BATCH_LIMIT
  /\ Take(queue[Len(queue) - cursor])
  /\ cursor' = cursor + 1
  /\ UNCHANGED <<queue, pc, msgs, queued, accepted, wire, errors, crashes>>

\* The next row is copied to the batch, unless it is malformed: it is passed
\* over then, does not count and stays in the table.
sqlite3_step ==
  /\ pc = "read" /\ cursor < Len(queue) /\ Len(batch) < QUEUE_BATCH_LIMIT
  /\ Take(queue[cursor + 1])
  /\ cursor' = cursor + 1
  /\ UNCHANGED <<queue, pc, msgs, queued, accepted, wire, errors, crashes>>

\* There are no more rows, or the batch is full.
ReadDone ==
  /\ pc = "read" /\ (cursor = Len(queue) \/ Len(batch) = QUEUE_BATCH_LIMIT)
  /\ pc' = "flush"
  /\ cursor' = 0
  /\ UNCHANGED <<queue, msgs, queued, batch, accepted, wire, errors, crashes>>

\* The statement fails and what was read is sent; or it could not be prepared or
\* memory runs out, and nothing is.
ReadFails ==
  /\ pc = "read" /\ DbError
  /\ \/ pc' = "flush" /\ UNCHANGED batch
     \/ pc' = "idle" /\ batch' = <<>>
  /\ cursor' = 0
  /\ UNCHANGED <<queue, msgs, queued, accepted, wire, crashes>>

\* send_queued_callback writes the frame.
SendRow ==
  /\ pc = "flush" /\ batch # <<>>
  /\ Head(batch) \notin BadRows
  /\ wire' = Append(wire, Head(batch))
  /\ pc' = "delete"
  /\ UNCHANGED <<queue, msgs, queued, batch, cursor, accepted, errors, crashes>>

\* A row that does not decrypt is deleted unsent.
SkipRow ==
  /\ pc = "flush" /\ batch # <<>>
  /\ Head(batch) \in BadRows
  /\ pc' = "delete"
  /\ UNCHANGED <<queue, msgs, queued, batch, cursor, accepted, wire, errors, crashes>>

\* DELETE FROM queue WHERE id = ?
DeleteRow(r) ==
  \E i \in 1 .. Len(queue) : queue[i] = r /\ queue' = Without(queue, i)

\* Mutant: the row whose write failed is deleted too.
SendFails_Deletes ==
  /\ pc = "flush" /\ batch # <<>>
  /\ DeleteRow(Head(batch))
  /\ pc' = "idle"
  /\ batch' = <<>>
  /\ UNCHANGED <<msgs, queued, cursor, accepted, wire, errors, crashes>>

\* The write fails and ends the session, or memory runs out: the rest waits for
\* the next session.
SendFails ==
  /\ pc = "flush" /\ batch # <<>>
  /\ pc' = "idle"
  /\ batch' = <<>>
  /\ UNCHANGED <<queue, msgs, queued, cursor, accepted, wire, errors, crashes>>

\* Mutant: the row is not deleted.
db_queue_delete_Keeps ==
  /\ pc = "delete"
  /\ batch' = Tail(batch)
  /\ pc' = "flush"
  /\ UNCHANGED <<queue, msgs, queued, cursor, accepted, wire, errors, crashes>>

\* db_queue_delete; an error is reported and otherwise ignored.
db_queue_delete ==
  /\ pc = "delete"
  /\ \/ DeleteRow(Head(batch)) /\ UNCHANGED errors
     \/ DbError /\ UNCHANGED queue
  /\ batch' = Tail(batch)
  /\ pc' = "flush"
  /\ UNCHANGED <<msgs, queued, cursor, accepted, wire, crashes>>

\* The batch has been sent.
FlushDone ==
  /\ pc = "flush" /\ batch = <<>>
  /\ pc' = "idle"
  /\ UNCHANGED <<queue, msgs, queued, batch, cursor, accepted, wire, errors, crashes>>

\* The process dies anywhere and is started again; only the table is left.
Crash ==
  /\ crashes < MaxCrashes /\ pc # "idle"
  /\ crashes' = crashes + 1
  /\ pc' = "idle"
  /\ batch' = <<>>
  /\ queued' = 0
  /\ cursor' = 0
  /\ UNCHANGED <<queue, msgs, accepted, wire, errors>>

Next ==
  \/ queue_segmented_message
  \/ db_queue_message
  \/ QueueFails
  \/ db_queue_rollback_last
  \/ db_process_queue
  \/ sqlite3_step
  \/ ReadDone
  \/ ReadFails
  \/ SendRow
  \/ SkipRow
  \/ SendFails
  \/ db_queue_delete
  \/ FlushDone
  \/ Crash

Spec == Init /\ [][Next]_vars

\* The process goes on with what it has begun.  The recipient keeps coming back,
\* and again and again a session lasts long enough to get past the row at the
\* head.  (Errors and crashes are finitely many by their bounds.)
FairSpec ==
  /\ Spec
  /\ WF_vars(db_queue_message \/ db_queue_rollback_last \/ db_queue_delete
             \/ sqlite3_step \/ ReadDone \/ FlushDone)
  /\ WF_vars(db_process_queue)
  /\ SF_vars(SendRow \/ SkipRow)

-----------------------------------------------------------------------------
(* Properties.                                                              *)

\* The queue keeps the promise of Outbox: first come first sent, and nothing
\* accepted is lost, whichever statements fail and wherever the process dies.
Promise == INSTANCE Outbox WITH stored <- queue, sent <- Elements(wire),
                                BadRows <- BadRows \union Malformed
KeepsPromise == Promise!Spec

\* As long as no statement fails and the process does not die, no row is sent
\* twice, however sessions break off: each one is deleted before the next is
\* sent.
SentOnce ==
  errors = 0 /\ crashes = 0 => \A i, j \in 1 .. Len(wire) : wire[i] = wire[j] => i = j

\* Every readable part of an accepted message is sent in the end, however many
\* sessions it takes and however often they break off.
AllSent ==
  \A m \in 1 .. MaxMsgs :
    m \in accepted ~>
      ({m} \X (1 .. Parts)) \ (BadRows \union Malformed) \subseteq Elements(wire)

\* M-14: a message is queued whole or not at all ("mesaj aliciya iletilmez",
\* stdin_handler.c:303).  Every part of a message reported as queued is in the
\* table or was sent, unless it is unreadable, whatever fails; and no part of
\* another one is sent as long as the process does not die and no two statements
\* fail: the rollback takes back exactly the parts that were inserted.
WholeOrNothing ==
  /\ \A m \in accepted : \A i \in 1 .. Parts :
       <<m, i>> \in Elements(queue) \union Elements(wire) \union BadRows
  /\ errors < 2 /\ crashes = 0 => \A r \in Elements(wire) : r[1] \in accepted
=============================================================================
