----------------------------- MODULE Transport ------------------------------
(***************************************************************************)
(* One direction of an established Noise session: the frames one node       *)
(* writes (typed text, a file's metadata and chunks), the byte stream Tor   *)
(* carries them on, and the event loop of the node that reads them.         *)
(*                                                                          *)
(* A frame is two pieces, the first with its header, so that a write may be *)
(* cut short and a read may end inside a frame; the receive buffer holds    *)
(* RECV_BUF_CAPACITY pieces.  The stream loses and reorders nothing.  A     *)
(* ciphertext is its nonce and what was encrypted.                          *)
(***************************************************************************)
EXTENDS Naturals, Sequences

CONSTANTS
  MaxFrames,          \* bound on the frames encrypted
  MaxFiles,           \* bound on the files offered
  Chunks,             \* chunks of each file
  RECV_BUF_CAPACITY,  \* pieces the receive buffer holds
  WritesCut,          \* may the writev of a whole frame be cut short?
  AllocFails          \* may sodium_malloc fail in the receiver?

ASSUME BoundsAssumption ==
  /\ MaxFrames \in Nat /\ MaxFiles \in Nat /\ Chunks \in Nat \ {0}
  /\ RECV_BUF_CAPACITY \in Nat /\ RECV_BUF_CAPACITY >= 2
  /\ WritesCut \in BOOLEAN /\ AllocFails \in BOOLEAN

VARIABLES
  tx_open,    \* the sender's socket is open
  tx_seq,     \* sequence number of the sender's next frame
  tx_left,    \* chunks of tx_file still to be sent, 0 when no file is active
  tx_buf,     \* pieces of the buffered chunk not written yet
  files,      \* number of files offered so far
  enc,        \* what was encrypted, in nonce order
  stream,     \* pieces written and not read yet
  rx_open,    \* the receiver's socket is open
  session,    \* the receiver has its session: known peer, or TOFU answered
  rx_seq,     \* sequence number the receiver expects
  acc,        \* what was decrypted, in order; its length is the receive nonce
  recv_buf,   \* pieces read and not processed yet
  rx_data,    \* chunks written to the received file
  rx_file,    \* number of the file being received, 0 when none is
  complete,   \* history: contents of the files that reached their size
  pc,         \* where the receiver's loop is
  batch,      \* events of the current epoll batch not handled yet
  full,       \* the frames are processed because the buffer was full
  mismatch    \* history: a sequence mismatch was found

sender == <<tx_open, tx_seq, tx_left, tx_buf, files, enc>>
received == <<rx_seq, acc, rx_data, rx_file, complete>>
loop == <<pc, batch, full>>
vars == <<sender, stream, rx_open, session, received, recv_buf, loop, mismatch>>

Text == [kind |-> "TEXT", file |-> 0, part |-> 0]
Metadata(f) == [kind |-> "META", file |-> f, part |-> 0]
Chunk(f, i) == [kind |-> "DATA", file |-> f, part |-> i]

Init ==
  /\ tx_open = TRUE /\ tx_seq = 0 /\ tx_left = 0 /\ tx_buf = <<>> /\ files = 0
  /\ enc = <<>> /\ stream = <<>>
  /\ rx_open = TRUE /\ session \in BOOLEAN /\ rx_seq = 0 /\ acc = <<>>
  /\ recv_buf = <<>> /\ rx_data = <<>> /\ rx_file = 0 /\ complete = {}
  /\ pc = "top" /\ batch = {} /\ full = FALSE /\ mismatch = FALSE

-----------------------------------------------------------------------------
(* The sender.                                                              *)

\* The pieces of the frame that carries ciphertext number n of body b.
Pieces(b, n) ==
  LET f == [file |-> b.kind # "TEXT", seq |-> tx_seq, n |-> n, body |-> b]
  IN  <<[frame |-> f, part |-> 1], [frame |-> f, part |-> 2]>>

\* How many pieces of a frame one writev leaves on the stream.
Written == IF WritesCut THEN 0 .. 2 ELSE {2}

\* noise_encrypt: every call consumes a nonce, whatever becomes of the frame.
noise_encrypt(b) ==
  /\ Len(enc) < MaxFrames
  /\ enc' = Append(enc, b)

\* action_cleanup of the sender's slot.
CloseSender ==
  /\ tx_open' = FALSE
  /\ tx_left' = 0
  /\ tx_buf' = <<>>

\* One frame of send_segmented_message_to or send_queued_callback: written at
\* once, or cut short and the connection is dropped.
send_text ==
  /\ tx_open
  /\ noise_encrypt(Text)
  /\ \E k \in Written :
       /\ stream' = stream \o SubSeq(Pieces(Text, Len(enc) + 1), 1, k)
       /\ IF k = 2
          THEN tx_seq' = tx_seq + 1 /\ UNCHANGED <<tx_open, tx_left, tx_buf>>
          ELSE CloseSender /\ UNCHANGED tx_seq
  /\ UNCHANGED <<files, rx_open, session, received, recv_buf, loop, mismatch>>

\* /file: the metadata is written at once; when the write is cut short the
\* transfer is given up and the connection stays.
file_transfer_start ==
  /\ tx_open /\ tx_left = 0 /\ files < MaxFiles
  /\ files' = files + 1
  /\ noise_encrypt(Metadata(files'))
  /\ \E k \in Written :
       /\ stream' = stream \o SubSeq(Pieces(Metadata(files'), Len(enc) + 1), 1, k)
       /\ IF k = 2
          THEN tx_seq' = tx_seq + 1 /\ tx_left' = Chunks
          ELSE UNCHANGED <<tx_seq, tx_left>>
  /\ UNCHANGED <<tx_open, tx_buf, rx_open, session, received, recv_buf, loop, mismatch>>

\* file_transfer_handle_tx without a buffered chunk: read and encrypt the next
\* one, with the sequence number of this moment, or give up.
BufferChunk ==
  /\ tx_left > 0 /\ tx_buf = <<>>
  /\ LET b == Chunk(files, Chunks - tx_left + 1) IN
     \/ /\ noise_encrypt(b)
        /\ tx_buf' = Pieces(b, Len(enc) + 1)
        /\ UNCHANGED tx_left
     \/ tx_left' = 0 /\ UNCHANGED <<enc, tx_buf>>
  /\ UNCHANGED <<tx_open, tx_seq, files, stream, rx_open, session, received,
                 recv_buf, loop, mismatch>>

\* file_transfer_handle_tx with a buffered chunk: write some of it, or give up.
WriteChunk ==
  /\ tx_buf # <<>>
  /\ \/ \E k \in 1 .. Len(tx_buf) :
          /\ stream' = stream \o SubSeq(tx_buf, 1, k)
          /\ tx_buf' = SubSeq(tx_buf, k + 1, Len(tx_buf))
          /\ IF k = Len(tx_buf)
             THEN tx_seq' = tx_seq + 1 /\ tx_left' = tx_left - 1
             ELSE UNCHANGED <<tx_seq, tx_left>>
     \/ tx_left' = 0 /\ tx_buf' = <<>> /\ UNCHANGED <<stream, tx_seq>>
  /\ UNCHANGED <<tx_open, files, enc, rx_open, session, received, recv_buf, loop, mismatch>>

\* The sender's slot is cleaned for a reason of its own.
Disconnect ==
  /\ tx_open
  /\ CloseSender
  /\ UNCHANGED <<tx_seq, files, enc, stream, rx_open, session, received, recv_buf,
                 loop, mismatch>>

-----------------------------------------------------------------------------
(* The receiver: process_peer_frames.                                       *)

\* action_cleanup of the receiver's slot.  The bytes it did not read are lost.
\* rx_seq, reset here, is left as it was: the slot is not used again.
CloseReceiver ==
  /\ rx_open' = FALSE /\ session' = FALSE
  /\ recv_buf' = <<>> /\ rx_file' = 0 /\ rx_data' = <<>>
  /\ stream' = <<>>
  /\ pc' = "closed" /\ batch' = {} /\ full' = FALSE

\* The loop of process_peer_frames ends: back to epoll_wait after the drain, or
\* to the rest of the batch after an EPOLLIN; there, if the buffer was full,
\* the slot is cleaned.
FramesDone(buf) ==
  IF full
  THEN CloseReceiver /\ UNCHANGED <<rx_seq, acc, complete>>
  ELSE /\ recv_buf' = buf
       /\ pc' = IF pc = "drain" THEN "poll" ELSE "events"
       /\ UNCHANGED <<rx_open, session, received, stream, batch, full>>

\* Mutant: any intact ciphertext decrypts.
Decrypts_AnyNonce(first, second) ==
  second = [frame |-> first.frame, part |-> 2]

\* noise_decrypt: the ciphertext is whole and was made with the nonce that is
\* due; only then the receive nonce advances.
Decrypts(first, second) ==
  /\ second = [frame |-> first.frame, part |-> 2]
  /\ first.frame.n = Len(acc) + 1

\* rx_abort, and the chunk timeout.
AbortRx == rx_file' = 0 /\ rx_data' = <<>> /\ UNCHANGED complete

\* Mutant: metadata during a transfer is written to the file.
file_transfer_handle_rx_MetaIsData(b) ==
  \/ /\ b.kind = "META" /\ rx_file = 0
     /\ rx_file' \in {0, b.file}
     /\ UNCHANGED <<rx_data, complete>>
  \/ /\ rx_file # 0
     /\ IF Len(rx_data) + 1 < Chunks
        THEN rx_data' = Append(rx_data, b) /\ UNCHANGED <<rx_file, complete>>
        ELSE /\ complete' = complete \union {Append(rx_data, b)}
             /\ rx_file' = 0 /\ rx_data' = <<>>
  \/ b.kind = "DATA" /\ rx_file = 0 /\ UNCHANGED <<rx_data, rx_file, complete>>

\* What file_transfer_handle_rx does with a decrypted payload: metadata opens a
\* file (or is refused), and during a transfer aborts it; a chunk is written
\* (or the write fails), and outside a transfer ignored.
file_transfer_handle_rx(b) ==
  \/ /\ b.kind = "META" /\ rx_file = 0
     /\ rx_file' \in {0, b.file}
     /\ UNCHANGED <<rx_data, complete>>
  \/ b.kind = "META" /\ rx_file # 0 /\ AbortRx
  \/ /\ b.kind = "DATA" /\ rx_file # 0
     /\ IF Len(rx_data) + 1 < Chunks
        THEN rx_data' = Append(rx_data, b) /\ UNCHANGED <<rx_file, complete>>
        ELSE /\ complete' = complete \union {Append(rx_data, b)}
             /\ rx_file' = 0 /\ rx_data' = <<>>
  \/ b.kind = "DATA" /\ rx_file # 0 /\ AbortRx
  \/ b.kind = "DATA" /\ rx_file = 0 /\ UNCHANGED <<rx_data, rx_file, complete>>

\* A whole TEXT or FILE frame with the expected sequence number leaves the
\* buffer.  A text that does not decrypt is dropped and the number stays; a
\* FILE frame that does not decrypt aborts the transfer and counts.
TakeFrame(f, ok) ==
  /\ UNCHANGED <<rx_open, session, stream, loop, mismatch>>
  /\ recv_buf' = SubSeq(recv_buf, 3, Len(recv_buf))
  /\ acc' = IF ok THEN Append(acc, f.body) ELSE acc
  /\ rx_seq' = IF ok \/ f.file THEN rx_seq + 1 ELSE rx_seq
  /\ IF ~f.file THEN UNCHANGED <<rx_data, rx_file, complete>>
     ELSE IF ok THEN file_transfer_handle_rx(f.body)
     ELSE AbortRx

\* The first text of a session starts the receiver's own queue; a write of that
\* queue that is cut short cleans the slot inside the handler.
FlushFails(f) ==
  /\ ~f.file
  /\ acc' = Append(acc, f.body)
  /\ CloseReceiver
  /\ UNCHANGED <<rx_seq, complete, mismatch>>

\* There is no memory for the plaintext: the frame is gone, nothing counts.
DropFrame ==
  /\ AllocFails
  /\ recv_buf' = SubSeq(recv_buf, 3, Len(recv_buf))
  /\ UNCHANGED <<stream, rx_open, session, received, loop, mismatch>>

\* The buffer starts with a frame that can be processed now.
HasFrame == Len(recv_buf) >= 2 /\ recv_buf[1].part = 1 /\ session

\* One iteration of the loop of process_peer_frames.
process_peer_frames ==
  /\ pc \in {"drain", "frames"}
  /\ \/ \* less than a frame, or a frame that waits for the session
        /\ recv_buf # <<>> => recv_buf[1].part = 1
        /\ ~HasFrame
        /\ FramesDone(recv_buf)
        /\ UNCHANGED mismatch
     \/ \* no header here: the buffer is thrown away
        /\ recv_buf # <<>>
        /\ recv_buf[1].part = 2
        /\ FramesDone(<<>>)
        /\ UNCHANGED mismatch
     \/ \* there is no memory for the payload: the buffer is thrown away
        /\ HasFrame /\ AllocFails
        /\ FramesDone(<<>>)
        /\ UNCHANGED mismatch
     \/ /\ HasFrame
        /\ recv_buf[1].frame.seq # rx_seq
        /\ CloseReceiver
        /\ mismatch' = TRUE
        /\ UNCHANGED <<rx_seq, acc, complete>>
     \/ /\ HasFrame
        /\ recv_buf[1].frame.seq = rx_seq
        /\ LET f == recv_buf[1].frame
               ok == Decrypts(recv_buf[1], recv_buf[2])
           IN  TakeFrame(f, ok) \/ (ok /\ FlushFails(f)) \/ DropFrame
  /\ UNCHANGED sender

-----------------------------------------------------------------------------
(* The receiver: the event loop around it.                                  *)

\* The timeouts at the top of the loop: an unanswered TOFU prompt, a session
\* with half a frame or without traffic.
Timeout ==
  /\ pc = "top"
  /\ CloseReceiver
  /\ UNCHANGED <<sender, rx_seq, acc, complete, mismatch>>

\* The chunk timeout of the received file.
ChunkTimeout ==
  /\ pc = "top" /\ rx_file # 0
  /\ AbortRx
  /\ UNCHANGED <<sender, stream, rx_open, session, rx_seq, acc, recv_buf, loop, mismatch>>

\* Mutant: the frames held back for the session are left in the buffer.
LoopTop_NoDrain ==
  /\ pc = "top"
  /\ pc' = "poll"
  /\ UNCHANGED <<sender, stream, rx_open, session, received, recv_buf, batch, full, mismatch>>

\* The drain before epoll_wait.
LoopTop ==
  /\ pc = "top"
  /\ pc' = IF session /\ recv_buf # <<>> THEN "drain" ELSE "poll"
  /\ UNCHANGED <<sender, stream, rx_open, session, received, recv_buf, batch, full, mismatch>>

\* epoll_wait: the socket is reported whenever it has bytes or its end, in the
\* same batch as the terminal or not.
epoll_wait ==
  /\ pc = "poll"
  /\ \E user \in SUBSET (IF session THEN {} ELSE {"stdin"}) :
       batch' = user \union (IF stream # <<>> \/ ~tx_open THEN {"peer"} ELSE {})
  /\ pc' = "events"
  /\ UNCHANGED <<sender, stream, rx_open, session, received, recv_buf, full, mismatch>>

BatchDone ==
  /\ pc = "events" /\ batch = {}
  /\ pc' = "top"
  /\ UNCHANGED <<sender, stream, rx_open, session, received, recv_buf, batch, full, mismatch>>

\* The user answers the TOFU prompt.
Answer ==
  /\ pc = "events" /\ "stdin" \in batch
  /\ \/ /\ session' = TRUE
        /\ batch' = batch \ {"stdin"}
        /\ UNCHANGED <<stream, rx_open, received, recv_buf, pc, full>>
     \/ CloseReceiver /\ UNCHANGED <<rx_seq, acc, complete>>
  /\ UNCHANGED <<sender, mismatch>>

\* Mutant: the room left in the buffer is not looked at.
Readable_NoBound ==
  /\ pc = "events" /\ "peer" \in batch
  /\ \/ \E k \in 1 .. Len(stream) :
          /\ recv_buf' = recv_buf \o SubSeq(stream, 1, k)
          /\ stream' = SubSeq(stream, k + 1, Len(stream))
          /\ pc' = "frames"
          /\ batch' = batch \ {"peer"}
          /\ UNCHANGED <<rx_open, session, received, full>>
     \/ stream = <<>> /\ CloseReceiver /\ UNCHANGED <<rx_seq, acc, complete>>
  /\ UNCHANGED <<sender, mismatch>>

\* EPOLLIN: read what fits and process it.  With no room left the frames are
\* processed and the slot is cleaned.
Readable ==
  /\ pc = "events" /\ "peer" \in batch
  /\ \/ /\ Len(recv_buf) = RECV_BUF_CAPACITY
        /\ full' = TRUE
        /\ pc' = "frames"
        /\ batch' = batch \ {"peer"}
        /\ UNCHANGED <<stream, rx_open, session, received, recv_buf>>
     \/ \E k \in 1 .. RECV_BUF_CAPACITY - Len(recv_buf) :
          /\ k <= Len(stream)
          /\ recv_buf' = recv_buf \o SubSeq(stream, 1, k)
          /\ stream' = SubSeq(stream, k + 1, Len(stream))
          /\ pc' = "frames"
          /\ batch' = batch \ {"peer"}
          /\ UNCHANGED <<rx_open, session, received, full>>
     \/ /\ stream = <<>> /\ Len(recv_buf) < RECV_BUF_CAPACITY
        /\ CloseReceiver
        /\ UNCHANGED <<rx_seq, acc, complete>>
  /\ UNCHANGED <<sender, mismatch>>

-----------------------------------------------------------------------------

Send == send_text \/ file_transfer_start \/ BufferChunk \/ WriteChunk \/ Disconnect

Receive ==
  \/ process_peer_frames
  \/ LoopTop
  \/ epoll_wait
  \/ BatchDone
  \/ Answer
  \/ Readable

Next == Send \/ Receive \/ Timeout \/ ChunkTimeout

Spec == Init /\ [][Next]_vars

\* The receiver's loop keeps running.  A prompt nobody answers expires: its
\* start is never moved, so the test at the top of the loop succeeds for ever
\* once it has succeeded.
FairSpec == Spec /\ WF_vars(Receive) /\ SF_vars(Timeout /\ ~session)

-----------------------------------------------------------------------------
(* Properties.                                                              *)

Bodies == {Text} \union {Metadata(f) : f \in 1 .. MaxFiles}
                 \union {Chunk(f, i) : f \in 1 .. MaxFiles, i \in 1 .. Chunks}
Frames == [file : BOOLEAN, seq : Nat, n : Nat, body : Bodies]
PieceSet == [frame : Frames, part : {1, 2}]

\* Types of both ends and of the stream.
TypeOK ==
  /\ tx_open \in BOOLEAN /\ rx_open \in BOOLEAN /\ session \in BOOLEAN
  /\ tx_seq \in Nat /\ rx_seq \in Nat
  /\ tx_left \in 0 .. Chunks /\ files \in 0 .. MaxFiles
  /\ tx_buf \in Seq(PieceSet) /\ stream \in Seq(PieceSet) /\ recv_buf \in Seq(PieceSet)
  /\ Len(recv_buf) <= RECV_BUF_CAPACITY
  /\ enc \in Seq(Bodies) /\ acc \in Seq(Bodies)
  /\ rx_file \in 0 .. MaxFiles /\ rx_data \in Seq(Bodies)
  /\ complete \subseteq Seq(Bodies)
  /\ pc \in {"top", "drain", "poll", "events", "frames", "closed"}
  /\ batch \subseteq {"peer", "stdin"}
  /\ full \in BOOLEAN /\ mismatch \in BOOLEAN

\* What the receiver decrypts is what the sender encrypted, from the first
\* frame on, in order, without a gap or a repetition, however writes are cut
\* short and the stream is torn apart (the nonce rules of cipher_decrypt).
AcceptedInOrder ==
  /\ Len(acc) <= Len(enc)
  /\ \A i \in 1 .. Len(acc) : acc[i] = enc[i]

\* A file that reaches its announced size is one file of the sender, whole and
\* in order, whatever transfers were given up on either side before: the final
\* hash comparison never has to reject it.
CompleteIsWhole ==
  \A d \in complete : \E f \in 1 .. MaxFiles : d = [i \in 1 .. Chunks |-> Chunk(f, i)]

\* When the loop goes to sleep no whole frame is left in the buffer of a
\* session: also not one that had to wait for the session (event_loop.c:829).
DrainedBeforeWait == pc = "poll" /\ session => Len(recv_buf) < 2

\* A sequence mismatch needs a replay or a loss, which this stream does not have:
\* "Replay Attack veya paket kaybi" (event_loop.c:473).
MismatchMeansLoss == ~mismatch

\* Text that is sent arrives, unless the connection ends: also text that was
\* sent while the receiver's prompt was still open.
TextsArrive ==
  \A i \in 1 .. MaxFrames : Len(enc) >= i ~> Len(acc) >= i \/ ~rx_open \/ ~tx_open
=============================================================================
