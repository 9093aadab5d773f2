-------------------------- MODULE TransportProofs ---------------------------
(***************************************************************************)
(* Proofs about Transport, for every number of frames and files, every      *)
(* file length and every buffer size.                                       *)
(***************************************************************************)
EXTENDS Transport, TLAPS

\* A piece of s belongs to a ciphertext that was made: its nonce is one that was
\* consumed, and it hides what was encrypted with that nonce, by the record e;
\* a frame that is no FILE frame carries text.
Genuine(s, e) ==
  \A i \in 1 .. Len(s) :
    /\ s[i].frame.n \in 1 .. Len(e)
    /\ s[i].frame.body = e[s[i].frame.n]
    /\ ~s[i].frame.file => s[i].frame.body = Text

\* A buffered chunk belongs to an active transfer, and that to an offered file.
SenderInv ==
  /\ tx_buf # <<>> => tx_left > 0
  /\ tx_left > 0 => files > 0

\* The types of the sender's half, of the stream and of the receiver's half.
SenderTypes ==
  /\ tx_open \in BOOLEAN /\ tx_seq \in Nat
  /\ tx_left \in 0 .. Chunks /\ files \in 0 .. MaxFiles
  /\ tx_buf \in Seq(PieceSet) /\ enc \in Seq(Bodies)

ReceiverTypes ==
  /\ rx_open \in BOOLEAN /\ session \in BOOLEAN /\ rx_seq \in Nat
  /\ recv_buf \in Seq(PieceSet) /\ Len(recv_buf) <= RECV_BUF_CAPACITY
  /\ acc \in Seq(Bodies)
  /\ pc \in {"top", "drain", "poll", "events", "frames", "closed"}
  /\ batch \subseteq {"peer", "stdin"}
  /\ full \in BOOLEAN /\ mismatch \in BOOLEAN

FileTypes ==
  /\ rx_file \in 0 .. MaxFiles /\ rx_data \in Seq(Bodies)
  /\ complete \subseteq Seq(Bodies)

\* The inductive invariant.
IInv ==
  /\ SenderTypes /\ ReceiverTypes /\ FileTypes /\ stream \in Seq(PieceSet)
  /\ SenderInv
  /\ Genuine(tx_buf, enc) /\ Genuine(stream, enc) /\ Genuine(recv_buf, enc)
  /\ AcceptedInOrder
  /\ DrainedBeforeWait

-----------------------------------------------------------------------------
(* Sequences.                                                               *)

\* A part of a sequence has the sequence's elements.
LEMMA SubSeqFacts ==
  ASSUME NEW S, NEW s \in Seq(S), NEW a \in Nat, a >= 1, NEW b \in Nat, b <= Len(s)
  PROVE  /\ SubSeq(s, a, b) \in Seq(S)
         /\ Len(SubSeq(s, a, b)) = IF a <= b THEN b - a + 1 ELSE 0
         /\ \A i \in 1 .. Len(SubSeq(s, a, b)) :
              a + i - 1 \in 1 .. Len(s) /\ SubSeq(s, a, b)[i] = s[a + i - 1]
  OBVIOUS

\* A concatenation has the elements of both sequences.
LEMMA ConcatFacts ==
  ASSUME NEW S, NEW s \in Seq(S), NEW t \in Seq(S)
  PROVE  /\ s \o t \in Seq(S)
         /\ Len(s \o t) = Len(s) + Len(t)
         /\ \A i \in 1 .. Len(s \o t) :
              IF i <= Len(s) THEN (s \o t)[i] = s[i]
                             ELSE i - Len(s) \in 1 .. Len(t) /\ (s \o t)[i] = t[i - Len(s)]
  OBVIOUS

\* Pieces stay genuine in a concatenation.
LEMMA GenuineConcat ==
  ASSUME NEW S, NEW s \in Seq(S), NEW t \in Seq(S), NEW e, Genuine(s, e), Genuine(t, e)
  PROVE  Genuine(s \o t, e)
  BY ConcatFacts DEF Genuine

\* Pieces stay genuine in a part of a sequence.
LEMMA GenuineSubSeq ==
  ASSUME NEW S, NEW s \in Seq(S), NEW e, Genuine(s, e),
         NEW a \in Nat, a >= 1, NEW b \in Nat, b <= Len(s)
  PROVE  Genuine(SubSeq(s, a, b), e)
  BY SubSeqFacts DEF Genuine

\* Pieces stay genuine when another frame is encrypted.
LEMMA GenuineKept ==
  ASSUME NEW S, NEW s \in Seq(S), NEW e \in Seq(Bodies), NEW b \in Bodies, Genuine(s, e)
  PROVE  Genuine(s, Append(e, b))
  BY DEF Genuine

\* No piece is a genuine piece of none.
LEMMA GenuineEmpty ==
  ASSUME NEW e
  PROVE  Genuine(<<>>, e)
  BY DEF Genuine

\* What was decrypted stays a beginning of what was encrypted.
LEMMA AcceptedKept ==
  ASSUME SenderTypes, ReceiverTypes, AcceptedInOrder, acc' = acc,
         enc' = enc \/ \E b \in Bodies : enc' = Append(enc, b)
  PROVE  AcceptedInOrder'
  BY DEF AcceptedInOrder, SenderTypes, ReceiverTypes

\* The pieces of a new frame are two well-typed pieces of the new ciphertext.
LEMMA PiecesFacts ==
  ASSUME NEW b \in Bodies, enc \in Seq(Bodies), tx_seq \in Nat
  PROVE  /\ Pieces(b, Len(enc) + 1) \in Seq(PieceSet)
         /\ Len(Pieces(b, Len(enc) + 1)) = 2
         /\ Genuine(Pieces(b, Len(enc) + 1), Append(enc, b))
<1> DEFINE f == [file |-> b.kind # "TEXT", seq |-> tx_seq, n |-> Len(enc) + 1, body |-> b]
<1>1. Len(enc) + 1 \in Nat
  OBVIOUS
<1>2. (b.kind # "TEXT") \in BOOLEAN
  OBVIOUS
<1>3. f \in Frames
  BY <1>1, <1>2, Zenon DEF Frames
<1>4. f.n = Len(enc) + 1 /\ f.body = b /\ (~f.file => b = Text)
  <2>1. b.kind = "TEXT" => b = Text
    BY DEF Bodies, Text, Metadata, Chunk
  <2> QED BY Zenon, <2>1
<1> HIDE DEF f
<1> DEFINE p1 == [frame |-> f, part |-> 1]
           p2 == [frame |-> f, part |-> 2]
<1>5. p1 \in PieceSet /\ p2 \in PieceSet /\ p1.frame = f /\ p2.frame = f
  BY <1>3 DEF PieceSet
<1>6. Pieces(b, Len(enc) + 1) = <<p1, p2>>
  BY DEF Pieces, f
<1> HIDE DEF p1, p2
<1>7. <<p1, p2>> \in Seq(PieceSet) /\ Len(<<p1, p2>>) = 2
  BY <1>5
<1>8. /\ Len(enc) + 1 \in 1 .. Len(Append(enc, b))
      /\ Append(enc, b)[Len(enc) + 1] = b
  OBVIOUS
<1>9. Genuine(<<p1, p2>>, Append(enc, b))
  BY <1>4, <1>5, <1>8 DEF Genuine
<1> QED BY Zenon, <1>6, <1>7, <1>9

-----------------------------------------------------------------------------
(* The sender's steps.                                                      *)

\* Everything a sender's step leaves alone.
ReceiverSame == UNCHANGED <<rx_open, session, received, recv_buf, loop, mismatch>>

LEMMA ReceiverKept ==
  ASSUME IInv, ReceiverSame
  PROVE  ReceiverTypes' /\ FileTypes' /\ DrainedBeforeWait' /\ acc' = acc /\ recv_buf' = recv_buf
  BY DEF IInv, ReceiverSame, ReceiverTypes, FileTypes, DrainedBeforeWait, received, loop

\* Any number of pieces of a new frame may reach the stream, or be buffered.
LEMMA EncryptStep ==
  ASSUME IInv, ReceiverSame, NEW b \in Bodies, enc' = Append(enc, b),
         NEW k \in 0 .. 2,
         \/ stream' = stream /\ tx_buf' = Pieces(b, Len(enc) + 1)
         \/ /\ stream' = stream \o SubSeq(Pieces(b, Len(enc) + 1), 1, k)
            /\ tx_buf' = tx_buf \/ tx_buf' = <<>>
  PROVE  /\ enc' \in Seq(Bodies) /\ stream' \in Seq(PieceSet) /\ tx_buf' \in Seq(PieceSet)
         /\ Genuine(stream', enc') /\ Genuine(tx_buf', enc') /\ Genuine(recv_buf', enc')
         /\ AcceptedInOrder'
<1> DEFINE q == Pieces(b, Len(enc) + 1)
<1>0. enc \in Seq(Bodies) /\ tx_seq \in Nat /\ stream \in Seq(PieceSet)
      /\ tx_buf \in Seq(PieceSet) /\ recv_buf \in Seq(PieceSet)
  BY DEF IInv, SenderTypes, ReceiverTypes
<1>1. q \in Seq(PieceSet) /\ Len(q) = 2 /\ Genuine(q, enc')
  BY <1>0, PiecesFacts
<1>2. Genuine(stream, enc') /\ Genuine(tx_buf, enc') /\ Genuine(recv_buf, enc')
  BY <1>0, GenuineKept DEF IInv
<1> HIDE DEF q
<1>3. SubSeq(q, 1, k) \in Seq(PieceSet) /\ Genuine(SubSeq(q, 1, k), enc')
  <2>1. 1 \in Nat /\ 1 >= 1 /\ k \in Nat /\ k <= Len(q)
    BY <1>1
  <2> QED BY Zenon, <1>1, <2>1, SubSeqFacts, GenuineSubSeq
<1>4. /\ stream \o SubSeq(q, 1, k) \in Seq(PieceSet)
      /\ Genuine(stream \o SubSeq(q, 1, k), enc')
  BY Zenon, <1>0, <1>2, <1>3, ConcatFacts, GenuineConcat
<1>5. Genuine(<<>>, enc') /\ <<>> \in Seq(PieceSet)
  BY GenuineEmpty
<1>6. /\ stream' \in Seq(PieceSet) /\ Genuine(stream', enc')
      /\ tx_buf' \in Seq(PieceSet) /\ Genuine(tx_buf', enc')
  BY Zenon, <1>0, <1>1, <1>2, <1>4, <1>5 DEF q
<1>7. recv_buf' = recv_buf
  BY ReceiverKept
<1>8. AcceptedInOrder'
  BY ReceiverKept, AcceptedKept DEF IInv
<1> QED BY <1>0, <1>2, <1>6, <1>7, <1>8

LEMMA WrittenFact == \A k \in Written : k \in 0 .. 2
  BY DEF Written

LEMMA BodiesFacts ==
  /\ Text \in Bodies
  /\ \A f \in 1 .. MaxFiles : Metadata(f) \in Bodies
  /\ \A f \in 1 .. MaxFiles : \A i \in 1 .. Chunks : Chunk(f, i) \in Bodies
  BY DEF Bodies

LEMMA TextStep == IInv /\ send_text => IInv'
<1> SUFFICES ASSUME IInv, send_text PROVE IInv'
  OBVIOUS
<1>1. ReceiverSame /\ enc' = Append(enc, Text) /\ files' = files
  BY DEF send_text, noise_encrypt, ReceiverSame
<1>2. PICK k \in Written :
        /\ stream' = stream \o SubSeq(Pieces(Text, Len(enc) + 1), 1, k)
        /\ IF k = 2
           THEN tx_seq' = tx_seq + 1 /\ UNCHANGED <<tx_open, tx_left, tx_buf>>
           ELSE CloseSender /\ UNCHANGED tx_seq
  BY Zenon DEF send_text
<1>3. tx_buf' = tx_buf \/ tx_buf' = <<>>
  BY <1>2 DEF CloseSender
<1>4. /\ enc' \in Seq(Bodies) /\ stream' \in Seq(PieceSet) /\ tx_buf' \in Seq(PieceSet)
      /\ Genuine(stream', enc') /\ Genuine(tx_buf', enc') /\ Genuine(recv_buf', enc')
      /\ AcceptedInOrder'
  BY Zenon, <1>1, <1>2, <1>3, WrittenFact, BodiesFacts, EncryptStep
<1>5. /\ tx_open' \in BOOLEAN /\ tx_seq' \in Nat /\ tx_left' \in 0 .. Chunks
      /\ files' \in 0 .. MaxFiles
  <2>1. /\ tx_open' = tx_open \/ tx_open' = FALSE
        /\ tx_seq' = tx_seq + 1 \/ tx_seq' = tx_seq
        /\ tx_left' = tx_left \/ tx_left' = 0
    BY <1>2 DEF CloseSender
  <2>2. 0 \in 0 .. Chunks /\ tx_seq + 1 \in Nat
    BY BoundsAssumption DEF IInv, SenderTypes
  <2> QED BY Zenon, <1>1, <2>1, <2>2 DEF IInv, SenderTypes
<1>6. SenderInv'
  <2>1. \/ tx_buf' = tx_buf /\ tx_left' = tx_left
        \/ tx_buf' = <<>> /\ tx_left' = 0
    BY <1>2 DEF CloseSender
  <2> QED BY <1>1, <2>1 DEF IInv, SenderInv
<1> QED BY <1>1, <1>4, <1>5, <1>6, ReceiverKept DEF IInv, SenderTypes

LEMMA MetadataStep == IInv /\ file_transfer_start => IInv'
<1> SUFFICES ASSUME IInv, file_transfer_start PROVE IInv'
  OBVIOUS
<1>0. files \in 0 .. MaxFiles /\ files' = files + 1 /\ files < MaxFiles
  BY DEF file_transfer_start, IInv, SenderTypes
<1>1. files' \in 1 .. MaxFiles
  BY <1>0, BoundsAssumption
<1>2. Metadata(files') \in Bodies
  BY <1>1, BodiesFacts
<1>3. ReceiverSame /\ enc' = Append(enc, Metadata(files')) /\ tx_buf' = tx_buf
      /\ tx_open' = tx_open /\ tx_left = 0
  BY DEF file_transfer_start, noise_encrypt, ReceiverSame
<1>4. PICK k \in Written :
        /\ stream' = stream \o SubSeq(Pieces(Metadata(files'), Len(enc) + 1), 1, k)
        /\ IF k = 2
           THEN tx_seq' = tx_seq + 1 /\ tx_left' = Chunks
           ELSE UNCHANGED <<tx_seq, tx_left>>
  BY Zenon DEF file_transfer_start
<1>5. /\ enc' \in Seq(Bodies) /\ stream' \in Seq(PieceSet) /\ tx_buf' \in Seq(PieceSet)
      /\ Genuine(stream', enc') /\ Genuine(tx_buf', enc') /\ Genuine(recv_buf', enc')
      /\ AcceptedInOrder'
  BY Zenon, <1>2, <1>3, <1>4, WrittenFact, EncryptStep
<1>6. tx_open' \in BOOLEAN /\ tx_seq' \in Nat /\ tx_left' \in 0 .. Chunks
  <2>1. tx_seq' = tx_seq + 1 \/ tx_seq' = tx_seq
    BY <1>4
  <2>2. tx_left' = tx_left \/ tx_left' = Chunks
    BY <1>4
  <2>3. Chunks \in 0 .. Chunks /\ tx_seq + 1 \in Nat
    BY BoundsAssumption DEF IInv, SenderTypes
  <2> QED BY <1>3, <2>1, <2>2, <2>3 DEF IInv, SenderTypes
<1>7. tx_buf = <<>>
  BY <1>3 DEF IInv, SenderInv
<1>8. SenderInv'
  BY <1>1, <1>3, <1>7 DEF SenderInv
<1>9. files' \in 0 .. MaxFiles
  BY <1>1
<1> QED BY <1>3, <1>5, <1>6, <1>8, <1>9, ReceiverKept DEF IInv, SenderTypes

LEMMA BufferStep == IInv /\ BufferChunk => IInv'
<1> SUFFICES ASSUME IInv, BufferChunk PROVE IInv'
  OBVIOUS
<1> DEFINE b == Chunk(files, Chunks - tx_left + 1)
<1>0. tx_left > 0 /\ tx_buf = <<>> /\ tx_left \in 0 .. Chunks /\ files \in 0 .. MaxFiles
  BY DEF BufferChunk, IInv, SenderTypes
<1>1. files \in 1 .. MaxFiles /\ Chunks - tx_left + 1 \in 1 .. Chunks
  <2>1. files > 0
    BY <1>0 DEF IInv, SenderInv
  <2> QED BY <1>0, <2>1, BoundsAssumption
<1>2. b \in Bodies
  BY <1>1, BodiesFacts
<1>3. ReceiverSame /\ stream' = stream /\ tx_open' = tx_open /\ tx_seq' = tx_seq
      /\ files' = files
  BY DEF BufferChunk, ReceiverSame
<1>4. \/ enc' = Append(enc, b) /\ tx_buf' = Pieces(b, Len(enc) + 1) /\ tx_left' = tx_left
      \/ tx_left' = 0 /\ enc' = enc /\ tx_buf' = tx_buf
  BY DEF BufferChunk, noise_encrypt
<1> HIDE DEF b
<1>5. CASE enc' = Append(enc, b) /\ tx_buf' = Pieces(b, Len(enc) + 1) /\ tx_left' = tx_left
  <2>1. /\ enc' \in Seq(Bodies) /\ stream' \in Seq(PieceSet) /\ tx_buf' \in Seq(PieceSet)
        /\ Genuine(stream', enc') /\ Genuine(tx_buf', enc') /\ Genuine(recv_buf', enc')
        /\ AcceptedInOrder'
    <3>1. 0 \in 0 .. 2
      OBVIOUS
    <3> QED BY <1>2, <1>3, <1>5, <3>1, EncryptStep
  <2>2. SenderInv'
    BY <1>0, <1>3, <1>5 DEF IInv, SenderInv
  <2> QED BY <1>3, <1>5, <2>1, <2>2, ReceiverKept DEF IInv, SenderTypes
<1>6. CASE tx_left' = 0 /\ enc' = enc /\ tx_buf' = tx_buf
  <2>1. SenderInv' /\ tx_left' \in 0 .. Chunks
    BY <1>0, <1>6, BoundsAssumption DEF SenderInv
  <2>2. AcceptedInOrder'
    BY <1>3, <1>6, ReceiverKept, AcceptedKept DEF IInv
  <2> QED BY <1>3, <1>6, <2>1, <2>2, ReceiverKept DEF IInv, SenderTypes
<1> QED BY <1>4, <1>5, <1>6

LEMMA WriteStep == IInv /\ WriteChunk => IInv'
<1> SUFFICES ASSUME IInv, WriteChunk PROVE IInv'
  OBVIOUS
<1>1. ReceiverSame /\ tx_open' = tx_open /\ files' = files /\ enc' = enc /\ tx_buf # <<>>
  BY DEF WriteChunk, ReceiverSame
<1>2. AcceptedInOrder'
  BY <1>1, ReceiverKept, AcceptedKept DEF IInv
<1>3. tx_left > 0 /\ tx_left \in 0 .. Chunks /\ files > 0 /\ tx_seq \in Nat
  BY <1>1 DEF IInv, SenderInv, SenderTypes
<1>4. tx_left - 1 \in 0 .. Chunks /\ 0 \in 0 .. Chunks /\ tx_seq + 1 \in Nat
  BY <1>3, BoundsAssumption
<1>5. ASSUME NEW k \in 1 .. Len(tx_buf),
             stream' = stream \o SubSeq(tx_buf, 1, k),
             tx_buf' = SubSeq(tx_buf, k + 1, Len(tx_buf)),
             IF k = Len(tx_buf)
             THEN tx_seq' = tx_seq + 1 /\ tx_left' = tx_left - 1
             ELSE UNCHANGED <<tx_seq, tx_left>>
      PROVE  IInv'
  <2>0. tx_buf \in Seq(PieceSet) /\ stream \in Seq(PieceSet) /\ Len(tx_buf) \in Nat
    BY DEF IInv, SenderTypes
  <2>1. 1 \in Nat /\ 1 >= 1 /\ k \in Nat /\ k <= Len(tx_buf) /\ k + 1 \in Nat /\ k + 1 >= 1
        /\ Len(tx_buf) <= Len(tx_buf)
    BY <2>0
  <2>2. /\ SubSeq(tx_buf, 1, k) \in Seq(PieceSet) /\ Genuine(SubSeq(tx_buf, 1, k), enc)
        /\ tx_buf' \in Seq(PieceSet) /\ Genuine(tx_buf', enc)
    BY SMTT(20), <1>5, <2>0, <2>1, SubSeqFacts, GenuineSubSeq DEF IInv
  <2>3. stream' \in Seq(PieceSet) /\ Genuine(stream', enc)
    BY Zenon, <1>5, <2>0, <2>2, ConcatFacts, GenuineConcat DEF IInv
  <2>4. tx_seq' \in Nat /\ tx_left' \in 0 .. Chunks
    <3>1. CASE k = Len(tx_buf)
      BY <1>4, <1>5, <3>1
    <3>2. CASE k # Len(tx_buf)
      BY <1>3, <1>5, <3>2
    <3> QED BY <3>1, <3>2
  <2>5. SenderInv'
    <3>1. CASE k = Len(tx_buf)
      <4>1. tx_buf' = <<>>
        BY <1>5, <2>0, <3>1
      <4> QED BY <1>1, <1>3, <4>1 DEF SenderInv
    <3>2. CASE k # Len(tx_buf)
      BY <1>1, <1>3, <1>5, <3>2 DEF SenderInv
    <3> QED BY <3>1, <3>2
  <2> QED BY <1>1, <1>2, <2>2, <2>3, <2>4, <2>5, ReceiverKept DEF IInv, SenderTypes
<1>6. CASE tx_left' = 0 /\ tx_buf' = <<>> /\ UNCHANGED <<stream, tx_seq>>
  <2>1. SenderInv' /\ <<>> \in Seq(PieceSet)
    BY <1>6 DEF SenderInv
  <2> QED BY <1>1, <1>2, <1>4, <1>6, <2>1, GenuineEmpty, ReceiverKept DEF IInv, SenderTypes
<1> QED BY Zenon, <1>5, <1>6 DEF WriteChunk

LEMMA DisconnectStep == IInv /\ Disconnect => IInv'
<1> SUFFICES ASSUME IInv, Disconnect PROVE IInv'
  OBVIOUS
<1>1. ReceiverSame /\ tx_open' = FALSE /\ tx_left' = 0 /\ tx_buf' = <<>>
      /\ UNCHANGED <<tx_seq, files, enc, stream>>
  BY DEF Disconnect, CloseSender, ReceiverSame
<1>2. AcceptedInOrder'
  BY <1>1, ReceiverKept, AcceptedKept DEF IInv
<1>3. 0 \in 0 .. Chunks /\ <<>> \in Seq(PieceSet) /\ SenderInv'
  BY <1>1, BoundsAssumption DEF SenderInv
<1> QED BY Zenon, <1>1, <1>2, <1>3, GenuineEmpty, ReceiverKept DEF IInv, SenderTypes

-----------------------------------------------------------------------------
(* The receiver's steps.                                                    *)

LEMMA SenderKept ==
  ASSUME IInv, UNCHANGED sender
  PROVE  SenderTypes' /\ SenderInv' /\ Genuine(tx_buf', enc') /\ enc' = enc
  BY DEF IInv, sender, SenderTypes, SenderInv

\* Cleaning the slot keeps the invariant.
LEMMA CloseStep ==
  ASSUME IInv, UNCHANGED sender, CloseReceiver, rx_seq' = rx_seq, complete' = complete,
         mismatch' \in BOOLEAN, acc' \in Seq(Bodies), AcceptedInOrder'
  PROVE  IInv'
<1>1. /\ rx_open' = FALSE /\ session' = FALSE /\ recv_buf' = <<>> /\ stream' = <<>>
      /\ pc' = "closed" /\ batch' = {} /\ full' = FALSE /\ rx_file' = 0 /\ rx_data' = <<>>
  BY DEF CloseReceiver
<1>2. <<>> \in Seq(PieceSet) /\ Len(recv_buf') <= RECV_BUF_CAPACITY
  BY <1>1, BoundsAssumption
<1>3. FileTypes'
  BY <1>1, BoundsAssumption DEF IInv, FileTypes
<1>4. ReceiverTypes'
  BY Zenon, <1>1, <1>2 DEF IInv, ReceiverTypes
<1>5. DrainedBeforeWait'
  BY <1>1 DEF DrainedBeforeWait
<1> QED BY <1>1, <1>2, <1>3, <1>4, <1>5, GenuineEmpty, SenderKept DEF IInv

\* The same when nothing was decrypted.
LEMMA CloseQuietly ==
  ASSUME IInv, UNCHANGED sender, CloseReceiver, UNCHANGED <<rx_seq, acc, complete>>,
         mismatch' \in BOOLEAN
  PROVE  IInv'
<1>1. acc' \in Seq(Bodies)
  BY DEF IInv, ReceiverTypes
<1>2. AcceptedInOrder'
  BY SenderKept, AcceptedKept DEF IInv
<1> QED BY <1>1, <1>2, CloseStep

\* The end of the frame loop: the buffer is kept, with no whole frame of a
\* session in it, or is thrown away.
LEMMA FramesDoneStep ==
  ASSUME IInv, UNCHANGED sender, UNCHANGED mismatch, NEW buf, FramesDone(buf),
         \/ buf = recv_buf /\ (session => Len(recv_buf) < 2)
         \/ buf = <<>>
  PROVE  IInv'
<1>1. CASE full
  <2>1. mismatch' \in BOOLEAN
    BY DEF IInv, ReceiverTypes
  <2> QED BY <1>1, <2>1, CloseQuietly DEF FramesDone
<1>2. CASE ~full
  <2>1. /\ recv_buf' = buf /\ pc' \in {"poll", "events"}
        /\ UNCHANGED <<rx_open, session, received, stream, batch, full>>
    BY <1>2 DEF FramesDone
  <2>2. /\ buf \in Seq(PieceSet) /\ Len(buf) <= RECV_BUF_CAPACITY
        /\ session => Len(buf) < 2
    <3>1. CASE buf = <<>>
      <4>1. <<>> \in Seq(PieceSet) /\ Len(<<>>) = 0
        OBVIOUS
      <4>2. 0 <= RECV_BUF_CAPACITY /\ 0 < 2
        BY BoundsAssumption
      <4> QED BY <3>1, <4>1, <4>2
    <3>2. CASE buf = recv_buf /\ (session => Len(recv_buf) < 2)
      BY <3>2 DEF IInv, ReceiverTypes
    <3> QED BY <3>1, <3>2
  <2>3. Genuine(buf, enc)
    BY GenuineEmpty DEF IInv
  <2>4. ReceiverTypes'
    BY <2>1, <2>2 DEF IInv, ReceiverTypes, received
  <2>5. FileTypes'
    BY <2>1 DEF IInv, FileTypes, received
  <2>6. DrainedBeforeWait'
    BY <2>1, <2>2 DEF DrainedBeforeWait
  <2>7. AcceptedInOrder'
    BY <2>1, SenderKept, AcceptedKept DEF IInv, received
  <2> QED BY <2>1, <2>3, <2>4, <2>5, <2>6, <2>7, SenderKept DEF IInv
<1> QED BY <1>1, <1>2

\* A frame that decrypts extends what was decrypted by what the sender
\* encrypted next.
LEMMA DecryptFacts ==
  ASSUME IInv, enc' = enc, HasFrame, Decrypts(recv_buf[1], recv_buf[2]),
         acc' = Append(acc, recv_buf[1].frame.body)
  PROVE  acc' \in Seq(Bodies) /\ AcceptedInOrder'
<1>1. /\ acc \in Seq(Bodies) /\ enc \in Seq(Bodies) /\ recv_buf \in Seq(PieceSet)
      /\ Len(recv_buf) >= 2
  BY DEF IInv, ReceiverTypes, SenderTypes, HasFrame
<1>2. 1 \in 1 .. Len(recv_buf)
  BY SMTT(20), <1>1
<1>3. /\ recv_buf[1].frame.n \in 1 .. Len(enc)
      /\ recv_buf[1].frame.body = enc[recv_buf[1].frame.n]
  BY <1>2 DEF IInv, Genuine
<1>4. recv_buf[1].frame.n = Len(acc) + 1
  BY DEF Decrypts
<1>5. /\ Len(acc) + 1 <= Len(enc)
      /\ acc' = Append(acc, enc[Len(acc) + 1])
      /\ enc[Len(acc) + 1] \in Bodies
  BY <1>1, <1>3, <1>4
<1>6. /\ Len(acc) <= Len(enc)
      /\ \A i \in 1 .. Len(acc) : acc[i] = enc[i]
  BY DEF IInv, AcceptedInOrder
<1>7. acc' \in Seq(Bodies) /\ Len(acc') = Len(acc) + 1
      /\ \A i \in 1 .. Len(acc') : acc'[i] = enc[i]
  BY <1>1, <1>5, <1>6
<1> QED BY <1>5, <1>7 DEF AcceptedInOrder

\* Bodies are records with a file number in range.
LEMMA BodyFile == \A b \in Bodies : b.file \in 0 .. MaxFiles
  BY BoundsAssumption DEF Bodies, Text, Metadata, Chunk

\* The received file keeps its type.
LEMMA RxFileStep ==
  ASSUME IInv, NEW b \in Bodies,
         file_transfer_handle_rx(b) \/ AbortRx \/ UNCHANGED <<rx_data, rx_file, complete>>
  PROVE  FileTypes'
<1>0. 0 \in 0 .. MaxFiles /\ <<>> \in Seq(Bodies) /\ b.file \in 0 .. MaxFiles
  BY BodyFile, BoundsAssumption
<1>1. rx_data \in Seq(Bodies) /\ Append(rx_data, b) \in Seq(Bodies)
      /\ rx_file \in 0 .. MaxFiles /\ complete \subseteq Seq(Bodies)
  BY DEF IInv, FileTypes
<1>2. /\ rx_data' \in {rx_data, <<>>, Append(rx_data, b)}
      /\ rx_file' \in {rx_file, 0, b.file}
      /\ complete' = complete \/ complete' = complete \union {Append(rx_data, b)}
  BY DEF file_transfer_handle_rx, AbortRx
<1> QED BY Zenon, <1>0, <1>1, <1>2 DEF FileTypes

\* Dropping the first two pieces of the buffer.
LEMMA BufferRest ==
  ASSUME IInv, HasFrame
  PROVE  LET rest == SubSeq(recv_buf, 3, Len(recv_buf)) IN
         /\ rest \in Seq(PieceSet) /\ Len(rest) <= RECV_BUF_CAPACITY
         /\ Genuine(rest, enc)
<1>1. recv_buf \in Seq(PieceSet) /\ Len(recv_buf) <= RECV_BUF_CAPACITY
      /\ Len(recv_buf) \in Nat /\ Genuine(recv_buf, enc)
  BY DEF IInv, ReceiverTypes
<1>2. 3 \in Nat /\ 3 >= 1 /\ Len(recv_buf) <= Len(recv_buf)
  BY <1>1
<1>3. /\ SubSeq(recv_buf, 3, Len(recv_buf)) \in Seq(PieceSet)
      /\ Genuine(SubSeq(recv_buf, 3, Len(recv_buf)), enc)
      /\ Len(SubSeq(recv_buf, 3, Len(recv_buf)))
           = IF 3 <= Len(recv_buf) THEN Len(recv_buf) - 3 + 1 ELSE 0
  BY <1>1, <1>2, SubSeqFacts, GenuineSubSeq
<1>4. Len(SubSeq(recv_buf, 3, Len(recv_buf))) <= RECV_BUF_CAPACITY
  BY <1>1, <1>3, BoundsAssumption
<1> QED BY <1>3, <1>4

\* The types of the first frame of the buffer.
LEMMA FirstFrame ==
  ASSUME IInv, HasFrame
  PROVE  recv_buf[1].frame \in Frames /\ recv_buf[1].frame.body \in Bodies
<1>1. recv_buf \in Seq(PieceSet) /\ Len(recv_buf) >= 2
  BY DEF IInv, ReceiverTypes, HasFrame
<1>2. recv_buf[1] \in PieceSet
  BY <1>1
<1>3. recv_buf[1].frame \in Frames
  BY <1>2 DEF PieceSet
<1> QED BY <1>3 DEF Frames

LEMMA TakeStep ==
  ASSUME IInv, UNCHANGED sender, HasFrame, pc \in {"drain", "frames"},
         TakeFrame(recv_buf[1].frame, Decrypts(recv_buf[1], recv_buf[2]))
  PROVE  IInv'
<1> DEFINE f == recv_buf[1].frame
           ok == Decrypts(recv_buf[1], recv_buf[2])
<1>0. f.body \in Bodies
  BY FirstFrame
<1>1. /\ UNCHANGED <<rx_open, session, stream, loop, mismatch>>
      /\ recv_buf' = SubSeq(recv_buf, 3, Len(recv_buf))
      /\ acc' = IF ok THEN Append(acc, f.body) ELSE acc
      /\ rx_seq' = IF ok \/ f.file THEN rx_seq + 1 ELSE rx_seq
      /\ file_transfer_handle_rx(f.body) \/ AbortRx \/ UNCHANGED <<rx_data, rx_file, complete>>
  BY DEF TakeFrame
<1>2. acc' \in Seq(Bodies) /\ AcceptedInOrder'
  <2>1. CASE ok
    BY <1>1, <2>1, SenderKept, DecryptFacts
  <2>2. CASE ~ok
    <3>1. acc' = acc
      BY <1>1, <2>2
    <3> QED BY <3>1, SenderKept, AcceptedKept DEF IInv, ReceiverTypes
  <2> QED BY <2>1, <2>2
<1> HIDE DEF f, ok
<1>3. FileTypes'
  BY <1>0, <1>1, RxFileStep
<1>4. rx_seq' \in Nat
  <2>1. rx_seq \in Nat /\ rx_seq + 1 \in Nat
    BY DEF IInv, ReceiverTypes
  <2>2. rx_seq' = rx_seq \/ rx_seq' = rx_seq + 1
    BY <1>1, Zenon
  <2> QED BY <2>1, <2>2
<1>5. recv_buf' \in Seq(PieceSet) /\ Len(recv_buf') <= RECV_BUF_CAPACITY
      /\ Genuine(recv_buf', enc)
  BY <1>1, BufferRest
<1>6. ReceiverTypes'
  BY <1>1, <1>2, <1>4, <1>5 DEF IInv, ReceiverTypes, loop
<1>7. DrainedBeforeWait'
  BY <1>1 DEF DrainedBeforeWait, loop
<1> QED BY <1>1, <1>2, <1>3, <1>5, <1>6, <1>7, SenderKept DEF IInv

LEMMA DropStep ==
  ASSUME IInv, UNCHANGED sender, HasFrame, pc \in {"drain", "frames"}, DropFrame
  PROVE  IInv'
<1>1. /\ recv_buf' = SubSeq(recv_buf, 3, Len(recv_buf))
      /\ UNCHANGED <<stream, rx_open, session, received, loop, mismatch>>
  BY DEF DropFrame
<1>2. recv_buf' \in Seq(PieceSet) /\ Len(recv_buf') <= RECV_BUF_CAPACITY
      /\ Genuine(recv_buf', enc)
  BY <1>1, BufferRest
<1>3. ReceiverTypes' /\ FileTypes'
  BY <1>1, <1>2 DEF IInv, ReceiverTypes, FileTypes, loop, received
<1>4. DrainedBeforeWait'
  BY <1>1 DEF DrainedBeforeWait, loop
<1>5. AcceptedInOrder'
  BY <1>1, SenderKept, AcceptedKept DEF IInv, received
<1> QED BY <1>1, <1>2, <1>3, <1>4, <1>5, SenderKept DEF IInv

LEMMA FramesStep == IInv /\ process_peer_frames => IInv'
<1> SUFFICES ASSUME IInv, process_peer_frames PROVE IInv'
  OBVIOUS
<1>0. UNCHANGED sender /\ pc \in {"drain", "frames"}
  BY DEF process_peer_frames
<1>t. recv_buf \in Seq(PieceSet) /\ mismatch \in BOOLEAN /\ Len(recv_buf) \in Nat
  BY DEF IInv, ReceiverTypes
<1>1. ASSUME recv_buf # <<>> => recv_buf[1].part = 1, ~HasFrame, FramesDone(recv_buf),
             UNCHANGED mismatch
      PROVE  IInv'
  <2>1. session => Len(recv_buf) < 2
    <3>1. CASE recv_buf = <<>>
      BY <3>1
    <3>2. CASE recv_buf # <<>>
      BY <1>1, <1>t, <3>2 DEF HasFrame
    <3> QED BY <3>1, <3>2
  <2> QED BY <1>0, <1>1, <2>1, FramesDoneStep
<1>2. ASSUME FramesDone(<<>>), UNCHANGED mismatch
      PROVE  IInv'
  BY <1>0, <1>2, FramesDoneStep
<1>3. ASSUME CloseReceiver, mismatch' = TRUE, UNCHANGED <<rx_seq, acc, complete>>
      PROVE  IInv'
  BY <1>0, <1>3, CloseQuietly
<1>4. ASSUME HasFrame, Decrypts(recv_buf[1], recv_buf[2]), FlushFails(recv_buf[1].frame)
      PROVE  IInv'
  <2>1. /\ acc' = Append(acc, recv_buf[1].frame.body) /\ CloseReceiver
        /\ UNCHANGED <<rx_seq, complete, mismatch>>
    BY <1>4 DEF FlushFails
  <2>2. acc' \in Seq(Bodies) /\ AcceptedInOrder'
    BY <1>0, <1>4, <2>1, SenderKept, DecryptFacts
  <2> QED BY <1>0, <1>t, <2>1, <2>2, CloseStep
<1> QED BY Zenon, <1>0, <1>1, <1>2, <1>3, <1>4, TakeStep, DropStep DEF process_peer_frames

\* The loop moves on without touching what was received.
LEMMA LoopStep ==
  ASSUME IInv, UNCHANGED sender, UNCHANGED <<stream, rx_open, received, recv_buf, full, mismatch>>,
         session' \in BOOLEAN,
         pc' \in {"top", "drain", "poll", "events", "frames"},
         pc' = "poll" /\ session' => recv_buf = <<>>,
         batch' \subseteq {"peer", "stdin"}
  PROVE  IInv'
<1>1. ReceiverTypes' /\ FileTypes'
  BY DEF IInv, ReceiverTypes, FileTypes, received
<1>2. DrainedBeforeWait'
  BY DEF DrainedBeforeWait
<1>3. AcceptedInOrder'
  BY SenderKept, AcceptedKept DEF IInv, received
<1> QED BY <1>1, <1>2, <1>3, SenderKept DEF IInv

LEMMA LoopSteps ==
  IInv /\ (LoopTop \/ epoll_wait \/ BatchDone) => IInv'
<1> SUFFICES ASSUME IInv, LoopTop \/ epoll_wait \/ BatchDone PROVE IInv'
  OBVIOUS
<1>0. session \in BOOLEAN /\ batch \subseteq {"peer", "stdin"}
  BY DEF IInv, ReceiverTypes
<1>1. CASE LoopTop
  BY <1>0, <1>1, LoopStep DEF LoopTop
<1>2. CASE epoll_wait
  <2>1. batch' \subseteq {"peer", "stdin"}
    BY <1>2 DEF epoll_wait
  <2> QED BY <1>0, <1>2, <2>1, LoopStep DEF epoll_wait
<1>3. CASE BatchDone
  BY <1>0, <1>3, LoopStep DEF BatchDone
<1> QED BY <1>1, <1>2, <1>3

LEMMA AnswerStep == IInv /\ Answer => IInv'
<1> SUFFICES ASSUME IInv, Answer PROVE IInv'
  OBVIOUS
<1>0. batch \subseteq {"peer", "stdin"} /\ mismatch' \in BOOLEAN /\ UNCHANGED <<sender, mismatch>>
      /\ pc = "events"
  BY DEF IInv, ReceiverTypes, Answer
<1>1. CASE /\ session' = TRUE /\ batch' = batch \ {"stdin"}
           /\ UNCHANGED <<stream, rx_open, received, recv_buf, pc, full>>
  BY <1>0, <1>1, LoopStep
<1>2. CASE CloseReceiver /\ UNCHANGED <<rx_seq, acc, complete>>
  BY <1>0, <1>2, CloseQuietly
<1> QED BY Zenon, <1>1, <1>2 DEF Answer

LEMMA ReadableStep == IInv /\ Readable => IInv'
<1> SUFFICES ASSUME IInv, Readable PROVE IInv'
  OBVIOUS
<1>0. batch \subseteq {"peer", "stdin"} /\ UNCHANGED <<sender, mismatch>> /\ mismatch' \in BOOLEAN
  BY DEF IInv, ReceiverTypes, Readable
<1>1. ASSUME full' = TRUE, pc' = "frames", batch' = batch \ {"peer"},
             UNCHANGED <<stream, rx_open, session, received, recv_buf>>
      PROVE  IInv'
  <2>1. ReceiverTypes' /\ FileTypes'
    BY <1>0, <1>1 DEF IInv, ReceiverTypes, FileTypes, received
  <2>2. DrainedBeforeWait'
    BY <1>1 DEF DrainedBeforeWait
  <2>3. AcceptedInOrder'
    BY <1>0, <1>1, SenderKept, AcceptedKept DEF IInv, received
  <2> QED BY <1>0, <1>1, <2>1, <2>2, <2>3, SenderKept DEF IInv
<1>2. ASSUME NEW k \in 1 .. RECV_BUF_CAPACITY - Len(recv_buf), k <= Len(stream),
             recv_buf' = recv_buf \o SubSeq(stream, 1, k),
             stream' = SubSeq(stream, k + 1, Len(stream)),
             pc' = "frames", batch' = batch \ {"peer"},
             UNCHANGED <<rx_open, session, received, full>>
      PROVE  IInv'
  <2>0. /\ stream \in Seq(PieceSet) /\ recv_buf \in Seq(PieceSet)
        /\ Len(recv_buf) <= RECV_BUF_CAPACITY /\ Len(stream) \in Nat /\ Len(recv_buf) \in Nat
        /\ Genuine(stream, enc) /\ Genuine(recv_buf, enc)
    BY DEF IInv, ReceiverTypes
  <2>1. /\ 1 \in Nat /\ 1 >= 1 /\ k \in Nat /\ k + 1 \in Nat /\ k + 1 >= 1
        /\ Len(stream) <= Len(stream) /\ Len(recv_buf) + k <= RECV_BUF_CAPACITY /\ 1 <= k
    BY <2>0, BoundsAssumption
  <2>2. /\ SubSeq(stream, 1, k) \in Seq(PieceSet) /\ Genuine(SubSeq(stream, 1, k), enc)
        /\ Len(SubSeq(stream, 1, k)) = k - 1 + 1
    BY SMTT(20), <1>2, <2>0, <2>1, SubSeqFacts, GenuineSubSeq
  <2>3. stream' \in Seq(PieceSet) /\ Genuine(stream', enc)
    BY <1>2, <2>0, <2>1, SubSeqFacts, GenuineSubSeq
  <2>4. /\ recv_buf' \in Seq(PieceSet) /\ Genuine(recv_buf', enc)
        /\ Len(recv_buf') = Len(recv_buf) + Len(SubSeq(stream, 1, k))
    BY Zenon, <1>2, <2>0, <2>2, ConcatFacts, GenuineConcat
  <2>5. Len(recv_buf') <= RECV_BUF_CAPACITY
    BY <2>0, <2>1, <2>2, <2>4
  <2>6. ReceiverTypes' /\ FileTypes'
    BY <1>0, <1>2, <2>4, <2>5 DEF IInv, ReceiverTypes, FileTypes, received
  <2>7. DrainedBeforeWait'
    BY <1>2 DEF DrainedBeforeWait
  <2>8. AcceptedInOrder'
    BY <1>0, <1>2, SenderKept, AcceptedKept DEF IInv, received
  <2> QED BY <1>0, <2>3, <2>4, <2>6, <2>7, <2>8, SenderKept DEF IInv
<1>3. CASE CloseReceiver /\ UNCHANGED <<rx_seq, acc, complete>>
  BY <1>0, <1>3, CloseQuietly
<1> QED BY Zenon, <1>1, <1>2, <1>3 DEF Readable

LEMMA TimeoutSteps == IInv /\ (Timeout \/ ChunkTimeout) => IInv'
<1> SUFFICES ASSUME IInv, Timeout \/ ChunkTimeout PROVE IInv'
  OBVIOUS
<1>1. CASE Timeout
  <2>1. mismatch' \in BOOLEAN
    BY <1>1 DEF IInv, ReceiverTypes, Timeout
  <2> QED BY <1>1, <2>1, CloseQuietly DEF Timeout
<1>2. CASE ChunkTimeout
  <2>0. UNCHANGED <<sender, stream, rx_open, session, rx_seq, acc, recv_buf, loop, mismatch>>
    BY <1>2 DEF ChunkTimeout
  <2>1. FileTypes'
    BY <1>2, RxFileStep, BodiesFacts DEF ChunkTimeout
  <2>2. ReceiverTypes' /\ DrainedBeforeWait'
    BY <2>0 DEF IInv, ReceiverTypes, DrainedBeforeWait, loop
  <2>3. AcceptedInOrder'
    BY <2>0, SenderKept, AcceptedKept DEF IInv
  <2> QED BY <2>0, <2>1, <2>2, <2>3, SenderKept DEF IInv
<1> QED BY <1>1, <1>2

-----------------------------------------------------------------------------
(* The order of a file's frames.                                            *)

\* Of the first n bodies of s, b is the last that is not text.
LastFile(s, n, b) ==
  \E j \in 1 .. n : s[j] = b /\ \A k \in j + 1 .. n : s[k] = Text

\* What precedes chunk i of file f.
Before(f, i) == IF i = 1 THEN Metadata(f) ELSE Chunk(f, i - 1)

\* Every chunk was encrypted right after its predecessor, but for text.
EncOrder ==
  \A n \in 1 .. Len(enc) : \A f \in 1 .. MaxFiles, i \in 1 .. Chunks :
    enc[n] = Chunk(f, i) => LastFile(enc, n - 1, Before(f, i))

\* An active transfer goes on where the last chunk ended.
TxOrder ==
  tx_left > 0 =>
    LET i == Chunks - tx_left + 1
    IN  LastFile(enc, Len(enc), IF tx_buf = <<>> THEN Before(files, i) ELSE Chunk(files, i))

\* The file being received is the beginning of one file of the sender, and the
\* last frame of a file that was decrypted is its last chunk.
RxOrder ==
  /\ rx_file = 0 => rx_data = <<>>
  /\ rx_file # 0 =>
       /\ Len(rx_data) < Chunks
       /\ \A i \in 1 .. Len(rx_data) : rx_data[i] = Chunk(rx_file, i)
       /\ LastFile(acc, Len(acc), Before(rx_file, Len(rx_data) + 1))

\* The inductive invariant of the transfers, beside IInv.
FileInv == EncOrder /\ TxOrder /\ RxOrder /\ CompleteIsWhole

\* Bodies of different kinds, files or chunks are different.
LEMMA BodyNames ==
  /\ \A f, i : Metadata(f) # Text /\ Chunk(f, i) # Text /\ Chunk(f, i) # Metadata(f)
  /\ \A f, g, i, j : Metadata(f) # Chunk(g, j)
  /\ \A f, g : Metadata(f) = Metadata(g) => f = g
  /\ \A f, g, i, j : Chunk(f, i) = Chunk(g, j) => f = g /\ i = j
<1>1. ASSUME NEW f, NEW g, NEW i, NEW j
      PROVE  /\ Metadata(f).kind = "META" /\ Metadata(f).file = f
             /\ Chunk(g, j).kind = "DATA" /\ Chunk(g, j).file = g /\ Chunk(g, j).part = j
             /\ Text.kind = "TEXT"
  BY DEF Metadata, Chunk, Text
<1>2. \A f, i : Metadata(f) # Text /\ Chunk(f, i) # Text /\ Chunk(f, i) # Metadata(f)
  BY <1>1
<1>3. \A f, g, i, j : Metadata(f) # Chunk(g, j)
  BY <1>1
<1>4. \A f, g : Metadata(f) = Metadata(g) => f = g
  BY <1>1
<1>5. \A f, g, i, j : Chunk(f, i) = Chunk(g, j) => f = g /\ i = j
  BY <1>1
<1> QED BY <1>2, <1>3, <1>4, <1>5

\* A chunk is known by what precedes it.
LEMMA BeforeNames ==
  ASSUME NEW f, NEW g, NEW i \in Nat \ {0}, NEW j \in Nat \ {0}, Before(f, i) = Before(g, j)
  PROVE  f = g /\ i = j
<1>1. CASE i = 1 /\ j = 1
  BY <1>1, BodyNames DEF Before
<1>2. CASE i = 1 /\ j # 1
  BY <1>2, BodyNames DEF Before
<1>3. CASE i # 1 /\ j = 1
  BY <1>3, BodyNames DEF Before
<1>4. CASE i # 1 /\ j # 1
  <2>1. Chunk(f, i - 1) = Chunk(g, j - 1)
    BY <1>4 DEF Before
  <2>2. f = g /\ i - 1 = j - 1
    BY <2>1, BodyNames
  <2> QED BY <2>2
<1> QED BY <1>1, <1>2, <1>3, <1>4

\* There is one last body that is not text.
LEMMA LastFileUnique ==
  ASSUME NEW s, NEW n \in Nat, NEW b, NEW c, b # Text, c # Text,
         LastFile(s, n, b), LastFile(s, n, c)
  PROVE  b = c
<1>1. PICK j \in 1 .. n : s[j] = b /\ \A k \in j + 1 .. n : s[k] = Text
  BY DEF LastFile
<1>2. PICK m \in 1 .. n : s[m] = c /\ \A k \in m + 1 .. n : s[k] = Text
  BY DEF LastFile
<1>3. j = m
  <2>1. ~(j < m)
    BY <1>1, <1>2
  <2>2. ~(m < j)
    BY <1>1, <1>2
  <2> QED BY <2>1, <2>2
<1> QED BY <1>1, <1>2, <1>3

\* The last body is looked for in the first n only.
LEMMA LastFileSame ==
  ASSUME NEW s, NEW t, NEW n \in Nat, NEW b, LastFile(s, n, b),
         \A k \in 1 .. n : s[k] = t[k]
  PROVE  LastFile(t, n, b)
<1>1. PICK j \in 1 .. n : s[j] = b /\ \A k \in j + 1 .. n : s[k] = Text
  BY DEF LastFile
<1>2. t[j] = b /\ \A k \in j + 1 .. n : t[k] = Text
  BY SMTT(20), <1>1
<1> QED BY <1>2 DEF LastFile

\* Text does not change it, and another body is the new one.
LEMMA LastFileAppend ==
  ASSUME NEW s \in Seq(Bodies), NEW c \in Bodies
  PROVE  /\ LastFile(Append(s, c), Len(Append(s, c)), c)
         /\ \A b : c = Text /\ LastFile(s, Len(s), b)
                     => LastFile(Append(s, c), Len(Append(s, c)), b)
<1>1. /\ Len(s) \in Nat /\ Len(Append(s, c)) = Len(s) + 1 /\ Append(s, c)[Len(s) + 1] = c
      /\ \A k \in 1 .. Len(s) : Append(s, c)[k] = s[k]
  OBVIOUS
<1> DEFINE t == Append(s, c)
           n == Len(s)
<1> HIDE DEF t, n
<1>2. n \in Nat /\ Len(t) = n + 1 /\ t[n + 1] = c /\ \A k \in 1 .. n : t[k] = s[k]
  BY <1>1 DEF t, n
<1>3. LastFile(t, n + 1, c)
  <2>1. n + 1 \in 1 .. n + 1 /\ \A k \in (n + 1) + 1 .. n + 1 : t[k] = Text
    BY <1>2
  <2> QED BY <1>2, <2>1 DEF LastFile
<1>4. ASSUME NEW b, c = Text, LastFile(s, n, b)
      PROVE  LastFile(t, n + 1, b)
  <2>1. PICK j \in 1 .. n : s[j] = b /\ \A k \in j + 1 .. n : s[k] = Text
    BY <1>4 DEF LastFile
  <2>2. j \in 1 .. n + 1 /\ t[j] = b /\ \A k \in j + 1 .. n + 1 : t[k] = Text
    <3>1. j \in 1 .. n + 1 /\ t[j] = b
      BY <1>2, <2>1
    <3>2. ASSUME NEW k \in j + 1 .. n + 1 PROVE t[k] = Text
      BY <1>2, <1>4, <2>1
    <3> QED BY <3>1, <3>2
  <2> QED BY <2>2 DEF LastFile
<1> QED BY <1>2, <1>3, <1>4 DEF t, n

\* Encrypting keeps the order of the chunks when a chunk follows its predecessor.
LEMMA EncOrderAppend ==
  ASSUME enc \in Seq(Bodies), EncOrder, NEW c \in Bodies, enc' = Append(enc, c),
         \A f \in 1 .. MaxFiles, i \in 1 .. Chunks :
           c = Chunk(f, i) => LastFile(enc, Len(enc), Before(f, i))
  PROVE  EncOrder'
<1> SUFFICES ASSUME NEW n \in 1 .. Len(enc'), NEW f \in 1 .. MaxFiles, NEW i \in 1 .. Chunks,
                    enc'[n] = Chunk(f, i)
             PROVE  LastFile(enc', n - 1, Before(f, i))
  BY DEF EncOrder
<1>1. /\ Len(enc) \in Nat /\ Len(enc') = Len(enc) + 1 /\ enc'[Len(enc) + 1] = c
      /\ \A k \in 1 .. Len(enc) : enc[k] = enc'[k]
  OBVIOUS
<1>2. n - 1 \in Nat /\ n - 1 <= Len(enc) /\ \A k \in 1 .. n - 1 : enc[k] = enc'[k]
  BY <1>1
<1>3. LastFile(enc, n - 1, Before(f, i))
  <2>1. CASE n = Len(enc) + 1
    <3>1. n - 1 = Len(enc)
      BY SMTT(20), <1>1, <2>1
    <3> QED BY <1>1, <2>1, <3>1
  <2>2. CASE n # Len(enc) + 1
    <3>1. n \in 1 .. Len(enc) /\ enc[n] = enc'[n]
      BY <1>1, <2>2
    <3> QED BY <3>1 DEF EncOrder
  <2> QED BY <2>1, <2>2
<1> QED BY Zenon, <1>2, <1>3, LastFileSame

\* A step of the sender leaves the received file as it was.
LEMMA RxKept ==
  ASSUME FileInv, UNCHANGED <<acc, rx_data, rx_file, complete>>
  PROVE  RxOrder' /\ CompleteIsWhole'
  BY DEF FileInv, RxOrder, CompleteIsWhole

\* A step of the receiver leaves the sender as it was.
LEMMA TxKept ==
  ASSUME FileInv, UNCHANGED sender
  PROVE  EncOrder' /\ TxOrder'
  BY DEF FileInv, EncOrder, TxOrder, sender

LEMMA SendOrder ==
  ASSUME IInv, FileInv, Send
  PROVE  FileInv'
<1>0. /\ enc \in Seq(Bodies) /\ tx_left \in 0 .. Chunks /\ files \in 0 .. MaxFiles
      /\ tx_buf \in Seq(PieceSet) /\ Chunks \in Nat \ {0} /\ MaxFiles \in Nat
      /\ EncOrder /\ TxOrder /\ SenderInv
  BY BoundsAssumption DEF IInv, SenderTypes, FileInv
<1>1. CASE send_text
  <2>1. enc' = Append(enc, Text) /\ files' = files /\ UNCHANGED <<acc, rx_data, rx_file, complete>>
    BY <1>1 DEF send_text, noise_encrypt, received
  <2>2. (tx_left' = tx_left /\ tx_buf' = tx_buf) \/ tx_left' = 0
    BY Zenon, <1>1 DEF send_text, CloseSender
  <2>3. EncOrder'
    BY <1>0, <2>1, BodiesFacts, BodyNames, EncOrderAppend
  <2>4. TxOrder'
    <3>1. CASE tx_left' = 0
      BY <3>1 DEF TxOrder
    <3>2. CASE tx_left' = tx_left /\ tx_buf' = tx_buf
      BY <1>0, <2>1, <3>2, BodiesFacts, LastFileAppend DEF TxOrder
    <3> QED BY <2>2, <3>1, <3>2
  <2> QED BY <2>1, <2>3, <2>4, RxKept DEF FileInv
<1>2. CASE file_transfer_start
  <2>1. /\ enc' = Append(enc, Metadata(files')) /\ files' \in 1 .. MaxFiles /\ tx_buf' = tx_buf
        /\ tx_left = 0 /\ UNCHANGED <<acc, rx_data, rx_file, complete>>
    BY <1>0, <1>2 DEF file_transfer_start, noise_encrypt, received
  <2>2. tx_left' \in {0, Chunks} /\ tx_buf' = <<>>
    BY <1>0, <1>2, <2>1 DEF file_transfer_start, SenderInv
  <2>3. Metadata(files') \in Bodies
    BY <2>1, BodiesFacts
  <2>4. EncOrder'
    BY <1>0, <2>1, <2>3, BodyNames, EncOrderAppend
  <2>5. LastFile(enc', Len(enc'), Metadata(files'))
    BY <1>0, <2>1, <2>3, LastFileAppend
  <2>6. TxOrder'
    <3>1. CASE tx_left' = 0
      BY <3>1 DEF TxOrder
    <3>2. CASE tx_left' = Chunks
      <4>1. Chunks - tx_left' + 1 = 1
        BY <1>0, <3>2
      <4> QED BY <2>2, <2>5, <4>1 DEF TxOrder, Before
    <3> QED BY <2>2, <3>1, <3>2
  <2> QED BY <2>1, <2>4, <2>6, RxKept DEF FileInv
<1>3. CASE BufferChunk
  <2> DEFINE i == Chunks - tx_left + 1
  <2>1. /\ tx_left > 0 /\ tx_buf = <<>> /\ files' = files
        /\ UNCHANGED <<acc, rx_data, rx_file, complete>>
    BY <1>3 DEF BufferChunk, received
  <2>2. \/ enc' = Append(enc, Chunk(files, i)) /\ tx_buf' = Pieces(Chunk(files, i), Len(enc) + 1)
           /\ tx_left' = tx_left
        \/ tx_left' = 0 /\ enc' = enc
    BY <1>3 DEF BufferChunk, noise_encrypt
  <2>3. i \in 1 .. Chunks /\ files \in 1 .. MaxFiles
    BY <1>0, <2>1 DEF SenderInv
  <2>4. Chunk(files, i) \in Bodies
    BY <2>3, BodiesFacts
  <2>5. CASE tx_left' = 0 /\ enc' = enc
    <3>1. EncOrder' /\ TxOrder'
      BY <1>0, <2>5 DEF EncOrder, TxOrder
    <3> QED BY <2>1, <3>1, RxKept DEF FileInv
  <2>6. CASE enc' = Append(enc, Chunk(files, i)) /\ tx_buf' = Pieces(Chunk(files, i), Len(enc) + 1)
             /\ tx_left' = tx_left
    <3>1. LastFile(enc, Len(enc), Before(files, i))
      BY <1>0, <2>1 DEF TxOrder
    <3> HIDE DEF i
    <3>2. EncOrder'
      <4>1. \A f \in 1 .. MaxFiles, h \in 1 .. Chunks :
              Chunk(files, i) = Chunk(f, h) => LastFile(enc, Len(enc), Before(f, h))
        BY <3>1, BodyNames
      <4> QED BY SMTT(20), <1>0, <2>4, <2>6, <4>1, EncOrderAppend
    <3>3. LastFile(enc', Len(enc'), Chunk(files, i))
      BY SMTT(20), <1>0, <2>4, <2>6, LastFileAppend
    <3>4. tx_buf' # <<>>
      BY <2>6 DEF Pieces
    <3>5. i = Chunks - tx_left' + 1
      BY <2>6 DEF i
    <3>6. TxOrder'
      BY <2>1, <3>3, <3>4, <3>5 DEF TxOrder
    <3> QED BY <2>1, <3>2, <3>6, RxKept DEF FileInv
  <2> QED BY <2>2, <2>5, <2>6
<1>4. CASE WriteChunk
  <2>1. tx_buf # <<>> /\ files' = files /\ enc' = enc /\ UNCHANGED <<acc, rx_data, rx_file, complete>>
    BY <1>4 DEF WriteChunk, received
  <2>2. EncOrder'
    BY <1>0, <2>1 DEF EncOrder
  <2>3. tx_left > 0 /\ LastFile(enc, Len(enc), Chunk(files, Chunks - tx_left + 1))
    BY <1>0, <2>1 DEF SenderInv, TxOrder
  <2>4. CASE tx_left' = 0
    <3>1. TxOrder'
      BY <2>4 DEF TxOrder
    <3> QED BY <2>1, <2>2, <3>1, RxKept DEF FileInv
  <2>5. ASSUME NEW k \in 1 .. Len(tx_buf), tx_buf' = SubSeq(tx_buf, k + 1, Len(tx_buf)),
               IF k = Len(tx_buf) THEN tx_left' = tx_left - 1 ELSE tx_left' = tx_left
        PROVE  FileInv'
    <3>1. CASE k = Len(tx_buf)
      <4>1. tx_buf' = <<>>
        BY <1>0, <2>5, <3>1
      <4>2. tx_left' = tx_left - 1
        BY <2>5, <3>1
      <4>3. Before(files, Chunks - tx_left' + 1) = Chunk(files, Chunks - tx_left + 1)
        <5>1. Chunks - tx_left' + 1 # 1 /\ (Chunks - tx_left' + 1) - 1 = Chunks - tx_left + 1
          BY <1>0, <2>3, <4>2
        <5> QED BY <5>1 DEF Before
      <4>4. TxOrder'
        BY <2>1, <2>3, <4>1, <4>3 DEF TxOrder
      <4> QED BY <2>1, <2>2, <4>4, RxKept DEF FileInv
    <3>2. CASE k # Len(tx_buf)
      <4>1. tx_buf' # <<>>
        <5>1. Len(tx_buf') = Len(tx_buf) - k /\ Len(tx_buf) - k > 0
          BY <1>0, <2>5, <3>2
        <5> QED BY <5>1
      <4>2. tx_left' = tx_left
        BY <2>5, <3>2
      <4>3. TxOrder'
        BY <2>1, <2>3, <4>1, <4>2 DEF TxOrder
      <4> QED BY <2>1, <2>2, <4>3, RxKept DEF FileInv
    <3> QED BY <3>1, <3>2
  <2> QED BY <1>4, <2>4, <2>5 DEF WriteChunk
<1>5. CASE Disconnect
  <2>1. tx_left' = 0 /\ enc' = enc /\ UNCHANGED <<acc, rx_data, rx_file, complete>>
    BY <1>5 DEF Disconnect, CloseSender, received
  <2>2. EncOrder' /\ TxOrder'
    BY <1>0, <2>1 DEF EncOrder, TxOrder
  <2> QED BY <2>1, <2>2, RxKept DEF FileInv
<1> QED BY <1>1, <1>2, <1>3, <1>4, <1>5 DEF Send

\* The next chunk of the file being received, or of none.
LEMMA NextChunk ==
  ASSUME IInv, FileInv, HasFrame, Decrypts(recv_buf[1], recv_buf[2]),
         NEW b, b = recv_buf[1].frame.body, b.kind = "DATA", rx_file # 0
  PROVE  b = Chunk(rx_file, Len(rx_data) + 1)
<1>0. /\ acc \in Seq(Bodies) /\ enc \in Seq(Bodies) /\ recv_buf \in Seq(PieceSet)
      /\ Len(recv_buf) >= 2 /\ rx_data \in Seq(Bodies) /\ Len(acc) \in Nat /\ Len(rx_data) \in Nat
  BY SMTT(20) DEF IInv, ReceiverTypes, SenderTypes, FileTypes, HasFrame
<1>1. 1 \in 1 .. Len(recv_buf)
  BY SMTT(20), <1>0
<1>2. Len(acc) + 1 \in 1 .. Len(enc) /\ b = enc[Len(acc) + 1]
  BY SMTT(20), <1>1 DEF IInv, Genuine, Decrypts
<1>3. b \in Bodies
  BY SMTT(20), FirstFrame
<1>4. PICK f \in 1 .. MaxFiles, i \in 1 .. Chunks : b = Chunk(f, i)
  BY SMTT(20), <1>3 DEF Bodies, Text, Metadata, Chunk
<1>5. LastFile(enc, Len(acc), Before(f, i))
  <2>1. (Len(acc) + 1) - 1 = Len(acc)
    BY SMTT(20), <1>0
  <2> QED BY Zenon, <1>2, <1>4, <2>1 DEF FileInv, EncOrder
<1>6. LastFile(enc, Len(acc), Before(rx_file, Len(rx_data) + 1))
  <2>1. \A k \in 1 .. Len(acc) : acc[k] = enc[k]
    BY DEF IInv, AcceptedInOrder
  <2>2. LastFile(acc, Len(acc), Before(rx_file, Len(rx_data) + 1))
    BY SMTT(20) DEF FileInv, RxOrder
  <2> QED BY SMTT(20), <1>0, <2>1, <2>2, LastFileSame
<1>7. Before(f, i) # Text /\ Before(rx_file, Len(rx_data) + 1) # Text
  BY SMTT(20), BodyNames DEF Before
<1>8. Before(f, i) = Before(rx_file, Len(rx_data) + 1)
  BY <1>0, <1>5, <1>6, <1>7, LastFileUnique
<1>9. i \in Nat \ {0} /\ Len(rx_data) + 1 \in Nat \ {0}
  BY <1>0, BoundsAssumption
<1> QED BY SMTT(20), <1>4, <1>8, <1>9, BeforeNames

LEMMA TakeOrder ==
  ASSUME IInv, FileInv, UNCHANGED sender, HasFrame,
         TakeFrame(recv_buf[1].frame, Decrypts(recv_buf[1], recv_buf[2]))
  PROVE  FileInv'
<1> DEFINE f == recv_buf[1].frame
           b == f.body
           ok == Decrypts(recv_buf[1], recv_buf[2])
<1>0. /\ acc \in Seq(Bodies) /\ rx_data \in Seq(Bodies) /\ b \in Bodies
      /\ Chunks \in Nat \ {0} /\ MaxFiles \in Nat /\ rx_file \in 0 .. MaxFiles
      /\ RxOrder /\ CompleteIsWhole
  BY FirstFrame, BoundsAssumption DEF IInv, ReceiverTypes, FileTypes, FileInv
<1>1. EncOrder' /\ TxOrder'
  BY TxKept
<1>2. CASE AbortRx
  <2>1. RxOrder' /\ CompleteIsWhole'
    BY <1>0, <1>2 DEF AbortRx, RxOrder, CompleteIsWhole
  <2> QED BY SMTT(20), <1>1, <2>1 DEF FileInv
<1>3. CASE ~ok /\ ~f.file
  <2>1. UNCHANGED <<acc, rx_data, rx_file, complete>>
    BY <1>3 DEF TakeFrame
  <2> QED BY SMTT(20), <1>1, <2>1, RxKept DEF FileInv
<1>4. CASE ok /\ ~f.file
  <2>1. acc' = Append(acc, b) /\ UNCHANGED <<rx_data, rx_file, complete>>
    BY SMTT(20), <1>4 DEF TakeFrame
  <2>2. b = Text
    <3>1. recv_buf \in Seq(PieceSet) /\ Len(recv_buf) >= 2
      BY DEF IInv, ReceiverTypes, HasFrame
    <3>2. 1 \in 1 .. Len(recv_buf)
      BY SMTT(20), <3>1
    <3> QED BY SMTT(20), <1>4, <3>2 DEF IInv, Genuine
  <2>3. RxOrder'
    BY <1>0, <2>1, <2>2, LastFileAppend DEF RxOrder
  <2>4. CompleteIsWhole'
    BY SMTT(20), <1>0, <2>1 DEF CompleteIsWhole
  <2> QED BY <1>1, <2>3, <2>4 DEF FileInv
<1>5. CASE ok /\ f.file /\ file_transfer_handle_rx(b)
  <2>0. acc' = Append(acc, b)
    BY <1>5 DEF TakeFrame
  <2> HIDE DEF b
  <2>1. LastFile(acc', Len(acc'), b)
    BY <1>0, <2>0, LastFileAppend
  <2>2. ASSUME b.kind = "META", rx_file = 0, rx_file' \in {0, b.file}, UNCHANGED <<rx_data, complete>>
        PROVE  FileInv'
    <3>1. PICK g \in 1 .. MaxFiles : b = Metadata(g)
      BY <1>0, <2>2 DEF Bodies, Text, Metadata, Chunk
    <3>2. b.file = g
      BY <3>1 DEF Metadata
    <3>3. rx_data' = <<>> /\ Len(rx_data') = 0
      BY <1>0, <2>2 DEF RxOrder
    <3>4. RxOrder'
      <4>1. Before(g, Len(rx_data') + 1) = b
        BY <3>1, <3>3 DEF Before
      <4>2. CASE rx_file' = 0
        BY <3>3, <4>2 DEF RxOrder
      <4>3. CASE rx_file' = g
        BY <1>0, <2>1, <3>3, <4>1, <4>3 DEF RxOrder
      <4> QED BY <2>2, <3>2, <4>2, <4>3
    <3>5. CompleteIsWhole'
      BY <1>0, <2>2 DEF CompleteIsWhole
    <3> QED BY SMTT(20), <1>1, <3>4, <3>5 DEF FileInv
  <2>3. ASSUME b.kind = "DATA", rx_file # 0,
               IF Len(rx_data) + 1 < Chunks
               THEN rx_data' = Append(rx_data, b) /\ UNCHANGED <<rx_file, complete>>
               ELSE /\ complete' = complete \union {Append(rx_data, b)}
                    /\ rx_file' = 0 /\ rx_data' = <<>>
        PROVE  FileInv'
    <3>1. b = Chunk(rx_file, Len(rx_data) + 1)
      BY SMTT(20), <1>5, <2>3, NextChunk DEF b
    <3>2. Len(rx_data) \in Nat /\ Len(rx_data) < Chunks
          /\ \A i \in 1 .. Len(rx_data) : rx_data[i] = Chunk(rx_file, i)
      BY SMTT(20), <1>0, <2>3 DEF RxOrder
    <3>3. /\ Len(Append(rx_data, b)) = Len(rx_data) + 1
          /\ \A i \in 1 .. Len(rx_data) + 1 : Append(rx_data, b)[i] = Chunk(rx_file, i)
      BY <1>0, <3>1, <3>2
    <3>4. CASE Len(rx_data) + 1 < Chunks
      <4>1. rx_data' = Append(rx_data, b) /\ UNCHANGED <<rx_file, complete>>
        BY <2>3, <3>4
      <4>2. Before(rx_file, Len(rx_data') + 1) = b
        <5>1. Len(rx_data') + 1 # 1 /\ (Len(rx_data') + 1) - 1 = Len(rx_data) + 1
          BY <3>2, <3>3, <4>1
        <5> QED BY SMTT(20), <3>1, <5>1 DEF Before
      <4>3. RxOrder'
        BY <2>1, <2>3, <3>3, <3>4, <4>1, <4>2 DEF RxOrder
      <4>4. CompleteIsWhole'
        BY <1>0, <4>1 DEF CompleteIsWhole
      <4> QED BY <1>1, <4>3, <4>4 DEF FileInv
    <3>5. CASE ~(Len(rx_data) + 1 < Chunks)
      <4>1. complete' = complete \union {Append(rx_data, b)} /\ rx_file' = 0 /\ rx_data' = <<>>
        BY <2>3, <3>5
      <4>2. Len(rx_data) + 1 = Chunks
        BY <1>0, <3>2, <3>5
      <4>3. Append(rx_data, b) = [i \in 1 .. Chunks |-> Chunk(rx_file, i)]
        <5> DEFINE r == Append(rx_data, b)
        <5>1. r \in Seq(Bodies)
          BY <1>0
        <5>2. Len(r) = Chunks /\ \A i \in 1 .. Chunks : r[i] = Chunk(rx_file, i)
          BY <3>3, <4>2
        <5> HIDE DEF r
        <5>3. r = [i \in 1 .. Len(r) |-> r[i]]
          BY <5>1
        <5>4. r = [i \in 1 .. Chunks |-> r[i]]
          BY <5>2, <5>3
        <5>5. r = [i \in 1 .. Chunks |-> Chunk(rx_file, i)]
          BY <5>2, <5>4
        <5> QED BY <5>5 DEF r
      <4>4. rx_file \in 1 .. MaxFiles
        BY <1>0, <2>3
      <4>5. CompleteIsWhole'
        BY <1>0, <4>1, <4>3, <4>4 DEF CompleteIsWhole
      <4>6. RxOrder'
        BY SMTT(20), <4>1 DEF RxOrder
      <4> QED BY <1>1, <4>5, <4>6 DEF FileInv
    <3> QED BY SMTT(20), <3>4, <3>5
  <2>4. ASSUME b.kind = "DATA", rx_file = 0, UNCHANGED <<rx_data, rx_file, complete>>
        PROVE  FileInv'
    <3>1. RxOrder' /\ CompleteIsWhole'
      BY <1>0, <2>4 DEF RxOrder, CompleteIsWhole
    <3> QED BY <1>1, <3>1 DEF FileInv
  <2> QED BY SMTT(20), <1>2, <1>5, <2>2, <2>3, <2>4 DEF file_transfer_handle_rx
<1> QED BY SMTT(20), <1>2, <1>3, <1>4, <1>5 DEF TakeFrame

\* Cleaning the slot forgets the file that was being received.
LEMMA CloseOrder ==
  ASSUME IInv, FileInv, UNCHANGED sender, CloseReceiver, complete' = complete
  PROVE  FileInv'
<1>1. RxOrder' /\ CompleteIsWhole'
  BY DEF FileInv, CloseReceiver, RxOrder, CompleteIsWhole
<1> QED BY SMTT(20), <1>1, TxKept DEF FileInv

LEMMA ReceiveOrder ==
  ASSUME IInv, FileInv, Receive \/ Timeout \/ ChunkTimeout
  PROVE  FileInv'
<1>1. UNCHANGED sender
  BY DEF Receive, Timeout, ChunkTimeout, process_peer_frames, LoopTop, epoll_wait, BatchDone,
         Answer, Readable
<1>2. CASE UNCHANGED received
  BY <1>1, <1>2, TxKept, RxKept DEF FileInv, received
<1>3. CASE CloseReceiver /\ complete' = complete
  BY SMTT(20), <1>1, <1>3, CloseOrder
<1>4. CASE process_peer_frames
  <2>1. ASSUME NEW buf, FramesDone(buf) PROVE FileInv'
    BY <1>2, <1>3, <2>1 DEF FramesDone
  <2>2. ASSUME FlushFails(recv_buf[1].frame) PROVE FileInv'
    BY <1>3, <2>2 DEF FlushFails
  <2>3. CASE DropFrame
    BY <1>2, <2>3 DEF DropFrame
  <2> QED BY <1>1, <1>3, <1>4, <2>1, <2>2, <2>3, TakeOrder DEF process_peer_frames
<1>5. CASE LoopTop \/ epoll_wait \/ BatchDone
  BY SMTT(20), <1>2, <1>5 DEF LoopTop, epoll_wait, BatchDone
<1>6. CASE Answer \/ Readable \/ Timeout
  BY <1>2, <1>3, <1>6 DEF Answer, Readable, Timeout
<1>7. CASE ChunkTimeout
  <2>1. RxOrder' /\ CompleteIsWhole'
    BY <1>7 DEF ChunkTimeout, AbortRx, FileInv, RxOrder, CompleteIsWhole
  <2> QED BY SMTT(20), <1>1, <2>1, TxKept DEF FileInv
<1> QED BY SMTT(20), <1>4, <1>5, <1>6, <1>7 DEF Receive

-----------------------------------------------------------------------------
(* The theorems.                                                            *)

LEMMA InitIInv == Init => IInv
<1> SUFFICES ASSUME Init PROVE IInv
  OBVIOUS
<1>1. <<>> \in Seq(PieceSet) /\ <<>> \in Seq(Bodies)
  OBVIOUS
<1>2. SenderTypes /\ FileTypes
  BY <1>1, BoundsAssumption DEF Init, SenderTypes, FileTypes
<1>3. ReceiverTypes
  <2>1. Len(<<>>) = 0 /\ 0 <= RECV_BUF_CAPACITY /\ 0 \in Nat
    BY BoundsAssumption
  <2> QED BY Zenon, <1>1, <2>1 DEF Init, ReceiverTypes
<1>4. SenderInv /\ DrainedBeforeWait
  BY DEF Init, SenderInv, DrainedBeforeWait
<1>5. AcceptedInOrder
  BY DEF Init, AcceptedInOrder
<1> QED BY <1>1, <1>2, <1>3, <1>4, <1>5, GenuineEmpty DEF Init, IInv

LEMMA NextIInv == IInv /\ [Next]_vars => IInv'
<1> SUFFICES ASSUME IInv, [Next]_vars PROVE IInv'
  OBVIOUS
<1>1. CASE Send
  BY <1>1, TextStep, MetadataStep, BufferStep, WriteStep, DisconnectStep DEF Send
<1>2. CASE Receive
  BY <1>2, FramesStep, LoopSteps, AnswerStep, ReadableStep DEF Receive
<1>3. CASE Timeout \/ ChunkTimeout
  BY SMTT(20), <1>3, TimeoutSteps
<1>4. CASE UNCHANGED vars
  <2>1. SenderTypes' /\ ReceiverTypes' /\ FileTypes' /\ SenderInv' /\ DrainedBeforeWait'
    BY SMTT(20), <1>4 DEF vars, sender, received, loop, IInv, SenderTypes, ReceiverTypes, FileTypes,
                SenderInv, DrainedBeforeWait
  <2>2. AcceptedInOrder'
    BY <1>4, SenderKept, AcceptedKept DEF vars, received, IInv
  <2> QED BY SMTT(20), <1>4, <2>1, <2>2, SenderKept DEF vars, IInv
<1> QED BY <1>1, <1>2, <1>3, <1>4 DEF Next

\* The inductive invariant holds in every reachable state.
THEOREM IInvAlways == Spec => []IInv
  BY InitIInv, NextIInv, PTL DEF Spec

\* Both ends of a link and the stream between them stay well-typed, and the
\* receive buffer never holds more than its capacity.
THEOREM LinkTypes == Spec => []TypeOK
<1>1. IInv => TypeOK
  BY DEF IInv, SenderTypes, ReceiverTypes, FileTypes, TypeOK
<1> QED BY <1>1, IInvAlways, PTL

\* What noise_decrypt lets through is what noise_encrypt was given, in order,
\* with no gap and no repetition, wherever writes are cut and reads end.
THEOREM LinkInOrder == Spec => []AcceptedInOrder
<1>1. IInv => AcceptedInOrder
  BY DEF IInv
<1> QED BY <1>1, IInvAlways, PTL

\* The receiver's loop never goes to sleep on a whole frame of a session.
THEOREM LinkDrained == Spec => []DrainedBeforeWait
<1>1. IInv => DrainedBeforeWait
  BY DEF IInv
<1> QED BY <1>1, IInvAlways, PTL

\* A file that reaches its announced size is one file of the sender, whole and
\* in order, whatever was given up on either side before.
THEOREM LinkWhole == Spec => []CompleteIsWhole
<1>1. Init => FileInv
  BY BoundsAssumption DEF Init, FileInv, EncOrder, TxOrder, RxOrder, CompleteIsWhole
<1>2. IInv /\ FileInv /\ [Next]_vars => FileInv'
  <2> SUFFICES ASSUME IInv, FileInv, [Next]_vars PROVE FileInv'
    OBVIOUS
  <2>1. CASE UNCHANGED vars
    BY <2>1, TxKept, RxKept DEF vars, received, FileInv
  <2> QED BY <2>1, SendOrder, ReceiveOrder DEF Next
<1>3. FileInv => CompleteIsWhole
  BY DEF FileInv
<1> QED BY <1>1, <1>2, <1>3, IInvAlways, PTL DEF Spec
=============================================================================
