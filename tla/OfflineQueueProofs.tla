------------------------- MODULE OfflineQueueProofs -------------------------
(***************************************************************************)
(* Proofs about the offline queue, for any number of messages, parts,       *)
(* failing statements and crashes, and whichever rows are unreadable.  The  *)
(* argument is about the order of the rows: the table is sorted by message  *)
(* and part, a batch is a sorted selection of it, and what is older than a  *)
(* row of the batch is in the batch itself, was sent, or is unreadable.     *)
(***************************************************************************)
EXTENDS OfflineQueue, TLAPS

Less(a, b) == a[1] < b[1] \/ (a[1] = b[1] /\ a[2] < b[2])
Sorted(s) == \A i, j \in 1 .. Len(s) : i < j => Less(s[i], s[j])

Queueing == {"queueing", "rollback"}
Sending == {"flush", "delete"}

\* The newest part a row may be of, when it is of the last message.
Bound == IF pc \in Queueing THEN queued ELSE Parts
Old(r) == r[1] < msgs \/ (r[1] = msgs /\ r[2] <= Bound)

Types ==
  /\ queue \in Seq(Rows) /\ batch \in Seq(Rows) /\ wire \in Seq(Rows)
  /\ pc \in {"idle", "read"} \union Queueing \union Sending
  /\ msgs \in 0 .. MaxMsgs /\ queued \in 0 .. Parts /\ cursor \in Nat
  /\ errors \in Nat /\ crashes \in Nat
  /\ accepted \subseteq 1 .. msgs

\* The table is in order, and nothing in it or on the wire is yet to come.
TableInv ==
  /\ Sorted(queue)
  /\ \A r \in Elements(queue) \union Elements(wire) : Old(r)

\* While a message is queued its parts are the newest rows of the table.
TopInv ==
  pc \in Queueing =>
    /\ queued <= Len(queue)
    /\ \A i \in 1 .. Len(queue) :
         i > Len(queue) - queued => queue[i] = <<msgs, i - (Len(queue) - queued)>>
    /\ msgs > 0 /\ msgs \notin accepted
    /\ pc = "queueing" => queued < Parts
    /\ pc = "rollback" => queued > 0 /\ errors > 0

\* What the batch holds.
BatchInv ==
  /\ Sorted(batch)
  /\ Elements(batch) \subseteq Elements(queue)
  /\ pc \notin Sending \union {"read"} => batch = <<>>
  /\ pc # "read" => cursor = 0
  /\ pc = "read" =>
       /\ cursor <= Len(queue)
       /\ Elements(batch) = {queue[i] : i \in 1 .. cursor} \ Malformed
  /\ pc \in Sending =>
       \A r \in Elements(queue), b \in Elements(batch) :
         Less(r, b) => r \in Elements(batch) \union Elements(wire) \union BadRows \union Malformed
  /\ pc = "delete" => batch # <<>> /\ batch[1] \in Elements(wire) \union BadRows

\* Whose rows are in the table and on the wire.
WholeInv ==
  errors < 2 /\ crashes = 0 =>
    /\ \A r \in Elements(wire) : r[1] \in accepted
    /\ \A r \in Elements(queue) : r[1] \in accepted \/ (pc \in Queueing /\ r[1] = msgs)

\* A row that was sent has been deleted, or is about to be.
OnceInv ==
  errors = 0 /\ crashes = 0 =>
    \A r \in Elements(queue) : r \in Elements(wire) => pc = "delete" /\ r = batch[1]

IInv == Types /\ TableInv /\ TopInv /\ BatchInv /\ WholeOrNothing /\ WholeInv /\ SentOnce /\ OnceInv

-----------------------------------------------------------------------------
(* Rows and sequences of them.                                              *)

LEMMA RowFacts ==
  /\ \A r \in Rows : r[1] \in Nat \ {0} /\ r[1] <= MaxMsgs /\ r[2] \in Nat \ {0} /\ r[2] <= Parts
  /\ \A m \in 1 .. MaxMsgs, i \in 1 .. Parts :
       <<m, i>> \in Rows /\ <<m, i>>[1] = m /\ <<m, i>>[2] = i
<1>1. MaxMsgs \in Nat /\ Parts \in Nat
  BY QueueAssumption
<1> QED BY <1>1 DEF Rows

LEMMA LessFacts ==
  ASSUME NEW a \in Rows, NEW b \in Rows, Less(a, b)
  PROVE  a # b /\ ~Less(b, a)
BY RowFacts DEF Less

LEMMA ElementsIn ==
  ASSUME NEW s, NEW x
  PROVE  x \in Elements(s) <=> \E i \in 1 .. Len(s) : s[i] = x
BY DEF Elements

LEMMA ElementsType ==
  ASSUME NEW s \in Seq(Rows)
  PROVE  Elements(s) \subseteq Rows
BY DEF Elements

LEMMA ElementsEmpty == Elements(<<>>) = {}
BY DEF Elements

LEMMA ElementsAppend ==
  ASSUME NEW s \in Seq(Rows), NEW r \in Rows
  PROVE  Append(s, r) \in Seq(Rows) /\ Elements(Append(s, r)) = Elements(s) \union {r}
<1> DEFINE t == Append(s, r)
<1>1. /\ t \in Seq(Rows) /\ Len(s) \in Nat /\ Len(t) = Len(s) + 1 /\ t[Len(s) + 1] = r
      /\ \A i \in 1 .. Len(s) : t[i] = s[i]
  OBVIOUS
<1> HIDE DEF t
<1>2. ASSUME NEW x PROVE x \in Elements(t) <=> x \in Elements(s) \union {r}
  <2>1. ASSUME x \in Elements(t) PROVE x \in Elements(s) \union {r}
    <3>1. PICK i \in 1 .. Len(t) : t[i] = x
      BY <2>1 DEF Elements
    <3>2. CASE i = Len(s) + 1
      BY <1>1, <3>1, <3>2
    <3>3. CASE i # Len(s) + 1
      <4>1. i \in 1 .. Len(s) /\ s[i] = x
        BY <1>1, <3>1, <3>3
      <4> QED BY <4>1 DEF Elements
    <3> QED BY <3>2, <3>3
  <2>2. ASSUME x \in Elements(s) PROVE x \in Elements(t)
    <3>1. PICK i \in 1 .. Len(s) : s[i] = x
      BY <2>2 DEF Elements
    <3>2. i \in 1 .. Len(t) /\ t[i] = x
      BY <1>1, <3>1
    <3> QED BY <3>2 DEF Elements
  <2>3. r \in Elements(t)
    <3>1. Len(s) + 1 \in 1 .. Len(t)
      BY <1>1
    <3> QED BY <1>1, <3>1 DEF Elements
  <2> QED BY <2>1, <2>2, <2>3
<1> QED BY <1>1, <1>2 DEF t

LEMMA SortedAppend ==
  ASSUME NEW s \in Seq(Rows), NEW r \in Rows, Sorted(s), \A x \in Elements(s) : Less(x, r)
  PROVE  Sorted(Append(s, r))
<1> DEFINE t == Append(s, r)
<1>1. /\ Len(s) \in Nat /\ Len(t) = Len(s) + 1 /\ t[Len(s) + 1] = r
      /\ \A i \in 1 .. Len(s) : t[i] = s[i]
  OBVIOUS
<1>2. \A i \in 1 .. Len(s) : Less(s[i], r)
  BY DEF Elements
<1> HIDE DEF t
<1>3. ASSUME NEW i \in 1 .. Len(t), NEW j \in 1 .. Len(t), i < j PROVE Less(t[i], t[j])
  <2>1. i \in 1 .. Len(s)
    BY <1>1, <1>3
  <2>2. CASE j = Len(s) + 1
    BY <1>1, <1>2, <2>1, <2>2
  <2>3. CASE j # Len(s) + 1
    <3>1. j \in 1 .. Len(s)
      BY <1>1, <2>3
    <3> QED BY <1>1, <1>3, <2>1, <3>1 DEF Sorted
  <2> QED BY <2>2, <2>3
<1> QED BY <1>3 DEF Sorted, t

\* A sorted sequence has no row twice.
LEMMA SortedOnce ==
  ASSUME NEW s \in Seq(Rows), Sorted(s), NEW i \in 1 .. Len(s), NEW j \in 1 .. Len(s), s[i] = s[j]
  PROVE  i = j
<1>1. s[i] \in Rows /\ s[j] \in Rows
  OBVIOUS
<1>2. ~(i < j) /\ ~(j < i)
  BY <1>1, LessFacts DEF Sorted
<1> QED BY <1>2

\* The first row is the least, and the others follow it.
LEMMA SortedTail ==
  ASSUME NEW s \in Seq(Rows), Sorted(s), s # <<>>
  PROVE  /\ Head(s) = s[1] /\ s[1] \in Rows /\ Tail(s) \in Seq(Rows) /\ Sorted(Tail(s))
         /\ s[1] \in Elements(s)
         /\ Elements(Tail(s)) = Elements(s) \ {s[1]}
         /\ \A x \in Elements(Tail(s)) : Less(s[1], x)
<1> DEFINE t == Tail(s)
<1>1. /\ t \in Seq(Rows) /\ Len(s) \in Nat /\ Len(s) >= 1 /\ Len(t) = Len(s) - 1
      /\ \A i \in 1 .. Len(t) : t[i] = s[i + 1]
      /\ Head(s) = s[1] /\ s[1] \in Rows
  OBVIOUS
<1> HIDE DEF t
<1>2. ASSUME NEW x \in Elements(t) PROVE Less(s[1], x) /\ x \in Elements(s) /\ x # s[1]
  <2>1. PICK i \in 1 .. Len(t) : t[i] = x
    BY DEF Elements
  <2>2. i + 1 \in 1 .. Len(s) /\ 1 \in 1 .. Len(s) /\ 1 < i + 1 /\ x = s[i + 1]
    BY <1>1, <2>1
  <2>3. Less(s[1], x)
    BY <2>2 DEF Sorted
  <2>4. x \in Elements(s) /\ x \in Rows
    BY <2>2 DEF Elements
  <2> QED BY <1>1, <2>3, <2>4, LessFacts
<1>3. ASSUME NEW x \in Elements(s), x # s[1] PROVE x \in Elements(t)
  <2>1. PICK i \in 1 .. Len(s) : s[i] = x
    BY DEF Elements
  <2>2. i - 1 \in 1 .. Len(t) /\ t[i - 1] = x
    <3>1. i # 1
      BY <1>3, <2>1
    <3>2. i - 1 \in 1 .. Len(t) /\ (i - 1) + 1 = i
      BY <1>1, <3>1
    <3> QED BY <1>1, <2>1, <3>2
  <2> QED BY <2>2 DEF Elements
<1>4. Sorted(t)
  <2> SUFFICES ASSUME NEW i \in 1 .. Len(t), NEW j \in 1 .. Len(t), i < j PROVE Less(t[i], t[j])
    BY DEF Sorted
  <2>1. i + 1 \in 1 .. Len(s) /\ j + 1 \in 1 .. Len(s) /\ i + 1 < j + 1
    BY <1>1
  <2> QED BY <1>1, <2>1 DEF Sorted
<1>5. s[1] \in Elements(s)
  <2>1. 1 \in 1 .. Len(s)
    BY <1>1
  <2> QED BY <2>1 DEF Elements
<1>6. Elements(t) = Elements(s) \ {s[1]}
  BY <1>2, <1>3
<1> QED BY <1>1, <1>2, <1>4, <1>5, <1>6 DEF t

\* The first n rows.
LEMMA Prefix ==
  ASSUME NEW s \in Seq(Rows), NEW n \in 0 .. Len(s)
  PROVE  /\ SubSeq(s, 1, n) \in Seq(Rows) /\ Len(SubSeq(s, 1, n)) = n
         /\ \A i \in 1 .. n : SubSeq(s, 1, n)[i] = s[i]
OBVIOUS

LEMMA SortedPrefix ==
  ASSUME NEW s \in Seq(Rows), Sorted(s), NEW n \in 0 .. Len(s)
  PROVE  /\ Sorted(SubSeq(s, 1, n))
         /\ Elements(SubSeq(s, 1, n)) = {s[i] : i \in 1 .. n}
<1> DEFINE t == SubSeq(s, 1, n)
<1>1. Len(t) = n /\ \A i \in 1 .. n : t[i] = s[i]
  BY Prefix
<1> HIDE DEF t
<1>2. Elements(t) = {s[i] : i \in 1 .. n}
  BY <1>1 DEF Elements
<1>3. \A i \in 1 .. n : i \in 1 .. Len(s)
  OBVIOUS
<1>4. Sorted(t)
  BY <1>1, <1>3 DEF Sorted
<1> QED BY <1>2, <1>4 DEF t

LEMMA Joined ==
  ASSUME NEW a \in Seq(Rows), NEW b \in Seq(Rows)
  PROVE  /\ a \o b \in Seq(Rows) /\ Len(a \o b) = Len(a) + Len(b)
         /\ \A i \in 1 .. Len(a) + Len(b) :
              (a \o b)[i] = IF i <= Len(a) THEN a[i] ELSE b[i - Len(a)]
OBVIOUS

\* Taking one row out of the table leaves the others, in their order.
LEMMA WithoutParts ==
  ASSUME NEW s \in Seq(Rows), NEW k \in 1 .. Len(s)
  PROVE  /\ Without(s, k) \in Seq(Rows) /\ Len(Without(s, k)) = Len(s) - 1
         /\ \A i \in 1 .. Len(s) - 1 :
              Without(s, k)[i] = IF i < k THEN s[i] ELSE s[i + 1]
<1> DEFINE a == SubSeq(s, 1, k - 1)
           b == SubSeq(s, k + 1, Len(s))
<1>1. Len(s) \in Nat
  OBVIOUS
<1>2. a \in Seq(Rows) /\ Len(a) = k - 1 /\ \A i \in 1 .. k - 1 : a[i] = s[i]
  <2>1. k - 1 \in 0 .. Len(s)
    BY <1>1
  <2> QED BY <2>1, Prefix
<1>3. b \in Seq(Rows) /\ Len(b) = Len(s) - k /\ \A i \in 1 .. Len(s) - k : b[i] = s[k + i]
  BY <1>1
<1> HIDE DEF a, b
<1> DEFINE t == a \o b
<1>4. /\ t \in Seq(Rows) /\ Len(t) = Len(a) + Len(b)
      /\ \A i \in 1 .. Len(a) + Len(b) : t[i] = IF i <= Len(a) THEN a[i] ELSE b[i - Len(a)]
  BY Zenon, <1>2, <1>3, Joined
<1> HIDE DEF t
<1>5. Len(t) = Len(s) - 1
  BY <1>1, <1>2, <1>3, <1>4
<1>6. ASSUME NEW i \in 1 .. Len(s) - 1 PROVE t[i] = IF i < k THEN s[i] ELSE s[i + 1]
  <2>0. i \in 1 .. Len(a) + Len(b)
    <3>1. Len(a) + Len(b) = Len(s) - 1
      BY <1>1, <1>2, <1>3
    <3> QED BY <3>1
  <2>1. t[i] = IF i <= Len(a) THEN a[i] ELSE b[i - Len(a)]
    BY <1>4, <2>0
  <2>2. CASE i < k
    BY <1>1, <1>2, <2>1, <2>2
  <2>3. CASE ~(i < k)
    <3>1. i - (k - 1) \in 1 .. Len(s) - k /\ k + (i - (k - 1)) = i + 1 /\ ~(i <= k - 1)
      BY <1>1, <2>3
    <3>4. Len(a) = k - 1
      BY <1>2
    <3>2. t[i] = b[i - (k - 1)]
      BY <2>1, <3>1, <3>4
    <3>3. b[i - (k - 1)] = s[k + (i - (k - 1))]
      BY <1>3, <3>1
    <3> QED BY <2>3, <3>1, <3>2, <3>3
  <2> QED BY <2>2, <2>3
<1>7. Without(s, k) = t
  BY DEF Without, t, a, b
<1> QED BY <1>4, <1>5, <1>6, <1>7

LEMMA SortedWithout ==
  ASSUME NEW s \in Seq(Rows), Sorted(s), NEW k \in 1 .. Len(s)
  PROVE  /\ Sorted(Without(s, k))
         /\ Elements(Without(s, k)) = Elements(s) \ {s[k]}
<1> DEFINE t == Without(s, k)
           n == Len(s)
<1>1. /\ n \in Nat /\ n = Len(s) /\ Len(t) = n - 1
      /\ \A i \in 1 .. n - 1 : t[i] = IF i < k THEN s[i] ELSE s[i + 1]
  BY WithoutParts
<1> HIDE DEF t, n
<1>2. Sorted(t)
  <2> SUFFICES ASSUME NEW i \in 1 .. Len(t), NEW j \in 1 .. Len(t), i < j PROVE Less(t[i], t[j])
    BY DEF Sorted
  <2>1. i \in 1 .. n - 1 /\ j \in 1 .. n - 1
    BY <1>1
  <2> DEFINE x == IF i < k THEN i ELSE i + 1
             y == IF j < k THEN j ELSE j + 1
  <2>2. x \in 1 .. n /\ y \in 1 .. n /\ x < y
    BY <1>1, <2>1
  <2>3. t[i] = s[x]
    BY <1>1, <2>1
  <2>4. t[j] = s[y]
    BY <1>1, <2>1
  <2> HIDE DEF x, y
  <2> QED BY <1>1, <2>2, <2>3, <2>4 DEF Sorted
<1>3. ASSUME NEW x \in Elements(t) PROVE x \in Elements(s) \ {s[k]}
  <2>1. PICK i \in 1 .. n - 1 : t[i] = x
    BY <1>1 DEF Elements
  <2>2. PICK j \in 1 .. n : x = s[j] /\ j # k
    BY <1>1, <2>1
  <2>3. j \in 1 .. Len(s)
    BY <1>1
  <2> QED BY <2>2, <2>3, SortedOnce DEF Elements
<1>4. ASSUME NEW x \in Elements(s), x # s[k] PROVE x \in Elements(t)
  <2>1. PICK j \in 1 .. n : s[j] = x
    BY <1>1 DEF Elements
  <2>2. j # k
    BY <1>4, <2>1
  <2>3. PICK i \in 1 .. n - 1 : t[i] = x
    <3>1. CASE j < k
      <4>1. j \in 1 .. n - 1
        BY <1>1, <3>1
      <4>2. t[j] = s[j]
        BY <1>1, <3>1, <4>1
      <4> QED BY <2>1, <4>1, <4>2
    <3>2. CASE j > k
      <4>1. j - 1 \in 1 .. n - 1 /\ ~(j - 1 < k) /\ (j - 1) + 1 = j
        BY <1>1, <3>2
      <4>2. t[j - 1] = s[j]
        BY <1>1, <4>1
      <4> QED BY <2>1, <4>1, <4>2
    <3> QED BY <1>1, <2>2, <3>1, <3>2
  <2> QED BY <1>1, <2>3 DEF Elements
<1>5. Elements(t) = Elements(s) \ {s[k]}
  BY <1>3, <1>4
<1> QED BY <1>2, <1>5 DEF t

-----------------------------------------------------------------------------
(* The steps.                                                               *)

LEMMA Facts ==
  ASSUME IInv
  PROVE  /\ Elements(queue) \subseteq Rows /\ Elements(batch) \subseteq Rows
         /\ Elements(wire) \subseteq Rows
         /\ Len(queue) \in Nat /\ MaxMsgs \in Nat /\ Parts \in Nat \ {0}
BY QueueAssumption, ElementsType DEF IInv, Types

LEMMA QueueStep ==
  ASSUME IInv, queue_segmented_message
  PROVE  IInv'
<1>0. /\ pc = "idle" /\ pc' = "queueing" /\ msgs < MaxMsgs /\ msgs' = msgs + 1 /\ queued' = 0
      /\ UNCHANGED <<queue, batch, cursor, accepted, wire, errors, crashes>>
  BY DEF queue_segmented_message
<1>1. Types /\ TableInv /\ BatchInv
  BY DEF IInv
<1>2. Types'
  BY <1>0, <1>1, Facts DEF Types, Queueing
<1>3. TableInv'
  <2>1. ASSUME NEW r \in Rows, Old(r) PROVE Old(r)'
    BY <1>0, <1>1, <2>1, RowFacts DEF Old, Types
  <2> QED BY <1>0, <1>1, <2>1, Facts DEF TableInv
<1>4. TopInv'
  <2>1. queued' <= Len(queue') /\ msgs' > 0 /\ msgs' \notin accepted' /\ queued' < Parts
    BY <1>0, <1>1, Facts DEF Types
  <2>2. ASSUME NEW i \in 1 .. Len(queue') PROVE ~(i > Len(queue') - queued')
    BY <1>0, Facts
  <2> QED BY <1>0, <2>1, <2>2 DEF TopInv
<1>5. BatchInv'
  <2>1. batch' = <<>> /\ Elements(batch') = {}
    BY <1>0, <1>1, ElementsEmpty DEF BatchInv, Sending
  <2> QED BY <1>0, <1>1, <2>1 DEF BatchInv, Sending
<1>6. WholeOrNothing' /\ SentOnce'
  BY <1>0 DEF IInv, WholeOrNothing, SentOnce
<1>7. WholeInv'
  BY <1>0 DEF IInv, WholeInv, Queueing
<1>8. OnceInv'
  BY <1>0 DEF IInv, OnceInv
<1> QED BY <1>2, <1>3, <1>4, <1>5, <1>6, <1>7, <1>8 DEF IInv

LEMMA InsertStep ==
  ASSUME IInv, db_queue_message
  PROVE  IInv'
<1>r. PICK r : r = <<msgs, queued + 1>>
  BY Zenon
<1>0. /\ pc = "queueing" /\ queue' = Append(queue, r) /\ queued' = queued + 1
      /\ UNCHANGED <<msgs, batch, cursor, wire, errors, crashes>>
      /\ IF queued + 1 = Parts THEN pc' = "idle" /\ accepted' = accepted \union {msgs}
                               ELSE pc' = pc /\ accepted' = accepted
  BY <1>r DEF db_queue_message
<1>1. Types /\ TableInv /\ TopInv /\ BatchInv /\ WholeOrNothing /\ WholeInv /\ SentOnce /\ OnceInv
  BY DEF IInv
<1>2. /\ queued <= Len(queue) /\ msgs > 0 /\ msgs \notin accepted /\ queued < Parts
      /\ \A i \in 1 .. Len(queue) :
           i > Len(queue) - queued => queue[i] = <<msgs, i - (Len(queue) - queued)>>
  BY <1>0, <1>1 DEF TopInv, Queueing
<1>3. r \in Rows /\ r[1] = msgs /\ r[2] = queued + 1
  BY <1>r, <1>1, <1>2, Facts, RowFacts DEF Types
<1>4. queue' \in Seq(Rows) /\ Elements(queue') = Elements(queue) \union {r}
  BY <1>0, <1>1, <1>3, ElementsAppend DEF Types
<1>5. Bound = queued
  BY <1>0 DEF Bound, Queueing
<1>6. Bound' \in Nat /\ Bound' >= queued + 1
  <2>1. queued \in Nat /\ Parts \in Nat /\ queued + 1 <= Parts
    BY <1>1, <1>2, Facts DEF Types
  <2>2. Bound' \in {queued', Parts}
    BY DEF Bound
  <2> QED BY <1>0, <2>1, <2>2
<1>7. Types'
  <2>1. queued' \in 0 .. Parts /\ accepted' \subseteq 1 .. msgs /\ pc' \in {"idle", "queueing"}
    <3>1. queued' \in 0 .. Parts
      BY <1>0, <1>1, <1>2, Facts DEF Types
    <3>2. accepted \subseteq 1 .. msgs /\ msgs \in 1 .. msgs
      BY <1>1, <1>2 DEF Types
    <3>3. accepted' \subseteq accepted \union {msgs} /\ pc' \in {"idle", "queueing"}
      BY <1>0
    <3> QED BY <3>1, <3>2, <3>3
  <2> QED BY <1>0, <1>1, <1>4, <2>1 DEF Types, Queueing
<1>8. TableInv'
  <2>1. ASSUME NEW x \in Rows, Old(x) PROVE Less(x, r) /\ Old(x)'
    BY SMTT(20), <1>0, <1>1, <1>3, <1>5, <1>6, <2>1, RowFacts DEF Old, Less, Types
  <2>2. Old(r)'
    BY <1>0, <1>3, <1>6 DEF Old
  <2>3. Sorted(queue')
    <3>1. queue \in Seq(Rows) /\ Sorted(queue) /\ \A x \in Elements(queue) : Less(x, r)
      BY <1>1, <2>1, Facts DEF TableInv, Types
    <3> QED BY <1>0, <1>3, <3>1, SortedAppend
  <2> QED BY <1>0, <1>1, <1>4, <2>1, <2>2, <2>3, Facts DEF TableInv
<1>9. TopInv'
  <2> SUFFICES ASSUME pc' \in Queueing PROVE TopInv'
    BY DEF TopInv
  <2>1. pc' = "queueing" /\ accepted' = accepted /\ queued + 1 # Parts
    BY <1>0 DEF Queueing
  <2>2. Len(queue) \in Nat /\ Len(queue') = Len(queue) + 1 /\ queue'[Len(queue) + 1] = r
        /\ \A i \in 1 .. Len(queue) : queue'[i] = queue[i]
    BY <1>0, <1>1, <1>3 DEF Types
  <2>3. Len(queue') - queued' = Len(queue) - queued
    BY <1>0, <1>1, <2>2 DEF Types
  <2>4. ASSUME NEW i \in 1 .. Len(queue'), i > Len(queue') - queued'
        PROVE  queue'[i] = <<msgs, i - (Len(queue) - queued)>>
    <3>1. CASE i = Len(queue) + 1
      <4>1. i - (Len(queue) - queued) = queued + 1
        BY <1>1, <2>2, <3>1 DEF Types
      <4> QED BY <1>r, <2>2, <3>1, <4>1
    <3>2. CASE i # Len(queue) + 1
      <4>1. i \in 1 .. Len(queue) /\ i > Len(queue) - queued
        BY <2>2, <2>3, <2>4, <3>2
      <4> QED BY <1>2, <2>2, <4>1
    <3> QED BY <3>1, <3>2
  <2>5. queued' <= Len(queue') /\ queued' < Parts
    BY <1>0, <1>1, <1>2, <2>1, <2>2, Facts DEF Types
  <2> QED BY <1>0, <1>2, <2>1, <2>3, <2>4, <2>5 DEF TopInv
<1>10. BatchInv'
  <2>1. batch' = <<>> /\ Elements(batch') = {}
    BY <1>0, <1>1, ElementsEmpty DEF BatchInv, Sending
  <2>2. pc' \in {"idle", "queueing"}
    BY <1>0
  <2> QED BY <1>0, <1>1, <2>1, <2>2 DEF BatchInv, Sending
<1>11. WholeOrNothing'
  <2>1. ASSUME NEW m \in accepted', NEW i \in 1 .. Parts
        PROVE  <<m, i>> \in Elements(queue') \union Elements(wire') \union BadRows
    <3>1. CASE m \in accepted
      BY <1>0, <1>1, <1>4, <3>1 DEF WholeOrNothing
    <3>2. CASE m \notin accepted
      <4>1. m = msgs /\ queued + 1 = Parts
        BY <1>0, <3>2
      <4>2. CASE i = queued + 1
        BY <1>r, <1>4, <4>1, <4>2
      <4>3. CASE i # queued + 1
        <5> DEFINE j == Len(queue) - queued + i
        <5>1. j \in 1 .. Len(queue) /\ j > Len(queue) - queued /\ j - (Len(queue) - queued) = i
          BY SMTT(20), <1>1, <1>2, <4>1, <4>3, Facts DEF Types
        <5> HIDE DEF j
        <5>2. queue[j] = <<m, i>>
          BY <1>2, <4>1, <5>1
        <5> QED BY Zenon, <1>4, <5>1, <5>2 DEF Elements
      <4> QED BY <4>2, <4>3
    <3> QED BY <3>1, <3>2
  <2>2. accepted \subseteq accepted'
    BY <1>0
  <2> QED BY <1>0, <1>1, <2>1, <2>2 DEF WholeOrNothing
<1>12. WholeInv'
  <2>1. accepted \subseteq accepted' /\ (pc' \in Queueing \/ msgs \in accepted')
    BY <1>0 DEF Queueing
  <2>2. pc \in Queueing
    BY <1>0 DEF Queueing
  <2> QED BY <1>0, <1>1, <1>3, <1>4, <2>1, <2>2 DEF WholeInv
<1>13. SentOnce'
  BY <1>0, <1>1 DEF SentOnce
<1>14. OnceInv'
  <2>1. r \notin Elements(wire)
    <3>1. ~Old(r)
      BY <1>1, <1>3, <1>5 DEF Old, Types
    <3> QED BY <1>1, <3>1 DEF TableInv
  <2> QED BY <1>0, <1>1, <1>4, <2>1 DEF OnceInv
<1> QED BY <1>7, <1>8, <1>9, <1>10, <1>11, <1>12, <1>13, <1>14 DEF IInv

LEMMA QueueFailsStep ==
  ASSUME IInv, QueueFails
  PROVE  IInv'
<1>0. /\ pc = "queueing" /\ pc' = (IF queued > 0 THEN "rollback" ELSE "idle")
      /\ errors' = errors + 1
      /\ UNCHANGED <<queue, msgs, queued, batch, cursor, accepted, wire, crashes>>
  BY DEF QueueFails, DbError
<1>1. Types /\ TableInv /\ TopInv /\ BatchInv /\ WholeOrNothing /\ WholeInv /\ SentOnce /\ OnceInv
  BY DEF IInv
<1>2. pc' \in {"rollback", "idle"} /\ (pc' = "rollback" => queued > 0) /\ (pc' = "idle" => ~(queued > 0))
  BY <1>0
<1>3. Types'
  BY <1>0, <1>1, <1>2 DEF Types, Queueing
<1>4. TableInv'
  <2>1. Bound = queued /\ Bound' \in {queued, Parts}
    BY <1>0, <1>2 DEF Bound, Queueing
  <2>2. ASSUME NEW x \in Rows, Old(x) PROVE Old(x)'
    BY <1>0, <1>1, <2>1, <2>2, RowFacts DEF Old, Types
  <2> QED BY <1>0, <1>1, <2>2, Facts DEF TableInv
<1>5. TopInv'
  <2>1. errors' > 0 /\ pc' # "queueing"
    BY <1>0, <1>1, <1>2 DEF Types
  <2> QED BY <1>0, <1>1, <1>2, <2>1 DEF TopInv, Queueing
<1>6. BatchInv'
  <2>1. batch' = <<>> /\ Elements(batch') = {}
    BY <1>0, <1>1, ElementsEmpty DEF BatchInv, Sending
  <2> QED BY <1>0, <1>1, <1>2, <2>1 DEF BatchInv, Sending
<1>7. (errors' < 2 => errors < 2) /\ errors' # 0
  BY <1>0, <1>1 DEF Types
<1>8. WholeOrNothing' /\ SentOnce' /\ OnceInv'
  BY <1>0, <1>1, <1>7 DEF WholeOrNothing, SentOnce, OnceInv
<1>9. WholeInv'
  <2>1. CASE pc' = "rollback"
    BY <1>0, <1>1, <1>7, <2>1 DEF WholeInv, Queueing
  <2>2. CASE pc' = "idle"
    <3>1. ASSUME NEW x \in Elements(queue) PROVE x[1] # msgs
      <4>1. x \in Rows /\ Old(x) /\ Bound = queued
        BY <1>0, <1>1, Facts DEF TableInv, Bound, Queueing
      <4> QED BY <1>1, <1>2, <2>2, <4>1, RowFacts DEF Old, Types
    <3> QED BY <1>0, <1>1, <1>7, <3>1 DEF WholeInv
  <2> QED BY <1>2, <2>1, <2>2
<1> QED BY <1>3, <1>4, <1>5, <1>6, <1>8, <1>9 DEF IInv

LEMMA RollbackStep ==
  ASSUME IInv, db_queue_rollback_last
  PROVE  IInv'
<1> DEFINE n == Len(queue) - queued
<1>0. /\ pc = "rollback" /\ pc' = "idle"
      /\ \/ queue' = SubSeq(queue, 1, n) /\ errors' = errors
         \/ errors' = errors + 1 /\ queue' = queue
      /\ UNCHANGED <<msgs, queued, batch, cursor, accepted, wire, crashes>>
  BY DEF db_queue_rollback_last, DbError
<1>1. Types /\ TableInv /\ TopInv /\ BatchInv /\ WholeOrNothing /\ WholeInv /\ SentOnce /\ OnceInv
  BY DEF IInv
<1>2. /\ queued <= Len(queue) /\ msgs \notin accepted /\ queued > 0 /\ errors > 0
      /\ \A i \in 1 .. Len(queue) : i > n => queue[i] = <<msgs, i - n>>
  BY <1>0, <1>1 DEF TopInv, Queueing
<1>3. n \in 0 .. Len(queue) /\ n + 1 \in 1 .. Len(queue) /\ (n + 1) - n = 1
  BY <1>1, <1>2, Facts DEF Types
<1>4. queue[n + 1] = <<msgs, 1>>
  BY SMTT(20), <1>2, <1>3
<1> HIDE DEF n
<1>5. /\ queue' \in Seq(Rows) /\ Sorted(queue') /\ Elements(queue') \subseteq Elements(queue)
      /\ queue' # queue => Elements(queue') = {queue[i] : i \in 1 .. n}
  <2>1. CASE queue' = SubSeq(queue, 1, n)
    <3>1. queue' \in Seq(Rows) /\ Sorted(queue') /\ Elements(queue') = {queue[i] : i \in 1 .. n}
      BY <1>1, <1>3, <2>1, Prefix, SortedPrefix DEF Types, TableInv
    <3>2. \A i \in 1 .. n : i \in 1 .. Len(queue)
      BY <1>3, Facts
    <3> QED BY Zenon, <3>1, <3>2 DEF Elements
  <2>2. CASE queue' = queue
    BY <1>1, <2>2 DEF Types, TableInv
  <2> QED BY <1>0, <2>1, <2>2
<1>6. errors' \in Nat /\ errors' > 0 /\ (errors' < 2 => queue' = SubSeq(queue, 1, n) /\ errors' = errors)
  BY <1>0, <1>1, <1>2 DEF Types
<1>7. Types'
  BY <1>0, <1>1, <1>5, <1>6 DEF Types
<1>8. TableInv'
  <2>1. ASSUME NEW x \in Rows, Old(x) PROVE Old(x)'
    BY <1>0, <1>1, <2>1, RowFacts DEF Old, Types, Bound, Queueing
  <2> QED BY <1>0, <1>1, <1>5, <2>1, Facts DEF TableInv
<1>9. TopInv'
  BY <1>0 DEF TopInv, Queueing
<1>10. BatchInv'
  <2>1. batch' = <<>> /\ Elements(batch') = {}
    BY <1>0, <1>1, ElementsEmpty DEF BatchInv, Sending
  <2> QED BY <1>0, <1>1, <2>1 DEF BatchInv, Sending
<1>11. ASSUME NEW x \in Elements(queue), x[1] # msgs PROVE x \in Elements(queue')
  <2>1. PICK i \in 1 .. Len(queue) : queue[i] = x
    BY DEF Elements
  <2>2. ~(i > n)
    <3>1. ASSUME i > n PROVE FALSE
      <4>1. x = <<msgs, i - n>>
        BY Zenon, <1>2, <2>1, <3>1
      <4> QED BY <1>11, <4>1
    <3> QED BY <3>1
  <2>3. i \in 1 .. n
    BY <1>3, <2>2, Facts
  <2>4. CASE queue' = queue
    BY <2>4
  <2>5. CASE queue' # queue
    BY <1>5, <2>1, <2>3, <2>5
  <2> QED BY <2>4, <2>5
<1>12. WholeOrNothing'
  <2>1. ASSUME NEW m \in accepted, NEW i \in 1 .. Parts
        PROVE  <<m, i>> \in Elements(queue') \union Elements(wire) \union BadRows
    <3>1. <<m, i>> \in Elements(queue) \union Elements(wire) \union BadRows
      BY <1>1 DEF WholeOrNothing
    <3>2. <<m, i>>[1] # msgs
      BY <1>2
    <3> QED BY <1>11, <3>1, <3>2
  <2>2. errors' < 2 => errors < 2
    BY <1>0, <1>1 DEF Types
  <2> QED BY <1>0, <1>1, <2>1, <2>2 DEF WholeOrNothing
<1>13. WholeInv'
  <2> SUFFICES ASSUME errors' < 2, crashes' = 0 PROVE WholeInv'
    BY DEF WholeInv
  <2>1. queue' = SubSeq(queue, 1, n) /\ errors' = errors
    BY <1>6
  <2>2. Elements(queue') = {queue[i] : i \in 1 .. n}
    BY <1>1, <1>3, <2>1, SortedPrefix DEF Types, TableInv
  <2>3. ASSUME NEW x \in Elements(queue') PROVE x[1] # msgs /\ x \in Elements(queue)
    <3>1. PICK i \in 1 .. n : queue[i] = x
      BY <2>2
    <3>2. i \in 1 .. Len(queue) /\ i < n + 1
      BY <1>3, Facts
    <3>3. Less(x, <<msgs, 1>>)
      BY <1>1, <1>3, <1>4, <3>1, <3>2 DEF TableInv, Sorted
    <3>4. x \in Elements(queue) /\ x \in Rows
      BY <3>1, <3>2, Facts DEF Elements
    <3> QED BY <3>3, <3>4, RowFacts DEF Less
  <2> QED BY <1>0, <1>1, <2>1, <2>3 DEF WholeInv
<1>14. SentOnce' /\ OnceInv'
  BY <1>6 DEF SentOnce, OnceInv
<1> QED BY <1>7, <1>8, <1>9, <1>10, <1>12, <1>13, <1>14 DEF IInv

\* The steps of a session that leave the table and the wire alone.
LEMMA Frame ==
  ASSUME IInv, UNCHANGED <<queue, wire, accepted, msgs>>,
         pc' \notin Queueing, errors' >= errors, crashes' >= crashes, errors' \in Nat, crashes' \in Nat,
         queued' \in 0 .. Parts, cursor' \in Nat, pc' \in {"idle", "read"} \union Sending, batch' \in Seq(Rows)
  PROVE  Types' /\ TableInv' /\ TopInv' /\ WholeOrNothing' /\ SentOnce'
<1>1. Types /\ TableInv /\ TopInv /\ WholeOrNothing /\ SentOnce
  BY DEF IInv
<1>2. Types'
  BY <1>1 DEF Types
<1>3. TableInv'
  <2>1. Bound' = Parts /\ Bound \in {queued, Parts}
    BY DEF Bound
  <2>2. ASSUME NEW x \in Rows, Old(x) PROVE Old(x)'
    BY <1>1, <2>1, <2>2, RowFacts DEF Old, Types
  <2> QED BY <1>1, <2>2, Facts DEF TableInv
<1>4. TopInv'
  BY DEF TopInv
<1>5. (errors' = 0 /\ crashes' = 0 => errors = 0 /\ crashes = 0)
      /\ (errors' < 2 /\ crashes' = 0 => errors < 2 /\ crashes = 0)
  BY SMTT(20), <1>1 DEF Types
<1>6. WholeOrNothing' /\ SentOnce'
  BY <1>1, <1>5 DEF WholeOrNothing, SentOnce
<1> QED BY <1>2, <1>3, <1>4, <1>6

LEMMA FrameWhole ==
  ASSUME IInv, UNCHANGED <<queue, wire, accepted, msgs>>, pc \notin Queueing,
         errors' >= errors, crashes' >= crashes, errors' \in Nat, crashes' \in Nat
  PROVE  WholeInv'
<1>1. errors' < 2 /\ crashes' = 0 => errors < 2 /\ crashes = 0
  BY DEF IInv, Types
<1> QED BY <1>1 DEF IInv, WholeInv

LEMMA ReadStart ==
  ASSUME IInv, db_process_queue
  PROVE  IInv'
<1>0. /\ pc = "idle" /\ pc' = "read"
      /\ UNCHANGED <<queue, msgs, queued, batch, cursor, accepted, wire, errors, crashes>>
  BY DEF db_process_queue
<1>1. Types /\ BatchInv /\ OnceInv
  BY DEF IInv
<1>2. Types' /\ TableInv' /\ TopInv' /\ WholeOrNothing' /\ SentOnce' /\ WholeInv'
  BY <1>0, <1>1, Frame, FrameWhole DEF Types, Queueing
<1>3. BatchInv'
  <2>1. batch' = <<>> /\ Elements(batch') = {} /\ cursor' = 0
    BY <1>0, <1>1, ElementsEmpty DEF BatchInv, Sending
  <2>2. {queue'[i] : i \in 1 .. cursor'} = {}
    BY <2>1
  <2> QED BY <1>0, <1>1, <2>1, <2>2, Facts DEF BatchInv, Sending
<1>4. OnceInv'
  BY <1>0, <1>1 DEF OnceInv
<1> QED BY <1>2, <1>3, <1>4 DEF IInv

LEMMA ReadStep ==
  ASSUME IInv, sqlite3_step
  PROVE  IInv'
<1>r. PICK r : r = queue[cursor + 1]
  OBVIOUS
<1>0. /\ pc = "read" /\ cursor < Len(queue) /\ cursor' = cursor + 1
      /\ batch' = (IF r \in Malformed THEN batch ELSE Append(batch, r))
      /\ UNCHANGED <<queue, pc, msgs, queued, accepted, wire, errors, crashes>>
  BY <1>r DEF sqlite3_step, Take
<1>1. Types /\ TableInv /\ BatchInv /\ OnceInv
  BY DEF IInv
<1>2. cursor + 1 \in 1 .. Len(queue) /\ cursor \in Nat /\ r \in Rows
  BY SMTT(20), <1>r, <1>0, <1>1, Facts DEF Types
<1>3. Elements(batch) = {queue[i] : i \in 1 .. cursor} \ Malformed
  BY <1>0, <1>1 DEF BatchInv
<1>4. {queue[i] : i \in 1 .. cursor + 1} = {queue[i] : i \in 1 .. cursor} \union {r}
  <2>1. 1 .. cursor + 1 = (1 .. cursor) \union {cursor + 1}
    BY <1>2
  <2> QED BY <1>r, <2>1
<1>5. \A x \in Elements(batch) : Less(x, r)
  <2> SUFFICES ASSUME NEW x \in Elements(batch) PROVE Less(x, r)
    OBVIOUS
  <2>1. PICK i \in 1 .. cursor : queue[i] = x
    BY <1>3
  <2>2. i \in 1 .. Len(queue) /\ i < cursor + 1
    BY <1>2, Facts
  <2> QED BY <1>r, <1>1, <1>2, <2>1, <2>2 DEF TableInv, Sorted
<1>6. /\ batch' \in Seq(Rows) /\ Sorted(batch')
      /\ Elements(batch') = Elements(batch) \union ({r} \ Malformed)
  <2>0. batch \in Seq(Rows) /\ Sorted(batch)
    BY <1>1 DEF Types, BatchInv
  <2>1. CASE r \in Malformed
    BY <1>0, <2>0, <2>1
  <2>2. CASE r \notin Malformed
    <3>1. batch' = Append(batch, r)
      BY <1>0, <2>2
    <3>2. batch' \in Seq(Rows) /\ Elements(batch') = Elements(batch) \union {r}
      BY <1>2, <2>0, <3>1, ElementsAppend
    <3>3. Sorted(batch')
      BY SMTT(20), <1>2, <1>5, <2>0, <3>1, SortedAppend
    <3> QED BY <2>2, <3>2, <3>3
  <2> QED BY <2>1, <2>2
<1>7. Types' /\ TableInv' /\ TopInv' /\ WholeOrNothing' /\ SentOnce' /\ WholeInv'
  BY <1>0, <1>1, <1>2, <1>6, Frame, FrameWhole DEF Types, Queueing
<1>8. BatchInv'
  <2>1. Elements(batch') = {queue[i] : i \in 1 .. cursor + 1} \ Malformed
    BY Zenon, <1>3, <1>4, <1>6
  <2>2. r \in Elements(queue)
    BY <1>r, <1>2 DEF Elements
  <2>3. Elements(batch') \subseteq Elements(queue)
    BY <1>1, <1>6, <2>2 DEF BatchInv
  <2>4. cursor' <= Len(queue)
    BY <1>0, <1>2, Facts
  <2> QED BY <1>0, <1>6, <2>1, <2>3, <2>4 DEF BatchInv, Sending
<1>9. OnceInv'
  BY <1>0, <1>1 DEF OnceInv
<1> QED BY <1>7, <1>8, <1>9 DEF IInv

\* A batch that was read to the cursor leaves no readable older row behind.
LEMMA ReadAll ==
  ASSUME IInv, pc = "read", NEW r \in Elements(queue), NEW b \in Elements(batch), Less(r, b)
  PROVE  r \in Elements(batch) \union Malformed
<1>1. /\ Elements(batch) = {queue[i] : i \in 1 .. cursor} \ Malformed
      /\ Sorted(queue) /\ queue \in Seq(Rows) /\ cursor <= Len(queue) /\ cursor \in Nat
  BY DEF IInv, BatchInv, TableInv, Types
<1>2. PICK i \in 1 .. cursor : queue[i] = b
  BY <1>1
<1>3. PICK j \in 1 .. Len(queue) : queue[j] = r
  BY DEF Elements
<1>4. j <= cursor
  <2>1. ASSUME j > i PROVE FALSE
    <3>1. i \in 1 .. Len(queue)
      BY <1>1, Facts
    <3>2. Less(b, r)
      BY <1>1, <1>2, <1>3, <2>1, <3>1 DEF Sorted
    <3> QED BY <3>2, Facts, LessFacts
  <2> QED BY <1>1, <2>1, Facts
<1>5. j \in 1 .. cursor
  BY <1>1, <1>4
<1> QED BY <1>1, <1>3, <1>5

LEMMA ReadEnd ==
  ASSUME IInv, ReadDone \/ ReadFails
  PROVE  IInv'
<1>0. /\ pc = "read" /\ cursor' = 0 /\ crashes' = crashes
      /\ UNCHANGED <<queue, msgs, queued, accepted, wire>>
      /\ errors' = errors \/ errors' = errors + 1
      /\ (pc' = "flush" /\ batch' = batch) \/ (pc' = "idle" /\ batch' = <<>>)
  BY DEF ReadDone, ReadFails, DbError
<1>1. Types /\ BatchInv /\ OnceInv
  BY DEF IInv
<1>2. errors' \in Nat /\ errors' >= errors /\ crashes' \in Nat /\ crashes' >= crashes
  BY <1>0, <1>1 DEF Types
<1>b. batch' \in Seq(Rows)
  <2>1. batch \in Seq(Rows)
    BY <1>1 DEF Types
  <2>2. <<>> \in Seq(Rows)
    OBVIOUS
  <2> QED BY Zenon, <1>0, <2>1, <2>2
<1>3. Types' /\ TableInv' /\ TopInv' /\ WholeOrNothing' /\ SentOnce' /\ WholeInv'
  <2>1. /\ queued' \in 0 .. Parts /\ cursor' \in Nat /\ pc' \in {"idle", "read"} \union Sending
        /\ pc \notin Queueing /\ pc' \notin Queueing
    BY <1>0, <1>1 DEF Types, Queueing, Sending
  <2> QED BY <1>0, <1>2, <1>b, <2>1, Frame, FrameWhole
<1>4. BatchInv'
  <2>1. CASE pc' = "flush" /\ batch' = batch
    <3>1. \A r \in Elements(queue), b \in Elements(batch) :
            Less(r, b) => r \in Elements(batch) \union Malformed
      BY <1>0, ReadAll
    <3> QED BY <1>0, <1>1, <2>1, <3>1 DEF BatchInv, Sending
  <2>2. CASE pc' = "idle" /\ batch' = <<>>
    <3>1. Elements(batch') = {} /\ Sorted(batch')
      BY <2>2, ElementsEmpty DEF Sorted
    <3> QED BY <1>0, <2>2, <3>1 DEF BatchInv, Sending
  <2> QED BY SMTT(20), <1>0, <2>1, <2>2
<1>5. OnceInv'
  <2>1. errors' = 0 => errors = 0
    BY <1>1, <1>2 DEF Types
  <2> QED BY <1>0, <1>1, <2>1 DEF OnceInv
<1> QED BY <1>3, <1>4, <1>5 DEF IInv

LEMMA SkipStep ==
  ASSUME IInv, SkipRow
  PROVE  IInv'
<1>0. /\ pc = "flush" /\ batch # <<>> /\ Head(batch) \in BadRows /\ pc' = "delete"
      /\ UNCHANGED <<queue, msgs, queued, batch, cursor, accepted, wire, errors, crashes>>
  BY DEF SkipRow
<1>1. Types /\ BatchInv /\ OnceInv
  BY DEF IInv
<1>2. Types' /\ TableInv' /\ TopInv' /\ WholeOrNothing' /\ SentOnce' /\ WholeInv'
  BY <1>0, <1>1, Frame, FrameWhole DEF Types, Queueing, Sending
<1>3. BatchInv'
  <2>1. batch[1] \in BadRows
    BY <1>0, <1>1, SortedTail DEF BatchInv, Types
  <2> QED BY <1>0, <1>1, <2>1 DEF BatchInv, Sending
<1>4. OnceInv'
  BY <1>0, <1>1 DEF OnceInv
<1> QED BY <1>2, <1>3, <1>4 DEF IInv

LEMMA StopStep ==
  ASSUME IInv, SendFails \/ FlushDone \/ Crash
  PROVE  IInv'
<1>0. /\ pc' = "idle" /\ batch' = <<>> /\ cursor' = 0 /\ queued' \in {0, queued} /\ errors' = errors
      /\ UNCHANGED <<queue, msgs, accepted, wire>>
      /\ (crashes' = crashes /\ pc = "flush") \/ crashes' = crashes + 1
  BY DEF SendFails, FlushDone, Crash, IInv, BatchInv
<1>1. Types /\ BatchInv /\ OnceInv
  BY DEF IInv
<1>2. /\ batch' \in Seq(Rows) /\ crashes' \in Nat /\ queued' \in 0 .. Parts
      /\ (crashes' = crashes /\ pc = "flush") \/ crashes' > crashes
  BY SMTT(20), <1>0, <1>1, Facts DEF Types
<1>3. Types' /\ TableInv' /\ TopInv' /\ WholeOrNothing' /\ SentOnce'
  BY <1>0, <1>1, <1>2, Frame DEF Types, Queueing
<1>4. crashes' = 0 => crashes = 0 /\ pc = "flush"
  BY <1>1, <1>2 DEF Types
<1>5. WholeInv'
  BY <1>0, <1>4 DEF IInv, WholeInv, Queueing
<1>6. BatchInv'
  <2>1. Elements(batch') = {} /\ Sorted(batch')
    BY <1>0, ElementsEmpty DEF Sorted
  <2> QED BY <1>0, <2>1 DEF BatchInv, Sending
<1>7. OnceInv'
  BY <1>0, <1>1, <1>4 DEF OnceInv
<1> QED BY SMTT(20), <1>3, <1>5, <1>6, <1>7 DEF IInv

LEMMA SendStep ==
  ASSUME IInv, SendRow
  PROVE  IInv'
<1>r. PICK r : r = Head(batch)
  OBVIOUS
<1>0. /\ pc = "flush" /\ batch # <<>> /\ pc' = "delete" /\ wire' = Append(wire, r)
      /\ UNCHANGED <<queue, msgs, queued, batch, cursor, accepted, errors, crashes>>
  BY <1>r DEF SendRow
<1>1. Types /\ TableInv /\ TopInv /\ BatchInv /\ WholeOrNothing /\ WholeInv /\ SentOnce /\ OnceInv
  BY DEF IInv
<1>2. r = batch[1] /\ r \in Rows /\ r \in Elements(batch) /\ r \in Elements(queue)
  BY <1>r, <1>0, <1>1, SortedTail DEF BatchInv, Types
<1>3. wire' \in Seq(Rows) /\ Elements(wire') = Elements(wire) \union {r}
  BY <1>0, <1>1, <1>2, ElementsAppend DEF Types
<1>4. Types'
  BY <1>0, <1>1, <1>3 DEF Types, Sending
<1>5. TableInv'
  <2>1. Bound' = Bound
    BY <1>0 DEF Bound, Queueing
  <2>2. ASSUME NEW x, Old(x) PROVE Old(x)'
    BY <1>0, <2>1, <2>2 DEF Old
  <2> QED BY <1>0, <1>1, <1>2, <1>3, <2>2 DEF TableInv
<1>6. TopInv'
  BY SMTT(20), <1>0 DEF TopInv, Queueing
<1>7. BatchInv'
  BY <1>0, <1>1, <1>2, <1>3 DEF BatchInv, Sending
<1>8. WholeInv'
  BY <1>0, <1>1, <1>2, <1>3 DEF WholeInv, Queueing
<1>9. WholeOrNothing'
  <2>1. errors' < 2 /\ crashes' = 0 => \A x \in Elements(wire') : x[1] \in accepted'
    BY <1>8 DEF WholeInv
  <2> QED BY <1>0, <1>1, <1>3, <2>1 DEF WholeOrNothing
<1>10. OnceInv'
  BY <1>0, <1>1, <1>2, <1>3 DEF OnceInv
<1>11. SentOnce'
  <2> SUFFICES ASSUME errors = 0, crashes = 0,
                      NEW i \in 1 .. Len(wire'), NEW j \in 1 .. Len(wire'), wire'[i] = wire'[j]
               PROVE  i = j
    BY <1>0 DEF SentOnce
  <2>1. \A k \in 1 .. Len(wire) : wire[k] # r
    BY Zenon, <1>0, <1>1, <1>2 DEF OnceInv, Elements
  <2>2. Len(wire) \in Nat /\ Len(wire') = Len(wire) + 1 /\ wire'[Len(wire) + 1] = r
        /\ \A k \in 1 .. Len(wire) : wire'[k] = wire[k]
    BY SMTT(20), <1>0, <1>1, <1>2 DEF Types
  <2>3. \A k, l \in 1 .. Len(wire) : wire[k] = wire[l] => k = l
    BY <1>1 DEF SentOnce
  <2>4. CASE i = Len(wire) + 1
    BY <2>1, <2>2, <2>4
  <2>5. CASE j = Len(wire) + 1
    BY <2>1, <2>2, <2>5
  <2>6. CASE i # Len(wire) + 1 /\ j # Len(wire) + 1
    <3>1. i \in 1 .. Len(wire) /\ j \in 1 .. Len(wire)
      BY SMTT(20), <2>2, <2>6
    <3> QED BY <2>2, <2>3, <3>1
  <2> QED BY <2>4, <2>5, <2>6
<1> QED BY <1>4, <1>5, <1>6, <1>7, <1>8, <1>9, <1>10, <1>11 DEF IInv

LEMMA DeleteStep ==
  ASSUME IInv, db_queue_delete
  PROVE  IInv'
<1>r. PICK r : r = Head(batch)
  OBVIOUS
<1>0. /\ pc = "delete" /\ pc' = "flush" /\ batch' = Tail(batch)
      /\ \/ DeleteRow(r) /\ errors' = errors
         \/ errors' = errors + 1 /\ queue' = queue
      /\ UNCHANGED <<msgs, queued, cursor, accepted, wire, crashes>>
  BY <1>r DEF db_queue_delete, DbError
<1>1. Types /\ TableInv /\ TopInv /\ BatchInv /\ WholeOrNothing /\ WholeInv /\ SentOnce /\ OnceInv
  BY DEF IInv
<1>2. batch \in Seq(Rows) /\ Sorted(batch) /\ batch # <<>>
      /\ batch[1] \in Elements(wire) \union BadRows
  BY <1>0, <1>1 DEF Types, BatchInv
<1>3. /\ r = batch[1] /\ r \in Rows /\ r \in Elements(batch) /\ batch' \in Seq(Rows)
      /\ Sorted(batch') /\ Elements(batch') = Elements(batch) \ {r}
      /\ \A x \in Elements(batch') : Less(r, x)
  BY <1>r, <1>0, <1>2, SortedTail
<1>4. /\ queue' \in Seq(Rows) /\ Sorted(queue')
      /\ (Elements(queue') = Elements(queue) \ {r} /\ errors' = errors)
           \/ (Elements(queue') = Elements(queue) /\ errors' = errors + 1)
  <2>1. CASE DeleteRow(r) /\ errors' = errors
    <3>1. PICK k \in 1 .. Len(queue) : queue[k] = r /\ queue' = Without(queue, k)
      BY <2>1 DEF DeleteRow
    <3>2. queue \in Seq(Rows) /\ Sorted(queue)
      BY <1>1 DEF Types, TableInv
    <3>3. queue' \in Seq(Rows)
      BY <3>1, <3>2, WithoutParts
    <3>4. Sorted(queue') /\ Elements(queue') = Elements(queue) \ {r}
      BY <3>1, <3>2, SortedWithout
    <3> QED BY <2>1, <3>3, <3>4
  <2>2. CASE errors' = errors + 1 /\ queue' = queue
    BY <1>1, <2>2 DEF Types, TableInv
  <2> QED BY <1>0, <2>1, <2>2
<1>5. /\ Elements(queue') \subseteq Elements(queue)
      /\ \A x \in Elements(queue) : x \in Elements(queue') \/ x = r
  BY <1>4
<1>6. Types'
  BY SMTT(20), <1>0, <1>1, <1>3, <1>4 DEF Types, Sending
<1>7. TableInv'
  <2>1. Bound' = Bound
    BY <1>0 DEF Bound, Queueing
  <2>2. ASSUME NEW x, Old(x) PROVE Old(x)'
    BY SMTT(20), <1>0, <2>1, <2>2 DEF Old
  <2> QED BY <1>0, <1>1, <1>4, <1>5, <2>2 DEF TableInv
<1>8. TopInv'
  BY SMTT(20), <1>0 DEF TopInv, Queueing
<1>9. BatchInv'
  <2>1. Elements(batch') \subseteq Elements(queue')
    BY <1>1, <1>3, <1>5 DEF BatchInv
  <2>2. ASSUME NEW x \in Elements(queue'), NEW b \in Elements(batch'), Less(x, b)
        PROVE  x \in Elements(batch') \union Elements(wire) \union BadRows \union Malformed
    <3>1. x \in Elements(batch) \union Elements(wire) \union BadRows \union Malformed
      BY <1>0, <1>1, <1>3, <1>5, <2>2 DEF BatchInv, Sending
    <3>2. x = r => x \in Elements(wire) \union BadRows
      BY <1>2, <1>3
    <3> QED BY SMTT(20), <1>3, <3>1, <3>2
  <2> QED BY SMTT(20), <1>0, <1>1, <1>3, <2>1, <2>2 DEF BatchInv, Sending
<1>10. (errors' < 2 => errors < 2) /\ (errors' = 0 => errors = 0 /\ errors' = errors /\ errors' # errors + 1)
  BY SMTT(20), <1>1, <1>4 DEF Types
<1>11. WholeOrNothing'
  <2>1. r \in Elements(wire) \union BadRows
    BY SMTT(20), <1>2, <1>3
  <2> QED BY <1>0, <1>1, <1>5, <1>10, <2>1 DEF WholeOrNothing
<1>12. WholeInv'
  BY <1>0, <1>1, <1>5, <1>10 DEF WholeInv, Queueing
<1>13. SentOnce'
  BY SMTT(20), <1>0, <1>1, <1>10 DEF SentOnce
<1>14. OnceInv'
  BY SMTT(20), <1>0, <1>1, <1>3, <1>4, <1>10 DEF OnceInv
<1> QED BY <1>6, <1>7, <1>8, <1>9, <1>11, <1>12, <1>13, <1>14 DEF IInv

LEMMA Stutter ==
  ASSUME IInv, UNCHANGED vars
  PROVE  IInv'
BY DEF vars, IInv, Types, TableInv, Old, Bound, TopInv, BatchInv, WholeOrNothing, WholeInv, SentOnce,
       OnceInv

LEMMA IInvAlways == Spec => []IInv
<1>1. Init => IInv
  <2> SUFFICES ASSUME Init PROVE IInv
    OBVIOUS
  <2>1. Elements(<<>>) = {}
    BY ElementsEmpty
  <2>2. Types
    BY QueueAssumption DEF Init, Types
  <2>3. TableInv /\ TopInv
    BY <2>1 DEF Init, TableInv, TopInv, Sorted, Queueing
  <2>4. BatchInv
    BY <2>1 DEF Init, BatchInv, Sorted, Sending
  <2>5. WholeOrNothing /\ WholeInv /\ SentOnce /\ OnceInv
    BY <2>1 DEF Init, WholeOrNothing, WholeInv, SentOnce, OnceInv
  <2> QED BY <2>2, <2>3, <2>4, <2>5 DEF IInv
<1>2. IInv /\ [Next]_vars => IInv'
  BY QueueStep, InsertStep, QueueFailsStep, RollbackStep, ReadStart, ReadStep, ReadEnd, SkipStep,
     StopStep, SendStep, DeleteStep, Stutter DEF Next
<1> QED BY <1>1, <1>2, PTL DEF Spec

\* As long as no statement fails and the process does not die no row is sent
\* twice: db_process_queue deletes each row before it sends the next, for every
\* number of messages, parts and sessions.
THEOREM RowsSentOnce == Spec => []SentOnce
<1>1. IInv => SentOnce
  BY DEF IInv
<1> QED BY <1>1, IInvAlways, PTL

\* Every part of a message reported as queued is in the table, was sent or does
\* not decrypt; and without a crash and a second failing statement nothing of a
\* message that was not queued whole is sent: db_queue_rollback_last takes back
\* exactly the rows of the message.
THEOREM MessagesWhole == Spec => []WholeOrNothing
<1>1. IInv => WholeOrNothing
  BY DEF IInv
<1> QED BY <1>1, IInvAlways, PTL

-----------------------------------------------------------------------------
(* The queue implements Outbox.  An insertion puts a row, a rollback takes   *)
(* back, a write sends and a deletion removes; every other step changes      *)
(* nothing the promise speaks of.                                            *)

LEMMA InsertKeeps ==
  ASSUME IInv, db_queue_message
  PROVE  Promise!Next
<1>r. PICK r : r = <<msgs, queued + 1>>
  BY Zenon
<1>1. Types /\ TopInv
  BY DEF IInv
<1>2. /\ msgs \in 1 .. MaxMsgs /\ queued \in Nat /\ queued + 1 \in 1 .. Parts
      /\ queued <= Len(queue) /\ Len(queue) \in Nat
  BY <1>1, Facts DEF Types, TopInv, Queueing, db_queue_message
<1>3. r \in Rows /\ r[1] = msgs /\ r[2] = queued + 1
  BY <1>r, <1>2, RowFacts
<1>4. queue' = Append(queue, r) /\ wire' = wire
  BY <1>r DEF db_queue_message
<1>5. CASE queued + 1 = Parts
  <2>1. accepted' = accepted \union {r[1]}
    BY <1>3, <1>5 DEF db_queue_message
  <2>2. ASSUME NEW p \in Rows, p[1] = r[1], p # r
        PROVE  p \in Elements(queue)
    <3>1. p[1] = msgs /\ p[2] \in 1 .. Parts /\ p = <<p[1], p[2]>>
      BY <1>3, <2>2, RowFacts DEF Rows
    <3>2. p[2] \in 1 .. queued
      BY <1>r, <1>2, <1>5, <2>2, <3>1
    <3> DEFINE i == Len(queue) - queued + p[2]
    <3>3. i \in 1 .. Len(queue) /\ i > Len(queue) - queued /\ i - (Len(queue) - queued) = p[2]
      BY SMTT(20), <1>2, <3>2
    <3> HIDE DEF i
    <3>4. queue[i] = <<msgs, i - (Len(queue) - queued)>>
      BY <1>1, <3>3 DEF TopInv, Queueing, db_queue_message
    <3>5. queue[i] = p
      BY <3>1, <3>3, <3>4
    <3> QED BY SMTT(20), <3>3, <3>5 DEF Elements
  <2>3. Promise!PutLast(r)
    BY <1>4, <2>1, <2>2 DEF Promise!PutLast, Elements
  <2> QED BY <1>3, <2>3 DEF Promise!Next
<1>6. CASE queued + 1 # Parts
  <2>1. accepted' = accepted
    BY <1>6 DEF db_queue_message
  <2>2. Promise!Put(r)
    BY <1>4, <2>1 DEF Promise!Put
  <2> QED BY <1>3, <2>2 DEF Promise!Next
<1> QED BY <1>5, <1>6

LEMMA RollbackKeeps ==
  ASSUME IInv, db_queue_rollback_last, queue' # queue
  PROVE  Promise!Next
<1>0. pc = "rollback" /\ queue' = SubSeq(queue, 1, Len(queue) - queued) /\ wire' = wire /\ accepted' = accepted
  BY DEF db_queue_rollback_last
<1>1. Types /\ TopInv
  BY SMTT(20) DEF IInv
<1>2. /\ queued \in Nat /\ queued > 0 /\ queued <= Len(queue) /\ Len(queue) \in Nat /\ msgs \notin accepted
      /\ \A i \in 1 .. Len(queue) :
           i > Len(queue) - queued => queue[i] = <<msgs, i - (Len(queue) - queued)>>
  BY SMTT(20), <1>0, <1>1, Facts DEF TopInv, Queueing, Types
<1>k. PICK k : k = Len(queue) - queued + 1
  OBVIOUS
<1>3. k \in 1 .. Len(queue) /\ k - 1 = Len(queue) - queued
  BY <1>k, <1>2
<1>4. ASSUME NEW i \in k .. Len(queue) PROVE queue[i][1] \notin accepted
  <2>1. i \in 1 .. Len(queue) /\ i > Len(queue) - queued
    BY <1>k, <1>2, <1>3
  <2>2. queue[i] = <<msgs, i - (Len(queue) - queued)>>
    BY <1>2, <2>1
  <2>3. queue[i][1] = msgs
    BY SMTT(20), <2>2
  <2> QED BY <1>2, <2>3
<1>5. Promise!TakeBack(k)
  BY <1>0, <1>3, <1>4 DEF Promise!TakeBack
<1> QED BY <1>3, <1>5 DEF Promise!Next

LEMMA SendKeeps ==
  ASSUME IInv, SendRow
  PROVE  Promise!Next
<1>r. PICK r : r = Head(batch)
  OBVIOUS
<1>0. /\ pc = "flush" /\ batch # <<>> /\ wire' = Append(wire, r) /\ queue' = queue /\ accepted' = accepted
  BY SMTT(20), <1>r DEF SendRow
<1>1. Types /\ TableInv /\ BatchInv
  BY DEF IInv
<1>2. /\ r = batch[1] /\ r \in Rows /\ r \in Elements(batch) /\ r \in Elements(queue)
      /\ Elements(Tail(batch)) = Elements(batch) \ {r} /\ \A x \in Elements(Tail(batch)) : Less(r, x)
  BY <1>r, <1>0, <1>1, SortedTail DEF BatchInv, Types
<1>3. Elements(wire') = Elements(wire) \union {r}
  BY <1>0, <1>1, <1>2, ElementsAppend DEF Types
<1>4. PICK i \in 1 .. Len(queue) : queue[i] = r
  BY <1>2 DEF Elements
<1>5. ASSUME NEW j \in 1 .. i - 1
      PROVE  queue[j] \in Elements(wire) \union (BadRows \union Malformed)
  <2>1. j \in 1 .. Len(queue) /\ j < i
    BY SMTT(20), <1>1, <1>4 DEF Types
  <2>2. queue[j] \in Elements(queue) /\ Less(queue[j], r) /\ queue[j] \in Rows
    BY SMTT(20), <1>1, <1>4, <2>1 DEF TableInv, Sorted, Elements, Types
  <2>3. queue[j] \in Elements(batch) \union Elements(wire) \union BadRows \union Malformed
    BY <1>0, <1>1, <1>2, <2>2 DEF BatchInv, Sending
  <2>4. queue[j] \notin Elements(batch)
    BY <1>2, <2>2, LessFacts
  <2> QED BY <2>3, <2>4
<1>6. Promise!Send(i)
  BY <1>0, <1>3, <1>4, <1>5 DEF Promise!Send
<1> QED BY <1>4, <1>6 DEF Promise!Next

LEMMA DeleteKeeps ==
  ASSUME IInv, db_queue_delete, queue' # queue
  PROVE  Promise!Next
<1>1. /\ pc = "delete" /\ DeleteRow(Head(batch)) /\ wire' = wire /\ accepted' = accepted
  BY DEF db_queue_delete
<1>2. batch \in Seq(Rows) /\ Sorted(batch) /\ batch # <<>> /\ batch[1] \in Elements(wire) \union BadRows
  BY <1>1 DEF IInv, BatchInv, Types
<1>3. Head(batch) \in Elements(wire) \union BadRows
  BY <1>2, SortedTail
<1>4. PICK i \in 1 .. Len(queue) : queue[i] = Head(batch) /\ queue' = Without(queue, i)
  BY <1>1 DEF DeleteRow
<1>5. Promise!Remove(i)
  BY <1>1, <1>3, <1>4 DEF Promise!Remove, Promise!Without, Without
<1> QED BY <1>4, <1>5 DEF Promise!Next

LEMMA StepKeeps ==
  ASSUME IInv, [Next]_vars
  PROVE  [Promise!Next]_Promise!vars
<1>1. CASE db_queue_message \/ SendRow
  BY <1>1, InsertKeeps, SendKeeps
<1>2. CASE (db_queue_rollback_last \/ db_queue_delete) /\ queue' # queue
  BY <1>2, RollbackKeeps, DeleteKeeps
<1>3. CASE UNCHANGED <<queue, wire, accepted>>
  BY SMTT(20), <1>3 DEF Promise!vars
<1>4. db_queue_message \/ SendRow \/ db_queue_rollback_last \/ db_queue_delete
        \/ UNCHANGED <<queue, wire, accepted>>
  BY DEF Next, vars, queue_segmented_message, QueueFails, db_process_queue, sqlite3_step, ReadDone,
         ReadFails, SkipRow, SendFails, FlushDone, Crash
<1>5. db_queue_rollback_last \/ db_queue_delete => UNCHANGED <<wire, accepted>>
  BY DEF db_queue_rollback_last, db_queue_delete
<1> QED BY <1>1, <1>2, <1>3, <1>4, <1>5

\* The queue is an Outbox: rows leave in the order they came in, and nothing the
\* user was told is queued leaves unsent unless it is unreadable, for every number
\* of messages, parts and rows of a batch, whichever statements fail and wherever
\* the process dies.
THEOREM QueueKeepsPromise == Spec => KeepsPromise
<1>1. Init => Promise!Init
  BY ElementsEmpty DEF Init, Promise!Init
<1>2. IInv /\ [Next]_vars => [Promise!Next]_Promise!vars
  BY StepKeeps
<1> QED BY <1>1, <1>2, IInvAlways, PTL DEF Spec, KeepsPromise, Promise!Spec
=============================================================================
