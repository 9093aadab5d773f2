----------------------------- MODULE DialProofs -----------------------------
(***************************************************************************)
(* Proofs about dialling, for any number of slots, any time budget and any  *)
(* lengths: no descriptor is lost, a dial blocks the loop for a bounded     *)
(* time, and a dialled slot starts with the peer's first byte.  The bound   *)
(* needs the time read_full has left: what a dial has spent and what its    *)
(* current read may still spend add up to one budget for each read begun.   *)
(* The last one needs, for each stage, which bytes of the proxy's answer    *)
(* are still to come, in the buffer of read_full or on their way.           *)
(***************************************************************************)
EXTENDS Dial, FiniteSetTheorems, TLAPS

Stages == {"idle", "greet", "gresp", "sresp", "dlen", "drain"}
T == NOX_READ_TIMEOUT_MS

Budget ==
  /\ pc \in Stages
  /\ spent \in Nat /\ left \in Nat
  /\ pc \in {"idle", "greet"} => spent + left = 0
  /\ pc = "gresp" => spent + left <= T
  /\ pc = "sresp" => spent + left <= 2 * T
  /\ pc = "dlen" => spent + left <= 3 * T
  /\ pc = "drain" => spent + left <= 4 * T

Occupied == {i \in Slots : slots[i].kind # "free"}
Fds ==
  /\ DOMAIN slots = Slots
  /\ pc = "idle" => got = << >> /\ want = 0
  /\ fds = Cardinality(Occupied) + (IF pc = "idle" THEN 0 ELSE 1)

LEMMA TimeoutType == T \in Nat
BY DialAssumption DEF T

-----------------------------------------------------------------------------
\* The time a dial may still take.

LEMMA BudgetGiveUp == Budget /\ GiveUp => Budget'
BY DEF Budget, GiveUp, Stages

LEMMA BudgetNext == Budget /\ [Next]_vars => Budget'
<1> SUFFICES ASSUME Budget, [Next]_vars PROVE Budget'
  OBVIOUS
<1> USE TimeoutType
<1>1. CASE connect_cmd
  BY <1>1 DEF connect_cmd, dial, Budget, Stages
<1>2. CASE accept_peer
  BY <1>2 DEF accept_peer, dial, Budget
<1>3. ASSUME NEW i \in Slots, release(i) PROVE Budget'
  BY <1>3 DEF release, dial, Budget
<1>4. CASE greet
  BY <1>4, BudgetGiveUp DEF greet, Await, Budget, Stages, T
<1>5. CASE read_full
  BY <1>5 DEF read_full, Budget
<1>6. CASE read_fails
  BY <1>6, BudgetGiveUp DEF read_fails
<1>7. CASE greeted
  BY <1>7, BudgetGiveUp DEF greeted, Complete, Await, Budget, Stages, T
<1>8. CASE answered
  <2>1. pc = "sresp"
    BY <1>8 DEF answered, Complete
  <2>2. GiveUp \/ Await("dlen", 1) \/ Await("drain", DrainLen(got[4], 0))
    BY <1>8 DEF answered
  <2> QED
    BY SMTT(20), <2>1, <2>2, BudgetGiveUp DEF Await, Budget, Stages, T
<1>9. CASE domain_length
  BY <1>9 DEF domain_length, Complete, Await, Budget, Stages, T
<1>10. CASE connected
  BY <1>10, BudgetGiveUp DEF connected, Budget, Stages
<1>11. CASE Arrive
  BY <1>11 DEF Arrive, Budget
<1>12. CASE Close
  BY <1>12 DEF Close, Budget
<1>13. CASE Tick
  BY SMTT(20), <1>13 DEF Tick, Waiting, Budget
<1>14. CASE UNCHANGED vars
  BY <1>14 DEF vars, Budget
<1> QED
  BY SMTT(20), <1>1, <1>2, <1>3, <1>4, <1>5, <1>6, <1>7, <1>8, <1>9, <1>10, <1>11, <1>12, <1>13, <1>14
     DEF Next, Step

-----------------------------------------------------------------------------
\* The descriptors.

LEMMA OccupiedFinite == IsFiniteSet(Occupied) /\ Cardinality(Occupied) \in Nat
<1>1. NOX_MAX_PEERS \in Int
  BY DialAssumption
<1>2. IsFiniteSet(Slots)
  BY <1>1, FS_Interval DEF Slots
<1>3. Occupied \in SUBSET Slots
  BY DEF Occupied
<1> QED
  BY <1>2, <1>3, FS_Subset, FS_CardinalityType

LEMMA Taken ==
  ASSUME Fds, NEW i \in Slots, FirstFree(i), NEW p, p.kind # "free",
         slots' = [slots EXCEPT ![i] = p]
  PROVE  DOMAIN slots' = Slots /\ Cardinality(Occupied') = Cardinality(Occupied) + 1
<1>1. Occupied' = Occupied \cup {i} /\ i \notin Occupied
  BY DEF Occupied, Fds, FirstFree, FreeSlots
<1>2. Cardinality(Occupied \cup {i}) = Cardinality(Occupied) + 1
  BY <1>1, OccupiedFinite, FS_AddElement
<1> QED
  BY <1>1, <1>2 DEF Fds

LEMMA Released ==
  ASSUME Fds, NEW i \in Slots, slots[i].kind # "free",
         slots' = [slots EXCEPT ![i] = Free]
  PROVE  DOMAIN slots' = Slots /\ Cardinality(Occupied') = Cardinality(Occupied) - 1
<1>1. Occupied' = Occupied \ {i} /\ i \in Occupied
  BY DEF Occupied, Fds, Free
<1>2. Cardinality(Occupied \ {i}) = Cardinality(Occupied) - 1
  BY Zenon, <1>1, OccupiedFinite, FS_RemoveElement
<1> QED
  BY <1>1, <1>2 DEF Fds

\* A step that leaves the slots alone keeps them occupied.
LEMMA SameSlots == UNCHANGED slots => Occupied' = Occupied
BY DEF Occupied

LEMMA FdsGiveUp == Fds /\ pc # "idle" /\ GiveUp => Fds'
BY OccupiedFinite, SameSlots DEF Fds, GiveUp

LEMMA FdsNext == Budget /\ Fds /\ [Next]_vars => Fds'
<1> SUFFICES ASSUME Budget, Fds, [Next]_vars PROVE Fds'
  OBVIOUS
<1> USE OccupiedFinite
<1>1. CASE connect_cmd
  BY <1>1, SameSlots DEF connect_cmd, dial, Fds
<1>2. CASE accept_peer
  <2>1. CASE UNCHANGED <<slots, fds>>
    BY <2>1, <1>2, SameSlots DEF accept_peer, dial, Fds
  <2>2. ASSUME NEW i \in Slots, FirstFree(i),
               slots' = [slots EXCEPT ![i] = [Free EXCEPT !.kind = "in"]],
               fds' = fds + 1, UNCHANGED <<pc, got, want>>
        PROVE  Fds'
    <3>0. [Free EXCEPT !.kind = "in"].kind # "free"
      BY DEF Free
    <3>1. DOMAIN slots' = Slots /\ Cardinality(Occupied') = Cardinality(Occupied) + 1
      BY Zenon, <2>2, <3>0, Taken
    <3> QED
      BY <2>2, <3>1 DEF Fds
  <2>3. UNCHANGED <<pc, got, want>>
    BY <1>2 DEF accept_peer, dial
  <2>4. \/ UNCHANGED <<slots, fds>>
        \/ /\ fds' = fds + 1
           /\ \E i \in Slots :
                /\ FirstFree(i)
                /\ slots' = [slots EXCEPT ![i] = [Free EXCEPT !.kind = "in"]]
    BY <1>2 DEF accept_peer
  <2> QED
    BY <2>1, <2>2, <2>3, <2>4
<1>3. ASSUME NEW i \in Slots, release(i) PROVE Fds'
  <2>1. DOMAIN slots' = Slots /\ Cardinality(Occupied') = Cardinality(Occupied) - 1
    BY Zenon, <1>3, Released DEF release
  <2> QED
    BY <1>3, <2>1 DEF release, dial, Fds
<1>4. CASE greet
  BY <1>4, FdsGiveUp, SameSlots DEF greet, Await, Fds
<1>0. ASSUME Len(got) < want PROVE pc # "idle"
  BY <1>0 DEF Fds
<1>5. CASE read_full
  BY <1>5, <1>0, SameSlots DEF read_full, Fds
<1>6. CASE read_fails
  BY <1>6, <1>0, FdsGiveUp DEF read_fails
<1>7. CASE greeted
  BY <1>7, FdsGiveUp, SameSlots DEF greeted, Complete, Await, Fds
<1>8. CASE answered
  <2>1. pc = "sresp"
    BY <1>8 DEF answered, Complete
  <2>2. GiveUp \/ Await("dlen", 1) \/ Await("drain", DrainLen(got[4], 0))
    BY <1>8 DEF answered
  <2> QED
    BY <2>1, <2>2, FdsGiveUp, SameSlots DEF Await, Fds
<1>9. CASE domain_length
  BY <1>9, SameSlots DEF domain_length, Complete, Await, Fds
<1>10. CASE connected
  <2>1. pc = "drain"
    BY <1>10 DEF connected, Complete
  <2>2. ASSUME NEW i \in Slots, FirstFree(i),
               slots' = [slots EXCEPT ![i] = [kind |-> "out", unread |-> proxy.stream, cut |-> proxy.cut]],
               fds' = fds, pc' = "idle", got' = << >>, want' = 0
        PROVE  Fds'
    <3>1. DOMAIN slots' = Slots /\ Cardinality(Occupied') = Cardinality(Occupied) + 1
      BY Zenon, <2>2, Taken
    <3> QED
      BY <2>1, <2>2, <3>1 DEF Fds
  <2> QED
    BY <1>10, <2>1, <2>2, FdsGiveUp DEF connected
<1>11. CASE Arrive
  BY <1>11, SameSlots DEF Arrive, Fds
<1>12. CASE Close
  BY <1>12, SameSlots DEF Close, Fds
<1>13. CASE Tick
  BY <1>13, SameSlots DEF Tick, Fds
<1>14. CASE UNCHANGED vars
  BY <1>14, SameSlots DEF vars, Fds
<1> QED
  BY SMTT(20), <1>1, <1>2, <1>3, <1>4, <1>5, <1>6, <1>7, <1>8, <1>9, <1>10, <1>11, <1>12, <1>13, <1>14
     DEF Next, Step

-----------------------------------------------------------------------------
\* The bytes of the answer that are still to be used: those in the buffer g of
\* read_full, then those of the stream t.

Avail(g, t) == Len(g) + Len(t)
At(g, t, i) == IF i <= Len(g) THEN g[i] ELSE t[i - Len(g)]

\* They are an answer of the proxy from its byte off + 1 on, to its end unless
\* the stream was cut.
FromAnswer(g, t, off, cut) ==
  \E A \in Answers : /\ Avail(g, t) + off <= Len(A)
                     /\ cut <=> Avail(g, t) + off < Len(A)
                     /\ \A i \in 1..Avail(g, t) : At(g, t, i) = A[i + off]

\* They are n bytes of an answer and the peer's first byte, or, if the stream was
\* cut, their beginning.
ToEnd(g, t, n, cut) ==
  /\ Avail(g, t) <= n + 1
  /\ cut <=> Avail(g, t) < n + 1
  /\ Avail(g, t) = n + 1 => At(g, t, n + 1) = PEER

\* They start with the length of a domain name.
FromLength(g, t, cut) ==
  \E d \in 0..1 : /\ ToEnd(g, t, 1 + d + PortLen, cut)
                  /\ Avail(g, t) >= 1 => At(g, t, 1) = d

BytesTypes ==
  /\ got \in Seq(Nat) /\ want \in Nat
  /\ proxy \in [stream : Seq(Nat), ready : Nat, closed : BOOLEAN, cut : BOOLEAN]
  /\ proxy.ready <= Len(proxy.stream)
  /\ proxy.cut => proxy.closed

Bytes ==
  /\ BytesTypes
  /\ pc = "greet" => got = << >> /\ want = 0 /\ FromAnswer(got, proxy.stream, 0, proxy.cut)
  /\ pc = "gresp" => want = 2 /\ FromAnswer(got, proxy.stream, 0, proxy.cut)
  /\ pc = "sresp" => want = 4 /\ FromAnswer(got, proxy.stream, 2, proxy.cut)
  /\ pc = "dlen" => want = 1 /\ FromLength(got, proxy.stream, proxy.cut)
  /\ pc = "drain" => ToEnd(got, proxy.stream, want, proxy.cut)

\* The bytes of a sequence made of two.
LEMMA Joined ==
  ASSUME NEW g \in Seq(Nat), NEW t \in Seq(Nat)
  PROVE  /\ g \o t \in Seq(Nat) /\ Len(g \o t) = Len(g) + Len(t)
         /\ \A i \in 1..Len(g) + Len(t) :
              (g \o t)[i] = IF i <= Len(g) THEN g[i] ELSE t[i - Len(g)]
BY SMTT(20)

\* Of an answer that reports success, the address type says how long it is; the
\* peer's first byte follows it.
LEMMA AnswerFacts ==
  ASSUME NEW A \in Answers
  PROVE  /\ A \in Seq(Nat)
         /\ Len(A) >= 6 /\ A[4] = 0 =>
              \E d \in 0..1 :
                /\ A[6] = 1 => Len(A) = 6 + (V4Len + PortLen) + 1
                /\ A[6] = 4 => Len(A) = 6 + (V6Len + PortLen) + 1
                /\ A[6] = 3 => Len(A) = 7 + (d + PortLen) + 1 /\ A[7] = d
                /\ A[6] \in 1..4
                /\ A[Len(A)] = PEER
<1>0. V4Len \in Nat /\ V6Len \in Nat /\ PortLen \in Nat
  BY DialAssumption
<1>1. ASSUME NEW n \in Nat PROVE Zeros(n) \in Seq(Nat) /\ Len(Zeros(n)) = n
  BY DEF Zeros
<1>2. ASSUME NEW a \in 1..4, NEW d \in 0..1
      PROVE  /\ Body(a, d) \in Seq(Nat)
             /\ a = 1 => Len(Body(a, d)) = V4Len + PortLen
             /\ a = 4 => Len(Body(a, d)) = V6Len + PortLen
             /\ a = 3 => Len(Body(a, d)) = 1 + d + PortLen /\ Body(a, d)[1] = d
  <2>1. V4Len + PortLen \in Nat /\ V6Len + PortLen \in Nat /\ d + PortLen \in Nat
    BY <1>0
  <2>2. CASE a = 1
    BY <1>1, <2>1, <2>2 DEF Body
  <2>3. CASE a = 2
    BY <2>3 DEF Body
  <2>4. CASE a = 3
    <3>1. Body(a, d) = <<d>> \o Zeros(d + PortLen)
      BY <2>4 DEF Body
    <3>2. Zeros(d + PortLen) \in Seq(Nat) /\ Len(Zeros(d + PortLen)) = d + PortLen
      BY <1>1, <2>1
    <3>3. <<d>> \in Seq(Nat) /\ Len(<<d>>) = 1 /\ <<d>>[1] = d
      OBVIOUS
    <3>4. Body(a, d) \in Seq(Nat) /\ Len(Body(a, d)) = 1 + (d + PortLen) /\ Body(a, d)[1] = d
      <4> DEFINE z == Zeros(d + PortLen)
                 o == <<d>>
                 r == Body(a, d)
      <4>1. o \in Seq(Nat) /\ Len(o) = 1 /\ o[1] = d /\ z \in Seq(Nat) /\ Len(z) = d + PortLen
            /\ r = o \o z
        BY <3>1, <3>2, <3>3
      <4> HIDE DEF z, o, r
      <4>2. /\ r \in Seq(Nat) /\ Len(r) = 1 + (d + PortLen)
            /\ \A i \in 1..1 + (d + PortLen) : r[i] = IF i <= 1 THEN o[i] ELSE z[i - 1]
        <5>1. /\ o \o z \in Seq(Nat) /\ Len(o \o z) = Len(o) + Len(z)
              /\ \A i \in 1..Len(o) + Len(z) :
                   (o \o z)[i] = IF i <= Len(o) THEN o[i] ELSE z[i - Len(o)]
          BY Zenon, <4>1, Joined
        <5> QED BY SMTT(20), <2>1, <4>1, <5>1
      <4>3. 1 \in 1..1 + (d + PortLen) /\ 1 <= 1
        BY <2>1
      <4>4. r[1] = d
        BY <4>1, <4>2, <4>3
      <4> QED BY <4>2, <4>4 DEF r
    <3> QED BY <1>0, <2>4, <3>4
  <2>5. CASE a = 4
    BY <1>1, <2>1, <2>5 DEF Body
  <2> QED BY <2>2, <2>3, <2>4, <2>5
<1>3. CASE A \in {<<4, 0>>, <<5, 255>>}
  <2>1. <<4, 0>> \in Seq(Nat) /\ Len(<<4, 0>>) = 2
    OBVIOUS
  <2>2. <<5, 255>> \in Seq(Nat) /\ Len(<<5, 255>>) = 2
    OBVIOUS
  <2>3. A \in Seq(Nat) /\ Len(A) = 2
    BY ZenonT(40), <1>3, <2>1, <2>2
  <2> QED BY <2>3
<1>4. CASE A = Failure
  <2>1. Body(1, 0) \in Seq(Nat)
    BY <1>2
  <2>2. <<5, 0, 5, 1, 0>> \o <<1>> \in Seq(Nat) /\ Len(<<5, 0, 5, 1, 0>> \o <<1>>) = 6
        /\ (<<5, 0, 5, 1, 0>> \o <<1>>)[4] = 1
    OBVIOUS
  <2>3. A \in Seq(Nat) /\ A[4] = 1
    BY <1>4, <2>1, <2>2 DEF Failure
  <2> QED BY <2>3
<1>5. ASSUME NEW a \in 1..4, NEW d \in 0..1, A = Success(a, d)
      PROVE  /\ A \in Seq(Nat)
             /\ A[6] = a /\ A[Len(A)] = PEER /\ Len(A) = 6 + Len(Body(a, d)) + 1
             /\ a = 3 => A[7] = d
  <2> DEFINE h == <<5, 0, 5, 0, 0, a>>
             m == Body(a, d)
  <2>1. h \in Seq(Nat) /\ Len(h) = 6 /\ h[6] = a
    OBVIOUS
  <2>2. m \in Seq(Nat) /\ (a = 3 => Len(m) >= 1 /\ m[1] = d)
    <3>1. Body(a, d) \in Seq(Nat)
          /\ (a = 3 => Len(Body(a, d)) = 1 + d + PortLen /\ Body(a, d)[1] = d)
      BY SMTT(20), <1>2
    <3>2. 1 + d + PortLen >= 1
      BY <1>0
    <3> QED BY <3>1, <3>2
  <2>3. <<PEER>> \in Seq(Nat) /\ Len(<<PEER>>) = 1 /\ <<PEER>>[1] = PEER
    BY DEF PEER
  <2>4. A = (h \o m) \o <<PEER>>
    BY <1>5 DEF Success
  <2> HIDE DEF h, m
  <2>5. /\ h \o m \in Seq(Nat) /\ Len(h \o m) = 6 + Len(m) /\ (h \o m)[6] = a
        /\ a = 3 => (h \o m)[7] = d
    <3> DEFINE r == h \o m
    <3> HIDE DEF r
    <3>1. /\ r \in Seq(Nat) /\ Len(r) = 6 + Len(m) /\ Len(m) \in Nat
          /\ \A i \in 1..6 + Len(m) : r[i] = IF i <= 6 THEN h[i] ELSE m[i - 6]
      <4>1. /\ h \o m \in Seq(Nat) /\ Len(h \o m) = Len(h) + Len(m)
            /\ \A i \in 1..Len(h) + Len(m) :
                 (h \o m)[i] = IF i <= Len(h) THEN h[i] ELSE m[i - Len(h)]
        BY Zenon, <2>1, <2>2, Joined
      <4> QED BY SMTT(20), <2>1, <2>2, <4>1 DEF r
    <3>2. r[6] = a
      BY <2>1, <3>1
    <3>3. a = 3 => r[7] = m[7 - 6]
      BY <2>2, <3>1
    <3>4. 7 - 6 = 1
      OBVIOUS
    <3> QED BY <2>2, <3>1, <3>2, <3>3, <3>4 DEF r
  <2>6. Len(m) \in Nat
    BY <2>2
  <2> DEFINE q == h \o m
  <2> HIDE DEF q
  <2>7. A = q \o <<PEER>> /\ q \in Seq(Nat) /\ Len(q) = 6 + Len(m) /\ q[6] = a /\ (a = 3 => q[7] = d)
    BY Zenon, <2>4, <2>5 DEF q
  <2>8. A \in Seq(Nat) /\ Len(A) = 6 + Len(m) + 1 /\ A[6] = a /\ A[Len(A)] = PEER
    BY <2>3, <2>6, <2>7
  <2>9. a = 3 => A[7] = d
    BY SMTT(20), <2>2, <2>3, <2>6, <2>7
  <2> QED BY <2>8, <2>9 DEF m
<1>6. ASSUME NEW a \in 1..4, NEW d \in 0..1, A = Success(a, d)
      PROVE  \E e \in 0..1 :
                /\ A[6] = 1 => Len(A) = 6 + (V4Len + PortLen) + 1
                /\ A[6] = 4 => Len(A) = 6 + (V6Len + PortLen) + 1
                /\ A[6] = 3 => Len(A) = 7 + (e + PortLen) + 1 /\ A[7] = e
                /\ A[6] \in 1..4
                /\ A[Len(A)] = PEER
  <2>1. A[6] = a /\ A[Len(A)] = PEER /\ Len(A) = 6 + Len(Body(a, d)) + 1 /\ (a = 3 => A[7] = d)
    BY Zenon, <1>5, <1>6
  <2>2. /\ a = 1 => Len(Body(a, d)) = V4Len + PortLen
        /\ a = 4 => Len(Body(a, d)) = V6Len + PortLen
        /\ a = 3 => Len(Body(a, d)) = 1 + d + PortLen
    BY SMTT(20), <1>2
  <2>3. /\ A[6] = 1 => Len(A) = 6 + (V4Len + PortLen) + 1
        /\ A[6] = 4 => Len(A) = 6 + (V6Len + PortLen) + 1
        /\ A[6] = 3 => Len(A) = 7 + (d + PortLen) + 1
    BY <1>0, <2>1, <2>2
  <2> QED BY <2>1, <2>3
<1>7. \/ A \in {<<4, 0>>, <<5, 255>>}
      \/ A = Failure
      \/ \E a \in 1..4, d \in 0..1 : A = Success(a, d)
  BY DEF Answers
<1> QED BY <1>3, <1>4, <1>5, <1>6, <1>7

\* Bytes that move from the stream to the buffer stay in place.
Shifted(g, t, n, g2, t2) ==
  /\ Len(g) \in Nat /\ Len(t) \in Nat /\ n \in 0..Len(t)
  /\ Len(g2) = Len(g) + n /\ Len(t2) = Len(t) - n
  /\ \A i \in 1..Len(g) + n : g2[i] = IF i <= Len(g) THEN g[i] ELSE t[i - Len(g)]
  /\ \A i \in 1..Len(t2) : t2[i] = t[n + i]

LEMMA Moved ==
  ASSUME NEW g, NEW t, NEW n, NEW g2, NEW t2, Shifted(g, t, n, g2, t2)
  PROVE  /\ Avail(g2, t2) = Avail(g, t)
         /\ \A i \in 1..Avail(g, t) : At(g2, t2, i) = At(g, t, i)
<1>1. Avail(g2, t2) = Avail(g, t)
  BY DEF Avail, Shifted
<1>2. ASSUME NEW i \in 1..Avail(g, t) PROVE At(g2, t2, i) = At(g, t, i)
  <2>1. CASE i <= Len(g)
    BY <2>1 DEF At, Shifted
  <2>2. CASE Len(g) < i /\ i <= Len(g) + n
    <3>1. At(g2, t2, i) = g2[i] /\ At(g, t, i) = t[i - Len(g)]
      BY <2>2 DEF At, Shifted
    <3>2. i \in 1..Len(g) + n /\ ~(i <= Len(g))
      BY <2>2 DEF Shifted
    <3> QED BY <3>1, <3>2 DEF Shifted
  <2>3. CASE Len(g) + n < i
    <3>1. At(g2, t2, i) = t2[i - (Len(g) + n)] /\ At(g, t, i) = t[i - Len(g)]
      BY <2>3 DEF At, Shifted
    <3>2. i - (Len(g) + n) \in 1..Len(t2) /\ n + (i - (Len(g) + n)) = i - Len(g)
      BY <2>3 DEF Avail, Shifted
    <3> QED BY Zenon, <3>1, <3>2 DEF Shifted
  <2> QED BY <2>1, <2>2, <2>3 DEF Avail, Shifted
<1> QED BY <1>1, <1>2

\* What is said of the bytes holds of fewer of them, if the stream has been cut.
LEMMA Fewer ==
  ASSUME NEW g, NEW t, NEW g2, NEW t2, Avail(g, t) \in Nat, Avail(g2, t2) \in 0..Avail(g, t),
         NEW c \in BOOLEAN, NEW c2 \in BOOLEAN, c2 <=> c \/ Avail(g2, t2) < Avail(g, t),
         \A i \in 1..Avail(g2, t2) : At(g2, t2, i) = At(g, t, i)
  PROVE  /\ \A off \in Nat : FromAnswer(g, t, off, c) => FromAnswer(g2, t2, off, c2)
         /\ \A n \in Nat : ToEnd(g, t, n, c) => ToEnd(g2, t2, n, c2)
         /\ FromLength(g, t, c) => FromLength(g2, t2, c2)
<1>0. PortLen \in Nat
  BY DialAssumption
<1>1. ASSUME NEW off \in Nat, FromAnswer(g, t, off, c) PROVE FromAnswer(g2, t2, off, c2)
  <2>1. PICK A \in Answers : /\ Avail(g, t) + off <= Len(A)
                             /\ c <=> Avail(g, t) + off < Len(A)
                             /\ \A i \in 1..Avail(g, t) : At(g, t, i) = A[i + off]
    BY <1>1 DEF FromAnswer
  <2>2. Len(A) \in Nat
    BY AnswerFacts
  <2>3. Avail(g2, t2) + off <= Len(A) /\ (c2 <=> Avail(g2, t2) + off < Len(A))
    BY <2>1, <2>2
  <2>4. \A i \in 1..Avail(g2, t2) : At(g2, t2, i) = A[i + off]
    BY SMTT(20), <2>1
  <2> QED BY <2>3, <2>4 DEF FromAnswer
<1>2. ASSUME NEW n \in Nat, ToEnd(g, t, n, c) PROVE ToEnd(g2, t2, n, c2)
  BY <1>2 DEF ToEnd
<1>3. ASSUME FromLength(g, t, c) PROVE FromLength(g2, t2, c2)
  <2>1. PICK d \in 0..1 : ToEnd(g, t, 1 + d + PortLen, c) /\ (Avail(g, t) >= 1 => At(g, t, 1) = d)
    BY <1>3 DEF FromLength
  <2>2. ToEnd(g2, t2, 1 + d + PortLen, c2)
    BY <1>0, <1>2, <2>1
  <2>3. Avail(g2, t2) >= 1 => At(g2, t2, 1) = d
    BY <2>1
  <2> QED BY <2>2, <2>3 DEF FromLength
<1> QED BY <1>1, <1>2, <1>3

\* A buffer that has been read whole is dropped.
LEMMA Dropped ==
  ASSUME NEW g \in Seq(Nat), NEW t \in Seq(Nat)
  PROVE  /\ Avail(<< >>, t) \in Nat /\ Avail(<< >>, t) + Len(g) = Avail(g, t)
         /\ \A i \in 1..Avail(<< >>, t) : At(<< >>, t, i) = At(g, t, i + Len(g))
         /\ \A i \in 1..Len(g) : At(g, t, i) = g[i]
<1>1. Len(g) \in Nat /\ Len(t) \in Nat
  OBVIOUS
<1> QED BY <1>1 DEF Avail, At

\* A stage that keeps the buffer and the stream keeps what is said of them.
LEMMA BytesKept ==
  ASSUME Bytes, UNCHANGED <<pc, want>>, BytesTypes', pc = "greet" => got' = << >>,
         Avail(got', proxy'.stream) <= Avail(got, proxy.stream),
         proxy'.cut <=> proxy.cut \/ Avail(got', proxy'.stream) < Avail(got, proxy.stream),
         \A i \in 1..Avail(got', proxy'.stream) :
           At(got', proxy'.stream, i) = At(got, proxy.stream, i)
  PROVE  Bytes'
<1> DEFINE g2 == got'
           t2 == proxy'.stream
           t == proxy.stream
           c2 == proxy'.cut
<1>1. got \in Seq(Nat) /\ t \in Seq(Nat) /\ g2 \in Seq(Nat) /\ t2 \in Seq(Nat) /\ want \in Nat
      /\ proxy.cut \in BOOLEAN /\ c2 \in BOOLEAN
  BY DEF Bytes, BytesTypes
<1>2. Avail(got, t) \in Nat /\ Avail(g2, t2) \in 0..Avail(got, t)
  BY SMTT(20), <1>1 DEF Avail
<1>3. /\ \A off \in Nat : FromAnswer(got, t, off, proxy.cut) => FromAnswer(g2, t2, off, c2)
      /\ \A n \in Nat : ToEnd(got, t, n, proxy.cut) => ToEnd(g2, t2, n, c2)
      /\ FromLength(got, t, proxy.cut) => FromLength(g2, t2, c2)
  <2> HIDE DEF g2, t2, t, c2
  <2>1. /\ c2 <=> proxy.cut \/ Avail(g2, t2) < Avail(got, t)
        /\ \A i \in 1..Avail(g2, t2) : At(g2, t2, i) = At(got, t, i)
    BY DEF g2, t2, t, c2
  <2> QED BY <1>1, <1>2, <2>1, Fewer
<1>4. 0 \in Nat /\ 2 \in Nat
  OBVIOUS
<1>5. /\ pc' = "greet" => got' = << >> /\ want' = 0 /\ FromAnswer(got', proxy'.stream, 0, proxy'.cut)
      /\ pc' = "gresp" => want' = 2 /\ FromAnswer(got', proxy'.stream, 0, proxy'.cut)
  BY SMTT(20), <1>3, <1>4 DEF Bytes
<1>6. pc' = "sresp" => want' = 4 /\ FromAnswer(got', proxy'.stream, 2, proxy'.cut)
  BY <1>3, <1>4 DEF Bytes
<1>7. pc' = "dlen" => want' = 1 /\ FromLength(got', proxy'.stream, proxy'.cut)
  BY <1>3 DEF Bytes
<1>8. pc' = "drain" => ToEnd(got', proxy'.stream, want', proxy'.cut)
  BY <1>1, <1>3 DEF Bytes
<1> QED BY <1>5, <1>6, <1>7, <1>8 DEF Bytes

\* Steps that change neither.
LEMMA BytesSame ==
  Bytes /\ UNCHANGED <<pc, got, want, proxy>> => Bytes'
BY DEF Bytes, BytesTypes

\* Back in the loop there is nothing to say.
LEMMA BytesIdle ==
  BytesTypes' /\ pc' = "idle" => Bytes'
BY DEF Bytes

LEMMA NoProxyType ==
  /\ << >> \in Seq(Nat) /\ 0 \in Nat
  /\ NoProxy \in [stream : Seq(Nat), ready : Nat, closed : BOOLEAN, cut : BOOLEAN]
  /\ NoProxy.ready <= Len(NoProxy.stream)
  /\ ~NoProxy.cut
BY DEF NoProxy

LEMMA BytesGiveUp == GiveUp => Bytes'
<1> SUFFICES ASSUME GiveUp PROVE Bytes'
  OBVIOUS
<1>1. pc' = "idle" /\ got' = << >> /\ want' = 0 /\ proxy' = NoProxy
  BY DEF GiveUp
<1>2. BytesTypes'
  BY <1>1, NoProxyType DEF BytesTypes
<1> QED BY <1>1, <1>2, BytesIdle

LEMMA BytesConnect ==
  ASSUME Bytes, Fds, connect_cmd
  PROVE  Bytes'
<1>1. CASE UNCHANGED dial
  BY <1>1, BytesSame DEF dial
<1>2. ASSUME NEW A \in Answers, pc' = "greet", proxy' = [NoProxy EXCEPT !.stream = A],
             UNCHANGED <<got, want>>, got = << >>, want = 0
      PROVE  Bytes'
  <2>1. A \in Seq(Nat) /\ Len(A) \in Nat
    BY AnswerFacts
  <2>2. proxy' = [stream |-> A, ready |-> 0, closed |-> FALSE, cut |-> FALSE]
    BY Zenon, <1>2 DEF NoProxy
  <2>3. proxy'.stream = A /\ proxy'.cut = FALSE
    BY <2>2
  <2>4. BytesTypes'
    <3>1. proxy' \in [stream : Seq(Nat), ready : Nat, closed : BOOLEAN, cut : BOOLEAN]
      BY <2>1, <2>2
    <3>2. proxy'.ready <= Len(proxy'.stream)
      BY <2>1, <2>2
    <3> QED BY SMTT(20), <1>2, <3>1, <3>2, NoProxyType DEF BytesTypes
  <2>5. Avail(<< >>, A) + 0 <= Len(A) /\ ~(Avail(<< >>, A) + 0 < Len(A)) /\ \A i \in 1..Avail(<< >>, A) : At(<< >>, A, i) = A[i + 0]
    BY <2>1 DEF Avail, At
  <2>6. FromAnswer(got', proxy'.stream, 0, proxy'.cut)
    BY <1>2, <2>3, <2>5 DEF FromAnswer
  <2> QED BY <1>2, <2>4, <2>6 DEF Bytes
<1>3. got = << >> /\ want = 0
  BY DEF connect_cmd, Fds
<1> QED BY <1>1, <1>2, <1>3 DEF connect_cmd, dial

\* A stage ends: its bytes have been read, and the next read starts empty.
LEMMA AwaitTypes ==
  ASSUME Bytes, NEW stage, NEW n \in Nat, Await(stage, n)
  PROVE  BytesTypes' /\ pc' = stage /\ got' = << >> /\ want' = n /\ proxy' = proxy
<1>1. pc' = stage /\ got' = << >> /\ want' = n /\ proxy' = proxy
  BY DEF Await
<1> QED BY <1>1, NoProxyType DEF Bytes, BytesTypes

LEMMA BytesGreeted ==
  ASSUME Bytes, greeted
  PROVE  Bytes'
<1>1. CASE Await("sresp", 4)
  <2>1. BytesTypes' /\ pc' = "sresp" /\ got' = << >> /\ want' = 4 /\ proxy' = proxy
    BY <1>1, AwaitTypes
  <2>2. pc = "gresp" /\ Len(got) = 2 /\ FromAnswer(got, proxy.stream, 0, proxy.cut)
        /\ got \in Seq(Nat) /\ proxy.stream \in Seq(Nat)
    BY DEF greeted, Complete, Bytes, BytesTypes
  <2> DEFINE t == proxy.stream
  <2> HIDE DEF t
  <2>3. PICK A \in Answers : /\ Avail(got, t) + 0 <= Len(A)
                             /\ proxy.cut <=> Avail(got, t) + 0 < Len(A)
                             /\ \A i \in 1..Avail(got, t) : At(got, t, i) = A[i + 0]
    BY <2>2 DEF FromAnswer, t
  <2>4. /\ Avail(<< >>, t) \in Nat /\ Avail(<< >>, t) + 2 = Avail(got, t)
        /\ \A i \in 1..Avail(<< >>, t) : At(<< >>, t, i) = At(got, t, i + 2)
    <3>1. /\ Avail(<< >>, t) \in Nat /\ Avail(<< >>, t) + Len(got) = Avail(got, t)
          /\ \A i \in 1..Avail(<< >>, t) : At(<< >>, t, i) = At(got, t, i + Len(got))
          /\ \A i \in 1..Len(got) : At(got, t, i) = got[i]
      BY Zenon, <2>2, Dropped DEF t
    <3> QED BY <2>2, <3>1
  <2>5. Len(A) \in Nat
    BY AnswerFacts
  <2>6. Avail(<< >>, t) + 2 <= Len(A) /\ (proxy.cut <=> Avail(<< >>, t) + 2 < Len(A))
    BY <2>3, <2>4, <2>5
  <2>7. ASSUME NEW i \in 1..Avail(<< >>, t) PROVE At(<< >>, t, i) = A[i + 2]
    <3>1. i + 2 \in 1..Avail(got, t) /\ (i + 2) + 0 = i + 2
      BY <2>4
    <3> QED BY <2>3, <2>4, <3>1
  <2>8. FromAnswer(<< >>, t, 2, proxy.cut)
    BY <2>6, <2>7 DEF FromAnswer
  <2> QED BY <2>1, <2>8 DEF Bytes, t
<1> QED BY <1>1, BytesGiveUp DEF greeted

LEMMA BytesAnswered ==
  ASSUME Bytes, answered
  PROVE  Bytes'
<1>0. V4Len \in Nat /\ V6Len \in Nat /\ PortLen \in Nat
  BY DialAssumption
<1>1. CASE GiveUp
  BY <1>1, BytesGiveUp
<1>2. CASE ~GiveUp
  <2>1. pc = "sresp" /\ Len(got) = 4 /\ FromAnswer(got, proxy.stream, 2, proxy.cut)
        /\ got \in Seq(Nat) /\ proxy.stream \in Seq(Nat)
    BY DEF answered, Complete, Bytes, BytesTypes
  <2>2. got[2] = 0
    BY <1>2 DEF answered
  <2>3. \/ got[4] = 3 /\ Await("dlen", 1)
        \/ got[4] # 3 /\ DrainLen(got[4], 0) > 0 /\ Await("drain", DrainLen(got[4], 0))
    BY <1>2 DEF answered
  <2> DEFINE t == proxy.stream
  <2> HIDE DEF t
  <2>4. PICK A \in Answers : /\ Avail(got, t) + 2 <= Len(A)
                             /\ proxy.cut <=> Avail(got, t) + 2 < Len(A)
                             /\ \A i \in 1..Avail(got, t) : At(got, t, i) = A[i + 2]
    BY <2>1 DEF FromAnswer, t
  <2>5. /\ Avail(<< >>, t) \in Nat /\ Avail(<< >>, t) + 4 = Avail(got, t)
        /\ \A i \in 1..Avail(<< >>, t) : At(<< >>, t, i) = At(got, t, i + 4)
        /\ \A i \in 1..4 : At(got, t, i) = got[i]
    <3>1. /\ Avail(<< >>, t) \in Nat /\ Avail(<< >>, t) + Len(got) = Avail(got, t)
          /\ \A i \in 1..Avail(<< >>, t) : At(<< >>, t, i) = At(got, t, i + Len(got))
          /\ \A i \in 1..Len(got) : At(got, t, i) = got[i]
      BY Zenon, <2>1, Dropped DEF t
    <3> QED BY <2>1, <3>1
  <2>6. Len(A) \in Nat
    BY AnswerFacts
  <2>7. Avail(<< >>, t) + 6 <= Len(A) /\ A[4] = 0 /\ A[6] = got[4]
        /\ (proxy.cut <=> Avail(<< >>, t) + 6 < Len(A))
    <3>1. 2 \in 1..Avail(got, t) /\ 4 \in 1..Avail(got, t)
      BY <2>5
    <3>2. At(got, t, 2) = A[4] /\ At(got, t, 4) = A[6]
      <4>1. At(got, t, 2) = A[2 + 2] /\ At(got, t, 4) = A[4 + 2]
        BY <2>4, <3>1
      <4> QED BY <4>1
    <3> QED BY SMTT(20), <2>2, <2>4, <2>5, <2>6, <3>2
  <2>8. ASSUME NEW i \in 1..Avail(<< >>, t) PROVE At(<< >>, t, i) = A[i + 6]
    <3>1. i + 4 \in 1..Avail(got, t) /\ (i + 4) + 2 = i + 6
      BY <2>5
    <3> QED BY <2>4, <2>5, <3>1
  <2>9. PICK d \in 0..1 :
          /\ A[6] = 1 => Len(A) = 6 + (V4Len + PortLen) + 1
          /\ A[6] = 4 => Len(A) = 6 + (V6Len + PortLen) + 1
          /\ A[6] = 3 => Len(A) = 7 + (d + PortLen) + 1 /\ A[7] = d
          /\ A[6] \in 1..4
          /\ A[Len(A)] = PEER
    <3>1. Len(A) >= 6 /\ A[4] = 0
      BY SMTT(20), <2>5, <2>6, <2>7
    <3> QED BY SMTT(20), <3>1, AnswerFacts
  <2>10. CASE got[4] = 3 /\ Await("dlen", 1)
    <3>1. BytesTypes' /\ pc' = "dlen" /\ got' = << >> /\ want' = 1 /\ proxy' = proxy
      BY <2>10, AwaitTypes
    <3>2. ToEnd(<< >>, t, 1 + d + PortLen, proxy.cut)
      <4>1. /\ Avail(<< >>, t) <= (1 + d + PortLen) + 1
            /\ proxy.cut <=> Avail(<< >>, t) < (1 + d + PortLen) + 1
        BY SMTT(20), <1>0, <2>5, <2>6, <2>7, <2>9, <2>10
      <4>2. Avail(<< >>, t) = (1 + d + PortLen) + 1 => At(<< >>, t, (1 + d + PortLen) + 1) = PEER
        <5> SUFFICES ASSUME Avail(<< >>, t) = (1 + d + PortLen) + 1
                     PROVE  At(<< >>, t, (1 + d + PortLen) + 1) = PEER
          OBVIOUS
        <5>1. (1 + d + PortLen) + 1 \in 1..Avail(<< >>, t)
              /\ ((1 + d + PortLen) + 1) + 6 = Len(A)
          BY SMTT(20), <1>0, <2>7, <2>9, <2>10
        <5> QED BY SMTT(20), <2>8, <2>9, <5>1
      <4> QED BY SMTT(20), <4>1, <4>2 DEF ToEnd
    <3>3. Avail(<< >>, t) >= 1 => At(<< >>, t, 1) = d
      <4>1. Avail(<< >>, t) >= 1 => At(<< >>, t, 1) = A[1 + 6]
        BY SMTT(20), <2>5, <2>8
      <4> QED BY SMTT(20), <2>7, <2>9, <2>10, <4>1
    <3>4. FromLength(<< >>, t, proxy.cut)
      BY SMTT(20), <3>2, <3>3 DEF FromLength
    <3> QED BY <3>1, <3>4 DEF Bytes, t
  <2>11. CASE got[4] # 3 /\ DrainLen(got[4], 0) > 0 /\ Await("drain", DrainLen(got[4], 0))
    <3> DEFINE n == DrainLen(got[4], 0)
    <3>1. n \in Nat /\ Len(A) = 6 + n + 1
      <4>1. got[4] \in {1, 2, 4}
        BY <2>7, <2>9, <2>11
      <4>2. CASE got[4] = 1
        BY <1>0, <2>7, <2>9, <4>2 DEF DrainLen
      <4>3. CASE got[4] = 4
        BY SMTT(20), <1>0, <2>7, <2>9, <4>3 DEF DrainLen
      <4>4. CASE got[4] = 2
        BY <2>11, <4>4 DEF DrainLen
      <4> QED BY SMTT(20), <4>1, <4>2, <4>3, <4>4
    <3>2. Await("drain", n)
      BY <2>11
    <3> HIDE DEF n
    <3>3. BytesTypes' /\ pc' = "drain" /\ got' = << >> /\ want' = n /\ proxy' = proxy
      BY <3>1, <3>2, AwaitTypes
    <3>4. ToEnd(<< >>, t, n, proxy.cut)
      <4>1. Avail(<< >>, t) <= n + 1 /\ (proxy.cut <=> Avail(<< >>, t) < n + 1)
        BY SMTT(20), <2>5, <2>7, <3>1
      <4>2. Avail(<< >>, t) = n + 1 => At(<< >>, t, n + 1) = PEER
        <5> SUFFICES ASSUME Avail(<< >>, t) = n + 1 PROVE At(<< >>, t, n + 1) = PEER
          OBVIOUS
        <5>1. n + 1 \in 1..Avail(<< >>, t) /\ (n + 1) + 6 = Len(A)
          BY SMTT(20), <3>1
        <5> QED BY <2>8, <2>9, <5>1
      <4> QED BY <4>1, <4>2 DEF ToEnd
    <3> QED BY SMTT(20), <3>3, <3>4 DEF Bytes, t
  <2> QED BY SMTT(20), <2>3, <2>10, <2>11
<1> QED BY <1>1, <1>2

LEMMA BytesDomain ==
  ASSUME Bytes, domain_length
  PROVE  Bytes'
<1>0. PortLen \in Nat
  BY DialAssumption
<1>1. pc = "dlen" /\ Len(got) = 1 /\ FromLength(got, proxy.stream, proxy.cut)
      /\ got \in Seq(Nat) /\ proxy.stream \in Seq(Nat)
  BY DEF domain_length, Complete, Bytes, BytesTypes
<1> DEFINE t == proxy.stream
<1> HIDE DEF t
<1>2. PICK d \in 0..1 : ToEnd(got, t, 1 + d + PortLen, proxy.cut) /\ (Avail(got, t) >= 1 => At(got, t, 1) = d)
  BY <1>1 DEF FromLength, t
<1>3. /\ Avail(<< >>, t) \in Nat /\ Avail(<< >>, t) + 1 = Avail(got, t)
      /\ \A i \in 1..Avail(<< >>, t) : At(<< >>, t, i) = At(got, t, i + 1)
      /\ At(got, t, 1) = got[1]
  <2>1. /\ Avail(<< >>, t) \in Nat /\ Avail(<< >>, t) + Len(got) = Avail(got, t)
        /\ \A i \in 1..Avail(<< >>, t) : At(<< >>, t, i) = At(got, t, i + Len(got))
        /\ \A i \in 1..Len(got) : At(got, t, i) = got[i]
    BY Zenon, <1>1, Dropped DEF t
  <2> QED BY <1>1, <2>1
<1>4. got[1] = d
  BY <1>2, <1>3
<1>5. DrainLen(3, got[1]) = d + PortLen /\ d + PortLen \in Nat
  BY <1>0, <1>4 DEF DrainLen
<1>6. BytesTypes' /\ pc' = "drain" /\ got' = << >> /\ want' = d + PortLen /\ proxy' = proxy
  BY SMTT(20), <1>5, AwaitTypes DEF domain_length
<1>7. ToEnd(<< >>, t, d + PortLen, proxy.cut)
  <2>1. /\ Avail(<< >>, t) <= (d + PortLen) + 1
        /\ proxy.cut <=> Avail(<< >>, t) < (d + PortLen) + 1
    BY SMTT(20), <1>0, <1>2, <1>3 DEF ToEnd
  <2>2. Avail(<< >>, t) = (d + PortLen) + 1 => At(<< >>, t, (d + PortLen) + 1) = PEER
    <3> SUFFICES ASSUME Avail(<< >>, t) = (d + PortLen) + 1
                 PROVE  At(<< >>, t, (d + PortLen) + 1) = PEER
      OBVIOUS
    <3>1. /\ (d + PortLen) + 1 \in 1..Avail(<< >>, t)
          /\ ((d + PortLen) + 1) + 1 = (1 + d + PortLen) + 1
          /\ Avail(got, t) = (1 + d + PortLen) + 1
      BY SMTT(20), <1>0, <1>3
    <3>2. At(got, t, (1 + d + PortLen) + 1) = PEER
      BY SMTT(20), <1>2, <3>1 DEF ToEnd
    <3> QED BY SMTT(20), <1>3, <3>1, <3>2
  <2> QED BY SMTT(20), <2>1, <2>2 DEF ToEnd
<1> QED BY <1>6, <1>7 DEF Bytes, t

LEMMA BytesRead ==
  ASSUME Bytes, Fds, read_full
  PROVE  Bytes'
<1> DEFINE n == IF proxy.ready < want - Len(got) THEN proxy.ready ELSE want - Len(got)
           t == proxy.stream
<1>1. got \in Seq(Nat) /\ t \in Seq(Nat) /\ want \in Nat /\ proxy.ready \in 0..Len(t)
      /\ proxy.closed \in BOOLEAN /\ proxy.cut \in BOOLEAN /\ Len(got) \in Nat /\ Len(t) \in Nat
      /\ proxy = [stream |-> t, ready |-> proxy.ready, closed |-> proxy.closed, cut |-> proxy.cut]
  BY DEF Bytes, BytesTypes
<1>2. n \in 0..Len(t) /\ n <= proxy.ready /\ n > 0
  BY SMTT(20), <1>1 DEF read_full
<1>3. got' = got \o SubSeq(t, 1, n) /\ pc' = pc /\ want' = want
  BY DEF read_full
<1>4. proxy' = [proxy EXCEPT !.stream = SubSeq(@, n + 1, Len(@)), !.ready = @ - n]
  BY DEF read_full
<1> HIDE DEF n
<1>5. proxy'.stream = SubSeq(t, n + 1, Len(t)) /\ proxy'.ready = proxy.ready - n
      /\ proxy' = [stream |-> proxy'.stream, ready |-> proxy'.ready, closed |-> proxy.closed,
                   cut |-> proxy.cut]
      /\ proxy'.cut = proxy.cut
  BY Zenon, <1>1, <1>4
<1> HIDE DEF t
<1>6. /\ got' \in Seq(Nat) /\ proxy'.stream \in Seq(Nat) /\ Len(proxy'.stream) = Len(t) - n
      /\ Avail(got', proxy'.stream) = Avail(got, t)
      /\ \A i \in 1..Avail(got, t) : At(got', proxy'.stream, i) = At(got, t, i)
  <2>1. got \in Seq(Nat) /\ t \in Seq(Nat) /\ n \in 0..Len(t)
        /\ got' = got \o SubSeq(t, 1, n) /\ proxy'.stream = SubSeq(t, n + 1, Len(t))
        /\ Len(got) \in Nat /\ Len(t) \in Nat
    BY SMTT(20), <1>1, <1>2, <1>3, <1>5
  <2> DEFINE p == SubSeq(t, 1, n)
             t2 == proxy'.stream
  <2>2. p \in Seq(Nat) /\ Len(p) = n /\ \A i \in 1..n : p[i] = t[i]
    BY SMTT(20), <2>1
  <2>3. t2 \in Seq(Nat) /\ Len(t2) = Len(t) - n /\ \A i \in 1..Len(t2) : t2[i] = t[n + i]
    BY SMTT(20), <2>1
  <2>4. got' = got \o p
    BY <2>1
  <2> HIDE DEF p, t2
  <2>5. /\ got' \in Seq(Nat) /\ Len(got') = Len(got) + n
        /\ \A i \in 1..Len(got) + n : got'[i] = IF i <= Len(got) THEN got[i] ELSE p[i - Len(got)]
    <3>1. /\ got \o p \in Seq(Nat) /\ Len(got \o p) = Len(got) + Len(p)
          /\ \A i \in 1..Len(got) + Len(p) :
               (got \o p)[i] = IF i <= Len(got) THEN got[i] ELSE p[i - Len(got)]
      BY Zenon, <2>1, <2>2, Joined
    <3> QED BY <2>2, <2>4, <3>1
  <2>6. ASSUME NEW i \in 1..Len(got) + n
        PROVE  got'[i] = IF i <= Len(got) THEN got[i] ELSE t[i - Len(got)]
    <3>1. CASE i <= Len(got)
      BY <2>5, <3>1
    <3>2. CASE ~(i <= Len(got))
      <4>1. i - Len(got) \in 1..n
        BY <2>1, <3>2
      <4> QED BY SMTT(20), <2>2, <2>5, <3>2, <4>1
    <3> QED BY <3>1, <3>2
  <2>7. Shifted(got, t, n, got', t2)
    BY SMTT(20), <2>1, <2>3, <2>5, <2>6 DEF Shifted
  <2> QED BY SMTT(20), <2>3, <2>5, <2>7, Moved DEF t2
<1>7. BytesTypes'
  <2>1. proxy'.ready \in Nat /\ proxy'.ready <= Len(proxy'.stream)
    <3> DEFINE m == proxy.ready
               l == Len(t)
    <3>1. proxy'.ready = m - n /\ Len(proxy'.stream) = l - n
      BY <1>5, <1>6
    <3>2. m \in Nat /\ l \in Nat /\ m <= l /\ n \in Nat /\ n <= m
      BY SMTT(20), <1>1, <1>2
    <3> HIDE DEF m, l
    <3> QED BY SMTT(20), <3>1, <3>2
  <2>2. proxy' \in [stream : Seq(Nat), ready : Nat, closed : BOOLEAN, cut : BOOLEAN]
    <3> DEFINE t2 == proxy'.stream
               m == proxy'.ready
               c == proxy.closed
               x == proxy.cut
    <3>1. proxy' = [stream |-> t2, ready |-> m, closed |-> c, cut |-> x]
      BY <1>5
    <3>2. t2 \in Seq(Nat) /\ m \in Nat /\ c \in BOOLEAN /\ x \in BOOLEAN
      BY SMTT(20), <1>1, <1>6, <2>1
    <3> HIDE DEF t2, m, c, x
    <3> QED BY <3>1, <3>2
  <2>3. proxy'.cut => proxy'.closed
    BY <1>5 DEF Bytes, BytesTypes
  <2> QED BY <1>1, <1>3, <1>6, <2>1, <2>2, <2>3 DEF BytesTypes
<1>8. pc # "greet"
  <2>1. Len(got) < want
    BY DEF read_full
  <2>2. Len(<< >>) = 0 /\ ~(0 < 0)
    OBVIOUS
  <2> QED BY SMTT(20), <2>1, <2>2 DEF Bytes
<1>9. Avail(got, t) \in Nat /\ ~(Avail(got, t) < Avail(got, t))
  BY <1>1 DEF Avail
<1> QED BY SMTT(20), <1>3, <1>5, <1>6, <1>7, <1>8, <1>9, BytesKept DEF t


\* The proxy's own steps: more of the stream has arrived, or it ends there.
LEMMA BytesProxy ==
  ASSUME Bytes, Arrive \/ Close
  PROVE  Bytes'
<1> DEFINE t == proxy.stream
<1>1. got \in Seq(Nat) /\ t \in Seq(Nat) /\ want \in Nat /\ proxy.ready \in 0..Len(t)
      /\ proxy.closed \in BOOLEAN /\ proxy.cut \in BOOLEAN /\ Len(got) \in Nat /\ Len(t) \in Nat
      /\ proxy = [stream |-> t, ready |-> proxy.ready, closed |-> proxy.closed, cut |-> proxy.cut]
  BY DEF Bytes, BytesTypes
<1>2. pc' = pc /\ got' = got /\ want' = want /\ pc # "greet"
  BY SMTT(20) DEF Arrive, Close
<1>3. ASSUME NEW n \in (proxy.ready + 1)..Len(t), proxy' = [proxy EXCEPT !.ready = n]
      PROVE  Bytes'
  <2>1. proxy' = [stream |-> t, ready |-> n, closed |-> proxy.closed, cut |-> proxy.cut]
    <3> DEFINE m == proxy.ready
               c == proxy.closed
               x == proxy.cut
    <3>1. proxy = [stream |-> t, ready |-> m, closed |-> c, cut |-> x]
      BY <1>1
    <3>2. proxy' = [proxy EXCEPT !.ready = n]
      BY <1>3
    <3> HIDE DEF t, m, c, x
    <3>3. proxy' = [stream |-> t, ready |-> n, closed |-> c, cut |-> x]
      BY SMTT(20), <3>1, <3>2
    <3> QED BY <3>3 DEF c, x
  <2>2. proxy'.stream = t /\ proxy'.cut = proxy.cut /\ n \in Nat /\ n <= Len(t)
    BY <1>1, <2>1
  <2>3. BytesTypes'
    <3>1. proxy.cut => proxy.closed
      BY DEF Bytes, BytesTypes
    <3> HIDE DEF t
    <3> QED BY SMTT(20), <1>1, <1>2, <2>1, <2>2, <3>1 DEF BytesTypes
  <2> HIDE DEF t
  <2>4. Avail(got, t) <= Avail(got, t) /\ ~(Avail(got, t) < Avail(got, t))
    BY <1>1 DEF Avail
  <2> QED BY <1>2, <2>2, <2>3, <2>4, BytesKept DEF t
<1>4. ASSUME proxy' = [proxy EXCEPT !.closed = TRUE, !.cut = proxy.ready < Len(proxy.stream),
                                    !.stream = SubSeq(@, 1, proxy.ready)],
             proxy.cut => proxy.closed, ~proxy.closed
      PROVE  Bytes'
  <2> DEFINE t2 == SubSeq(t, 1, proxy.ready)
             x == proxy.ready < Len(t)
  <2>1. proxy' = [stream |-> t2, ready |-> proxy.ready, closed |-> TRUE, cut |-> x]
    <3>1. proxy' = [proxy EXCEPT !.closed = TRUE, !.cut = x, !.stream = t2]
      BY SMTT(20), <1>4
    <3>2. proxy = [stream |-> t, ready |-> proxy.ready, closed |-> proxy.closed, cut |-> proxy.cut]
      BY <1>1
    <3> HIDE DEF t2, t, x
    <3> QED BY Zenon, <3>1, <3>2
  <2>2. t2 \in Seq(Nat) /\ Len(t2) = proxy.ready /\ \A i \in 1..proxy.ready : t2[i] = t[i]
    BY SMTT(20), <1>1
  <2> HIDE DEF t, t2
  <2>3. proxy'.stream = t2 /\ (proxy'.cut <=> proxy.ready < Len(t))
    BY <1>1, <2>1
  <2>4. BytesTypes'
    BY <1>1, <1>2, <2>1, <2>2 DEF BytesTypes
  <2>5. Avail(got, t2) <= Avail(got, t) /\ (proxy'.cut <=> Avail(got, t2) < Avail(got, t))
    BY <1>1, <2>2, <2>3 DEF Avail
  <2>6. ASSUME NEW i \in 1..Avail(got, t2) PROVE At(got, t2, i) = At(got, t, i)
    <3>1. CASE i <= Len(got)
      BY <3>1 DEF At
    <3>2. CASE ~(i <= Len(got))
      <4>1. i - Len(got) \in 1..proxy.ready
        BY SMTT(20), <1>1, <2>2, <3>2 DEF Avail
      <4> QED BY <2>2, <3>2, <4>1 DEF At
    <3> QED BY SMTT(20), <3>1, <3>2
  <2>7. proxy'.cut <=> proxy.cut \/ Avail(got', proxy'.stream) < Avail(got, t)
    BY <1>2, <1>4, <2>3, <2>5
  <2> QED BY SMTT(20), <1>2, <2>3, <2>4, <2>5, <2>6, <2>7, BytesKept DEF t
<1> QED BY SMTT(20), <1>3, <1>4 DEF Arrive, Close, Bytes, BytesTypes

LEMMA BytesNext == Fds /\ Bytes /\ [Next]_vars => Bytes'
<1> SUFFICES ASSUME Fds, Bytes, [Next]_vars PROVE Bytes'
  OBVIOUS
<1>1. CASE connect_cmd \/ read_full
  BY <1>1, BytesConnect, BytesRead
<1>2. CASE accept_peer \/ Tick \/ UNCHANGED vars
  BY <1>2, BytesSame DEF accept_peer, dial, Tick, vars
<1>3. ASSUME NEW i \in Slots, release(i) PROVE Bytes'
  BY <1>3, BytesSame DEF release, dial
<1>4. CASE greet
  <2>1. CASE Await("gresp", 2)
    <3>1. BytesTypes' /\ pc' = "gresp" /\ got' = << >> /\ want' = 2 /\ proxy' = proxy
      BY <2>1, AwaitTypes
    <3>2. got = << >> /\ FromAnswer(got, proxy.stream, 0, proxy.cut)
      BY <1>4 DEF greet, Bytes
    <3> QED BY <3>1, <3>2 DEF Bytes
  <2> QED BY SMTT(20), <1>4, <2>1, BytesGiveUp DEF greet
<1>5. CASE read_fails
  BY <1>5, BytesGiveUp DEF read_fails
<1>6. CASE greeted \/ answered \/ domain_length
  BY SMTT(20), <1>6, BytesGreeted, BytesAnswered, BytesDomain
<1>7. CASE connected
  <2>1. CASE pc' = "idle" /\ got' = << >> /\ want' = 0 /\ proxy' = NoProxy
    BY <2>1, NoProxyType, BytesIdle DEF BytesTypes
  <2> QED BY <1>7, <2>1, BytesGiveUp DEF connected
<1>8. CASE Arrive \/ Close
  BY <1>8, BytesProxy
<1> QED
  BY <1>1, <1>2, <1>3, <1>4, <1>5, <1>6, <1>7, <1>8 DEF Next, Step

\* Nothing, or the peer's first byte.
LEMMA ShortStream ==
  ASSUME NEW t \in Seq(Nat), NEW c \in BOOLEAN, Len(t) <= 1, Len(t) = 1 => t[1] = PEER,
         c <=> Len(t) < 1
  PROVE  t = IF c THEN << >> ELSE <<PEER>>
<1> DEFINE n == Len(t)
<1>1. n \in Nat /\ n = Len(t) /\ n <= 1 /\ (n = 1 => t[1] = PEER)
  OBVIOUS
<1> HIDE DEF n
<1>2. n = 0 \/ n = 1
  BY <1>1
<1>3. CASE n = 0
  <2>1. Len(t) < 1
    BY <1>1, <1>3
  <2> QED BY <2>1
<1>4. CASE n = 1
  <2>1. 1 = Len(t)
    BY <1>1, <1>4
  <2>2. t[1] = 80
    BY <1>1, <1>4 DEF PEER
  <2>3. t = <<80>>
    BY <2>1, <2>2
  <2> QED BY <2>3 DEF PEER
<1> QED BY <1>2, <1>3, <1>4

\* A slot is given the stream only when the answer has been read.
LEMMA CleanNext == Fds /\ Bytes /\ HandedOverClean /\ [Next]_vars => HandedOverClean'
<1> SUFFICES ASSUME Fds, Bytes, HandedOverClean, [Next]_vars PROVE HandedOverClean'
  OBVIOUS
<1>1. CASE UNCHANGED slots
  BY <1>1 DEF HandedOverClean
<1>2. ASSUME NEW i \in Slots, NEW p, slots' = [slots EXCEPT ![i] = p],
             p.kind = "out" => p.unread = IF p.cut THEN << >> ELSE <<PEER>>
      PROVE  HandedOverClean'
  BY <1>2 DEF HandedOverClean, Fds
<1>3. CASE accept_peer
  <2>1. [Free EXCEPT !.kind = "in"].kind # "out"
    BY DEF Free
  <2> QED BY Zenon, <1>1, <1>2, <1>3, <2>1 DEF accept_peer
<1>4. ASSUME NEW i \in Slots, release(i) PROVE HandedOverClean'
  <2>1. Free.kind # "out"
    BY DEF Free
  <2> QED BY Zenon, <1>2, <1>4, <2>1 DEF release
<1>5. CASE connected
  <2>1. proxy.stream = IF proxy.cut THEN << >> ELSE <<PEER>>
    <3>1. ToEnd(got, proxy.stream, want, proxy.cut) /\ Len(got) = want /\ want \in Nat
          /\ proxy.cut \in BOOLEAN /\ proxy.stream \in Seq(Nat)
      BY <1>5 DEF connected, Complete, Bytes, BytesTypes
    <3> DEFINE t == proxy.stream
    <3> HIDE DEF t
    <3>2. t \in Seq(Nat) /\ Len(t) \in Nat
      BY SMTT(20), <3>1 DEF t
    <3>3. Len(t) <= 1 /\ (Len(t) = 1 => t[1] = PEER) /\ (proxy.cut <=> Len(t) < 1)
      <4>1. ToEnd(got, t, want, proxy.cut)
        BY <3>1 DEF t
      <4>2. Avail(got, t) = want + Len(t) /\ ~(want + 1 <= Len(got)) /\ (want + 1) - Len(got) = 1
        BY <3>1, <3>2 DEF Avail
      <4>3. At(got, t, want + 1) = t[1]
        BY <4>2 DEF At
      <4> QED BY SMTT(20), <3>1, <3>2, <4>1, <4>2, <4>3 DEF ToEnd
    <3> QED BY SMTT(20), <3>1, <3>2, <3>3, ShortStream DEF t
  <2>2. CASE GiveUp
    BY <1>1, <2>2 DEF GiveUp
  <2>3. /\ [kind |-> "out", unread |-> proxy.stream, cut |-> proxy.cut].unread = proxy.stream
        /\ [kind |-> "out", unread |-> proxy.stream, cut |-> proxy.cut].cut = proxy.cut
    OBVIOUS
  <2> QED BY Zenon, <1>2, <1>5, <2>1, <2>2, <2>3 DEF connected
<1>6. CASE connect_cmd \/ Tick \/ Arrive \/ Close \/ UNCHANGED vars
  BY <1>1, <1>6 DEF connect_cmd, Tick, Arrive, Close, vars
<1>7. CASE greet \/ read_full \/ read_fails \/ greeted
  BY SMTT(20), <1>1, <1>7 DEF greet, read_full, read_fails, greeted, GiveUp, Await
<1>8. CASE answered
  BY <1>1, <1>8 DEF answered, GiveUp, Await
<1>9. CASE domain_length
  BY <1>1, <1>9 DEF domain_length, Await
<1> QED
  BY SMTT(20), <1>3, <1>4, <1>5, <1>6, <1>7, <1>8, <1>9 DEF Next, Step

-----------------------------------------------------------------------------
\* The window of one direction: the latest handshakes, as many as it counts, are
\* those younger than the window; before them at most one full window of others
\* is young.  A window that is over has seen every young handshake, and none in
\* the present tick.
Window0 == Window \in Nat \ {0} /\ Limit \in Nat \ {0}
Charged(r, ages) ==
  /\ r \in [since : 0..Window, count : 0..Limit]
  /\ ages \in [Latest -> 0..Window]
  /\ r.since < Window =>
       \A k \in Latest : /\ ages[k] <= r.since <=> k <= r.count
                         /\ k > r.count + Limit => ages[k] = Window
  /\ r.since = Window =>
       \A k \in Latest : /\ ages[k] >= 1
                         /\ k > Limit => ages[k] = Window

Rates ==
  /\ rate \in [Directions -> [since : 0..Window, count : 0..Limit]]
  /\ recent \in [Directions -> [Latest -> 0..Window]]
  /\ \A d \in Directions : Charged(rate[d], recent[d])

LEMMA RateTypes == Window0
BY SMTT(20), DialAssumption DEF Window0

LEMMA RollCharged ==
  ASSUME NEW r, NEW ages, Charged(r, ages)
  PROVE  Charged(Rolled(r), ages) /\ Rolled(r).since < Window
BY RateTypes DEF Window0, Charged, Rolled, Latest

LEMMA CountCharged ==
  ASSUME NEW r, NEW ages, Charged(r, ages), r.since < Window, ~Spent(r)
  PROVE  Charged([r EXCEPT !.count = @ + 1], [k \in Latest |-> IF k = 1 THEN 0 ELSE ages[k - 1]])
BY SMTT(20), RateTypes DEF Window0, Charged, Spent, Latest

LEMMA TickCharged ==
  ASSUME NEW r, NEW ages, Charged(r, ages)
  PROVE  Charged([r EXCEPT !.since = Older(@)], [k \in Latest |-> Older(ages[k])])
BY SMTT(20), RateTypes DEF Window0, Charged, Older, Latest

LEMMA RatesSame == Rates /\ UNCHANGED <<rate, recent>> => Rates'
BY SMTT(20) DEF Rates

LEMMA RatesRolled ==
  ASSUME Rates, NEW d \in Directions,
         rate' = [rate EXCEPT ![d] = Rolled(rate[d])], UNCHANGED recent
  PROVE  Rates'
<1>1. Charged(Rolled(rate[d]), recent[d])
  BY SMTT(20), RollCharged DEF Rates
<1> QED
  BY <1>1 DEF Rates, Charged

LEMMA RatesCounted ==
  ASSUME Rates, NEW d \in Directions, ~Spent(Rolled(rate[d])), Counted(d, Rolled(rate[d]))
  PROVE  Rates'
<1> DEFINE r == [Rolled(rate[d]) EXCEPT !.count = @ + 1]
           ages == [k \in Latest |-> IF k = 1 THEN 0 ELSE recent[d][k - 1]]
<1>1. Charged(r, ages)
  BY Zenon, RollCharged, CountCharged DEF Rates
<1>2. rate' = [rate EXCEPT ![d] = r] /\ recent' = [recent EXCEPT ![d] = ages]
  BY DEF Counted
<1> HIDE DEF r, ages
<1> QED
  BY <1>1, <1>2 DEF Rates, Charged

LEMMA RatesTick == Rates /\ Tick => Rates'
<1> SUFFICES ASSUME Rates, Tick PROVE Rates'
  OBVIOUS
<1>1. ASSUME NEW d \in Directions PROVE Charged(rate'[d], recent'[d])
  <2>1. Charged([rate[d] EXCEPT !.since = Older(@)], [k \in Latest |-> Older(recent[d][k])])
    BY TickCharged DEF Rates
  <2> QED
    BY <2>1 DEF Tick
<1>2. /\ rate' = [d \in Directions |-> rate'[d]]
      /\ recent' = [d \in Directions |-> recent'[d]]
  BY DEF Tick
<1> QED
  BY <1>1, <1>2 DEF Rates, Charged

LEMMA RatesNext == Rates /\ [Next]_vars => Rates'
<1> SUFFICES ASSUME Rates, [Next]_vars PROVE Rates'
  OBVIOUS
<1>1. CASE connect_cmd
  <2>1. CASE Counted("out", Rolled(rate["out"])) /\ ~Spent(Rolled(rate["out"]))
    BY <2>1, RatesCounted DEF Directions
  <2>2. CASE rate' = [rate EXCEPT !["out"] = Rolled(rate["out"])] /\ UNCHANGED recent
    BY SMTT(20), <2>2, RatesRolled DEF Directions
  <2> QED
    BY <1>1, <2>1, <2>2 DEF connect_cmd
<1>2. CASE accept_peer
  <2>1. CASE Counted("in", Rolled(rate["in"])) /\ ~Spent(Rolled(rate["in"]))
    BY <2>1, RatesCounted DEF Directions
  <2>2. CASE rate' = [rate EXCEPT !["in"] = Rolled(rate["in"])] /\ UNCHANGED recent
    BY <2>2, RatesRolled DEF Directions
  <2>3. CASE UNCHANGED <<rate, recent>>
    BY <2>3, RatesSame
  <2> QED
    BY SMTT(20), <1>2, <2>1, <2>2, <2>3 DEF accept_peer
<1>3. CASE Tick
  BY <1>3, RatesTick
<1>4. CASE Step
  <2>1. UNCHANGED <<rate, recent>>
    BY SMTT(20), <1>4 DEF Step, greet, read_full, read_fails, greeted, answered, domain_length,
                connected, Await, GiveUp
  <2> QED
    BY SMTT(20), <2>1, RatesSame
<1>5. CASE Arrive \/ Close \/ (\E i \in Slots : release(i)) \/ UNCHANGED vars
  <2>1. UNCHANGED <<rate, recent>>
    BY SMTT(20), <1>5 DEF Arrive, Close, release, vars
  <2> QED
    BY ZenonT(40), <2>1, RatesSame
<1> QED
  BY <1>1, <1>2, <1>3, <1>4, <1>5 DEF Next

LEMMA RatesInit == Init => Rates
<1> SUFFICES ASSUME Init PROVE Rates
  OBVIOUS
<1>1. /\ rate \in [Directions -> [since : {0, Window}, count : {0}]]
      /\ recent = [d \in Directions |-> [k \in Latest |-> Window]]
  BY DEF Init
<1>2. ASSUME NEW d \in Directions PROVE Charged(rate[d], recent[d])
  BY <1>1, RateTypes DEF Window0, Charged, Latest
<1> QED
  BY <1>1, <1>2 DEF Rates, Charged

LEMMA YoungBounded ==
  ASSUME Rates, NEW d \in Directions
  PROVE  Begun(d, Window) <= 2 * Limit
<1> USE RateTypes DEF Window0
<1> DEFINE young == {k \in Latest : recent[d][k] < Window}
<1>1. Charged(rate[d], recent[d])
  BY DEF Rates
<1>2. young \subseteq 1..(2 * Limit)
  <2> SUFFICES ASSUME NEW k \in Latest, recent[d][k] < Window PROVE k <= 2 * Limit
    BY SMTT(20) DEF Latest
  <2>1. k \in Nat /\ rate[d].since \in 0..Window /\ rate[d].count \in 0..Limit
    BY SMTT(20), <1>1 DEF Charged, Latest
  <2>2. recent[d][k] \in 0..Window
    BY SMTT(20), <1>1 DEF Charged
  <2>3. k <= rate[d].count + Limit \/ k <= Limit
    BY <1>1, <2>1, <2>2 DEF Charged
  <2> QED
    BY <2>1, <2>3
<1>3. IsFiniteSet(1..(2 * Limit)) /\ Cardinality(1..(2 * Limit)) = 2 * Limit
  <2>1. 1 \in Int /\ 2 * Limit \in Int /\ 1 <= 2 * Limit
    OBVIOUS
  <2> QED
    BY <2>1, FS_Interval
<1> HIDE DEF young
<1>4. Cardinality(young) <= 2 * Limit
  BY Zenon, <1>2, <1>3, FS_Subset
<1> QED
  BY <1>4 DEF young, Begun

LEMMA OwnCounted ==
  ASSUME Rates, NEW d \in Directions, rate[d].since < Window
  PROVE  rate[d].count = Begun(d, rate[d].since + 1)
<1> USE RateTypes DEF Window0
<1> DEFINE c == rate[d].count
           own == {k \in Latest : recent[d][k] < rate[d].since + 1}
<1>1. Charged(rate[d], recent[d])
  BY DEF Rates
<1>2. c \in Nat /\ c <= Limit
  BY <1>1 DEF Charged
<1>3. own = 1..c
  <2>1. ASSUME NEW k \in Latest PROVE recent[d][k] < rate[d].since + 1 <=> k <= c
    <3>1. recent[d][k] \in 0..Window /\ rate[d].since \in 0..Window
      BY <1>1 DEF Charged
    <3>2. recent[d][k] <= rate[d].since <=> k <= c
      BY <1>1 DEF Charged
    <3> QED
      BY <3>1, <3>2
  <2>2. own = {k \in Latest : k <= c}
    BY <2>1
  <2> HIDE DEF own, c
  <2> QED
    BY <1>2, <2>2 DEF Latest
<1> HIDE DEF c, own
<1>4. Cardinality(1..c) = c
  <2>1. 1 \in Int /\ c \in Int /\ (1 <= c \/ c = 0)
    BY <1>2
  <2>2. Cardinality(1..c) = IF 1 <= c THEN c - 1 + 1 ELSE 0
    BY <2>1, FS_Interval
  <2> QED
    BY <2>1, <2>2
<1>5. Cardinality(own) = c
  BY <1>3, <1>4
<1> QED
  BY <1>5 DEF own, c, Begun

-----------------------------------------------------------------------------

LEMMA Initially == Init => Budget /\ Fds
<1> SUFFICES ASSUME Init PROVE Budget /\ Fds
  OBVIOUS
<1>1. Budget
  BY DEF Init, Budget, Stages
<1>2. Occupied = {}
  BY DEF Init, Occupied, Free
<1> QED
  BY <1>1, <1>2, FS_EmptySet DEF Init, Fds

LEMMA IInvAlways == Spec => [](Budget /\ Fds)
BY Initially, BudgetNext, FdsNext, PTL DEF Spec

\* The loop is blocked in one dial for at most four read_full budgets, for every
\* number of slots, every budget and every proxy.
THEOREM DialIsBounded == Spec => []DialBounded
<1>1. Budget => DialBounded
  BY TimeoutType DEF Budget, Stages, DialBounded, T
<1> QED
  BY <1>1, IInvAlways, PTL

\* Every error path of socks5_connect and of /connect closes the descriptor it
\* opened, and only that one.
THEOREM DescriptorsAccounted == Spec => []FdsAccounted
<1>1. Fds => FdsAccounted
  BY DEF Fds, FdsAccounted, Occupied
<1> QED
  BY <1>1, IInvAlways, PTL

\* A dialled slot starts with the peer's first byte, neither before it nor behind
\* it, for every address type, all lengths of the fields and however the proxy's
\* answer is cut up.
THEOREM HandedOver == Spec => []HandedOverClean
<1>1. Init => Bytes /\ HandedOverClean
  <2> SUFFICES ASSUME Init PROVE Bytes /\ HandedOverClean
    BY SMTT(20)
  <2>1. Bytes
    BY NoProxyType DEF Init, Bytes, BytesTypes
  <2>2. HandedOverClean
    BY DEF Init, Free, HandedOverClean
  <2> QED BY <2>1, <2>2
<1> QED
  BY <1>1, BytesNext, CleanNext, IInvAlways, PTL DEF Spec

\* In any span of one window at most twice the limit of handshakes begins, and
\* the counter of a window is the number of its own handshakes, for every limit
\* and every length of the window, in both directions.
THEOREM RatesBounded == Spec => []RateBounded
<1>1. Rates => RateBounded
  BY YoungBounded, OwnCounted DEF RateBounded
<1> QED
  BY <1>1, RatesInit, RatesNext, PTL DEF Spec
=============================================================================
