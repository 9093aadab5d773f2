-------------------------------- MODULE Dial --------------------------------
(***************************************************************************)
(* How a connection comes to own a slot: the /connect command of           *)
(* stdin_handler.c with its SOCKS5 client (network.c), and the accept      *)
(* branch of event_loop.c.  Both count handshakes in a fixed window, each  *)
(* in its own pair of variables.                                           *)
(*                                                                         *)
(* socks5_connect runs inside the single-threaded loop: while it waits in  *)
(* poll nothing else of the program moves, only the clock, the proxy and   *)
(* the bytes on their way.  Time is kept as differences, the way the code  *)
(* reads the monotonic clock: since[d] is now - window_start, left is the  *)
(* remaining_ms of the read_full in progress.  poll returns no later than  *)
(* its timeout, so the clock does not pass a deadline that has not been    *)
(* served.  Address lengths and times are scaled down by the constants.    *)
(***************************************************************************)
EXTENDS Integers, Sequences, FiniteSets

CONSTANTS NOX_MAX_PEERS,       \* slots
          NOX_READ_TIMEOUT_MS, \* budget of one read_full, in ticks
          Window,              \* the 60 seconds of the rate limits, in ticks
          Limit,               \* the 5 handshakes a window admits
          V4Len, V6Len, PortLen

ASSUME DialAssumption ==
  /\ {NOX_MAX_PEERS, NOX_READ_TIMEOUT_MS, Window, Limit, V4Len, V6Len, PortLen} \subseteq Nat \ {0}

VARIABLES
  slots,   \* per slot: [kind, unread, cut]: free, in (accepted) or out (dialled)
  fds,     \* open peer descriptors of the process
  rate,    \* per direction: [since, count], the window of the rate limit
  pc,      \* where socks5_connect and its caller are; "idle" in the loop
  got,     \* bytes the current read_full has received
  want,    \* bytes the current read_full was asked for
  left,    \* time the current read_full still has
  proxy,   \* [stream, ready, closed, cut]: bytes to come, bytes arrived, EOF;
           \* history: did the EOF cut off bytes that had not been sent?
  recent,  \* history: per direction, the ages of its latest handshakes in ticks
  spent    \* history: ticks since the dial began

vars == <<slots, fds, rate, pc, got, want, left, proxy, recent, spent>>
dial == <<pc, got, want, left, proxy, spent>>

Slots == 1..NOX_MAX_PEERS
Directions == {"out", "in"}
PEER == 80
Free == [kind |-> "free", unread |-> << >>, cut |-> FALSE]


\* The handshakes the history remembers, the latest one first: one more than any
\* span of a window may hold.  An age stops at Window, which is also the age of
\* a handshake that never was.
Latest == 1..(2 * Limit + 1)

\* Both sides take the first slot that is free.
FreeSlots == {i \in Slots : slots[i].kind = "free"}
FirstFree(i) == i \in FreeSlots /\ \A k \in FreeSlots : i <= k

\* What Tor's SocksSocket may answer, and after a success the peer's first byte.
Zeros(n) == [i \in 1..n |-> 0]
Body(atyp, d) ==
  CASE atyp = 1 -> Zeros(V4Len + PortLen)
    [] atyp = 4 -> Zeros(V6Len + PortLen)
    [] atyp = 3 -> <<d>> \o Zeros(d + PortLen)
    [] OTHER -> << >>
Failure == <<5, 0, 5, 1, 0>> \o <<1>> \o Body(1, 0)
Success(a, d) == <<5, 0, 5, 0, 0, a>> \o Body(a, d) \o <<PEER>>
Answers == {<<4, 0>>, <<5, 255>>, Failure} \cup {Success(a, d) : a \in 1..4, d \in 0..1}

NoProxy == [stream |-> << >>, ready |-> 0, closed |-> FALSE, cut |-> FALSE]

Init ==
  /\ slots = [i \in Slots |-> Free]
  /\ fds = 0
  /\ rate \in [Directions -> [since : {0, Window}, count : {0}]]
  /\ pc = "idle" /\ got = << >> /\ want = 0 /\ left = 0
  /\ proxy = NoProxy
  /\ recent = [d \in Directions |-> [k \in Latest |-> Window]]
  /\ spent = 0

-----------------------------------------------------------------------------
(* The rate limit, the same statements for each direction.                *)

\* Mutant: the window start is not moved.
Rolled_late(r) == IF r.since >= Window THEN [r EXCEPT !.count = 0] ELSE r

\* if (now - window_start >= 60) { count = 0; window_start = now; }
Rolled(r) == IF r.since >= Window THEN [since |-> 0, count |-> 0] ELSE r
Spent(r) == r.count >= Limit
Counted(d, r) ==
  /\ rate' = [rate EXCEPT ![d] = [r EXCEPT !.count = @ + 1]]
  /\ recent' = [recent EXCEPT ![d] = [k \in Latest |-> IF k = 1 THEN 0 ELSE recent[d][k - 1]]]

-----------------------------------------------------------------------------
(* socks5_connect and the part of /connect around it.                     *)

\* Mutant: an error path forgets to close.
GiveUp_leaky ==
  /\ pc' = "idle" /\ got' = << >> /\ want' = 0 /\ left' = 0
  /\ proxy' = NoProxy /\ spent' = 0
  /\ fds' = IF pc = "drain" THEN fds ELSE fds - 1
  /\ UNCHANGED <<slots, rate, recent>>

\* Every error path of socks5_connect closes the descriptor it opened.
GiveUp ==
  /\ pc' = "idle" /\ got' = << >> /\ want' = 0 /\ left' = 0
  /\ proxy' = NoProxy /\ spent' = 0
  /\ fds' = fds - 1
  /\ UNCHANGED <<slots, rate, recent>>

\* /connect before socks5_connect: a free slot, the window, the attempt counted
\* whether or not the dial succeeds; then the socket and its connect().
connect_cmd ==
  /\ pc = "idle"
  /\ FreeSlots # {}
  /\ LET r == Rolled(rate["out"]) IN
       \/ /\ Spent(r)
          /\ rate' = [rate EXCEPT !["out"] = r]
          /\ UNCHANGED <<dial, fds, recent>>
       \/ /\ ~Spent(r)
          /\ Counted("out", r)
          /\ \/ UNCHANGED <<dial, fds>>      \* no socket, or nobody listens
             \/ /\ fds' = fds + 1
                /\ pc' = "greet"
                /\ \E s \in Answers : proxy' = [NoProxy EXCEPT !.stream = s]
                /\ UNCHANGED <<got, want, left, spent>>
  /\ UNCHANGED slots

\* read_full is entered with its whole time budget, once per call.
Await(stage, n) ==
  /\ pc' = stage /\ got' = << >> /\ want' = n /\ left' = NOX_READ_TIMEOUT_MS
  /\ UNCHANGED <<slots, fds, rate, proxy, recent, spent>>

\* write_full of the greeting: a short write to a fresh socket never blocks.
greet ==
  /\ pc = "greet"
  /\ Await("gresp", 2) \/ GiveUp

\* Mutant: each read has a deadline of its own.
read_full_restarts ==
  /\ Len(got) < want /\ left > 0 /\ proxy.ready > 0
  /\ LET n == IF proxy.ready < want - Len(got) THEN proxy.ready ELSE want - Len(got) IN
       /\ got' = got \o SubSeq(proxy.stream, 1, n)
       /\ proxy' = [proxy EXCEPT !.stream = SubSeq(@, n + 1, Len(@)), !.ready = @ - n]
  /\ left' = NOX_READ_TIMEOUT_MS
  /\ UNCHANGED <<slots, fds, rate, pc, want, recent, spent>>

\* One turn of read_full's loop: poll says readable, read takes what is there.
read_full ==
  /\ Len(got) < want /\ left > 0 /\ proxy.ready > 0
  /\ LET n == IF proxy.ready < want - Len(got) THEN proxy.ready ELSE want - Len(got) IN
       /\ got' = got \o SubSeq(proxy.stream, 1, n)
       /\ proxy' = [proxy EXCEPT !.stream = SubSeq(@, n + 1, Len(@)), !.ready = @ - n]
  /\ UNCHANGED <<slots, fds, rate, pc, want, left, recent, spent>>

\* The deadline has passed, or the proxy closed before the last byte.
read_fails ==
  /\ Len(got) < want
  /\ left = 0 \/ (proxy.ready = 0 /\ proxy.closed)
  /\ GiveUp

Complete(stage) == pc = stage /\ Len(got) = want

\* The greeting's answer, then validate_onion_address and the request.
greeted ==
  /\ Complete("gresp")
  /\ \/ got = <<5, 0>> /\ Await("sresp", 4)
     \/ GiveUp           \* refused, a bad checksum in the address, or no write

\* Mutant: the length byte of a domain name is drained a second time.
DrainLen_one_more(atyp, dlen) ==
  CASE atyp = 1 -> V4Len + PortLen
    [] atyp = 4 -> V6Len + PortLen
    [] atyp = 3 -> 1 + dlen + PortLen
    [] OTHER -> 0

\* drain_len by ATYP; 0 stands for an address type the code rejects.
DrainLen(atyp, dlen) ==
  CASE atyp = 1 -> V4Len + PortLen
    [] atyp = 4 -> V6Len + PortLen
    [] atyp = 3 -> dlen + PortLen
    [] OTHER -> 0

answered ==
  /\ Complete("sresp")
  /\ IF got[1] # 5 \/ got[2] # 0 THEN GiveUp
     ELSE IF got[4] = 3 THEN Await("dlen", 1)
     ELSE IF DrainLen(got[4], 0) > 0 THEN Await("drain", DrainLen(got[4], 0))
     ELSE GiveUp

domain_length ==
  /\ Complete("dlen")
  /\ Await("drain", DrainLen(3, got[1]))

\* fcntl, then back in /connect: the slot, epoll_add_fd, the handshake state and
\* EV_CONNECT_CMD.  Any of them failing closes the descriptor again.
connected ==
  /\ Complete("drain")
  /\ \/ GiveUp
     \/ /\ \E i \in Slots :
             /\ FirstFree(i)
             /\ slots' = [slots EXCEPT ![i] = [kind |-> "out", unread |-> proxy.stream, cut |-> proxy.cut]]
        /\ pc' = "idle" /\ got' = << >> /\ want' = 0 /\ left' = 0
        /\ proxy' = NoProxy /\ spent' = 0
        /\ UNCHANGED <<fds, rate, recent>>

-----------------------------------------------------------------------------
(* The loop's other side, and what the program does not control.          *)

\* accept4 and the checks behind it; the handshake is counted only once it exists.
accept_peer ==
  /\ pc = "idle"
  /\ LET r == Rolled(rate["in"]) IN
       \/ FreeSlots = {} /\ UNCHANGED <<rate, slots, fds, recent>>
       \/ /\ FreeSlots # {}
          /\ rate' = [rate EXCEPT !["in"] = r]
          /\ UNCHANGED <<slots, fds, recent>>     \* over the limit, or a step failed
       \/ /\ FreeSlots # {} /\ ~Spent(r)
          /\ Counted("in", r)
          /\ fds' = fds + 1
          /\ \E i \in Slots :
               /\ FirstFree(i)
               /\ slots' = [slots EXCEPT ![i] = [Free EXCEPT !.kind = "in"]]
  /\ UNCHANGED dial

\* A session ends; the state machine's cleanup closes the descriptor.
release(i) ==
  /\ pc = "idle" /\ slots[i].kind # "free"
  /\ slots' = [slots EXCEPT ![i] = Free]
  /\ fds' = fds - 1
  /\ UNCHANGED <<dial, rate, recent>>

\* External: bytes of the answer arrive, in pieces of any size.
Arrive ==
  /\ pc \notin {"idle", "greet"} /\ ~proxy.closed
  /\ \E n \in (proxy.ready + 1)..Len(proxy.stream) : proxy' = [proxy EXCEPT !.ready = n]
  /\ UNCHANGED <<slots, fds, rate, pc, got, want, left, recent, spent>>

\* External: the proxy goes away; what it has sent can still be read.
Close ==
  /\ pc \notin {"idle", "greet"} /\ ~proxy.closed
  /\ proxy' = [proxy EXCEPT !.closed = TRUE, !.cut = proxy.ready < Len(proxy.stream),
                            !.stream = SubSeq(@, 1, proxy.ready)]
  /\ UNCHANGED <<slots, fds, rate, pc, got, want, left, recent, spent>>

\* The clock advances while the loop waits or poll has time left.
Older(age) == IF age < Window THEN age + 1 ELSE age
Waiting == pc \notin {"idle", "greet"} /\ Len(got) < want
Tick ==
  /\ pc = "idle" \/ (Waiting /\ left > 0)
  /\ rate' = [d \in Directions |-> [rate[d] EXCEPT !.since = Older(@)]]
  /\ recent' = [d \in Directions |-> [k \in Latest |-> Older(recent[d][k])]]
  /\ left' = IF Waiting THEN left - 1 ELSE left
  /\ spent' = IF Waiting THEN spent + 1 ELSE spent
  /\ UNCHANGED <<slots, fds, pc, got, want, proxy>>

Step == greet \/ read_full \/ read_fails \/ greeted \/ answered \/ domain_length \/ connected

Next ==
  \/ connect_cmd \/ accept_peer
  \/ \E i \in Slots : release(i)
  \/ Step
  \/ Arrive \/ Close \/ Tick

Spec == Init /\ [][Next]_vars

-----------------------------------------------------------------------------
\* Handshakes of direction d begun in the last n ticks, the present one included.
Begun(d, n) == Cardinality({k \in Latest : recent[d][k] < n})

\* No descriptor is lost or closed twice: the process holds one per occupied
\* slot and one more while a dial is in progress, whichever of the error paths
\* of socks5_connect and /connect were taken before.
FdsAccounted ==
  fds = Cardinality({i \in Slots : slots[i].kind # "free"}) + (IF pc = "idle" THEN 0 ELSE 1)

\* A dialled slot starts with the peer's first byte: socks5_connect has consumed
\* the answer of the proxy to its last byte and nothing behind it, for every
\* address type and however the bytes were cut up.  Only when the connection was
\* closed before that byte had been sent is there nothing to read.
HandedOverClean ==
  \A i \in Slots :
    slots[i].kind = "out" => slots[i].unread = IF slots[i].cut THEN << >> ELSE <<PEER>>

\* The fixed window of the rate limits (5 in 60 s) admits at most twice its
\* limit in any span of one window, in each direction; and a direction is
\* charged for exactly its own handshakes since its window began, so neither
\* can use up the other's allowance.
RateBounded ==
  \A d \in Directions :
    /\ Begun(d, Window) <= 2 * Limit
    /\ rate[d].since < Window => rate[d].count = Begun(d, rate[d].since + 1)

\* The loop is blocked in one dial for at most four read_full budgets, however
\* slowly the proxy sends: read_full's deadline covers the whole call.  Since a
\* dial is never stuck (no deadlock), it returns to the loop within that time.
DialBounded == spent <= 4 * NOX_READ_TIMEOUT_MS

=============================================================================
