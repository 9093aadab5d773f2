------------------------------ MODULE NoiseXX ------------------------------
(***************************************************************************)
(* The Noise_XX handshake and the session it ends in (src/src/noise.c).    *)
(*                                                                         *)
(* Cryptography is symbolic.  A public key is a name, a private key is the *)
(* name of its public key, DH is the set of the two names, a hash or a     *)
(* chaining key is the sequence of what was mixed into it, and a           *)
(* ciphertext is the record of its key, nonce, associated data and         *)
(* plaintext: it opens exactly under the same key, nonce and data.         *)
(*                                                                         *)
(* Each party is one handshake object (struct noise_handshake) and the     *)
(* session it is split into; the objects of one user share a static key.   *)
(* Every message written stays on the wire and may be read by any party,   *)
(* at any time, again, or altered.                                         *)
(***************************************************************************)
EXTENDS Integers, Sequences, FiniteSets

CONSTANTS
  Initiators,   \* handshake objects made with initiator = true
  Responders,   \* handshake objects made with initiator = false
  IdentityOf,   \* the user whose static key a handshake object is given
  NonceMax,     \* UINT64_MAX
  MaxSealed,    \* bound: transport messages encrypted by one party
  Alterations,  \* TRUE: messages may be altered on the way
  CallsFail,    \* TRUE: an allocation or library call may fail
  Zero,         \* memory wiped by sodium_memzero
  Other         \* bytes that are no key or ciphertext of any party

ASSUME NoiseAssumption ==
  /\ Initiators \cap Responders = {}
  /\ NonceMax \in Nat /\ NonceMax > 2
  /\ \A p \in Initiators \cup Responders : <<"e", p>> \notin {Zero, Other}

VARIABLES
  hs,        \* struct noise_handshake of each party
  session,   \* struct noise_session of each party
  wire,      \* every handshake message written so far
  sealed,    \* history: every encryption under a key, by whom and when
  opened     \* history: the transport ciphertexts a party has accepted, in order

vars == <<hs, session, wire, sealed, opened>>

Parties == Initiators \cup Responders

StaticPub(p) == <<"s", IdentityOf[p]>>
EphemeralPub(p) == <<"e", p>>

----------------------------------------------------------------------------
(* CipherState: a key and a nonce counter.  The symmetric state ss embeds one *)
(* as its fields k and n, a session has one for each direction.               *)

NoCipher == [has_key |-> FALSE, k |-> Zero, n |-> 0]

cipher_init_key(key) == [has_key |-> TRUE, k |-> key, n |-> 0]

(* Mutant: the counter wraps. *)
NextNonceWraps(n) == (n + 1) % (NonceMax + 1)

(* atomic_fetch_add, and the counter put back when it has run out *)
NextNonce(n) == IF n >= NonceMax THEN NonceMax ELSE (n + 1) % (NonceMax + 1)

Exhausted(cs) == cs.has_key /\ cs.n >= NonceMax

Ciphertext(cs, ad, pt) == [k |-> cs.k, n |-> cs.n, ad |-> ad, pt |-> pt]

(* without a key the plaintext passes through *)
cipher_encrypt(cs, ad, pt) == IF cs.has_key THEN Ciphertext(cs, ad, pt) ELSE pt

AfterEncrypt(cs) == IF cs.has_key THEN [cs EXCEPT !.n = NextNonce(cs.n)] ELSE cs

(* the AEAD opens ct under the receiver's own key, nonce and data *)
Authentic(cs, ad, ct) ==
  /\ ct # Other
  /\ cs.has_key
  /\ ~Exhausted(cs)
  /\ ct.k = cs.k /\ ct.n = cs.n /\ ct.ad = ad

(* a ciphertext that does not verify leaves the counter alone *)
AfterDecrypt(cs) == IF cs.has_key THEN [cs EXCEPT !.n = cs.n + 1] ELSE cs

----------------------------------------------------------------------------
(* SymmetricState: handshake hash h, chaining key ck, and the cipher state. *)

symmetric_init == [h |-> <<>>, ck |-> <<>>, cs |-> NoCipher]

symmetric_mix_hash(ss, data) == [ss EXCEPT !.h = Append(ss.h, data)]

(* HKDF(ck, ikm): its two outputs are told apart by their number *)
hkdf_blake2b(ck, ikm, out) == [ck |-> Append(ck, ikm), out |-> out]

symmetric_mix_key(ss, ikm) ==
  [ss EXCEPT !.ck = Append(ss.ck, ikm),
             !.cs = cipher_init_key(hkdf_blake2b(ss.ck, ikm, 2))]

symmetric_encrypt_and_hash(ss, pt) ==
  [ss EXCEPT !.h = Append(ss.h, cipher_encrypt(ss.cs, ss.h, pt)),
             !.cs = AfterEncrypt(ss.cs)]

symmetric_decrypt_and_hash(ss, ct) ==
  [ss EXCEPT !.h = Append(ss.h, ct), !.cs = AfterDecrypt(ss.cs)]

noise_dh(priv, pub) == {priv, pub}

(* an all-zero public key, or one whose shared secret is zero, is refused *)
ValidPoint(pub) == pub # Zero

----------------------------------------------------------------------------
(* HandshakeState *)

handshake_init(p) ==
  [msg_index |-> 0, failed |-> FALSE, split_done |-> FALSE,
   e |-> Zero, e_pub |-> Zero, s |-> StaticPub(p), s_pub |-> StaticPub(p),
   re |-> Zero, rs |-> Zero,
   ss |-> symmetric_mix_hash(symmetric_init, <<"prologue">>)]

Claim(p) == <<"claim", p>>

(* msg0: -> e *)
write_msg0(p) ==
  LET ss1 == symmetric_mix_hash(hs[p].ss, EphemeralPub(p))
  IN  [hs |-> [hs[p] EXCEPT !.e = EphemeralPub(p), !.e_pub = EphemeralPub(p),
                            !.ss = symmetric_encrypt_and_hash(ss1, <<Zero, Zero>>)],
       msg |-> [idx |-> 0, e |-> EphemeralPub(p), s |-> Zero, pl |-> Zero],
       made |-> {}]

(* msg1: <- e, ee, s, es *)
write_msg1(p) ==
  LET ss1 == symmetric_mix_hash(hs[p].ss, EphemeralPub(p))
      ss2 == symmetric_mix_key(ss1, noise_dh(EphemeralPub(p), hs[p].re))
      ss3 == symmetric_encrypt_and_hash(ss2, hs[p].s_pub)
      ss4 == symmetric_mix_key(ss3, noise_dh(hs[p].s, hs[p].re))
      c1  == cipher_encrypt(ss2.cs, ss2.h, hs[p].s_pub)
      c2  == cipher_encrypt(ss4.cs, ss4.h, Claim(p))
  IN  [hs |-> [hs[p] EXCEPT !.e = EphemeralPub(p), !.e_pub = EphemeralPub(p), !.s = Zero,
                            !.ss = symmetric_encrypt_and_hash(ss4, Claim(p))],
       msg |-> [idx |-> 1, e |-> EphemeralPub(p), s |-> c1, pl |-> c2],
       made |-> {c1, c2}]

(* msg2: -> s, se *)
write_msg2(p) ==
  LET ss1 == symmetric_encrypt_and_hash(hs[p].ss, hs[p].s_pub)
      ss2 == symmetric_mix_key(ss1, noise_dh(hs[p].s, hs[p].re))
      c1  == cipher_encrypt(hs[p].ss.cs, hs[p].ss.h, hs[p].s_pub)
      c2  == cipher_encrypt(ss2.cs, ss2.h, Claim(p))
  IN  [hs |-> [hs[p] EXCEPT !.s = Zero,
                            !.ss = symmetric_encrypt_and_hash(ss2, Claim(p))],
       msg |-> [idx |-> 2, e |-> Zero, s |-> c1, pl |-> c2],
       made |-> {c1, c2}]

write_msg(p) ==
  CASE hs[p].msg_index = 0 -> write_msg0(p)
    [] hs[p].msg_index = 1 -> write_msg1(p)
    [] OTHER -> write_msg2(p)

(* Reading: the set holds the state after an accepted message and is empty when *)
(* it is refused.  read_msg0 authenticates nothing: any 32 bytes are taken as re. *)
read_msg0(p, m) ==
  IF m.idx = -1 THEN {}
  ELSE {[hs[p] EXCEPT !.re = m.e,
                      !.ss = symmetric_decrypt_and_hash(
                               symmetric_mix_hash(hs[p].ss, m.e), <<m.s, m.pl>>)]}

read_msg1(p, m) ==
  LET ss1 == symmetric_mix_hash(hs[p].ss, m.e)
      ss2 == symmetric_mix_key(ss1, noise_dh(hs[p].e, m.e))
      ss3 == symmetric_decrypt_and_hash(ss2, m.s)
      rs  == m.s.pt
      ss4 == symmetric_mix_key(ss3, noise_dh(hs[p].e, rs))
  IN  IF /\ m.idx = 1 /\ ValidPoint(m.e)
         /\ Authentic(ss2.cs, ss2.h, m.s) /\ ValidPoint(rs)
         /\ Authentic(ss4.cs, ss4.h, m.pl)
      THEN {[hs[p] EXCEPT !.re = m.e, !.rs = rs, !.e = Zero,
                          !.ss = symmetric_decrypt_and_hash(ss4, m.pl)]}
      ELSE {}

read_msg2(p, m) ==
  LET ss1 == symmetric_decrypt_and_hash(hs[p].ss, m.s)
      rs  == m.s.pt
      ss2 == symmetric_mix_key(ss1, noise_dh(hs[p].e, rs))
  IN  IF /\ m.idx = 2
         /\ Authentic(hs[p].ss.cs, hs[p].ss.h, m.s) /\ ValidPoint(rs)
         /\ Authentic(ss2.cs, ss2.h, m.pl)
      THEN {[hs[p] EXCEPT !.rs = rs, !.e = Zero,
                          !.ss = symmetric_decrypt_and_hash(ss2, m.pl)]}
      ELSE {}

read_msg(p, m) ==
  CASE hs[p].msg_index = 0 -> read_msg0(p, m)
    [] hs[p].msg_index = 1 -> read_msg1(p, m)
    [] OTHER -> read_msg2(p, m)

(* what both error branches wipe *)
Wiped(h) ==
  [msg_index |-> h.msg_index, failed |-> TRUE, split_done |-> h.split_done,
   e |-> Zero, e_pub |-> Zero, s |-> Zero, s_pub |-> Zero, re |-> Zero, rs |-> Zero,
   ss |-> [h |-> Zero, ck |-> Zero, cs |-> [h.ss.cs EXCEPT !.k = Zero]]]

Usable(p) == ~hs[p].split_done /\ ~hs[p].failed

WriteTurn(p) == hs[p].msg_index \in (IF p \in Initiators THEN {0, 2} ELSE {1})
ReadTurn(p) == hs[p].msg_index \in (IF p \in Initiators THEN {1} ELSE {0, 2})

(* Mutant: one message too few is enough. *)
handshake_is_complete_early(p) == hs[p].msg_index >= 2

handshake_is_complete(p) == hs[p].msg_index >= 3

(* a DH with a refused point, or a failing call, fails the write *)
CanWrite(p) == hs[p].msg_index = 0 \/ ValidPoint(hs[p].re)

Sealed(p, cts) == {[ct |-> c, by |-> p, at |-> Cardinality(sealed)] : c \in cts}

handshake_write(p) ==
  /\ Usable(p) /\ WriteTurn(p) /\ CanWrite(p)
  /\ LET w == write_msg(p)
     IN  /\ hs' = [hs EXCEPT ![p] = [w.hs EXCEPT !.msg_index = hs[p].msg_index + 1]]
         /\ wire' = wire \cup {w.msg}
         /\ sealed' = sealed \cup Sealed(p, w.made)
  /\ UNCHANGED <<session, opened>>

handshake_write_fails(p) ==
  /\ Usable(p) /\ WriteTurn(p) /\ (CallsFail \/ ~CanWrite(p))
  /\ hs' = [hs EXCEPT ![p] = Wiped(hs[p])]
  /\ UNCHANGED <<session, wire, sealed, opened>>

handshake_read(p, m) ==
  /\ Usable(p) /\ ReadTurn(p)
  /\ \E h \in IF read_msg(p, m) = {} THEN {Wiped(hs[p])}
              ELSE {[r EXCEPT !.msg_index = hs[p].msg_index + 1] : r \in read_msg(p, m)} :
       hs' = [hs EXCEPT ![p] = h]
  /\ UNCHANGED <<session, wire, sealed, opened>>

handshake_read_fails(p) ==
  /\ CallsFail /\ Usable(p) /\ ReadTurn(p) /\ wire # {}
  /\ hs' = [hs EXCEPT ![p] = Wiped(hs[p])]
  /\ UNCHANGED <<session, wire, sealed, opened>>

(* Mutant: both directions get the first key. *)
symmetric_split_one_key(p) ==
  LET c1 == cipher_init_key(hkdf_blake2b(hs[p].ss.ck, {}, 1))
  IN  [tx |-> c1, rx |-> c1]

(* Split(): the initiator sends under the first output, the responder under the second *)
symmetric_split(p) ==
  LET c1 == cipher_init_key(hkdf_blake2b(hs[p].ss.ck, {}, 1))
      c2 == cipher_init_key(hkdf_blake2b(hs[p].ss.ck, {}, 2))
  IN  IF p \in Initiators THEN [tx |-> c1, rx |-> c2] ELSE [tx |-> c2, rx |-> c1]

handshake_split(p) ==
  /\ Usable(p) /\ handshake_is_complete(p)
  /\ session' = [session EXCEPT ![p] = [tx |-> symmetric_split(p).tx, rx |-> symmetric_split(p).rx,
                                        remote_static |-> hs[p].rs]]
  /\ hs' = [hs EXCEPT ![p] =
              [Wiped(hs[p]) EXCEPT !.failed = FALSE, !.split_done = TRUE, !.ss.cs = NoCipher]]
  /\ UNCHANGED <<wire, sealed, opened>>

handshake_split_fails(p) ==
  /\ CallsFail /\ Usable(p) /\ handshake_is_complete(p)
  /\ hs' = [hs EXCEPT ![p] = Wiped(hs[p])]
  /\ UNCHANGED <<session, wire, sealed, opened>>

----------------------------------------------------------------------------
(* Transport *)

SentBy(p) == Cardinality({r \in sealed : r.by = p})

(* a failing AEAD call consumes the nonce and gives no ciphertext *)
noise_encrypt(p) ==
  /\ hs[p].split_done
  /\ SentBy(p) < MaxSealed
  /\ session' = [session EXCEPT ![p].tx.n = NextNonce(session[p].tx.n)]
  /\ \/ /\ ~Exhausted(session[p].tx)
        /\ sealed' = sealed \cup Sealed(p, {Ciphertext(session[p].tx, <<>>, Claim(p))})
     \/ /\ CallsFail \/ Exhausted(session[p].tx)
        /\ UNCHANGED sealed
  /\ UNCHANGED <<hs, wire, opened>>

noise_decrypt(p, ct) ==
  /\ hs[p].split_done
  /\ Authentic(session[p].rx, <<>>, ct)
  /\ session' = [session EXCEPT ![p].rx = AfterDecrypt(session[p].rx)]
  /\ opened' = [opened EXCEPT ![p] = Append(opened[p], ct)]
  /\ UNCHANGED <<hs, wire, sealed>>

----------------------------------------------------------------------------
(* A message as it may arrive: as written, cut short, or with a field changed *)
Short == [idx |-> -1, e |-> Zero, s |-> Other, pl |-> Other]

Arrivals(m) ==
  {[m EXCEPT !.e = IF m.idx = 2 THEN Other ELSE m.e]} \cup
  (IF Alterations
   THEN {[m EXCEPT !.e = x] : x \in {Zero, Other}} \cup
        {[m EXCEPT !.s = Other], [m EXCEPT !.pl = Other], Short}
   ELSE {})

Init ==
  /\ hs = [p \in Parties |-> handshake_init(p)]
  /\ session = [p \in Parties |-> [tx |-> NoCipher, rx |-> NoCipher, remote_static |-> Zero]]
  /\ wire = {}
  /\ sealed = {}
  /\ opened = [p \in Parties |-> <<>>]

Next ==
  \E p \in Parties :
    \/ handshake_write(p)
    \/ handshake_write_fails(p)
    \/ \E w \in wire : \E m \in Arrivals(w) : handshake_read(p, m)
    \/ handshake_read_fails(p)
    \/ handshake_split(p)
    \/ handshake_split_fails(p)
    \/ noise_encrypt(p)
    \/ \E r \in sealed : noise_decrypt(p, r.ct)

Spec == Init /\ [][Next]_vars

----------------------------------------------------------------------------
(* Properties *)

(* No two encryptions, by anyone, in the handshake or after it, use the same  *)
(* key with the same nonce: cipher_encrypt takes a new nonce each time and    *)
(* refuses when the counter has run out, both sides derive the same handshake *)
(* keys but never encrypt with the same one at the same count, and Split      *)
(* gives the two directions different keys.  A session accepts a ciphertext   *)
(* at most once, in the order of encryption, and never one it made itself,    *)
(* whatever is repeated or reordered on the way (cipher_decrypt).             *)
NonceOnce ==
  /\ \A a, b \in sealed : a.ct.k = b.ct.k /\ a.ct.n = b.ct.n => a.ct = b.ct /\ a.by = b.by /\ a.at = b.at
  /\ \A p \in Parties : \A i \in DOMAIN opened[p] :
       /\ opened[p][i].n = i - 1
       /\ \A r \in sealed : r.ct = opened[p][i] => r.by # p

Split(p) == hs[p].split_done

(* A party that has split knows whom it talks to: remote_static is the static *)
(* key of a party that encrypted, in this very handshake, under the key that  *)
(* only the two of them derive.  Messages altered, repeated or taken from     *)
(* another handshake never lead to a split.                                   *)
SplitIsAuthentic ==
  \A p \in Parties : Split(p) =>
    LET ck == SubSeq(session[p].tx.k.ck, 1, IF p \in Initiators THEN 2 ELSE 3)
    IN  \E q \in IF p \in Initiators THEN Responders ELSE Initiators :
          /\ session[p].remote_static = StaticPub(q)
          /\ \E r \in sealed : r.by = q /\ r.ct.k = [ck |-> ck, out |-> 2] /\ r.ct.pt = Claim(q)

(* Two sessions fit together in both directions or in none: if one can read   *)
(* what the other sends then the other can read what it sends, they have each *)
(* other's static keys, and the two directions have different keys.           *)
SessionsPairUp ==
  \A p, q \in Parties : Split(p) /\ Split(q) /\ session[p].tx.k = session[q].rx.k =>
    /\ p # q
    /\ session[q].tx.k = session[p].rx.k
    /\ session[p].tx.k # session[p].rx.k
    /\ session[p].remote_static = StaticPub(q)
    /\ session[q].remote_static = StaticPub(p)

=============================================================================
