--------------------------- MODULE NoiseXXProofs ---------------------------
(***************************************************************************)
(* Proofs about NoiseXX for any number of handshakes on either side, any   *)
(* assignment of users to them, and any bound of the counters.             *)
(*                                                                         *)
(* The argument follows the chaining key.  What a party has mixed into it  *)
(* names the party's own ephemeral key, which nobody else could have sent  *)
(* before the party did; so a key and a nonce determine who encrypts under *)
(* them, and a ciphertext that opens was made by the one party that shares *)
(* the chaining key, in the role opposite to the reader's.                 *)
(* Most of it is reasoning about sets and equality, without arithmetic:    *)
(* those steps name Zenon.                                                 *)
(***************************************************************************)
EXTENDS NoiseXX, TLAPS

\* The keys of the handshake, by what was mixed in, and those of a session.
K1(a) == [ck |-> <<a>>, out |-> 2]
K2(a, b) == [ck |-> <<a, b>>, out |-> 2]
K3(a, b, c) == [ck |-> <<a, b, c>>, out |-> 2]
KT(a, b, c, o) == [ck |-> <<a, b, c, {}>>, out |-> o]

\* The three shared secrets of initiator i and responder r.
ee(i, r) == noise_dh(EphemeralPub(i), EphemeralPub(r))
es(i, r) == noise_dh(EphemeralPub(i), StaticPub(r))
se(i, r) == noise_dh(StaticPub(i), EphemeralPub(r))

Points == {Zero, Other} \cup {EphemeralPub(p) : p \in Parties}

Keyed(k, n) == [has_key |-> TRUE, k |-> k, n |-> n]

Wrote == {p \in Parties : hs[p].msg_index >= (IF p \in Initiators THEN 1 ELSE 2)}

\* A point that may have been received: an ephemeral key is of a party in w, those
\* that have sent theirs.
Seen(x, w) == x \in Points /\ \A z \in Parties : x = EphemeralPub(z) => z \in w

\* Party q encrypted its claim under key k.
Claimed(q, k, sl) == \E r \in sl : r.by = q /\ r.ct.k = k /\ r.ct.pt = Claim(q)

HsFields ==
  {"msg_index", "failed", "split_done", "e", "e_pub", "s", "s_pub", "re", "rs", "ss"}
SymFields == {"h", "ck", "cs"}
CipherFields == {"has_key", "k", "n"}
SessionFields == {"tx", "rx", "remote_static"}

HsShape(h) ==
  /\ h = [x \in HsFields |-> h[x]]
  /\ h.msg_index \in 0 .. 3 /\ h.failed \in BOOLEAN /\ h.split_done \in BOOLEAN

\* A symmetric state with this chaining key and cipher state.
SymIs(ss, ck, cs) == ss = [x \in SymFields |-> ss[x]] /\ ss.ck = ck /\ ss.cs = cs

SessionShape(s) ==
  /\ s = [x \in SessionFields |-> s[x]]
  /\ s.tx = [x \in CipherFields |-> s.tx[x]] /\ s.rx = [x \in CipherFields |-> s.rx[x]]
  /\ s.tx.n \in 0 .. NonceMax /\ s.rx.n \in Nat

\* An initiator that is still in its handshake.
InitiatorInv(p, h, sl) ==
  /\ h.s_pub = StaticPub(p)
  /\ h.msg_index < 3 => h.s = StaticPub(p)
  /\ h.msg_index < 2 => SymIs(h.ss, <<>>, NoCipher)
  /\ h.msg_index = 1 => h.e = EphemeralPub(p)
  /\ h.msg_index = 2 =>
       \E r \in Responders :
         /\ h.re = EphemeralPub(r) /\ h.rs = StaticPub(r)
         /\ SymIs(h.ss, <<ee(p, r), es(p, r)>>, Keyed(K2(ee(p, r), es(p, r)), 1))
         /\ Claimed(r, K2(ee(p, r), es(p, r)), sl)
  /\ h.msg_index = 3 =>
       \E r \in Responders :
         /\ h.rs = StaticPub(r)
         /\ h.ss.ck = <<ee(p, r), es(p, r), se(p, r)>>
         /\ Claimed(r, K2(ee(p, r), es(p, r)), sl)

\* A responder that is.
ResponderInv(p, h, sl, w) ==
  /\ h.s_pub = StaticPub(p)
  /\ h.msg_index < 2 => h.s = StaticPub(p) /\ SymIs(h.ss, <<>>, NoCipher)
  /\ h.msg_index = 1 => Seen(h.re, w)
  /\ h.msg_index = 2 =>
       /\ h.e = EphemeralPub(p)
       /\ \E x \in Points :
            LET a == noise_dh(EphemeralPub(p), x)
                b == noise_dh(StaticPub(p), x)
            IN  SymIs(h.ss, <<a, b>>, Keyed(K2(a, b), 1))
  /\ h.msg_index = 3 =>
       \E i \in Initiators :
         /\ h.rs = StaticPub(i)
         /\ h.ss.ck = <<ee(i, p), es(i, p), se(i, p)>>
         /\ Claimed(i, K3(ee(i, p), es(i, p), se(i, p)), sl)

\* The session of an initiator, and of a responder.
InitiatorSession(p, s, sl) ==
  \E r \in Responders :
    /\ s.tx.k = KT(ee(p, r), es(p, r), se(p, r), 1)
    /\ s.rx.k = KT(ee(p, r), es(p, r), se(p, r), 2)
    /\ s.remote_static = StaticPub(r)
    /\ Claimed(r, K2(ee(p, r), es(p, r)), sl)

ResponderSession(p, s, sl) ==
  \E i \in Initiators :
    /\ s.tx.k = KT(ee(i, p), es(i, p), se(i, p), 2)
    /\ s.rx.k = KT(ee(i, p), es(i, p), se(i, p), 1)
    /\ s.remote_static = StaticPub(i)
    /\ Claimed(i, K3(ee(i, p), es(i, p), se(i, p)), sl)

Texts(sl) == {r.ct : r \in sl}

\* Party p with handshake h, session s and accepted ciphertexts o.
PartyInv(p, h, s, o, sl, w) ==
  /\ HsShape(h) /\ SessionShape(s) /\ o \in Seq(Texts(sl))
  /\ ~h.failed /\ ~h.split_done => /\ p \in Initiators => InitiatorInv(p, h, sl)
                                   /\ p \in Responders => ResponderInv(p, h, sl, w)
  /\ h.split_done => /\ s.tx.has_key /\ s.rx.has_key
                     /\ p \in Initiators => InitiatorSession(p, s, sl)
                     /\ p \in Responders => ResponderSession(p, s, sl)
                     /\ Len(o) = s.rx.n
                     /\ \A i \in 1 .. Len(o) : o[i].n = i - 1 /\ o[i].k = s.rx.k
  /\ ~h.split_done => o = <<>>

\* Who made a ciphertext: its party has handshake h and session s now.
RespMade(c, h, w) ==
  /\ c.by \in Responders /\ h.msg_index >= 2 /\ c.ct.n = 0
  /\ \E x \in Points :
       /\ Seen(x, w)
       /\ LET a == noise_dh(EphemeralPub(c.by), x)
              b == noise_dh(StaticPub(c.by), x)
          IN  \/ c.ct.k = K1(a) /\ c.ct.pt = StaticPub(c.by)
              \/ c.ct.k = K2(a, b) /\ c.ct.pt = Claim(c.by)

InitMade(c, h) ==
  /\ c.by \in Initiators /\ h.msg_index >= 3
  /\ \E r \in Responders :
       \/ c.ct.k = K2(ee(c.by, r), es(c.by, r)) /\ c.ct.n = 1 /\ c.ct.pt = StaticPub(c.by)
       \/ c.ct.k = K3(ee(c.by, r), es(c.by, r), se(c.by, r)) /\ c.ct.n = 0 /\ c.ct.pt = Claim(c.by)

SessionMade(c, h, s) ==
  h.split_done /\ c.ct.k = s.tx.k /\ c.ct.n \in Nat /\ c.ct.n < s.tx.n

SealInv(c, h, s, w) ==
  c.by \in Parties /\ (RespMade(c, h, w) \/ InitMade(c, h) \/ SessionMade(c, h, s))

WireInv(m, sl, w) ==
  /\ m = [x \in {"idx", "e", "s", "pl"} |-> m[x]]
  /\ m.idx \in 0 .. 2 /\ Seen(m.e, w)
  /\ m.idx # 0 => m.s \in Texts(sl) /\ m.pl \in Texts(sl)

Unique == \A a, b \in sealed : a.ct.k = b.ct.k /\ a.ct.n = b.ct.n => a = b

IInv ==
  /\ hs = [p \in Parties |-> hs[p]] /\ session = [p \in Parties |-> session[p]]
  /\ opened = [p \in Parties |-> opened[p]]
  /\ \A p \in Parties : PartyInv(p, hs[p], session[p], opened[p], sealed, Wrote)
  /\ \A c \in sealed : SealInv(c, hs[c.by], session[c.by], Wrote)
  /\ \A m \in wire : WireInv(m, sealed, Wrote)
  /\ Unique

-----------------------------------------------------------------------------
(* Sequences of a known length.                                             *)

LEMMA Appended ==
  ASSUME NEW S, NEW s \in Seq(S), NEW x \in S
  PROVE  /\ Append(s, x) \in Seq(S) /\ Len(Append(s, x)) = Len(s) + 1
         /\ Append(s, x)[Len(s) + 1] = x /\ \A i \in 1 .. Len(s) : Append(s, x)[i] = s[i]
OBVIOUS

LEMMA Tuples ==
  ASSUME NEW S, NEW t \in Seq(S)
  PROVE  /\ Len(t) = 2 => t = <<t[1], t[2]>>
         /\ Len(t) = 3 => t = <<t[1], t[2], t[3]>>
         /\ Len(t) = 4 => t = <<t[1], t[2], t[3], t[4]>>
<1>1. Len(t) = 2 => t = <<t[1], t[2]>>
  OBVIOUS
<1>2. Len(t) = 3 => t = <<t[1], t[2], t[3]>>
  OBVIOUS
<1>3. Len(t) = 4 => t = <<t[1], t[2], t[3], t[4]>>
  OBVIOUS
<1> QED BY Zenon, <1>1, <1>2, <1>3

LEMMA AppendOne ==
  ASSUME NEW a, NEW b
  PROVE  Append(<<>>, a) = <<a>> /\ Append(<<a>>, b) = <<a, b>>
<1>1. Append(<<>>, a) = <<a>>
  OBVIOUS
<1> DEFINE S == {a, b}
           s == <<a>>
           t == Append(s, b)
<1>2. s \in Seq(S) /\ b \in S /\ Len(s) = 1 /\ s[1] = a
  OBVIOUS
<1> HIDE DEF s, S
<1>3. t \in Seq(S) /\ Len(t) = Len(s) + 1 /\ t[Len(s) + 1] = b /\ \A i \in 1 .. Len(s) : t[i] = s[i]
  BY SMTT(20), <1>2, Appended
<1> HIDE DEF t
<1>4. Len(t) = 2 /\ t[1] = a /\ t[2] = b
  BY <1>2, <1>3
<1>5. t = <<a, b>>
  BY Zenon, <1>3, <1>4, Tuples
<1> QED BY Zenon, <1>1, <1>5 DEF t, s

LEMMA AppendTwo ==
  ASSUME NEW a, NEW b, NEW c
  PROVE  Append(<<a, b>>, c) = <<a, b, c>>
<1> DEFINE S == {a, b, c}
           s == <<a, b>>
           t == Append(s, c)
<1>2. s \in Seq(S) /\ c \in S /\ Len(s) = 2 /\ s[1] = a /\ s[2] = b
  OBVIOUS
<1> HIDE DEF s, S
<1>3. t \in Seq(S) /\ Len(t) = Len(s) + 1 /\ t[Len(s) + 1] = c /\ \A i \in 1 .. Len(s) : t[i] = s[i]
  BY SMTT(20), <1>2, Appended
<1> HIDE DEF t
<1>4. Len(t) = 3 /\ t[1] = a /\ t[2] = b /\ t[3] = c
  BY <1>2, <1>3
<1>5. t = <<a, b, c>>
  BY Zenon, <1>3, <1>4, Tuples
<1> QED BY Zenon, <1>5 DEF t, s

LEMMA AppendThree ==
  ASSUME NEW a, NEW b, NEW c, NEW d
  PROVE  Append(<<a, b, c>>, d) = <<a, b, c, d>>
<1> DEFINE S == {a, b, c, d}
           s == <<a, b, c>>
           t == Append(s, d)
<1>2. s \in Seq(S) /\ d \in S /\ Len(s) = 3 /\ s[1] = a /\ s[2] = b /\ s[3] = c
  OBVIOUS
<1> HIDE DEF s, S
<1>3. t \in Seq(S) /\ Len(t) = Len(s) + 1 /\ t[Len(s) + 1] = d /\ \A i \in 1 .. Len(s) : t[i] = s[i]
  BY SMTT(20), <1>2, Appended
<1> HIDE DEF t
<1>4. Len(t) = 4 /\ t[1] = a /\ t[2] = b /\ t[3] = c /\ t[4] = d
  BY <1>2, <1>3
<1>5. t = <<a, b, c, d>>
  BY Zenon, <1>3, <1>4, Tuples
<1> QED BY Zenon, <1>5 DEF t, s

LEMMA SplitFrom == \A a, b, c, o : KT(a, b, c, o).ck = <<a, b, c, {}>>
BY Zenon DEF KT

LEMMA FirstOf ==
  ASSUME NEW a, NEW b, NEW c, NEW d
  PROVE  SubSeq(<<a, b, c, d>>, 1, 2) = <<a, b>> /\ SubSeq(<<a, b, c, d>>, 1, 3) = <<a, b, c>>
<1> DEFINE S == {a, b, c, d}
           s == <<a, b, c, d>>
           t == SubSeq(s, 1, 2)
           u == SubSeq(s, 1, 3)
<1>1. s \in Seq(S) /\ Len(s) = 4 /\ s[1] = a /\ s[2] = b /\ s[3] = c
  OBVIOUS
<1> HIDE DEF s, S
<1>2. t \in Seq(S) /\ Len(t) = 2 /\ t[1] = a /\ t[2] = b
  BY <1>1
<1>3. u \in Seq(S) /\ Len(u) = 3 /\ u[1] = a /\ u[2] = b /\ u[3] = c
  BY <1>1
<1> HIDE DEF t, u
<1>4. t = <<a, b>>
  BY Zenon, <1>2, Tuples
<1>5. u = <<a, b, c>>
  BY Zenon, <1>3, Tuples
<1> QED BY Zenon, <1>4, <1>5 DEF t, u, s

-----------------------------------------------------------------------------
(* Keys and shared secrets.                                                 *)

LEMMA Names ==
  /\ \A p, q : EphemeralPub(p) = EphemeralPub(q) => p = q
  /\ \A p \in Parties : EphemeralPub(p) # Zero /\ EphemeralPub(p) # Other
  /\ \A p \in Initiators, q \in Responders : p # q
BY Zenon, NoiseAssumption DEF EphemeralPub, Parties

LEMMA Pairs ==
  ASSUME NEW a, NEW b, NEW c, NEW d, noise_dh(a, b) = noise_dh(c, d)
  PROVE  (a = c /\ b = d) \/ (a = d /\ b = c)
BY Zenon DEF noise_dh

\* The first secret names the two parties.
LEMMA Same ==
  ASSUME NEW i \in Initiators, NEW r \in Responders, NEW j \in Initiators, NEW q \in Responders,
         ee(i, r) = ee(j, q)
  PROVE  i = j /\ r = q
<1>1. (EphemeralPub(i) = EphemeralPub(j) /\ EphemeralPub(r) = EphemeralPub(q))
        \/ (EphemeralPub(i) = EphemeralPub(q) /\ EphemeralPub(r) = EphemeralPub(j))
  BY Pairs DEF ee
<1> QED BY Zenon, <1>1, Names

\* A key tells how far the handshake was and what was mixed in.
LEMMA KeysDiffer ==
  ASSUME NEW a, NEW b, NEW c, NEW d, NEW e, NEW f, NEW o, NEW q
  PROVE  /\ K1(a) = K1(d) => a = d
         /\ K2(a, b) = K2(d, e) => a = d /\ b = e
         /\ K3(a, b, c) = K3(d, e, f) => a = d /\ b = e /\ c = f
         /\ KT(a, b, c, o) = KT(d, e, f, q) => a = d /\ b = e /\ c = f /\ o = q
         /\ K1(a) # K2(d, e) /\ K1(a) # K3(d, e, f) /\ K1(a) # KT(d, e, f, q)
         /\ K2(a, b) # K3(d, e, f) /\ K2(a, b) # KT(d, e, f, q)
         /\ K3(a, b, c) # KT(d, e, f, q)
<1>1. /\ K1(a).ck = <<a>> /\ K1(d).ck = <<d>> /\ K2(a, b).ck = <<a, b>> /\ K2(d, e).ck = <<d, e>>
      /\ K3(a, b, c).ck = <<a, b, c>> /\ K3(d, e, f).ck = <<d, e, f>>
  BY Zenon DEF K1, K2, K3
<1>2. /\ KT(a, b, c, o).ck = <<a, b, c, {}>> /\ KT(d, e, f, q).ck = <<d, e, f, {}>>
      /\ KT(a, b, c, o).out = o /\ KT(d, e, f, q).out = q
  BY Zenon DEF KT
<1>3. /\ <<a>> = <<d>> => a = d
      /\ <<a, b>> = <<d, e>> => a = d /\ b = e
      /\ <<a, b, c>> = <<d, e, f>> => a = d /\ b = e /\ c = f
      /\ <<a, b, c, {}>> = <<d, e, f, {}>> => a = d /\ b = e /\ c = f
  BY Zenon
<1>4. /\ <<a>> # <<d, e>> /\ <<a>> # <<d, e, f>> /\ <<a>> # <<d, e, f, {}>>
      /\ <<a, b>> # <<d, e, f>> /\ <<a, b>> # <<d, e, f, {}>> /\ <<a, b, c>> # <<d, e, f, {}>>
  BY Zenon
<1> QED BY Zenon, <1>1, <1>2, <1>3, <1>4

LEMMA Nonces ==
  /\ NextNonce(0) = 1
  /\ \A n \in 0 .. NonceMax : /\ NextNonce(n) \in 0 .. NonceMax
                              /\ n < NonceMax => NextNonce(n) = n + 1
                              /\ n = NonceMax => NextNonce(n) = n
<1>1. NonceMax \in Nat /\ NonceMax > 2
  BY Zenon, NoiseAssumption
<1>2. ASSUME NEW n \in 0 .. NonceMax, n < NonceMax PROVE NextNonce(n) = n + 1
  <2>1. (n + 1) % (NonceMax + 1) = n + 1
    BY <1>1, <1>2
  <2> QED BY <1>1, <1>2, <2>1 DEF NextNonce
<1>3. ASSUME NEW n \in 0 .. NonceMax, n = NonceMax PROVE NextNonce(n) = n
  BY <1>1, <1>3 DEF NextNonce
<1> QED BY <1>1, <1>2, <1>3

-----------------------------------------------------------------------------
(* What the operations on the symmetric state return.                       *)

LEMMA KeyedParts ==
  ASSUME NEW k, NEW n
  PROVE  /\ Keyed(k, n).has_key /\ Keyed(k, n).k = k /\ Keyed(k, n).n = n
         /\ Keyed(k, n) = [x \in CipherFields |-> Keyed(k, n)[x]]
BY Zenon DEF Keyed, CipherFields

LEMMA Hashed ==
  ASSUME NEW ss, NEW ck, NEW cs, NEW d, SymIs(ss, ck, cs)
  PROVE  SymIs(symmetric_mix_hash(ss, d), ck, cs)
BY Zenon DEF symmetric_mix_hash, SymIs, SymFields

LEMMA Mixed ==
  ASSUME NEW ss, NEW ck, NEW cs, NEW d, SymIs(ss, ck, cs)
  PROVE  SymIs(symmetric_mix_key(ss, d), Append(ck, d), Keyed([ck |-> Append(ck, d), out |-> 2], 0))
<1>1. cipher_init_key(hkdf_blake2b(ck, d, 2)) = Keyed([ck |-> Append(ck, d), out |-> 2], 0)
  BY Zenon DEF Keyed, cipher_init_key, hkdf_blake2b
<1> QED BY Zenon, <1>1 DEF symmetric_mix_key, SymIs, SymFields

\* Mixing in the first, the second and the third secret.
LEMMA FirstKey ==
  ASSUME NEW ss, NEW d, NEW a, SymIs(ss, <<>>, NoCipher)
  PROVE  SymIs(symmetric_mix_key(symmetric_mix_hash(ss, d), a), <<a>>, Keyed(K1(a), 0))
<1>1. SymIs(symmetric_mix_hash(ss, d), <<>>, NoCipher)
  BY Zenon, Hashed
<1>2. SymIs(symmetric_mix_key(symmetric_mix_hash(ss, d), a), Append(<<>>, a),
            Keyed([ck |-> Append(<<>>, a), out |-> 2], 0))
  BY Zenon, <1>1, Mixed
<1> QED BY Zenon, <1>2, AppendOne DEF K1

LEMMA SecondKey ==
  ASSUME NEW ss, NEW cs, NEW a, NEW b, SymIs(ss, <<a>>, cs)
  PROVE  SymIs(symmetric_mix_key(ss, b), <<a, b>>, Keyed(K2(a, b), 0))
<1>1. SymIs(symmetric_mix_key(ss, b), Append(<<a>>, b), Keyed([ck |-> Append(<<a>>, b), out |-> 2], 0))
  BY Zenon, Mixed
<1> QED BY Zenon, <1>1, AppendOne DEF K2

LEMMA ThirdKey ==
  ASSUME NEW ss, NEW cs, NEW a, NEW b, NEW c, SymIs(ss, <<a, b>>, cs)
  PROVE  SymIs(symmetric_mix_key(ss, c), <<a, b, c>>, Keyed(K3(a, b, c), 0))
<1>1. SymIs(symmetric_mix_key(ss, c), Append(<<a, b>>, c), Keyed([ck |-> Append(<<a, b>>, c), out |-> 2], 0))
  BY Zenon, Mixed
<1> QED BY Zenon, <1>1, AppendTwo DEF K3

LEMMA PassedThrough ==
  ASSUME NEW ss, NEW ck, NEW d, SymIs(ss, ck, NoCipher)
  PROVE  /\ SymIs(symmetric_encrypt_and_hash(ss, d), ck, NoCipher)
         /\ SymIs(symmetric_decrypt_and_hash(ss, d), ck, NoCipher)
<1>1. AfterEncrypt(NoCipher) = NoCipher /\ AfterDecrypt(NoCipher) = NoCipher
  BY Zenon DEF NoCipher, AfterEncrypt, AfterDecrypt
<1>2. SymIs(symmetric_encrypt_and_hash(ss, d), ck, NoCipher)
  BY Zenon, <1>1 DEF symmetric_encrypt_and_hash, SymIs, SymFields
<1>3. SymIs(symmetric_decrypt_and_hash(ss, d), ck, NoCipher)
  BY Zenon, <1>1 DEF symmetric_decrypt_and_hash, SymIs, SymFields
<1> QED BY Zenon, <1>2, <1>3

LEMMA Encrypted ==
  ASSUME NEW ss, NEW ck, NEW k, NEW n, NEW d, SymIs(ss, ck, Keyed(k, n))
  PROVE  /\ cipher_encrypt(ss.cs, ss.h, d) = [k |-> k, n |-> n, ad |-> ss.h, pt |-> d]
         /\ SymIs(symmetric_encrypt_and_hash(ss, d), ck, Keyed(k, NextNonce(n)))
<1>1. cipher_encrypt(Keyed(k, n), ss.h, d) = [k |-> k, n |-> n, ad |-> ss.h, pt |-> d]
  BY Zenon DEF cipher_encrypt, Keyed, Ciphertext
<1>2. AfterEncrypt(Keyed(k, n)) = Keyed(k, NextNonce(n))
  BY Zenon DEF AfterEncrypt, Keyed
<1>3. SymIs(symmetric_encrypt_and_hash(ss, d), ck, Keyed(k, NextNonce(n)))
  BY Zenon, <1>2 DEF symmetric_encrypt_and_hash, SymIs, SymFields
<1> QED BY Zenon, <1>1, <1>3 DEF SymIs

LEMMA Decrypted ==
  ASSUME NEW ss, NEW ck, NEW k, NEW n, NEW d, SymIs(ss, ck, Keyed(k, n))
  PROVE  SymIs(symmetric_decrypt_and_hash(ss, d), ck, Keyed(k, n + 1))
<1>1. AfterDecrypt(Keyed(k, n)) = Keyed(k, n + 1)
  BY Zenon DEF AfterDecrypt, Keyed
<1> QED BY Zenon, <1>1 DEF symmetric_decrypt_and_hash, SymIs, SymFields

\* What opens under a key and a nonce was encrypted under them.
LEMMA Opens ==
  ASSUME NEW k, NEW n, NEW ad, NEW ct, Authentic(Keyed(k, n), ad, ct)
  PROVE  ct # Other /\ ct.k = k /\ ct.n = n
BY Zenon DEF Authentic, Keyed

-----------------------------------------------------------------------------
(* What holds of a party goes on holding while others encrypt and write.    *)

LEMMA SeenGrows ==
  ASSUME NEW x, NEW w, NEW w2, w \subseteq w2, Seen(x, w)
  PROVE  Seen(x, w2)
BY Zenon DEF Seen

LEMMA ClaimedGrows ==
  ASSUME NEW q, NEW k, NEW sl, NEW sl2, sl \subseteq sl2, Claimed(q, k, sl)
  PROVE  Claimed(q, k, sl2)
BY Zenon DEF Claimed

LEMMA TextsGrow ==
  ASSUME NEW sl, NEW sl2, sl \subseteq sl2
  PROVE  Texts(sl) \subseteq Texts(sl2) /\ Seq(Texts(sl)) \subseteq Seq(Texts(sl2))
<1>1. Texts(sl) \subseteq Texts(sl2)
  BY Zenon DEF Texts
<1> QED BY <1>1

LEMMA PartyGrows ==
  ASSUME NEW p, NEW h, NEW s, NEW o, NEW sl, NEW w, NEW sl2, NEW w2, sl \subseteq sl2, w \subseteq w2,
         PartyInv(p, h, s, o, sl, w)
  PROVE  PartyInv(p, h, s, o, sl2, w2)
<1>1. o \in Seq(Texts(sl2))
  BY Zenon, TextsGrow DEF PartyInv
<1>2. InitiatorInv(p, h, sl) => InitiatorInv(p, h, sl2)
  <2> SUFFICES ASSUME InitiatorInv(p, h, sl) PROVE InitiatorInv(p, h, sl2)
    BY Zenon
  <2>1. ASSUME NEW r \in Responders, Claimed(r, K2(ee(p, r), es(p, r)), sl)
        PROVE  Claimed(r, K2(ee(p, r), es(p, r)), sl2)
    BY Zenon, <2>1, ClaimedGrows
  <2> QED BY Zenon, <2>1 DEF InitiatorInv
<1>3. ResponderInv(p, h, sl, w) => ResponderInv(p, h, sl2, w2)
  <2> SUFFICES ASSUME ResponderInv(p, h, sl, w) PROVE ResponderInv(p, h, sl2, w2)
    BY Zenon
  <2>1. ASSUME NEW i \in Initiators, Claimed(i, K3(ee(i, p), es(i, p), se(i, p)), sl)
        PROVE  Claimed(i, K3(ee(i, p), es(i, p), se(i, p)), sl2)
    BY Zenon, <2>1, ClaimedGrows
  <2>2. Seen(h.re, w) => Seen(h.re, w2)
    BY Zenon, SeenGrows
  <2> QED BY Zenon, <2>1, <2>2 DEF ResponderInv
<1>4. InitiatorSession(p, s, sl) => InitiatorSession(p, s, sl2)
  BY Zenon, ClaimedGrows DEF InitiatorSession
<1>5. ResponderSession(p, s, sl) => ResponderSession(p, s, sl2)
  BY Zenon, ClaimedGrows DEF ResponderSession
<1> QED BY Zenon, <1>1, <1>2, <1>3, <1>4, <1>5 DEF PartyInv

LEMMA WireGrows ==
  ASSUME NEW m, NEW sl, NEW w, NEW sl2, NEW w2, sl \subseteq sl2, w \subseteq w2, WireInv(m, sl, w)
  PROVE  WireInv(m, sl2, w2)
<1>1. Texts(sl) \subseteq Texts(sl2) /\ Seen(m.e, w2)
  BY Zenon, TextsGrow, SeenGrows DEF WireInv
<1> QED BY Zenon, <1>1 DEF WireInv

\* A party with handshake h and session s may come to have H and S.
Later(h, s, H, S) ==
  /\ h.msg_index \in Nat /\ H.msg_index \in Nat /\ H.msg_index >= h.msg_index
  /\ h.split_done => /\ H.split_done /\ S.tx.k = s.tx.k
                     /\ s.tx.n \in Nat /\ S.tx.n \in Nat /\ S.tx.n >= s.tx.n

LEMMA SealGrows ==
  ASSUME NEW c, NEW h, NEW s, NEW w, NEW h2, NEW s2, NEW w2, w \subseteq w2,
         Later(h, s, h2, s2), SealInv(c, h, s, w)
  PROVE  SealInv(c, h2, s2, w2)
<1>1. RespMade(c, h, w) => RespMade(c, h2, w2)
  <2>1. h.msg_index >= 2 => h2.msg_index >= 2
    BY DEF Later
  <2>2. \A x : Seen(x, w) => Seen(x, w2)
    BY Zenon, SeenGrows
  <2> QED BY Zenon, <2>1, <2>2 DEF RespMade
<1>2. InitMade(c, h) => InitMade(c, h2)
  <2>1. h.msg_index >= 3 => h2.msg_index >= 3
    BY DEF Later
  <2> QED BY Zenon, <2>1 DEF InitMade
<1>3. SessionMade(c, h, s) => SessionMade(c, h2, s2)
  BY DEF SessionMade, Later
<1> QED BY Zenon, <1>1, <1>2, <1>3 DEF SealInv

Moved(p, H, S, O) ==
  hs' = [hs EXCEPT ![p] = H] /\ session' = [session EXCEPT ![p] = S] /\ opened' = [opened EXCEPT ![p] = O]

LEMMA Kept ==
  ASSUME IInv, NEW p \in Parties
  PROVE  /\ session = [session EXCEPT ![p] = session[p]]
         /\ opened = [opened EXCEPT ![p] = opened[p]]
         /\ hs = [hs EXCEPT ![p] = hs[p]]
BY Zenon DEF IInv

\* A step of party p, all of the new state at once.
LEMMA Step ==
  ASSUME IInv, NEW p \in Parties, NEW H, NEW S, NEW O, Moved(p, H, S, O),
         Later(hs[p], session[p], H, S), sealed \subseteq sealed',
         PartyInv(p, H, S, O, sealed', Wrote'),
         \A c \in sealed' : c \in sealed \/ SealInv(c, hs'[c.by], session'[c.by], Wrote'),
         \A m \in wire' : m \in wire \/ WireInv(m, sealed', Wrote'),
         Unique'
  PROVE  IInv'
<1>1. /\ hs'[p] = H /\ session'[p] = S /\ opened'[p] = O
      /\ \A q \in Parties : q # p => hs'[q] = hs[q] /\ session'[q] = session[q] /\ opened'[q] = opened[q]
  BY Zenon DEF IInv, Moved
<1>2. /\ hs' = [q \in Parties |-> hs'[q]] /\ session' = [q \in Parties |-> session'[q]]
      /\ opened' = [q \in Parties |-> opened'[q]]
  BY Zenon DEF IInv, Moved
<1>3. ASSUME NEW q \in Parties
      PROVE  PartyInv(q, hs[q], session[q], opened[q], sealed, Wrote) /\ Later(hs[q], session[q], hs'[q], session'[q])
  <2>1. PartyInv(q, hs[q], session[q], opened[q], sealed, Wrote)
    BY ZenonT(40) DEF IInv
  <2>2. hs[q].msg_index \in Nat /\ session[q].tx.n \in Nat
    BY <2>1, NoiseAssumption DEF PartyInv, HsShape, SessionShape
  <2>3. q # p => Later(hs[q], session[q], hs'[q], session'[q])
    BY <1>1, <2>2 DEF Later
  <2> QED BY Zenon, <1>1, <2>1, <2>3
<1>4. Wrote \subseteq Wrote'
  <2> SUFFICES ASSUME NEW q \in Wrote PROVE q \in Wrote'
    BY Zenon
  <2>1. q \in Parties /\ hs[q].msg_index >= (IF q \in Initiators THEN 1 ELSE 2)
    BY Zenon DEF Wrote
  <2>2. hs[q].msg_index \in Nat /\ hs'[q].msg_index \in Nat /\ hs'[q].msg_index >= hs[q].msg_index
    BY Zenon, <1>3, <2>1 DEF Later
  <2>3. hs'[q].msg_index >= (IF q \in Initiators THEN 1 ELSE 2)
    BY <2>1, <2>2
  <2> QED BY Zenon, <2>1, <2>3 DEF Wrote
<1>5. ASSUME NEW q \in Parties
      PROVE  PartyInv(q, hs'[q], session'[q], opened'[q], sealed', Wrote')
  <2>1. CASE q = p
    BY Zenon, <1>1, <2>1
  <2>2. CASE q # p
    BY Zenon, <1>1, <1>3, <1>4, <2>2, PartyGrows
  <2> QED BY Zenon, <2>1, <2>2
<1>6. ASSUME NEW c \in sealed'
      PROVE  SealInv(c, hs'[c.by], session'[c.by], Wrote')
  <2>1. CASE c \in sealed
    <3>1. SealInv(c, hs[c.by], session[c.by], Wrote) /\ c.by \in Parties
      BY Zenon, <2>1 DEF IInv, SealInv
    <3>2. Later(hs[c.by], session[c.by], hs'[c.by], session'[c.by])
      BY Zenon, <1>3, <3>1
    <3> QED BY <1>4, <3>1, <3>2, SealGrows
  <2> QED BY Zenon, <2>1
<1>7. ASSUME NEW m \in wire'
      PROVE  WireInv(m, sealed', Wrote')
  <2>1. CASE m \in wire
    BY Zenon, <1>4, <2>1, WireGrows DEF IInv
  <2> QED BY Zenon, <2>1
<1> QED BY Zenon, <1>2, <1>5, <1>6, <1>7 DEF IInv

-----------------------------------------------------------------------------
(* Handshakes that fail, the split, and the transport.                      *)

LEMMA WipedFacts ==
  ASSUME NEW h, HsShape(h)
  PROVE  /\ HsShape(Wiped(h)) /\ Wiped(h).failed
         /\ Wiped(h).msg_index = h.msg_index /\ Wiped(h).split_done = h.split_done
BY Zenon DEF HsShape, Wiped, HsFields

LEMMA FailStep ==
  ASSUME IInv, NEW p \in Parties, Usable(p), hs' = [hs EXCEPT ![p] = Wiped(hs[p])],
         UNCHANGED <<session, wire, sealed, opened>>
  PROVE  IInv'
<1>h. PICK H : H = Wiped(hs[p])
  BY Zenon
<1>1. PartyInv(p, hs[p], session[p], opened[p], sealed, Wrote) /\ ~hs[p].split_done
  BY Zenon DEF IInv, Usable
<1>2. HsShape(H) /\ H.failed /\ H.msg_index = hs[p].msg_index /\ ~H.split_done
  BY Zenon, <1>h, <1>1, WipedFacts DEF PartyInv
<1>3. Moved(p, H, session[p], opened[p])
  BY Zenon, <1>h, Kept DEF Moved
<1>4. Later(hs[p], session[p], H, session[p])
  BY <1>1, <1>2 DEF Later, PartyInv, HsShape
<1>5. PartyInv(p, H, session[p], opened[p], sealed, Wrote')
  BY Zenon, <1>1, <1>2 DEF PartyInv
<1>6. Unique'
  BY Zenon DEF IInv, Unique
<1>s. PICK S, O : S = session[p] /\ O = opened[p]
  BY Zenon
<1> QED BY Zenon, <1>3, <1>4, <1>5, <1>6, <1>s, Step

LEMMA SplitStep ==
  ASSUME IInv, NEW p \in Parties, handshake_split(p)
  PROVE  IInv'
<1>h. PICK H : H = [Wiped(hs[p]) EXCEPT !.failed = FALSE, !.split_done = TRUE, !.ss.cs = NoCipher]
  BY Zenon
<1>s. PICK S : S = [tx |-> symmetric_split(p).tx, rx |-> symmetric_split(p).rx,
                    remote_static |-> hs[p].rs]
  BY Zenon
<1>o. PICK O : O = opened[p]
  BY Zenon
<1>1. PartyInv(p, hs[p], session[p], opened[p], sealed, Wrote) /\ ~hs[p].split_done /\ ~hs[p].failed
      /\ hs[p].msg_index = 3
  <2>1. PartyInv(p, hs[p], session[p], opened[p], sealed, Wrote)
    BY Zenon DEF IInv
  <2>2. hs[p].msg_index \in 0 .. 3 /\ hs[p].msg_index >= 3
    BY Zenon, <2>1 DEF PartyInv, HsShape, handshake_split, handshake_is_complete
  <2> QED BY <2>1, <2>2 DEF handshake_split, Usable
<1>2. HsShape(H) /\ ~H.failed /\ H.msg_index = hs[p].msg_index /\ H.split_done
  <2>1. HsShape(Wiped(hs[p])) /\ Wiped(hs[p]).msg_index = hs[p].msg_index
    BY Zenon, <1>1, WipedFacts DEF PartyInv
  <2> QED BY Zenon, <1>h, <2>1 DEF HsShape, HsFields
<1>3. Moved(p, H, S, O)
  BY Zenon, <1>h, <1>s, <1>o, Kept DEF Moved, handshake_split
<1>4. Later(hs[p], session[p], H, S)
  BY <1>1, <1>2 DEF Later, PartyInv, HsShape
<1>5. /\ SessionShape(S) /\ S.tx.has_key /\ S.rx.has_key /\ S.rx.n = 0 /\ S.remote_static = hs[p].rs
      /\ p \in Initiators => /\ S.tx.k = [ck |-> Append(hs[p].ss.ck, {}), out |-> 1]
                             /\ S.rx.k = [ck |-> Append(hs[p].ss.ck, {}), out |-> 2]
      /\ p \notin Initiators => /\ S.tx.k = [ck |-> Append(hs[p].ss.ck, {}), out |-> 2]
                                /\ S.rx.k = [ck |-> Append(hs[p].ss.ck, {}), out |-> 1]
  <2> DEFINE k(o) == [ck |-> Append(hs[p].ss.ck, {}), out |-> o]
  <2>1. \A o : cipher_init_key(hkdf_blake2b(hs[p].ss.ck, {}, o)) = Keyed(k(o), 0)
    BY Zenon DEF cipher_init_key, hkdf_blake2b, Keyed
  <2> HIDE DEF k
  <2>2. CASE p \in Initiators
    <3>1. symmetric_split(p).tx = Keyed(k(1), 0) /\ symmetric_split(p).rx = Keyed(k(2), 0)
      BY Zenon, <2>1, <2>2 DEF symmetric_split
    <3>2. S.tx = Keyed(k(1), 0) /\ S.rx = Keyed(k(2), 0) /\ S.remote_static = hs[p].rs
          /\ S = [x \in SessionFields |-> S[x]]
      BY Zenon, <1>s, <3>1 DEF SessionFields
    <3>3. SessionShape(S)
      BY <3>2, KeyedParts, NoiseAssumption DEF SessionShape
    <3> QED BY <2>2, <3>2, <3>3, KeyedParts DEF k
  <2>3. CASE p \notin Initiators
    <3>1. symmetric_split(p).tx = Keyed(k(2), 0) /\ symmetric_split(p).rx = Keyed(k(1), 0)
      BY Zenon, <2>1, <2>3 DEF symmetric_split
    <3>2. S.tx = Keyed(k(2), 0) /\ S.rx = Keyed(k(1), 0) /\ S.remote_static = hs[p].rs
          /\ S = [x \in SessionFields |-> S[x]]
      BY Zenon, <1>s, <3>1 DEF SessionFields
    <3>3. SessionShape(S)
      BY <3>2, KeyedParts, NoiseAssumption DEF SessionShape
    <3> QED BY <2>3, <3>2, <3>3, KeyedParts DEF k
  <2> QED BY Zenon, <2>2, <2>3
<1>6. p \in Initiators => InitiatorSession(p, S, sealed)
  <2> SUFFICES ASSUME p \in Initiators PROVE InitiatorSession(p, S, sealed)
    BY Zenon
  <2>1. PICK r \in Responders :
          /\ hs[p].rs = StaticPub(r) /\ hs[p].ss.ck = <<ee(p, r), es(p, r), se(p, r)>>
          /\ Claimed(r, K2(ee(p, r), es(p, r)), sealed)
    BY Zenon, <1>1 DEF PartyInv, InitiatorInv
  <2>2. Append(hs[p].ss.ck, {}) = <<ee(p, r), es(p, r), se(p, r), {}>>
    BY Zenon, <2>1, AppendThree
  <2> QED BY Zenon, <1>5, <2>1, <2>2 DEF InitiatorSession, KT
<1>7. p \in Responders => ResponderSession(p, S, sealed)
  <2> SUFFICES ASSUME p \in Responders PROVE ResponderSession(p, S, sealed)
    OBVIOUS
  <2>1. PICK i \in Initiators :
          /\ hs[p].rs = StaticPub(i) /\ hs[p].ss.ck = <<ee(i, p), es(i, p), se(i, p)>>
          /\ Claimed(i, K3(ee(i, p), es(i, p), se(i, p)), sealed)
    BY Zenon, <1>1 DEF PartyInv, ResponderInv
  <2>2. Append(hs[p].ss.ck, {}) = <<ee(i, p), es(i, p), se(i, p), {}>>
    BY Zenon, <2>1, AppendThree
  <2>3. p \notin Initiators
    BY Zenon, NoiseAssumption
  <2> QED BY Zenon, <1>5, <2>1, <2>2, <2>3 DEF ResponderSession, KT
<1>8. PartyInv(p, H, S, O, sealed, Wrote')
  <2>1. O = <<>> /\ O \in Seq(Texts(sealed)) /\ Len(O) = 0
    BY Zenon, <1>o, <1>1 DEF PartyInv
  <2> QED BY <1>2, <1>5, <1>6, <1>7, <2>1 DEF PartyInv
<1>9. Unique' /\ sealed' = sealed /\ wire' = wire
  BY Zenon DEF IInv, Unique, handshake_split
<1> QED BY Zenon, <1>3, <1>4, <1>8, <1>9, Step

\* The key a session sends under is no other party's, and no key of a handshake.
LEMMA SendingKey ==
  ASSUME IInv, NEW p \in Parties, hs[p].split_done
  PROVE  /\ \E a, b, c, o : session[p].tx.k = KT(a, b, c, o)
         /\ session[p].tx.k # session[p].rx.k
         /\ \A q \in Parties : hs[q].split_done /\ session[q].tx.k = session[p].tx.k => q = p
<1> DEFINE I(q) == q \in Initiators /\ InitiatorSession(q, session[q], sealed)
           R(q) == q \in Responders /\ ResponderSession(q, session[q], sealed)
<1>1. \A q \in Parties : hs[q].split_done => I(q) \/ R(q)
  BY Zenon DEF IInv, PartyInv, Parties
<1>2. ASSUME NEW q, I(q)
      PROVE  \E r \in Responders : /\ session[q].tx.k = KT(ee(q, r), es(q, r), se(q, r), 1)
                                   /\ session[q].rx.k = KT(ee(q, r), es(q, r), se(q, r), 2)
  BY Zenon, <1>2 DEF InitiatorSession
<1>3. ASSUME NEW q, R(q)
      PROVE  \E i \in Initiators : /\ session[q].tx.k = KT(ee(i, q), es(i, q), se(i, q), 2)
                                   /\ session[q].rx.k = KT(ee(i, q), es(i, q), se(i, q), 1)
  BY Zenon, <1>3 DEF ResponderSession
<1>4. ASSUME I(p)
      PROVE  /\ \E a, b, c, o : session[p].tx.k = KT(a, b, c, o)
             /\ session[p].tx.k # session[p].rx.k
             /\ \A q \in Parties : hs[q].split_done /\ session[q].tx.k = session[p].tx.k => q = p
  <2>1. PICK r \in Responders : /\ session[p].tx.k = KT(ee(p, r), es(p, r), se(p, r), 1)
                                /\ session[p].rx.k = KT(ee(p, r), es(p, r), se(p, r), 2)
    BY Zenon, <1>2, <1>4
  <2>2. session[p].tx.k # session[p].rx.k
    BY <2>1, KeysDiffer
  <2>3. ASSUME NEW q \in Parties, hs[q].split_done, session[q].tx.k = session[p].tx.k PROVE q = p
    <3>1. CASE I(q)
      <4>1. PICK v \in Responders : session[q].tx.k = KT(ee(q, v), es(q, v), se(q, v), 1)
        BY Zenon, <1>2, <3>1
      <4>2. ee(q, v) = ee(p, r)
        BY <2>1, <2>3, <4>1, KeysDiffer
      <4> QED BY Zenon, <1>4, <3>1, <4>2, Same
    <3>2. CASE R(q)
      <4>1. PICK i \in Initiators : session[q].tx.k = KT(ee(i, q), es(i, q), se(i, q), 2)
        BY Zenon, <1>3, <3>2
      <4> QED BY <2>1, <2>3, <4>1, KeysDiffer
    <3> QED BY Zenon, <1>1, <2>3, <3>1, <3>2
  <2> QED BY Zenon, <2>1, <2>2, <2>3
<1>5. ASSUME R(p)
      PROVE  /\ \E a, b, c, o : session[p].tx.k = KT(a, b, c, o)
             /\ session[p].tx.k # session[p].rx.k
             /\ \A q \in Parties : hs[q].split_done /\ session[q].tx.k = session[p].tx.k => q = p
  <2>1. PICK i \in Initiators : /\ session[p].tx.k = KT(ee(i, p), es(i, p), se(i, p), 2)
                                /\ session[p].rx.k = KT(ee(i, p), es(i, p), se(i, p), 1)
    BY Zenon, <1>3, <1>5
  <2>2. session[p].tx.k # session[p].rx.k
    BY <2>1, KeysDiffer
  <2>3. ASSUME NEW q \in Parties, hs[q].split_done, session[q].tx.k = session[p].tx.k PROVE q = p
    <3>1. CASE R(q)
      <4>1. PICK j \in Initiators : session[q].tx.k = KT(ee(j, q), es(j, q), se(j, q), 2)
        BY Zenon, <1>3, <3>1
      <4>2. ee(j, q) = ee(i, p)
        BY <2>1, <2>3, <4>1, KeysDiffer
      <4> QED BY <1>5, <3>1, <4>2, Same
    <3>2. CASE I(q)
      <4>1. PICK r \in Responders : session[q].tx.k = KT(ee(q, r), es(q, r), se(q, r), 1)
        BY Zenon, <1>2, <3>2
      <4> QED BY <2>1, <2>3, <4>1, KeysDiffer
    <3> QED BY Zenon, <1>1, <2>3, <3>1, <3>2
  <2> QED BY Zenon, <2>1, <2>2, <2>3
<1> HIDE DEF I, R
<1> QED BY Zenon, <1>1, <1>4, <1>5

\* What party p made in its handshake is not under the key of a session.
LEMMA HandshakeKey ==
  ASSUME NEW c, NEW h, NEW w, NEW a, NEW b, NEW d, NEW o, RespMade(c, h, w) \/ InitMade(c, h)
  PROVE  c.ct.k # KT(a, b, d, o)
BY KeysDiffer DEF RespMade, InitMade

LEMMA UniqueOne ==
  ASSUME Unique, NEW c, sealed' = sealed \cup {c},
         \A d \in sealed : ~(d.ct.k = c.ct.k /\ d.ct.n = c.ct.n)
  PROVE  Unique'
BY Zenon DEF Unique

LEMMA UniqueTwo ==
  ASSUME Unique, NEW b, NEW c, sealed' = sealed \cup {b, c}, b.ct.k # c.ct.k,
         \A d \in sealed : ~(d.ct.k = b.ct.k /\ d.ct.n = b.ct.n),
         \A d \in sealed : ~(d.ct.k = c.ct.k /\ d.ct.n = c.ct.n)
  PROVE  Unique'
BY DEF Unique

LEMMA EncryptStep ==
  ASSUME IInv, NEW p \in Parties, noise_encrypt(p)
  PROVE  IInv'
<1>k. PICK k, n : k = session[p].tx.k /\ n = session[p].tx.n
  BY Zenon
<1>s. PICK S : S = [session[p] EXCEPT !.tx.n = NextNonce(n)]
  BY Zenon
<1>h. PICK H, O : H = hs[p] /\ O = opened[p]
  BY Zenon
<1>c. PICK c : c = [ct |-> [k |-> k, n |-> n, ad |-> <<>>, pt |-> Claim(p)], by |-> p, at |-> Cardinality(sealed)]
  BY Zenon
<1>1. /\ PartyInv(p, hs[p], session[p], opened[p], sealed, Wrote) /\ hs[p].split_done
      /\ session[p].tx.has_key /\ n \in 0 .. NonceMax /\ SessionShape(session[p]) /\ HsShape(hs[p])
  BY Zenon, <1>k DEF IInv, PartyInv, SessionShape, noise_encrypt
<1>2. NextNonce(n) \in 0 .. NonceMax /\ NextNonce(n) >= n /\ (n < NonceMax => NextNonce(n) = n + 1)
  BY <1>1, Nonces, NoiseAssumption
<1>3. /\ SessionShape(S) /\ S.tx.has_key /\ S.tx.k = k /\ S.tx.n = NextNonce(n) /\ S.rx = session[p].rx
      /\ S.remote_static = session[p].remote_static
  BY Zenon, <1>k, <1>s, <1>1, <1>2 DEF SessionShape, SessionFields, CipherFields
<1>4. Moved(p, H, S, O)
  <2>1. session' = [session EXCEPT ![p] = S]
    BY Zenon, <1>k, <1>s DEF noise_encrypt
  <2> QED BY Zenon, <1>h, <2>1, Kept DEF Moved, noise_encrypt
<1>5. Later(hs[p], session[p], H, S)
  <2>1. hs[p].msg_index \in Nat /\ n \in Nat /\ NextNonce(n) \in Nat
    BY <1>1, <1>2, NoiseAssumption DEF HsShape
  <2> QED BY <1>k, <1>h, <1>1, <1>2, <1>3, <2>1 DEF Later
<1>6. hs' = hs /\ wire' = wire /\ Wrote' = Wrote
  BY Zenon DEF noise_encrypt, Wrote
<1>7. ASSUME NEW sl, sealed \subseteq sl PROVE PartyInv(p, H, S, O, sl, Wrote)
  <2>1. PartyInv(p, hs[p], session[p], opened[p], sl, Wrote)
    BY Zenon, <1>1, <1>7, PartyGrows
  <2>2. InitiatorSession(p, session[p], sl) => InitiatorSession(p, S, sl)
    BY Zenon, <1>k, <1>3 DEF InitiatorSession
  <2>3. ResponderSession(p, session[p], sl) => ResponderSession(p, S, sl)
    BY Zenon, <1>k, <1>3 DEF ResponderSession
  <2> QED BY Zenon, <1>h, <1>1, <1>3, <2>1, <2>2, <2>3 DEF PartyInv
<1>8. CASE sealed' = sealed
  BY Zenon, <1>4, <1>5, <1>6, <1>7, <1>8, Step DEF IInv, Unique
<1>9. CASE sealed' = sealed \cup {c} /\ n < NonceMax
  <2>1. c.by = p /\ c.ct.k = k /\ c.ct.n = n
    BY Zenon, <1>c
  <2>2. SealInv(c, H, S, Wrote)
    BY <1>h, <1>1, <1>2, <1>3, <1>9, <2>1 DEF SealInv, SessionMade
  <2>3. hs'[p] = H /\ session'[p] = S
    BY Zenon, <1>4 DEF Moved, IInv
  <2>4. ASSUME NEW d \in sealed, d.ct.k = k, d.ct.n = n PROVE FALSE
    <3>1. SealInv(d, hs[d.by], session[d.by], Wrote) /\ d.by \in Parties
      BY Zenon DEF IInv, SealInv
    <3>2. /\ \E a, b, e, o : k = KT(a, b, e, o)
          /\ \A q \in Parties : hs[q].split_done /\ session[q].tx.k = k => q = p
      BY <1>k, <1>1, SendingKey
    <3>3. SessionMade(d, hs[d.by], session[d.by])
      BY Zenon, <2>4, <3>1, <3>2, HandshakeKey DEF SealInv
    <3>4. d.by = p
      BY Zenon, <2>4, <3>1, <3>2, <3>3 DEF SessionMade
    <3> QED BY <1>k, <1>1, <2>4, <3>3, <3>4 DEF SessionMade
  <2>5. Unique'
    BY Zenon, <1>9, <2>1, <2>4, UniqueOne DEF IInv
  <2>6. \A d \in sealed' : d \in sealed \/ SealInv(d, hs'[d.by], session'[d.by], Wrote')
    BY Zenon, <1>6, <1>9, <2>1, <2>2, <2>3
  <2>7. sealed \subseteq sealed'
    BY Zenon, <1>9
  <2>8. PartyInv(p, H, S, O, sealed', Wrote')
    BY Zenon, <1>6, <1>7, <2>7
  <2> QED BY Zenon, <1>4, <1>5, <1>6, <2>5, <2>6, <2>7, <2>8, Step
<1>10. sealed' = sealed \/ (sealed' = sealed \cup {c} /\ n < NonceMax)
  <2>1. Sealed(p, {Ciphertext(session[p].tx, <<>>, Claim(p))}) = {c}
    BY Zenon, <1>k, <1>c DEF Sealed, Ciphertext
  <2>2. ~Exhausted(session[p].tx) => n < NonceMax
    BY <1>k, <1>1, NoiseAssumption DEF Exhausted
  <2> QED BY Zenon, <2>1, <2>2 DEF noise_encrypt
<1> QED BY Zenon, <1>8, <1>9, <1>10

LEMMA DecryptStep ==
  ASSUME IInv, NEW p \in Parties, NEW r \in sealed, noise_decrypt(p, r.ct)
  PROVE  IInv'
<1>k. PICK k, n : k = session[p].rx.k /\ n = session[p].rx.n
  BY Zenon
<1>s. PICK S : S = [session[p] EXCEPT !.rx = AfterDecrypt(session[p].rx)]
  BY Zenon
<1>h. PICK H, O : H = hs[p] /\ O = Append(opened[p], r.ct)
  BY Zenon
<1>1. /\ PartyInv(p, hs[p], session[p], opened[p], sealed, Wrote) /\ hs[p].split_done
      /\ session[p].rx.has_key /\ n \in Nat /\ SessionShape(session[p]) /\ HsShape(hs[p])
      /\ opened[p] \in Seq(Texts(sealed)) /\ Len(opened[p]) = n
  BY Zenon, <1>k DEF IInv, PartyInv, SessionShape, noise_decrypt
<1>i. \A i \in 1 .. n : opened[p][i].n = i - 1 /\ opened[p][i].k = k
  BY Zenon, <1>k, <1>1 DEF PartyInv
<1>2. r.ct.k = k /\ r.ct.n = n /\ r.ct \in Texts(sealed)
  BY Zenon, <1>k DEF noise_decrypt, Authentic, Texts
<1>3. /\ SessionShape(S) /\ S.rx.has_key /\ S.rx.k = k /\ S.rx.n = n + 1 /\ S.tx = session[p].tx
      /\ S.remote_static = session[p].remote_static
  <2>1. /\ AfterDecrypt(session[p].rx).has_key /\ AfterDecrypt(session[p].rx).k = k
        /\ AfterDecrypt(session[p].rx).n = n + 1
        /\ AfterDecrypt(session[p].rx) = [x \in CipherFields |-> AfterDecrypt(session[p].rx)[x]]
    BY Zenon, <1>k, <1>1 DEF SessionShape, CipherFields, AfterDecrypt
  <2> QED BY SMTT(20), <1>s, <1>1, <2>1 DEF SessionShape, SessionFields
<1>4. Moved(p, H, S, O)
  BY Zenon, <1>s, <1>h, Kept DEF Moved, noise_decrypt
<1>5. Later(hs[p], session[p], H, S)
  <2>1. hs[p].msg_index \in Nat /\ session[p].tx.n \in Nat
    BY <1>1, NoiseAssumption DEF HsShape, SessionShape
  <2> QED BY <1>h, <1>1, <1>3, <2>1 DEF Later
<1>6. hs' = hs /\ wire' = wire /\ Wrote' = Wrote /\ sealed' = sealed
  BY Zenon DEF noise_decrypt, Wrote
<1>7. PartyInv(p, H, S, O, sealed, Wrote)
  <2>2. InitiatorSession(p, session[p], sealed) => InitiatorSession(p, S, sealed)
    BY Zenon, <1>k, <1>3 DEF InitiatorSession
  <2>3. ResponderSession(p, session[p], sealed) => ResponderSession(p, S, sealed)
    BY Zenon, <1>k, <1>3 DEF ResponderSession
  <2>4. /\ O \in Seq(Texts(sealed)) /\ Len(O) = n + 1 /\ O[n + 1] = r.ct
        /\ \A i \in 1 .. n : O[i] = opened[p][i]
    BY <1>h, <1>1, <1>2, Appended
  <2>5. \A i \in 1 .. Len(O) : O[i].n = i - 1 /\ O[i].k = k
    <3> SUFFICES ASSUME NEW i \in 1 .. Len(O) PROVE O[i].n = i - 1 /\ O[i].k = k
      BY Zenon
    <3>1. CASE i = n + 1
      BY <1>1, <1>2, <2>4, <3>1
    <3>2. CASE i \in 1 .. n
      BY Zenon, <1>i, <2>4, <3>2
    <3> QED BY <1>1, <2>4, <3>1, <3>2
  <2> QED BY Zenon, <1>h, <1>1, <1>3, <2>2, <2>3, <2>4, <2>5 DEF PartyInv
<1> QED BY Zenon, <1>4, <1>5, <1>6, <1>7, Step DEF IInv, Unique

-----------------------------------------------------------------------------
(* Writing.                                                                 *)

\* A ciphertext of a handshake that is under way is under a new key and nonce.
LEMMA SealKinds ==
  ASSUME IInv, NEW d \in sealed
  PROVE  /\ d.by \in Parties
         /\ \/ RespMade(d, hs[d.by], Wrote)
            \/ InitMade(d, hs[d.by])
            \/ \E a, b, c, o : d.ct.k = KT(a, b, c, o)
<1>1. SealInv(d, hs[d.by], session[d.by], Wrote)
  BY Zenon DEF IInv
<1>2. SessionMade(d, hs[d.by], session[d.by]) => \E a, b, c, o : d.ct.k = KT(a, b, c, o)
  BY <1>1, SendingKey DEF SessionMade, SealInv
<1> QED BY Zenon, <1>1, <1>2 DEF SealInv

LEMMA FreshForResponder ==
  ASSUME IInv, NEW p \in Responders, hs[p].msg_index = 1, NEW x, NEW b, NEW d \in sealed, d.ct.n = 0
  PROVE  d.ct.k # K1(noise_dh(EphemeralPub(p), x)) /\ d.ct.k # K2(noise_dh(EphemeralPub(p), x), b)
<1> SUFFICES ASSUME d.ct.k = K1(noise_dh(EphemeralPub(p), x)) \/ d.ct.k = K2(noise_dh(EphemeralPub(p), x), b)
             PROVE  FALSE
  BY Zenon
<1>1. RespMade(d, hs[d.by], Wrote)
  <2>1. ~InitMade(d, hs[d.by])
    BY KeysDiffer DEF InitMade
  <2> QED BY <2>1, SealKinds, KeysDiffer
<1>2. PICK y \in Points :
        /\ Seen(y, Wrote)
        /\ noise_dh(EphemeralPub(d.by), y) = noise_dh(EphemeralPub(p), x)
  BY <1>1, KeysDiffer DEF RespMade
<1>3. EphemeralPub(d.by) = EphemeralPub(p) \/ y = EphemeralPub(p)
  BY <1>2, Pairs
<1>4. d.by # p
  BY <1>1 DEF RespMade
<1>5. p \in Wrote
  BY Zenon, <1>2, <1>3, <1>4, Names DEF Seen, Parties
<1>6. p \notin Initiators
  BY Zenon, NoiseAssumption
<1> QED BY <1>5, <1>6 DEF Wrote

LEMMA FreshForInitiator ==
  ASSUME IInv, NEW p \in Initiators, NEW r \in Responders, hs[p].msg_index = 2, NEW b, NEW c, NEW d \in sealed
  PROVE  /\ d.ct.n = 1 => d.ct.k # K2(ee(p, r), b)
         /\ d.ct.k # K3(ee(p, r), b, c)
<1> SUFFICES ASSUME (d.ct.n = 1 /\ d.ct.k = K2(ee(p, r), b)) \/ d.ct.k = K3(ee(p, r), b, c)
             PROVE  FALSE
  BY Zenon
<1>1. InitMade(d, hs[d.by])
  <2>1. ~RespMade(d, hs[d.by], Wrote)
    BY KeysDiffer DEF RespMade
  <2> QED BY <2>1, SealKinds, KeysDiffer
<1>2. PICK q \in Responders : ee(d.by, q) = ee(p, r)
  BY <1>1, KeysDiffer DEF InitMade
<1>3. d.by = p
  BY <1>1, <1>2, Same DEF InitMade
<1> QED BY <1>1, <1>3 DEF InitMade

\* What p sends of itself is seen from then on.
LEMMA OwnSeen ==
  ASSUME NEW p \in Parties, NEW w, p \in w
  PROVE  Seen(EphemeralPub(p), w) /\ Seen(Zero, w) /\ Seen(Other, w)
BY Zenon, Names DEF Seen, Points

LEMMA WriteZero ==
  ASSUME IInv, NEW p \in Initiators, hs[p].msg_index = 0, handshake_write(p)
  PROVE  IInv'
<1>p. p \in Parties
  BY Zenon DEF Parties
<1> DEFINE w == write_msg0(p)
<1>h. PICK H : H = [w.hs EXCEPT !.msg_index = hs[p].msg_index + 1]
  BY Zenon
<1>s. PICK S, O : S = session[p] /\ O = opened[p]
  BY Zenon
<1>0. /\ Usable(p) /\ hs' = [hs EXCEPT ![p] = H] /\ wire' = wire \cup {w.msg}
      /\ sealed' = sealed \cup Sealed(p, w.made) /\ UNCHANGED <<session, opened>>
  BY <1>h DEF handshake_write, write_msg
<1>1. /\ PartyInv(p, hs[p], S, O, sealed, Wrote) /\ ~hs[p].split_done /\ ~hs[p].failed
      /\ HsShape(hs[p]) /\ InitiatorInv(p, hs[p], sealed)
  BY ZenonT(40), <1>p, <1>s, <1>0 DEF IInv, PartyInv, Usable
<1>2. SymIs(hs[p].ss, <<>>, NoCipher) /\ hs[p].s = StaticPub(p) /\ hs[p].s_pub = StaticPub(p)
  BY <1>1 DEF InitiatorInv
<1> DEFINE t == symmetric_encrypt_and_hash(symmetric_mix_hash(hs[p].ss, EphemeralPub(p)), <<Zero, Zero>>)
<1>3. SymIs(t, <<>>, NoCipher)
  BY Zenon, <1>2, Hashed, PassedThrough
<1>4. /\ w.hs = [hs[p] EXCEPT !.e = EphemeralPub(p), !.e_pub = EphemeralPub(p), !.ss = t]
      /\ w.msg = [idx |-> 0, e |-> EphemeralPub(p), s |-> Zero, pl |-> Zero] /\ w.made = {}
  BY Zenon DEF write_msg0
<1> HIDE DEF w, t
<1>5. /\ HsShape(H) /\ H.msg_index = 1 /\ ~H.failed /\ ~H.split_done /\ H.e = EphemeralPub(p)
      /\ H.s = StaticPub(p) /\ H.s_pub = StaticPub(p) /\ H.ss = t
  <2>1. /\ HsShape(w.hs) /\ w.hs.msg_index = 0 /\ ~w.hs.failed /\ ~w.hs.split_done /\ w.hs.e = EphemeralPub(p)
        /\ w.hs.s = StaticPub(p) /\ w.hs.s_pub = StaticPub(p) /\ w.hs.ss = t
    BY Zenon, <1>1, <1>2, <1>4 DEF HsShape, HsFields
  <2> QED BY <1>h, <2>1 DEF HsShape, HsFields
<1>6. sealed' = sealed
  BY Zenon, <1>0, <1>4 DEF Sealed
<1>7. Moved(p, H, S, O) /\ Later(hs[p], session[p], H, S)
  BY <1>p, <1>s, <1>0, <1>1, <1>5, Kept DEF Moved, Later
<1>8. PartyInv(p, H, S, O, sealed, Wrote')
  <2>1. InitiatorInv(p, H, sealed)
    BY <1>3, <1>5 DEF InitiatorInv
  <2>2. p \notin Responders
    BY Zenon, NoiseAssumption
  <2> QED BY Zenon, <1>1, <1>5, <2>1, <2>2 DEF PartyInv
<1>9. p \in Wrote'
  <2>1. hs'[p] = H
    BY Zenon, <1>p, <1>7 DEF Moved, IInv
  <2> QED BY <1>p, <1>5, <2>1 DEF Wrote
<1>10. WireInv(w.msg, sealed', Wrote')
  BY <1>p, <1>4, <1>9, OwnSeen DEF WireInv
<1> QED BY Zenon, <1>p, <1>0, <1>6, <1>7, <1>8, <1>10, Step DEF IInv, Unique

\* A handshake message with two ciphertexts: m is sent, the handshake goes to H.
Sending(p, H, m, c1, c2) ==
  /\ Usable(p) /\ hs' = [hs EXCEPT ![p] = H] /\ wire' = wire \cup {m}
  /\ sealed' = sealed \cup Sealed(p, {c1, c2}) /\ UNCHANGED <<session, opened>>

GoesTo(p, H) ==
  /\ HsShape(H) /\ ~H.failed /\ ~H.split_done
  /\ H.msg_index = hs[p].msg_index + 1 /\ H.msg_index > 1
  /\ p \in Initiators => InitiatorInv(p, H, sealed)
  /\ p \in Responders => ResponderInv(p, H, sealed, Wrote)

Holds(p, m, c1, c2) ==
  /\ m = [x \in {"idx", "e", "s", "pl"} |-> m[x]] /\ m.idx \in 1 .. 2
  /\ m.e \in {EphemeralPub(p), Zero} /\ m.s = c1 /\ m.pl = c2

Fresh(p, H, c1, c2) ==
  /\ c1.k # c2.k
  /\ \A d \in sealed : \A c \in {c1, c2} : ~(d.ct.k = c.k /\ d.ct.n = c.n)
  /\ \A r : r.by = p /\ r.ct \in {c1, c2} => RespMade(r, H, Wrote) \/ InitMade(r, H)

LEMMA Sends ==
  ASSUME IInv, NEW p \in Parties, NEW H, NEW m, NEW c1, NEW c2,
         Sending(p, H, m, c1, c2), GoesTo(p, H), Holds(p, m, c1, c2), Fresh(p, H, c1, c2)
  PROVE  IInv'
<1>s. PICK S, O : S = session[p] /\ O = opened[p]
  BY Zenon
<1>1. PartyInv(p, hs[p], S, O, sealed, Wrote) /\ ~hs[p].split_done
  BY Zenon, <1>s DEF IInv, Usable, Sending
<1>2. Moved(p, H, S, O) /\ Later(hs[p], session[p], H, S)
  BY <1>s, <1>1, Kept DEF Moved, Later, PartyInv, HsShape, Sending, GoesTo
<1>r. PICK r1, r2 : /\ r1 = [ct |-> c1, by |-> p, at |-> Cardinality(sealed)]
                    /\ r2 = [ct |-> c2, by |-> p, at |-> Cardinality(sealed)]
  BY Zenon
<1>3. sealed' = sealed \cup {r1, r2} /\ r1.by = p /\ r1.ct = c1 /\ r2.by = p /\ r2.ct = c2
  BY Zenon, <1>r DEF Sealed, Sending
<1>4. hs'[p] = H /\ p \in Wrote' /\ Wrote \subseteq Wrote'
  <2>1. hs'[p] = H /\ \A q \in Parties : q # p => hs'[q] = hs[q]
    BY Zenon, <1>2 DEF Moved, IInv
  <2>2. hs[p].msg_index \in 0 .. 3
    BY Zenon, <1>1 DEF PartyInv, HsShape
  <2> QED BY <2>1, <2>2 DEF Wrote, GoesTo
<1>5. PartyInv(p, H, S, O, sealed', Wrote')
  <2>1. PartyInv(p, H, S, O, sealed, Wrote)
    BY Zenon, <1>1 DEF PartyInv, GoesTo
  <2>2. sealed \subseteq sealed'
    BY Zenon, <1>3
  <2> QED BY Zenon, <1>4, <2>1, <2>2, PartyGrows
<1>6. WireInv(m, sealed', Wrote')
  <2>1. c1 \in Texts(sealed') /\ c2 \in Texts(sealed')
    BY Zenon, <1>3 DEF Texts
  <2>2. Seen(m.e, Wrote')
    BY Zenon, <1>4, OwnSeen DEF Holds
  <2> QED BY <2>1, <2>2 DEF WireInv, Holds
<1>7. Unique'
  <2>1. Unique
    BY Zenon DEF IInv
  <2>2. r1.ct.k # r2.ct.k
    BY Zenon, <1>3 DEF Fresh
  <2>3. \A d \in sealed : ~(d.ct.k = r1.ct.k /\ d.ct.n = r1.ct.n) /\ ~(d.ct.k = r2.ct.k /\ d.ct.n = r2.ct.n)
    BY Zenon, <1>3 DEF Fresh
  <2> QED BY Zenon, <1>3, <2>1, <2>2, <2>3, UniqueTwo
<1>8. SealInv(r1, H, session[p], Wrote) /\ SealInv(r2, H, session[p], Wrote)
  BY Zenon, <1>3 DEF SealInv, Fresh
<1>9. SealInv(r1, H, session'[p], Wrote') /\ SealInv(r2, H, session'[p], Wrote')
  <2>1. Later(H, session[p], H, session'[p])
    BY DEF Later, HsShape, GoesTo
  <2> QED BY Zenon, <1>4, <1>8, <2>1, SealGrows
<1>10. \A c \in sealed' : c \in sealed \/ SealInv(c, hs'[c.by], session'[c.by], Wrote')
  BY Zenon, <1>3, <1>4, <1>9
<1>11. sealed \subseteq sealed' /\ \A n \in wire' : n \in wire \/ WireInv(n, sealed', Wrote')
  BY Zenon, <1>3, <1>6 DEF Sending
<1> QED BY Zenon, <1>2, <1>5, <1>7, <1>10, <1>11, Step

LEMMA WriteOne ==
  ASSUME IInv, NEW p \in Responders, hs[p].msg_index = 1, handshake_write(p)
  PROVE  IInv'
<1>p. p \in Parties /\ p \notin Initiators
  BY Zenon, NoiseAssumption DEF Parties
<1> DEFINE w == write_msg1(p)
           x == hs[p].re
           a == noise_dh(EphemeralPub(p), x)
           b == noise_dh(StaticPub(p), x)
<1>h. PICK H : H = [w.hs EXCEPT !.msg_index = hs[p].msg_index + 1]
  BY Zenon
<1>0. /\ Usable(p) /\ hs' = [hs EXCEPT ![p] = H] /\ wire' = wire \cup {w.msg}
      /\ sealed' = sealed \cup Sealed(p, w.made) /\ UNCHANGED <<session, opened>>
  BY <1>h DEF handshake_write, write_msg
<1>1. /\ ~hs[p].split_done /\ ~hs[p].failed
      /\ HsShape(hs[p]) /\ ResponderInv(p, hs[p], sealed, Wrote)
  BY ZenonT(40), <1>p, <1>0 DEF IInv, PartyInv, Usable
<1>2. /\ SymIs(hs[p].ss, <<>>, NoCipher) /\ hs[p].s = StaticPub(p) /\ hs[p].s_pub = StaticPub(p)
      /\ Seen(x, Wrote)
  BY <1>1 DEF ResponderInv
<1> DEFINE ss1 == symmetric_mix_hash(hs[p].ss, EphemeralPub(p))
           ss2 == symmetric_mix_key(ss1, a)
           ss3 == symmetric_encrypt_and_hash(ss2, StaticPub(p))
           ss4 == symmetric_mix_key(ss3, b)
           ss5 == symmetric_encrypt_and_hash(ss4, Claim(p))
           c1 == cipher_encrypt(ss2.cs, ss2.h, StaticPub(p))
           c2 == cipher_encrypt(ss4.cs, ss4.h, Claim(p))
<1>4. /\ w.hs = [hs[p] EXCEPT !.e = EphemeralPub(p), !.e_pub = EphemeralPub(p), !.s = Zero, !.ss = ss5]
      /\ w.msg = [idx |-> 1, e |-> EphemeralPub(p), s |-> c1, pl |-> c2] /\ w.made = {c1, c2}
  BY Zenon, <1>2 DEF write_msg1
<1> HIDE DEF w, x, a, b
<1>k1. SymIs(ss2, <<a>>, Keyed(K1(a), 0))
  BY ZenonT(40), <1>2, FirstKey
<1> HIDE DEF ss2
<1>k2. SymIs(ss3, <<a>>, Keyed(K1(a), 1)) /\ c1 = [k |-> K1(a), n |-> 0, ad |-> ss2.h, pt |-> StaticPub(p)]
  BY <1>k1, Encrypted, Nonces
<1> HIDE DEF ss3, c1
<1>k3. SymIs(ss4, <<a, b>>, Keyed(K2(a, b), 0))
  BY Zenon, <1>k2, SecondKey
<1> HIDE DEF ss4
<1>k4. SymIs(ss5, <<a, b>>, Keyed(K2(a, b), 1)) /\ c2 = [k |-> K2(a, b), n |-> 0, ad |-> ss4.h, pt |-> Claim(p)]
  BY <1>k3, Encrypted, Nonces
<1> HIDE DEF ss5, c2
<1>5. /\ HsShape(H) /\ H.msg_index = 2 /\ ~H.failed /\ ~H.split_done /\ H.e = EphemeralPub(p)
      /\ H.s_pub = StaticPub(p) /\ H.ss = ss5
  <2>1. /\ HsShape(w.hs) /\ w.hs.msg_index = 1 /\ ~w.hs.failed /\ ~w.hs.split_done /\ w.hs.e = EphemeralPub(p)
        /\ w.hs.s_pub = StaticPub(p) /\ w.hs.ss = ss5
    BY ZenonT(40), <1>1, <1>2, <1>4 DEF HsShape, HsFields
  <2> QED BY <1>h, <2>1 DEF HsShape, HsFields
<1>6. ResponderInv(p, H, sealed, Wrote)
  BY SMTT(20), <1>2, <1>5, <1>k4 DEF ResponderInv, Seen, a, b
<1>7. \A d \in sealed : \A c \in {c1, c2} : ~(d.ct.k = c.k /\ d.ct.n = c.n)
  BY SMTT(20), <1>k2, <1>k4, FreshForResponder DEF a
<1>8. ASSUME NEW r, r.by = p, r.ct \in {c1, c2}
      PROVE  RespMade(r, H, Wrote)
  <2>1. x \in Points
    BY Zenon, <1>2 DEF Seen
  <2> QED BY <1>2, <1>5, <1>8, <1>k2, <1>k4, <2>1 DEF RespMade, a, b
<1>9. c1.k # c2.k
  BY <1>k2, <1>k4, KeysDiffer
<1>10. /\ w.msg = [y \in {"idx", "e", "s", "pl"} |-> w.msg[y]] /\ w.msg.idx = 1
       /\ w.msg.e = EphemeralPub(p) /\ w.msg.s = c1 /\ w.msg.pl = c2
  BY <1>4
<1>11. Sending(p, H, w.msg, c1, c2)
  BY Zenon, <1>0, <1>4 DEF Sending
<1>12. GoesTo(p, H) /\ Holds(p, w.msg, c1, c2)
  BY <1>p, <1>5, <1>6, <1>10 DEF GoesTo, Holds
<1>13. Fresh(p, H, c1, c2)
  BY Zenon, <1>7, <1>8, <1>9 DEF Fresh
<1> QED BY Zenon, <1>p, <1>11, <1>12, <1>13, Sends

LEMMA WriteTwo ==
  ASSUME IInv, NEW p \in Initiators, hs[p].msg_index = 2, handshake_write(p)
  PROVE  IInv'
<1>p. p \in Parties /\ p \notin Responders
  BY Zenon, NoiseAssumption DEF Parties
<1> DEFINE w == write_msg2(p)
<1>h. PICK H : H = [w.hs EXCEPT !.msg_index = hs[p].msg_index + 1]
  BY Zenon
<1>0. /\ Usable(p) /\ hs' = [hs EXCEPT ![p] = H] /\ wire' = wire \cup {w.msg}
      /\ sealed' = sealed \cup Sealed(p, w.made) /\ UNCHANGED <<session, opened>>
  BY <1>h DEF handshake_write, write_msg
<1>1. /\ ~hs[p].split_done /\ ~hs[p].failed
      /\ HsShape(hs[p]) /\ InitiatorInv(p, hs[p], sealed)
  BY Zenon, <1>p, <1>0 DEF IInv, PartyInv, Usable
<1>2. /\ hs[p].s = StaticPub(p) /\ hs[p].s_pub = StaticPub(p)
      /\ \E r \in Responders :
           /\ hs[p].re = EphemeralPub(r) /\ hs[p].rs = StaticPub(r)
           /\ SymIs(hs[p].ss, <<ee(p, r), es(p, r)>>, Keyed(K2(ee(p, r), es(p, r)), 1))
           /\ Claimed(r, K2(ee(p, r), es(p, r)), sealed)
  BY <1>1 DEF InitiatorInv
<1>q. PICK r \in Responders :
        /\ hs[p].re = EphemeralPub(r) /\ hs[p].rs = StaticPub(r)
        /\ SymIs(hs[p].ss, <<ee(p, r), es(p, r)>>, Keyed(K2(ee(p, r), es(p, r)), 1))
        /\ Claimed(r, K2(ee(p, r), es(p, r)), sealed)
  BY Zenon, <1>2
<1>a. PICK a, b, c : a = ee(p, r) /\ b = es(p, r) /\ c = se(p, r)
  BY Zenon
<1> DEFINE ss0 == hs[p].ss
           ss1 == symmetric_encrypt_and_hash(ss0, StaticPub(p))
           ss2 == symmetric_mix_key(ss1, c)
           ss3 == symmetric_encrypt_and_hash(ss2, Claim(p))
           c1 == cipher_encrypt(ss0.cs, ss0.h, StaticPub(p))
           c2 == cipher_encrypt(ss2.cs, ss2.h, Claim(p))
<1>4. /\ w.hs = [hs[p] EXCEPT !.s = Zero, !.ss = ss3]
      /\ w.msg = [idx |-> 2, e |-> Zero, s |-> c1, pl |-> c2] /\ w.made = {c1, c2}
  BY Zenon, <1>2, <1>q, <1>a DEF write_msg2, se
<1> HIDE DEF w
<1>k0. SymIs(ss0, <<a, b>>, Keyed(K2(a, b), 1))
  BY ZenonT(40), <1>q, <1>a
<1> HIDE DEF ss0
<1>k2. /\ SymIs(ss1, <<a, b>>, Keyed(K2(a, b), NextNonce(1)))
       /\ c1 = [k |-> K2(a, b), n |-> 1, ad |-> ss0.h, pt |-> StaticPub(p)]
  BY <1>k0, Encrypted
<1> HIDE DEF ss1, c1
<1>k3. SymIs(ss2, <<a, b, c>>, Keyed(K3(a, b, c), 0))
  BY Zenon, <1>k2, ThirdKey
<1> HIDE DEF ss2
<1>k4. /\ SymIs(ss3, <<a, b, c>>, Keyed(K3(a, b, c), 1))
       /\ c2 = [k |-> K3(a, b, c), n |-> 0, ad |-> ss2.h, pt |-> Claim(p)]
  BY <1>k3, Encrypted, Nonces
<1> HIDE DEF ss3, c2
<1>5. /\ HsShape(H) /\ H.msg_index = 3 /\ ~H.failed /\ ~H.split_done
      /\ H.s_pub = StaticPub(p) /\ H.rs = StaticPub(r) /\ H.ss = ss3
  <2>1. /\ HsShape(w.hs) /\ w.hs.msg_index = 2 /\ ~w.hs.failed /\ ~w.hs.split_done
        /\ w.hs.s_pub = StaticPub(p) /\ w.hs.rs = StaticPub(r) /\ w.hs.ss = ss3
    BY ZenonT(40), <1>1, <1>2, <1>q, <1>4 DEF HsShape, HsFields
  <2> QED BY <1>h, <2>1 DEF HsShape, HsFields
<1>6. InitiatorInv(p, H, sealed)
  <2>1. H.ss.ck = <<ee(p, r), es(p, r), se(p, r)>>
    BY ZenonT(40), <1>5, <1>k4, <1>a DEF SymIs
  <2> QED BY <1>q, <1>5, <2>1 DEF InitiatorInv
<1>7. \A d \in sealed : \A e \in {c1, c2} : ~(d.ct.k = e.k /\ d.ct.n = e.n)
  BY SMTT(20), <1>a, <1>k2, <1>k4, FreshForInitiator
<1>8. ASSUME NEW d, d.by = p, d.ct \in {c1, c2}
      PROVE  InitMade(d, H)
  BY SMTT(20), <1>a, <1>5, <1>8, <1>k2, <1>k4 DEF InitMade
<1>9. c1.k # c2.k
  BY <1>k2, <1>k4, KeysDiffer
<1>10. /\ w.msg = [y \in {"idx", "e", "s", "pl"} |-> w.msg[y]] /\ w.msg.idx = 2
       /\ w.msg.e = Zero /\ w.msg.s = c1 /\ w.msg.pl = c2
  BY <1>4
<1>11. Sending(p, H, w.msg, c1, c2)
  BY Zenon, <1>0, <1>4 DEF Sending
<1>12. GoesTo(p, H) /\ Holds(p, w.msg, c1, c2)
  BY <1>p, <1>5, <1>6, <1>10 DEF GoesTo, Holds
<1>13. Fresh(p, H, c1, c2)
  BY Zenon, <1>7, <1>8, <1>9 DEF Fresh
<1> QED BY Zenon, <1>p, <1>11, <1>12, <1>13, Sends

-----------------------------------------------------------------------------
(* Reading.                                                                 *)

\* What may arrive: a point that was sent or is nobody's, a ciphertext that was made
\* or is none.
LEMMA Arrived ==
  ASSUME IInv, NEW w \in wire, NEW m \in Arrivals(w)
  PROVE  /\ Seen(m.e, Wrote)
         /\ m.idx \in {1, 2} => /\ m.s = Other \/ m.s \in Texts(sealed)
                                /\ m.pl = Other \/ m.pl \in Texts(sealed)
<1>1. WireInv(w, sealed, Wrote)
  BY Zenon DEF IInv
<1>2. Seen(Zero, Wrote) /\ Seen(Other, Wrote)
  BY Zenon, Names DEF Seen, Points
<1>3. CASE m = Short
  BY Zenon, <1>2, <1>3 DEF Short
<1>4. CASE m # Short
  <2>1. \/ m = [w EXCEPT !.e = IF w.idx = 2 THEN Other ELSE w.e]
        \/ \E x \in {Zero, Other} : m = [w EXCEPT !.e = x]
        \/ m = [w EXCEPT !.s = Other]
        \/ m = [w EXCEPT !.pl = Other]
    BY Zenon, <1>4 DEF Arrivals
  <2>2. /\ m.idx = w.idx /\ m.e \in {w.e, Zero, Other}
        /\ m.s \in {w.s, Other} /\ m.pl \in {w.pl, Other}
    BY Zenon, <1>1, <2>1 DEF WireInv
  <2> QED BY <1>1, <1>2, <2>2 DEF WireInv
<1> QED BY Zenon, <1>3, <1>4

\* Who made a ciphertext of the handshake, by its key.
LEMMA MadeFirst ==
  ASSUME IInv, NEW ct \in Texts(sealed), NEW a, ct.k = K1(a)
  PROVE  \E r \in Responders, x \in Points : a = noise_dh(EphemeralPub(r), x) /\ ct.pt = StaticPub(r)
<1>1. PICK d \in sealed : d.ct = ct
  BY Zenon DEF Texts
<1>2. RespMade(d, hs[d.by], Wrote)
  <2>1. ~InitMade(d, hs[d.by])
    BY <1>1, KeysDiffer DEF InitMade
  <2> QED BY SMTT(20), <1>1, <2>1, SealKinds, KeysDiffer
<1> QED BY <1>1, <1>2, KeysDiffer DEF RespMade

LEMMA MadeSecond ==
  ASSUME IInv, NEW ct \in Texts(sealed), NEW a, NEW b, ct.k = K2(a, b), ct.n = 0
  PROVE  \E r \in Responders, x \in Points : /\ a = noise_dh(EphemeralPub(r), x)
                                             /\ Claimed(r, K2(a, b), sealed)
<1>1. PICK d \in sealed : d.ct = ct
  BY Zenon DEF Texts
<1>2. RespMade(d, hs[d.by], Wrote)
  <2>1. ~InitMade(d, hs[d.by])
    BY SMTT(20), <1>1, KeysDiffer DEF InitMade
  <2> QED BY SMTT(20), <1>1, <2>1, SealKinds, KeysDiffer
<1>3. PICK x \in Points : a = noise_dh(EphemeralPub(d.by), x) /\ d.ct.pt = Claim(d.by)
  BY SMTT(20), <1>1, <1>2, KeysDiffer DEF RespMade
<1> QED BY Zenon, <1>1, <1>2, <1>3 DEF RespMade, Claimed

LEMMA MadeThird ==
  ASSUME IInv, NEW ct \in Texts(sealed), NEW a, NEW b, ct.k = K2(a, b), ct.n = 1
  PROVE  \E i \in Initiators, r \in Responders : a = ee(i, r) /\ ct.pt = StaticPub(i)
<1>1. PICK d \in sealed : d.ct = ct
  BY Zenon DEF Texts
<1>2. InitMade(d, hs[d.by])
  <2>1. ~RespMade(d, hs[d.by], Wrote)
    BY <1>1 DEF RespMade
  <2> QED BY <1>1, <2>1, SealKinds, KeysDiffer
<1> QED BY <1>1, <1>2, KeysDiffer DEF InitMade

LEMMA MadeFourth ==
  ASSUME IInv, NEW ct \in Texts(sealed), NEW a, NEW b, NEW c, ct.k = K3(a, b, c)
  PROVE  \E i \in Initiators, r \in Responders : a = ee(i, r) /\ Claimed(i, K3(a, b, c), sealed)
<1>1. PICK d \in sealed : d.ct = ct
  BY Zenon DEF Texts
<1>2. InitMade(d, hs[d.by])
  <2>1. ~RespMade(d, hs[d.by], Wrote)
    BY SMTT(20), <1>1, KeysDiffer DEF RespMade
  <2> QED BY SMTT(20), <1>1, <2>1, SealKinds, KeysDiffer
<1>3. PICK r \in Responders : a = ee(d.by, r) /\ d.ct.pt = Claim(d.by)
  BY <1>1, <1>2, KeysDiffer DEF InitMade
<1> QED BY Zenon, <1>1, <1>2, <1>3 DEF InitMade, Claimed

\* A handshake that goes on with an accepted message.
LEMMA ReadStep ==
  ASSUME IInv, NEW p \in Parties, NEW H, Usable(p), hs' = [hs EXCEPT ![p] = H],
         UNCHANGED <<session, wire, sealed, opened>>,
         HsShape(H), ~H.failed, ~H.split_done, H.msg_index >= hs[p].msg_index,
         p \in Initiators => InitiatorInv(p, H, sealed),
         p \in Responders => ResponderInv(p, H, sealed, Wrote)
  PROVE  IInv'
<1>s. PICK S, O : S = session[p] /\ O = opened[p]
  BY Zenon
<1>1. PartyInv(p, hs[p], S, O, sealed, Wrote) /\ ~hs[p].split_done
  BY Zenon, <1>s DEF IInv, Usable
<1>2. Moved(p, H, S, O) /\ Later(hs[p], session[p], H, S)
  BY <1>s, <1>1, Kept DEF Moved, Later, PartyInv, HsShape
<1>3. PartyInv(p, H, S, O, sealed, Wrote)
  BY Zenon, <1>1 DEF PartyInv
<1>4. Wrote \subseteq Wrote'
  <2>1. hs'[p] = H /\ \A q \in Parties : q # p => hs'[q] = hs[q]
    BY Zenon, <1>2 DEF Moved, IInv
  <2>2. hs[p].msg_index \in 0 .. 3 /\ H.msg_index \in 0 .. 3
    BY Zenon, <1>1 DEF PartyInv, HsShape
  <2> QED BY <2>1, <2>2 DEF Wrote
<1>5. PartyInv(p, H, S, O, sealed, Wrote')
  BY Zenon, <1>3, <1>4, PartyGrows
<1> QED BY Zenon, <1>2, <1>5, Step DEF IInv, Unique

\* A message is refused, or read_msg gives the state it leads to.
LEMMA ReadCases ==
  ASSUME NEW p, NEW m, NEW G, handshake_read(p, m), read_msg(p, m) \in {{}, {G}}
  PROVE  \/ hs' = [hs EXCEPT ![p] = Wiped(hs[p])]
         \/ /\ read_msg(p, m) = {G}
            /\ hs' = [hs EXCEPT ![p] = [G EXCEPT !.msg_index = hs[p].msg_index + 1]]
<1>1. CASE read_msg(p, m) = {}
  BY Zenon, <1>1 DEF handshake_read
<1>2. CASE read_msg(p, m) = {G} /\ read_msg(p, m) # {}
  <2>1. {[r EXCEPT !.msg_index = hs[p].msg_index + 1] : r \in {G}} = {[G EXCEPT !.msg_index = hs[p].msg_index + 1]}
    BY Zenon
  <2>2. \E h \in {[r EXCEPT !.msg_index = hs[p].msg_index + 1] : r \in {G}} : hs' = [hs EXCEPT ![p] = h]
    BY Zenon, <1>2 DEF handshake_read
  <2>3. \E h \in {[G EXCEPT !.msg_index = hs[p].msg_index + 1]} : hs' = [hs EXCEPT ![p] = h]
    BY Zenon, <2>1, <2>2
  <2> QED BY Zenon, <1>2, <2>3
<1> QED BY Zenon, <1>1, <1>2

LEMMA ReadZero ==
  ASSUME IInv, NEW p \in Responders, hs[p].msg_index = 0, NEW w \in wire, NEW m \in Arrivals(w),
         handshake_read(p, m)
  PROVE  IInv'
<1>p. p \in Parties /\ p \notin Initiators
  BY Zenon, NoiseAssumption DEF Parties
<1> DEFINE t == symmetric_decrypt_and_hash(symmetric_mix_hash(hs[p].ss, m.e), <<m.s, m.pl>>)
           G == [hs[p] EXCEPT !.re = m.e, !.ss = t]
<1>0. /\ Usable(p) /\ UNCHANGED <<session, wire, sealed, opened>>
      /\ \/ hs' = [hs EXCEPT ![p] = Wiped(hs[p])]
         \/ hs' = [hs EXCEPT ![p] = [G EXCEPT !.msg_index = 1]]
  <2>1. read_msg(p, m) \in {{}, {G}}
    BY DEF read_msg, read_msg0
  <2> HIDE DEF G
  <2>2. 0 + 1 = 1
    OBVIOUS
  <2>3. Usable(p) /\ UNCHANGED <<session, wire, sealed, opened>>
    BY Zenon DEF handshake_read
  <2> QED BY Zenon, <2>1, <2>2, <2>3, ReadCases
<1>h. PICK H : H = [G EXCEPT !.msg_index = 1]
  BY Zenon
<1>1. HsShape(hs[p]) /\ ~hs[p].split_done /\ ~hs[p].failed /\ ResponderInv(p, hs[p], sealed, Wrote)
  BY ZenonT(40), <1>p, <1>0 DEF IInv, PartyInv, Usable
<1>2. SymIs(hs[p].ss, <<>>, NoCipher) /\ hs[p].s = StaticPub(p) /\ hs[p].s_pub = StaticPub(p)
  BY <1>1 DEF ResponderInv
<1>3. SymIs(t, <<>>, NoCipher)
  BY Zenon, <1>2, Hashed, PassedThrough
<1> HIDE DEF t
<1>4. /\ HsShape(H) /\ H.msg_index = 1 /\ ~H.failed /\ ~H.split_done /\ H.re = m.e
      /\ H.s = StaticPub(p) /\ H.s_pub = StaticPub(p) /\ H.ss = t
  <2>1. /\ HsShape(G) /\ G.msg_index = 0 /\ ~G.failed /\ ~G.split_done /\ G.re = m.e
        /\ G.s = StaticPub(p) /\ G.s_pub = StaticPub(p) /\ G.ss = t
    BY ZenonT(40), <1>1, <1>2 DEF HsShape, HsFields
  <2> HIDE DEF G
  <2> QED BY <1>h, <2>1 DEF HsShape, HsFields
<1> HIDE DEF G
<1>5. ResponderInv(p, H, sealed, Wrote)
  BY <1>3, <1>4, Arrived DEF ResponderInv
<1>6. CASE hs' = [hs EXCEPT ![p] = H]
  <2>1. H.msg_index >= hs[p].msg_index
    BY <1>4
  <2> QED BY ZenonT(40), <1>p, <1>0, <1>4, <1>5, <1>6, <2>1, ReadStep
<1>7. CASE hs' = [hs EXCEPT ![p] = Wiped(hs[p])]
  BY Zenon, <1>p, <1>0, <1>7, FailStep
<1> QED BY Zenon, <1>0, <1>h, <1>6, <1>7

LEMMA ReadOne ==
  ASSUME IInv, NEW p \in Initiators, hs[p].msg_index = 1, NEW w \in wire, NEW m \in Arrivals(w),
         handshake_read(p, m)
  PROVE  IInv'
<1>p. p \in Parties /\ p \notin Responders
  BY Zenon, NoiseAssumption DEF Parties
<1>k. Usable(p) /\ UNCHANGED <<session, wire, sealed, opened>>
  BY Zenon DEF handshake_read
<1>1. HsShape(hs[p]) /\ ~hs[p].split_done /\ ~hs[p].failed /\ InitiatorInv(p, hs[p], sealed)
  BY ZenonT(40), <1>p, <1>k DEF IInv, PartyInv, Usable
<1>2. /\ SymIs(hs[p].ss, <<>>, NoCipher) /\ hs[p].s = StaticPub(p) /\ hs[p].s_pub = StaticPub(p)
      /\ hs[p].e = EphemeralPub(p)
  BY <1>1 DEF InitiatorInv
<1>a. PICK a, rs, b : a = noise_dh(EphemeralPub(p), m.e) /\ rs = m.s.pt /\ b = noise_dh(EphemeralPub(p), rs)
  BY Zenon
<1> DEFINE ss1 == symmetric_mix_hash(hs[p].ss, m.e)
           ss2 == symmetric_mix_key(ss1, a)
           ss3 == symmetric_decrypt_and_hash(ss2, m.s)
           ss4 == symmetric_mix_key(ss3, b)
           ss5 == symmetric_decrypt_and_hash(ss4, m.pl)
           G == [hs[p] EXCEPT !.re = m.e, !.rs = rs, !.e = Zero, !.ss = ss5]
<1>0. \/ hs' = [hs EXCEPT ![p] = Wiped(hs[p])]
      \/ /\ hs' = [hs EXCEPT ![p] = [G EXCEPT !.msg_index = 2]]
         /\ m.idx = 1 /\ Authentic(ss2.cs, ss2.h, m.s) /\ Authentic(ss4.cs, ss4.h, m.pl)
  <2>1. read_msg(p, m) = read_msg1(p, m)
    BY DEF read_msg
  <2>2. read_msg1(p, m) = {} \/ /\ read_msg1(p, m) = {G}
                                /\ m.idx = 1 /\ Authentic(ss2.cs, ss2.h, m.s) /\ Authentic(ss4.cs, ss4.h, m.pl)
    BY Zenon, <1>2, <1>a DEF read_msg1
  <2> HIDE DEF G, ss2, ss4
  <2>3. 1 + 1 = 2 /\ {G} # {}
    OBVIOUS
  <2>4. read_msg(p, m) \in {{}, {G}}
    BY Zenon, <2>1, <2>2
  <2> QED BY ZenonT(40), <2>1, <2>2, <2>3, <2>4, ReadCases
<1>k1. SymIs(ss2, <<a>>, Keyed(K1(a), 0))
  BY Zenon, <1>2, FirstKey
<1> HIDE DEF ss2
<1>k2. SymIs(ss3, <<a>>, Keyed(K1(a), 0 + 1))
  BY Zenon, <1>k1, Decrypted
<1> HIDE DEF ss3
<1>k3. SymIs(ss4, <<a, b>>, Keyed(K2(a, b), 0))
  BY Zenon, <1>k2, SecondKey
<1> HIDE DEF ss4
<1>k4. SymIs(ss5, <<a, b>>, Keyed(K2(a, b), 0 + 1))
  BY Zenon, <1>k3, Decrypted
<1> HIDE DEF ss5
<1>h. PICK H : H = [G EXCEPT !.msg_index = 2]
  BY Zenon
<1>4. /\ HsShape(H) /\ H.msg_index = 2 /\ ~H.failed /\ ~H.split_done /\ H.re = m.e /\ H.rs = rs
      /\ H.s = StaticPub(p) /\ H.s_pub = StaticPub(p) /\ H.ss = ss5
  <2>1. /\ HsShape(G) /\ G.msg_index = 1 /\ ~G.failed /\ ~G.split_done /\ G.re = m.e /\ G.rs = rs
        /\ G.s = StaticPub(p) /\ G.s_pub = StaticPub(p) /\ G.ss = ss5
    BY ZenonT(40), <1>1, <1>2 DEF HsShape, HsFields
  <2> HIDE DEF G
  <2> QED BY <1>h, <2>1 DEF HsShape, HsFields
<1> HIDE DEF G
<1>5. ASSUME m.idx = 1, Authentic(ss2.cs, ss2.h, m.s), Authentic(ss4.cs, ss4.h, m.pl)
      PROVE  InitiatorInv(p, H, sealed)
  <2>1. /\ m.s # Other /\ m.s.k = K1(a) /\ m.pl # Other /\ m.pl.k = K2(a, b) /\ m.pl.n = 0
    BY <1>5, <1>k1, <1>k3, Opens DEF SymIs
  <2>2. m.s \in Texts(sealed) /\ m.pl \in Texts(sealed)
    BY Zenon, <1>5, <2>1, Arrived
  <2>3. PICK r \in Responders, x \in Points : a = noise_dh(EphemeralPub(r), x) /\ rs = StaticPub(r)
    BY Zenon, <1>a, <2>1, <2>2, MadeFirst
  <2>4. EphemeralPub(r) # EphemeralPub(p)
    BY Zenon, <1>p, <2>3, Names
  <2>5. m.e = EphemeralPub(r)
    <3>1. noise_dh(EphemeralPub(p), m.e) = noise_dh(EphemeralPub(r), x)
      BY Zenon, <1>a, <2>3
    <3> QED BY ZenonT(40), <2>4, <3>1, Pairs
  <2>6. a = ee(p, r) /\ b = es(p, r)
    BY Zenon, <1>a, <2>3, <2>5 DEF ee, es
  <2>7. PICK q \in Responders, y \in Points : a = noise_dh(EphemeralPub(q), y) /\ Claimed(q, K2(a, b), sealed)
    BY Zenon, <2>1, <2>2, MadeSecond
  <2>8. q = r
    <3>1. noise_dh(EphemeralPub(p), EphemeralPub(r)) = noise_dh(EphemeralPub(q), y)
      BY Zenon, <2>6, <2>7 DEF ee
    <3>2. EphemeralPub(q) # EphemeralPub(p)
      BY ZenonT(40), <1>p, <2>7, Names
    <3> QED BY <3>1, <3>2, Pairs, Names
  <2>9. SymIs(H.ss, <<ee(p, r), es(p, r)>>, Keyed(K2(ee(p, r), es(p, r)), 1))
    BY <1>k4, <1>4, <2>6
  <2>10. Claimed(r, K2(ee(p, r), es(p, r)), sealed)
    BY Zenon, <2>6, <2>7, <2>8
  <2> QED BY <1>4, <2>3, <2>5, <2>9, <2>10 DEF InitiatorInv
<1>6. CASE /\ hs' = [hs EXCEPT ![p] = H]
           /\ m.idx = 1 /\ Authentic(ss2.cs, ss2.h, m.s) /\ Authentic(ss4.cs, ss4.h, m.pl)
  <2>1. InitiatorInv(p, H, sealed)
    BY Zenon, <1>5, <1>6
  <2>2. H.msg_index >= hs[p].msg_index
    BY <1>4
  <2> QED BY Zenon, <1>p, <1>k, <1>4, <1>6, <2>1, <2>2, ReadStep
<1>7. CASE hs' = [hs EXCEPT ![p] = Wiped(hs[p])]
  BY Zenon, <1>p, <1>k, <1>7, FailStep
<1> QED BY Zenon, <1>0, <1>h, <1>6, <1>7

LEMMA ReadTwo ==
  ASSUME IInv, NEW p \in Responders, hs[p].msg_index = 2, NEW w \in wire, NEW m \in Arrivals(w),
         handshake_read(p, m)
  PROVE  IInv'
<1>p. p \in Parties /\ p \notin Initiators
  BY Zenon, NoiseAssumption DEF Parties
<1>k. Usable(p) /\ UNCHANGED <<session, wire, sealed, opened>>
  BY Zenon DEF handshake_read
<1>1. HsShape(hs[p]) /\ ~hs[p].split_done /\ ~hs[p].failed /\ ResponderInv(p, hs[p], sealed, Wrote)
  BY Zenon, <1>p, <1>k DEF IInv, PartyInv, Usable
<1>2. hs[p].e = EphemeralPub(p) /\ hs[p].s_pub = StaticPub(p)
  BY Zenon, <1>1 DEF ResponderInv
<1>x. PICK x \in Points :
        SymIs(hs[p].ss, <<noise_dh(EphemeralPub(p), x), noise_dh(StaticPub(p), x)>>,
              Keyed(K2(noise_dh(EphemeralPub(p), x), noise_dh(StaticPub(p), x)), 1))
  BY Zenon, <1>1 DEF ResponderInv
<1>a. PICK a, b, rs, c : /\ a = noise_dh(EphemeralPub(p), x) /\ b = noise_dh(StaticPub(p), x)
                         /\ rs = m.s.pt /\ c = noise_dh(EphemeralPub(p), rs)
  BY Zenon
<1> DEFINE ss0 == hs[p].ss
           ss1 == symmetric_decrypt_and_hash(ss0, m.s)
           ss2 == symmetric_mix_key(ss1, c)
           ss3 == symmetric_decrypt_and_hash(ss2, m.pl)
           G == [hs[p] EXCEPT !.rs = rs, !.e = Zero, !.ss = ss3]
<1>0. \/ hs' = [hs EXCEPT ![p] = Wiped(hs[p])]
      \/ /\ hs' = [hs EXCEPT ![p] = [G EXCEPT !.msg_index = 3]]
         /\ m.idx = 2 /\ Authentic(ss0.cs, ss0.h, m.s) /\ Authentic(ss2.cs, ss2.h, m.pl)
  <2>1. read_msg(p, m) = read_msg2(p, m)
    BY DEF read_msg
  <2>2. read_msg2(p, m) = {} \/ /\ read_msg2(p, m) = {G}
                                /\ m.idx = 2 /\ Authentic(ss0.cs, ss0.h, m.s) /\ Authentic(ss2.cs, ss2.h, m.pl)
    BY Zenon, <1>2, <1>a DEF read_msg2
  <2> HIDE DEF G, ss0, ss2
  <2>3. 2 + 1 = 3 /\ {G} # {}
    OBVIOUS
  <2>4. read_msg(p, m) \in {{}, {G}}
    BY Zenon, <2>1, <2>2
  <2> QED BY <2>1, <2>2, <2>3, <2>4, ReadCases
<1>k0. SymIs(ss0, <<a, b>>, Keyed(K2(a, b), 1))
  BY Zenon, <1>x, <1>a
<1> HIDE DEF ss0
<1>k2. SymIs(ss1, <<a, b>>, Keyed(K2(a, b), 1 + 1))
  BY Zenon, <1>k0, Decrypted
<1> HIDE DEF ss1
<1>k3. SymIs(ss2, <<a, b, c>>, Keyed(K3(a, b, c), 0))
  BY Zenon, <1>k2, ThirdKey
<1> HIDE DEF ss2
<1>k4. SymIs(ss3, <<a, b, c>>, Keyed(K3(a, b, c), 0 + 1))
  BY Zenon, <1>k3, Decrypted
<1> HIDE DEF ss3
<1>h. PICK H : H = [G EXCEPT !.msg_index = 3]
  BY Zenon
<1>4. /\ HsShape(H) /\ H.msg_index = 3 /\ ~H.failed /\ ~H.split_done /\ H.rs = rs
      /\ H.s_pub = StaticPub(p) /\ H.ss = ss3
  <2>1. /\ HsShape(G) /\ G.msg_index = 2 /\ ~G.failed /\ ~G.split_done /\ G.rs = rs
        /\ G.s_pub = StaticPub(p) /\ G.ss = ss3
    BY ZenonT(40), <1>1, <1>2 DEF HsShape, HsFields
  <2> HIDE DEF G
  <2> QED BY <1>h, <2>1 DEF HsShape, HsFields
<1> HIDE DEF G
<1>5. ASSUME m.idx = 2, Authentic(ss0.cs, ss0.h, m.s), Authentic(ss2.cs, ss2.h, m.pl)
      PROVE  ResponderInv(p, H, sealed, Wrote)
  <2>1. /\ m.s # Other /\ m.s.k = K2(a, b) /\ m.s.n = 1 /\ m.pl # Other /\ m.pl.k = K3(a, b, c)
    BY <1>5, <1>k0, <1>k3, Opens DEF SymIs
  <2>2. m.s \in Texts(sealed) /\ m.pl \in Texts(sealed)
    BY Zenon, <1>5, <2>1, Arrived
  <2>3. PICK i \in Initiators, r \in Responders : a = ee(i, r) /\ rs = StaticPub(i)
    BY ZenonT(40), <1>a, <2>1, <2>2, MadeThird
  <2>4. x = EphemeralPub(i)
    <3>1. noise_dh(EphemeralPub(p), x) = noise_dh(EphemeralPub(i), EphemeralPub(r))
      BY Zenon, <1>a, <2>3 DEF ee
    <3>2. EphemeralPub(i) # EphemeralPub(p)
      BY Zenon, <1>p, <2>3, Names
    <3> QED BY <3>1, <3>2, Pairs
  <2>6. a = ee(i, p) /\ b = es(i, p) /\ c = se(i, p)
    BY Zenon, <1>a, <2>3, <2>4 DEF ee, es, se, noise_dh
  <2>7. PICK j \in Initiators, q \in Responders : a = ee(j, q) /\ Claimed(j, K3(a, b, c), sealed)
    BY Zenon, <2>1, <2>2, MadeFourth
  <2>8. j = i
    BY Zenon, <2>6, <2>7, Same
  <2>9. H.ss.ck = <<ee(i, p), es(i, p), se(i, p)>>
    BY Zenon, <1>k4, <1>4, <2>6 DEF SymIs
  <2>10. Claimed(i, K3(ee(i, p), es(i, p), se(i, p)), sealed)
    BY Zenon, <2>6, <2>7, <2>8
  <2> QED BY <1>4, <2>3, <2>9, <2>10 DEF ResponderInv
<1>6. CASE /\ hs' = [hs EXCEPT ![p] = H]
           /\ m.idx = 2 /\ Authentic(ss0.cs, ss0.h, m.s) /\ Authentic(ss2.cs, ss2.h, m.pl)
  <2>1. ResponderInv(p, H, sealed, Wrote)
    BY Zenon, <1>5, <1>6
  <2>2. H.msg_index >= hs[p].msg_index
    BY <1>4
  <2> QED BY Zenon, <1>p, <1>k, <1>4, <1>6, <2>1, <2>2, ReadStep
<1>7. CASE hs' = [hs EXCEPT ![p] = Wiped(hs[p])]
  BY Zenon, <1>p, <1>k, <1>7, FailStep
<1> QED BY Zenon, <1>0, <1>h, <1>6, <1>7

-----------------------------------------------------------------------------
(* The invariant.                                                           *)

LEMMA Starts ==
  ASSUME Init
  PROVE  IInv
<1>1. /\ hs = [p \in Parties |-> hs[p]] /\ session = [p \in Parties |-> session[p]]
      /\ opened = [p \in Parties |-> opened[p]] /\ wire = {} /\ sealed = {}
  BY ZenonT(40) DEF Init
<1>2. ASSUME NEW p \in Parties
      PROVE  PartyInv(p, hs[p], session[p], opened[p], sealed, Wrote)
  <2>1. /\ hs[p] = handshake_init(p) /\ opened[p] = <<>>
        /\ session[p] = [tx |-> NoCipher, rx |-> NoCipher, remote_static |-> Zero]
    BY Zenon DEF Init
  <2>2. SymIs(hs[p].ss, <<>>, NoCipher)
    <3>1. SymIs(symmetric_init, <<>>, NoCipher)
      BY ZenonT(40) DEF symmetric_init, SymIs, SymFields
    <3>2. hs[p].ss = symmetric_mix_hash(symmetric_init, <<"prologue">>)
      BY <2>1 DEF handshake_init
    <3> QED BY Zenon, <3>1, <3>2, Hashed
  <2>3. /\ HsShape(hs[p]) /\ hs[p].msg_index = 0 /\ ~hs[p].failed /\ ~hs[p].split_done
        /\ hs[p].s = StaticPub(p) /\ hs[p].s_pub = StaticPub(p)
    BY <2>1 DEF handshake_init, HsShape, HsFields
  <2>4. SessionShape(session[p])
    <3>1. NonceMax \in Nat
      BY Zenon, NoiseAssumption
    <3>2. NoCipher = [x \in CipherFields |-> NoCipher[x]] /\ NoCipher.n = 0
      BY Zenon DEF NoCipher, CipherFields
    <3> HIDE DEF NoCipher
    <3>3. session[p] = [x \in SessionFields |-> session[p][x]] /\ session[p].tx = NoCipher /\ session[p].rx = NoCipher
      BY SMTT(20), <2>1 DEF SessionFields
    <3> QED BY <3>1, <3>2, <3>3 DEF SessionShape
  <2>5. InitiatorInv(p, hs[p], sealed) /\ ResponderInv(p, hs[p], sealed, Wrote)
    BY <2>2, <2>3 DEF InitiatorInv, ResponderInv
  <2> QED BY <2>1, <2>3, <2>4, <2>5 DEF PartyInv
<1> QED BY Zenon, <1>1, <1>2 DEF IInv, Unique

LEMMA WriteStep ==
  ASSUME IInv, NEW p \in Parties, handshake_write(p)
  PROVE  IInv'
<1>1. CASE p \in Initiators
  <2>1. hs[p].msg_index \in {0, 2}
    BY Zenon, <1>1 DEF handshake_write, WriteTurn
  <2> QED BY Zenon, <1>1, <2>1, WriteZero, WriteTwo
<1>2. CASE p \in Responders /\ p \notin Initiators
  <2>1. hs[p].msg_index = 1
    BY Zenon, <1>2 DEF handshake_write, WriteTurn
  <2> QED BY Zenon, <1>2, <2>1, WriteOne
<1> QED BY Zenon, <1>1, <1>2 DEF Parties

LEMMA ReadAnyStep ==
  ASSUME IInv, NEW p \in Parties, NEW w \in wire, NEW m \in Arrivals(w), handshake_read(p, m)
  PROVE  IInv'
<1>1. CASE p \in Initiators
  <2>1. hs[p].msg_index = 1
    BY Zenon, <1>1 DEF handshake_read, ReadTurn
  <2> QED BY Zenon, <1>1, <2>1, ReadOne
<1>2. CASE p \in Responders /\ p \notin Initiators
  <2>1. hs[p].msg_index \in {0, 2}
    BY Zenon, <1>2 DEF handshake_read, ReadTurn
  <2> QED BY Zenon, <1>2, <2>1, ReadZero, ReadTwo
<1> QED BY Zenon, <1>1, <1>2 DEF Parties

LEMMA Stands ==
  ASSUME IInv, [Next]_vars
  PROVE  IInv'
<1>1. CASE UNCHANGED vars
  BY ZenonT(40), <1>1 DEF vars, IInv, PartyInv, SealInv, WireInv, Unique, Wrote
<1>2. ASSUME NEW p \in Parties, handshake_write_fails(p) \/ handshake_read_fails(p) \/ handshake_split_fails(p)
      PROVE  IInv'
  BY Zenon, <1>2, FailStep DEF handshake_write_fails, handshake_read_fails, handshake_split_fails
<1>3. CASE Next
  BY Zenon, <1>2, <1>3, WriteStep, ReadAnyStep, SplitStep, EncryptStep, DecryptStep DEF Next
<1> QED BY Zenon, <1>1, <1>3

LEMMA Invariant == Spec => []IInv
<1>1. Init => IInv
  BY Zenon, Starts
<1>2. IInv /\ [Next]_vars => IInv'
  BY Zenon, Stands
<1> QED BY <1>1, <1>2, PTL DEF Spec

-----------------------------------------------------------------------------
(* What it gives.                                                           *)

(* A session never makes a ciphertext it would accept, so what it accepted is *)
(* another's.                                                                 *)
LEMMA NotOwn ==
  ASSUME IInv, NEW p \in Parties, hs[p].split_done, NEW d \in sealed, d.ct.k = session[p].rx.k
  PROVE  d.by # p
<1> SUFFICES ASSUME d.by = p PROVE FALSE
  BY Zenon
<1>1. SealInv(d, hs[p], session[p], Wrote)
  BY Zenon DEF IInv
<1>2. session[p].tx.k # session[p].rx.k
  BY Zenon, SendingKey
<1>3. \E a, b, c, o : session[p].rx.k = KT(a, b, c, o)
  BY Zenon DEF IInv, PartyInv, InitiatorSession, ResponderSession, Parties
<1>4. SessionMade(d, hs[p], session[p])
  BY Zenon, <1>1, <1>3, HandshakeKey DEF SealInv
<1> QED BY Zenon, <1>2, <1>4 DEF SessionMade

(* No two encryptions anywhere in the program share a key and a nonce, and a    *)
(* session accepts each ciphertext once, in order, and none of its own          *)
(* (cipher_encrypt, cipher_decrypt, noise_handshake_split): for any number of   *)
(* handshakes, with messages altered, repeated, reordered and crossed.          *)
THEOREM NoncesOnce == Spec => []NonceOnce
<1>1. ASSUME IInv
      PROVE  NonceOnce
  <2>1. \A a, b \in sealed : a.ct.k = b.ct.k /\ a.ct.n = b.ct.n => a.ct = b.ct /\ a.by = b.by /\ a.at = b.at
    BY Zenon, <1>1 DEF IInv, Unique
  <2>2. ASSUME NEW p \in Parties, NEW i \in DOMAIN opened[p]
        PROVE  /\ opened[p][i].n = i - 1
               /\ \A r \in sealed : r.ct = opened[p][i] => r.by # p
    <3>1. PartyInv(p, hs[p], session[p], opened[p], sealed, Wrote)
      BY ZenonT(40), <1>1 DEF IInv
    <3>2. opened[p] \in Seq(Texts(sealed)) /\ i \in 1 .. Len(opened[p])
      <4>1. opened[p] \in Seq(Texts(sealed))
        BY Zenon, <3>1 DEF PartyInv
      <4> QED
        BY <4>1
    <3>3. hs[p].split_done
      <4>1. opened[p] # <<>>
        BY <3>2
      <4> QED BY ZenonT(40), <3>1, <4>1 DEF PartyInv
    <3>4. opened[p][i].n = i - 1 /\ opened[p][i].k = session[p].rx.k
      BY Zenon, <3>1, <3>2, <3>3 DEF PartyInv
    <3> QED BY Zenon, <1>1, <3>3, <3>4, NotOwn
  <2> QED BY Zenon, <2>1, <2>2 DEF NonceOnce
<1> QED BY <1>1, Invariant, PTL

(* A party that has split holds the static key of a party that encrypted, in    *)
(* this very handshake, under the key only the two derive (read_msg1,           *)
(* read_msg2, noise_handshake_split).                                           *)
THEOREM SplitsAuthentic == Spec => []SplitIsAuthentic
<1>1. ASSUME IInv, NEW p \in Parties, Split(p)
      PROVE  LET ck == SubSeq(session[p].tx.k.ck, 1, IF p \in Initiators THEN 2 ELSE 3)
             IN  \E q \in IF p \in Initiators THEN Responders ELSE Initiators :
                   /\ session[p].remote_static = StaticPub(q)
                   /\ \E r \in sealed : r.by = q /\ r.ct.k = [ck |-> ck, out |-> 2] /\ r.ct.pt = Claim(q)
  <2>1. PartyInv(p, hs[p], session[p], opened[p], sealed, Wrote) /\ hs[p].split_done
    BY Zenon, <1>1 DEF IInv, Split
  <2>2. CASE p \in Initiators
    <3>1. PICK q \in Responders :
            /\ session[p].tx.k = KT(ee(p, q), es(p, q), se(p, q), 1)
            /\ session[p].remote_static = StaticPub(q)
            /\ Claimed(q, K2(ee(p, q), es(p, q)), sealed)
      BY ZenonT(40), <2>1, <2>2 DEF PartyInv, InitiatorSession
    <3>2. session[p].tx.k.ck = <<ee(p, q), es(p, q), se(p, q), {}>>
      BY Zenon, <3>1, SplitFrom
    <3>3. SubSeq(session[p].tx.k.ck, 1, 2) = <<ee(p, q), es(p, q)>>
      BY Zenon, <3>2, FirstOf
    <3> QED BY Zenon, <2>2, <3>1, <3>3 DEF Claimed, K2
  <2>3. CASE p \notin Initiators
    <3>1. PICK q \in Initiators :
            /\ session[p].tx.k = KT(ee(q, p), es(q, p), se(q, p), 2)
            /\ session[p].remote_static = StaticPub(q)
            /\ Claimed(q, K3(ee(q, p), es(q, p), se(q, p)), sealed)
      BY Zenon, <2>1, <2>3 DEF PartyInv, ResponderSession, Parties
    <3>2. session[p].tx.k.ck = <<ee(q, p), es(q, p), se(q, p), {}>>
      BY Zenon, <3>1, SplitFrom
    <3>3. SubSeq(session[p].tx.k.ck, 1, 3) = <<ee(q, p), es(q, p), se(q, p)>>
      BY Zenon, <3>2, FirstOf
    <3> QED BY Zenon, <2>3, <3>1, <3>3 DEF Claimed, K3
  <2> QED BY Zenon, <2>2, <2>3
<1>2. IInv => SplitIsAuthentic
  BY Zenon, <1>1 DEF SplitIsAuthentic
<1> QED BY <1>2, Invariant, PTL

(* Two sessions fit in both directions or in none, and fitting sessions hold    *)
(* each other's static keys (noise_handshake_split, symmetric_split).           *)
THEOREM SessionsFit == Spec => []SessionsPairUp
<1>1. ASSUME IInv, NEW p \in Parties, NEW q \in Parties, Split(p), Split(q), session[p].tx.k = session[q].rx.k
      PROVE  /\ p # q
             /\ session[q].tx.k = session[p].rx.k
             /\ session[p].tx.k # session[p].rx.k
             /\ session[p].remote_static = StaticPub(q)
             /\ session[q].remote_static = StaticPub(p)
  <2>1. session[p].tx.k # session[p].rx.k
    BY Zenon, <1>1, SendingKey DEF Split
  <2>2. /\ p \in Initiators => InitiatorSession(p, session[p], sealed)
        /\ p \in Responders => ResponderSession(p, session[p], sealed)
        /\ q \in Initiators => InitiatorSession(q, session[q], sealed)
        /\ q \in Responders => ResponderSession(q, session[q], sealed)
    BY Zenon, <1>1 DEF IInv, PartyInv, Split
  <2>3. CASE p \in Initiators
    <3>1. PICK r \in Responders :
            /\ session[p].tx.k = KT(ee(p, r), es(p, r), se(p, r), 1)
            /\ session[p].rx.k = KT(ee(p, r), es(p, r), se(p, r), 2)
            /\ session[p].remote_static = StaticPub(r)
      BY ZenonT(40), <2>2, <2>3 DEF InitiatorSession
    <3>2. q \in Responders
      <4>1. 1 # 2
        OBVIOUS
      <4>2. ASSUME q \in Initiators PROVE FALSE
        <5>1. PICK s \in Responders : session[q].rx.k = KT(ee(q, s), es(q, s), se(q, s), 2)
          BY ZenonT(40), <2>2, <4>2 DEF InitiatorSession
        <5>2. KT(ee(p, r), es(p, r), se(p, r), 1) = KT(ee(q, s), es(q, s), se(q, s), 2)
          BY Zenon, <1>1, <3>1, <5>1
        <5> QED BY SMTT(20), <4>1, <5>2, KeysDiffer
      <4> QED BY Zenon, <1>1, <4>2 DEF Parties
    <3>3. PICK i \in Initiators :
            /\ session[q].tx.k = KT(ee(i, q), es(i, q), se(i, q), 2)
            /\ session[q].rx.k = KT(ee(i, q), es(i, q), se(i, q), 1)
            /\ session[q].remote_static = StaticPub(i)
      BY Zenon, <2>2, <3>2 DEF ResponderSession
    <3>4. ee(p, r) = ee(i, q)
      <4>1. KT(ee(p, r), es(p, r), se(p, r), 1) = KT(ee(i, q), es(i, q), se(i, q), 1)
        BY Zenon, <1>1, <3>1, <3>3
      <4> QED BY <4>1, KeysDiffer
    <3>5. i = p /\ r = q
      BY <2>3, <3>2, <3>4, Same
    <3> QED BY Zenon, <1>1, <2>1, <3>1, <3>3, <3>5
  <2>4. CASE p \in Responders
    <3>1. PICK i \in Initiators :
            /\ session[p].tx.k = KT(ee(i, p), es(i, p), se(i, p), 2)
            /\ session[p].rx.k = KT(ee(i, p), es(i, p), se(i, p), 1)
            /\ session[p].remote_static = StaticPub(i)
      BY ZenonT(40), <2>2, <2>4 DEF ResponderSession
    <3>2. q \in Initiators
      <4>1. 1 # 2
        OBVIOUS
      <4>2. ASSUME q \in Responders PROVE FALSE
        <5>1. PICK j \in Initiators : session[q].rx.k = KT(ee(j, q), es(j, q), se(j, q), 1)
          BY ZenonT(40), <2>2, <4>2 DEF ResponderSession
        <5>2. KT(ee(i, p), es(i, p), se(i, p), 2) = KT(ee(j, q), es(j, q), se(j, q), 1)
          BY Zenon, <1>1, <3>1, <5>1
        <5> QED BY SMTT(20), <4>1, <5>2, KeysDiffer
      <4> QED BY Zenon, <1>1, <4>2 DEF Parties
    <3>3. PICK r \in Responders :
            /\ session[q].tx.k = KT(ee(q, r), es(q, r), se(q, r), 1)
            /\ session[q].rx.k = KT(ee(q, r), es(q, r), se(q, r), 2)
            /\ session[q].remote_static = StaticPub(r)
      BY Zenon, <2>2, <3>2 DEF InitiatorSession
    <3>4. ee(i, p) = ee(q, r)
      <4>1. KT(ee(i, p), es(i, p), se(i, p), 2) = KT(ee(q, r), es(q, r), se(q, r), 2)
        BY Zenon, <1>1, <3>1, <3>3
      <4> QED BY <4>1, KeysDiffer
    <3>5. i = q /\ r = p
      BY Zenon, <2>4, <3>2, <3>4, Same
    <3> QED BY Zenon, <1>1, <2>1, <3>1, <3>3, <3>5
  <2> QED BY Zenon, <2>3, <2>4 DEF Parties
<1>2. IInv => SessionsPairUp
  BY Zenon, <1>1 DEF SessionsPairUp
<1> QED BY <1>2, Invariant, PTL
=============================================================================
