------------------------- MODULE KeyMaterialProofs -------------------------
(***************************************************************************)
(* Proofs about where key material lives: in memory (Arena), for every     *)
(* SIZE_MAX, page size and request, and on disk (Keystore), for any sets   *)
(* of PINs, salts and identities and any number of faults and cleans.  The *)
(* two are independent of each other.                                      *)
(***************************************************************************)
EXTENDS Arena, Keystore, TLAPS

-----------------------------------------------------------------------------
(* In memory.                                                              *)

Before(b, c) == b.ptr + b.size <= c.ptr

(* Blocks lie one behind the other below the offset, and no saved offset   *)
(* cuts one.                                                               *)
Layout ==
  /\ \A b \in blocks : b.size >= 1 /\ b.ptr + b.size <= a.offset
  /\ \A b, c \in blocks : b = c \/ Before(b, c) \/ Before(c, b)
  /\ \A s \in saves : s <= a.offset
  /\ \A s \in saves, b \in blocks : b.ptr + b.size <= s \/ s <= b.ptr

Unmapped == ~a.base => blocks = {} /\ saves = {} /\ dirty = {}

ArenaInv == ArenaTypeOK /\ RoomAsAsked /\ FreeIsZero /\ NothingLeft /\ Layout /\ Unmapped

LEMMA NoWrap ==
  ASSUME NEW x \in 0..SIZE_MAX
  PROVE  SizeT(x) = x
BY ArenaAssumption DEF SizeT

LEMMA DivMod ==
  ASSUME NEW y \in Nat, NEW u \in Nat \ {0}
  PROVE  /\ y \div u \in Nat
         /\ y % u \in 0 .. (u - 1)
         /\ y = (u * (y \div u)) + (y % u)
OBVIOUS

LEMMA MultipleMod ==
  ASSUME NEW q \in Nat, NEW u \in Nat \ {0}
  PROVE  (q * u) % u = 0
<1> DEFINE y == q * u
           k == y \div u
           r == y % u
<1>1. y \in Nat
  OBVIOUS
<1>2. k \in Nat /\ r \in 0 .. (u - 1) /\ y = u * k + r
  BY Zenon, <1>1, DivMod
<1>3. u * (q - k) = r
  BY <1>2
<1>4. CASE q - k >= 1
  <2>1. u * (q - k) >= u
    BY <1>2, <1>4
  <2> QED BY <2>1, <1>3, <1>2
<1>5. CASE q - k <= -1
  <2>1. u * (q - k) <= -u
    BY <1>2, <1>5
  <2> QED BY <2>1, <1>3, <1>2
<1>6. CASE q - k = 0
  BY <1>3, <1>6
<1> QED BY <1>2, <1>4, <1>5, <1>6

LEMMA AlignUpBounds ==
  ASSUME NEW x \in Nat, NEW u \in Nat \ {0}
  PROVE  /\ AlignUp(x, u) \in Nat
         /\ x <= AlignUp(x, u)
         /\ AlignUp(x, u) <= x + (u - 1)
         /\ AlignUp(x, u) % u = 0
<1> DEFINE y == x + (u - 1)
           k == y \div u
           r == y % u
<1>1. y \in Nat
  OBVIOUS
<1>2. k \in Nat /\ r \in 0 .. (u - 1) /\ y = u * k + r
  BY Zenon, <1>1, DivMod
<1>3. AlignUp(x, u) = k * u
  BY DEF AlignUp
<1>4. k * u = u * k /\ k * u \in Nat
  BY <1>2
<1>5. (k * u) % u = 0
  BY Zenon, <1>2, MultipleMod
<1> HIDE DEF k, r
<1> QED BY <1>2, <1>3, <1>4, <1>5

LEMMA Align16 ==
  ASSUME NEW x \in Nat
  PROVE  /\ AlignUp(x, 16) \in Nat
         /\ x <= AlignUp(x, 16)
         /\ AlignUp(x, 16) <= x + 15
         /\ AlignUp(x, 16) % 16 = 0
BY DEF AlignUp

LEMMA InitSizesFit ==
  ASSUME NEW size \in InitSizes, SizeAccepted(size),
         LET usable == page_align(SizeT(size + NOX_CANARY_LEN))
         IN  usable # 0 /\ usable <= SIZE_MAX - 2 * PAGE
  PROVE  LET usable == page_align(SizeT(size + NOX_CANARY_LEN))
         IN  /\ usable \in Nat
             /\ size + NOX_CANARY_LEN <= usable
             /\ usable % PAGE = 0
             /\ SizeT(PAGE + SizeT(usable + PAGE)) = usable + 2 * PAGE
<1> DEFINE raw == size + NOX_CANARY_LEN
           usable == page_align(raw)
<1>1. size \in Nat /\ size >= 1 /\ raw \in 0..SIZE_MAX /\ PAGE \in Nat \ {0} /\ SIZE_MAX \in Nat
  BY ArenaAssumption DEF SizeAccepted
<1>2. SizeT(raw) = raw
  BY <1>1, NoWrap
<1>3. usable # 0 /\ usable <= SIZE_MAX - 2 * PAGE
  BY <1>2
<1>4. raw <= SIZE_MAX - (PAGE - 1) /\ usable = SizeT(AlignUp(raw, PAGE))
  BY <1>3, <1>1 DEF page_align
<1>5. /\ AlignUp(raw, PAGE) \in Nat
      /\ raw <= AlignUp(raw, PAGE)
      /\ AlignUp(raw, PAGE) <= raw + (PAGE - 1)
      /\ AlignUp(raw, PAGE) % PAGE = 0
  BY <1>1, AlignUpBounds
<1>6. AlignUp(raw, PAGE) \in 0..SIZE_MAX
  <2> HIDE DEF raw
  <2> QED BY <1>1, <1>4, <1>5
<1>7. usable = AlignUp(raw, PAGE)
  BY <1>4, <1>6, NoWrap
<1>8. /\ usable \in Nat /\ raw <= usable /\ usable % PAGE = 0
  BY <1>5, <1>7
<1> HIDE DEF usable
<1>9. usable + PAGE \in 0..SIZE_MAX /\ PAGE + (usable + PAGE) \in 0..SIZE_MAX
  BY <1>1, <1>3, <1>8
<1>10. SizeT(PAGE + SizeT(usable + PAGE)) = usable + 2 * PAGE
  BY <1>1, <1>8, <1>9, NoWrap
<1> QED BY <1>2, <1>8, <1>10 DEF usable

LEMMA InitStep ==
  ASSUME ArenaInv, NEW size \in InitSizes, arena_init(size)
  PROVE  ArenaInv'
<1> DEFINE usable == page_align(SizeT(size + NOX_CANARY_LEN))
<1>1. /\ usable # 0 /\ usable <= SIZE_MAX - 2 * PAGE /\ SizeAccepted(size)
      /\ a' = [base |-> TRUE, total_size |-> SizeT(PAGE + SizeT(usable + PAGE)),
               usable_size |-> usable - NOX_CANARY_LEN, offset |-> 0]
      /\ asked' = size /\ canary' = TRUE /\ ~a.base
      /\ UNCHANGED <<dirty, blocks, saves, left, status>>
  BY DEF arena_init
<1>2. /\ usable \in Nat
      /\ size + NOX_CANARY_LEN <= usable
      /\ usable % PAGE = 0
      /\ SizeT(PAGE + SizeT(usable + PAGE)) = usable + 2 * PAGE
  BY <1>1, InitSizesFit
<1> HIDE DEF usable
<1>3. /\ size \in Nat /\ size >= 1 /\ SIZE_MAX \in Nat /\ PAGE \in Nat \ {0}
      /\ NOX_CANARY_LEN \in Nat /\ 1 <= NOX_CANARY_LEN
  BY <1>1, ArenaAssumption DEF SizeAccepted
<1>4. a' = [base |-> TRUE, total_size |-> usable + 2 * PAGE,
            usable_size |-> usable - NOX_CANARY_LEN, offset |-> 0]
  BY Zenon, <1>1, <1>2
<1>5. blocks = {} /\ saves = {} /\ dirty = {}
  BY <1>1 DEF ArenaInv, Unmapped
<1>6. /\ usable - NOX_CANARY_LEN \in 0..SIZE_MAX
      /\ usable + 2 * PAGE \in 0..SIZE_MAX
      /\ size <= usable - NOX_CANARY_LEN
      /\ usable - NOX_CANARY_LEN # 0
      /\ usable - NOX_CANARY_LEN < usable + 2 * PAGE
      /\ (usable - NOX_CANARY_LEN) + NOX_CANARY_LEN = usable
      /\ usable - NOX_CANARY_LEN <= SIZE_MAX - NOX_CANARY_LEN
      /\ usable + 2 * PAGE >= 2 * PAGE
  BY <1>1, <1>2, <1>3
<1>7. ArenaTypeOK'
  BY <1>1, <1>3, <1>4, <1>6 DEF ArenaInv, ArenaTypeOK
<1>8. RoomAsAsked'
  <2>1. /\ a'.base /\ a'.total_size = usable + 2 * PAGE
        /\ a'.usable_size = usable - NOX_CANARY_LEN /\ a'.offset = 0
    BY <1>4
  <2>2. a'.offset <= a'.usable_size /\ a'.offset % 16 = 0
    BY <2>1, <1>6
  <2>3. arena_is_valid(a')
    BY <2>1, <2>2, <1>1, <1>2, <1>6 DEF arena_is_valid
  <2> QED BY <2>1, <2>3, <1>1, <1>6 DEF RoomAsAsked
<1> QED
  BY <1>1, <1>4, <1>5, <1>7, <1>8 DEF ArenaInv, FreeIsZero, NothingLeft, Layout, Unmapped

LEMMA AllocStep ==
  ASSUME ArenaInv, NEW size \in AllocSizes, arena_alloc(size)
  PROVE  ArenaInv'
<1> DEFINE al == AlignUp(size, 16)
           new == [ptr |-> a.offset, size |-> size]
<1>1. /\ a.base /\ arena_is_valid(a) /\ size # 0 /\ Fits(size)
      /\ blocks' = blocks \cup {new}
      /\ dirty' = dirty \cup (a.offset .. (a.offset + size - 1))
      /\ a' = [a EXCEPT !.offset = SizeT(a.offset + Aligned(size))]
      /\ UNCHANGED <<canary, saves, asked, left, status>>
  BY DEF arena_alloc, Live, CanaryHolds
<1>2. /\ size \in Nat /\ size >= 1 /\ SIZE_MAX \in Nat
      /\ a.offset \in Nat /\ a.usable_size \in 0..SIZE_MAX
  BY <1>1, ArenaAssumption DEF ArenaInv, ArenaTypeOK
<1>3. al \in Nat /\ size <= al /\ al <= size + 15 /\ al % 16 = 0
  BY <1>2, Align16
<1> HIDE DEF al
<1>4. size <= SIZE_MAX - 15
  BY <1>1 DEF Fits
<1>5. al \in 0..SIZE_MAX
  BY <1>2, <1>3, <1>4
<1>6. Aligned(size) = al
  BY <1>5, NoWrap DEF Aligned, al
<1>7. al <= SIZE_MAX - a.offset /\ SizeT(a.offset + al) <= a.usable_size
  BY <1>1, <1>6 DEF Fits
<1>8. SizeT(a.offset + al) = a.offset + al
  <2>1. a.offset + al \in 0..SIZE_MAX
    BY <1>2, <1>3, <1>7
  <2> QED BY <2>1, NoWrap
<1>9. a' = [a EXCEPT !.offset = a.offset + al] /\ a.offset + al <= a.usable_size
  BY <1>1, <1>6, <1>7, <1>8
<1>10. a.offset % 16 = 0
  BY <1>1 DEF arena_is_valid
<1>11. (a.offset + al) % 16 = 0
  BY <1>2, <1>3, <1>10
<1>12. a \in [base : BOOLEAN, total_size : 0..SIZE_MAX, usable_size : 0..SIZE_MAX, offset : 0..SIZE_MAX]
  BY DEF ArenaInv, ArenaTypeOK
<1>13. /\ a'.offset = a.offset + al /\ a'.base = a.base
       /\ a'.total_size = a.total_size /\ a'.usable_size = a.usable_size
  BY <1>9, <1>12
<1>14. ArenaTypeOK'
  <2>1. a.offset + al \in 0..SIZE_MAX
    BY <1>2, <1>3, <1>9
  <2>2. a' \in [base : BOOLEAN, total_size : 0..SIZE_MAX, usable_size : 0..SIZE_MAX, offset : 0..SIZE_MAX]
    BY <2>1, <1>9, <1>12
  <2>3. dirty' \subseteq Nat
    BY <1>1, <1>2 DEF ArenaInv, ArenaTypeOK
  <2>4. new \in [ptr : Nat, size : Nat]
    BY <1>2
  <2> QED BY <2>2, <2>3, <2>4, <1>1 DEF ArenaInv, ArenaTypeOK
<1>15. RoomAsAsked'
  BY <1>1, <1>9, <1>11, <1>13 DEF ArenaInv, RoomAsAsked, arena_is_valid
<1>16. FreeIsZero'
  <2> SUFFICES ASSUME canary, NEW x \in dirty' PROVE x < a.offset + al
    BY <1>1, <1>13 DEF FreeIsZero
  <2>1. CASE x \in dirty
    <3>1. x < a.offset /\ x \in Nat
      BY <2>1 DEF ArenaInv, FreeIsZero, ArenaTypeOK
    <3> QED BY <3>1, <1>2, <1>3
  <2>2. CASE x \in a.offset .. (a.offset + size - 1)
    BY <2>2, <1>2, <1>3
  <2> QED BY <2>1, <2>2, <1>1
<1>17. Layout'
  <2>1. \A b \in blocks : b \in [ptr : Nat, size : Nat] /\ b.size >= 1 /\ b.ptr + b.size <= a.offset
    BY DEF ArenaInv, Layout, ArenaTypeOK
  <2>2. new.ptr = a.offset /\ new.size = size
    OBVIOUS
  <2> HIDE DEF new
  <2>3. \A b \in blocks' : b.size >= 1 /\ b.ptr + b.size <= a'.offset
    BY <2>1, <2>2, <1>1, <1>2, <1>3, <1>13
  <2>4. \A b \in blocks : Before(b, new)
    BY <2>1, <2>2 DEF Before
  <2>5. \A b, c \in blocks' : b = c \/ Before(b, c) \/ Before(c, b)
    BY <2>4, <1>1 DEF ArenaInv, Layout
  <2>6. \A s \in saves : s \in Nat /\ s <= a.offset
    BY DEF ArenaInv, Layout, ArenaTypeOK
  <2>7. \A s \in saves' : s <= a'.offset
    BY <2>6, <1>1, <1>2, <1>3, <1>13
  <2>8. \A s \in saves', b \in blocks' : b.ptr + b.size <= s \/ s <= b.ptr
    BY <2>2, <2>6, <1>1 DEF ArenaInv, Layout
  <2> QED BY <2>3, <2>5, <2>7, <2>8 DEF Layout
<1> QED
  BY <1>1, <1>13, <1>14, <1>15, <1>16, <1>17 DEF ArenaInv, NothingLeft, Unmapped

LEMMA RestoreStep ==
  ASSUME ArenaInv, NEW s \in saves, arena_restore(s)
  PROVE  ArenaInv'
<1>1. /\ a.base /\ arena_is_valid(a) /\ s <= a.usable_size /\ s % 16 = 0 /\ s < a.offset
      /\ dirty' = dirty \ (s .. (a.offset - 1))
      /\ a' = [a EXCEPT !.offset = s]
      /\ blocks' = {b \in blocks : b.ptr < s}
      /\ saves' = {t \in saves : t <= s}
      /\ UNCHANGED <<canary, asked, left, status>>
  BY DEF arena_restore, Live, CanaryHolds
<1>2. /\ a \in [base : BOOLEAN, total_size : 0..SIZE_MAX, usable_size : 0..SIZE_MAX, offset : 0..SIZE_MAX]
      /\ s \in Nat /\ SIZE_MAX \in Nat
  BY ArenaAssumption DEF ArenaInv, ArenaTypeOK
<1>3. /\ a'.offset = s /\ a'.base = a.base
      /\ a'.total_size = a.total_size /\ a'.usable_size = a.usable_size
  BY Zenon, <1>1, <1>2
<1>4. ArenaTypeOK'
  <2>1. s \in 0..SIZE_MAX
    BY <1>1, <1>2
  <2>2. a' \in [base : BOOLEAN, total_size : 0..SIZE_MAX, usable_size : 0..SIZE_MAX, offset : 0..SIZE_MAX]
    BY <2>1, <1>1, <1>2
  <2> QED BY <2>2, <1>1 DEF ArenaInv, ArenaTypeOK
<1>5. RoomAsAsked'
  BY <1>1, <1>3 DEF ArenaInv, RoomAsAsked, arena_is_valid
<1>6. FreeIsZero'
  BY <1>1, <1>2, <1>3 DEF ArenaInv, FreeIsZero, ArenaTypeOK
<1>7. Layout'
  <2>1. \A b \in blocks : b \in [ptr : Nat, size : Nat] /\ b.size >= 1
    BY DEF ArenaInv, Layout, ArenaTypeOK
  <2>2. \A b \in blocks' : b.size >= 1 /\ b.ptr + b.size <= s
    BY <2>1, <1>1, <1>2 DEF ArenaInv, Layout
  <2> QED BY <2>2, <1>1, <1>3 DEF ArenaInv, Layout
<1> QED
  BY <1>1, <1>3, <1>4, <1>5, <1>6, <1>7 DEF ArenaInv, NothingLeft, Unmapped

LEMMA ArenaInductive == ArenaInv /\ [ArenaNext]_arenaVars => ArenaInv'
<1> SUFFICES ASSUME ArenaInv, [ArenaNext]_arenaVars PROVE ArenaInv'
  OBVIOUS
<1>1. CASE \E size \in InitSizes : arena_init(size)
  BY <1>1, InitStep
<1>2. CASE \E size \in AllocSizes : arena_alloc(size)
  BY <1>2, AllocStep
<1>3. CASE arena_save
  <2>1. /\ a.base /\ saves' = saves \cup {a.offset}
        /\ UNCHANGED <<a, dirty, canary, blocks, asked, left, status>>
    BY <1>3 DEF arena_save, Live
  <2>2. a.offset \in Nat
    BY ArenaAssumption DEF ArenaInv, ArenaTypeOK
  <2>3. ArenaTypeOK'
    BY Zenon, <2>1, <2>2 DEF ArenaInv, ArenaTypeOK
  <2>4. Layout'
    BY <2>1, <2>2 DEF ArenaInv, Layout, Before
  <2>5. RoomAsAsked' /\ FreeIsZero' /\ NothingLeft' /\ Unmapped'
    BY <2>1 DEF ArenaInv, RoomAsAsked, FreeIsZero, NothingLeft, Unmapped
  <2> QED BY <2>3, <2>4, <2>5 DEF ArenaInv
<1>4. CASE \E s \in saves : arena_restore(s)
  BY <1>4, RestoreStep
<1>5. CASE secure_abort
  BY Zenon, <1>5 DEF ArenaInv, secure_abort, Live, ArenaTypeOK, RoomAsAsked, FreeIsZero, NothingLeft, Layout, Unmapped, Before, Unwiped
<1>6. CASE arena_destroy
  <2>1. /\ left' = Unwiped /\ dirty' = {} /\ a' = NoArena /\ blocks' = {} /\ saves' = {}
        /\ UNCHANGED <<canary, asked>>
    BY <1>6 DEF arena_destroy
  <2>2. NoArena \in [base : BOOLEAN, total_size : 0..SIZE_MAX, usable_size : 0..SIZE_MAX, offset : 0..SIZE_MAX]
    BY ArenaAssumption DEF NoArena
  <2>3. left' \subseteq Nat
    BY Zenon, <2>1 DEF ArenaInv, ArenaTypeOK, Unwiped
  <2>4. status' \in {"running", "aborted"}
    BY <1>6, Zenon DEF arena_destroy
  <2>5. ArenaTypeOK'
    BY <2>1, <2>2, <2>3, <2>4 DEF ArenaInv, ArenaTypeOK
  <2>6. ~a'.base
    BY <2>1 DEF NoArena
  <2> QED BY <2>1, <2>5, <2>6 DEF ArenaInv, RoomAsAsked, FreeIsZero, NothingLeft, Layout, Unmapped, Unwiped
<1>7. CASE Overrun
  <2>1. /\ a.base /\ canary' = FALSE
        /\ UNCHANGED <<a, blocks, saves, asked, left, status>>
    BY <1>7 DEF Overrun, Live
  <2>2. PICK from \in {a.offset, a.usable_size} :
          dirty' = dirty \cup (from .. (a.usable_size - 1))
    BY <1>7 DEF Overrun
  <2>3. a.offset \in Nat /\ a.usable_size \in Nat
    BY ArenaAssumption DEF ArenaInv, ArenaTypeOK
  <2>4. dirty' \subseteq Nat
    <3>1. from \in Nat
      BY <2>3
    <3>2. from .. (a.usable_size - 1) \subseteq Nat
      BY <2>3, <3>1
    <3>3. dirty \subseteq Nat
      BY DEF ArenaInv, ArenaTypeOK
    <3> QED BY Zenon, <2>2, <3>2, <3>3
  <2>5. ArenaTypeOK'
    BY Zenon, <2>1, <2>4 DEF ArenaInv, ArenaTypeOK
  <2>6. RoomAsAsked' /\ NothingLeft' /\ Layout' /\ Unmapped'
    BY <2>1 DEF ArenaInv, RoomAsAsked, NothingLeft, Layout, Unmapped, Before
  <2>7. FreeIsZero'
    BY <2>1 DEF FreeIsZero
  <2> QED BY <2>5, <2>6, <2>7 DEF ArenaInv
<1>8. CASE UNCHANGED arenaVars
  BY <1>8 DEF arenaVars, ArenaInv, ArenaTypeOK, RoomAsAsked, FreeIsZero, NothingLeft, Layout, Unmapped, Before
<1> QED BY <1>1, <1>2, <1>3, <1>4, <1>5, <1>6, <1>7, <1>8 DEF ArenaNext

LEMMA ArenaInitially == ArenaInit => ArenaInv
BY ArenaAssumption
   DEF ArenaInit, NoArena, ArenaInv, ArenaTypeOK, RoomAsAsked, FreeIsZero, NothingLeft, Layout, Unmapped

(* For every page size, request and SIZE_MAX: a mapped arena is what        *)
(* arena_is_valid describes and holds at least the size asked for.          *)
THEOREM ArenaHasRoom == ArenaSpec => []RoomAsAsked
<1>1. ArenaInv => RoomAsAsked
  BY DEF ArenaInv
<1> QED BY <1>1, ArenaInitially, ArenaInductive, PTL DEF ArenaSpec

(* Blocks of any sizes, through any saves and restores, stay apart and      *)
(* inside the usable area.                                                  *)
THEOREM ArenaBlocksApart == ArenaSpec => []BlocksApart
<1>1. ArenaInv => BlocksApart
  <2> SUFFICES ASSUME ArenaInv PROVE BlocksApart
    OBVIOUS
  <2>1. blocks \subseteq [ptr : Nat, size : Nat]
    BY DEF ArenaInv, ArenaTypeOK
  <2>2. \A b, c \in blocks : b # c => Bytes(b) \cap Bytes(c) = {}
    BY <2>1 DEF ArenaInv, Layout, Before, Bytes
  <2>3. \A b \in blocks : b.ptr + b.size <= a.usable_size
    <3> SUFFICES ASSUME NEW b \in blocks PROVE b.ptr + b.size <= a.usable_size
      OBVIOUS
    <3>1. a.base
      BY DEF ArenaInv, Unmapped
    <3>2. a.offset <= a.usable_size /\ a.offset \in Nat /\ a.usable_size \in Nat
      BY <3>1, ArenaAssumption DEF ArenaInv, RoomAsAsked, arena_is_valid, ArenaTypeOK
    <3> QED BY <2>1, <3>2 DEF ArenaInv, Layout
  <2>4. a.usable_size \in Nat
    BY ArenaAssumption DEF ArenaInv, ArenaTypeOK
  <2>5. \A b \in blocks : Bytes(b) \subseteq 0 .. (a.usable_size - 1)
    BY <2>1, <2>3, <2>4 DEF Bytes
  <2> QED BY <2>2, <2>5 DEF BlocksApart
<1> QED BY <1>1, ArenaInitially, ArenaInductive, PTL DEF ArenaSpec

(* arena_restore leaves no byte of a block it took back: while the canary   *)
(* holds, the free part is zero.                                            *)
THEOREM ArenaFreeIsZero == ArenaSpec => []FreeIsZero
<1>1. ArenaInv => FreeIsZero
  BY DEF ArenaInv
<1> QED BY <1>1, ArenaInitially, ArenaInductive, PTL DEF ArenaSpec

(* arena_destroy and secure_abort leave nothing within the wipe bound.      *)
THEOREM ArenaNothingLeft == ArenaSpec => []NothingLeft
<1>1. ArenaInv => NothingLeft
  BY DEF ArenaInv
<1> QED BY <1>1, ArenaInitially, ArenaInductive, PTL DEF ArenaSpec

(* Through any sequence of calls, aborts included, key bytes live only in   *)
(* blocks in use.                                                           *)
THEOREM ArenaNoKeyBytesLeft == ArenaSpec => []NoKeyBytesLeft
BY ArenaFreeIsZero, ArenaNothingLeft, PTL DEF NoKeyBytesLeft

-----------------------------------------------------------------------------
(* On disk.                                                                *)

KeyFiles == {"identity.key", "salt"}
Cleaning == {"overwrite", "sync", "unlink"}
Erased == {None, Zeros}

\* Where the salt in use is the one on disk, and where an identity is at hand.
SaltInUse == {"salt_dirsync", "derive", "generate", "id_fsync", "id_rename",
              "id_dirsync", "load", "database", "running"}
Sealing == {"id_fsync", "id_rename", "id_dirsync"}

Shape ==
  /\ DOMAIN disk = Files /\ DOMAIN may = Files
  /\ DOMAIN m = DOMAIN NoLocals
  /\ del \in 1 .. 3

\* No start renames a file whose data is not on the disk.
DataStored ==
  /\ \A f \in KeyFiles : Torn \notin may[f] /\ disk[f] \in may[f]
  /\ pc \in {"salt_rename", "id_rename"} => m.stored = TRUE

Locals ==
  /\ pc \in SaltInUse \cup {"salt", "salt_fsync", "salt_rename"} => m.pin \in Pins
  /\ pc \in SaltInUse \cup {"salt_fsync", "salt_rename"} => m.salt \in SaltValues
  /\ pc \in SaltInUse => disk["salt"] = m.salt
  /\ pc \in Sealing => m.id \in Identities /\ KeyOf(m.id) = Key
  /\ pc = "id_dirsync" => disk["identity.key"] = m.id

\* While an account is stored only a blind start is on the path that makes one.
Account ==
  (dirsync /\ account # None) =>
    /\ account \in Identities
    /\ may["identity.key"] = {account} /\ disk["identity.key"] = account
    /\ may["salt"] = {SaltOf(account)} /\ disk["salt"] = SaltOf(account)
    /\ \/ pc \in {"off", "config", "pin", "salt", "derive", "load", "database", "running"}
       \/ pc \in {"generate", "id_fsync", "id_rename"} /\ m.blind
    /\ pc \in {"pin", "salt", "derive"} => ~m.first_run \/ m.blind
    /\ pc \in {"database", "running"} => Key = KeyOf(account)
    /\ written \subseteq {KeyOf(account)}

\* How far --full_cleankeys has come.
Gone ==
  /\ pc \in Cleaning => clean \in {"ok", "failed"}
  /\ clean = "ok" => pc \in Cleaning
  /\ clean # "failed" =>
       /\ \A f \in KeyFiles : disk[f] = None => may[f] \subseteq Erased
       /\ pc = "sync" => disk[AtFile] = Zeros
       /\ pc = "unlink" /\ AtFile \in KeyFiles => may[AtFile] \subseteq Erased
  /\ clean = "ok" /\ del > 1 => may["identity.key"] \subseteq Erased
  /\ clean = "ok" /\ del > 2 => may["salt"] \subseteq Erased
  /\ clean = "done" => \A f \in KeyFiles : may[f] \subseteq Erased

IInv == Shape /\ DataStored /\ Locals /\ Account /\ Gone


-----------------------------------------------------------------------------

\* The marks of files are no salts, no identities and differ.
LEMMA Marks ==
  /\ None # Zeros /\ None # Torn /\ Zeros # Torn
  /\ None \notin SaltValues /\ Torn \notin SaltValues
  /\ None \notin Identities /\ Torn \notin Identities
BY KeystoreAssumption DEF SaltValues, Identities

LEMMA SaltOfAccount ==
  ASSUME NEW i \in Identities
  PROVE  SaltOf(i) \in SaltValues
BY DEF Identities, SaltOf

\* The three files, by the index --full_cleankeys counts in.
LEMMA AtFileIs ==
  ASSUME del \in 1 .. 3
  PROVE  AtFile = (IF del = 1 THEN "identity.key" ELSE IF del = 2 THEN "salt" ELSE "contacts.db")
BY DEF AtFile, FileOrder

-----------------------------------------------------------------------------
\* Every action keeps the invariant.

LEMMA Step_Start == IInv /\ Start => IInv'
<1> SUFFICES ASSUME IInv, Start PROVE IInv'
  OBVIOUS
<1>1. Shape'
  BY DEF IInv, Shape, Start, Goto, files
<1>2. DataStored'
  BY DEF IInv, DataStored, Start, Goto, files
<1>3. Locals'
  BY DEF IInv, Locals, SaltInUse, Sealing, Start, Goto
<1>4. Account'
  BY DEF IInv, Account, Start, Goto, history, files
<1>5. Gone'
  BY DEF IInv, Gone, Cleaning, Start, Goto, history, files
<1> QED
  BY <1>1, <1>2, <1>3, <1>4, <1>5 DEF IInv

LEMMA Step_ensure_config_dir == IInv /\ ensure_config_dir => IInv'
<1> SUFFICES ASSUME IInv, ensure_config_dir PROVE IInv'
  OBVIOUS
<1>1. Shape'
  BY DEF IInv, Shape, ensure_config_dir, Goto, files
<1>2. DataStored'
  BY DEF IInv, DataStored, ensure_config_dir, Goto, files
<1>3. Locals'
  BY DEF IInv, Locals, SaltInUse, Sealing, ensure_config_dir, Goto
<1>4. Account'
  BY Zenon DEF IInv, Account, Shape, ensure_config_dir, Goto, NoLocals, history, files
<1>5. Gone'
  BY DEF IInv, Gone, Cleaning, ensure_config_dir, Goto, history, files
<1> QED
  BY <1>1, <1>2, <1>3, <1>4, <1>5 DEF IInv

LEMMA Step_StatFails == IInv /\ StatFails => IInv'
<1> SUFFICES ASSUME IInv, StatFails PROVE IInv'
  OBVIOUS
<1>1. Shape'
  BY DEF IInv, Shape, StatFails, files
<1>2. DataStored'
  BY DEF IInv, DataStored, StatFails, files
<1>3. Locals'
  BY DEF IInv, Locals, SaltInUse, Sealing, StatFails
<1>4. Account'
  BY Marks DEF IInv, Account, Shape, StatFails, NoLocals, history, files
<1>5. Gone'
  BY DEF IInv, Gone, Cleaning, StatFails, history, files
<1> QED
  BY <1>1, <1>2, <1>3, <1>4, <1>5 DEF IInv

LEMMA Step_ReadPin == IInv /\ ReadPin => IInv'
<1> SUFFICES ASSUME IInv, ReadPin PROVE IInv'
  OBVIOUS
<1>1. Shape'
  BY DEF IInv, Shape, ReadPin, read_pin, files
<1>2. DataStored'
  BY DEF IInv, DataStored, ReadPin, read_pin, files
<1>3. Locals'
  BY DEF IInv, Locals, Shape, SaltInUse, Sealing, ReadPin, read_pin, ValidPin,
     NoLocals
<1>4. Account'
  BY DEF IInv, Account, Shape, ReadPin, read_pin, NoLocals, history, files
<1>5. Gone'
  BY DEF IInv, Gone, Cleaning, ReadPin, read_pin, history, files
<1> QED
  BY <1>1, <1>2, <1>3, <1>4, <1>5 DEF IInv

LEMMA Step_crypto_load_salt == IInv /\ crypto_load_salt => IInv'
<1> SUFFICES ASSUME IInv, crypto_load_salt PROVE IInv'
  OBVIOUS
<1>1. Shape'
  BY DEF IInv, Shape, crypto_load_salt, files
<1>2. DataStored'
  BY DEF IInv, DataStored, crypto_load_salt, files
<1>3. Locals'
  BY DEF IInv, Locals, Shape, SaltInUse, Sealing, crypto_load_salt, NoLocals, files
<1>4. Account'
  BY DEF IInv, Account, Shape, crypto_load_salt, NoLocals, history, files
<1>5. Gone'
  BY DEF IInv, Gone, Cleaning, crypto_load_salt, history, files
<1> QED
  BY <1>1, <1>2, <1>3, <1>4, <1>5 DEF IInv

LEMMA Step_crypto_create_salt == IInv /\ crypto_create_salt => IInv'
<1> SUFFICES ASSUME IInv, crypto_create_salt PROVE IInv'
  OBVIOUS
<1>0. m'.salt \in SaltValues
  BY DEF IInv, Shape, NoLocals, crypto_create_salt, AnyOf, SaltValues
<1>1. Shape'
  BY DEF IInv, Shape, crypto_create_salt, Goto, files
<1>2. DataStored'
  BY DEF IInv, DataStored, crypto_create_salt, Goto, files
<1>3. Locals'
  BY <1>0
     DEF IInv, Locals, Shape, SaltInUse, Sealing, crypto_create_salt, Goto, NoLocals,
     history, files
<1>4. Account'
  BY Marks, SaltOfAccount DEF IInv, Account, crypto_create_salt, Goto, history
<1>5. Gone'
  BY DEF IInv, Gone, Cleaning, crypto_create_salt, Goto, history, files
<1> QED
  BY <1>1, <1>2, <1>3, <1>4, <1>5 DEF IInv

LEMMA Step_salt_fsync == IInv /\ salt_fsync => IInv'
<1> SUFFICES ASSUME IInv, salt_fsync PROVE IInv'
  OBVIOUS
<1>1. Shape'
  BY DEF IInv, Shape, salt_fsync, fsync_exact, Goto, files
<1>2. DataStored'
  BY DEF IInv, DataStored, salt_fsync, fsync_exact, files
<1>3. Locals'
  BY DEF IInv, Locals, SaltInUse, Sealing, salt_fsync, fsync_exact, Goto
<1>4. Account'
  BY DEF IInv, Account, salt_fsync, fsync_exact, Goto, history
<1>5. Gone'
  BY DEF IInv, Gone, Cleaning, salt_fsync, fsync_exact, Goto, history, files
<1> QED
  BY <1>1, <1>2, <1>3, <1>4, <1>5 DEF IInv

LEMMA Step_salt_rename == IInv /\ salt_rename => IInv'
<1> SUFFICES ASSUME IInv, salt_rename PROVE IInv'
  OBVIOUS
<1>1. Shape'
  BY DEF IInv, Shape, salt_rename, Goto, Put
<1>2. DataStored'
  BY Marks DEF IInv, DataStored, Shape, Locals, salt_rename, Goto, Put
<1>3. Locals'
  BY DEF IInv, Locals, Shape, Sealing, salt_rename, Goto, Put, Files
<1>4. Account'
  BY DEF IInv, Account, salt_rename, Goto
<1>5. Gone'
  BY Marks DEF IInv, Gone, Shape, Locals, Cleaning, salt_rename, Goto, Put, Reset
<1> QED
  BY <1>1, <1>2, <1>3, <1>4, <1>5 DEF IInv

LEMMA Step_salt_dirsync == IInv /\ salt_dirsync => IInv'
<1> SUFFICES ASSUME IInv, salt_dirsync PROVE IInv'
  OBVIOUS
<1>1. Shape'
  BY Zenon DEF IInv, Shape, salt_dirsync, Goto, fsync_dir
<1>2. DataStored'
  BY DEF IInv, DataStored, salt_dirsync, Goto, fsync_dir, Files, KeyFiles
<1>3. Locals'
  BY DEF IInv, Locals, SaltInUse, Sealing, salt_dirsync, Goto
<1>4. Account'
  BY DEF IInv, Account, salt_dirsync, Goto, history
<1>5. Gone'
  BY DEF IInv, Gone, Cleaning, DataStored, salt_dirsync, Goto, fsync_dir, Files,
     KeyFiles, history
<1> QED
  BY <1>1, <1>2, <1>3, <1>4, <1>5 DEF IInv

LEMMA Step_crypto_derive_subkeys == IInv /\ crypto_derive_subkeys => IInv'
<1> SUFFICES ASSUME IInv, crypto_derive_subkeys PROVE IInv'
  OBVIOUS
<1>1. Shape'
  BY DEF IInv, Shape, crypto_derive_subkeys, Goto, files
<1>2. DataStored'
  BY DEF IInv, DataStored, crypto_derive_subkeys, Goto, files
<1>3. Locals'
  BY DEF IInv, Locals, SaltInUse, Sealing, crypto_derive_subkeys, Goto, files
<1>4. Account'
  BY DEF IInv, Account, crypto_derive_subkeys, Goto, history, files
<1>5. Gone'
  BY DEF IInv, Gone, Cleaning, crypto_derive_subkeys, Goto, history, files
<1> QED
  BY <1>1, <1>2, <1>3, <1>4, <1>5 DEF IInv

LEMMA Step_crypto_generate_identity == IInv /\ crypto_generate_identity => IInv'
<1> SUFFICES ASSUME IInv, crypto_generate_identity PROVE IInv'
  OBVIOUS
<1>1. Shape'
  BY DEF IInv, Shape, crypto_generate_identity, Goto, files
<1>2. DataStored'
  BY DEF IInv, DataStored, crypto_generate_identity, Goto, files
<1>3. Locals'
  BY DEF IInv, Locals, SaltInUse, Key, KeyOf, crypto_derive_master_key, Identities,
     crypto_generate_identity, Goto, AnyOf, files
<1>4. Account'
  BY DEF IInv, Account, Shape, NoLocals, crypto_generate_identity, Goto, history, files
<1>5. Gone'
  BY DEF IInv, Gone, Cleaning, crypto_generate_identity, Goto, history, files
<1> QED
  BY <1>1, <1>2, <1>3, <1>4, <1>5 DEF IInv

LEMMA Step_id_fsync == IInv /\ id_fsync => IInv'
<1> SUFFICES ASSUME IInv, id_fsync PROVE IInv'
  OBVIOUS
<1>1. Shape'
  BY DEF IInv, Shape, id_fsync, fsync_exact, Goto, files
<1>2. DataStored'
  BY DEF IInv, DataStored, id_fsync, fsync_exact, files
<1>3. Locals'
  BY DEF IInv, Locals, SaltInUse, Sealing, Key, id_fsync, fsync_exact, Goto, files
<1>4. Account'
  BY DEF IInv, Account, Shape, NoLocals, id_fsync, fsync_exact, Goto, history, files
<1>5. Gone'
  BY DEF IInv, Gone, Cleaning, id_fsync, fsync_exact, Goto, history, files
<1> QED
  BY <1>1, <1>2, <1>3, <1>4, <1>5 DEF IInv

LEMMA Step_id_rename == IInv /\ id_rename => IInv'
<1> SUFFICES ASSUME IInv, id_rename PROVE IInv'
  OBVIOUS
<1>1. Shape'
  BY DEF IInv, Shape, id_rename, Goto, Put
<1>2. DataStored'
  BY Marks DEF IInv, DataStored, Shape, Locals, Sealing, id_rename, Goto, Put
<1>3. Locals'
  BY DEF IInv, Locals, Shape, SaltInUse, Sealing, Key, id_rename, Goto, Put, Files
<1>4. Account'
  BY DEF IInv, Account, id_rename, Goto
<1>5. Gone'
  BY Marks
     DEF IInv, Gone, Shape, Locals, Sealing, Cleaning, id_rename, Goto, Put, Reset
<1> QED
  BY <1>1, <1>2, <1>3, <1>4, <1>5 DEF IInv

LEMMA Step_id_dirsync == IInv /\ id_dirsync => IInv'
<1> SUFFICES ASSUME IInv, id_dirsync PROVE IInv'
  OBVIOUS
<1>0. dirsync => \A f \in KeyFiles : may'[f] = {disk[f]}
  BY SMTT(20) DEF IInv, DataStored, id_dirsync, fsync_dir, Files, KeyFiles
<1>1. Shape'
  BY DEF IInv, Shape, id_dirsync, Goto, fsync_dir
<1>2. DataStored'
  BY DEF IInv, DataStored, id_dirsync, Goto, fsync_dir, Files, KeyFiles
<1>3. Locals'
  BY DEF IInv, Locals, SaltInUse, Sealing, id_dirsync, Goto
<1>4. Account'
  BY SMTT(20), <1>0
     DEF IInv, Account, Locals, SaltInUse, Sealing, Key, KeyOf, SaltOf,
     crypto_derive_master_key, id_dirsync, Goto, KeyFiles
<1>5. Gone'
  BY DEF IInv, Gone, Cleaning, DataStored, id_dirsync, Goto, fsync_dir, Files,
     KeyFiles
<1> QED
  BY <1>1, <1>2, <1>3, <1>4, <1>5 DEF IInv

LEMMA Step_crypto_load_identity == IInv /\ crypto_load_identity => IInv'
<1> SUFFICES ASSUME IInv, crypto_load_identity PROVE IInv'
  OBVIOUS
<1>1. Shape'
  BY DEF IInv, Shape, crypto_load_identity, files
<1>2. DataStored'
  BY DEF IInv, DataStored, crypto_load_identity, files
<1>3. Locals'
  BY DEF IInv, Locals, Shape, SaltInUse, Sealing, crypto_load_identity, NoLocals,
     files
<1>4. Account'
  BY DEF IInv, Account, Shape, Key, crypto_load_identity, Opens, NoLocals, history,
     files
<1>5. Gone'
  BY DEF IInv, Gone, Cleaning, crypto_load_identity, history, files
<1> QED
  BY <1>1, <1>2, <1>3, <1>4, <1>5 DEF IInv

LEMMA Step_db_init == IInv /\ (\E ghost \in BOOLEAN : db_init(ghost)) => IInv'
<1> SUFFICES ASSUME IInv, NEW ghost \in BOOLEAN, db_init(ghost) PROVE IInv'
  OBVIOUS
<1>1. Shape'
  BY DEF IInv, Shape, db_init, Put, files
<1>2. DataStored'
  BY DEF IInv, DataStored, Shape, db_init, Put, Files, KeyFiles, files
<1>3. Locals'
  BY DEF IInv, Locals, Shape, SaltInUse, Sealing, NoLocals, db_init, Put, Files, files
<1>4. Account'
  BY DEF IInv, Account, Shape, Key, NoLocals, db_init, Put, Files, history, files
<1>5. Gone'
  BY DEF IInv, Gone, Shape, Cleaning, db_init, Put, Files, KeyFiles, history, files
<1> QED
  BY <1>1, <1>2, <1>3, <1>4, <1>5 DEF IInv

LEMMA Step_WriteRow == IInv /\ WriteRow => IInv'
<1> SUFFICES ASSUME IInv, WriteRow PROVE IInv'
  OBVIOUS
<1>1. Shape'
  BY DEF IInv, Shape, WriteRow, Put
<1>2. DataStored'
  BY DEF IInv, DataStored, WriteRow, Put, KeyFiles
<1>3. Locals'
  BY DEF IInv, Locals, Sealing, WriteRow, Put
<1>4. Account'
  BY DEF IInv, Account, Key, WriteRow, Put
<1>5. Gone'
  BY DEF IInv, Gone, WriteRow, Put, KeyFiles
<1> QED
  BY <1>1, <1>2, <1>3, <1>4, <1>5 DEF IInv

LEMMA Step_Stop == IInv /\ Stop => IInv'
<1> SUFFICES ASSUME IInv, Stop PROVE IInv'
  OBVIOUS
<1>1. Shape'
  BY DEF IInv, Shape, Stop, Exit, files
<1>2. DataStored'
  BY DEF IInv, DataStored, Stop, Exit, files
<1>3. Locals'
  BY DEF IInv, Locals, SaltInUse, Sealing, Stop, Exit
<1>4. Account'
  BY DEF IInv, Account, Stop, Exit, history, files
<1>5. Gone'
  BY DEF IInv, Gone, Cleaning, Stop, Exit, history, files
<1> QED
  BY <1>1, <1>2, <1>3, <1>4, <1>5 DEF IInv

LEMMA Step_full_cleankeys == IInv /\ full_cleankeys => IInv'
<1> SUFFICES ASSUME IInv, full_cleankeys PROVE IInv'
  OBVIOUS
<1>1. Shape'
  BY DEF IInv, Shape, full_cleankeys, files
<1>2. DataStored'
  BY DEF IInv, DataStored, full_cleankeys, files
<1>3. Locals'
  BY DEF IInv, Locals, SaltInUse, Sealing, full_cleankeys
<1>4. Account'
  BY DEF IInv, Account, full_cleankeys
<1>5. Gone'
  BY DEF IInv, Gone, Cleaning, full_cleankeys, files
<1> QED
  BY <1>1, <1>2, <1>3, <1>4, <1>5 DEF IInv

LEMMA Step_SkipAbsent == IInv /\ SkipAbsent => IInv'
<1> SUFFICES ASSUME IInv, SkipAbsent PROVE IInv'
  OBVIOUS
<1>1. Shape'
  BY AtFileIs DEF IInv, Shape, SkipAbsent, Next_file, FileOrder, files
<1>2. DataStored'
  BY AtFileIs DEF IInv, DataStored, SkipAbsent, Next_file, files
<1>3. Locals'
  BY AtFileIs DEF IInv, Locals, SaltInUse, Sealing, SkipAbsent, Next_file
<1>4. Account'
  BY AtFileIs DEF IInv, Account, SkipAbsent
<1>5. Gone'
  BY AtFileIs
     DEF IInv, Gone, Shape, Cleaning, SkipAbsent, Next_file, FileOrder, KeyFiles,
     files
<1> QED
  BY <1>1, <1>2, <1>3, <1>4, <1>5 DEF IInv

LEMMA Step_Overwrite == IInv /\ Overwrite => IInv'
<1> SUFFICES ASSUME IInv, Overwrite PROVE IInv'
  OBVIOUS
<1>1. Shape'
  BY AtFileIs DEF IInv, Shape, Overwrite, CleanStep, Put
<1>2. DataStored'
  BY Marks, AtFileIs DEF IInv, DataStored, Shape, Overwrite, CleanStep, Put
<1>3. Locals'
  BY AtFileIs DEF IInv, Locals, SaltInUse, Sealing, Overwrite, CleanStep
<1>4. Account'
  BY AtFileIs DEF IInv, Account, Overwrite, CleanStep
<1>5. Gone'
  BY Marks
     DEF IInv, Gone, Shape, Cleaning, AtFile, FileOrder, Overwrite, CleanStep, Put,
     Files
<1> QED
  BY <1>1, <1>2, <1>3, <1>4, <1>5 DEF IInv

LEMMA Step_Sync == IInv /\ Sync => IInv'
<1> SUFFICES ASSUME IInv, Sync PROVE IInv'
  OBVIOUS
<1>1. Shape'
  BY AtFileIs DEF IInv, Shape, Sync, CleanStep
<1>2. DataStored'
  BY AtFileIs DEF IInv, DataStored, Sync, CleanStep
<1>3. Locals'
  BY AtFileIs DEF IInv, Locals, SaltInUse, Sealing, Sync, CleanStep
<1>4. Account'
  BY AtFileIs DEF IInv, Account, Sync, CleanStep
<1>5. Gone'
  BY DEF IInv, Gone, Shape, Cleaning, Erased, AtFile, Sync, CleanStep, Files, KeyFiles
<1> QED
  BY <1>1, <1>2, <1>3, <1>4, <1>5 DEF IInv

LEMMA Step_Unlink == IInv /\ Unlink => IInv'
<1> SUFFICES ASSUME IInv, Unlink PROVE IInv'
  OBVIOUS
<1>1. Shape'
  BY AtFileIs DEF IInv, Shape, Unlink, Next_file, Put, FileOrder
<1>2. DataStored'
  BY Marks, AtFileIs DEF IInv, DataStored, Shape, Unlink, Next_file, Put
<1>3. Locals'
  BY AtFileIs DEF IInv, Locals, SaltInUse, Sealing, Unlink, Next_file
<1>4. Account'
  BY AtFileIs DEF IInv, Account, Unlink
<1>5. Gone'
  BY AtFileIs
     DEF IInv, Gone, Shape, Cleaning, Erased, Unlink, Next_file, Put, FileOrder,
     KeyFiles
<1> QED
  BY <1>1, <1>2, <1>3, <1>4, <1>5 DEF IInv

LEMMA Step_CleanFails_overwrite == IInv /\ CleanFails("overwrite", "sync") => IInv'
<1> SUFFICES ASSUME IInv, CleanFails("overwrite", "sync") PROVE IInv'
  BY SMTT(20)
<1>1. Shape'
  BY DEF IInv, Shape, CleanFails, CleanStep, files
<1>2. DataStored'
  BY DEF IInv, DataStored, CleanFails, CleanStep, files
<1>3. Locals'
  BY DEF IInv, Locals, SaltInUse, Sealing, CleanFails, CleanStep
<1>4. Account'
  BY DEF IInv, Account, CleanFails, CleanStep
<1>5. Gone'
  BY AtFileIs DEF IInv, Gone, CleanFails
<1> QED
  BY <1>1, <1>2, <1>3, <1>4, <1>5 DEF IInv

LEMMA Step_CleanFails_sync == IInv /\ CleanFails("sync", "unlink") => IInv'
<1> SUFFICES ASSUME IInv, CleanFails("sync", "unlink") PROVE IInv'
  BY SMTT(20)
<1>1. Shape'
  BY DEF IInv, Shape, CleanFails, CleanStep, files
<1>2. DataStored'
  BY DEF IInv, DataStored, CleanFails, CleanStep, files
<1>3. Locals'
  BY DEF IInv, Locals, SaltInUse, Sealing, CleanFails, CleanStep
<1>4. Account'
  BY DEF IInv, Account, CleanFails, CleanStep
<1>5. Gone'
  BY AtFileIs DEF IInv, Gone, CleanFails
<1> QED
  BY <1>1, <1>2, <1>3, <1>4, <1>5 DEF IInv

LEMMA Step_PassOver == IInv /\ PassOver => IInv'
<1> SUFFICES ASSUME IInv, PassOver PROVE IInv'
  OBVIOUS
<1>1. Shape'
  BY DEF IInv, Shape, PassOver, FileOrder, files
<1>2. DataStored'
  BY DEF IInv, DataStored, PassOver, files
<1>3. Locals'
  BY DEF IInv, Locals, SaltInUse, Sealing, PassOver
<1>4. Account'
  BY DEF IInv, Account, PassOver
<1>5. Gone'
  BY DEF IInv, Gone, PassOver
<1> QED
  BY <1>1, <1>2, <1>3, <1>4, <1>5 DEF IInv

LEMMA Step_StepFails == IInv /\ StepFails => IInv'
<1> SUFFICES ASSUME IInv, StepFails PROVE IInv'
  OBVIOUS
<1>1. Shape'
  BY DEF IInv, Shape, StepFails, Fails, Exit, files
<1>2. DataStored'
  BY DEF IInv, DataStored, StepFails, Fails, Exit, files
<1>3. Locals'
  BY DEF IInv, Locals, SaltInUse, Sealing, StepFails, Fails, Exit
<1>4. Account'
  BY DEF IInv, Account, StepFails, Fails, Exit, history, files
<1>5. Gone'
  BY DEF IInv, Gone, Cleaning, StepFails, Fails, Exit, StartSteps, history, files
<1> QED
  BY <1>1, <1>2, <1>3, <1>4, <1>5 DEF IInv

LEMMA Step_Kill == IInv /\ Kill => IInv'
<1> SUFFICES ASSUME IInv, Kill PROVE IInv'
  OBVIOUS
<1>1. Shape'
  BY DEF IInv, Shape, Kill, files
<1>2. DataStored'
  BY DEF IInv, DataStored, Kill, files
<1>3. Locals'
  BY DEF IInv, Locals, SaltInUse, Sealing, Kill
<1>4. Account'
  BY DEF IInv, Account, Kill, files
<1>5. Gone'
  BY DEF IInv, Gone, Cleaning, Kill, files
<1> QED
  BY <1>1, <1>2, <1>3, <1>4, <1>5 DEF IInv

LEMMA Step_PowerLoss == IInv /\ PowerLoss => IInv'
<1> SUFFICES ASSUME IInv, PowerLoss PROVE IInv'
  OBVIOUS
<1>1. Shape'
  BY DEF IInv, Shape, PowerLoss
<1>2. DataStored'
  BY DEF IInv, DataStored, PowerLoss, Files, KeyFiles
<1>3. Locals'
  BY DEF IInv, Locals, SaltInUse, Sealing, PowerLoss
<1>4. Account'
  BY DEF IInv, Account, PowerLoss, Files
<1>5. Gone'
  BY DEF IInv, Gone, Cleaning, Erased, PowerLoss, Files, KeyFiles
<1> QED
  BY <1>1, <1>2, <1>3, <1>4, <1>5 DEF IInv

LEMMA Initially == Init => IInv
BY Marks
   DEF Init, IInv, Shape, DataStored, Locals, Account, Gone, SaltInUse, Sealing,
   Cleaning,
   Erased, Files, KeyFiles, NoLocals

LEMMA Stutter == IInv /\ UNCHANGED vars => IInv'
<1> SUFFICES ASSUME IInv, UNCHANGED vars
             PROVE  IInv'
  OBVIOUS
<1>1. Shape'
  BY Zenon DEF vars, IInv, Shape
<1>2. DataStored'
  BY Zenon DEF vars, IInv, DataStored
<1>3. Locals'
  BY Zenon DEF vars, IInv, Locals, Key
<1>4. Account'
  BY Zenon DEF vars, IInv, Account, Key
<1>5. Gone'
  BY Zenon DEF vars, IInv, Gone, AtFile
<1> QED
  BY Zenon, <1>1, <1>2, <1>3, <1>4, <1>5 DEF IInv

LEMMA IInvAlways == Spec => []IInv
<1>1. Init => IInv
  BY SMTT(20), Initially
<1>2. IInv /\ [Next]_vars => IInv'
    BY SMTT(20), Stutter, Step_Start, Step_ensure_config_dir, Step_StatFails, Step_ReadPin, Step_crypto_load_salt,
     Step_crypto_create_salt, Step_salt_fsync, Step_salt_rename, Step_salt_dirsync,
     Step_crypto_derive_subkeys, Step_crypto_generate_identity, Step_id_fsync,
     Step_id_rename, Step_id_dirsync, Step_crypto_load_identity, Step_db_init,
     Step_WriteRow, Step_Stop, Step_full_cleankeys, Step_SkipAbsent, Step_Overwrite,
     Step_Sync, Step_Unlink, Step_CleanFails_overwrite, Step_CleanFails_sync,
     Step_PassOver, Step_StepFails, Step_Kill, Step_PowerLoss
     DEF Next, Step, CleanKeys
<1> QED
  BY <1>1, <1>2, PTL DEF Spec

-----------------------------------------------------------------------------

\* No kill, wrong PIN, power loss or failed call, the stat of identity.key
\* excepted, changes the identity file of a stored account or its salt, and all
\* rows written since are under its key, on a file system that syncs directories.
THEOREM KeystoreAccountKept == Spec => []AccountKept
<1>1. IInv => AccountKept
  BY SMTT(20) DEF IInv, Account, AccountKept
<1> QED
  BY <1>1, IInvAlways, PTL

\* An undisturbed --full_cleankeys leaves nothing of the keys that a power loss
\* could bring back.
THEOREM KeystoreKeysGone == Spec => []KeysGone
<1>1. IInv => KeysGone
  BY DEF IInv, Gone, DataStored, KeysGone, KeyFiles, Erased
<1> QED
  BY <1>1, IInvAlways, PTL
=============================================================================
