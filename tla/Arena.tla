------------------------------- MODULE Arena -------------------------------
(***************************************************************************)
(* The locked memory that holds the long-lived keys (src/src/arena.c):     *)
(*   guard page | usable_size bytes | canary | guard page                  *)
(* with a bump allocator, save/restore, and a wipe before the memory is    *)
(* given back or the process aborts.                                       *)
(*                                                                         *)
(* size_t arithmetic wraps at SIZE_MAX + 1.  Bytes are told apart only by  *)
(* whether they are zero.                                                  *)
(***************************************************************************)
EXTENDS Integers, FiniteSets

CONSTANTS
  SIZE_MAX,
  PAGE,           \* sysconf(_SC_PAGESIZE), a power of two
  NOX_CANARY_LEN,
  MAX_WIPE,       \* upper bound of one wipe
  InitSizes,      \* sizes arena_init is called with
  AllocSizes,     \* sizes arena_alloc is called with
  MaxBlocks       \* bound: blocks handed out at one time

ASSUME ArenaAssumption ==
  /\ SIZE_MAX \in Nat
  /\ PAGE \in Nat \ {0}
  /\ 2 * PAGE <= SIZE_MAX
  /\ NOX_CANARY_LEN \in 1..PAGE
  /\ MAX_WIPE \in Nat
  /\ InitSizes \subseteq 0..SIZE_MAX
  /\ AllocSizes \subseteq 0..SIZE_MAX

VARIABLES
  a,        \* struct secure_arena; base is whether the memory is mapped
  dirty,    \* the bytes of usable area that are not zero
  canary,   \* the bytes behind the usable area are those arena_init wrote
  blocks,   \* blocks handed out and not taken back: [ptr, size]
  saves,    \* offsets arena_save returned and the caller may restore
  asked,    \* history: the size arena_init was called with
  left,     \* history: bytes that were not zero when the memory was given up
  status    \* "running" or "aborted"

arenaVars == <<a, dirty, canary, blocks, saves, asked, left, status>>

SizeT(x) == x % (SIZE_MAX + 1)

AlignUp(size, unit) == ((size + (unit - 1)) \div unit) * unit

page_align(size) ==
  IF size > SIZE_MAX - (PAGE - 1) THEN 0 ELSE SizeT(AlignUp(size, PAGE))

NoArena == [base |-> FALSE, total_size |-> 0, usable_size |-> 0, offset |-> 0]

arena_is_valid(s) ==
  /\ s.base
  /\ s.usable_size # 0 /\ s.usable_size < s.total_size
  /\ s.total_size >= 2 * PAGE
  /\ s.usable_size <= SIZE_MAX - NOX_CANARY_LEN
  /\ (s.usable_size + NOX_CANARY_LEN) % PAGE = 0
  /\ s.usable_size + NOX_CANARY_LEN <= SIZE_MAX - 2 * PAGE
  /\ s.total_size = s.usable_size + NOX_CANARY_LEN + 2 * PAGE
  /\ s.offset <= s.usable_size
  /\ s.offset % 16 = 0

(* what sodium_memzero over the usable area and the canary, of at most MAX_WIPE *)
(* bytes, leaves behind                                                         *)
Unwiped == {x \in dirty : x >= MAX_WIPE}

(* Mutant: sizes near SIZE_MAX are not refused. *)
SizeNotZero(size) == size # 0

SizeAccepted(size) == size # 0 /\ size <= SIZE_MAX - NOX_CANARY_LEN

(* The sizes are computed with wrapping arithmetic.  mmap, mprotect or mlock    *)
(* (NOX_ARENA_STRICT_LOCK is defined) may fail, and then nothing is kept.       *)
arena_init(size) ==
  LET raw    == SizeT(size + NOX_CANARY_LEN)
      usable == page_align(raw)
  IN  /\ status = "running" /\ ~a.base /\ asked = 0
      /\ SizeAccepted(size)
      /\ usable # 0
      /\ usable <= SIZE_MAX - 2 * PAGE
      /\ a' = [base |-> TRUE, total_size |-> SizeT(PAGE + SizeT(usable + PAGE)),
               usable_size |-> usable - NOX_CANARY_LEN, offset |-> 0]
      /\ asked' = size
      /\ canary' = TRUE
      /\ UNCHANGED <<dirty, blocks, saves, left, status>>

Aligned(size) == SizeT(AlignUp(size, 16))

(* Mutant: the sum is compared after it wrapped. *)
FitsUnchecked(size) == SizeT(a.offset + Aligned(size)) <= a.usable_size

Fits(size) ==
  /\ size <= SIZE_MAX - 15
  /\ Aligned(size) <= SIZE_MAX - a.offset
  /\ SizeT(a.offset + Aligned(size)) <= a.usable_size

Live == status = "running" /\ a.base

(* arena_check_canary, the first thing alloc and restore do *)
CanaryHolds == arena_is_valid(a) /\ canary

(* the caller then fills its block: a key, or random bytes for a decoy *)
arena_alloc(size) ==
  /\ Live /\ CanaryHolds
  /\ size # 0
  /\ Fits(size)
  /\ Cardinality(blocks) < MaxBlocks
  /\ blocks' = blocks \cup {[ptr |-> a.offset, size |-> size]}
  /\ dirty' = dirty \cup (a.offset .. (a.offset + size - 1))
  /\ a' = [a EXCEPT !.offset = SizeT(a.offset + Aligned(size))]
  /\ UNCHANGED <<canary, saves, asked, left, status>>

arena_save ==
  /\ Live
  /\ saves' = saves \cup {a.offset}
  /\ UNCHANGED <<a, dirty, canary, blocks, asked, left, status>>

(* Mutant: the bytes taken back are not wiped. *)
arena_restore_no_wipe(saved_offset) ==
  /\ Live /\ CanaryHolds
  /\ saved_offset < a.offset
  /\ a' = [a EXCEPT !.offset = saved_offset]
  /\ blocks' = {b \in blocks : b.ptr < saved_offset}
  /\ saves' = {s \in saves : s <= saved_offset}
  /\ UNCHANGED <<dirty, canary, asked, left, status>>

(* The blocks above the saved offset are wiped and may not be used any more.  *)
(* Nor may a mark above it: the code does not refuse one once the arena has   *)
(* grown past it again; that marks are used as a stack is the callers' part   *)
(* (fuzz_arena.c keeps to it too).                                            *)
arena_restore(saved_offset) ==
  /\ Live /\ CanaryHolds
  /\ saved_offset <= a.usable_size /\ saved_offset % 16 = 0
  /\ saved_offset < a.offset
  /\ dirty' = dirty \ (saved_offset .. (a.offset - 1))
  /\ a' = [a EXCEPT !.offset = saved_offset]
  /\ blocks' = {b \in blocks : b.ptr < saved_offset}
  /\ saves' = {s \in saves : s <= saved_offset}
  /\ UNCHANGED <<canary, asked, left, status>>

(* secure_abort: wipe, then abort *)
secure_abort ==
  /\ Live /\ ~CanaryHolds
  /\ left' = Unwiped
  /\ dirty' = {}
  /\ status' = "aborted"
  /\ UNCHANGED <<a, canary, blocks, saves, asked>>

(* wipe, unmap, clear the struct, and abort afterwards if the canary was bad *)
arena_destroy ==
  /\ Live /\ arena_is_valid(a)
  /\ left' = Unwiped
  /\ dirty' = {}
  /\ a' = NoArena
  /\ blocks' = {} /\ saves' = {}
  /\ status' = IF canary THEN "running" ELSE "aborted"
  /\ UNCHANGED <<canary, asked>>

(* external: a write past the end of a block reaches the canary, over the free *)
(* bytes in between or behind them                                             *)
Overrun ==
  /\ Live /\ canary /\ blocks # {}
  /\ canary' = FALSE
  /\ \E from \in {a.offset, a.usable_size} : dirty' = dirty \cup (from .. (a.usable_size - 1))
  /\ UNCHANGED <<a, blocks, saves, asked, left, status>>

ArenaInit ==
  /\ a = NoArena
  /\ dirty = {} /\ blocks = {} /\ saves = {} /\ left = {}
  /\ canary = TRUE
  /\ asked = 0
  /\ status = "running"

ArenaNext ==
  \/ \E size \in InitSizes : arena_init(size)
  \/ \E size \in AllocSizes : arena_alloc(size)
  \/ arena_save
  \/ \E s \in saves : arena_restore(s)
  \/ secure_abort
  \/ arena_destroy
  \/ Overrun

ArenaSpec == ArenaInit /\ [][ArenaNext]_arenaVars

----------------------------------------------------------------------------
ArenaTypeOK ==
  /\ a \in [base : BOOLEAN, total_size : 0..SIZE_MAX, usable_size : 0..SIZE_MAX, offset : 0..SIZE_MAX]
  /\ dirty \subseteq Nat /\ left \subseteq Nat /\ saves \subseteq Nat
  /\ blocks \subseteq [ptr : Nat, size : Nat]
  /\ canary \in BOOLEAN /\ asked \in Nat /\ status \in {"running", "aborted"}

(* A mapped arena has at least the room that was asked for and satisfies      *)
(* arena_is_valid, for every size: none of the additions of arena_init,       *)
(* arena_alloc and arena_restore wraps.                                       *)
RoomAsAsked == a.base => arena_is_valid(a) /\ asked <= a.usable_size

Bytes(b) == b.ptr .. (b.ptr + b.size - 1)

(* Blocks in use never share a byte and none reaches the canary, through any  *)
(* sequence of allocations, saves and restores.                               *)
BlocksApart ==
  /\ \A b, c \in blocks : b # c => Bytes(b) \cap Bytes(c) = {}
  /\ \A b \in blocks : Bytes(b) \subseteq 0 .. (a.usable_size - 1)

(* What the allocator hands out next is all zero: nothing of a block that was *)
(* taken back is left in the free part (arena_restore wipes it), unless a     *)
(* damaged canary keeps the allocator from handing out anything.              *)
FreeIsZero == canary => \A x \in dirty : x < a.offset

(* No key byte within the wipe bound survives the end of the arena, neither   *)
(* when it is destroyed nor when a damaged canary aborts the process.         *)
NothingLeft == \A x \in left : x >= MAX_WIPE

(* Key bytes live only in blocks in use: neither what is handed out next nor  *)
(* the memory given back to the system holds any.                             *)
NoKeyBytesLeft == FreeIsZero /\ NothingLeft
=============================================================================
