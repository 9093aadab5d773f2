--------------------------- MODULE TerminalProofs ---------------------------
(***************************************************************************)
(* Proofs about the terminal, for a scrollback, an input buffer, a contact  *)
(* list and a screen of any size, whatever is typed, pasted and printed.    *)
(*                                                                          *)
(* TInv has three parts.  Modes: what linenoise saved is never the raw mode *)
(* it set itself, because an editor whose restore failed is not started     *)
(* again; so a restore that succeeds gives back the user's mode.  Tidy:     *)
(* the rows past the count are NULL, the others are distinct and are what   *)
(* the heap holds, and every index stays in its array; tui_chat_append is   *)
(* a loop over the rows of a line, so each turn of it has to keep this.     *)
(* Highlight: of the rows last painted, the lit one is the one Enter takes. *)
(***************************************************************************)
EXTENDS Terminal, FiniteSetTheorems, TLAPS

-----------------------------------------------------------------------------
\* Induction over numbers, in the form of sets.

Below == {p \in Nat \X Nat : p[1] < p[2]}

LEMMA BelowWellFounded == IsWellFoundedOn(Below, Nat)
<1>1. Below = OpToRel(<, Nat)
  BY DEF Below, OpToRel
<1> QED
  BY Zenon, <1>1, NatLessThanWellFounded

\* A set of numbers that is not empty has a least one.
LEMMA Least ==
  ASSUME NEW S \in SUBSET Nat, S # {}
  PROVE  \E x \in S : \A y \in S : x <= y
<1>1. PICK x \in S : \A y \in S : ~(<<y, x>> \in Below)
  BY Zenon, BelowWellFounded, WFMin
<1>2. ASSUME NEW y \in S PROVE x <= y
  <2>1. x \in Nat /\ y \in Nat /\ <<y, x>> \notin Below
    BY <1>1
  <2> QED
    BY <2>1 DEF Below
<1> QED
  BY <1>2

\* A set that holds 0, and with each number below n the next, holds 0..n.
LEMMA Induction ==
  ASSUME NEW T, NEW n \in Nat, 0 \in T,
         \A k \in 0..(n - 1) : k \in T => k + 1 \in T
  PROVE  \A k \in 0..n : k \in T
<1> SUFFICES ASSUME NEW k \in 0..n, k \notin T PROVE FALSE
  OBVIOUS
<1>1. PICK x \in (0..n) \ T : \A y \in (0..n) \ T : x <= y
  <2>1. (0..n) \ T \in SUBSET Nat /\ (0..n) \ T # {}
    OBVIOUS
  <2> QED
    BY Zenon, <2>1, Least
<1>2. x \in 1..n
  BY <1>1
<1>3. x - 1 \in T
  BY <1>1, <1>2
<1> QED
  BY <1>1, <1>2, <1>3

LEMMA Joined ==
  ASSUME NEW V, NEW x \in Seq(V), NEW y \in Seq(V)
  PROVE  /\ x \o y \in Seq(V) /\ Len(x \o y) = Len(x) + Len(y)
         /\ \A k \in 1..Len(x) : (x \o y)[k] = x[k]
         /\ \A k \in 1..Len(y) : (x \o y)[Len(x) + k] = y[k]
OBVIOUS

LEMMA Part ==
  ASSUME NEW V, NEW b \in Seq(V), NEW p \in 0..Len(b), NEW q \in p..Len(b)
  PROVE  /\ SubSeq(b, p + 1, q) \in Seq(V) /\ Len(SubSeq(b, p + 1, q)) = q - p
         /\ \A k \in 1..(q - p) : SubSeq(b, p + 1, q)[k] = b[p + k]
OBVIOUS

Replaced(V, b, p, n, t, c) ==
  /\ c \in Seq(V)
  /\ Len(c) = Len(b) - n + Len(t)
  /\ \A k \in 1..p : c[k] = b[k]
  /\ \A k \in 1..Len(t) : c[p + k] = t[k]
  /\ \A k \in (p + n + 1)..Len(b) : c[k - n + Len(t)] = b[k]

LEMMA Splice ==
  ASSUME NEW V, NEW b \in Seq(V), NEW t \in Seq(V),
         NEW p \in 0..Len(b), NEW n \in 0..(Len(b) - p)
  PROVE  Replaced(V, b, p, n, t, SubSeq(b, 1, p) \o t \o SubSeq(b, p + n + 1, Len(b)))
<1> DEFINE x == SubSeq(b, 1, p)
           z == SubSeq(b, p + n + 1, Len(b))
           c == (x \o t) \o z
<1>1. x \in Seq(V) /\ Len(x) = p /\ \A k \in 1..p : x[k] = b[k]
  BY SMTT(20)
<1>2. z \in Seq(V) /\ Len(z) = Len(b) - p - n /\ \A k \in 1..(Len(b) - p - n) : z[k] = b[p + n + k]
  <2>1. p + n \in 0..Len(b) /\ Len(b) \in (p + n)..Len(b)
    OBVIOUS
  <2>2. /\ z \in Seq(V) /\ Len(z) = Len(b) - (p + n)
        /\ \A k \in 1..(Len(b) - (p + n)) : z[k] = b[p + n + k]
    BY <2>1, Part
  <2>3. Len(b) - (p + n) = Len(b) - p - n
    OBVIOUS
  <2> QED
    BY Zenon, <2>2, <2>3
<1> HIDE DEF x, z
<1>3. /\ x \o t \in Seq(V) /\ Len(x \o t) = p + Len(t)
      /\ \A k \in 1..p : (x \o t)[k] = b[k]
      /\ \A k \in 1..Len(t) : (x \o t)[p + k] = t[k]
  <2>0. x \in Seq(V) /\ t \in Seq(V)
    BY <1>1
  <2>1. /\ x \o t \in Seq(V) /\ Len(x \o t) = Len(x) + Len(t)
        /\ \A k \in 1..Len(x) : (x \o t)[k] = x[k]
        /\ \A k \in 1..Len(t) : (x \o t)[Len(x) + k] = t[k]
    BY <2>0, Joined
  <2> QED
    BY SMTT(20), <1>1, <2>1
<1> DEFINE y == x \o t
<1> HIDE DEF y
<1>4. /\ y \o z \in Seq(V) /\ Len(y \o z) = Len(b) - n + Len(t)
      /\ \A k \in 1..(p + Len(t)) : (y \o z)[k] = y[k]
      /\ \A k \in 1..(Len(b) - p - n) : (y \o z)[p + Len(t) + k] = b[p + n + k]
  <2>1. y \in Seq(V) /\ Len(y) = p + Len(t)
    BY <1>3 DEF y
  <2>2. /\ y \o z \in Seq(V) /\ Len(y \o z) = Len(y) + Len(z)
        /\ \A k \in 1..Len(y) : (y \o z)[k] = y[k]
        /\ \A k \in 1..Len(z) : (y \o z)[Len(y) + k] = z[k]
    <3>1. y \in Seq(V) /\ z \in Seq(V)
      BY <1>2, <2>1
    <3> QED
      BY <3>1, Joined
  <2>3. Len(y) + Len(z) = Len(b) - n + Len(t)
    BY <1>2, <2>1
  <2>4. ASSUME NEW k \in 1..(Len(b) - p - n) PROVE (y \o z)[p + Len(t) + k] = b[p + n + k]
    <3>1. k \in 1..Len(z) /\ Len(y) + k = p + Len(t) + k
      BY <1>2, <2>1
    <3>2. (y \o z)[Len(y) + k] = z[k] /\ z[k] = b[p + n + k]
      BY <1>2, <2>2, <3>1
    <3> QED
      BY <3>1, <3>2
  <2> QED
    BY Zenon, <2>1, <2>2, <2>3, <2>4
<1>5. c = y \o z
  BY DEF y
<1> HIDE DEF c
<1>6. \A k \in 1..p : c[k] = b[k]
  <2> SUFFICES ASSUME NEW k \in 1..p PROVE c[k] = b[k]
    OBVIOUS
  <2>1. k \in 1..(p + Len(t))
    OBVIOUS
  <2> QED
    BY <1>3, <1>4, <1>5, <2>1 DEF y
<1>7. \A k \in 1..Len(t) : c[p + k] = t[k]
  <2> SUFFICES ASSUME NEW k \in 1..Len(t) PROVE c[p + k] = t[k]
    OBVIOUS
  <2>1. p + k \in 1..(p + Len(t))
    OBVIOUS
  <2> QED
    BY <1>3, <1>4, <1>5, <2>1 DEF y
<1>8. \A k \in (p + n + 1)..Len(b) : c[k - n + Len(t)] = b[k]
  <2> SUFFICES ASSUME NEW k \in (p + n + 1)..Len(b) PROVE c[k - n + Len(t)] = b[k]
    OBVIOUS
  <2> DEFINE l == k - (p + n)
  <2>1. l \in 1..(Len(b) - p - n) /\ p + Len(t) + l = k - n + Len(t) /\ p + n + l = k
    OBVIOUS
  <2> HIDE DEF l
  <2>2. (y \o z)[p + Len(t) + l] = b[p + n + l]
    BY Zenon, <1>4, <2>1
  <2> QED
    BY Zenon, <1>5, <2>1, <2>2
<1>9. Replaced(V, b, p, n, t, c)
  BY SMTT(20), <1>4, <1>5, <1>6, <1>7, <1>8 DEF Replaced
<1> QED
  BY <1>9 DEF c, x, z

-----------------------------------------------------------------------------
\* The scrollback: entries past the count are NULL, and the heap holds the
\* others, each once.

Rows == 1..TUI_CHAT_SCROLLBACK
Owned(lines, h) ==
  /\ h = Range(lines) \ {0}
  /\ \A i, j \in Rows : lines[i] # 0 /\ lines[i] = lines[j] => i = j
ChatOk(c) ==
  /\ c.lines \in [Rows -> Nat] /\ c.count \in 0..TUI_CHAT_SCROLLBACK
  /\ \A i \in Rows : i > c.count => c.lines[i] = 0
  /\ c.heap \in SUBSET Pointers /\ Owned(c.lines, c.heap)
  /\ ~c.twice

LEMMA Rooms == TUI_CHAT_SCROLLBACK \in Nat /\ TUI_CHAT_SCROLLBACK >= 1 /\ 0 \notin Pointers /\ Pointers \subseteq Nat
BY TuiAssumption DEF Pointers

\* The heap after the oldest row of a full scrollback was freed.
Kept(c) == IF c.count >= TUI_CHAT_SCROLLBACK THEN c.heap \ {c.lines[1]} ELSE c.heap

\* There are more pointers than rows.
LEMMA PointerLeft ==
  ASSUME NEW c, ChatOk(c)
  PROVE  NewPointer(c) \in Pointers /\ NewPointer(c) \notin Kept(c)
<1>1. \E p \in Pointers : p \notin c.heap
  <2> SUFFICES ASSUME \A p \in Pointers : p \in c.heap PROVE FALSE
    OBVIOUS
  <2> DEFINE g == [p \in Pointers |-> CHOOSE i \in Rows : c.lines[i] = p]
  <2>1. ASSUME NEW p \in Pointers PROVE \E i \in Rows : c.lines[i] = p
    <3>1. p \in Range(c.lines) /\ DOMAIN c.lines = Rows
      BY DEF ChatOk, Owned
    <3> QED
      BY <3>1 DEF Range
  <2>2. ASSUME NEW p \in Pointers PROVE g[p] \in Rows /\ c.lines[g[p]] = p
    BY <2>1
  <2>3. g \in [Pointers -> Rows]
    BY <2>2
  <2>4. /\ IsFiniteSet(Pointers) /\ IsFiniteSet(Rows)
        /\ Cardinality(Rows) < Cardinality(Pointers)
    BY Rooms, FS_Interval DEF Rows, Pointers
  <2> HIDE DEF g
  <2>5. PICK p, q \in Pointers : p # q /\ g[p] = g[q]
    BY <2>3, <2>4, FS_PigeonHole
  <2> QED
    BY <2>2, <2>5
<1>2. \E p \in Pointers : p \notin Kept(c)
  BY <1>1 DEF Kept
<1> QED
  BY <1>2 DEF NewPointer, Kept

\* Shifting the rows down by one.
Down(c) == [i \in Rows |-> IF i < TUI_CHAT_SCROLLBACK THEN c.lines[i + 1] ELSE c.lines[i]]

\* The rows as they are when the new one is stored in row n + 1.
Before(lines, n, h) ==
  /\ lines \in [Rows -> Nat] /\ n + 1 \in Rows /\ n \in Nat
  /\ h \in SUBSET Pointers
  /\ h = {lines[i] : i \in Rows \ {n + 1}} \ {0}
  /\ \A i, j \in Rows \ {n + 1} : lines[i] # 0 /\ lines[i] = lines[j] => i = j
  /\ \A i \in Rows : i > n + 1 => lines[i] = 0

LEMMA PushFits ==
  ASSUME NEW lines, NEW n, NEW h, Before(lines, n, h),
         NEW p \in Pointers \cup {0}, p \notin h
  PROVE  LET l == Stored(lines, n + 1, p)
             g == IF p = 0 THEN h ELSE h \cup {p}
             m == IF p = 0 THEN n ELSE n + 1
         IN /\ l \in [Rows -> Nat] /\ m \in 0..TUI_CHAT_SCROLLBACK
            /\ \A i \in Rows : i > m => l[i] = 0
            /\ g \in SUBSET Pointers /\ Owned(l, g)
<1> DEFINE l == Stored(lines, n + 1, p)
           g == IF p = 0 THEN h ELSE h \cup {p}
           m == IF p = 0 THEN n ELSE n + 1
<1>1. /\ lines \in [Rows -> Nat] /\ n + 1 \in Rows /\ n \in Nat /\ p \in Nat
      /\ h = {lines[i] : i \in Rows \ {n + 1}} \ {0} /\ 0 \notin h
  BY Rooms DEF Before
<1>2. l \in [Rows -> Nat] /\ l[n + 1] = p /\ \A i \in Rows \ {n + 1} : l[i] = lines[i]
  BY <1>1 DEF Stored
<1> HIDE DEF l
<1>3. m \in 0..TUI_CHAT_SCROLLBACK
  BY <1>1, Rooms DEF Rows
<1>4. ASSUME NEW i \in Rows, i > m PROVE l[i] = 0
  <2>1. CASE i = n + 1
    <3>1. p = 0
      BY <1>1, <1>4, <2>1
    <3> QED
      BY <1>2, <2>1, <3>1
  <2>2. CASE i # n + 1
    <3>1. i > n + 1
      BY <1>1, <1>4, <2>2 DEF Rows
    <3> QED
      BY <1>2, <2>2, <3>1 DEF Before
  <2> QED
    BY <2>1, <2>2
<1>5. g \in SUBSET Pointers
  BY DEF Before
<1>6. Range(l) = {lines[i] : i \in Rows \ {n + 1}} \cup {p}
  <2>1. DOMAIN l = Rows
    BY <1>2
  <2> QED
    BY <1>1, <1>2, <2>1 DEF Range
<1>7. g = Range(l) \ {0}
  BY <1>1, <1>6
<1>8. ASSUME NEW i \in Rows, NEW j \in Rows, l[i] # 0, l[i] = l[j] PROVE i = j
  <2>1. CASE i # n + 1 /\ j # n + 1
    <3>1. lines[i] # 0 /\ lines[i] = lines[j]
      BY <1>2, <1>8, <2>1
    <3> QED
      BY <2>1, <3>1 DEF Before
  <2>2. CASE i = n + 1 /\ j # n + 1
    <3>1. lines[j] = p /\ p # 0
      BY <1>2, <1>8, <2>2
    <3>2. p \in h
      BY <1>1, <2>2, <3>1
    <3> QED
      BY <3>2
  <2>3. CASE i # n + 1 /\ j = n + 1
    <3>1. lines[i] = p /\ p # 0
      BY <1>2, <1>8, <2>3
    <3>2. p \in h
      BY <1>1, <2>3, <3>1
    <3> QED
      BY <3>2
  <2> QED
    BY <2>1, <2>2, <2>3
<1>9. Owned(l, g)
  BY SMTT(20), <1>7, <1>8 DEF Owned
<1> QED
  BY <1>2, <1>3, <1>4, <1>5, <1>9 DEF l

LEMMA PushRowOk ==
  ASSUME NEW c, ChatOk(c), NEW p \in Pointers \cup {0}, p \notin Kept(c)
  PROVE  ChatOk(PushRow(c, p))
<1> DEFINE N == TUI_CHAT_SCROLLBACK
           full == c.count >= N
           lines == IF full THEN Down(c) ELSE c.lines
           n == IF full THEN N - 1 ELSE c.count
           h == Kept(c)
           twice == c.twice \/ (full /\ c.lines[1] \notin c.heap \cup {0})
<1>1. /\ c.lines \in [Rows -> Nat] /\ DOMAIN c.lines = Rows /\ c.count \in 0..N /\ N \in Nat /\ N >= 1
      /\ \A i \in Rows : i > c.count => c.lines[i] = 0
      /\ c.heap \in SUBSET Pointers /\ c.heap = {c.lines[i] : i \in Rows} \ {0} /\ ~c.twice
      /\ \A i, j \in Rows : c.lines[i] # 0 /\ c.lines[i] = c.lines[j] => i = j
  BY SMTT(20), Rooms DEF ChatOk, Owned, Range
<1>2. PushRow(c, p) = [lines |-> Stored(lines, n + 1, p), count |-> IF p = 0 THEN n ELSE n + 1,
                       heap |-> IF p = 0 THEN h ELSE h \cup {p}, twice |-> twice]
  BY <1>1 DEF PushRow, Down, Kept
<1>3. ~twice
  <2>1. 1 \in Rows
    BY <1>1 DEF Rows
  <2> QED
    BY <1>1, <2>1
<1>4. Before(lines, n, h)
  <2>1. CASE full
    <3>1. n = N - 1 /\ n + 1 = N /\ n \in Nat /\ N \in Rows /\ 1 \in Rows /\ lines = Down(c) /\ h = c.heap \ {c.lines[1]}
      BY <1>1, <2>1 DEF Rows, Kept
    <3>2. ASSUME NEW i \in Rows \ {N}
          PROVE  i + 1 \in Rows /\ i + 1 # 1 /\ Down(c)[i] = c.lines[i + 1] /\ i \in Nat
      BY <1>1 DEF Rows, Down
    <3>3. Down(c) \in [Rows -> Nat]
      <4>1. \A i \in Rows : (IF i < N THEN c.lines[i + 1] ELSE c.lines[i]) \in Nat
        BY SMTT(20), <1>1 DEF Rows
      <4> QED
        BY <4>1 DEF Down
    <3>4. ASSUME NEW j \in Rows, j # 1 PROVE \E i \in Rows \ {N} : Down(c)[i] = c.lines[j]
      <4>1. j - 1 \in Rows \ {N} /\ (j - 1) + 1 = j
        BY <1>1, <3>4 DEF Rows
      <4>2. Down(c)[j - 1] = c.lines[j]
        BY <3>2, <4>1
      <4> QED
        BY <4>1, <4>2
    <3> DEFINE D == {Down(c)[i] : i \in Rows \ {N}}
    <3>5. c.heap \ {c.lines[1]} = D \ {0}
      <4>1. ASSUME NEW x \in c.heap, x # c.lines[1] PROVE x \in D /\ x # 0
        <5>1. PICK j \in Rows : x = c.lines[j] /\ x # 0
          BY <1>1
        <5> QED
          BY <3>4, <4>1, <5>1
      <4>2. ASSUME NEW x \in D, x # 0 PROVE x \in c.heap /\ x # c.lines[1]
        <5>1. PICK i \in Rows \ {N} : x = Down(c)[i]
          OBVIOUS
        <5>2. x = c.lines[i + 1] /\ i + 1 \in Rows /\ i + 1 # 1
          BY <3>2, <5>1
        <5> QED
          BY <1>1, <3>1, <4>2, <5>2
      <4> HIDE DEF D
      <4> QED
        BY <4>1, <4>2
    <3>6. ASSUME NEW i \in Rows \ {N}, NEW j \in Rows \ {N}, Down(c)[i] # 0, Down(c)[i] = Down(c)[j] PROVE i = j
      <4>1. i + 1 = j + 1
        BY <1>1, <3>2, <3>6
      <4>2. i \in Nat /\ j \in Nat
        BY <3>2
      <4> QED
        BY <4>1, <4>2
    <3>7. \A i \in Rows : ~(i > N)
      BY <1>1 DEF Rows
    <3>8. h \in SUBSET Pointers
      BY <1>1, <3>1
    <3> HIDE DEF lines, n, h, full
    <3> QED
      BY SMTT(20), <3>1, <3>3, <3>5, <3>6, <3>7, <3>8 DEF Before
  <2>2. CASE ~full
    <3>1. n = c.count /\ n \in Nat /\ n + 1 \in Rows /\ lines = c.lines /\ h = c.heap /\ n + 1 > c.count
      BY <1>1, <2>2 DEF Rows, Kept
    <3>2. c.lines[n + 1] = 0
      BY SMTT(20), <1>1, <3>1
    <3>3. c.heap = {c.lines[i] : i \in Rows \ {n + 1}} \ {0}
      BY <1>1, <3>1, <3>2
    <3>4. \A i \in Rows : i > n + 1 => i > c.count
      BY <3>1 DEF Rows
    <3> HIDE DEF lines, n, h, full
    <3> QED
      BY SMTT(20), <1>1, <3>1, <3>3, <3>4 DEF Before
  <2> QED
    BY <2>1, <2>2
<1> HIDE DEF lines, n, h, twice
<1>5. LET l == Stored(lines, n + 1, p)
          g == IF p = 0 THEN h ELSE h \cup {p}
          m == IF p = 0 THEN n ELSE n + 1
      IN /\ l \in [Rows -> Nat] /\ m \in 0..TUI_CHAT_SCROLLBACK
         /\ \A i \in Rows : i > m => l[i] = 0
         /\ g \in SUBSET Pointers /\ Owned(l, g)
  BY Zenon, <1>4, PushFits DEF h
<1> QED
  BY <1>2, <1>3, <1>5 DEF ChatOk

\* The rows of one message, pushed one after the other.
Pushes(nr, ok, f, n) ==
  f = [r \in 0..n |->
        IF r = 0 THEN Chat
        ELSE LET c == f[r - 1] IN PushRow(c, IF r = nr /\ ~ok THEN 0 ELSE NewPointer(c))]

LEMMA PushesAt ==
  ASSUME NEW nr, NEW ok, NEW f, NEW n \in Nat, Pushes(nr, ok, f, n)
  PROVE  /\ f[0] = Chat
         /\ \A r \in 1..n : f[r] = PushRow(f[r - 1], IF r = nr /\ ~ok THEN 0 ELSE NewPointer(f[r - 1]))
<1> DEFINE v(r) == IF r = 0 THEN Chat
                   ELSE LET c == f[r - 1] IN PushRow(c, IF r = nr /\ ~ok THEN 0 ELSE NewPointer(c))
<1>1. f = [r \in 0..n |-> v(r)]
  BY DEF Pushes
<1> HIDE DEF v
<1>2. \A r \in 0..n : f[r] = v(r)
  BY <1>1
<1>3. 0 \in 0..n /\ \A r \in 1..n : r \in 0..n /\ r # 0
  OBVIOUS
<1> QED
  BY <1>2, <1>3, Zenon DEF v

LEMMA PushesExist ==
  ASSUME NEW nr, NEW ok, NEW n \in Nat
  PROVE  \E f : Pushes(nr, ok, f, n)
<1> DEFINE T == {k \in Nat : \E f : Pushes(nr, ok, f, k)}
           w(c, r) == PushRow(c, IF r = nr /\ ~ok THEN 0 ELSE NewPointer(c))
<1>0. \A f, k : Pushes(nr, ok, f, k) <=> f = [r \in 0..k |-> IF r = 0 THEN Chat ELSE w(f[r - 1], r)]
  BY Zenon DEF Pushes
<1> HIDE DEF w
<1>1. 0 \in T
  <2> DEFINE f == [r \in 0..0 |-> Chat]
  <2>1. f = [r \in 0..0 |-> IF r = 0 THEN Chat ELSE w(f[r - 1], r)]
    OBVIOUS
  <2> HIDE DEF f
  <2> QED
    BY Zenon, <1>0, <2>1
<1>2. ASSUME NEW k \in 0..(n - 1), k \in T PROVE k + 1 \in T
  <2>1. PICK f : f = [r \in 0..k |-> IF r = 0 THEN Chat ELSE w(f[r - 1], r)]
    BY <1>0, <1>2
  <2> DEFINE g == [r \in 0..(k + 1) |-> IF r <= k THEN f[r] ELSE w(f[k], r)]
  <2>2. ASSUME NEW r \in 0..(k + 1) PROVE g[r] = IF r = 0 THEN Chat ELSE w(g[r - 1], r)
    <3>1. CASE r = 0
      <4>1. f[0] = Chat
        BY <2>1
      <4> QED
        BY <3>1, <4>1
    <3>2. CASE r \in 1..k
      <4>1. g[r] = f[r] /\ g[r - 1] = f[r - 1] /\ r \in 0..k /\ r # 0
        BY <3>2
      <4>2. f[r] = IF r = 0 THEN Chat ELSE w(f[r - 1], r)
        BY <2>1, <4>1
      <4> QED
        BY <4>1, <4>2
    <3>3. CASE r = k + 1
      <4>1. g[r] = w(f[k], r) /\ g[r - 1] = f[k] /\ r # 0
        BY <3>3
      <4> QED
        BY <4>1
    <3> QED
      BY <3>1, <3>2, <3>3
  <2>3. g = [r \in 0..(k + 1) |-> IF r = 0 THEN Chat ELSE w(g[r - 1], r)]
    BY <2>2
  <2> HIDE DEF g
  <2>4. Pushes(nr, ok, g, k + 1)
    BY <1>0, <2>3, Zenon
  <2> QED
    BY <2>4
<1> HIDE DEF T
<1>3. n \in T
  <2>1. \A k \in 0..n : k \in T
    BY <1>1, <1>2, Induction
  <2> QED
    BY <2>1
<1> QED
  BY <1>3 DEF T

LEMMA AppendedOk ==
  ASSUME ChatOk(Chat), NEW nr \in Nat, NEW ok
  PROVE  ChatOk(Appended(nr, ok))
<1>1. PICK f : Pushes(nr, ok, f, nr) /\ Appended(nr, ok) = f[nr]
  <2>1. \E f : Pushes(nr, ok, f, nr)
    BY PushesExist
  <2> QED
    BY <2>1, Zenon DEF Appended, Pushes
<1>2. f[0] = Chat /\ \A r \in 1..nr : f[r] = PushRow(f[r - 1], IF r = nr /\ ~ok THEN 0 ELSE NewPointer(f[r - 1]))
  BY <1>1, PushesAt
<1> DEFINE T == {k \in 0..nr : ChatOk(f[k])}
<1>3. 0 \in T
  BY <1>2
<1>4. ASSUME NEW k \in 0..(nr - 1), k \in T PROVE k + 1 \in T
  <2>1. k + 1 \in 1..nr /\ (k + 1) - 1 = k /\ k + 1 \in 0..nr /\ ChatOk(f[k])
    BY <1>4
  <2> DEFINE p == IF k + 1 = nr /\ ~ok THEN 0 ELSE NewPointer(f[k])
  <2>2. f[k + 1] = PushRow(f[k], p)
    BY <1>2, <2>1
  <2>3. NewPointer(f[k]) \in Pointers /\ NewPointer(f[k]) \notin Kept(f[k])
    BY <2>1, PointerLeft
  <2>4. 0 \notin Kept(f[k])
    BY <2>1, Rooms DEF ChatOk, Kept
  <2>5. p \in Pointers \cup {0} /\ p \notin Kept(f[k])
    BY <2>3, <2>4
  <2> HIDE DEF p
  <2>6. ChatOk(PushRow(f[k], p))
    BY <2>1, <2>5, PushRowOk
  <2> QED
    BY <2>1, <2>2, <2>6
<1> HIDE DEF T
<1>5. nr \in T
  <2>1. \A k \in 0..nr : k \in T
    BY <1>3, <1>4, Induction
  <2> QED
    BY <2>1
<1> QED
  BY <1>1, <1>5 DEF T

-----------------------------------------------------------------------------
\* The input line, the contact list and the scroll offset.

TypedOk ==
  /\ input_buf \in Seq({"a", "L", "c"}) /\ Len(input_buf) <= InputCap
  /\ input_cursor \in 0..Len(input_buf)
Names == Onions \cup {NoOne}
SideOk ==
  /\ contacts \in Seq(Names) /\ Len(contacts) <= TUI_MAX_CONTACTS
  /\ selected_idx \in 0..TUI_MAX_CONTACTS
WorldOk == book \in Seq(Names) /\ peer \in Names /\ rows \in Nat
ScrollOk == chat_scroll_offset \in 0..TUI_CHAT_SCROLLBACK

Tidy == TypedOk /\ SideOk /\ WorldOk /\ ChatOk(Chat) /\ ScrollOk

LEMMA LoadedOk ==
  ASSUME WorldOk, NEW k \in Listed
  PROVE  Loaded(k) \in Seq(Names) /\ Len(Loaded(k)) <= TUI_MAX_CONTACTS
<1> DEFINE listed == SubSeq(book, 1, k)
<1>1. book \in Seq(Names) /\ peer \in Names /\ Len(book) \in Nat /\ TUI_MAX_CONTACTS \in Nat
  BY TuiAssumption DEF WorldOk
<1>2. k \in 0..Len(book) /\ k <= TUI_MAX_CONTACTS /\ k \in Nat
  BY <1>1 DEF Listed
<1>3. listed \in Seq(Names) /\ Len(listed) = k
  BY <1>1, <1>2
<1>4. Loaded(k) = IF peer # NoOne /\ peer \notin Range(listed) /\ Len(listed) < TUI_MAX_CONTACTS
               THEN Append(listed, peer) ELSE listed
  BY DEF Loaded
<1> HIDE DEF listed
<1>5. CASE peer # NoOne /\ peer \notin Range(listed) /\ Len(listed) < TUI_MAX_CONTACTS
  BY <1>1, <1>2, <1>3, <1>4, <1>5
<1>6. CASE ~(peer # NoOne /\ peer \notin Range(listed) /\ Len(listed) < TUI_MAX_CONTACTS)
  BY <1>2, <1>3, <1>4, <1>6
<1> QED
  BY <1>5, <1>6

LEMMA ClampedOk ==
  ASSUME NEW offset \in Nat, NEW count \in 0..TUI_CHAT_SCROLLBACK, NEW h \in Nat
  PROVE  Clamped(offset, count, h) \in 0..TUI_CHAT_SCROLLBACK
<1>1. TUI_CHAT_SCROLLBACK \in Nat
  BY Rooms
<1>2. CASE count > h
  BY <1>1, <1>2 DEF Clamped
<1>3. CASE ~(count > h)
  BY <1>1, <1>3 DEF Clamped
<1> QED
  BY <1>2, <1>3

LEMMA ChatHeightOk ==
  ASSUME NEW r \in Nat
  PROVE  ChatHeight(r) \in Nat
BY TuiAssumption DEF ChatHeight

\* Drawing the contact list, with a selection inside the array.
LEMMA SidebarOk ==
  ASSUME WorldOk, NEW old, tui_draw_sidebar(old), selected_idx' \in 0..TUI_MAX_CONTACTS
  PROVE  SideOk'
<1>1. PICK k \in Listed : contacts' = Loaded(k)
  BY DEF tui_draw_sidebar
<1> QED
  BY <1>1, LoadedOk DEF SideOk

LEMMA KeptChat ==
  ASSUME ChatOk(Chat), UNCHANGED <<chat_lines, chat_line_count, heap, freed_twice>>
  PROVE  ChatOk(Chat)'
<1>1. Chat' = Chat
  BY DEF Chat
<1> QED
  BY <1>1 DEF ChatOk, Owned

LEMMA Bounds ==
  ASSUME Tidy
  PROVE  /\ selected_idx \in 0..TUI_MAX_CONTACTS /\ contact_count \in 0..TUI_MAX_CONTACTS
         /\ TUI_MAX_CONTACTS \in Nat /\ Page \in Nat /\ MaxRows \in Nat
         /\ chat_scroll_offset \in Nat /\ chat_line_count \in 0..TUI_CHAT_SCROLLBACK /\ rows \in Nat
         /\ input_len \in Nat /\ input_cursor \in 0..input_len
<1>1. TUI_MAX_CONTACTS \in Nat /\ Page \in Nat /\ MaxRows \in Nat /\ TUI_CHAT_SCROLLBACK \in Nat
  BY TuiAssumption
<1>2. selected_idx \in 0..TUI_MAX_CONTACTS /\ contact_count \in 0..TUI_MAX_CONTACTS
  BY <1>1 DEF Tidy, SideOk, contact_count
<1>3. chat_scroll_offset \in Nat /\ rows \in Nat
  BY <1>1 DEF Tidy, WorldOk, ScrollOk
<1>4. chat_line_count \in 0..TUI_CHAT_SCROLLBACK
  BY DEF Tidy, ChatOk, Chat
<1>5. input_len \in Nat /\ input_cursor \in 0..input_len
  BY DEF Tidy, TypedOk, input_len
<1> QED
  BY <1>1, <1>2, <1>3, <1>4, <1>5

\* A key that leaves the scrollback and the selection alone.
LEMMA OnlyTyped ==
  ASSUME Tidy, TypedOk', UNCHANGED <<selected_idx, chat>>, Redrawn
  PROVE  Tidy'
<1>1. WorldOk'
  BY DEF Tidy, WorldOk, Redrawn, world
<1>2. SideOk'
  BY SidebarOk DEF Tidy, SideOk, Redrawn
<1>3. ChatOk(Chat)' /\ ScrollOk'
  BY KeptChat DEF Tidy, chat, ScrollOk
<1> QED
  BY <1>1, <1>2, <1>3 DEF Tidy

LEMMA OnlySelected ==
  ASSUME Tidy, selected_idx' \in 0..TUI_MAX_CONTACTS, UNCHANGED <<typed, chat>>, Redrawn
  PROVE  Tidy'
<1>1. WorldOk'
  BY DEF Tidy, WorldOk, Redrawn, world
<1>2. SideOk'
  BY SidebarOk DEF Tidy, Redrawn
<1>3. ChatOk(Chat)' /\ ScrollOk'
  BY KeptChat DEF Tidy, chat, ScrollOk
<1>4. TypedOk'
  BY DEF Tidy, TypedOk, typed
<1> QED
  BY <1>1, <1>2, <1>3, <1>4 DEF Tidy

LEMMA OnlyScrolled ==
  ASSUME Tidy, NEW offset \in Nat, Scrolled(offset)
  PROVE  Tidy'
<1>1. WorldOk'
  BY DEF Tidy, WorldOk, Scrolled, Redrawn, world
<1>2. SideOk'
  BY SidebarOk DEF Tidy, SideOk, Scrolled, Redrawn
<1>3. ChatOk(Chat)'
  BY KeptChat DEF Tidy, Scrolled
<1>4. ScrollOk'
  BY Bounds, ChatHeightOk, ClampedOk DEF ScrollOk, Scrolled, tui_draw_chat
<1>5. TypedOk'
  BY DEF Tidy, TypedOk, typed, Scrolled
<1> QED
  BY <1>1, <1>2, <1>3, <1>4, <1>5 DEF Tidy

LEMMA NotBelow ==
  ASSUME NEW n \in Int
  PROVE  NotBelowZero(n) \in Nat
BY DEF NotBelowZero

\* The bytes before a cursor end with a character, or are all continuation bytes.
LEMMA PrevBytes ==
  ASSUME NEW p \in Nat \ {0}
  PROVE  utf8_prev_char_bytes(p) \in 1..p
<1> DEFINE Ok(n) == /\ \A k \in 1..(n - 1) : input_buf[p - k + 1] = "c"
                    /\ n = p \/ input_buf[p - n + 1] # "c"
           S == {n \in 1..p : n = p \/ input_buf[p - n + 1] # "c"}
<1>1. PICK n \in S : \A k \in S : n <= k
  <2>0. 1..p \subseteq Nat /\ p \in 1..p
    OBVIOUS
  <2>1. S \in SUBSET Nat /\ S # {}
    BY <2>0, Zenon
  <2> HIDE DEF S
  <2> QED
    BY <2>1, Least
<1>2. ASSUME NEW k \in 1..(n - 1) PROVE input_buf[p - k + 1] = "c"
  <2>1. k \in 1..p /\ ~(n <= k)
    BY <1>1
  <2> QED
    BY <1>1, <2>1
<1>3. Ok(n) /\ n \in 1..p
  BY <1>1, <1>2
<1>4. utf8_prev_char_bytes(p) = CHOOSE m \in 1..p : Ok(m)
  BY DEF utf8_prev_char_bytes
<1> HIDE DEF Ok
<1> QED
  BY <1>3, <1>4

LEMMA RemovedTyped ==
  ASSUME Tidy, NEW p \in 0..input_len, NEW n \in 0..(input_len - p), Removed(p, n),
         input_cursor' = p
  PROVE  Tidy'
<1>1. input_buf \in Seq({"a", "L", "c"}) /\ Len(input_buf) <= InputCap /\ InputCap \in Nat /\ input_len = Len(input_buf)
  BY TuiAssumption DEF Tidy, TypedOk, input_len
<1> DEFINE x == SubSeq(input_buf, 1, p)
           y == SubSeq(input_buf, p + n + 1, input_len)
<1>2. x \in Seq({"a", "L", "c"}) /\ Len(x) = p
  BY <1>1
<1>3. y \in Seq({"a", "L", "c"}) /\ Len(y) = input_len - (p + n)
  <2>1. p + n + 1 \in 1..(input_len + 1) /\ input_len \in Nat
    BY <1>1
  <2> QED
    BY <1>1, <2>1
<1>4. input_buf' = x \o y
  BY DEF Removed
<1> HIDE DEF x, y
<1>5. x \o y \in Seq({"a", "L", "c"}) /\ Len(x \o y) = p + (input_len - (p + n))
  BY <1>2, <1>3
<1>6. TypedOk'
  BY <1>1, <1>4, <1>5 DEF TypedOk
<1> QED
  BY <1>6, OnlyTyped DEF Removed

LEMMA InsertTyped ==
  ASSUME Tidy, insert
  PROVE  Tidy'
<1> DEFINE B == {"a", "L", "c"}
<1>0. input_buf \in Seq(B) /\ input_len = Len(input_buf) /\ input_cursor \in 0..input_len /\ input_len \in Nat /\ InputCap \in Nat
  BY SMTT(20), TuiAssumption DEF Tidy, TypedOk, input_len
<1>1. PICK bytes \in {<<"a">>, <<"L", "c">>} :
       /\ input_len + Len(bytes) <= InputCap
       /\ input_buf' = SubSeq(input_buf, 1, input_cursor) \o bytes
                         \o SubSeq(input_buf, input_cursor + 1, input_len)
       /\ input_cursor' = input_cursor + Len(bytes)
  BY Zenon DEF insert
<1>2. bytes \in Seq(B) /\ Len(bytes) \in Nat
  <2>1. "a" \in B /\ "L" \in B /\ "c" \in B
    OBVIOUS
  <2> HIDE DEF B
  <2>2. CASE bytes = <<"a">>
    BY <2>1, <2>2
  <2>3. CASE bytes = <<"L", "c">>
    BY <2>1, <2>3
  <2> QED
    BY <2>2, <2>3
<1> HIDE DEF B
<1>3. Replaced(B, input_buf, input_cursor, 0, bytes, input_buf')
  <2>1. 0 \in 0..(Len(input_buf) - input_cursor) /\ input_cursor \in 0..Len(input_buf)
    BY <1>0
  <2>2. Replaced(B, input_buf, input_cursor, 0, bytes,
                 SubSeq(input_buf, 1, input_cursor) \o bytes
                   \o SubSeq(input_buf, input_cursor + 0 + 1, Len(input_buf)))
    BY <1>0, <1>2, <2>1, Splice
  <2>3. input_cursor + 0 + 1 = input_cursor + 1 /\ Len(input_buf) = input_len
    BY <1>0
  <2> QED
    BY <1>1, <2>2, <2>3
<1>4. input_buf' \in Seq(B) /\ Len(input_buf') = Len(input_buf) - 0 + Len(bytes)
  BY <1>3 DEF Replaced
<1>7. input_buf' \in Seq(B) /\ Len(input_buf') <= InputCap /\ input_cursor' \in 0..Len(input_buf')
  <2>1. Len(input_buf') = input_len + Len(bytes)
    BY <1>0, <1>2, <1>4
  <2>2. input_len + Len(bytes) <= InputCap /\ input_cursor' = input_cursor + Len(bytes)
    BY <1>1, Zenon
  <2> QED
    BY <1>0, <1>2, <1>4, <2>1, <2>2
<1>8. TypedOk'
  BY <1>7 DEF TypedOk, B
<1> QED
  BY <1>8, OnlyTyped DEF insert

LEMMA EmptyTyped ==
  ASSUME EmptyInput
  PROVE  TypedOk'
BY TuiAssumption DEF EmptyInput, TypedOk

\* Enter on a contact frees every row.
LEMMA EnterContact ==
  ASSUME Tidy, enter_contact
  PROVE  Tidy'
<1>1. /\ chat_lines \in [Rows -> Nat] /\ DOMAIN chat_lines = Rows /\ chat_line_count \in 0..TUI_CHAT_SCROLLBACK
      /\ \A i \in Rows : i > chat_line_count => chat_lines[i] = 0
      /\ heap = {chat_lines[i] : i \in Rows} \ {0} /\ ~freed_twice /\ TUI_CHAT_SCROLLBACK \in Nat
  BY Rooms DEF Tidy, ChatOk, Chat, Owned, Range
<1>2. Live = heap
  <2>1. \A i \in 1..chat_line_count : i \in Rows
    BY <1>1 DEF Rows
  <2>2. \A i \in Rows : i \in 1..chat_line_count \/ chat_lines[i] = 0
    BY <1>1 DEF Rows
  <2> QED
    BY <1>1, <2>1, <2>2 DEF Live
<1>3. heap' = {} /\ ~freed_twice' /\ chat_line_count' = 0
  BY Zenon, <1>1, <1>2 DEF enter_contact
<1>4. chat_lines' = [i \in Rows |-> 0]
  <2>1. \A i \in Rows : (IF i <= chat_line_count THEN 0 ELSE chat_lines[i]) = 0
    BY <1>1 DEF Rows
  <2>2. chat_lines' = [i \in Rows |-> IF i <= chat_line_count THEN 0 ELSE chat_lines[i]]
    BY <1>1 DEF enter_contact
  <2> QED
    BY <2>1, <2>2
<1>5. ChatOk(Chat)'
  BY <1>1, <1>3, <1>4 DEF ChatOk, Chat, Owned, Range
<1>6. ScrollOk'
  BY <1>1 DEF enter_contact, ScrollOk
<1>7. TypedOk'
  BY EmptyTyped DEF enter_contact
<1>8. SideOk' /\ WorldOk'
  BY DEF enter_contact, Tidy, SideOk, WorldOk, world
<1> QED
  BY SMTT(20), <1>5, <1>6, <1>7, <1>8 DEF Tidy

LEMMA TidyKey ==
  ASSUME Tidy, TuiKey
  PROVE  Tidy'
<1>0. /\ selected_idx \in 0..TUI_MAX_CONTACTS /\ contact_count \in 0..TUI_MAX_CONTACTS
      /\ TUI_MAX_CONTACTS \in Nat /\ Page \in Nat
      /\ chat_scroll_offset \in Nat
      /\ input_len \in Nat /\ input_cursor \in 0..input_len
  BY Bounds
<1>1. ASSUME UNCHANGED <<typed, selected_idx, chat>>, Redrawn PROVE Tidy'
  <2>1. TypedOk'
    BY <1>1 DEF Tidy, TypedOk, typed
  <2> QED
    BY <1>1, <2>1, OnlyTyped
<1>2. ASSUME NEW offset \in Int, Scrolled(NotBelowZero(offset)) PROVE Tidy'
  BY <1>2, NotBelow, OnlyScrolled
<1>3. ASSUME NEW p \in 0..input_len, CursorTo(p) PROVE Tidy'
  <2>1. TypedOk'
    BY <1>3 DEF Tidy, TypedOk, CursorTo, input_len
  <2> QED
    BY <1>3, <2>1, OnlyTyped DEF CursorTo
<1>4. ASSUME page_up PROVE Tidy'
  <2>1. chat_scroll_offset + Page \in Nat
    BY <1>0
  <2> QED
    BY <1>4, <2>1, OnlyScrolled DEF page_up
<1>5. ASSUME page_down PROVE Tidy'
  <2>1. chat_scroll_offset - Page \in Int
    BY <1>0
  <2> QED
    BY <1>2, <1>5, <2>1 DEF page_down
<1>6. ASSUME NEW i \in 0..TUI_MAX_CONTACTS, Selects(i) PROVE Tidy'
  BY <1>6, OnlySelected DEF Selects
<1>7. ASSUME arrow_up PROVE Tidy'
  <2>1. chat_scroll_offset + 1 \in Nat /\ (IF selected_idx > 0 THEN selected_idx - 1 ELSE contact_count) \in 0..TUI_MAX_CONTACTS
    BY <1>0
  <2> QED
    BY <1>6, <1>7, <2>1, OnlyScrolled DEF arrow_up
<1>8. ASSUME arrow_down PROVE Tidy'
  <2>1. /\ chat_scroll_offset - 1 \in Int
        /\ (IF selected_idx < contact_count THEN selected_idx + 1 ELSE 0) \in 0..TUI_MAX_CONTACTS
    BY <1>0
  <2> QED
    BY <1>2, <1>6, <1>8, <2>1 DEF arrow_down
<1>9. ASSUME switch_focus PROVE Tidy'
  BY <1>1, <1>9 DEF switch_focus
<1>10. ASSUME arrow_left PROVE Tidy'
  <2>1. input_cursor > 0 => input_cursor - 1 \in 0..input_len
    BY <1>0
  <2> QED
    BY <1>3, <1>9, <1>10, <2>1 DEF arrow_left
<1>11. ASSUME arrow_right PROVE Tidy'
  <2>1. input_cursor < input_len => input_cursor + 1 \in 0..input_len
    BY <1>0
  <2> QED
    BY <1>3, <1>9, <1>11, <2>1 DEF arrow_right
<1>12. ASSUME home_or_end PROVE Tidy'
  <2>1. 0 \in 0..input_len /\ input_len \in 0..input_len
    BY <1>0
  <2> QED
    BY <1>3, <1>12, <2>1 DEF home_or_end
<1>13. ASSUME backspace PROVE Tidy'
  <2> DEFINE n == utf8_prev_char_bytes(input_cursor)
  <2>1. input_cursor \in Nat \ {0} /\ Removed(input_cursor - n, n) /\ input_cursor' = input_cursor - n
    BY <1>0, <1>13 DEF backspace
  <2>2. n \in 1..input_cursor
    BY <2>1, PrevBytes
  <2> HIDE DEF n
  <2>3. input_cursor - n \in 0..input_len /\ n \in 0..(input_len - (input_cursor - n))
    BY <1>0, <2>2
  <2> QED
    BY <2>1, <2>3, RemovedTyped
<1>14. ASSUME delete PROVE Tidy'
  <2> DEFINE n == utf8_char_bytes(input_cursor)
  <2>1. input_cursor < input_len /\ Removed(input_cursor, n) /\ input_cursor' = input_cursor
    BY <1>14 DEF delete
  <2>2. n \in 0..(input_len - input_cursor)
    BY <1>0, <2>1 DEF utf8_char_bytes
  <2> HIDE DEF n
  <2> QED
    BY <1>0, <2>1, <2>2, RemovedTyped
<1>15. ASSUME enter_plus PROVE Tidy'
  <2>1. TypedOk'
    BY <1>15, TuiAssumption DEF enter_plus, TypedOk
  <2> QED
    BY <1>15, <2>1, OnlyTyped DEF enter_plus
<1>16. ASSUME enter_line PROVE Tidy'
  <2>1. TypedOk' /\ ScrollOk'
    BY <1>16, EmptyTyped, Rooms DEF enter_line, ScrollOk
  <2>2. SideOk' /\ WorldOk'
    BY <1>16 DEF enter_line, Tidy, SideOk, WorldOk, world, sidebar
  <2>3. ChatOk(Chat)'
    BY <1>16, KeptChat DEF Tidy, enter_line
  <2> QED
    BY <2>1, <2>2, <2>3 DEF Tidy
<1>17. ASSUME other_key PROVE Tidy'
  BY SMTT(20), <1>1, <1>17 DEF other_key
<1> QED
  BY SMTT(20), <1>4, <1>5, <1>7, <1>8, <1>9, <1>10, <1>11, <1>12, <1>13, <1>14, <1>15, <1>16, <1>17,
     InsertTyped, EnterContact DEF TuiKey

LEMMA AppendedChat ==
  ASSUME Tidy, NEW nr \in Nat, NEW ok, ChatAppended(nr, ok)
  PROVE  ChatOk(Chat)' /\ chat_line_count' \in 0..TUI_CHAT_SCROLLBACK
<1>1. PICK c : c = Appended(nr, ok)
  OBVIOUS
<1>2. ChatOk(c)
  BY <1>1, AppendedOk DEF Tidy
<1>3. Chat' = [lines |-> c.lines, count |-> c.count, heap |-> c.heap, twice |-> c.twice] /\ chat_line_count' = c.count
  BY <1>1 DEF ChatAppended, Chat
<1> QED
  BY <1>2, <1>3 DEF ChatOk

LEMMA TidyStep ==
  ASSUME Tidy, TuiStep
  PROVE  Tidy'
<1>0. /\ MaxRows \in Nat /\ chat_scroll_offset \in 0..TUI_CHAT_SCROLLBACK /\ TUI_CHAT_SCROLLBACK \in Nat
      /\ chat_line_count \in 0..TUI_CHAT_SCROLLBACK /\ rows \in Nat
  BY Bounds, Rooms DEF Tidy, ScrollOk
<1>1. \A wrapped, ok : AfterAppend(wrapped, ok) \in 0..TUI_CHAT_SCROLLBACK
  BY <1>0 DEF AfterAppend
<1>2. ASSUME NEW offset \in 0..TUI_CHAT_SCROLLBACK, WorldOk', rows' \in Nat, UNCHANGED <<book, peer>>,
             chat_line_count' \in 0..TUI_CHAT_SCROLLBACK, ChatOk(Chat)',
             tui_refresh_all(offset, chat_line_count', rows')
      PROVE  Tidy'
  <2>1. TypedOk'
    BY <1>2 DEF tui_refresh_all, Tidy, TypedOk, typed
  <2>2. SideOk'
    BY <1>2, SidebarOk DEF tui_refresh_all, Tidy, SideOk
  <2>3. ScrollOk'
    <3>1. offset \in Nat
      BY <1>0
    <3> QED
      BY <1>2, <3>1, ChatHeightOk, ClampedOk DEF ScrollOk, tui_refresh_all, tui_draw_chat
  <2> QED
    BY <1>2, <2>1, <2>2, <2>3 DEF Tidy
<1>3. ASSUME fe_tui_emit PROVE Tidy'
  <2>1. PICK nr \in 0..MaxRows, ok \in BOOLEAN, wrapped \in BOOLEAN :
         ChatAppended(nr, ok) /\ tui_refresh_all(AfterAppend(wrapped, ok), chat_line_count', rows) /\ UNCHANGED world
    BY <1>3 DEF fe_tui_emit
  <2>2. nr \in Nat
    BY <1>0
  <2>3. ChatOk(Chat)' /\ chat_line_count' \in 0..TUI_CHAT_SCROLLBACK
    BY <2>1, <2>2, AppendedChat
  <2>4. WorldOk' /\ rows' = rows /\ rows' \in Nat /\ UNCHANGED <<book, peer>>
    BY <2>1 DEF Tidy, WorldOk, world
  <2>5. tui_refresh_all(AfterAppend(wrapped, ok), chat_line_count', rows')
    BY <2>1, <2>4
  <2> QED
    BY <1>1, <1>2, <2>3, <2>4, <2>5
<1>4. ASSUME log_line PROVE Tidy'
  <2>1. PICK nr \in 1..MaxRows, ok \in BOOLEAN, wrapped \in BOOLEAN :
         /\ ChatAppended(nr, ok) /\ chat_scroll_offset' = AfterAppend(wrapped, ok)
         /\ UNCHANGED <<active, typed, sidebar, world, highlighted>>
    BY <1>4 DEF log_line
  <2>2. nr \in Nat
    BY <1>0
  <2>3. ChatOk(Chat)'
    BY <2>1, <2>2, AppendedChat
  <2>4. ScrollOk'
    BY <1>1, <2>1 DEF ScrollOk
  <2>5. TypedOk' /\ SideOk' /\ WorldOk'
    BY <2>1 DEF Tidy, TypedOk, SideOk, WorldOk, typed, sidebar, world
  <2> QED
    BY <2>3, <2>4, <2>5 DEF Tidy
<1>5. ASSUME resized PROVE Tidy'
  <2>1. rows' \in Nat /\ WorldOk' /\ UNCHANGED <<book, peer>>
    BY <1>5, TuiAssumption DEF resized, Tidy, WorldOk
  <2>2. ChatOk(Chat)' /\ chat_line_count' = chat_line_count
    BY <1>5, KeptChat DEF resized, Tidy
  <2>3. tui_refresh_all(chat_scroll_offset, chat_line_count', rows')
    BY <1>5, <2>2 DEF resized
  <2> QED
    BY <1>0, <1>2, <2>1, <2>2, <2>3
<1>6. ASSUME contacts_change PROVE Tidy'
  <2>1. UNCHANGED <<active, typed, sidebar, chat, rows, highlighted>>
    BY <1>6 DEF contacts_change
  <2>2. TypedOk' /\ SideOk' /\ ScrollOk'
    BY <2>1 DEF Tidy, TypedOk, SideOk, ScrollOk, typed, sidebar, chat
  <2>3. ChatOk(Chat)'
    BY <2>1, KeptChat DEF Tidy, chat
  <2>0. book \in Seq(Names) /\ peer \in Names
    BY DEF Tidy, WorldOk
  <2>4. book' \in Seq(Names) /\ peer' \in Names
    <3>1. CASE \E o \in Onions \ Range(book) : book' = Append(book, o) /\ UNCHANGED peer
      <4>1. PICK o \in Onions : book' = Append(book, o) /\ peer' = peer
        BY <3>1
      <4>2. o \in Names
        BY DEF Names
      <4> QED
        BY <2>0, <4>1, <4>2
    <3>2. CASE \E i \in DOMAIN book :
                 book' = SubSeq(book, 1, i - 1) \o SubSeq(book, i + 1, Len(book)) \o <<book[i]>> /\ UNCHANGED peer
      <4>1. PICK i \in DOMAIN book :
              book' = SubSeq(book, 1, i - 1) \o SubSeq(book, i + 1, Len(book)) \o <<book[i]>> /\ peer' = peer
        BY Zenon, <3>2
      <4> DEFINE x == SubSeq(book, 1, i - 1)
                 y == SubSeq(book, i + 1, Len(book))
                 z == <<book[i]>>
      <4>2. x \in Seq(Names) /\ y \in Seq(Names) /\ z \in Seq(Names)
        BY <2>0
      <4>3. book' = (x \o y) \o z
        BY <4>1
      <4> HIDE DEF x, y, z
      <4>4. x \o y \in Seq(Names)
        BY <4>2, Joined
      <4>5. (x \o y) \o z \in Seq(Names)
        BY <4>2, <4>4, Joined
      <4> QED
        BY Zenon, <2>0, <4>1, <4>3, <4>5
    <3>3. CASE peer' \in Onions \cup {NoOne} /\ UNCHANGED book
      BY <2>0, <3>3 DEF Names
    <3> QED
      BY Zenon, <1>6, <3>1, <3>2, <3>3 DEF contacts_change
  <2>5. WorldOk'
    BY <1>0, <2>1, <2>4 DEF WorldOk
  <2> QED
    BY <2>2, <2>3, <2>5 DEF Tidy
<1> QED
  BY <1>3, <1>4, <1>5, <1>6, TidyKey DEF TuiStep

\* tui_shutdown frees every entry.
LEMMA TidyShutdown ==
  ASSUME Tidy, tui_shutdown
  PROVE  Tidy'
<1>1. /\ chat_lines \in [Rows -> Nat] /\ DOMAIN chat_lines = Rows /\ chat_line_count \in 0..TUI_CHAT_SCROLLBACK
      /\ heap = Range(chat_lines) \ {0} /\ ~freed_twice
      /\ \A i, j \in Rows : chat_lines[i] # 0 /\ chat_lines[i] = chat_lines[j] => i = j
  BY DEF Tidy, ChatOk, Chat, Owned
<1>2. heap' = {} /\ ~freed_twice' /\ chat_lines' = [i \in Rows |-> 0] /\ chat_line_count' = chat_line_count
  BY ZenonT(40), <1>1 DEF tui_shutdown
<1>3. ChatOk(Chat)'
  BY <1>1, <1>2, Rooms DEF ChatOk, Chat, Owned, Range
<1>4. TypedOk' /\ SideOk' /\ WorldOk' /\ ScrollOk'
  BY DEF tui_shutdown, Tidy, TypedOk, SideOk, WorldOk, ScrollOk, typed, sidebar, world
<1> QED
  BY SMTT(20), <1>3, <1>4 DEF Tidy

LEMMA TidyIdle ==
  ASSUME TuiIdle
  PROVE  Tidy
<1>1. PICK e : e = << >>
  OBVIOUS
<1>2. /\ input_buf = e /\ contacts = e /\ book = e /\ e \in Seq({"a", "L", "c"}) /\ e \in Seq(Names) /\ Len(e) = 0
      /\ input_cursor = 0 /\ selected_idx = 0 /\ peer \in Names /\ rows \in Nat /\ chat_scroll_offset = 0
  BY <1>1, TuiAssumption DEF TuiIdle, Names
<1>3. 0 \in 0..0 /\ 0 <= InputCap /\ 0 <= TUI_MAX_CONTACTS /\ 0 \in 0..TUI_MAX_CONTACTS /\ 0 \in 0..TUI_CHAT_SCROLLBACK
  BY TuiAssumption
<1>4. TypedOk /\ SideOk /\ WorldOk /\ ScrollOk
  BY SMTT(20), <1>2, <1>3 DEF TypedOk, SideOk, WorldOk, ScrollOk
<1>5. ChatOk(Chat)
  BY <1>3 DEF TuiIdle, ChatOk, Chat, Owned, Range, Rows
<1> QED
  BY <1>4, <1>5 DEF Tidy

LEMMA TidyOwned ==
  ASSUME Tidy
  PROVE  LinesOwnedOnce
<1>1. /\ chat_lines \in [Rows -> Nat] /\ DOMAIN chat_lines = Rows
      /\ heap = Range(chat_lines) \ {0} /\ ~freed_twice
      /\ \A i, j \in Rows : chat_lines[i] # 0 /\ chat_lines[i] = chat_lines[j] => i = j
  BY DEF Tidy, ChatOk, Chat, Owned
<1>2. input_len <= InputCap /\ contact_count <= TUI_MAX_CONTACTS
  BY DEF Tidy, TypedOk, SideOk, input_len, contact_count
<1> QED
  BY SMTT(20), <1>1, <1>2, Bounds DEF LinesOwnedOnce, Tidy, ScrollOk

-----------------------------------------------------------------------------
\* The terminal's mode, the row shown as selected, and all of it together.

Modes ==
  /\ rawmode \in BOOLEAN
  /\ rawmode => saved # "raw"
  /\ ln_active => rawmode
  /\ running = "starting" => ~unrestored
  /\ ~unrestored => (~rawmode => term # "raw")
  /\ ~unrestored => (running = "exited" => term = "cooked")
Highlight ==
  /\ EnterActsOnHighlighted
  /\ running = "starting" => focus = "input"

TInv == Modes /\ Tidy /\ Highlight

LEMMA ModesRaw ==
  ASSUME Modes, enableRawMode, ln_active \/ running = "starting", running' \notin {"starting", "exited"}
  PROVE  Modes'
<1>1. rawmode \/ term # "raw"
  BY DEF Modes
<1> QED
  BY <1>1 DEF Modes, enableRawMode

LEMMA ModesBack ==
  ASSUME Modes, ln_active, ln_edit_deinit, running' \notin {"starting", "exited"}
  PROVE  Modes'
<1>1. rawmode' = FALSE /\ ln_active' = FALSE
  BY DEF ln_edit_deinit, disableRawMode
<1>2. ~unrestored' => term' # "raw"
  BY Zenon DEF Modes, ln_edit_deinit, disableRawMode
<1> QED
  BY <1>1, <1>2 DEF Modes

LEMMA ModesKept ==
  ASSUME Modes, UNCHANGED <<ln_active, modes>>, running' \notin {"starting", "exited"}
  PROVE  Modes'
BY DEF Modes, modes

LEMMA TidyKept ==
  ASSUME Tidy, UNCHANGED <<typed, sidebar, chat, world>>
  PROVE  Tidy'
<1>1. TypedOk' /\ SideOk' /\ WorldOk' /\ ScrollOk'
  BY DEF Tidy, TypedOk, SideOk, WorldOk, ScrollOk, typed, sidebar, world, chat
<1>2. ChatOk(Chat)'
  BY KeptChat DEF Tidy, chat
<1> QED
  BY <1>1, <1>2 DEF Tidy

\* Whatever draws the contact list shows the row Enter would take; the steps
\* that do not draw it leave the list and the selection alone, or the focus to
\* the input line.
LEMMA ShownStep ==
  ASSUME Highlight, TuiStep
  PROVE  EnterActsOnHighlighted'
<1>1. ASSUME NEW old, tui_draw_sidebar(old) PROVE EnterActsOnHighlighted'
  <2>1. highlighted' = Lit(contacts', focus', selected_idx', rows') \cup {x \in old : x[1] > PlusRow(contacts')}
    BY <1>1 DEF tui_draw_sidebar
  <2>2. ASSUME NEW x \in Lit(contacts', focus', selected_idx', rows')
        PROVE  x[2] = EnterTakes(contacts', selected_idx')
    BY <2>2 DEF Lit
  <2>3. focus' = "sidebar" /\ OnPanel(contacts', selected_idx', rows') =>
          <<SelectedRow(contacts', selected_idx'), EnterTakes(contacts', selected_idx')>>
            \in Lit(contacts', focus', selected_idx', rows')
    BY DEF Lit
  <2> QED
    BY <2>1, <2>2, <2>3 DEF EnterActsOnHighlighted
<1>2. ASSUME focus' = "input" PROVE EnterActsOnHighlighted'
  BY <1>2 DEF EnterActsOnHighlighted
<1>3. ASSUME UNCHANGED <<active, sidebar, highlighted, rows>> PROVE EnterActsOnHighlighted'
  BY <1>3 DEF EnterActsOnHighlighted, Highlight, sidebar
<1>4. ASSUME Redrawn PROVE EnterActsOnHighlighted'
  BY <1>1, <1>4 DEF Redrawn
<1>5. ASSUME switch_focus \/ page_up \/ page_down \/ arrow_up \/ arrow_down \/ arrow_left \/ arrow_right
               \/ home_or_end \/ backspace \/ delete \/ insert \/ enter_plus \/ other_key
      PROVE  Redrawn
  BY <1>5, Zenon DEF switch_focus, page_up, page_down, Scrolled, arrow_up, arrow_down, Selects, arrow_left,
       arrow_right, CursorTo, home_or_end, backspace, delete, Removed, insert, enter_plus, other_key
<1>6. ASSUME enter_contact PROVE EnterActsOnHighlighted'
  BY <1>2, <1>6 DEF enter_contact
<1>7. ASSUME enter_line PROVE EnterActsOnHighlighted'
  BY <1>3, <1>7 DEF enter_line, world
<1>8. ASSUME fe_tui_emit \/ resized PROVE EnterActsOnHighlighted'
  BY SMTT(20), <1>1, <1>8 DEF fe_tui_emit, resized, tui_refresh_all
<1>9. ASSUME log_line \/ contacts_change PROVE EnterActsOnHighlighted'
  BY <1>3, <1>9 DEF log_line, contacts_change, world
<1> QED
  BY <1>4, <1>5, <1>6, <1>7, <1>8, <1>9, Zenon DEF TuiStep, TuiKey

LEMMA ShownKept ==
  ASSUME Highlight, UNCHANGED tuiVars, running' = running \/ running' # "starting"
  PROVE  Highlight'
BY DEF Highlight, EnterActsOnHighlighted, tuiVars, sidebar, world

LEMMA FeedStep ==
  ASSUME Modes, running = "yes", linenoiseEditFeed
  PROVE  Modes' /\ running' \in {"yes", "no"}
<1>0. ln_active
  BY DEF linenoiseEditFeed
<1>1. CASE EditKey /\ UNCHANGED session
  BY <1>1, ModesKept DEF session
<1>2. ASSUME EditStart PROVE Modes' /\ running' \in {"yes", "no"}
  BY <1>0, <1>2, ModesRaw, ModesBack DEF EditStart
<1>3. CASE Fresh /\ running' = "no" /\ UNCHANGED <<ln_active, modes>>
  BY <1>3, ModesKept
<1> QED
  BY <1>1, <1>2, <1>3, Zenon DEF linenoiseEditFeed, EnterOrCtrlC, CtrlDOnEmpty

LEMMA TInvInit == Init => TInv
<1> SUFFICES ASSUME Init PROVE TInv
  OBVIOUS
<1>1. Modes
  <2>1. /\ rawmode = FALSE /\ ln_active = FALSE /\ unrestored = FALSE
        /\ running = "starting" /\ (term = "main" \/ term = "cooked")
    BY DEF Init, EditIdle
  <2> QED
    BY <2>1, Zenon DEF Modes
<1>2. Tidy
  BY TidyIdle DEF Init
<1>3. Highlight
  BY DEF Init, TuiIdle, Highlight, EnterActsOnHighlighted
<1> QED
  BY <1>1, <1>2, <1>3 DEF TInv

LEMMA TInvStep == TInv /\ [Next]_vars => TInv'
<1> SUFFICES ASSUME Modes, Tidy, Highlight, [Next]_vars PROVE Modes' /\ Tidy' /\ Highlight'
  BY DEF TInv
<1>1. ASSUME start PROVE Modes' /\ Tidy' /\ Highlight'
  <2>1. Modes'
    BY <1>1, ModesKept, ModesRaw DEF start, ln_edit_init
  <2>2. Tidy'
    BY <1>1, TidyKept DEF start
  <2>3. focus' = "input" /\ running' # "starting"
    BY <1>1 DEF start, Highlight, sidebar
  <2> QED
    BY <2>1, <2>2, <2>3 DEF Highlight, EnterActsOnHighlighted
<1>2. ASSUME process_stdin_events PROVE Modes' /\ Tidy' /\ Highlight'
  <2>0. running = "yes"
    BY <1>2 DEF process_stdin_events
  <2>1. CASE TuiStep /\ UNCHANGED <<editVars, pipeVars>>
    <3>1. UNCHANGED <<ln_active, modes>> /\ running' = running
      BY <2>1 DEF editVars, session
    <3>2. Highlight'
      BY <2>0, <2>1, <3>1, ShownStep DEF Highlight
    <3> QED
      BY <2>0, <2>1, <3>1, <3>2, ModesKept, TidyStep
  <2>2. CASE linenoiseEditFeed /\ UNCHANGED <<pipeVars, tuiVars>>
    <3>1. Modes' /\ running' \in {"yes", "no"}
      BY <2>0, <2>2, FeedStep
    <3>2. Tidy'
      BY <2>2, TidyKept DEF tuiVars
    <3>3. Highlight'
      BY <2>2, <3>1, ShownKept
    <3> QED
      BY <3>1, <3>2, <3>3
  <2>3. CASE read_stdin /\ UNCHANGED <<editVars, tuiVars>>
    <3>1. UNCHANGED <<ln_active, modes>> /\ running' = running
      BY <2>3 DEF editVars, session
    <3>2. Tidy' /\ Highlight'
      BY <2>3, <3>1, TidyKept, ShownKept DEF tuiVars
    <3> QED
      BY <2>0, <3>1, <3>2, ModesKept
  <2> QED
    BY <1>2, <2>1, <2>2, <2>3 DEF process_stdin_events
<1>3. ASSUME stop PROVE Modes' /\ Tidy' /\ Highlight'
  <2>1. UNCHANGED <<ln_active, modes>> /\ running' = "no" /\ UNCHANGED tuiVars
    BY <1>3 DEF stop
  <2>2. Tidy' /\ Highlight'
    BY <2>1, TidyKept, ShownKept DEF tuiVars
  <2> QED
    BY <2>1, <2>2, ModesKept
<1>4. ASSUME cleanup PROVE Modes' /\ Tidy' /\ Highlight'
  <2>1. Modes'
    BY <1>4 DEF cleanup, edit_cleanup, Modes
  <2>2. Tidy'
    BY <1>4, TidyShutdown, TidyKept DEF cleanup, tuiVars
  <2>3. Highlight'
    <3>1. running' # "starting"
      BY <1>4 DEF cleanup
    <3>2. CASE tui_shutdown
      BY <3>1, <3>2 DEF tui_shutdown, Highlight, EnterActsOnHighlighted
    <3>3. CASE UNCHANGED tuiVars
      BY <3>1, <3>3, ShownKept
    <3> QED
      BY <1>4, <3>2, <3>3 DEF cleanup
  <2> QED
    BY <2>1, <2>2, <2>3
<1>5. ASSUME UNCHANGED vars PROVE Modes' /\ Tidy' /\ Highlight'
  <2>1. UNCHANGED <<ln_active, modes>> /\ running' = running /\ UNCHANGED tuiVars
    BY <1>5 DEF vars, editVars, session
  <2>2. Modes'
    BY <2>1 DEF Modes, modes
  <2>3. Tidy' /\ Highlight'
    BY <2>1, TidyKept, ShownKept DEF tuiVars
  <2> QED
    BY <2>1, <2>2, <2>3
<1> QED
  BY <1>1, <1>2, <1>3, <1>4, <1>5 DEF Next, Exited

LEMMA TInvAlways == Spec => []TInv
BY TInvInit, TInvStep, PTL DEF Spec

-----------------------------------------------------------------------------
\* Unless the tcsetattr that should have given it back failed, a terminal that
\* linenoise counts as given back is not in raw mode, and at the end the user has
\* their own mode back (disableRawMode, restore_terminal).
THEOREM TerminalReturned == Spec => []TerminalGivenBack
<1>1. TInv => TerminalGivenBack
  BY DEF TInv, Modes, TerminalGivenBack
<1> QED
  BY <1>1, TInvAlways, PTL

\* Every string of the scrollback has one owner, none is lost or freed twice,
\* and the cursor, the selection and the scroll offset stay in their arrays.
THEOREM LinesHaveOneOwner == Spec => []LinesOwnedOnce
<1>1. TInv => LinesOwnedOnce
  BY TidyOwned DEF TInv
<1> QED
  BY <1>1, TInvAlways, PTL

\* A lit row of the contact list as last painted is what Enter takes, a selection
\* past the list included, and what Enter takes is lit where the panel has room
\* (tui_draw_sidebar, tui_handle_input).
THEOREM EnterActs == Spec => []EnterActsOnHighlighted
<1>1. TInv => EnterActsOnHighlighted
  BY DEF TInv, Highlight
<1> QED
  BY <1>1, TInvAlways, PTL
=============================================================================
