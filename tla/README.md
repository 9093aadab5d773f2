# A TLA+ model of noxtor-cli

noxtor-cli is a messenger between Tor onion services: one process, one thread,
an epoll loop, up to 16 peers, Noise XX sessions, trust on first use (TOFU) with
a prompt the user answers, text and file transfer, an SQLite database with
contacts and a queue of messages for peers that are away, keys in a locked arena
and on disk under a PIN, and a Tor process it starts and supervises. This
directory models its control logic, checks it with TLC on small instances, and
proves all but three of the safety properties with TLAPS for every size.

## The system

### Parts

| Part | Source | State | Operations | Model |
|---|---|---|---|---|
| State machine | `state_machine.c` | a state for each slot | `sm_dispatch`, table `transitions` | `StateMachine` |
| Peer slots and event loop | `event_loop.c`, `stdin_handler.c` | `peers[16]`, active index and address | accept, `/connect`, `/disconnect`, `/switch`, handshake frames, timeouts, Tor's death | `PeerSlots` |
| TOFU decision | `state_machine.c`, `stdin_handler.c` | epoch counter, token (epoch, fingerprint) | prompt, answer, re-arm, accept, reject, expiry | `PeerSlots` |
| Contact table | `database.c` | key for each address | `db_add_contact`, `db_get_contact`, `/add` | `PeerSlots` |
| SOCKS5 client, rate limits | `network.c`, `event_loop.c`, `stdin_handler.c` | position in the exchange, deadline, windows | greet, request, reply, count, refuse | `Dial` |
| Noise XX | `noise.c` | handshake and cipher states | write, read, split, encrypt, decrypt | `NoiseXX` |
| Session transport | `noise.c`, `network.c`, `event_loop.c` | nonces, sequence numbers, receive buffer | encrypt, write, read, `process_peer_frames` | `Transport` |
| File transfer | `file_transfer.c` | `tx_file`, `rx_file` | start, chunk, receive, abort, time out | `Transport` |
| Offline queue | `database.c`, `stdin_handler.c` | table `queue` | insert, roll back, flush, delete | `OfflineQueue`, `Outbox` |
| Keystore | `crypto.c`, `main.c`, `database.c` | salt, identity and database files | create, load, open, `--full_cleankeys` | `Keystore` |
| Arena | `arena.c` | offset, canary, saved marks | allocate, save, restore, abort, destroy | `Arena` |
| Tor and its control port | `network.c`, `main.c` | children, SIGCHLD, control connection | spawn, verify, authenticate, bootstrap, reap | `TorProcess` |
| Startup and shutdown | `main.c`, `cet_shstk.c`, `event_loop.c` | stage, what is held | every stage, its failure, signals, `cleanup` | `Lifecycle` |
| Line editor | `linenoise.c`, `stdin_handler.c` | buffer, folds, terminal mode | keys, paste, start, stop | `LineEdit` |
| Piped input | `stdin_handler.c`, `frontend.c` | growing buffer | grow, read, strip, split, discard | `PipeInput` |
| Full screen interface | `tui.c`, `fe_tui.c`, `log.c` | input line, panel, scrollback | keys, output, resize, contacts | `Tui` |
| Choice of the input path | `stdin_handler.c`, `main.c` | which of the three is on | start, dispatch, stop, clean up | `Terminal` |
| seccomp, Landlock, logging, termbox2 | | | | not modelled |

### How they interact

`main` runs through its stages (`Lifecycle`): self-test, PIN, arena (`Arena`),
salt and identity (`Keystore`), database, Tor (`TorProcess`), interface
(`Terminal`), onion service, and the loop. The loop runs timeouts, then the check
on Tor, then a drain of buffered frames, then `epoll_wait`, then the events of
the batch in order. Each handler runs to completion, so one handler is one action
in `PeerSlots`. It calls `sm_dispatch`, whose row may run a callback
(`action_cleanup`, `action_tofu_prompt`, `action_tofu_accept`), which may dispatch
again and may write the contact table. `/connect` runs the SOCKS exchange inside
its handler: `Dial` opens that handler up, because what matters there is how long
the loop stands still and what is left on the connection. A handshake in a slot
is a run of `NoiseXX`; `PeerSlots` uses its outcomes. The first text of a session
starts the flush of the offline queue, which may itself lose the peer in the
middle of the handler. A file transfer moves its slot between `ACTIVE` and
`FILE_RX`, and its chunks share the sequence numbers and nonces of the session
with typed text. Only three things run beside the thread: signal handlers, the
children, and whatever happens to the disk when the power goes.

### What makes it hard

- An answer is typed at one moment and read at another. In between the prompting
  peer may leave and its slot be taken by somebody else.
- Several prompts may be open with a single token.
- Text arrives during a prompt and has to be processed after the answer, when the
  socket has nothing more to report.
- Writes are cut short. For text this ends the connection, for file metadata it
  ends the transfer only, and a chunk waits in a buffer while text overtakes it.
- The process dies, or a statement fails, between sending a queued row and
  deleting it, or between two parts of one message; or between the salt and the
  identity, or in the middle of deleting them.
- Tor dies, or a signal comes, at any moment from the first fork to the last
  `waitpid`, and the SIGCHLD handler reaps children others wait for.
- Every stage of startup may fail with a different set of things to give back.
- Sizes wrap, counters run out, buffers fill up, folds and selections shift.

`PROJECT.json` lists these hazards at their lines, with the properties about
them.

## Modules

**StateMachine** holds the transition table as a set of rows and `sm_dispatch` as
a lookup: no row, no change.

**PeerSlots** is the node. `peers` is `app_state.peers`, a record for each slot
with the fields of `struct peer_session` that control depends on.
`tofu_prompt_epoch` and `tofu_prompt_fp` are the token, `contacts` the table,
`keys` says whether the arena and the database are still there. `line` is the
queue of the answers typed and not read yet. History variables: `line_seen` (the
prompts on the screen when the answer at its head was typed, if it was typed at a
prompt and with nothing unread before it), `approved` (pairs of an address and a key the
user ever approved), `flushed` (sessions the queue was sent to), and the field
`rs` of a slot. The remote peers are an environment that may
present any address with any key. Whether the claim verifies is an outcome:
`HandshakeError` or one of the two successes. A call that fails and is undone
completely (a refused accept, a `/connect` that does not get through) changes
nothing and is not an action.

**Dial** is how a connection comes to own a slot: `/connect` with the whole of
`socks5_connect` and `read_full`, the accept branch, and their two rate limits.
Time is relative, as the code reads the clock: `left` is the `remaining_ms` of
the call in progress, `rate[d].since` is `now - window_start`. The proxy may send
any answer in pieces of any size, followed by the peer's first byte, stop, or
close. The places where `socks5_connect` closes its socket and returns are one
action, `GiveUp`, enabled at each of their stages. `recent` (the ages of the latest
handshakes of each direction) and `spent` (how long the dial has taken) are
history.

**NoiseXX** is a set of handshake objects with the sessions they are split into
and a wire from which any party may read any message at any time, again, or
altered. Cryptography is symbolic: a chaining key is the sequence of what was
mixed into it, a ciphertext opens under exactly its key, nonce and associated
data. Every write, read and split may also fail half-way; then the object is
wiped as the code does. The network makes messages only out of those the parties
sent: it has no keys of its own to encrypt under. `sealed` and `opened` are
history.

**Transport** is one direction of one session. A frame is two pieces, so a write
can be cut and a read can end inside a frame. `enc` and `acc` are the payloads
encrypted and decrypted; their lengths are the two nonces. The receiver's loop is
modelled step by step with `pc`, because the property is about what is left in
the buffer when it goes to sleep. The receiver may begin without a session: then
its TOFU prompt is open and frames wait.

**OfflineQueue** is the queue of one recipient. Each SQL statement is an action
and may fail, each `sqlite3_step` of the SELECT is one (`cursor` counts the rows
it has returned), and `Crash` happens between any two. `BadRows` are rows whose
decryption fails (they are deleted unsent), `Malformed` rows with an impossible
nonce or payload size (they are passed over and stay). Each message is cut into
`Parts` parts.

**Outbox** is the promise to the user: rows leave in the order they came, and a
row of a message that was reported as queued leaves only after it was sent, or if
it is unreadable. `OfflineQueue!KeepsPromise` states that the queue implements
it, with `stored <- queue` and `sent` the set of rows ever written.

**Keystore** is the account on disk over many starts of the program. `disk` is
what a process sees and `may` what each file may hold after a power loss: a new
directory entry is certain only after `fsync_dir`, and file data only after
`fsync`. One action is one system call of `crypto_load_or_create_salt`,
`crypto_generate_identity`, `crypto_load_identity`, `db_init` and the loop of
`--full_cleankeys`; each may fail, `Kill` and `PowerLoss` come between any two.
A key is the pair of the PIN and the salt it is derived from. `dirsync` says
whether the file system can sync directories, because the code goes on when it
cannot. A failed stat of `identity.key` is not an exit: the start takes itself for
a first run (`StatFails`). `account`, `written`, `clean` and the field `blind` of
the locals are history.

**Arena** is the layout `guard | usable | canary | guard` with sizes that wrap at
`SIZE_MAX + 1`. A byte is zero or not (`dirty`). A caller may overrun its block
and so damage the canary, over the free bytes in between or behind them.
Restoring a mark drops the marks saved after it; this is the contract of
`fuzz/fuzz_arena.c:99`, and `arena_restore` does not enforce it.

**TorProcess** has the two children, SIGCHLD with its mask, the control socket,
which another process of the user may bind, and the control connection as
commands and reply lines. **Lifecycle** extends it with `main`: `pc` is the stage,
`held` what the process holds (locked buffers, arena and keys, database, Tor's
files, listener, seed). One action is one stage or one system call on which a
signal or Tor's death can have an effect; each failing stage is an action of its
own and leaves by the exit the code takes there. `left` is what a killed earlier
run left in the temporary directory.

**LineEdit**, **PipeInput** and **Tui** are the three ways a line comes in, and
**Terminal** composes them: one of them runs, chosen at the start as the program
does, and a line editor that cannot restart hands over to the pipe loop. The full
screen comes up or not whatever stdin is, because it opens the terminal itself.
In `LineEdit` the buffer is a sequence of code points (plain, newline, extending,
zero width joiner, regional indicator) and a fold a range of it; `unrestored` is
history and says that a `tcsetattr` that should have given the terminal back
failed. In `PipeInput` bytes are of the classes the loop tells apart. In `Tui` a
scrollback row is a heap pointer, and `highlighted` the lit rows of the screen
with what is written on them; keys repaint the panel without clearing it, so rows
of a longer list may stay below a shorter one.

`MCPeerSlots`, `MCOfflineQueue`, `MCNoise`, `MCArena` and `MCTerminal` hold the
values of constants that a configuration cannot write. The modules named
`...Proofs` hold the theorems. Definitions with a comment that begins "Mutant"
are wrong variants of the definition that follows them. They are used by no
action: replacing the definition by the variant must break the property named in
`PROJECT.json`.

## Runs

Deadlock is checked in `Keys`, `Boot`, `Dial` and `Terminal`, whose specifications
say where a stop is meant. It is not checked elsewhere: a node with no peer and no
user, a link both ends of which have closed or that has used up its frames, an
empty queue, a network of failed handshakes and an arena nobody calls may all
stay as they are for ever.

| Run | Instance | Distinct states | What it shows |
|---|---|---|---|
| `SlotsTrust` | 2 slots, 1 address, 2 keys, 2 prompts, 2 unread answers, typed ahead or not, failing database | 330 038 | `SlotsInOrder`, `OnlyApproved`, `QueueOnlyToVerified`, `YesIsForSeen` |
| `SlotsDial` | 2 slots, 2 addresses, 1 key, 1 prompt | 215 190 | `DialledIsReached`, `SlotsComeBack` |
| `LinkMixed` | 5 frames, 3 files of 2 chunks, 3 pieces of buffer, cut writes, failing allocation | 1 272 964 | `TypeOK`, `AcceptedInOrder`, `CompleteIsWhole`, `DrainedBeforeWait` |
| `LinkText` | 4 texts, cut writes | 1 247 | `TextsArrive` |
| `LinkMismatch` | 5 frames, 1 file of 1 chunk | | ends in a violation of `MismatchMeansLoss`, see below |
| `QueueFaults` | 3 messages of 2 parts, 2 rows a flush, 3 failing statements, 2 crashes, 1 undecryptable and 1 malformed row | 112 984 | `SentOnce`, `WholeOrNothing`, `KeepsPromise`, `AllSent` |
| `Noise` | 2 initiators, 1 responder, 2 users, 6 transport messages, nonce maximum 3, altered messages, failing calls | 22 280 | `NonceOnce`, `SplitIsAuthentic`, `SessionsPairUp` |
| `Arena` | 8-bit `size_t`, 32-byte pages, every initial size, 3 blocks | 670 081 | `RoomAsAsked`, `BlocksApart`, `NoKeyBytesLeft` |
| `Keys` | 2 PINs, 5 salts, 4 identities, 2 faults, 2 cleans | 1 092 864 | `AccountKept`, `KeysGone`, `ComesUp` |
| `Boot` | 2 passes of each waiting loop | 190 464 | `AllReleased`, `OwnTorAnswers`, `CetStatusKept`, `TorDeathWipes`, `ShutdownHonoured` |
| `Dial` | 2 slots, a read budget and a window of 2 ticks, 2 handshakes a window | 1 070 162 | `FdsAccounted`, `HandedOverClean`, `RateBounded`, `DialBounded` |
| `Terminal` | edit buffer of 4, 2 folds, pipe buffer of 2 to 5, scripts of 4 bytes, 1 failing allocation or read, terminals of 3 and 6 lines, 2 scrollback lines, 2 contacts and room for 1 | 634 251 | `FoldsIntact`, `NewlinesHidden`, `TerminalGivenBack`, `EachLineOnce`, `LinesOwnedOnce`, `EnterActsOnHighlighted`, `ScriptEnds` |

`SlotsTrust` counts states up to the exchange of keys and addresses, and with a
`VIEW` that leaves out what no step and no property tells apart: the epoch of a
slot without a prompt, the fingerprint of a token without an epoch, and which of
the verified sessions the queue was sent to.

What the properties say:

- `SlotsInOrder`: after every handler the socket, the handshake object and its
  message index, the session and the received file agree with the slot's state;
  an idle slot keeps nothing of its last peer; the active index names a slot in
  use; an open prompt has a token; after Tor's death no slot is in use.
- `YesIsForSeen`: a yes typed at a prompt, with no answer unread before it, never
  admits a peer whose prompt was printed after the yes was typed.
- `OnlyApproved`: the network binds no key. Every stored key and every session
  goes back to a yes of the user.
- `QueueOnlyToVerified`: queued messages go to a key that was stored before,
  never in the session in which it was approved.
- `DialledIsReached`: a dialled session is with the address dialled.
- `SlotsComeBack`: silent peers and an absent user do not keep a slot.
- `AcceptedInOrder`: what is decrypted is a prefix of what was encrypted.
- `CompleteIsWhole`: a received file that reaches its size is one file, whole.
- `DrainedBeforeWait`, `TextsArrive`: frames that arrived during a prompt are not
  forgotten.
- `WholeOrNothing`, `KeepsPromise`, `SentOnce`, `AllSent`: the queue loses nothing
  it accepted, sends rows for the first time in order and messages whole, repeats
  a row only after a failing deletion or a crash, and sends everything readable in
  the end.
- `NonceOnce`: no key is used twice with one nonce, also where the counter ends,
  and a session opens each ciphertext once and in order.
- `SplitIsAuthentic`, `SessionsPairUp`: a finished handshake is with the holder of
  the static key it reports, as far as messages of the parties' own can be kept,
  repeated, crossed and altered, and two sessions fit together in both directions
  or in none.
- `RoomAsAsked`, `BlocksApart`, `NoKeyBytesLeft`: no size wraps, blocks do not
  overlap, and bytes that may be key bytes are only in blocks in use.
- `AccountKept`, `KeysGone`, `ComesUp`: a stored identity, its salt and the key of
  the database rows stay what they were through kills, wrong PINs, power losses and
  every failing call but the stat of `identity.key`; a clean in which nothing
  failed is final; the user who keeps trying gets in, as long as the account is
  there.
- `AllReleased`: every way out gives back the terminal, the keys, the files and
  the children, and keys are dropped as soon as they are not needed. That a call
  which gives something back may itself fail is not part of it.
- `OwnTorAnswers`: commands go only to the Tor this process forked, and replies
  are read as answers to their own commands.
- `CetStatusKept`: the SIGCHLD handler does not take the self-test's child away
  from it.
- `TorDeathWipes`, `ShutdownHonoured`: Tor's death is noticed and wipes the keys;
  a signal ends the process.
- `FdsAccounted`, `HandedOverClean`, `DialBounded`, `RateBounded`: a dial leaks no
  descriptor, leaves no byte of the proxy's answer for the handshake and takes no
  byte of the peer's, holds the loop for at most four read budgets, and no window
  of 60 s sees more than twice the limit.
- `FoldsIntact`, `NewlinesHidden`: folds follow the text around them and hide
  every pasted newline; the second as long as no code point that joins its
  neighbours into one character (extending, joiner, regional indicator) entered
  the line.
- `TerminalGivenBack`: unless a `tcsetattr` that restores the mode failed, a
  terminal linenoise counts as given back is not raw, and at the exit the user has
  the mode they started with.
- `EachLineOnce`, `ScriptEnds`: of a script whose lines fit, every line is taken
  once and in order; taken is run, or skipped when its copy cannot be allocated.
  A script the pipe loop reads is read to its end.
- `LinesOwnedOnce`, `EnterActsOnHighlighted`: indices stay in their arrays and a
  scrollback string has one owner; of the contact list as last painted only the
  row Enter takes is lit, and it is lit if the panel has room for it.

### Where the code and its comments differ

`LinkMismatch` checks `MismatchMeansLoss` with a file on the link. A chunk takes
its sequence number when it is buffered, text takes the same one before the chunk
is written, and the receiver reports "Replay Attack veya paket kaybı"
(`event_loop.c:473`) on a link that lost nothing.

Met while modelling, kept in the models as the code has it, and outside what the
properties claim:

- A second peer that completes its session becomes the address `/status` shows;
  typed messages still go to the first (`event_loop.c:347`).
- A yes typed when no prompt was open and read after one was printed answers it
  (`stdin_handler.c:379`). So does the second of two answers typed at one prompt:
  the first closes that prompt, and the next one arms the token; or the first
  re-arms it (`stdin_handler.c:386`). The comment at line 375 says the user decides
  only with the current fingerprint on the screen. `YesIsForSeen` is about answers
  typed at a prompt and behind no other.
- `/add` writes the zero key over a stored one, so a later key change is shown as
  a first contact (`stdin_handler.c:503`).
- A peer whose receive buffer was full is dropped although processing has emptied
  it; the comment says "still full" (`event_loop.c:999`).
- When an insertion and its rollback both fail, half a message is sent
  (`stdin_handler.c:328`).
- The fixed window admits twice its limit across a boundary (`event_loop.c:901`).
- `types.h:271` says the onion seed lives until cleanup; the health check wipes it
  when Tor dies (`event_loop.c:818`).
- A second signal during the blocking `waitpid` of the shutdown leaves a killed
  Tor unreaped (`network.c:863`).
- `main.c:390` names the cases of a first run: no `identity.key`. Any failure of
  the `fstatat` is taken for one too (`main.c:401`), and if a PIN is then typed
  twice a new identity replaces the stored one. `AccountKept` and `ComesUp` count
  that as the end of the account.
- An interrupted `--full_cleankeys` may leave a salt of zeros, which the next
  first run accepts, or a database of zeros, which `db_init` refuses for ever;
  `ComesUp` excludes the second. A clean whose overwrite failed or was short
  unlinks the file all the same, and a power loss can bring its data back. The
  rename of a new file is not safe against power loss where directories cannot be
  synced.
- A combining mark or a joiner next to a fold, or a regional indicator before one
  that begins with another, forms one character with what is under the fold;
  deleting it can uncover a newline, which `linenoise.c:1551` says is never printed
  directly.
- `disableRawMode` counts the terminal as given back when its `tcsetattr` failed
  (`linenoise.c:670`); the loop that reads stdin instead then meets raw input.
- The tail of an overlong piped line runs as a line of its own, the final byte of
  an escape sequence may swallow a newline, and lines behind `/quit` in the same
  read still run.
- With the full screen up and stdin a pipe, nothing reads the pipe, and the
  level-triggered epoll reports it on every iteration (`stdin_handler.c:745`).
  `ScriptEnds` is about scripts the pipe loop reads.
- A read of stdin that fails for good is tried again on every iteration
  (`stdin_handler.c:875`); the model bounds failures by `MaxFailures`.
- Contact rows below the panel's edge, and a selection behind a list that has
  become shorter, can be acted on but are not shown; a lit row of a longer list
  may stay on the screen below a shorter one, because keys do not clear it.

## Bounds

- `NOX_MAX_PEERS = 2`: slots interact through the active index, the token and the
  first-free scan; two are enough for one to leave while another prompts, and for
  a slot to be used again. The proofs hold for any number.
- `MaxEpoch` bounds the prompts. Two give an older prompt with the token and a
  newer one without, and a re-arm. `MaxTyped = 2` lets one answer wait behind
  another. One prompt and one answer are enough where the prompt itself is not the
  subject (`SlotsDial`).
- Two keys for one address make a key change; two addresses make a wrong answer
  to a dial.
- `MaxFrames = 5`, `MaxFiles = 3`, `Chunks = 2`: one file given up, a second
  whole one, with text in between. `RECV_BUF_CAPACITY = 3` is a frame and a half,
  so reads end inside a frame and the buffer fills up.
- `QUEUE_BATCH_LIMIT = 2` with six rows makes several flushes necessary. Three
  errors let an insertion, its rollback and a deletion fail. Errors and crashes
  are bounded, sessions that break off are not.
- `NonceMax = 3` is reached by the three messages of a handshake and by the
  transport messages after it. Two initiators, one of which shares the
  responder's static key, make messages of one handshake arrive in another and a
  key talk to itself.
- `Arena` has a `size_t` of 8 bits, so that every size below the wrapping point
  and at it occurs; `MAX_WIPE` lies inside the largest arena.
- `MaxFaults = 2` in `Keystore` lets a fault hit the recovery from a fault;
  `MaxCleans = 2` a clean that follows a failed one. Salts and identities are as
  many as the starts can draw.
- `MaxTries = 2`: a waiting loop that succeeds at once, later, or never.
- The clock of `Dial` has ticks of half a window and half a budget; addresses of
  the proxy's answer are one and two bytes and a name of at most one.
- The buffers of `Terminal` are as small as they can be and still grow, clamp,
  fill and overflow. `STDIN_BUF_MAX = 5` is no doubling of `STDIN_BUF_INIT`, so
  the clamp of the growth is used. `Heights` are a panel of one row and one with
  room for everything. Two contacts share a list with room for one, so the limit
  is met, the row changes its owner under the selection, and the selection stays
  behind when the list becomes empty; longer lists are left to the theorem.

## Fairness

- `PeerSlots`: weak fairness of the handshake and TOFU timeouts of each slot. The
  loop tests both on every iteration, at least every two seconds, and nothing
  moves `handshake_start` or `tofu_start` while the slot stays in its state.
- `Transport`: weak fairness of the receiver's loop, and strong fairness of the
  expiry of an open prompt, which is enabled only at the top of the loop. The
  sender need not send anything.
- `OfflineQueue`: weak fairness of the steps of a handler that has begun, weak
  fairness of a flush (the recipient keeps coming back), strong fairness of
  getting past the row at the head (sessions do not for ever break off before a
  single row). The last two are assumptions about the peer and the network.
- `Keystore`: the user starts the program again and again, a started program goes
  on, and again and again the PIN typed is the right one (strong fairness).
- `Lifecycle`: the main thread runs, a pending signal is delivered, a child sent
  SIGKILL dies and the self-test's child ends. Tor need not answer, exit on
  SIGTERM or stay alive, and the user need not type `/quit`.
- `Terminal`: the program starts, and the pipe loop runs while stdin is readable
  (epoll is level-triggered).

## Proofs

TLAPS checks the following for every value of the constants that satisfies the
named assumptions. The theorems that state a property of a run are in brackets
behind it. Where a property is not inductive, the module strengthens it; the
strengthening is named here, with the reason for it.

- `PeerSlotsProofs`, first the table of `StateMachine`: it is deterministic
  (`TableIsDeterministic`). Then the slots: `TypeCorrect`, `SlotsInOrder`
  (`SlotsAlwaysInOrder`), `OnlyApproved` (`ApprovedOnly`),
  `QueueOnlyToVerified` (`QueueVerified`), `DialledIsReached` (`DialledReached`),
  and the action property `YesIsForSeen` (`YesForSeen`). `IInv` adds that a slot in
  a handshake has no TOFU data and is not verified, that a pending slot holds the
  address and key its session will have and agrees with the address dialled, that
  a verified session did not come from a prompt, and that a first unread answer that
  was typed at a prompt was typed when the armed one was on the screen; what is
  queued behind it is arbitrary. There is
  one lemma for each kind of step; cleanups share one. Assumptions:
  `PeersAssumption`, `EpochAssumption`, `SwitchAssumption`, `AbsentAssumption`
  (absent values are not real ones).
- `DialProofs`: `DialBounded` (`DialIsBounded`), `FdsAccounted`
  (`DescriptorsAccounted`), `HandedOverClean` (`HandedOver`), `RateBounded`
  (`RatesBounded`), for any number of slots, any budget, window and limit, and any
  address lengths. `Budget` says that the time spent and the time left to the
  current `read_full` together stay within the budgets of the calls begun.
  `Bytes` says for each stage which part of the proxy's answer has been read and
  which is still to come, so that the last read ends where the answer ends.
  `Rates` says where the window's counter stands among the latest handshakes: as
  many as it counts are younger than the window, and before them at most one full
  window of others is young. Assumption: `DialAssumption`.
- `NoiseXXProofs`: `NonceOnce` (`NoncesOnce`), `SplitIsAuthentic`
  (`SplitsAuthentic`), `SessionsPairUp` (`SessionsFit`), for any number of
  handshakes on either side, any assignment of users to them and any end of the
  counters. Keys are symbolic, so this is a proof about the use of the primitives
  and not about them. `IInv` says what each side knows after each message: the
  chaining key it has names its own ephemeral key, and nobody can have received
  that before it was sent; whoever decrypted a claim holds a record that its
  partner sealed it under this very key; and no two sealed records share key and
  nonce (`Unique`). Assumption: `NoiseAssumption`.
- `TransportProofs`: `TypeOK` (`LinkTypes`), `AcceptedInOrder` (`LinkInOrder`),
  `DrainedBeforeWait` (`LinkDrained`), `CompleteIsWhole` (`LinkWhole`). `IInv` adds
  `Genuine`: every piece in the transmit buffer, on the stream and in the receive
  buffer carries a nonce that was consumed and the payload encrypted with it. A
  frame that passes `Decrypts` has the nonce that is due, so it extends the
  prefix. For whole files `FileInv` follows the order of a file's frames: a chunk
  is encrypted right after its predecessor but for text, and the file being
  received is the beginning of one file whose next chunk is the next due.
  Assumption: `BoundsAssumption`.
- `OfflineQueueProofs`: `SentOnce` (`RowsSentOnce`), `WholeOrNothing`
  (`MessagesWhole`), and that the queue implements `Outbox`
  (`QueueKeepsPromise`). `IInv` says that the table is sorted by message and part,
  that a batch is a sorted selection of it, and that whatever is older than a row
  of the batch is in the batch, was sent, or is unreadable; so the row at the head
  may go. Assumption: `QueueAssumption`.
- `KeyMaterialProofs`, first the arena: `RoomAsAsked` (`ArenaHasRoom`),
  `BlocksApart` (`ArenaBlocksApart`), `NoKeyBytesLeft` (`ArenaNoKeyBytesLeft`), for
  every page size, canary length and `SIZE_MAX`. The lemmas about `AlignUp` and
  `page_align` show that the guards of `arena_init` and `arena_alloc` keep every
  sum below `SIZE_MAX`, so `SizeT` is the identity where it is used. `ArenaInv`
  adds `Layout` (blocks lie in order below the offset, and every saved mark
  separates the blocks before it from those after) and `Unmapped` (no blocks
  without memory). Then the keystore: `AccountKept` (`KeystoreAccountKept`) and
  `KeysGone` (`KeystoreKeysGone`), for any number of PINs, salts, faults and
  cleans. `IInv` says what each stage may assume of the disk: a temporary file
  that is renamed was synced (`DataStored`), the key in memory is the one of the
  account, a start after the account was stored is not a first run unless its stat
  failed (`Account`),
  and how far an undisturbed clean has come (`Gone`). Assumptions:
  `ArenaAssumption`, `KeystoreAssumption`.
- `LifecycleProofs`: `CetStatusKept` (`CetStatus`), `AllReleased` (`Released`),
  `OwnTorAnswers` (`TorAnswersUs`), for any number of passes of the waiting loops.
  `IInv` says, for each stage of `main`, whether the self-test's child can be
  there (`CetInv`), how the terminal stands to the saved mode (`TermInv`), what the
  process may hold (`HeldInv`), how far Tor is and that its PID is forgotten only
  when it is done (`TorInv`), and what may be on the control connection
  (`ConnInv`). Assumption: `TriesAssumption`.
- `TerminalProofs`: `TerminalGivenBack` (`TerminalReturned`), `LinesOwnedOnce`
  (`LinesHaveOneOwner`), `EnterActsOnHighlighted` (`EnterActs`), for a scrollback,
  an input buffer, a contact list and a screen of any size. `TInv` is `Modes` (what
  linenoise saved is never the raw mode it set itself, an editor at work is in raw
  mode, and the terminal is as the flag says unless a restoring call failed),
  `Tidy` (scrollback rows past the count are NULL, the others are distinct and are
  what the heap holds; the cursor, the selection and the offset are in their
  arrays) and `Highlight` (of
  the painted list only what Enter takes is lit, or the list has no focus).
  Appending a message is a loop over its rows, so `Tidy` is carried through each
  turn. Assumption: `TuiAssumption`.

The provers take no induction principle with an operator parameter. Where a proof
needs induction over numbers, it is done with sets: a nonempty set of numbers has
a least element (`Least` in `TerminalProofs`, from the library's `WFMin`).

Model-checked only:

- The liveness properties `SlotsComeBack`, `TextsArrive`, `AllSent`, `ComesUp`,
  `TorDeathWipes`, `ShutdownHonoured` and `ScriptEnds`: fairness and ENABLED are
  out of the prover's reach.
- `EachLineOnce`: it compares the lines run with the lines of the whole script,
  and the provers know no facts about `SelectSeq` over a concatenation.
- `FoldsIntact` and `NewlinesHidden`: the folds are adjusted with `SelectSeq`, with
  the same consequence. With recursive functions in its place an induction over
  the folds, key by key, goes through for `LineEdit` alone, but together with
  `Terminal` it takes the prover longer than all the other proofs.

## Not modelled

- Cryptographic primitives are symbolic or outcomes; the onion address codec and
  its signatures are outcomes of the claim in a handshake.
- Byte layouts, drawing, wrapping, colours, `fe_ansi.c`, log formatting, the text
  of torrc.
- seccomp and Landlock: filters installed once, which no later step reads.
- `termbox2.h`: cell drawing and terminfo parsing, a third-party header larger
  than the rest of the interface together. Of `linenoise.c` the history,
  completion and hints, which the program does not use, and the refresh.
- The message archive of `database.c` (from line 826): no code calls it.
- The width of the frame sequence numbers does not show at these bounds. File
  names, sizes, hashes and disk space are outcomes.
- The order between a queued message and one sent directly by `/msg` to the same
  peer: nothing promises it.
- Two instances of the program on one directory; the PID space (a reused PID
  makes an old Tor directory look in use and stay); SIGKILL in `Lifecycle`, of
  which nothing can be promised (`Keystore` has it for the disk).
- Two nodes as one state space: `PeerSlots` meets its peers as an environment that
  may do more than a second node could, and `NoiseXX` and `Transport` are the
  two-ended models.
