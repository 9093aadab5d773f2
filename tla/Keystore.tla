------------------------------ MODULE Keystore ------------------------------
(***************************************************************************)
(* The account on disk: the salt, the sealed identity and the database that *)
(* --full_cleankeys deletes, and the starts of the program that create or   *)
(* open them.  A start may be killed, a call may fail and the power may go   *)
(* between any two steps.  A key is the pair of the PIN and the salt it is   *)
(* derived from: every subkey is a function of it.                           *)
(*                                                                          *)
(* disk is what a process sees; may[f] is what f may hold after a power      *)
(* loss: a change of a directory entry is certain only once the directory    *)
(* has been synced, and entries reach the disk in any order.                 *)
(***************************************************************************)
EXTENDS Naturals, Sequences, FiniteSets

CONSTANTS
  Pins,        \* PINs the user may type
  ShortPin,    \* a line that validate_pin refuses
  Salts,       \* random salts
  Ids,         \* identity key pairs
  None,        \* no file; no account
  Zeros,       \* a file overwritten by zeros
  Torn,        \* a file whose data had not reached the disk
  MaxFaults,   \* bound on failed calls, kills and power losses
  MaxCleans    \* bound on the runs of --full_cleankeys

ASSUME KeystoreAssumption ==
  /\ ShortPin \notin Pins
  /\ {None, Zeros, Torn} \cap (Salts \cup (Ids \X Pins \X (Salts \cup {Zeros}))) = {}
  /\ Zeros # None /\ Torn # None /\ Zeros # Torn
  /\ MaxFaults \in Nat /\ MaxCleans \in Nat

\* A salt file of zeros has the right size and is used as it is.
SaltValues == Salts \cup {Zeros}
MasterKeys == Pins \X SaltValues
Identities == Ids \X Pins \X SaltValues
KeyOf(identity) == <<identity[2], identity[3]>>
SaltOf(identity) == identity[3]

\* The files, in the order --full_cleankeys deletes them; onion.key, which no
\* start writes, would come last.
FileOrder == <<"identity.key", "salt", "contacts.db">>
Files == {"identity.key", "salt", "contacts.db"}

VARIABLES
  disk,     \* what a process sees of each file; a database is its rows' keys
  may,      \* what each file may hold after a power loss
  dirsync,  \* does the file system support fsync on a directory?
  pc,       \* where the running process is
  m,        \* the locals of main: first_run, ghost, the PIN, the salt, an identity;
            \* blind: the stat of an identity.key that is there has failed
  del,      \* --full_cleankeys: index of the file it is at
  account,  \* history: the identity crypto_generate_identity reported as stored
  written,  \* history: keys of the rows written since then
  clean,    \* history: what --full_cleankeys has done to the keys on disk
  faults,   \* failed calls, kills and power losses so far
  cleans    \* runs of --full_cleankeys so far

vars == <<disk, may, dirsync, pc, m, del, account, written, clean, faults, cleans>>
files == <<disk, may>>
history == <<account, written, clean, cleans>>

\* stored: there is a temporary file and its data is on the disk.
NoLocals ==
  [first_run |-> FALSE, blind |-> FALSE, ghost |-> FALSE, pin |-> ShortPin, salt |-> None,
   id |-> None, stored |-> FALSE]

Init ==
  /\ disk = [f \in Files |-> None]
  /\ may = [f \in Files |-> {None}]
  /\ dirsync \in BOOLEAN
  /\ pc = "off" /\ m = NoLocals /\ del = 1
  /\ account = None /\ written = {} /\ clean = "no"
  /\ faults = 0 /\ cleans = 0

-----------------------------------------------------------------------------
\* The file system.

\* f now reads as c; the old contents may come back after a power loss, and
\* data that was not synced may be missing.
Put(f, c, stored) ==
  /\ disk' = [disk EXCEPT ![f] = c]
  /\ may' = [may EXCEPT ![f] = @ \cup {c} \cup (IF stored THEN {} ELSE {Torn})]

\* A key file is written or a clean is cut: the keys are not known to be gone.
Reset(c) == IF c = "failed" THEN c ELSE "no"

\* A call fails.
Fault == faults < MaxFaults /\ faults' = faults + 1

\* main returns: the locals are gone.
Exit ==
  /\ pc' = "off" /\ m' = NoLocals
  /\ UNCHANGED <<dirsync, del, history>>

Fails(at) == pc = at /\ Fault /\ Exit /\ UNCHANGED files

Goto(from, to) ==
  /\ pc = from /\ pc' = to
  /\ UNCHANGED <<dirsync, del, faults>>

\* Mutant: the directory is not synced.
fsync_dir_skipped == UNCHANGED may

\* fsync on the directory: every entry is as the process sees it.  A file
\* system without it answers EINVAL, which is only logged.
fsync_dir ==
  IF dirsync
  THEN may' = [f \in Files |-> {disk[f]} \cup (may[f] \cap {Torn})]
  ELSE UNCHANGED may

\* fsync on the temporary file.
fsync_exact(from, to) ==
  /\ Goto(from, to)
  /\ m' = [m EXCEPT !.stored = TRUE]
  /\ UNCHANGED <<files, history>>

-----------------------------------------------------------------------------
\* A start of the program.

Start ==
  /\ Goto("off", "config")
  /\ UNCHANGED <<files, m, history>>

\* The first run is the one that finds no identity.key.
ensure_config_dir ==
  /\ Goto("config", "pin")
  /\ m' = [m EXCEPT !.first_run = disk["identity.key"] = None]
  /\ UNCHANGED <<files, history>>

\* Any other failure of the stat is taken for a first run as well.
StatFails ==
  /\ pc = "config" /\ Fault
  /\ pc' = "pin"
  /\ m' = [m EXCEPT !.first_run = TRUE, !.blind = disk["identity.key"] # None]
  /\ UNCHANGED <<files, dirsync, del, history>>

ValidPin(pin) == pin # ShortPin

\* The PIN, typed twice on a first run; no PIN, a refused one or two that
\* differ end the program.
read_pin(pin, again) ==
  /\ pc = "pin"
  /\ UNCHANGED <<files, history, dirsync, del, faults>>
  /\ IF ValidPin(pin) /\ (m.first_run => again = pin)
     THEN pc' = "salt" /\ m' = [m EXCEPT !.pin = pin]
     ELSE pc' = "off" /\ m' = NoLocals

\* A salt file of the right size is used and never replaced.
crypto_load_salt ==
  /\ pc = "salt" /\ disk["salt"] # None
  /\ UNCHANGED <<files, history, dirsync, del, faults>>
  /\ IF disk["salt"] \in SaltValues
     THEN pc' = "derive" /\ m' = [m EXCEPT !.salt = disk["salt"]]
     ELSE pc' = "off" /\ m' = NoLocals

\* A random value is one that is in use nowhere; which one makes no difference.
AnyOf(S) == CHOOSE x \in S : TRUE
UsedIds == {i[1] : i \in may["identity.key"] \cap Identities}
UsedSalts ==
  may["salt"]
    \cup {SaltOf(i) : i \in may["identity.key"] \cap Identities}
    \cup {key[2] : key \in written \cup UNION (may["contacts.db"] \ {None, Zeros})}

\* No salt file: a random one is written to a temporary file.
crypto_create_salt ==
  /\ Goto("salt", "salt_fsync")
  /\ disk["salt"] = None
  /\ Salts \ UsedSalts # {}
  /\ m' = [m EXCEPT !.salt = AnyOf(Salts \ UsedSalts), !.stored = FALSE]
  /\ UNCHANGED <<files, history>>

salt_fsync == fsync_exact("salt_fsync", "salt_rename")

salt_rename ==
  /\ Goto("salt_rename", "salt_dirsync")
  /\ Put("salt", m.salt, m.stored)
  /\ m' = [m EXCEPT !.stored = FALSE]
  /\ clean' = Reset(clean)
  /\ UNCHANGED <<account, written, cleans>>

salt_dirsync ==
  /\ Goto("salt_dirsync", "derive")
  /\ fsync_dir
  /\ UNCHANGED <<disk, m, history>>

\* The master key and its subkeys: a function of the PIN and the salt.
crypto_derive_master_key(pin, salt) == <<pin, salt>>
Key == crypto_derive_master_key(m.pin, m.salt)

crypto_derive_subkeys ==
  /\ Goto("derive", IF m.first_run THEN "generate" ELSE "load")
  /\ UNCHANGED <<files, m, history>>

\* A new key pair, sealed under the unlock key, in a temporary file.
crypto_generate_identity ==
  /\ Goto("generate", "id_fsync")
  /\ Ids \ UsedIds # {}
  /\ m' = [m EXCEPT !.id = <<AnyOf(Ids \ UsedIds), m.pin, m.salt>>, !.stored = FALSE]
  /\ UNCHANGED <<files, history>>

id_fsync == fsync_exact("id_fsync", "id_rename")

\* A blind start renames the new identity over the stored one: that account is
\* gone.
id_rename ==
  /\ Goto("id_rename", "id_dirsync")
  /\ Put("identity.key", m.id, m.stored)
  /\ m' = [m EXCEPT !.stored = FALSE, !.blind = FALSE]
  /\ account' = IF m.blind THEN None ELSE account
  /\ clean' = Reset(clean)
  /\ UNCHANGED <<written, cleans>>

\* The identity is reported as stored.
id_dirsync ==
  /\ Goto("id_dirsync", "load")
  /\ fsync_dir
  /\ account' = m.id /\ written' = {}
  /\ UNCHANGED <<disk, m, clean, cleans>>

\* The box opens under the key it was sealed with.
Opens(identity, key) == identity \in Identities /\ KeyOf(identity) = key

\* A file of another size, zeros or another PIN: main reports it and returns.
crypto_load_identity ==
  /\ pc = "load"
  /\ UNCHANGED <<files, history, dirsync, del, faults>>
  /\ IF Opens(disk["identity.key"], Key)
     THEN pc' = "database" /\ m' = [m EXCEPT !.id = disk["identity.key"]]
     ELSE pc' = "off" /\ m' = NoLocals

Rows(c) == IF c = None THEN {} ELSE c

\* Mutant: db_init refuses a database that exists.
db_init_exclusive(ghost) ==
  /\ pc = "database"
  /\ UNCHANGED <<history, dirsync, del, faults>>
  /\ IF ghost
     THEN pc' = "running" /\ m' = [m EXCEPT !.ghost = TRUE] /\ UNCHANGED files
     ELSE IF disk["contacts.db"] # None
          THEN pc' = "off" /\ m' = NoLocals /\ UNCHANGED files
          ELSE pc' = "running" /\ Put("contacts.db", {}, TRUE) /\ UNCHANGED m

\* A ghost session opens no database; a file of zeros is not a database.  What a
\* start did before depends on --ghost nowhere, so the choice is made here.
db_init(ghost) ==
  /\ pc = "database"
  /\ UNCHANGED <<history, dirsync, del, faults>>
  /\ IF ghost
     THEN pc' = "running" /\ m' = [m EXCEPT !.ghost = TRUE] /\ UNCHANGED files
     ELSE IF disk["contacts.db"] = Zeros
          THEN pc' = "off" /\ m' = NoLocals /\ UNCHANGED files
          ELSE pc' = "running" /\ Put("contacts.db", Rows(disk["contacts.db"]), TRUE)
               /\ UNCHANGED m

\* A contact, a message or a queued part: a row sealed under db_key.
WriteRow ==
  /\ pc = "running" /\ ~m.ghost
  /\ Put("contacts.db", Rows(disk["contacts.db"]) \cup {Key}, TRUE)
  /\ written' = written \cup {Key}
  /\ UNCHANGED <<dirsync, pc, m, del, account, clean, faults, cleans>>

Stop == pc = "running" /\ Exit /\ UNCHANGED <<files, faults>>

-----------------------------------------------------------------------------
\* --full_cleankeys: identity, salt and database, each overwritten with zeros,
\* synced and unlinked.  A failed call is passed over.

full_cleankeys ==
  /\ pc = "off" /\ cleans < MaxCleans
  /\ pc' = "overwrite" /\ del' = 1
  /\ account' = None
  /\ clean' = IF clean = "failed" THEN clean ELSE "ok"
  /\ cleans' = cleans + 1
  /\ UNCHANGED <<files, dirsync, m, written, faults>>

AtFile == FileOrder[del]

\* The next file, or the end; rmdir fails, the downloads are still there.
Next_file ==
  IF del < Len(FileOrder)
  THEN pc' = "overwrite" /\ del' = del + 1 /\ UNCHANGED clean
  ELSE pc' = "off" /\ del' = 1 /\ clean' = IF clean = "ok" THEN "done" ELSE clean

CleanStep(from, to) ==
  /\ pc = from /\ pc' = to
  /\ UNCHANGED <<dirsync, m, del, account, written, cleans>>

\* A write fails, or is short: the rest of the chunk is counted as written; or
\* the sync fails.
CleanFails(from, to) ==
  /\ CleanStep(from, to)
  /\ Fault
  /\ clean' = "failed"
  /\ UNCHANGED files

SkipAbsent ==
  /\ pc = "overwrite" /\ disk[AtFile] = None
  /\ Next_file
  /\ UNCHANGED <<files, dirsync, m, account, written, faults, cleans>>

\* Mutant: files are unlinked without being overwritten.
Overwrite_skipped ==
  /\ disk[AtFile] # None
  /\ CleanStep("overwrite", "sync")
  /\ UNCHANGED <<files, clean, faults>>

Overwrite ==
  /\ disk[AtFile] # None
  /\ CleanStep("overwrite", "sync")
  /\ Put(AtFile, Zeros, TRUE)
  /\ UNCHANGED <<clean, faults>>

\* The zeros are on the disk.  The database's rows may also be in its
\* write-ahead log, which is unlinked without being overwritten.
Sync ==
  /\ CleanStep("sync", "unlink")
  /\ may' = [may EXCEPT ![AtFile] = IF AtFile = "contacts.db" THEN @ ELSE {disk[AtFile]}]
  /\ UNCHANGED <<disk, clean, faults>>

Unlink ==
  /\ pc = "unlink"
  /\ Put(AtFile, None, TRUE)
  /\ Next_file
  /\ UNCHANGED <<dirsync, m, account, written, faults, cleans>>

\* The stat of a file fails, or its unlink.
PassOver ==
  /\ pc \in {"overwrite", "unlink"} /\ Fault
  /\ IF del < Len(FileOrder)
     THEN pc' = "overwrite" /\ del' = del + 1
     ELSE pc' = "off" /\ del' = 1
  /\ clean' = "failed"
  /\ UNCHANGED <<files, dirsync, m, account, written, cleans>>

CleanKeys ==
  \/ full_cleankeys \/ SkipAbsent \/ Overwrite \/ Sync \/ Unlink
  \/ CleanFails("overwrite", "sync") \/ CleanFails("sync", "unlink") \/ PassOver

-----------------------------------------------------------------------------

StartSteps ==
  {"config", "pin", "salt", "salt_fsync", "salt_rename", "salt_dirsync", "derive",
   "generate", "id_fsync", "id_rename", "id_dirsync", "load", "database"}

\* A call of the start fails: temporary files are removed, a rename that was
\* done stays, and main returns.
StepFails == \E at \in StartSteps : Fails(at)

\* The process is killed.
Kill ==
  /\ pc # "off" /\ Fault
  /\ pc' = "off" /\ m' = NoLocals /\ del' = 1
  /\ clean' = IF clean = "ok" THEN "no" ELSE clean
  /\ UNCHANGED <<files, dirsync, account, written, cleans>>

\* The power goes: each file comes back with one of the contents it may have.
PowerLoss ==
  /\ Fault
  /\ \E i \in may["identity.key"], s \in may["salt"], d \in may["contacts.db"] :
       disk' = [f \in Files |-> CASE f = "identity.key" -> i
                                  [] f = "salt" -> s
                                  [] f = "contacts.db" -> d]
  /\ may' = [f \in Files |-> {disk'[f]}]
  /\ pc' = "off" /\ m' = NoLocals /\ del' = 1
  /\ clean' = IF clean = "done" THEN clean ELSE "no"
  /\ UNCHANGED <<dirsync, account, written, cleans>>

Step ==
  \/ ensure_config_dir
  \/ crypto_load_salt \/ crypto_create_salt \/ salt_fsync \/ salt_rename \/ salt_dirsync
  \/ crypto_derive_subkeys
  \/ crypto_generate_identity \/ id_fsync \/ id_rename \/ id_dirsync
  \/ crypto_load_identity \/ \E ghost \in BOOLEAN : db_init(ghost)

ReadPin == \E pin, again \in Pins \cup {ShortPin} : read_pin(pin, again)

Next ==
  \/ Start \/ Step \/ ReadPin \/ WriteRow \/ Stop
  \/ CleanKeys \/ StatFails \/ StepFails \/ Kill \/ PowerLoss

Spec == Init /\ [][Next]_vars

\* The user keeps starting the program and typing the account's PIN, and a
\* started program runs on.
RightPin == account # None /\ read_pin(account[2], account[2])
FairSpec ==
  /\ Spec
  /\ WF_vars(Start) /\ WF_vars(Step) /\ SF_vars(RightPin)
  /\ WF_vars(Overwrite \/ Sync \/ Unlink \/ SkipAbsent)

-----------------------------------------------------------------------------

\* Once crypto_generate_identity has reported an identity as stored, no kill,
\* wrong PIN, power loss or failed call but one changes identity.key or the salt
\* it was sealed under, until --full_cleankeys, and every row written since then
\* is under the one key that opens the account: a start with another PIN never
\* reaches the database.  The one call is the stat of identity.key in
\* ensure_config_dir: the start in which it fails, if it gets a PIN twice, makes
\* a new account in place of this one.  On a file system that syncs directories.
AccountKept ==
  (dirsync /\ account # None) =>
    /\ may["identity.key"] = {account} /\ disk["identity.key"] = account
    /\ may["salt"] = {SaltOf(account)} /\ disk["salt"] = SaltOf(account)
    /\ written \subseteq {KeyOf(account)}

\* After a --full_cleankeys in which no call failed, not even a power loss
\* brings the identity or the salt back; provided that no earlier one since the
\* last boot unlinked a file it had failed to overwrite.
KeysGone ==
  clean = "done" =>
    \A f \in {"identity.key", "salt"} : may[f] \cup {disk[f]} \subseteq {None, Zeros}

\* The account of a user who keeps starting the program and typing their PIN
\* comes up again, whatever earlier starts were cut; unless --full_cleankeys or
\* a start whose stat failed has ended the account, or an interrupted
\* --full_cleankeys left a database of zeros, which db_init refuses.
ComesUp ==
  (dirsync /\ account # None /\ Zeros \notin may["contacts.db"])
    ~> (pc = "running" \/ account = None)
=============================================================================
