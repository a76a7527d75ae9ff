# A TLA+ model of daemon-hound

`dhd` keeps files of several machines in one encrypted git repository, the
vault. This directory holds TLA+ modules that model how it does so, TLC
configurations that check them on small instances, and proofs, checked by TLAPS,
of what holds for every instance.

    tlc -workers 2 -config MCVaultSync.cfg MCVaultSync      # a run: see "Runs"
    tlapm VaultSync_proofs.tla                              # a proof: see "Proofs"

## The system

| Component | State | Operations | Meets the others through |
|---|---|---|---|
| Sync engine, `internal/sync` | none of its own; a loop's place in a loaded state | `Sync` = pre-flight, `Push`, `Pull`, `resolveConflicts`, last push | tracker, storage, git driver, merge registry, conflict store, config |
| Tracker, `internal/tracker` | the user's files | `Track`, `Status`, `Restore` | storage; config (bindings) |
| Storage, `internal/storage` | vault directory: `state.toml.age`, one `.age` blob per file, one file per secret | `LoadState`, `SaveState`, `StoreFile`, `RetrieveFile`, `RemoveFile`, secret files, migration | files that git commits |
| Git driver, `internal/git` | the clone: HEAD, merge in progress, remote | `Pull`, `Push`, `CommitAll`, `HasConflicts`, `ResolveConflictsRemote`, ... | the remote, shared by all machines |
| Merge drivers, `internal/merge`, `dhd merge` | none | three-way merges of state, env, JSON, CSV and text files (and of secret files, never chosen) | called by git during a pull, or by the sync engine after one |
| Commands, `internal/cmd` | none | `sync`, `track`, `untrack`, `secret ...`, `discover`, `conflicts ...`, `daemon ...` | everything above, under the process lock |
| Process lock, `internal/lock` | `sync.lock`, the PID of its holder | `Acquire`, `Release` | the process table |
| Configuration, `internal/config` | `config.toml`: machine id, identity salt, bindings, ignored files, `PendingPush` | `Load`, `Save`, setters, `Init` | read and written whole by tracker, sync engine, commands, daemon, login page |
| Identity, `internal/utils`, `internal/keychain`, `dhd init`, `rekey`, `logout` | `identity.age`, the keychain's password | make, open, re-encrypt | every operation on the vault opens it; its salt is in the configuration |
| Conflict store, `internal/conflicts` | `conflicts.json`, the list of conflicts to review | `Add`, `Resolve`, `Delete` | sync engine, daemon, commands, web UI |
| Daemon, `internal/daemon` | the halt file; in memory a halted flag, a configuration, an identity | poll loop, `performSync`, its own `resolveConflicts`, halt and resume | sync engine, git driver, conflict store; kept alive by the service manager; takes no process lock |
| Secrets, `dhd secret` | a file per secret with its versions and its mapped files; an index in the state | set, rotate, rollback, ref, unref, rename, delete; migration of the legacy format | storage, git driver, the mapped `.env` files |
| Web UI, `internal/web` | sessions | the commands again, as handlers | as the commands; takes no process lock |

What is hard here: machines write one remote without any coordination but git's
refusal of a push that is not a fast-forward; each encryption gives new
ciphertext, so git can never merge two writes of a path; a sync is a long
sequence of git calls, file reads and file writes that users' edits, crashes
and lost connections fall in between of; a merge may be settled at six places
(git itself, the merge driver git calls, the sync engine, the pre-flight of the
next sync, a command's blind commit, the daemon's own resolution), each with rules
of its own; and daemon and web UI act on the same files as the commands without
their lock. The list of hazards, each at its line, is in PROJECT.json.

What makes each component correct:

- sync engine: no user's edit is destroyed; what a push replaces on the remote
  was integrated before; a merge left unfinished is cleared; an unpushed commit
  is flagged; syncing without changes commits nothing.
- storage and tracker: an entry of the state always comes with its blob.
- state merge: stops exactly for divergences, merges whole states or nothing, is the
  same on whichever machine it runs; a push takes no change of another machine back.
- other merge drivers: a clean merge has the three-way value of each JSON path, CSV
  cell and key of a .env base, and no line is lost or doubled.
- secrets: a push never drops or changes a version of a secret; a command that
  reports success is published; mapped files follow; migration loses no value.
- daemon and conflict store: a halted daemon does not poll; what the daemon
  commits unresolved is recorded; a record stays until it is answered, but for two
  rewrites of the list at once; no merge stays open.
- configuration and identity: a save undoes nothing but what was saved while its
  process ran; the salt that the identity needs is in the configuration, unless
  somebody has met a half-written one.
- process lock: who has it for itself keeps it, and keeps out all that come later; a
  dead holder does not keep the others out. It is no mutex: see "ProcessLock and Guard".

## Modules

| Module | Models |
|---|---|
| `VaultSync` | the sync engine, tracker, file storage and git driver; commands sync, track, untrack; any number of machines. Uses `StateMerge` |
| `StateMerge` | `mergeVaultState`: the merge of one key, of a map, of the state. Operators only |
| `StateReplica` | one clone's state and the remote's under commands, pull (with the merge driver, and a vault that loads or not) and push. Gives `StateMerge` every input that can arise |
| `SecretVault` | secret files and their index, every secret command step by step, the migration, mapped files; the web UI's create and rotate, a sync, another machine |
| `Daemon` | the daemon's loop and conflict resolution, halt file, service manager, conflict store; the commands and web pages that answer it |
| `LocalConfig` | `config.toml`, identity and keychain of one machine under its commands, daemon and login page |
| `LineMerge`, `KeyedMerge` | the merges of text files, and of .env, JSON and CSV files. Operators only |
| `MergeDrivers` | the registry: a driver is chosen by name and merges three versions. Gives the drivers every three small files |
| `ProcessLock` | `internal/lock` and `mustLock` |
| `Guard` | the promise that `ProcessLock` does keep |
| `MC*` | constants of the runs |
| `*_proofs` | theorems about the module they are named after; `VaultEdits_proofs` is about `VaultSync` |

A definition whose comment begins with "Mutant" is a plausible bug in the
definition below it. No specification uses it: put in that definition's place, it
makes the run that PROJECT.json names find its property violated.

### VaultSync

One process per machine: `pc[m]` is where its `dhd` command is, `mem[m]` the
state it has loaded, `todo[m]` and `cur[m]` its place in the loop over files.
`local` holds the users' files, `work` the vault directory, `pending` the flag in
the configuration, `conflicts` the conflict store. An action is one step of the
code that others can fall in between of: a file read, a file written, one call
of git. `Push` is `PushSkip`/`PushStore`/`PushChecksum` per file, `PushSave`,
`PushCommit`, `PushSend`; `Pull` is `PullDone`/`PullStopped`/`PullUnreachable`, then
`RestoreSkip`/`RestoreCheck`/`RestoreWrite` per file; `Resolve` is
`resolveConflicts` with its commit; `Recover` is the pre-flight.

Abstractions, and why they keep what the properties ask:

- *Contents.* The content of a file is the set of edits in it: enough to say
  which edit was lost, which copy is older, what a merge keeps. Checksums are the
  contents themselves.
- *Ciphertext.* No two writes give the same blob. So a path that both clones have
  written since their merge base is a conflict for git even when the contents
  are equal. `touched`, `theirs`, `fetched` and `dirty` record which paths have
  been written on which side; they stand for the comparison of blob hashes.
- *Commits* are not numbered. Per clone, `base` is the tree of the last remote
  commit it integrated, `head` the tree of HEAD; `ahead` and `behind` say whether
  there are commits on one side only. That is all that git's answer to a pull or
  a push depends on when there is one branch and one remote. `Bookkeeping` states
  that the abstraction is consistent, and it is proved.
- *The text driver* keeps edits of both sides unless they overlap; which pairs
  overlap is chosen freely. Its panic on overlaps that start on different lines
  is the action `MergePanics`, which leaves staged and recorded whatever subset of the
  other files was settled before; the order of the files is not kept. `LinesAddUp` and
  `PanicIsOverlap` of `MergeDrivers` are what this rests on.
- *The state* under the git merge driver is merged by `StateMerge`. In
  `resolveConflicts` it never is: the engine decrypts the versions and passes
  them to a driver that decrypts them again, which fails, and the remote's is
  taken. A clone without the driver (`DriverHosts`) ends there. `dhd merge`, which git
  runs, also keeps ours and reports success when it cannot load the vault (merge.go:88);
  whether it can, because the keychain has the password, is `locked`, and changes at any
  time between merges (`KeychainChanges`).

Limits: a crash falls between any two actions except inside a `track` or
`untrack` that runs on with a merge in progress; a commit, and `Resolve`, are
one step, so a crash inside `resolveConflicts` between two files is left out; `Track`
reads the file once; only the owner tracks a global file;
users only add edits (or delete the file); tracked files are such that the text
driver handles them, which in the vault are all but `.env` and `.env.*`; the mode is sync, not backup; namespace filter and ignored
files are left out.

### MergeDrivers

`Init` is any name and any three versions; `MergeFile` is `Registry.Resolve`. Names
are the directory and the parts between dots, because that is what the `CanHandle`
methods look at. A text file is its lines; an edit found by `computeEdits` replaces
a range of base lines; equal edits of the two sides coincide in the set of edits,
and `merge3Lines` goes once over the base's lines and applies the edits where they
start. A `.env` file is a map, and its driver's switch is that of the state, so
`EnvMerge` uses `StateMerge`. `mergeJSON` is the recursion of the code, a recursive
function over the triples of `JsonValue`; a lookup of a missing key gives `Nil`,
which is also null, as in Go. CSV tables are headers and rows; a cell whose column is
missing reads as blank, as a lookup in Go's map does, and of rows with one key the last
counts. The properties are stated
against a three-way value per key, path or cell, and for lines by counting, so none
of them repeats the algorithm.

The driver of secrets asks for the directory `secrets/` in the name (secret.go:48), and the
registry takes the directory off the name first (driver.go:84): it is never chosen, for
a file of the vault or any other, so its merge is not modelled. `DriverOf` gives a
secret's file to the text driver, as the registry does.

### SecretVault

One clone of the vault, the remote, and another machine whose commands happen on
the remote at once. `pc`, `job`, `mem` and `todo` are the running command's: where it
is, what it was asked, the index it has loaded, the mapped files still to be
written. `Pull`, the `Migrate...` steps, `Apply` (`LoadState` and the function the
command gives to `vaultCommitPush`, up to its first write), `DropOld` (rename's
removal), `Save`, `Commit`, `Push`, `RetryPull`, `RetryPush`, `WriteEnvFile` and
`Finish` are the steps of `vaultCommitPush` and of the command after it; a crash
falls between any two. `SyncStart` to `SyncPush` are the push half of a sync that has
a file to store: what it does to secrets is to rewrite the state. `WebCreate` and
`WebRotate` are the handlers of the web UI, which write and neither commit nor push.

A secret is `[latest, versions, refs]`; `versions` is a sequence because `nextVersion`
numbers without gaps. `replaced` and `erased` are the model's own memory: names that
this clone has deleted, created anew or settled on its own side of a conflict since
its last push; values that a user has taken away. Git is that of `VaultSync` without
the merge driver, which this module's clone does not have; the trees here are
small, so it is written out anew with secrets for files. Commands run one at a time: all
but `unref` take the process lock, and that `unref`, which does not (secret.go:464), falls
between the steps of no other command is an assumption. Each value is entered
once (`used`), so a property can say which version a value is.

### Daemon

`VaultSync` has the sync engine in full; here it is what the daemon's promises
depend on. Of a path of the vault the model keeps the code that `git status` gives
it (`unmerged`) and what its last conflict was settled on (`work`, `head`). `pc` goes
through `performSync`: `preflight`, `resolve` (the daemon's own `resolveConflicts`, one
file at a time: `MergeFile`, `Record`), `conclude` or `fallback`, then `sync`, which is
the engine's pre-flight, pull, `resolveConflicts` and commit, or without an
identity a pull and a commit. `store` is the conflict store, `halt` the halt file,
`halted` the flag of the running process, `installed` whether the service manager keeps
the daemon alive; `Boot` follows every end of the process.

`conflicts.json` is rewritten as the code does it: `Store.Add` and `Store.Delete` read
the whole list (`Reads`), and a step later `save` replaces the file in place (`Saves`),
and nothing locks it. `rewrite[p]` is the list that process p has in hand; `late`
notes that another has saved or removed the file since, which is how a record is lost:
the older list is written back, the text of two writers at once does not parse
(`Broken`), or the file is removed under the writer. A crash in a write may leave
`Broken` too. `dhd conflicts resolve` reads the store, calls git, and rewrites the store; the
web page settles the file, rewrites the store, looks whether anything is pending and
only then removes the halt file; `dhd sync` visits its conflicted files one by one.
Cycles of the daemon fall between any two of these steps: it takes no lock. The
user runs one command at a time, which for `conflicts resolve` and the web page nothing
enforces; `OtherCommand`, a command that leaves a merge behind, happens whenever no
other runs. `crossed` remembers that a command has run since the daemon began to
resolve.

`GetConflictedFiles` knows the codes UU, AA and DD; a file deleted on one side (UD,
DU) is not in `Listed`, and every place that asks decides by that. The state's
file is never deleted, so it has neither. A merge that a
command leaves between the daemon's pre-flight and its sync is settled by the engine's
pre-flight (`SyncPreflight`), or without an identity by a pull that fails and a commit
(`PullFails`).

### LocalConfig

`disk` is the configuration, `proc` the command and the daemon's cycle: each loads the
whole file (`Begin`), edits its copy (`Bind`, `BindIfUnbound`, `Ignore`, `Unignore`,
`Pushed`, the steps of init) and saves all of it. `Save` truncates the file and then writes it:
between `StartSave` and `Written` a reader finds an empty file, which decodes without an
error (`OnDisk`, `Blank`). The identity file is the pair of password and salt that it
was encrypted with. The daemon takes no lock, so a cycle falls between any two steps of a
command, and a crash may cut any write short, the identity's too. Of two savers that
have both truncated the file, the second to write is `late`, and may leave the end of
the longer text behind the shorter. `alone` and `cut` are the model's own memory:
processes that no other's save has crossed since they began, and whether somebody has
loaded a configuration while it was truncated, or died leaving one. The user runs one
command at a time; `init`, `rekey` and `logout` take no lock, so nothing enforces it
for them. The login page stores a password and may do so at any time.

### StateReplica

It keeps the three states that a merge sees: the base, ours, the
remote's. Either side changes any entry in any way, a command one at a time; `Pull` merges
and takes the remote's as the new base; `Push` needs the base to be the remote's.
Values are what the driver compares, checksums and update times. Git takes the remote's
file when ours has not been written, and else runs `dhd merge`, which keeps ours and
reports success when the vault cannot be loaded or an entry has diverged
(`MergeResult`). `mine` is what commands changed here since the last push, `skipped`
whether a merge has kept ours since.

### ProcessLock and Guard

`ProcessLock` splits `Acquire` at every call of the operating system: exclusive
create, write of the PID, read, the check that the process lives, remove. The
file remembers who created it, so that a PID written to a file that is no longer
at the path goes nowhere. Any command starts at any time. `others` are processes that
are no commands of dhd: one may be given the PID that a stale lock names, and
`processAlive` then takes it for the holder, as the code does.

"Lock manages an exclusive process lock" (lock.go:27) is more than the file gives: of
commands that are in `Acquire` at once, one may read the file before its PID is in it,
or remove a file that another has just put in the place of the stale one, and both
then work (`MCProcessLockRace`). `Guard` is what is left of the promise: `secure` is the
command that has the lock for itself, and while there is one nobody enters.
`ProcessLock` is mapped to it by `Holders`, the commands whose `pc` is `held`, and
`ForItself`: the file names the command, and nobody else works, is about to write its
PID, or is about to remove the file. Writing the PID is `Enter`; a release or the crash
of a holder is `Leave`; the crash of the last rival is `Settle`; the rest are stutters.

## Runs

| Run | Instance | Asks | Result |
|---|---|---|---|
| `vault_sync` | 2 machines (one with the merge driver, which is also the one that tracks), 1 file, 2 edits, sync, 1 crash | types, entries have blobs, overwritten contents can be recovered, backlog is flagged, no spurious commits, pushes go over nothing unseen | holds |
| `vault_sync_files` | 2 files, one of them global to m1, 1 edit, deletions by the user, 1 crash | the same across files; git bookkeeping | holds |
| `vault_sync_recovery` | 1 file, m1 edits it once, m2 untracks it, no merge driver, 1 crash, fairness | a merge is always cleared | holds |
| `state_replica` | 2 file keys, 1 secret key, 3 values | the merge of the state against a reference; a pull merges all or keeps ours; a push takes nothing of others back | holds |
| `merge_drivers` | 5 names; texts of 3 lines over 3 different lines, JSON of depth 2, CSV of 2 rows and 1 or 2 columns besides the key | clean merges against a three-way value per path, cell and key of the .env base, and a count of lines; sides; the panic | holds |
| `process_lock` | 3 shells, 4 PIDs, 1 other process, 2 crashes, fairness | it implements `Guard`; work goes on unless a PID in a stale lock is in use again | holds |
| `secret_vault` | 2 names, 3 values, 2 mapped files of which 1 is bound here, every command, 3 commands or requests here and 1 elsewhere, 1 crash | versions are kept, success is published, mapped files follow, the migration keeps values | holds |
| `daemon` | 2 paths, one of them the state's; any records of an earlier merge; 1 merge that stops, 2 commands, 1 crash, fairness | halting, recording, records last but for two rewrites at once, no merge stays open | holds |
| `local_config` | 1 namespace, 2 roots, 1 key, 2 machine ids, salts and passwords, 3 commands or cycles, 1 crash | a save undoes only what was saved while its process ran; the salt stays unless a half-written file was met | holds |
| `stores_newer` | 2 machines, sync only | what Push stores is newer (sync.go:139) | violated |
| `legacy_lost` | 1 name, a vault in the legacy format, `secret set` and sync | the migration keeps values (storage.go:123) | violated |
| `daemon_unrecorded` | as `daemon`, 1 merge, 1 command | a conflict settled on the remote's is recorded (sync.go:413) | violated |

Bounds. Two machines are enough for every interaction through the remote except
chains of three, which nothing here depends on: a machine sees the remote and
never the others. One file and two edits let each side hold an edit the other
lacks, and a third content be their merge; two files let one merge cleanly while
the other conflicts, and tell a global file from a shared one; there both machines track. That
both track one file with two edits was checked too (2.6 million states, no violation) and is
left out for its time. One crash is
enough to leave each intermediate state, and the next command runs from there.
Three values per key make base, ours and theirs different; a second key lets one
key's conflict stop the other's merge. Two shells race for a lock and a third
takes it over; a fourth PID lets a stale lock name a process that is gone, or another
program, while all shells run. Three lines are the least that let an edit start strictly inside
what another replaces, and three different ones let both sides insert what the
base lacks; JSON of depth two nests one object, which is what its recursion is
about. In `secret_vault` a second name is what a rename needs; three commands are the
least for a version, a rollback and a new version over it, with the other machine's
one command between any two steps; one of the two mapped files is bound, so both
branches of the write are taken. In `daemon` two paths let one merge while the other
conflicts, and the state's path is the one that drivers fail on; two commands are an
answer and a restart or a resume after it, or a sync that leaves a conflict and the
answer to it, with any steps of the daemon in between. With a second merge that stops,
which meets a daemon that is already halted, the safety properties were checked too (7.4
million states, no violation); it is not in the list because liveness takes too long
there. Three
operations on the configuration are an init, a command and a cycle, or an init over another.

Deadlock is checked in the runs of `VaultSync`, `StateReplica` and `ProcessLock`, where
somebody can always start a command. In the others the system stops when a
bound is reached (`SecretVault`, `LocalConfig`, and `Daemon` once the user has stopped
it), or when the one call returns (`MergeDrivers`).

Fairness. `FairSpec` of VaultSync: a command that has started runs on (weakly
fair steps), and `dhd sync` is run again and again on every machine whatever
other commands are (strongly fair start), which is what the daemon's poll loop
does. Of the network nothing is assumed. `FairSpec` of ProcessLock:
processes run on and commands are started again and again; nothing is assumed of PIDs,
and `WorkGoesOn` excepts the behaviours where a stale lock's PID is in use again and
again. `FairSpec` of Daemon: the
service manager starts a daemon that has ended (Restart=always, KeepAlive), its ticker
ticks, a cycle and a command that have started go on. The user owes nothing.

### What the violations show

- `stores_newer`: `Pull` decides whether a local file was modified by comparing it
  with the checksum in the state it has just pulled. A file that only the remote
  changed differs from that checksum, so it is "modified", is skipped, and the next
  `Push` stores the old copy again. Two machines with different copies then undo each
  other for ever.
- `legacy_lost`: loading a state in the legacy format drops the inline values; only
  `vaultCommitPush` migrates before it loads. A `dhd sync` that has a file to store
  (and `track`, `untrack`, the web UI's create) saves what is left. `secret_vault` holds
  because there these wait until the vault is migrated (`Unmigrated = FALSE`).
- `daemon_unrecorded`: the daemon's `Syncer` is built without a conflict store.

### More configurations

These are not in the list of runs: most answer a question about an assumption rather
than about the system. Each finds its property violated.

| Configuration | Module | Property | Shows |
|---|---|---|---|
| `MCVaultSyncRacy` | `MCVaultSync` | `OverwriteRecoverable` | `Status` and `WriteFile`, and the two reads in `Push`, leave a window for the user's editor; the runs close it (`RacyEdits = FALSE`) |
| `MCVaultSyncDiscard` | `MCVaultSync` | `DiscardRecorded` | a file that both machines added has no base version; the remote's is taken and nothing recorded |
| `MCStateReplicaAdditions` | `MCStateReplica` | `AdditionsMerged` | the cases for one-sided deletes of `mergeVaultState` come before the case for a key without a base, and drop one-sided additions; the env driver has the same switch |
| `MCMergeDriversStored` | `MCMergeDrivers` | `SameDriver` | the registry is asked about the name in the vault: with `.age` at its end a JSON, a CSV or a picture goes to the text driver |
| `MCMergeDriversRenamed` | `MCMergeDrivers` | `DroppedUnchanged` | "remote unchanged, local deleted" (csv.go:103) is asked of the base's columns and the number of columns (`rowsEqual`): local deletes a row with a blank cell, remote renames that cell's column and fills it in, and a clean merge drops the row with the new value. In the base's columns a dropped row was unchanged, which is part of `CsvCellsMerged` |
| `MCProcessLockRace` | `MCProcessLock` | `MutualExclusion` | the lock file is created empty and its PID written after; another command removes it in between (lock.go:27) |
| `MCSecretVaultOverlap` | `MCSecretVault` | `PublishedOnSuccess` | a create on the web between the steps of a `set` replaces its value, and the command reports success |
| `MCDaemonEnv` | `MCDaemon` | `NothingGarbled` | the daemon gives the drivers ciphertext; that of .env files finds no line in it and stages an empty merge |
| `MCDaemonResume` | `MCDaemon` | `ResumeWorks` | the flag of a running daemon outlives the halt file |
| `MCDaemonLost` | `MCDaemon` | `RecordsStay` | the daemon and a command (an answer, or the conflict that a `dhd sync` meets) rewrite the list at once: whoever saves last writes the list it has read before, and the other's record is gone (runner.go:260) |
| `MCLocalConfigBlanked` | `MCLocalConfig` | `MachineIdStable` | a cycle that loads the file while a command has truncated it saves a configuration without machine id, salt and bindings (README.md:275) |
| `MCStateReplicaSkipped` | `MCStateReplica` | `SkippedRetried` | a merge that kept ours, because the vault did not load or an entry diverged, is done for git; "the next sync will retry" (merge.go:91) is not so, and the next push takes the others' changes back |

## Proofs

`tlapm` proves, for any sets of machines, files, edits, keys, values, names,
commands and PIDs, any ownership of files, any operations, and any bounds:

- `VaultSync_proofs`. `TypeCorrect`: `Spec => []TypeOK`. The third part of
  `TypeOK`, that a command resolving conflicts is in a merge, is needed for the
  types themselves. `KnowledgeIsTrue`: `Spec => []Bookkeeping`. `Bookkeeping` is
  inductive given the types. The argument: every step of the system is, for one
  clone, one of nine git steps (`NextGit`); a merge gives every path that it does
  not count as kept the merged-in tree's version (`MergeTakesTheRest`); so
  whichever of the five places concludes a merge, base, HEAD and `touched` agree
  again (`ConcludeKnows`); and a push tells the other clones precisely the paths
  it changed (`PushKnows`). `NothingUnseenOverwritten`: `Spec => PushKeepsUnseen`,
  an action property, follows: a clone pushes only when the remote is its base,
  and HEAD differs from its base in touched paths alone.
  `EntriesRestorable`: `Spec => []EntryHasBlob` for machines that do not untrack (`NoUntrack`). Blobs then never vanish: those of the
  integrated tree are in HEAD and in the remote (`Stocked`), so a merge, whose
  entries each come from one side or the other, has the blobs of both
  (`MergeStocked`), and the directory has those of the merge it stands for. What is
  in a command's memory may be saved, and a merge it has not written into may be
  abandoned (`Ready`); the lemmas on git steps (`StepStocked`) and on commands
  (`SyncReady`, `CommandReady`, `OtherReady`) keep both.
- `VaultEdits_proofs`, about users' edits in `VaultSync`. `BacklogNoticed`:
  `Spec => BacklogFlagged`, with no assumption: each way a sync ends is looked at.
  `CommitsAreReal`: `Spec => NoSpuriousCommit`, and `NoEditDestroyed`:
  `Spec => OverwriteRecoverable`, both for `NoUntrack`. None of these is inductive, and
  three invariants stand on one another. `EditsKnown`: every content anywhere is made of
  edits made so far, so that the next edit is new. `Adds(m)`: what machine m has not
  committed differs from HEAD, unless it concludes a merge (`Concluding`) or a panic has
  left it staged in a merge (so it speaks of `dirty` without `fetched`); it covers what a crashed or panicked sync has left in
  the directory and what the next one finds. `Traced`: a
  content that a command may take for the clean copy of the user's file, because an
  entry of some tree or of its memory has it as checksum, is in the blob next to that
  entry or in a commit; `Saved`, `Recorded`, `Loaded` and `Draft` say it for histories,
  trees, memories and directories, and `Alone` that contents in no commit are on one
  machine. `NoEditDestroyed` also needs `RacyEdits = FALSE`, `CommitsAreReal` does not.
- `StateReplica_proofs`. The verdict of the driver is the reference's
  (`ConflictDetection`), and does not depend on the side (`MergeSideBlind`): both follow
  key by key from the definitions. `WholeMergeOrNone`: `Spec => MergedOrKept`, and
  `OthersNotTakenBack`: `Spec => PushesOwnChanges`, are about what pulls and pushes make
  of it, and need an invariant (`Untouched`): between two pushes, an entry that no command
  changed here is as in the base, or gone, unless a merge kept ours; and with no command
  at all, ours is the base. `ReplicaTypeCorrect` supplies the domains.
- `SecretVault_proofs`. `SecretTypeCorrect`: types, and that every secret has its
  current version. `VersionsKept`: `Spec => []PushKeepsVersions`. Again every step is one of a
  few git steps (`NextGit`), of which only a write to the directory and the other
  machine's command touch a secret, and each is shown to extend it or to put its name
  in `replaced`. The invariant (`Knows`) follows the versions along the trees a merge
  passes through: the remote extends the last integrated one, HEAD extends what
  the remote has of every path the remote has not changed since, the directory
  extends HEAD or the merge it stands for; `MergeExtends` is the step where two of
  them meet, and a commit after a conflict drops versions only of names it puts in
  `replaced`. The property alone is about HEAD and the remote and not inductive.
  `SuccessIsPublished` and `MappedFilesFollow`: `Spec => PublishedOnSuccess` and
  `Spec => FilesFollow`, for `Overlap = FALSE`. From its save on, the change of the
  running command is in the directory, then in HEAD (`Landed`), and the paths it wrote are
  dirty, then touched (`Paths`), so the merge of a retried pull takes nothing in their
  place; a mapped file is written from that HEAD (`Following`). `LegacySurvives`:
  `Spec => []LegacyKept`, for `Unmigrated = FALSE` and a machine at the other end that
  does not rename, with or without `Overlap`. The invariant (`OldTrees`) says of every
  tree that the old value is inline or in a file (`Carries`), and of a merge's two sides
  that the one the merge takes a path from has it there; `OldSteps` says which step of the
  migration may find an inline value. A peer's rename is left out, because it takes the
  value to a name which, made here meanwhile, is settled on our side.
- `Daemon_proofs`, with no assumption on the order of commands and cycles. `HaltObeyed`:
  with the invariant that a live process of a daemon whose halt file exists has the flag
  set (`Obeyed`), whatever wrote the file, no poll syncs. `NoRecordLost`:
  `Spec => RecordsKept`: a process that no other has overtaken has in hand what the store
  still holds (`Fresh`), so what it saves differs in its own file alone. Every step is, for
  the store, quiet, a read, a save, a cut or a removal (`StoreCases`).
  `DaemonAlwaysRecords`: while the daemon resolves and no command has come in between, each
  listed file is still to be visited, in its hand, or pending in the store (`Recorded`).
- `LocalConfig_proofs`, also with no assumption on the order of steps and on crashes.
  `SaltKept`: `Spec => []SaltOpens`; the invariant (`SaltInv`) is that until somebody meets a
  half-written file, every process that may save has the salt that was saved last, or is
  about to save the first one (`CopiesSalted`), and a daemon that could open the identity
  started with it (`DaemonSalted`). `UndoneOnlyAcross`: `Spec => SavesOwnEdit`; the invariant
  (`AloneCurrent`) is that a process whom no save has crossed has the last saved
  configuration in hand, or that with its edit.
- `MergeDrivers_proofs`. The outcome is what the driver makes of three files (`Called`);
  the rest is about the drivers as functions. `EnvMergedByKey` goes
  key by key. JSON, by induction on the depth of a value: a value that one side left
  alone merges to the other's (`JsonOneSided`), the merge does not depend on the side
  (`JsonSideBlind`), and what is under a key of the merge is the merge of what is under it
  (`MergeAtEntry`), hence `JsonMergedAtAnyDepth` for paths of any length, of which
  `JsonMerged` is what the run checks. Texts, by induction on lines: the walk back
  through the table of lengths gives matches of equal lines in order (`LcsMatches`), so
  edits are ranges between them, no two of which start together (`EditsAreRanges`);
  the pass over the base stops for a conflict only where two differing edits start, and
  panics exactly when it comes to an edit inside another (`ReachedAll`), hence
  `PanicsOnOverlap`; and with the edits of one side it writes that side's lines, from
  match to match (`SideRebuilt`), which with `NoEditsAgainstItself` gives `MergesOneSided`.
  `LinesAllCounted`: `Spec => []LinesAddUp`. Before each line of the base, of three passes,
  with the edits of either side and with both, the third has written what the other two
  add to what they passed (`Balance`), less what the edits before it that both sides share
  add, which the two count twice (`Tallied`); a step of each applies at most one edit, and
  if both sides have one there it is the same (`TalliedNext`). At the end the first two are
  the sides' texts. That the match is a longest one is not needed for any of this.
  `MergedAlike`: `Spec => []SameFromBothSides`. CSV, by induction on the places of a
  sequence: what `Only` takes is what is at the places, each once (`OnlyTakes`), so the
  merged header and the list of keys have every column and key once (`JoinedHas`), a row
  is found again under its key (`RowUnderKey`) and the merged key cell is the key
  (`KeyInMergedCell`), hence `CsvMergedByCell`: `Spec => []CsvCellsMerged`.
- `ProcessLock_proofs`. `LockKeepsOut`: `Spec => LockGuards`, the refinement of `Guard`, with
  no assumption on when commands start. Each step maps to `Enter`, `Leave`, `Settle` or a
  stutter (`LockStep`); the facts it takes are that a secure holder's file names a live
  process (`SecureHolderLives`), so that whoever reads it gives up, and that nobody who is
  about to change the file goes along with one (`SecureExcludes`).

Assumptions are those on the constants, named in each module (`ConstantsAssumption`,
`ReplicaAssumption`, `DaemonAssumption`, `LocalConfigAssumption`, `LockAssumption`,
`JsonAssumption`: JSON values are nested finitely deep; `FilesAssumption`: what a file of
each format is, of CSV that every row is as long as the header, on which the code's reader
insists), which TLC evaluates in the runs; and where a theorem says so:

- `Overlap = FALSE` (of `SecretVault`), `RacyEdits = FALSE`, `Unmigrated = FALSE`: without
  them TLC finds the statement violated (see "More configurations" and `legacy_lost`).
- `NoUntrack`: a crash in the middle of `dhd untrack` leaves an entry whose blob is gone
  (`untrack.go:101`), and after two of them a sync commits ciphertext alone.

The provers have no rule of induction for an operator. Where a proof needs one, it
takes the least element of a set of counterexamples (`LeastNatural`); where it needs
what a recursive function computes, it first shows that the function exists, by
approximations (`JsonMergesUnfolded`, `BackExists`, `OverExists`, `AtExists`, `WalkExists`).

Every safety property that a run finds to hold is stated by a theorem. Only model-checked
is liveness, which is outside the proof system: `StuckMergeRecovered`, `Unstuck`,
`WorkGoesOn`.

## Plan

Done: `StateMerge`, `StateReplica`, `VaultSync`, `ProcessLock`; the line and keyed merges
with the registry; `SecretVault`, `Daemon`, `LocalConfig`; `Guard` and its refinement.

Left, in this order:

1. An abstract specification of a vault, a set of published commits that only grows,
   implemented by `VaultSync` and `SecretVault`.
2. Commands that publish without raising the pending flag (`track.go:111`).
3. Commands that take no lock next to others: `unref` between the steps of a secret command,
   `conflicts resolve` next to the web page, `init` next to a command.

## Not modelled

- Cryptography: what is encrypted opens with what it was encrypted with and
  nothing else, and two encryptions are never equal.
- The settings page's untrack: that of the command without pull, commit and push.
- `dhd git setup`, its hooks and its clean and smudge filters. VaultSync's clones have
  the merge driver or not; a clone with the filter on `*.env.age` encrypts these blobs
  a second time on their way into git, which one without it does not undo.
- The driver of secret files (`internal/merge/secret.go`), which the registry never chooses.
- `dhd cleanup`, which removes all that a machine keeps, and `dhd clone`, which makes a
  copy to read from: to the others either is a machine that comes or goes.
- Service definitions, log rotation, the audit log, sparse checkout, rendering and
  sessions of the web UI: input and output.
- Commands that only read: `list`, `get`, `history`, `diff`, `status` (but for the
  bindings it saves), `doctor`,
  `export`, `machines`, `read`.
- Namespace filter, backup-mode files, `DryRun`, symbolic links.
