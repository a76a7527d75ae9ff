------------------------------ MODULE VaultSync ------------------------------
(***************************************************************************)
(* Syncing tracked files through a shared git vault: internal/sync,        *)
(* internal/tracker, the file half of internal/storage, internal/git as    *)
(* they use it, and the commands `dhd sync`, `dhd track`, `dhd untrack`.   *)
(*                                                                         *)
(* Each machine holds the user's files, a git clone of the vault and one   *)
(* running dhd command at a time; the machines meet in one remote.  The    *)
(* user edits files, the network and the machine fail, at any step.        *)
(*                                                                         *)
(* Abstractions.  A file's content is the set of edits it contains, its    *)
(* checksum is its content.  age encrypts with a fresh nonce, so two       *)
(* writes never give the same blob: a path two clones have written since   *)
(* their merge base is a path git cannot merge.  Commits are not           *)
(* numbered: per clone, base is the tree of the last remote commit it      *)
(* integrated, touched and theirs the paths the clone and the remote have  *)
(* written since then.                                                     *)
(***************************************************************************)
EXTENDS Naturals, FiniteSets, StateMerge

CONSTANTS
    Machine,      \* machines that share the vault
    File,         \* keys of the state's Files map
    Edit,         \* edits users can make: a bound on their number
    GlobalOwner,  \* for a file of the "global" namespace its MachineID, else None
    DriverHosts,  \* machines whose clone has the merge driver of `dhd git setup`
    Ops,          \* Ops[m]: what may happen at m, of AllOps
    RacyEdits,    \* may a file change between two reads of it by one command?
    MaxCrashes    \* bound on the number of crashes

AllOps == {"sync", "track", "untrack", "edit", "delete"}
Content == SUBSET Edit
StatePath == "state.toml.age"
Path == File \cup {StatePath}
Tree == [state : [File -> {None} \cup Content], vault : [File -> {None} \cup Content]]

ASSUME ConstantsAssumption ==
    /\ \A c \in Content : c # None
    /\ None \notin Machine /\ None \notin File /\ None \notin Tree
    /\ StatePath \notin File
    /\ GlobalOwner \in [File -> Machine \cup {None}]
    /\ DriverHosts \subseteq Machine
    /\ Ops \in [Machine -> SUBSET AllOps]
    /\ RacyEdits \in BOOLEAN
    /\ MaxCrashes \in Nat

VARIABLES
    local,      \* local[m][f]: the user's file, None when it does not exist
    remote,     \* the remote's tree
    base,       \* base[m]: tree of the remote commit m integrated last
    head,       \* head[m]: tree of m's HEAD
    work,       \* work[m]: m's vault directory
    mergeHead,  \* mergeHead[m]: tree of MERGE_HEAD, None when not merging
    locked,     \* locked[m]: git's merge driver at m cannot load the vault
    touched,    \* touched[m]: paths where HEAD's blob is not base's
    dirty,      \* dirty[m]: paths of the vault directory not yet committed
    theirs,     \* theirs[m]: paths the remote changed since m last fetched
    fetched,    \* fetched[m]: while merging, paths MERGE_HEAD changed since base
    behind,     \* behind[m]: the remote has commits m has not fetched
    ahead,      \* ahead[m]: m has commits the remote does not have
    pending,    \* pending[m]: PendingPush in m's config
    conflicts,  \* conflicts[m]: paths in m's conflict store
    history,    \* history[f]: contents of f in some commit: git can give them back
    pc,         \* pc[m]: where m's dhd command is
    mem,        \* mem[m]: the Files map the command loaded
    todo,       \* todo[m]: keys its loop has still to visit
    cur,        \* cur[m]: the key it is working on
    modified,   \* modified[m]: stateModified of Push
    used,       \* edits made so far
    crashes     \* crashes so far

git == <<remote, base, head, mergeHead, locked, touched, theirs, fetched, behind, ahead, history>>
proc == <<pc, mem, todo, cur, modified>>
vars == <<local, git, work, dirty, pending, conflicts, proc, used, crashes>>

Resting == {"idle", "down"}
SyncSteps == {"push", "sum_same", "sum_written", "commit", "send", "pull", "resolve", "offline",
              "restore", "write", "finish", "last_push"}
CommandSteps == {"track_pull", "track", "untrack_pull", "untrack", "cmd_save",
                 "cmd_commit", "cmd_push", "cmd_retry", "cmd_last"}
NamesFile == {"sum_same", "sum_written", "write", "track_pull", "track", "untrack_pull", "untrack"}
Busy(m) == pc[m] \notin Resting

GitTypeOK ==
    /\ remote \in Tree
    /\ base \in [Machine -> Tree] /\ head \in [Machine -> Tree] /\ work \in [Machine -> Tree]
    /\ mergeHead \in [Machine -> {None} \cup Tree]
    /\ locked \in [Machine -> BOOLEAN]
    /\ touched \in [Machine -> SUBSET Path] /\ dirty \in [Machine -> SUBSET Path]
    /\ theirs \in [Machine -> SUBSET Path] /\ fetched \in [Machine -> SUBSET Path]
    /\ behind \in [Machine -> BOOLEAN] /\ ahead \in [Machine -> BOOLEAN]
    /\ history \in [File -> SUBSET Content]

CommandTypeOK ==
    /\ local \in [Machine -> [File -> {None} \cup Content]]
    /\ pending \in [Machine -> BOOLEAN]
    /\ conflicts \in [Machine -> SUBSET Path]
    /\ pc \in [Machine -> Resting \cup SyncSteps \cup CommandSteps]
    /\ mem \in [Machine -> [File -> {None} \cup Content]]
    /\ todo \in [Machine -> SUBSET File]
    /\ cur \in [Machine -> File \cup {None}]
    /\ \A m \in Machine : pc[m] \in NamesFile => cur[m] \in File
    /\ modified \in [Machine -> BOOLEAN]
    /\ used \subseteq Edit
    /\ crashes \in 0 .. MaxCrashes

TypeOK ==
    /\ GitTypeOK
    /\ CommandTypeOK
    /\ \A m \in Machine : pc[m] = "resolve" => mergeHead[m] # None

NoFiles == [f \in File |-> None]

(***************************************************************************)
(* Every file is tracked and in sync, or, when tracking is an operation,   *)
(* the vault is still empty: what `dhd init` and `dhd clone` leave.        *)
(***************************************************************************)
Init ==
    \E tracked \in IF \E m \in Machine : "track" \in Ops[m] THEN {{}, File} ELSE {File} :
        LET files == [f \in File |-> IF f \in tracked THEN {} ELSE None]
            tree == [state |-> files, vault |-> files]
        IN  /\ local = [m \in Machine |-> [f \in File |->
                            IF GlobalOwner[f] \in {None, m} THEN files[f] ELSE None]]
            /\ remote = tree
            /\ base = [m \in Machine |-> tree]
            /\ head = [m \in Machine |-> tree]
            /\ work = [m \in Machine |-> tree]
            /\ history = [f \in File |-> {files[f]} \ {None}]
            /\ mergeHead = [m \in Machine |-> None]
            /\ locked = [m \in Machine |-> FALSE]
            /\ touched = [m \in Machine |-> {}]
            /\ dirty = [m \in Machine |-> {}]
            /\ theirs = [m \in Machine |-> {}]
            /\ fetched = [m \in Machine |-> {}]
            /\ behind = [m \in Machine |-> FALSE]
            /\ ahead = [m \in Machine |-> FALSE]
            /\ pending = [m \in Machine |-> FALSE]
            /\ conflicts = [m \in Machine |-> {}]
            /\ pc = [m \in Machine |-> "idle"]
            /\ mem = [m \in Machine |-> NoFiles]
            /\ todo = [m \in Machine |-> {}]
            /\ cur = [m \in Machine |-> None]
            /\ modified = [m \in Machine |-> FALSE]
            /\ used = {}
            /\ crashes = 0

-----------------------------------------------------------------------------
(***************************************************************************)
(* git, as the code drives it.                                             *)
(***************************************************************************)
Merging(m) == mergeHead[m] # None

\* The merge git computes of HEAD with tree t, whose paths p differ from base.
\* The state goes through the merge driver where there is one; on a conflict, or when
\* the vault does not load, it keeps ours and reports success, and without a driver git
\* leaves our binary in place.
MergedState(m, t, p) ==
    IF StatePath \notin p THEN head[m].state
    ELSE IF StatePath \notin touched[m] THEN t.state
    ELSE IF m \in DriverHosts /\ ~locked[m] /\ ~MapConflict(base[m].state, head[m].state, t.state)
         THEN MapMerge(base[m].state, head[m].state, t.state)
         ELSE head[m].state

\* A file deleted on one side and rewritten on the other keeps the rewritten blob.
TakesTheirs(m, p, f) == f \in p /\ (f \notin touched[m] \/ head[m].vault[f] = None)

MergedTree(m, t, p) ==
    [state |-> MergedState(m, t, p),
     vault |-> [f \in File |-> IF TakesTheirs(m, p, f) THEN t.vault[f] ELSE head[m].vault[f]]]

\* Of the paths we touched, those whose merged blob is still not theirs.
Kept(m, p) == touched[m] \ {f \in File : TakesTheirs(m, p, f)}

\* The conflicts HasConflicts and GetConflictedFiles see: codes UU and AA.
Detected(m, t, p) ==
    {f \in File \cap touched[m] \cap p : head[m].vault[f] # None /\ t.vault[f] # None}
        \cup (IF m \in DriverHosts THEN {} ELSE {StatePath} \cap touched[m] \cap p)

\* Deleted on one side, rewritten on the other: codes DU and UD, which they miss.
Unseen(m, t, p) ==
    {f \in File \cap touched[m] \cap p : (head[m].vault[f] = None) # (t.vault[f] = None)}

Conflicted(m, t, p) == Detected(m, t, p) \cup Unseen(m, t, p)

Remember(tree) == [f \in File |-> history[f] \cup ({tree.vault[f]} \ {None})]

\* Commit the merge in progress with this tree; kept are its blobs that are not theirs.
Conclude(m, tree, kept) ==
    /\ head' = [head EXCEPT ![m] = tree]
    /\ work' = [work EXCEPT ![m] = tree]
    /\ base' = [base EXCEPT ![m] = mergeHead[m]]
    /\ mergeHead' = [mergeHead EXCEPT ![m] = None]
    /\ touched' = [touched EXCEPT ![m] = kept]
    /\ dirty' = [dirty EXCEPT ![m] = {}]
    /\ fetched' = [fetched EXCEPT ![m] = {}]
    /\ ahead' = [ahead EXCEPT ![m] = TRUE]
    /\ history' = Remember(tree)
    /\ UNCHANGED <<remote, locked, theirs, behind>>

\* Mutant: without git add -A, git commit refuses to conclude a merge with conflicts.
CommitAllUnstaged(m) ==
    IF Merging(m) THEN UNCHANGED <<git, work, dirty>>
    ELSE /\ head' = [head EXCEPT ![m] = work[m]]
         /\ touched' = [touched EXCEPT ![m] = @ \cup dirty[m]]
         /\ ahead' = [ahead EXCEPT ![m] = IF dirty[m] = {} THEN @ ELSE TRUE]
         /\ dirty' = [dirty EXCEPT ![m] = {}]
         /\ history' = Remember(work[m])
         /\ UNCHANGED <<remote, base, work, mergeHead, locked, theirs, fetched, behind>>

\* git add -A, git commit: a merge in progress is concluded with what is there.
CommitAll(m) ==
    IF Merging(m) THEN Conclude(m, work[m], Kept(m, fetched[m]) \cup dirty[m])
    ELSE /\ head' = [head EXCEPT ![m] = work[m]]
         /\ touched' = [touched EXCEPT ![m] = @ \cup dirty[m]]
         /\ ahead' = [ahead EXCEPT ![m] = IF dirty[m] = {} THEN @ ELSE TRUE]
         /\ dirty' = [dirty EXCEPT ![m] = {}]
         /\ history' = Remember(work[m])
         /\ UNCHANGED <<remote, base, work, mergeHead, locked, theirs, fetched, behind>>

\* git merge --abort: what the merge had staged goes, what was not committed before stays.
AbortMerge(m) ==
    LET stays == dirty[m] \ fetched[m]
    IN
    /\ work' = [work EXCEPT ![m] = [
            state |-> IF StatePath \in stays THEN @.state ELSE head[m].state,
            vault |-> [f \in File |-> IF f \in stays THEN @.vault[f] ELSE head[m].vault[f]]]]
    /\ mergeHead' = [mergeHead EXCEPT ![m] = None]
    /\ theirs' = [theirs EXCEPT ![m] = @ \cup fetched[m]]
    /\ fetched' = [fetched EXCEPT ![m] = {}]
    /\ behind' = [behind EXCEPT ![m] = TRUE]
    /\ dirty' = [dirty EXCEPT ![m] = stays]
    /\ UNCHANGED <<remote, base, head, locked, touched, ahead, history>>

\* git checkout --theirs . fails when a conflicted path has no version of theirs;
\* it also puts back every other modified path it knows.  A file that an earlier sync has
\* staged is in conflict no more, and stays as it was staged.
ResolveConflictsRemote(m) ==
    LET t == mergeHead[m]
        staged == File \cap dirty[m] \cap fetched[m]
        seen == Detected(m, t, fetched[m]) \ staged
        added == staged \cup {f \in File \cap dirty[m] : head[m].vault[f] = None}
        merged == MergedTree(m, t, fetched[m])
    IN  IF \E f \in Unseen(m, t, fetched[m]) : t.vault[f] = None
        THEN AbortMerge(m)
        ELSE Conclude(m,
               [state |-> IF StatePath \in seen THEN t.state ELSE merged.state,
                vault |-> [f \in File |-> IF f \in seen THEN t.vault[f]
                                          ELSE IF f \in added THEN work[m].vault[f]
                                          ELSE merged.vault[f]]],
               (Kept(m, fetched[m]) \ seen) \cup added)

\* git pull --no-rebase.  It refuses while a merge is in progress, or when it
\* would overwrite a file of the vault directory that is not committed.
PullAllowed(m) == ~Merging(m) /\ dirty[m] \cap theirs[m] = {}

PullCurrent(m) == PullAllowed(m) /\ ~behind[m] /\ UNCHANGED <<git, work, dirty>>

\* Vault directory of m after its merged tree changed: uncommitted paths stay.
Checkout(m, tree) ==
    [state |-> IF StatePath \in dirty[m] THEN work[m].state ELSE tree.state,
     vault |-> [f \in File |-> IF f \in dirty[m] THEN work[m].vault[f] ELSE tree.vault[f]]]

PullForward(m) ==
    /\ PullAllowed(m) /\ behind[m] /\ ~ahead[m]
    /\ head' = [head EXCEPT ![m] = remote]
    /\ base' = [base EXCEPT ![m] = remote]
    /\ work' = [work EXCEPT ![m] = Checkout(m, remote)]
    /\ theirs' = [theirs EXCEPT ![m] = {}]
    /\ behind' = [behind EXCEPT ![m] = FALSE]
    /\ UNCHANGED <<remote, mergeHead, locked, touched, dirty, fetched, ahead, history>>

PullMerge(m) ==
    LET tree == MergedTree(m, remote, theirs[m])
    IN  /\ PullAllowed(m) /\ behind[m] /\ ahead[m]
        /\ Conflicted(m, remote, theirs[m]) = {}
        /\ head' = [head EXCEPT ![m] = tree]
        /\ base' = [base EXCEPT ![m] = remote]
        /\ work' = [work EXCEPT ![m] = Checkout(m, tree)]
        /\ touched' = [touched EXCEPT ![m] = Kept(m, theirs[m])]
        /\ theirs' = [theirs EXCEPT ![m] = {}]
        /\ behind' = [behind EXCEPT ![m] = FALSE]
        /\ UNCHANGED <<remote, mergeHead, locked, dirty, fetched, ahead, history>>

PullConflict(m) ==
    /\ PullAllowed(m) /\ behind[m] /\ ahead[m]
    /\ Conflicted(m, remote, theirs[m]) # {}
    /\ mergeHead' = [mergeHead EXCEPT ![m] = remote]
    /\ work' = [work EXCEPT ![m] = Checkout(m, MergedTree(m, remote, theirs[m]))]
    /\ fetched' = [fetched EXCEPT ![m] = theirs[m]]
    /\ theirs' = [theirs EXCEPT ![m] = {}]
    /\ behind' = [behind EXCEPT ![m] = FALSE]
    /\ UNCHANGED <<remote, base, head, locked, touched, dirty, ahead, history>>

PullOk(m) == PullCurrent(m) \/ PullForward(m) \/ PullMerge(m)

\* The network timeout, or one of git's refusals.
PullFails(m) == UNCHANGED <<git, work, dirty>>

\* Mutant: git push --force.
PushOkForced(m) ==
    /\ ~Merging(m)
    /\ remote' = head[m]
    /\ base' = [base EXCEPT ![m] = head[m]]
    /\ touched' = [touched EXCEPT ![m] = {}]
    /\ ahead' = [ahead EXCEPT ![m] = FALSE]
    /\ theirs' = [n \in Machine |-> IF n = m THEN {} ELSE theirs[n] \cup touched[m]]
    /\ behind' = IF ahead[m] THEN [n \in Machine |-> n # m] ELSE behind
    /\ UNCHANGED <<head, work, dirty, mergeHead, locked, fetched, history>>

\* git push origin HEAD: the remote takes fast-forwards only.
PushOk(m) ==
    /\ ~behind[m] /\ ~Merging(m)
    /\ remote' = head[m]
    /\ base' = [base EXCEPT ![m] = head[m]]
    /\ touched' = [touched EXCEPT ![m] = {}]
    /\ ahead' = [ahead EXCEPT ![m] = FALSE]
    /\ theirs' = [n \in Machine |-> IF n = m THEN {} ELSE theirs[n] \cup touched[m]]
    /\ behind' = IF ahead[m] THEN [n \in Machine |-> n # m] ELSE behind
    /\ UNCHANGED <<head, work, dirty, mergeHead, locked, fetched, history>>

PushFails(m) == UNCHANGED <<git, work, dirty>>

\* Write into the vault directory.
WriteState(m, files) ==
    /\ work' = [work EXCEPT ![m].state = files]
    /\ dirty' = [dirty EXCEPT ![m] = @ \cup {StatePath}]
    /\ UNCHANGED git

WriteVault(m, f, c) ==
    /\ work' = [work EXCEPT ![m].vault[f] = c]
    /\ dirty' = [dirty EXCEPT ![m] = @ \cup {f}]
    /\ UNCHANGED git

\* Mutant: StoreFile always writes a new blob.
StoreFileAlways(m, f, c) == WriteVault(m, f, c)

\* StoreFile skips the write, and with it a new blob, when the content is there.
StoreFile(m, f, c) ==
    IF work[m].vault[f] = c THEN UNCHANGED <<git, work, dirty>> ELSE WriteVault(m, f, c)

Goto(m, label) == pc' = [pc EXCEPT ![m] = label]

Finished(m, label) ==
    /\ Goto(m, label)
    /\ mem' = [mem EXCEPT ![m] = NoFiles]
    /\ todo' = [todo EXCEPT ![m] = {}]
    /\ cur' = [cur EXCEPT ![m] = None]
    /\ modified' = [modified EXCEPT ![m] = FALSE]

-----------------------------------------------------------------------------
(***************************************************************************)
(* Sync: finish what an earlier sync left, Push, Pull, push again.         *)
(***************************************************************************)
\* Status of f against the entry with this checksum.
Clean(m, f, checksum) == local[m][f] = checksum
Missing(m, f) == local[m][f] = None

\* A global file is restored on its own machine only.
Restores(m, f) == GlobalOwner[f] \in {None, m}

\* The pre-flight of Sync.
Recover(m) ==
    IF ~Merging(m) THEN UNCHANGED <<git, work, dirty>>
    ELSE IF Detected(m, mergeHead[m], fetched[m]) # {} THEN ResolveConflictsRemote(m)
    ELSE CommitAll(m)

\* Push starts by loading the state the pre-flight left in the vault directory.
StartSync(m) ==
    /\ "sync" \in Ops[m] /\ ~Busy(m)
    /\ Recover(m)
    /\ Goto(m, "push")
    /\ mem' = [mem EXCEPT ![m] = work'[m].state]
    /\ todo' = [todo EXCEPT ![m] = {f \in File : work'[m].state[f] # None}]
    /\ UNCHANGED <<local, pending, conflicts, cur, modified, used, crashes>>

PushSkip(m, f) ==
    /\ pc[m] = "push" /\ f \in todo[m]
    /\ Missing(m, f) \/ Clean(m, f, mem[m][f])
    /\ todo' = [todo EXCEPT ![m] = @ \ {f}]
    /\ UNCHANGED <<local, git, work, dirty, pending, conflicts, pc, mem, cur, modified, used, crashes>>

\* The dirty file is read and stored.
PushStore(m, f) ==
    /\ pc[m] = "push" /\ f \in todo[m]
    /\ ~Missing(m, f) /\ ~Clean(m, f, mem[m][f])
    /\ StoreFile(m, f, local[m][f])
    /\ cur' = [cur EXCEPT ![m] = f]
    /\ Goto(m, IF work[m].vault[f] = local[m][f] THEN "sum_same" ELSE "sum_written")
    /\ UNCHANGED <<local, pending, conflicts, mem, todo, modified, used, crashes>>

\* FileChecksum reads the file again for the entry's checksum; when it cannot, the
\* entry stays as it is.  Only a blob StoreFile wrote makes the state worth saving.
PushChecksum(m) ==
    LET f == cur[m]
    IN  /\ pc[m] \in {"sum_same", "sum_written"}
        /\ mem' = [mem EXCEPT ![m][f] = IF Missing(m, f) THEN @ ELSE local[m][f]]
        /\ modified' = [modified EXCEPT ![m] = IF pc[m] = "sum_written" /\ ~Missing(m, f) THEN TRUE ELSE @]
        /\ todo' = [todo EXCEPT ![m] = @ \ {f}]
        /\ cur' = [cur EXCEPT ![m] = None]
        /\ Goto(m, "push")
        /\ UNCHANGED <<local, git, work, dirty, pending, conflicts, used, crashes>>

PushSave(m) ==
    /\ pc[m] = "push" /\ todo[m] = {}
    /\ IF modified[m] THEN WriteState(m, mem[m]) ELSE UNCHANGED <<git, work, dirty>>
    /\ Goto(m, "commit")
    /\ UNCHANGED <<local, pending, conflicts, mem, todo, cur, modified, used, crashes>>

\* Nothing to commit: push only when an earlier push is pending.
PushCommit(m) ==
    /\ pc[m] = "commit"
    /\ CommitAll(m)
    /\ Goto(m, IF dirty[m] # {} \/ pending[m] THEN "send" ELSE "pull")
    /\ UNCHANGED <<local, pending, conflicts, mem, todo, cur, modified, used, crashes>>

\* Mutant: a failed push raises no flag.
PushUnflagged(m) ==
    \/ PushOk(m) /\ pending' = [pending EXCEPT ![m] = FALSE]
    \/ PushFails(m) /\ UNCHANGED pending

\* A git push whose outcome is kept in the config's pending flag.
PushAndFlag(m) ==
    \/ PushOk(m) /\ pending' = [pending EXCEPT ![m] = FALSE]
    \/ PushFails(m) /\ pending' = [pending EXCEPT ![m] = TRUE]

PushSend(m) ==
    /\ pc[m] = "send"
    /\ PushAndFlag(m)
    /\ Goto(m, "pull")
    /\ UNCHANGED <<local, conflicts, mem, todo, cur, modified, used, crashes>>

\* Pull succeeded: the state is loaded and its files restored.
PullDone(m) ==
    /\ pc[m] = "pull"
    /\ PullOk(m)
    /\ Goto(m, "restore")
    /\ mem' = [mem EXCEPT ![m] = work'[m].state]
    /\ todo' = [todo EXCEPT ![m] = {f \in File : work'[m].state[f] # None /\ Restores(m, f)}]
    /\ UNCHANGED <<local, pending, conflicts, cur, modified, used, crashes>>

\* The pull stopped in a conflict; one that HasConflicts misses passes for being offline.
PullStopped(m) ==
    /\ pc[m] = "pull"
    /\ PullConflict(m)
    /\ Goto(m, IF Detected(m, remote, theirs[m]) # {} THEN "resolve" ELSE "offline")
    /\ UNCHANGED <<local, pending, conflicts, mem, todo, cur, modified, used, crashes>>

\* Mutant: any failure of the pull passes for a conflict.
PullUnreachableResolves(m) ==
    /\ pc[m] = "pull"
    /\ PullFails(m)
    /\ Goto(m, "resolve")
    /\ UNCHANGED <<local, pending, conflicts, mem, todo, cur, modified, used, crashes>>

PullUnreachable(m) ==
    /\ pc[m] = "pull"
    /\ PullFails(m)
    /\ Goto(m, "offline")
    /\ UNCHANGED <<local, pending, conflicts, mem, todo, cur, modified, used, crashes>>

OfflinePush(m) ==
    /\ pc[m] = "offline"
    /\ PushAndFlag(m)
    /\ Finished(m, "idle")
    /\ UNCHANGED <<local, conflicts, used, crashes>>

\* Clean or missing: Restore.  Dirty files and entries without a blob are passed over.
RestoreSkip(m, f) ==
    /\ pc[m] = "restore" /\ f \in todo[m]
    /\ ~Missing(m, f) /\ ~Clean(m, f, mem[m][f])
    /\ todo' = [todo EXCEPT ![m] = @ \ {f}]
    /\ UNCHANGED <<local, git, work, dirty, pending, conflicts, pc, mem, cur, modified, used, crashes>>

\* Mutant: a dirty file is restored as well.
RestoreCheckDirty(m, f) ==
    /\ pc[m] = "restore" /\ f \in todo[m]
    /\ cur' = [cur EXCEPT ![m] = f]
    /\ Goto(m, "write")
    /\ UNCHANGED <<local, git, work, dirty, pending, conflicts, mem, todo, modified, used, crashes>>

RestoreCheck(m, f) ==
    /\ pc[m] = "restore" /\ f \in todo[m]
    /\ Missing(m, f) \/ Clean(m, f, mem[m][f])
    /\ cur' = [cur EXCEPT ![m] = f]
    /\ Goto(m, "write")
    /\ UNCHANGED <<local, git, work, dirty, pending, conflicts, mem, todo, modified, used, crashes>>

\* RetrieveFile, then WriteFile over whatever is there by now.
RestoreWrite(m) ==
    LET f == cur[m]
        stored == work[m].vault[f]
    IN  /\ pc[m] = "write"
        /\ local' = [local EXCEPT ![m][f] = IF stored = None THEN @ ELSE stored]
        /\ todo' = [todo EXCEPT ![m] = @ \ {f}]
        /\ cur' = [cur EXCEPT ![m] = None]
        /\ Goto(m, "restore")
        /\ UNCHANGED <<git, work, dirty, pending, conflicts, mem, modified, used, crashes>>

RestoreDone(m) ==
    /\ pc[m] = "restore" /\ todo[m] = {}
    /\ Goto(m, "finish")
    /\ UNCHANGED <<local, git, work, dirty, pending, conflicts, mem, todo, cur, modified, used, crashes>>

\* What the text driver makes of edits to different lines.
MergeEdits(b, l, r) == (l \cap r) \cup (l \ b) \cup (r \ b)

(***************************************************************************)
(* resolveConflicts and the commit after it.  The syncer decrypts the      *)
(* three versions and hands them to a registry whose StateDriver decrypts  *)
(* them again: the state never merges here.  A file added on both sides    *)
(* has no base version.  Both take the remote's, only the first is         *)
(* recorded.  Other files merge line by line unless both sides changed     *)
(* the same lines: overlap is the set of files where they did.             *)
(***************************************************************************)
SmartMerged(m, t, overlap) ==
    {f \in File \cap Detected(m, t, fetched[m]) : base[m].vault[f] # None /\ f \notin overlap}

\* Files both sides changed, to different contents; for others nothing overlaps.
Contested(m, t) ==
    {f \in File \cap Detected(m, t, fetched[m]) :
        Cardinality({base[m].vault[f], head[m].vault[f], t.vault[f]}) = 3}

\* The vault directory when these of the conflicting paths have been settled.
Settled(m, done, overlap) ==
    LET t == mergeHead[m]
        merged == MergedTree(m, t, fetched[m])
    IN  [state |-> IF StatePath \in done THEN t.state ELSE merged.state,
         vault |-> [f \in File |->
            IF f \notin done THEN merged.vault[f]
            ELSE IF f \in SmartMerged(m, t, overlap)
                 THEN MergeEdits(base[m].vault[f], head[m].vault[f], t.vault[f])
                 ELSE t.vault[f]]]

RecordSettled(m, done, overlap) ==
    conflicts' = [conflicts EXCEPT ![m] = @ \cup
        {p \in done : p = StatePath \/ (p \in overlap /\ base[m].vault[p] # None)}]

Resolve(m) ==
    LET t == mergeHead[m]
        seen == Detected(m, t, fetched[m])
    IN  /\ pc[m] = "resolve"
        /\ \E overlap \in SUBSET Contested(m, t) :
              /\ Conclude(m, Settled(m, seen, overlap),
                          (Kept(m, fetched[m]) \ seen) \cup SmartMerged(m, t, overlap))
              /\ RecordSettled(m, seen, overlap)
        /\ Goto(m, "finish")
        /\ UNCHANGED <<local, pending, mem, todo, cur, modified, used, crashes>>

\* Edits of the two sides that overlap but do not start on the same line index the
\* text driver's slice backwards: it panics, and the merge stays in progress, with what
\* came before that file staged and recorded.
MergePanics(m) ==
    LET t == mergeHead[m]
        seen == Detected(m, t, fetched[m])
    IN  /\ pc[m] = "resolve"
        /\ \E f \in SmartMerged(m, t, {}) \cap Contested(m, t) :
           \E done \in SUBSET (seen \ {f}) :
           \E overlap \in SUBSET (Contested(m, t) \cap done) :
              /\ work' = [work EXCEPT ![m] = Settled(m, done, overlap)]
              /\ dirty' = [dirty EXCEPT ![m] = @ \cup done]
              /\ RecordSettled(m, done, overlap)
        /\ Finished(m, "down")
        /\ UNCHANGED <<local, git, pending, used, crashes>>

FinishCommit(m) ==
    /\ pc[m] = "finish"
    /\ CommitAll(m)
    /\ Goto(m, "last_push")
    /\ UNCHANGED <<local, pending, conflicts, mem, todo, cur, modified, used, crashes>>

FinishPush(m) ==
    /\ pc[m] = "last_push"
    /\ PushAndFlag(m)
    /\ Finished(m, "idle")
    /\ UNCHANGED <<local, conflicts, used, crashes>>

-----------------------------------------------------------------------------
(***************************************************************************)
(* `dhd track` and `dhd untrack`: pull, change state and blob, commit,     *)
(* push with one retry.  A failed first pull is only a warning.            *)
(***************************************************************************)
StartCommand(m, f, name) ==
    /\ name \in Ops[m] /\ ~Busy(m)
    /\ cur' = [cur EXCEPT ![m] = f]
    /\ Goto(m, IF name = "track" THEN "track_pull" ELSE "untrack_pull")
    /\ UNCHANGED <<local, git, work, dirty, pending, conflicts, mem, todo, modified, used, crashes>>

StartTrack(m, f) == Restores(m, f) /\ StartCommand(m, f, "track")
StartUntrack(m, f) == StartCommand(m, f, "untrack")

CommandPull(m) ==
    /\ pc[m] \in {"track_pull", "untrack_pull"}
    /\ PullOk(m) \/ PullConflict(m) \/ PullFails(m)
    /\ Goto(m, IF pc[m] = "track_pull" THEN "track" ELSE "untrack")
    /\ UNCHANGED <<local, pending, conflicts, mem, todo, cur, modified, used, crashes>>

\* Already tracked, or no such file: nothing is done.
TrackRejected(m) ==
    /\ pc[m] = "track"
    /\ work[m].state[cur[m]] # None \/ Missing(m, cur[m])
    /\ Finished(m, "idle")
    /\ UNCHANGED <<local, git, work, dirty, pending, conflicts, used, crashes>>

\* Mutant: the entry is saved before the file is stored, and the store is left out.
TrackEntryOnly(m) ==
    LET f == cur[m]
    IN  /\ pc[m] = "track"
        /\ work[m].state[f] = None /\ ~Missing(m, f)
        /\ mem' = [mem EXCEPT ![m] = [work[m].state EXCEPT ![f] = local[m][f]]]
        /\ Goto(m, "cmd_save")
        /\ UNCHANGED <<local, git, work, dirty, pending, conflicts, todo, cur, modified, used, crashes>>

\* Track stores the file; the entry waits in memory for SaveState.
Track(m) ==
    LET f == cur[m]
    IN  /\ pc[m] = "track"
        /\ work[m].state[f] = None /\ ~Missing(m, f)
        /\ StoreFile(m, f, local[m][f])
        /\ mem' = [mem EXCEPT ![m] = [work[m].state EXCEPT ![f] = local[m][f]]]
        /\ Goto(m, "cmd_save")
        /\ UNCHANGED <<local, pending, conflicts, todo, cur, modified, used, crashes>>

UntrackRejected(m) ==
    /\ pc[m] = "untrack" /\ work[m].state[cur[m]] = None
    /\ Finished(m, "idle")
    /\ UNCHANGED <<local, git, work, dirty, pending, conflicts, used, crashes>>

\* RemoveFile deletes the blob; the entry goes with the next SaveState.
Untrack(m) ==
    LET f == cur[m]
    IN  /\ pc[m] = "untrack" /\ work[m].state[f] # None
        /\ StoreFile(m, f, None)
        /\ mem' = [mem EXCEPT ![m] = [work[m].state EXCEPT ![f] = None]]
        /\ Goto(m, "cmd_save")
        /\ UNCHANGED <<local, pending, conflicts, todo, cur, modified, used, crashes>>

CommandSave(m) ==
    /\ pc[m] = "cmd_save"
    /\ WriteState(m, mem[m])
    /\ Goto(m, "cmd_commit")
    /\ UNCHANGED <<local, pending, conflicts, mem, todo, cur, modified, used, crashes>>

CommandCommit(m) ==
    /\ pc[m] = "cmd_commit"
    /\ CommitAll(m)
    /\ Goto(m, "cmd_push")
    /\ UNCHANGED <<local, pending, conflicts, mem, todo, cur, modified, used, crashes>>

\* A rejected push is followed by one pull and one more push.
CommandPush(m) ==
    /\ pc[m] = "cmd_push"
    /\ \/ PushOk(m) /\ Finished(m, "idle")
       \/ PushFails(m) /\ Goto(m, "cmd_retry") /\ UNCHANGED <<mem, todo, cur, modified>>
    /\ UNCHANGED <<local, pending, conflicts, used, crashes>>

CommandRetryPull(m) ==
    /\ pc[m] = "cmd_retry"
    /\ \/ PullOk(m) /\ Goto(m, "cmd_last") /\ UNCHANGED <<mem, todo, cur, modified>>
       \/ (PullConflict(m) \/ PullFails(m)) /\ Finished(m, "idle")
    /\ UNCHANGED <<local, pending, conflicts, used, crashes>>

CommandRetryPush(m) ==
    /\ pc[m] = "cmd_last"
    /\ PushOk(m) \/ PushFails(m)
    /\ Finished(m, "idle")
    /\ UNCHANGED <<local, pending, conflicts, used, crashes>>

-----------------------------------------------------------------------------
(***************************************************************************)
(* The environment.                                                        *)
(***************************************************************************)
\* A command that has read f and is about to read or overwrite it again.
Exposed(m, f) == pc[m] \in {"sum_same", "sum_written", "write"} /\ cur[m] = f

UserEdit(m, f, e) ==
    /\ "edit" \in Ops[m]
    /\ e \notin used
    /\ RacyEdits \/ ~Exposed(m, f)
    /\ local' = [local EXCEPT ![m][f] = (IF @ = None THEN {} ELSE @) \cup {e}]
    /\ used' = used \cup {e}
    /\ UNCHANGED <<git, work, dirty, pending, conflicts, proc, crashes>>

UserDelete(m, f) ==
    /\ "delete" \in Ops[m]
    /\ ~Missing(m, f)
    /\ RacyEdits \/ ~Exposed(m, f)
    /\ local' = [local EXCEPT ![m][f] = None]
    /\ UNCHANGED <<git, work, dirty, pending, conflicts, proc, used, crashes>>

\* The process dies; disks stay.  Not modelled: dying in a command that runs on in a merge.
Crash(m) ==
    /\ Busy(m) /\ crashes < MaxCrashes
    /\ ~(Merging(m) /\ pc[m] \in CommandSteps)
    /\ crashes' = crashes + 1
    /\ Finished(m, "down")
    /\ UNCHANGED <<local, git, work, dirty, pending, conflicts, used>>

\* A keychain locks or unlocks: git runs the driver as a process of its own, which has to
\* load the vault again.  What it found stands until the merge is over.
KeychainChanges(m) ==
    /\ m \in DriverHosts /\ ~Merging(m)
    /\ locked' = [locked EXCEPT ![m] = ~@]
    /\ UNCHANGED <<local, remote, base, head, mergeHead, touched, theirs, fetched, behind, ahead,
                   history, work, dirty, pending, conflicts, proc, used, crashes>>

SyncStep(m) ==
    \/ \E f \in File : PushSkip(m, f) \/ PushStore(m, f) \/ RestoreSkip(m, f) \/ RestoreCheck(m, f)
    \/ PushChecksum(m) \/ PushSave(m) \/ PushCommit(m) \/ PushSend(m)
    \/ PullDone(m) \/ PullStopped(m) \/ PullUnreachable(m) \/ OfflinePush(m)
    \/ Resolve(m) \/ MergePanics(m)
    \/ RestoreWrite(m) \/ RestoreDone(m) \/ FinishCommit(m) \/ FinishPush(m)

CommandStep(m) ==
    \/ CommandPull(m) \/ TrackRejected(m) \/ Track(m) \/ UntrackRejected(m) \/ Untrack(m)
    \/ CommandSave(m) \/ CommandCommit(m) \/ CommandPush(m)
    \/ CommandRetryPull(m) \/ CommandRetryPush(m)

Next ==
    \E m \in Machine :
        \/ StartSync(m) \/ SyncStep(m) \/ CommandStep(m) \/ Crash(m) \/ KeychainChanges(m)
        \/ \E f \in File :
              \/ StartTrack(m, f) \/ StartUntrack(m, f) \/ UserDelete(m, f)
              \/ \E e \in Edit : UserEdit(m, f, e)

Spec == Init /\ [][Next]_vars

\* `dhd sync` is run again and again, whatever other commands are, and commands run on.
FairSpec == Spec /\ \A m \in Machine : SF_vars(StartSync(m)) /\ WF_vars(SyncStep(m))
                                     /\ WF_vars(CommandStep(m))

-----------------------------------------------------------------------------
(***************************************************************************)
(* Properties.                                                             *)
(***************************************************************************)
\* What git knows of each clone is true, through every pull, merge, abandoned merge and
\* push: a path outside touched, fetched, theirs or dirty is the same in the two trees
\* that set compares, and a clone with nothing ahead or behind is where it should be.
Same(t, u, p) ==
    /\ StatePath \notin p => t.state = u.state
    /\ \A f \in File \ p : t.vault[f] = u.vault[f]

Tip(m) == IF Merging(m) THEN mergeHead[m] ELSE base[m]

Bookkeeping ==
    \A m \in Machine :
        /\ Same(base[m], head[m], touched[m])
        /\ Same(base[m], Tip(m), fetched[m])
        /\ Same(Tip(m), remote, theirs[m])
        /\ Same(MergedTree(m, Tip(m), fetched[m]), work[m], dirty[m])
        /\ ~Merging(m) => fetched[m] = {}
        /\ ~ahead[m] => head[m] = base[m]
        /\ ~behind[m] => remote = Tip(m)

\* A file the state lists can be restored: in every tree git may hand to a machine,
\* an entry comes with its blob, however state and blobs were merged.
HasBlobs(tree) == \A f \in File : tree.state[f] # None => tree.vault[f] # None

EntryHasBlob ==
    /\ HasBlobs(remote)
    /\ \A m \in Machine : HasBlobs(head[m]) /\ HasBlobs(work[m])

\* What a sync writes over in a user's file, git can give back: no edit is destroyed.
OverwriteRecoverable ==
    [][\A m \in Machine, f \in File :
          used' = used /\ local[m][f] # None /\ local'[m][f] \notin {local[m][f], None}
              => local[m][f] \in history[f]]_vars

\* A sync that ran to its end leaves no commit behind unflagged: the pending
\* push notice is there whenever the remote lacks one of this machine's commits.
BacklogFlagged ==
    [][\A m \in Machine :
          pc[m] \in SyncSteps /\ pc'[m] = "idle" /\ ahead'[m] => pending'[m]]_vars

\* A commit of Push changes some content, not ciphertext alone: syncing when
\* nothing changed makes no commit that the other machines would pull in turn.
NoSpuriousCommit ==
    [][\A m \in Machine :
          pc[m] = "commit" /\ ahead'[m] /\ ~ahead[m] => head'[m] # head[m]]_vars

\* A push replaces nothing on the remote but what this machine itself wrote or
\* resolved on top of it: what it has not integrated, it cannot overwrite.
PushKeepsUnseen ==
    [][\A m \in Machine : ahead[m] /\ ~ahead'[m] =>
          /\ remote'.state # remote.state => StatePath \in touched[m]
          /\ \A f \in File : remote'.vault[f] # remote.vault[f] => f \in touched[m]]_vars

\* A merge left unfinished, by a crash or by a conflict that HasConflicts does not
\* see, is cleared away: the vault never stays stuck.
StuckMergeRecovered == \A m \in Machine : Merging(m) ~> ~Merging(m)

(***************************************************************************)
(* What comments in the code say and the code does not do: each is the     *)
(* subject of a finding.                                                   *)
(***************************************************************************)
\* "If the local file has been modified since the last sync, it is newer than the
\* vault content" (sync.go:139): what Push stores over a blob is not a mere part of it,
\* an older copy that no user of this machine has touched.  Users only add edits.
StoresNewer ==
    [][\A m \in Machine, f \in File :
          pc[m] = "push" /\ pc'[m] = "sum_written" /\ cur'[m] = f /\ work[m].vault[f] # None
              => ~(local[m][f] \subseteq work[m].vault[f])]_vars

\* "True conflicts are also written to the conflict store for user review"
\* (sync.go:413): when resolveConflicts settles a file that both sides changed, to
\* different contents, on the remote's version, it records the conflict.
DiscardRecorded ==
    [][\A m \in Machine : pc[m] = "resolve" /\ pc'[m] = "finish" =>
          \A f \in File \cap Detected(m, mergeHead[m], fetched[m]) :
             Cardinality({base[m].vault[f], head[m].vault[f], mergeHead[m].vault[f]}) = 3
             /\ head'[m].vault[f] = mergeHead[m].vault[f] => f \in conflicts'[m]]_vars
=============================================================================
