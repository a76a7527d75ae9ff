---------------------------- MODULE SecretVault ----------------------------
(***************************************************************************)
(* Named secrets: cmd/secret.go, vaultCommitPush of cmd/vault_ops.go, the  *)
(* secret half of internal/storage with its migration of the legacy        *)
(* format, and the two handlers of the web UI that write secrets.          *)
(*                                                                         *)
(* One clone of the vault runs commands step by step, one after the other: *)
(* all but unref take the process lock, and what unref, which does not,    *)
(* does to a command already running is left out.  At any time it may      *)
(* crash, be offline, or find that another machine has run a command of    *)
(* its own, which then happens at once on the remote.  A secret is a file  *)
(* of its own that holds every version; the state keeps an index entry for *)
(* it or, in the legacy format, its one value.                             *)
(*                                                                         *)
(* Abstractions.  Versions are numbered without gaps (nextVersion), so the *)
(* map from "vN" to values is a sequence.  A mapping is a member of        *)
(* RefFile: a namespace and a file, with one key.  Every write gives new   *)
(* ciphertext: a path written on both sides since the merge base is a      *)
(* conflict (the clone has no merge driver; VaultSync has it).             *)
(***************************************************************************)
EXTENDS Naturals, Sequences, FiniteSets

CONSTANTS
    None,         \* no such file, entry or value
    Name,         \* names of secrets
    Value,        \* values users enter: a bound on their number
    Old,          \* the value a legacy entry holds
    Legacy,       \* names that a vault in the legacy format holds inline
    RefFile,      \* mapped files: namespace and file
    Bound,        \* those whose namespace has a binding here and are not ignored
    Ops, PeerOps, \* what this clone and the other machine may do, of AllOps
    Unmigrated,   \* may sync and the web UI run on a vault in the legacy format?
    Overlap,      \* may a handler of the web UI run between two steps of a command?
    MaxJobs,      \* bound on the commands and requests of this clone
    MaxPeer,      \* bound on the commands of the other machine
    MaxCrashes    \* bound on the crashes

Commands == {"set", "rotate", "rollback", "ref", "unref", "delete", "rename"}
AllOps == Commands \cup {"sync", "web_create", "web_rotate"}
StatePath == "state.toml.age"
Path == Name \cup {StatePath}

Secret == [latest : Nat, versions : Seq(Value), refs : SUBSET RefFile]
IndexEntry == [latest : Nat, count : Nat]
LegacyEntry == [value : Value, refs : SUBSET RefFile]
Tree == [file  : [Name -> Secret \cup {None}],
         state : [Name -> IndexEntry \cup LegacyEntry \cup {None}]]

ASSUME ConstantsAssumption ==
    /\ Name # {} /\ IsFiniteSet(Value)
    /\ None \notin Secret /\ None \notin LegacyEntry /\ None \notin Tree
    /\ Old \in Value /\ None \notin Value /\ None \notin Name /\ None \notin RefFile
    /\ StatePath \notin Name
    /\ Legacy \subseteq Name
    /\ Bound \subseteq RefFile
    /\ Ops \subseteq AllOps /\ PeerOps \subseteq Commands
    /\ Unmigrated \in BOOLEAN /\ Overlap \in BOOLEAN
    /\ MaxJobs \in Nat /\ MaxPeer \in Nat /\ MaxCrashes \in Nat

VARIABLES
    remote,     \* the remote's tree
    head,       \* the tree of HEAD
    work,       \* the vault directory
    mergeHead,  \* the tree of MERGE_HEAD, None when not merging
    touched,    \* paths where HEAD's blob is not that of the remote commit integrated last
    dirty,      \* paths of the vault directory not yet committed
    theirs,     \* paths the remote changed since the last fetch
    fetched,    \* while merging, the paths MERGE_HEAD changed
    behind,     \* the remote has commits this clone has not fetched
    ahead,      \* this clone has commits the remote does not have
    replaced,   \* names this clone deleted, created anew or settled on ours in a conflict, unpushed
    erased,     \* values never stored, or that a delete or a create over them took away
    envFile,    \* the value in each mapped file
    pc,         \* where the command is
    job,        \* the command: op, name, arg and value
    mem,        \* the index it loaded and changed
    todo,       \* mapped files it still has to write
    used,       \* values entered so far
    jobs,       \* commands and requests run here
    peers,      \* commands the other machine has run
    crashes     \* crashes so far

git == <<remote, head, mergeHead, touched, theirs, fetched, behind, ahead>>
proc == <<pc, job, mem, todo>>
bounds == <<used, jobs, peers, crashes>>
vars == <<git, work, dirty, replaced, erased, envFile, proc, bounds>>

\* Every secret has the version that is current.
Current(t) == \A n \in Name : t.file[n] # None => t.file[n].latest \in DOMAIN t.file[n].versions

Job == [op : AllOps, name : Name, arg : Name \cup RefFile \cup Nat \cup {None},
        value : Value \cup {None}]
NoJob == [op |-> "sync", name |-> CHOOSE n \in Name : TRUE, arg |-> None, value |-> None]

Steps == {"pull", "migrate", "migrate_commit", "migrate_push", "apply", "drop_old", "save",
          "commit", "push", "retry_pull", "retry_push", "refs", "sync_save", "sync_commit", "sync_push"}

TypeOK ==
    /\ remote \in Tree /\ head \in Tree /\ work \in Tree
    /\ mergeHead \in Tree \cup {None}
    /\ Current(remote) /\ Current(head) /\ Current(work) /\ (mergeHead # None => Current(mergeHead))
    /\ touched \subseteq Path /\ dirty \subseteq Path
    /\ theirs \subseteq Path /\ fetched \subseteq Path
    /\ behind \in BOOLEAN /\ ahead \in BOOLEAN
    /\ replaced \subseteq Name /\ erased \subseteq Value
    /\ envFile \in [RefFile -> Value \cup {None}]
    /\ pc \in Steps \cup {"idle"} /\ job \in Job
    /\ mem \in [Name -> IndexEntry \cup LegacyEntry \cup {None}]
    /\ todo \subseteq RefFile /\ used \subseteq Value
    /\ jobs \in 0 .. MaxJobs /\ peers \in 0 .. MaxPeer /\ crashes \in 0 .. MaxCrashes

-----------------------------------------------------------------------------
(***************************************************************************)
(* internal/storage: secret files, the index and the legacy format.        *)
(***************************************************************************)
IsInline(e) == e # None /\ "value" \in DOMAIN e
HasLegacySecrets(s) == \E n \in Name : IsInline(s[n])

\* The decoder ignores the fields it does not know: an inline secret becomes
\* an entry with an empty Latest and no versions.
LoadState(s) == [n \in Name |-> IF IsInline(s[n]) THEN [latest |-> 0, count |-> 0] ELSE s[n]]

Initial(v, refs) == [latest |-> 1, versions |-> <<v>>, refs |-> refs]

\* Mutant: nextVersion is the largest.
AddVersionReusing(sf, v) ==
    [sf EXCEPT !.versions[Len(sf.versions)] = v, !.latest = Len(sf.versions)]

\* nextVersion is one more than the largest.
AddVersion(sf, v) == [sf EXCEPT !.versions = Append(@, v), !.latest = Len(sf.versions) + 1]

LatestValue(sf) == sf.versions[sf.latest]
Indexed(sf) == [latest |-> sf.latest, count |-> Len(sf.versions)]

\* Names that MigrateIfNeeded still has to write a file for.
Unwritten(t) == {n \in Name : IsInline(t.state[n]) /\ t.file[n] = None}

MigratedFile(t, n) ==
    IF n \in Unwritten(t) THEN Initial(t.state[n].value, t.state[n].refs) ELSE t.file[n]

\* The rewritten index says v1 of 1 for every entry, migrated now or before.
MigratedState(t) ==
    [n \in Name |-> IF t.state[n] = None THEN None ELSE [latest |-> 1, count |-> 1]]

MigrateIfNeeded(t) ==
    IF HasLegacySecrets(t.state)
    THEN [file |-> [n \in Name |-> MigratedFile(t, n)], state |-> MigratedState(t)]
    ELSE t

(***************************************************************************)
(* What the commands do to the files and the index, given as fn to         *)
(* vaultCommitPush.                                                        *)
(***************************************************************************)
\* Mutant: rollback does not look the version up.
AcceptsAnyVersion(files, j) ==
    LET sf == files[j.name]
    IN  CASE j.op \in {"set", "delete"} -> TRUE
          [] j.op = "unref" -> sf # None /\ j.arg \in sf.refs
          [] j.op = "rename" -> sf # None /\ files[j.arg] = None
          [] OTHER -> sf # None

\* fn returns no error.
Accepts(files, j) ==
    LET sf == files[j.name]
    IN  CASE j.op \in {"set", "delete"} -> TRUE
          [] j.op = "rollback" -> sf # None /\ j.arg \in DOMAIN sf.versions
          [] j.op = "unref" -> sf # None /\ j.arg \in sf.refs
          [] j.op = "rename" -> sf # None /\ files[j.arg] = None
          [] OTHER -> sf # None

\* The secret each command saves: sf, changed.
SetSecret(sf, v) == IF sf = None THEN Initial(v, {}) ELSE AddVersion(sf, v)
RotateSecret(sf, v) == AddVersion(sf, v)
RollbackSecret(sf, i) == [sf EXCEPT !.latest = i]
RefSecret(sf, f) == [sf EXCEPT !.refs = @ \cup {f}]
UnrefSecret(sf, f) == [sf EXCEPT !.refs = @ \ {f}]
DeleteSecret == None

Saved(files, j) ==
    LET sf == files[j.name]
    IN  CASE j.op = "set" -> SetSecret(sf, j.value)
          [] j.op = "rotate" -> RotateSecret(sf, j.value)
          [] j.op = "rollback" -> RollbackSecret(sf, j.arg)
          [] j.op = "ref" -> RefSecret(sf, j.arg)
          [] j.op = "unref" -> UnrefSecret(sf, j.arg)
          [] j.op = "delete" -> DeleteSecret
          [] j.op = "rename" -> sf

\* Where it saves it.
Target(j) == IF j.op = "rename" THEN j.arg ELSE j.name

\* The index it saves.
Reindexed(s, files, j) ==
    CASE j.op \in {"set", "rotate"} -> [s EXCEPT ![j.name] = Indexed(Saved(files, j))]
      [] j.op = "rollback" -> [s EXCEPT ![j.name] =
                                  IF @ = None THEN None ELSE [@ EXCEPT !.latest = j.arg]]
      [] j.op = "delete" -> [s EXCEPT ![j.name] = None]
      [] j.op = "rename" /\ s[j.name] # None ->
            [s EXCEPT ![j.arg] = s[j.name], ![j.name] = None]
      [] OTHER -> s

\* set, rotate and rollback put a new UpdatedAt into the entry.
Stamps(s, j) == j.op \in {"set", "rotate"} \/ (j.op = "rollback" /\ s[j.name] # None)

-----------------------------------------------------------------------------
(***************************************************************************)
(* git, as the commands use it.                                            *)
(***************************************************************************)
Merging == mergeHead # None

\* Deleted here and written there: git leaves the written file in place.
TakesTheirs(p, n) == n \in p /\ (n \notin touched \/ head.file[n] = None)
StateIsTheirs(p) == StatePath \in p \ touched

MergedTree(t, p) ==
    [file  |-> [n \in Name |-> IF TakesTheirs(p, n) THEN t.file[n] ELSE head.file[n]],
     state |-> IF StateIsTheirs(p) THEN t.state ELSE head.state]

\* Written on both sides, or written on one and deleted on the other.
Conflicts(t, p) ==
    {n \in Name \cap touched \cap p : head.file[n] # None \/ t.file[n] # None}
        \cup ({StatePath} \cap touched \cap p)

\* Of the paths we touched, those whose merged blob is not theirs.
Kept(p) == touched \ {n \in Name : TakesTheirs(p, n)}

\* Names where ours stays in place of what the other machine wrote.
Overridden(t, p) == {n \in Conflicts(t, p) \cap Name : head.file[n] # None /\ t.file[n] # None}

\* The vault directory after its tree changed: what is not committed stays.
Checkout(tree) ==
    [file  |-> [n \in Name |-> IF n \in dirty THEN work.file[n] ELSE tree.file[n]],
     state |-> IF StatePath \in dirty THEN work.state ELSE tree.state]

PullAllowed == ~Merging /\ dirty \cap theirs = {}

PullCurrent == PullAllowed /\ ~behind /\ UNCHANGED <<git, work, dirty, replaced>>

PullForward ==
    /\ PullAllowed /\ behind /\ ~ahead
    /\ head' = remote
    /\ work' = Checkout(remote)
    /\ theirs' = {} /\ behind' = FALSE
    /\ UNCHANGED <<remote, mergeHead, touched, dirty, fetched, ahead, replaced>>

PullMerge ==
    /\ PullAllowed /\ behind /\ ahead
    /\ Conflicts(remote, theirs) = {}
    /\ head' = MergedTree(remote, theirs)
    /\ work' = Checkout(head')
    /\ touched' = Kept(theirs)
    /\ theirs' = {} /\ behind' = FALSE
    /\ UNCHANGED <<remote, mergeHead, dirty, fetched, ahead, replaced>>

PullConflict ==
    /\ PullAllowed /\ behind /\ ahead
    /\ Conflicts(remote, theirs) # {}
    /\ mergeHead' = remote
    /\ fetched' = theirs
    /\ work' = Checkout(MergedTree(remote, theirs))
    /\ theirs' = {} /\ behind' = FALSE
    /\ UNCHANGED <<remote, head, touched, dirty, ahead, replaced>>

PullOk == PullCurrent \/ PullForward \/ PullMerge
PullFails == UNCHANGED <<git, work, dirty, replaced>>

\* git add -A, git commit: concludes a merge with what is in the directory.
CommitAll ==
    /\ head' = work
    /\ dirty' = {}
    /\ IF Merging
       THEN /\ touched' = Kept(fetched) \cup dirty
            /\ replaced' = replaced \cup Overridden(mergeHead, fetched)
            /\ mergeHead' = None /\ fetched' = {} /\ ahead' = TRUE
       ELSE /\ touched' = touched \cup dirty
            /\ ahead' = (ahead \/ dirty # {})
            /\ UNCHANGED <<mergeHead, fetched, replaced>>
    /\ UNCHANGED <<remote, work, theirs, behind>>

\* The remote takes fast-forwards only.
PushOk ==
    /\ ~behind /\ ~Merging
    /\ remote' = head
    /\ touched' = {} /\ ahead' = FALSE
    /\ replaced' = replaced \cap dirty
    /\ UNCHANGED <<head, work, mergeHead, dirty, theirs, fetched, behind>>

PushFails == UNCHANGED <<git, work, dirty, replaced>>

WriteFile(n, sf) ==
    /\ work' = [work EXCEPT !.file[n] = sf]
    /\ dirty' = dirty \cup {n}
    /\ UNCHANGED git

WriteState(s) ==
    /\ work' = [work EXCEPT !.state = s]
    /\ dirty' = dirty \cup {StatePath}
    /\ UNCHANGED git

\* The values a file holds.
Values(sf) == IF sf = None THEN {} ELSE {sf.versions[i] : i \in DOMAIN sf.versions}

-----------------------------------------------------------------------------
(***************************************************************************)
(* A command: vaultCommitPush, then the files the secret is mapped to.     *)
(***************************************************************************)
NoIndex == [n \in Name |-> None]
Return == pc' = "idle" /\ job' = NoJob /\ mem' = NoIndex /\ todo' = {}

NextValue == CHOOSE v \in Value : v \notin used
CanEnter == \E v \in Value : v \notin used

\* What a user may ask for.
Asked(o) ==
    LET j(arg, v) == {[op |-> o, name |-> n, arg |-> arg, value |-> v] : n \in Name}
    IN  CASE o \in {"set", "rotate"} -> IF CanEnter THEN j(None, NextValue) ELSE {}
          [] o = "rollback" -> UNION {j(i, None) : i \in 1 .. Cardinality(Value)}
          [] o \in {"ref", "unref"} -> UNION {j(f, None) : f \in RefFile}
          [] o = "delete" -> j(None, None)
          [] o = "rename" -> {x \in UNION {j(n, None) : n \in Name} : x.arg # x.name}

\* mustLock, for unref an assumption: it loads, saves and commits without the lock.
Start ==
    /\ pc = "idle" /\ jobs < MaxJobs
    /\ \E o \in Ops \cap Commands : \E j \in Asked(o) :
        /\ job' = j
        /\ used' = used \cup ({j.value} \ {None})
    /\ pc' = "pull" /\ jobs' = jobs + 1
    /\ UNCHANGED <<git, work, dirty, replaced, erased, envFile, mem, todo, peers, crashes>>

\* Offline or in a conflict, the command goes on with what it has.
Pull ==
    /\ pc = "pull"
    /\ PullOk \/ PullConflict \/ PullFails
    /\ pc' = "migrate"
    /\ UNCHANGED <<erased, envFile, job, mem, todo, bounds>>

\* Mutant: the state is rewritten before the files are there.
MigrateStateFirst ==
    /\ pc = "migrate" /\ HasLegacySecrets(work.state)
    /\ WriteState(MigratedState(work))
    /\ pc' = "migrate_commit"
    /\ UNCHANGED <<replaced, erased, envFile, job, mem, todo, bounds>>

MigrateFile ==
    /\ pc = "migrate"
    /\ \E n \in Unwritten(work) : WriteFile(n, MigratedFile(work, n))
    /\ UNCHANGED <<replaced, erased, envFile, proc, bounds>>

MigrateState ==
    /\ pc = "migrate" /\ HasLegacySecrets(work.state) /\ Unwritten(work) = {}
    /\ WriteState(MigratedState(work))
    /\ pc' = "migrate_commit"
    /\ UNCHANGED <<replaced, erased, envFile, job, mem, todo, bounds>>

MigrateNothing ==
    /\ pc = "migrate" /\ ~HasLegacySecrets(work.state)
    /\ pc' = "apply"
    /\ UNCHANGED <<git, work, dirty, replaced, erased, envFile, job, mem, todo, bounds>>

MigrateCommit ==
    /\ pc = "migrate_commit"
    /\ CommitAll
    /\ pc' = "migrate_push"
    /\ UNCHANGED <<erased, envFile, job, mem, todo, bounds>>

MigratePush ==
    /\ pc = "migrate_push"
    /\ PushOk \/ PushFails
    /\ pc' = "apply"
    /\ UNCHANGED <<erased, envFile, job, mem, todo, bounds>>

\* LoadState and fn, up to its first write.
Apply ==
    /\ pc = "apply" /\ Accepts(work.file, job)
    /\ mem' = Reindexed(LoadState(work.state), work.file, job)
    /\ WriteFile(Target(job), Saved(work.file, job))
    /\ replaced' = IF job.op = "delete" THEN replaced \cup {job.name} ELSE replaced
    /\ erased' = IF job.op = "delete" THEN erased \cup Values(work.file[job.name]) ELSE erased
    /\ pc' = IF job.op = "rename" THEN "drop_old" ELSE "save"
    /\ todo' = IF job.op = "ref" THEN {job.arg} ELSE {}
    /\ job' = IF job.op = "ref" THEN [job EXCEPT !.value = LatestValue(work.file[job.name])] ELSE job
    /\ UNCHANGED <<envFile, bounds>>

ApplyFails ==
    /\ pc = "apply" /\ ~Accepts(work.file, job)
    /\ Return
    /\ UNCHANGED <<git, work, dirty, replaced, erased, envFile, bounds>>

\* rename removes the old file after it has saved the new one.
DropOld ==
    /\ pc = "drop_old"
    /\ WriteFile(job.name, None)
    /\ replaced' = replaced \cup {job.name}
    /\ pc' = "save"
    /\ UNCHANGED <<erased, envFile, job, mem, todo, bounds>>

\* SaveState writes only what has changed.
Save ==
    /\ pc = "save"
    /\ IF mem = work.state /\ ~Stamps(work.state, job)
       THEN UNCHANGED <<git, work, dirty>>
       ELSE WriteState(mem)
    /\ pc' = "commit"
    /\ mem' = NoIndex
    /\ UNCHANGED <<replaced, erased, envFile, job, todo, bounds>>

Commit ==
    /\ pc = "commit"
    /\ CommitAll
    /\ pc' = "push"
    /\ UNCHANGED <<erased, envFile, job, mem, todo, bounds>>

\* Mutant: the mapped files get the newest version.
SucceedWithNewest ==
    /\ pc' = "refs"
    /\ IF job.op \in {"set", "rotate", "rollback"} /\ work.file[job.name] # None
       THEN /\ todo' = work.file[job.name].refs \cap Bound
            /\ job' = [job EXCEPT !.value =
                            work.file[job.name].versions[Len(work.file[job.name].versions)]]
       ELSE UNCHANGED <<todo, job>>
    /\ UNCHANGED <<erased, envFile, mem, bounds>>

\* The vault has the change; set, rotate and rollback reload the secret and go
\* through its mappings, ref writes the one it has added.
Succeed ==
    /\ pc' = "refs"
    /\ IF job.op \in {"set", "rotate", "rollback"} /\ work.file[job.name] # None
       THEN /\ todo' = work.file[job.name].refs \cap Bound
            /\ job' = [job EXCEPT !.value = LatestValue(work.file[job.name])]
       ELSE UNCHANGED <<todo, job>>
    /\ UNCHANGED <<erased, envFile, mem, bounds>>

GiveUp == Return /\ UNCHANGED <<erased, envFile, bounds>>

\* Mutant: a push that fails is a warning.
PushOrWarn ==
    /\ pc = "push"
    /\ PushOk \/ PushFails
    /\ Succeed

Push ==
    /\ pc = "push"
    /\ \/ PushOk /\ Succeed
       \/ PushFails /\ pc' = "retry_pull" /\ UNCHANGED <<erased, envFile, job, mem, todo, bounds>>

RetryPull ==
    /\ pc = "retry_pull"
    /\ \/ PullOk /\ pc' = "retry_push" /\ UNCHANGED <<erased, envFile, job, mem, todo, bounds>>
       \/ (PullConflict \/ PullFails) /\ GiveUp

RetryPush ==
    /\ pc = "retry_push"
    /\ \/ PushOk /\ Succeed
       \/ PushFails /\ GiveUp

\* updateFileWithSecret; a mapping without a binding is an error or a warning.
WriteEnvFile ==
    /\ pc = "refs"
    /\ \E f \in todo :
        /\ todo' = todo \ {f}
        /\ envFile' = IF f \in Bound THEN [envFile EXCEPT ![f] = job.value] ELSE envFile
    /\ UNCHANGED <<git, work, dirty, replaced, erased, pc, job, mem, bounds>>

Finish ==
    /\ pc = "refs" /\ todo = {}
    /\ Return
    /\ UNCHANGED <<git, work, dirty, replaced, erased, envFile, bounds>>

Crash ==
    /\ pc # "idle" /\ crashes < MaxCrashes
    /\ crashes' = crashes + 1
    /\ Return
    /\ UNCHANGED <<git, work, dirty, replaced, erased, envFile, used, jobs, peers>>

-----------------------------------------------------------------------------
(***************************************************************************)
(* Others who write: the push half of a sync that has stored a tracked     *)
(* file, the web UI, another machine.                                      *)
(***************************************************************************)
MayRewriteState == Unmigrated \/ ~HasLegacySecrets(work.state)

SyncStart ==
    /\ pc = "idle" /\ "sync" \in Ops /\ ~Merging /\ MayRewriteState /\ jobs < MaxJobs
    /\ pc' = "sync_save" /\ jobs' = jobs + 1
    /\ UNCHANGED <<git, work, dirty, replaced, erased, envFile, job, mem, todo, used, peers, crashes>>

\* LoadState and SaveState of Syncer.Push: it never calls MigrateIfNeeded.
SyncSave ==
    /\ pc = "sync_save"
    /\ WriteState(LoadState(work.state))
    /\ pc' = "sync_commit"
    /\ UNCHANGED <<replaced, erased, envFile, job, mem, todo, bounds>>

SyncCommit ==
    /\ pc = "sync_commit"
    /\ CommitAll
    /\ pc' = "sync_push"
    /\ UNCHANGED <<erased, envFile, job, mem, todo, bounds>>

SyncPush ==
    /\ pc = "sync_push"
    /\ PushOk \/ PushFails
    /\ GiveUp

WebMayRun == (pc = "idle" \/ Overlap) /\ CanEnter /\ jobs < MaxJobs

\* A new file with the one version, whether there was one or not; nothing is committed.
WebCreate ==
    /\ WebMayRun /\ "web_create" \in Ops /\ MayRewriteState
    /\ \E n \in Name :
        /\ work' = [file |-> [work.file EXCEPT ![n] = Initial(NextValue, {})],
                    state |-> [LoadState(work.state) EXCEPT ![n] = [latest |-> 1, count |-> 1]]]
        /\ dirty' = dirty \cup {n, StatePath}
        /\ replaced' = replaced \cup {n}
        /\ erased' = erased \cup Values(work.file[n])
    /\ used' = used \cup {NextValue} /\ jobs' = jobs + 1
    /\ UNCHANGED <<git, envFile, proc, peers, crashes>>

\* A new version; the index is not updated, nothing is committed.
WebRotate ==
    /\ WebMayRun /\ "web_rotate" \in Ops
    /\ \E n \in Name :
        /\ work.file[n] # None
        /\ WriteFile(n, AddVersion(work.file[n], NextValue))
    /\ used' = used \cup {NextValue} /\ jobs' = jobs + 1
    /\ UNCHANGED <<replaced, erased, envFile, proc, peers, crashes>>

\* The tree after a command of a machine that has fetched everything.
AfterPeer(t, j) ==
    LET new == [t.file EXCEPT ![Target(j)] = Saved(t.file, j)]
    IN  [file  |-> IF j.op = "rename" THEN [new EXCEPT ![j.name] = None] ELSE new,
         state |-> Reindexed(LoadState(t.state), t.file, j)]

Peer ==
    /\ peers < MaxPeer
    /\ \E o \in PeerOps : \E j \in Asked(o) :
        LET start == MigrateIfNeeded(remote)
            tree == AfterPeer(start, j)
        IN  /\ Accepts(start.file, j)
            /\ remote' = tree
            /\ theirs' = theirs \cup {n \in Name : tree.file[n] # remote.file[n]} \cup {Target(j)}
                            \cup (IF tree.state # remote.state \/ Stamps(start.state, j)
                                  THEN {StatePath} ELSE {})
            /\ erased' = IF o = "delete" THEN erased \cup Values(start.file[j.name]) ELSE erased
            /\ used' = used \cup ({j.value} \ {None})
    /\ behind' = TRUE
    /\ peers' = peers + 1
    /\ UNCHANGED <<head, mergeHead, touched, fetched, ahead, work, dirty, replaced, envFile, proc,
                   jobs, crashes>>

-----------------------------------------------------------------------------
Init ==
    \E legacy \in {{}, Legacy} :
        LET tree == [file  |-> [n \in Name |-> None],
                     state |-> [n \in Name |-> IF n \in legacy THEN [value |-> Old, refs |-> {}]
                                               ELSE None]]
        IN  /\ remote = tree /\ head = tree /\ work = tree
            /\ mergeHead = None
            /\ touched = {} /\ dirty = {} /\ theirs = {} /\ fetched = {}
            /\ behind = FALSE /\ ahead = FALSE
            /\ replaced = {} /\ erased = IF legacy = {} THEN {Old} ELSE {}
            /\ envFile = [f \in RefFile |-> None]
            /\ pc = "idle" /\ job = NoJob
            /\ mem = NoIndex
            /\ todo = {}
            /\ used = {Old}
            /\ jobs = 0 /\ peers = 0 /\ crashes = 0

Migrate == MigrateFile \/ MigrateState \/ MigrateNothing \/ MigrateCommit \/ MigratePush
Command == Start \/ Pull \/ Migrate \/ Apply \/ ApplyFails \/ DropOld \/ Save \/ Commit \/ Push
              \/ RetryPull \/ RetryPush \/ WriteEnvFile \/ Finish
Sync == SyncStart \/ SyncSave \/ SyncCommit \/ SyncPush
Next == Command \/ Crash \/ Sync \/ WebCreate \/ WebRotate \/ Peer

Spec == Init /\ [][Next]_vars

-----------------------------------------------------------------------------
(***************************************************************************)
(* What the program promises.                                              *)
(***************************************************************************)
\* sf holds every version of old, under its number and with its value.
Extends(sf, old) ==
    old # None => /\ sf # None
                  /\ \A i \in DOMAIN old.versions :
                        i \in DOMAIN sf.versions /\ sf.versions[i] = old.versions[i]

\* "Immutable history": whatever a push can put in place of the remote's
\* tree holds all its versions, unless this clone deleted or renamed the
\* secret, created it anew in the web UI, or settled a conflict on ours.
PushKeepsVersions ==
    ~behind /\ ~Merging => \A n \in Name \ replaced : Extends(head.file[n], remote.file[n])

\* A command that reports success has its change at the remote, after one try
\* or two, whatever the merges in between and what a crash had left behind.
Published(tree, j) ==
    LET sf == tree.file[j.name]
    IN  CASE j.op \in {"set", "rotate"} -> sf # None /\ LatestValue(sf) = j.value /\ sf.latest = Len(sf.versions)
          [] j.op = "rollback" -> sf # None /\ sf.latest = j.arg
          [] j.op = "ref" -> sf # None /\ j.arg \in sf.refs
          [] j.op = "unref" -> sf # None /\ j.arg \notin sf.refs
          [] j.op = "delete" -> sf = None
          [] j.op = "rename" -> sf = None /\ tree.file[j.arg] # None

PublishedOnSuccess == [][pc # "refs" /\ pc' = "refs" => Published(remote', job)]_vars

\* When set, rotate or rollback end, the mapped files of this machine hold the
\* value that is current at the remote this clone has last pushed to or pulled.
FilesFollow ==
    [][pc = "refs" /\ pc' = "idle" /\ crashes' = crashes /\ job.op \in {"set", "rotate", "rollback"} =>
         \A f \in head.file[job.name].refs \cap Bound :
            envFile[f] = LatestValue(head.file[job.name])]_vars

\* The migration of the legacy format loses no value, wherever it dies and
\* whoever else migrates: it is inline or in a file until a user removes it.
InlineValues(t) == {t.state[n].value : n \in {x \in Name : IsInline(t.state[x])}}
LegacyKept ==
    \A t \in {head, work} : Old \in erased \cup InlineValues(t) \cup UNION {Values(t.file[n]) : n \in Name}
=============================================================================
