------------------------------- MODULE Daemon -------------------------------
(***************************************************************************)
(* The background daemon of one machine: the loop and the conflict         *)
(* resolution of internal/daemon/runner.go, the halt file, the service     *)
(* manager that starts the daemon again, the conflict store, and the       *)
(* commands and web pages by which a user answers: `dhd conflicts resolve` *)
(* and `clear`, `dhd daemon start`, `stop`, `restart` and `resume`.        *)
(*                                                                         *)
(* Abstractions.  VaultSync has the sync engine and git in full.  Here a   *)
(* path of the vault is only what its last conflict was settled on, and    *)
(* Syncer.Sync is its pre-flight, its pull, which may stop in a conflict,  *)
(* its resolveConflicts and its commit.  Codes are those of `git status`:  *)
(* written on both sides (UU), added on both (AA), deleted by them (UD),   *)
(* deleted by us (DU).  The user runs one command at a time, at any time:  *)
(* nothing keeps a command and a cycle of the daemon apart.                *)
(***************************************************************************)
EXTENDS Naturals, FiniteSets

CONSTANTS
    None,         \* not in conflict, or no record
    Broken,       \* a conflict store that does not parse
    File,         \* paths of the vault
    StatePath,    \* the path of the state, or None
    Env,          \* paths of tracked files named .env or .env.*
    User,         \* what users may do, of AllUser
    MaxConflicts, \* bound on the merges that stop
    MaxCommands,  \* bound on the commands of the user
    MaxCrashes    \* bound on the crashes

AllUser == {"resolve", "web", "clear", "resume", "start", "stop", "restart", "sync", "other"}
Code == {"UU", "AA", "UD", "DU"}
Content == {"clean", "ours", "theirs", "merged", "garbled"}
Strategy == {"local", "remote"}

Process == {"daemon", "command"}
Status == {None, "pending", "resolved"}
Rewrite == [list : [File -> Status], file : File \cup {None}, status : Status,
            late : SUBSET {"save", "remove"}]

ASSUME DaemonAssumption ==
    /\ File # {} /\ None \notin Code /\ None \notin Rewrite /\ Broken \notin [File -> Status]
    /\ Env \subseteq File /\ StatePath \in File \cup {None}
    /\ StatePath \notin Env
    /\ User \subseteq AllUser
    /\ MaxConflicts \in Nat /\ MaxCommands \in Nat /\ MaxCrashes \in Nat

VARIABLES
    merging,    \* there is a MERGE_HEAD
    unmerged,   \* the code of each path in conflict
    work,       \* what the vault directory holds of each path
    head,       \* what HEAD holds of it
    store,      \* conflicts.json: the status of each record, or Broken
    halt,       \* the halt file exists
    installed,  \* the service manager keeps the daemon alive
    pc,         \* where the daemon is
    halted,     \* Runner.halted
    identity,   \* the daemon could load the vault's identity when it started
    todo,       \* conflicted files its resolveConflicts still has to visit
    command,    \* the user's command: what, where it is, its file and strategy
    files,      \* conflicted files that `dhd sync` still has to visit
    rewrite,    \* of each process, the rewrite of the store that it is in
    crossed,    \* a command has run since the daemon began to resolve
    conflicts,  \* merges that have stopped
    commands,   \* commands run
    crashes     \* crashes so far

repo == <<merging, unmerged, work, head>>
daemon == <<installed, pc, halted, identity, todo>>
user == <<command, files>>
bounds == <<crossed, conflicts, commands, crashes>>
vars == <<repo, store, rewrite, halt, daemon, user, bounds>>

NoCommand == [op |-> "none", step |-> "none", file |-> CHOOSE f \in File : TRUE,
              strategy |-> "local"]
Steps == {"down", "wait", "preflight", "resolve", "halt", "fallback", "conclude", "sync",
          "sync_resolve", "sync_commit"}
CommandSteps == {"none", "git", "add", "save", "check", "unhalt", "remove", "sync", "take"}

TypeOK ==
    /\ merging \in BOOLEAN
    /\ unmerged \in [File -> Code \cup {None}]
    /\ (~merging => \A f \in File : unmerged[f] = None)
    /\ work \in [File -> Content] /\ head \in [File -> Content]
    /\ store \in [File -> Status] \cup {Broken}
    /\ rewrite \in [Process -> Rewrite \cup {None}]
    /\ halt \in BOOLEAN /\ installed \in BOOLEAN /\ halted \in BOOLEAN /\ identity \in BOOLEAN
    /\ pc \in Steps /\ todo \subseteq File
    /\ command \in [op : User \cup {"none"}, step : CommandSteps, file : File,
                    strategy : Strategy]
    /\ (command.op = "none" => command.step = "none")
    /\ (rewrite["daemon"] # None => pc = "resolve")
    /\ (rewrite["command"] # None <=> command.step \in {"save", "remove"})
    /\ files \subseteq File /\ crossed \in BOOLEAN
    /\ conflicts \in 0 .. MaxConflicts /\ commands \in 0 .. MaxCommands
    /\ crashes \in 0 .. MaxCrashes

-----------------------------------------------------------------------------
(***************************************************************************)
(* The conflict store.  Add and Delete read the whole list, and replace    *)
(* the file in place by the list they have changed: it is truncated and    *)
(* then written, and nothing locks it.                                     *)
(***************************************************************************)
Readable == store # Broken
Pending(s) == IF s = Broken THEN {} ELSE {f \in File : s[f] = "pending"}

\* Another process may have truncated the file by now.
Unreadable(p) ==
    \/ ~Readable
    \/ \E q \in Process \ {p} : rewrite[q] # None /\ rewrite[q].file # None

\* List, in Add, in Delete and before the file is removed.
Reads(p, f, status) ==
    /\ Readable
    /\ rewrite' = [rewrite EXCEPT ![p] = [list |-> store, file |-> f, status |-> status,
                                         late |-> {}]]

\* Another process that is in a rewrite has read the list before this one ends.
Ended(p, how) ==
    [q \in Process |-> IF q = p \/ rewrite[q] = None THEN None
                       ELSE [rewrite[q] EXCEPT !.late = @ \cup {how}]]

Changed(r) == [r.list EXCEPT ![r.file] = r.status]

\* save.  Of two at once, the end of the longer text may stay behind the
\* shorter; and a file that is removed under a writer is lost.
Saves(p) ==
    /\ store' \in {Changed(rewrite[p])}
                     \cup (IF "save" \in rewrite[p].late THEN {Broken} ELSE {})
                     \cup (IF "remove" \in rewrite[p].late THEN {store} ELSE {})
    /\ rewrite' = Ended(p, "save")

\* A write that is cut short leaves a file that does not parse.
Cut(p) ==
    /\ store' \in {store} \cup (IF rewrite[p] # None /\ rewrite[p].file # None
                                THEN {Broken} ELSE {})
    /\ rewrite' = IF store' = store THEN [rewrite EXCEPT ![p] = None] ELSE Ended(p, "save")

(***************************************************************************)
(* git.                                                                    *)
(***************************************************************************)
\* What GetConflictedFiles lists: it does not know the codes UD and DU.
Listed == {f \in File : unmerged[f] \in {"UU", "AA"}}
HasConflicts == Listed # {}

\* A version of each side is there to be checked out.
HasSide(f, s) == unmerged[f] # (IF s = "local" THEN "DU" ELSE "UD")
Side(s) == IF s = "local" THEN "ours" ELSE "theirs"

\* Binary files are left as they are here, or as they are there if deleted here.
LeftByGit(code, f) ==
    CASE code[f] = None -> work[f]
      [] code[f] = "DU" -> "theirs"
      [] OTHER -> "ours"

\* A merge stops in a conflict.  It does not start over staged changes.
\* The state is never deleted.
MergeStops ==
    /\ ~merging /\ work = head /\ conflicts < MaxConflicts
    /\ merging' = TRUE
    /\ unmerged' \in [File -> Code \cup {None}]
    /\ \E f \in File : unmerged'[f] # None
    /\ StatePath # None => unmerged'[StatePath] \notin {"UD", "DU"}
    /\ work' = [f \in File |-> LeftByGit(unmerged', f)]
    /\ conflicts' = conflicts + 1
    /\ UNCHANGED head

\* Mutant: git commit without git add -A.
CommitsIndex(dir) == head' = dir /\ work' = dir /\ merging' = FALSE /\ UNCHANGED unmerged

\* git add -A, git commit: what the directory holds.
Commits(dir) ==
    /\ head' = dir /\ work' = dir
    /\ merging' = FALSE /\ unmerged' = [f \in File |-> None]

\* Mutant: the merge is not aborted when the fallback fails.
KeepMerge == UNCHANGED repo

AbortMerge ==
    /\ work' = head /\ merging' = FALSE /\ unmerged' = [f \in File |-> None]
    /\ UNCHANGED head

\* git checkout --theirs . fails as a whole if one path has no such version.
ResolveConflictsRemote == \A f \in File : HasSide(f, "remote")
AllTheirs == [f \in File |-> IF unmerged[f] # None THEN "theirs" ELSE work[f]]

\* The engine's drivers see plaintext; the state's decrypts it again, and fails.
Mergeable == {f \in File : unmerged[f] = "UU" /\ f # StatePath}
Settled(M, f) == IF f \in M THEN "merged" ELSE "theirs"

StageFile(f, c) ==
    /\ work' = [work EXCEPT ![f] = c]
    /\ unmerged' = [unmerged EXCEPT ![f] = None]
    /\ UNCHANGED <<merging, head>>

-----------------------------------------------------------------------------
(***************************************************************************)
(* The daemon: Run and performSync.                                        *)
(***************************************************************************)
\* Restart=always, KeepAlive: a daemon that ends is started again.
KeepAlive == installed /\ pc = "down"
Down == pc' = "down" /\ halted' = FALSE /\ identity' = FALSE /\ todo' = {} /\ Cut("daemon")

\* Mutant: the halt file of a previous run is not looked at.
BootFresh ==
    /\ KeepAlive
    /\ halted' = FALSE
    /\ identity' \in BOOLEAN
    /\ pc' = "preflight"
    /\ UNCHANGED <<repo, store, rewrite, halt, installed, todo, user, bounds>>

\* The service manager starts the daemon, which syncs at once, halted or not.
Boot ==
    /\ KeepAlive
    /\ halted' = halt
    /\ identity' \in BOOLEAN
    /\ pc' = "preflight"
    /\ UNCHANGED <<repo, store, rewrite, halt, installed, todo, user, bounds>>

Poll ==
    /\ pc = "wait" /\ ~halted
    /\ pc' = "preflight"
    /\ UNCHANGED <<repo, store, rewrite, halt, installed, halted, identity, todo, user, bounds>>

NoMerge ==
    /\ pc = "preflight" /\ ~merging
    /\ pc' = "sync"
    /\ UNCHANGED <<repo, store, rewrite, halt, installed, halted, identity, todo, user, bounds>>

\* Of a conflict that HasConflicts does not see, whatever is there is committed.
CompleteMerge ==
    /\ pc = "preflight" /\ merging /\ ~HasConflicts
    /\ Commits(work)
    /\ pc' = "sync"
    /\ UNCHANGED <<store, rewrite, halt, installed, halted, identity, todo, user, bounds>>

StartResolve ==
    /\ pc = "preflight" /\ merging /\ HasConflicts
    /\ \/ pc' = "resolve" /\ todo' = Listed
       \/ pc' = "fallback" /\ todo' = {}      \* the files cannot be listed
    /\ crossed' = (command.op # "none")
    /\ UNCHANGED <<repo, store, rewrite, halt, installed, halted, identity, user, conflicts,
                   commands, crashes>>

\* Of a file in conflict the driver of the name is given what git has,
\* ciphertext.  The state's decrypts it; that of .env files finds no line in
\* common and keeps nothing.
MayMerge(f) == unmerged[f] = "UU" /\ (f \in Env \/ (f = StatePath /\ identity))
MayConflict(f) == f \notin Env \/ unmerged[f] # "UU"

\* The file is staged, and its record, if there is a list, about to be deleted.
MergeFile ==
    /\ pc = "resolve" /\ rewrite["daemon"] = None
    /\ \E f \in todo :
        /\ MayMerge(f)
        /\ StageFile(f, IF f \in Env THEN "garbled" ELSE "merged")
        /\ todo' = todo \ {f}
        /\ \/ Reads("daemon", f, None)
           \/ Unreadable("daemon") /\ UNCHANGED rewrite
    /\ UNCHANGED <<store, halt, installed, pc, halted, identity, user, bounds>>

\* Mutant: only the first conflict is recorded.
RecordFirst ==
    /\ pc = "resolve" /\ rewrite["daemon"] = None
    /\ \E f \in todo :
        /\ MayConflict(f)
        /\ todo' = todo \ {f}
        /\ \/ ~halted /\ Reads("daemon", f, "pending")
           \/ (halted \/ Unreadable("daemon")) /\ UNCHANGED rewrite
    /\ UNCHANGED <<repo, store, halt, installed, pc, halted, identity, user, bounds>>

\* recordConflict, which gives up if the list cannot be read.  A file that is
\* no longer in conflict, because the user has just answered, is recorded too.
Record ==
    /\ pc = "resolve" /\ rewrite["daemon"] = None
    /\ \E f \in todo :
        /\ MayConflict(f)
        /\ todo' = todo \ {f}
        /\ \/ Reads("daemon", f, "pending")
           \/ Unreadable("daemon") /\ UNCHANGED rewrite
    /\ UNCHANGED <<repo, store, halt, installed, pc, halted, identity, user, bounds>>

DaemonSave ==
    /\ rewrite["daemon"] # None
    /\ Saves("daemon")
    /\ pc' = IF rewrite["daemon"].status = "pending" THEN "halt" ELSE pc
    /\ UNCHANGED <<repo, halt, installed, halted, identity, todo, user, bounds>>

\* The daemon that is halted already does not write the file again.
WriteHalt ==
    /\ pc = "halt"
    /\ halt' = (halt \/ ~halted) /\ halted' = TRUE
    /\ pc' = "resolve"
    /\ UNCHANGED <<repo, store, rewrite, installed, identity, todo, user, bounds>>

ResolveDone ==
    /\ pc = "resolve" /\ todo = {} /\ rewrite["daemon"] = None
    /\ pc' = "conclude"
    /\ UNCHANGED <<repo, store, rewrite, halt, installed, halted, identity, todo, user, bounds>>

\* Conflicts just recorded are committed with the rest, as they are here.
Conclude ==
    /\ pc = "conclude"
    /\ Commits(work)
    /\ pc' = "sync"
    /\ UNCHANGED <<store, rewrite, halt, installed, halted, identity, todo, user, bounds>>

Fallback ==
    /\ pc = "fallback"
    /\ IF ResolveConflictsRemote THEN Commits(AllTheirs) ELSE AbortMerge
    /\ pc' = "sync"
    /\ UNCHANGED <<store, rewrite, halt, installed, halted, identity, todo, user, bounds>>

(***************************************************************************)
(* Syncer.Sync, or without the identity a pull and a commit.               *)
(***************************************************************************)
Recover ==
    IF HasConflicts THEN IF ResolveConflictsRemote THEN Commits(AllTheirs) ELSE AbortMerge
                    ELSE Commits(work)

\* The pre-flight of Sync, needed when a command has left a merge just now.
SyncPreflight ==
    /\ pc = "sync" /\ merging /\ identity
    /\ Recover
    /\ UNCHANGED <<store, rewrite, halt, daemon, user, bounds>>

HasChanges == work # head \/ \E f \in File : unmerged[f] # None

\* Without the identity the pull fails over that merge; changes are committed.
PullFails ==
    /\ pc = "sync" /\ merging /\ ~identity
    /\ IF HasChanges THEN Commits(work) ELSE UNCHANGED repo
    /\ pc' = "wait"
    /\ UNCHANGED <<store, rewrite, halt, installed, halted, identity, todo, user, bounds>>

\* Online, whatever the directory holds is committed.
SyncClean ==
    /\ pc = "sync" /\ ~merging
    /\ head' \in {head, work}
    /\ pc' = "wait"
    /\ UNCHANGED <<merging, unmerged, work, store, rewrite, halt, installed, halted, identity, todo,
                   user, bounds>>

\* Without a listed conflict the stopped merge passes for being offline.
SyncStops ==
    /\ pc = "sync" /\ MergeStops
    /\ pc' = IF ~identity THEN "sync_commit"
             ELSE IF \E f \in File : unmerged'[f] \in {"UU", "AA"} THEN "sync_resolve" ELSE "wait"
    /\ UNCHANGED <<store, rewrite, halt, installed, halted, identity, todo, user, crossed, commands,
                   crashes>>

\* resolveConflicts of the engine: merged, or settled on the remote's.  The
\* engine of the daemon has no conflict store, so nothing is recorded.
SyncResolve ==
    /\ pc = "sync_resolve"
    /\ \E M \in SUBSET Mergeable :
        work' = [f \in File |-> IF f \in Listed THEN Settled(M, f) ELSE work[f]]
    /\ unmerged' = [f \in File |-> IF f \in Listed THEN None ELSE unmerged[f]]
    /\ pc' = "sync_commit"
    /\ UNCHANGED <<merging, head, store, rewrite, halt, installed, halted, identity, todo, user,
                   bounds>>

SyncCommit ==
    /\ pc = "sync_commit"
    /\ IF identity \/ HasChanges THEN Commits(work) ELSE UNCHANGED repo
    /\ pc' = "wait"
    /\ UNCHANGED <<store, rewrite, halt, installed, halted, identity, todo, user, bounds>>

DaemonCrash ==
    /\ pc # "down" /\ crashes < MaxCrashes
    /\ crashes' = crashes + 1
    /\ Down
    /\ UNCHANGED <<repo, halt, installed, user, crossed, conflicts, commands>>

-----------------------------------------------------------------------------
(***************************************************************************)
(* The user.                                                               *)
(***************************************************************************)
May(u) ==
    /\ u \in User /\ command.op = "none" /\ commands < MaxCommands
    /\ commands' = commands + 1
    /\ crossed' = TRUE
    /\ UNCHANGED crashes

At(step) == command.step = step
Goes(step) == command' = [command EXCEPT !.step = step]
Ends == command' = NoCommand /\ files' = {}

\* `dhd conflicts resolve`: only what is recorded and pending.
ResolveGet ==
    /\ May("resolve") /\ ~Unreadable("command")
    /\ \E f \in Pending(store), s \in Strategy :
        command' = [op |-> "resolve", step |-> IF merging THEN "git" ELSE "add", file |-> f,
                    strategy |-> IF merging THEN s ELSE "local"]
    /\ UNCHANGED <<repo, store, rewrite, halt, daemon, files, conflicts>>

\* Checkout of one side, add, and a commit of everything.
ResolveGit ==
    /\ At("git") /\ HasSide(command.file, command.strategy)
    /\ IF unmerged[command.file] = None THEN Commits(work)
       ELSE Commits([work EXCEPT ![command.file] = Side(command.strategy)])
    /\ command' = [command EXCEPT !.step = "add", !.strategy = "local"]
    /\ UNCHANGED <<store, rewrite, halt, daemon, files, bounds>>

ResolveGitFails ==
    /\ At("git") /\ ~HasSide(command.file, command.strategy)
    /\ Ends
    /\ UNCHANGED <<repo, store, rewrite, halt, daemon, bounds>>

\* The user's text or the drivers' merge may replace the file, in a merge or not.
Answers(f, s) ==
    IF s = "merged" THEN {work[f], "merged"}
    ELSE {IF unmerged[f] # None /\ HasSide(f, s) THEN Side(s) ELSE work[f]}

\* The page of a conflict: the merge is concluded and the file marked resolved
\* whatever became of it.
WebResolve ==
    /\ May("web")
    /\ \E f \in File, s \in Strategy \cup {"merged"} :
        /\ \E w \in Answers(f, s) :
            IF merging THEN Commits([work EXCEPT ![f] = w])
            ELSE work' = [work EXCEPT ![f] = w] /\ UNCHANGED <<merging, unmerged, head>>
        /\ command' = [NoCommand EXCEPT !.op = "web", !.step = "add", !.file = f]
    /\ UNCHANGED <<store, rewrite, halt, daemon, files, conflicts>>

\* Without a list there is no record, and `dhd conflicts resolve` fails.
MarkResolved ==
    /\ At("add")
    /\ \/ Reads("command", command.file, "resolved") /\ Goes("save") /\ UNCHANGED files
       \/ /\ Unreadable("command") /\ UNCHANGED rewrite
          /\ IF command.op = "web" THEN Goes("check") /\ UNCHANGED files ELSE Ends
    /\ UNCHANGED <<repo, store, halt, daemon, bounds>>

AfterSave == IF command.op = "web" THEN "check" ELSE "take"

\* Mutant: every conflict of the list is marked.
CommandSaveAll ==
    /\ At("save")
    /\ store' = [f \in File |-> IF rewrite["command"].list[f] = None THEN None ELSE "resolved"]
    /\ rewrite' = Ended("command", "save")
    /\ IF command.op = "resolve" THEN Ends ELSE Goes(AfterSave) /\ UNCHANGED files
    /\ UNCHANGED <<repo, halt, daemon, bounds>>

CommandSave ==
    /\ At("save")
    /\ Saves("command")
    /\ IF command.op = "resolve" THEN Ends ELSE Goes(AfterSave) /\ UNCHANGED files
    /\ UNCHANGED <<repo, halt, daemon, bounds>>

\* After an answer on the web the halt file goes if nothing is pending.
Check ==
    /\ At("check")
    /\ \/ ~Unreadable("command") /\ Pending(store) = {} /\ Goes("unhalt") /\ UNCHANGED files
       \/ (Unreadable("command") \/ Pending(store) # {}) /\ Ends
    /\ UNCHANGED <<repo, store, rewrite, halt, daemon, bounds>>

\* `dhd daemon resume`: a store that cannot be read has nothing pending.
Resume ==
    /\ May("resume") /\ halt
    /\ Pending(store) = {} \/ Unreadable("command")
    /\ command' = [NoCommand EXCEPT !.op = "resume", !.step = "unhalt"]
    /\ UNCHANGED <<repo, store, rewrite, halt, daemon, files, conflicts>>

ClearHalt ==
    /\ At("unhalt")
    /\ halt' = FALSE
    /\ Ends
    /\ UNCHANGED <<repo, store, rewrite, daemon, bounds>>

\* `dhd conflicts clear`: the file is removed if nothing was pending in it.
Clear ==
    /\ May("clear") /\ Pending(store) = {}
    /\ Reads("command", None, None)
    /\ command' = [NoCommand EXCEPT !.op = "clear", !.step = "remove"]
    /\ UNCHANGED <<repo, store, halt, daemon, files, conflicts>>

RemoveStore ==
    /\ At("remove")
    /\ store' = [f \in File |-> None]
    /\ rewrite' = Ended("command", "remove")
    /\ Ends
    /\ UNCHANGED <<repo, halt, daemon, bounds>>

Install == installed' = TRUE
Uninstall == installed' = FALSE /\ Down

Start ==
    /\ May("start") /\ ~halt /\ pc = "down"
    /\ Install
    /\ UNCHANGED <<repo, store, rewrite, halt, pc, halted, identity, todo, user, conflicts>>

Stop ==
    /\ May("stop") /\ pc # "down"
    /\ Uninstall
    /\ UNCHANGED <<repo, halt, user, conflicts>>

\* Uninstall, Install: it asks nobody whether the daemon is halted.
Restart ==
    /\ May("restart")
    /\ Install /\ Down
    /\ UNCHANGED <<repo, halt, user, conflicts>>

\* `dhd sync` finds a merge that another command or a crash has left.
SyncRecovers ==
    /\ May("sync") /\ merging
    /\ Recover
    /\ UNCHANGED <<store, rewrite, halt, daemon, user, conflicts>>

\* `dhd sync` pulls and meets a conflict, which it may take for being offline.
SyncPulls ==
    /\ May("sync") /\ MergeStops
    /\ files' = {f \in File : unmerged'[f] \in {"UU", "AA"}}
    /\ command' = IF files' = {} THEN NoCommand
                  ELSE [NoCommand EXCEPT !.op = "sync", !.step = "sync"]
    /\ UNCHANGED <<store, rewrite, halt, daemon>>

\* A file that is merged, or settled on the remote's without a record: it has
\* no common ancestor, it is no longer in conflict, or the list cannot be read.
SyncFile ==
    /\ At("sync")
    /\ \E f \in files :
        /\ files' = files \ {f}
        /\ \/ f \in Mergeable /\ StageFile(f, "merged")
           \/ /\ unmerged[f] # "UU" \/ Unreadable("command")
              /\ IF unmerged[f] = None THEN UNCHANGED repo ELSE StageFile(f, "theirs")
    /\ UNCHANGED <<store, rewrite, halt, daemon, command, bounds>>

\* Its conflict is recorded, and then settled on the remote's.
SyncRecord ==
    /\ At("sync")
    /\ \E f \in files :
        /\ unmerged[f] = "UU"
        /\ files' = files \ {f}
        /\ Reads("command", f, "pending")
        /\ command' = [command EXCEPT !.step = "save", !.file = f]
    /\ UNCHANGED <<repo, store, halt, daemon, bounds>>

SyncTake ==
    /\ At("take")
    /\ IF unmerged[command.file] = None THEN UNCHANGED repo ELSE StageFile(command.file, "theirs")
    /\ Goes("sync")
    /\ UNCHANGED <<store, rewrite, halt, daemon, files, bounds>>

SyncEnd ==
    /\ At("sync") /\ files = {}
    /\ Commits(work)
    /\ Ends
    /\ UNCHANGED <<store, rewrite, halt, daemon, bounds>>

UserCrash ==
    /\ command.op # "none" /\ crashes < MaxCrashes
    /\ crashes' = crashes + 1
    /\ Ends /\ Cut("command")
    /\ UNCHANGED <<repo, halt, daemon, crossed, conflicts, commands>>

\* Another command pulls, at any time, meets a conflict and fails before it
\* commits.
OtherCommand ==
    /\ "other" \in User /\ command.op = "none"
    /\ MergeStops
    /\ crossed' = TRUE
    /\ UNCHANGED <<store, rewrite, halt, daemon, user, commands, crashes>>

-----------------------------------------------------------------------------
\* Conflicts of an earlier merge may be recorded, and the daemon halted for them.
Init ==
    /\ merging = FALSE
    /\ unmerged = [f \in File |-> None]
    /\ work = [f \in File |-> "clean"] /\ head = work
    /\ store \in [File -> {None, "pending"}] /\ rewrite = [p \in Process |-> None]
    /\ halt = (Pending(store) # {})
    /\ installed = TRUE /\ pc = "down" /\ halted = FALSE /\ identity = FALSE
    /\ todo = {}
    /\ command = NoCommand /\ files = {}
    /\ crossed = FALSE /\ conflicts = 0 /\ commands = 0 /\ crashes = 0

Cycle == NoMerge \/ CompleteMerge \/ StartResolve \/ MergeFile \/ Record \/ DaemonSave \/ WriteHalt
            \/ ResolveDone \/ Conclude \/ Fallback \/ SyncPreflight \/ PullFails \/ SyncClean
            \/ SyncStops \/ SyncResolve \/ SyncCommit
Begin == ResolveGet \/ WebResolve \/ Resume \/ Clear \/ Start \/ Stop \/ Restart \/ SyncRecovers
            \/ SyncPulls \/ OtherCommand
Command == ResolveGit \/ ResolveGitFails \/ MarkResolved \/ CommandSave \/ Check \/ ClearHalt
            \/ RemoveStore \/ SyncFile \/ SyncRecord \/ SyncTake \/ SyncEnd
Next == Boot \/ Poll \/ Cycle \/ DaemonCrash \/ Begin \/ Command \/ UserCrash

Spec == Init /\ [][Next]_vars

\* A command that has started goes on, the service manager starts the daemon
\* again, its ticker ticks.
FairSpec == Spec /\ WF_vars(Boot) /\ WF_vars(Poll) /\ WF_vars(Cycle) /\ WF_vars(Command)

-----------------------------------------------------------------------------
(***************************************************************************)
(* Properties.                                                             *)
(***************************************************************************)
\* While the halt file is there, whichever daemon wrote it, no scheduled poll
\* syncs: Run copies the file to r.halted, which is all that the poll reads.
HaltStopsPolls == [][pc = "wait" /\ pc' = "preflight" => ~halt]_vars

\* A rewrite of the store that no other has overtaken since it read the list
\* removes or settles no pending record but the one of its own file.  A record
\* is therefore lost only to two rewrites at once, or when a write is cut short.
RecordsKept ==
    [][\A f \in Pending(store) \ Pending(store') :
          \/ store' = Broken
          \/ \E p \in Process : /\ rewrite[p] # None /\ rewrite'[p] = None
                                /\ rewrite[p].file = f \/ rewrite[p].late # {}]_vars

\* "Files with true conflicts are recorded in the conflicts store for user
\* review": what is pending stays until its own file is answered or merged.
RecordsStay ==
    [][\A f \in Pending(store) \ Pending(store') :
          \/ store' = Broken
          \/ \E p \in Process : rewrite[p] # None /\ rewrite'[p] = None /\ rewrite[p].file = f]_vars

\* When the daemon commits a merge after resolveConflicts, every file that git
\* still has in conflict, and that is therefore committed as it is here, is
\* recorded for the user, unless the store does not parse or a command of the
\* user has come in between.
DaemonRecords ==
    [][pc = "conclude" /\ pc' = "sync" /\ merging /\ Readable /\ ~crossed
          => Listed \subseteq Pending(store)]_vars

\* A stopped merge does not last while the daemon is alive and not halted.
Unstuck == []<>(~merging \/ halted \/ ~installed)

\* "Halt cleared, daemon will resume syncing on next poll": once the halt file
\* is gone, the daemon that is running gets to sync again.
ResumeWorks == halted /\ ~halt ~> ~halted \/ halt

\* "True conflicts are also written to the conflict store for user review": a
\* conflict with a common ancestor that the daemon's sync settles on the
\* remote's version has a pending record.
SettledRecorded ==
    [][\A f \in Listed : pc = "sync_resolve" /\ unmerged'[f] = None /\ work'[f] = "theirs"
                            /\ unmerged[f] = "UU" => f \in Pending(store')]_vars

\* "Files that merge cleanly are staged automatically": no path is committed
\* with a content that is no merge of its versions.
NothingGarbled == \A f \in File : head[f] # "garbled"
=============================================================================
