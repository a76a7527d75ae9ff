---------------------------- MODULE Daemon_proofs ----------------------------
(***************************************************************************)
(* The halt file is obeyed, and conflicts are recorded and stay recorded,  *)
(* for any number of files, commands, conflicts and crashes, with commands *)
(* of the user and cycles of the daemon in any order.                      *)
(***************************************************************************)
EXTENDS Daemon, TLAPS

-----------------------------------------------------------------------------
(***************************************************************************)
(* Types.                                                                  *)
(***************************************************************************)
RepoOK ==
    /\ merging \in BOOLEAN
    /\ unmerged \in [File -> Code \cup {None}]
    /\ (~merging => \A f \in File : unmerged[f] = None)
    /\ work \in [File -> Content] /\ head \in [File -> Content]
StoreOK ==
    /\ store \in [File -> Status] \cup {Broken}
    /\ rewrite \in [Process -> Rewrite \cup {None}]
DaemonOK ==
    /\ installed \in BOOLEAN /\ halted \in BOOLEAN /\ identity \in BOOLEAN /\ halt \in BOOLEAN
    /\ pc \in Steps /\ todo \subseteq File
CommandOK ==
    /\ command \in [op : User \cup {"none"}, step : CommandSteps, file : File, strategy : Strategy]
    /\ files \subseteq File
WritesOK ==
    /\ rewrite["daemon"] # None => pc = "resolve"
    /\ command.op = "none" => command.step = "none"
    /\ rewrite["command"] # None <=> command.step \in {"save", "remove"}
BoundsOK ==
    /\ crossed \in BOOLEAN
    /\ conflicts \in 0 .. MaxConflicts /\ commands \in 0 .. MaxCommands
    /\ crashes \in 0 .. MaxCrashes

LEMMA TypeParts ==
    TypeOK <=> RepoOK /\ StoreOK /\ DaemonOK /\ CommandOK /\ WritesOK /\ BoundsOK
BY DEF TypeOK, RepoOK, StoreOK, DaemonOK, CommandOK, WritesOK, BoundsOK

LEMMA NoCommandTyped ==
    /\ NoCommand \in [op : User \cup {"none"}, step : CommandSteps, file : File, strategy : Strategy]
    /\ NoCommand.op = "none" /\ NoCommand.step = "none"
    /\ \A o \in User, t \in CommandSteps :
          [NoCommand EXCEPT !.op = o, !.step = t] \in
              [op : User \cup {"none"}, step : CommandSteps, file : File, strategy : Strategy]
<1>1. (CHOOSE f \in File : TRUE) \in File
  BY DaemonAssumption
<1> QED
  BY <1>1 DEF NoCommand, Strategy, CommandSteps

\* A commit, an abort and a staged file leave a repository.
LEMMA CommitsTyped ==
    ASSUME NEW dir \in [File -> Content], Commits(dir) PROVE RepoOK'
BY DEF Commits, RepoOK

LEMMA AbortTyped == ASSUME RepoOK, AbortMerge PROVE RepoOK'
BY DEF AbortMerge, RepoOK

LEMMA StageTyped ==
    ASSUME RepoOK, NEW f \in File, NEW c \in Content, StageFile(f, c) PROVE RepoOK'
BY DEF StageFile, RepoOK

LEMMA StopsTyped ==
    ASSUME RepoOK, MergeStops PROVE RepoOK' /\ conflicts' = conflicts + 1 /\ conflicts < MaxConflicts
BY DEF MergeStops, LeftByGit, RepoOK, Content

LEMMA RecoverTyped == ASSUME RepoOK, Recover PROVE RepoOK'
<1>1. work \in [File -> Content] /\ AllTheirs \in [File -> Content]
  BY DEF RepoOK, AllTheirs, Content
<1> QED
  BY <1>1, CommitsTyped, AbortTyped DEF Recover

\* Of the repository: the steps that commit, abort, stage or stop a merge.
LEMMA RepoStep == ASSUME RepoOK, CommandOK, todo \subseteq File, Next PROVE RepoOK'
<1>a. work \in [File -> Content] /\ AllTheirs \in [File -> Content]
  BY DEF RepoOK, AllTheirs, Content
<1>b. ASSUME UNCHANGED repo PROVE RepoOK'
  BY <1>b DEF repo, RepoOK
<1>c. command.file \in File /\ files \subseteq File
  BY DEF CommandOK
<1>1. CASE CompleteMerge \/ Conclude \/ SyncEnd
  BY <1>1, <1>a, CommitsTyped DEF CompleteMerge, Conclude, SyncEnd
<1>2. CASE MergeFile
  BY <1>2, StageTyped DEF MergeFile, Content
<1>3. CASE PullFails \/ SyncCommit
  BY <1>3, <1>a, <1>b, CommitsTyped DEF PullFails, SyncCommit
<1>4. CASE Fallback
  BY <1>4, <1>a, CommitsTyped, AbortTyped DEF Fallback
<1>5. CASE SyncPreflight \/ SyncRecovers
  BY <1>5, RecoverTyped DEF SyncPreflight, SyncRecovers
<1>6. CASE SyncClean
  BY <1>6 DEF SyncClean, RepoOK
<1>7. CASE SyncStops \/ SyncPulls \/ OtherCommand
  BY <1>7, StopsTyped DEF SyncStops, SyncPulls, OtherCommand
<1>8. CASE SyncResolve
  BY <1>8 DEF SyncResolve, RepoOK, Settled, Content
<1>9. CASE ResolveGit
  <2>1. Side(command.strategy) \in Content
    BY DEF Side, Content
  <2>2. [work EXCEPT ![command.file] = Side(command.strategy)] \in [File -> Content]
    BY <1>a, <2>1
  <2> QED
    BY <1>9, <1>a, <2>2, CommitsTyped DEF ResolveGit
<1>10. CASE WebResolve
  <2>1. PICK f \in File, s \in Strategy \cup {"merged"} : \E w \in Answers(f, s) :
           IF merging THEN Commits([work EXCEPT ![f] = w])
           ELSE work' = [work EXCEPT ![f] = w] /\ UNCHANGED <<merging, unmerged, head>>
    BY <1>10 DEF WebResolve
  <2>2. PICK w \in Answers(f, s) :
           IF merging THEN Commits([work EXCEPT ![f] = w])
           ELSE work' = [work EXCEPT ![f] = w] /\ UNCHANGED <<merging, unmerged, head>>
    BY <2>1
  <2>3. w \in Content
    BY <1>a DEF Answers, Side, Content
  <2>4. [work EXCEPT ![f] = w] \in [File -> Content]
    BY <1>a, <2>3
  <2> QED
    BY <2>2, <2>4, CommitsTyped DEF RepoOK
<1>11. CASE SyncFile
  <2>1. \E f \in files : UNCHANGED repo \/ (\E c \in Content : StageFile(f, c))
    BY <1>11 DEF SyncFile, Content
  <2> QED
    BY <2>1, <1>b, <1>c, StageTyped
<1>12. CASE SyncTake
  BY <1>12, <1>b, <1>c, StageTyped DEF SyncTake, Content
<1>13. CASE NoMerge \/ StartResolve \/ Record \/ DaemonSave \/ WriteHalt \/ ResolveDone \/ Boot \/ Poll
            \/ DaemonCrash
  BY <1>13, <1>b DEF NoMerge, StartResolve, Record, DaemonSave, WriteHalt, ResolveDone, Boot, Poll,
     DaemonCrash
<1>14. CASE ResolveGet \/ ResolveGitFails \/ MarkResolved \/ CommandSave \/ Check \/ ClearHalt
            \/ RemoveStore \/ SyncRecord \/ UserCrash
  BY <1>14, <1>b DEF ResolveGet, ResolveGitFails, MarkResolved, CommandSave, Check, ClearHalt,
     RemoveStore, SyncRecord, UserCrash
<1>15. CASE Clear \/ Resume \/ Start \/ Stop \/ Restart
  BY <1>15, <1>b DEF Clear, Resume, Start, Stop, Restart
<1> QED
  BY <1>1, <1>2, <1>3, <1>4, <1>5, <1>6, <1>7, <1>8, <1>9, <1>10, <1>11, <1>12, <1>13, <1>14,
     <1>15 DEF Next, Cycle, Command, Begin

-----------------------------------------------------------------------------
(***************************************************************************)
(* The store and the rewrites of it.                                       *)
(***************************************************************************)
Quiet == UNCHANGED <<store, rewrite>>
Reading(p) == \E f \in File \cup {None}, s \in Status : Reads(p, f, s) /\ UNCHANGED store
Writing(p) == rewrite[p] # None /\ Saves(p)
Cutting(p) == Cut(p)
Removing == /\ rewrite["command"] # None /\ command.step = "remove"
            /\ store' = [f \in File |-> None] /\ rewrite' = Ended("command", "remove")

\* What a step does to the store.
LEMMA StoreCases ==
    ASSUME CommandOK, WritesOK, todo \subseteq File, Next
    PROVE  Quiet \/ (\E p \in Process : Reading(p) \/ Writing(p) \/ Cutting(p)) \/ Removing
<1>a. command.file \in File /\ files \subseteq File
  BY DEF CommandOK
<1>1. CASE MergeFile \/ Record
  BY <1>1 DEF MergeFile, Record, Quiet, Reading, Status, Process
<1>2. CASE MarkResolved
  BY <1>2, <1>a DEF MarkResolved, Quiet, Reading, Status, Process
<1>3. CASE SyncRecord \/ Clear
  BY <1>3, <1>a DEF SyncRecord, Clear, Reading, Status, Process
<1>4. CASE DaemonSave
  BY <1>4 DEF DaemonSave, Writing, Process
<1>5. CASE CommandSave
  BY <1>5 DEF CommandSave, Writing, Process, WritesOK, At
<1>6. CASE RemoveStore
  BY <1>6 DEF RemoveStore, Removing, WritesOK, At
<1>7. CASE DaemonCrash \/ Stop \/ Restart \/ UserCrash
  BY <1>7 DEF DaemonCrash, Stop, Restart, UserCrash, Uninstall, Down, Cutting, Process
<1>8. CASE NoMerge \/ CompleteMerge \/ StartResolve \/ WriteHalt \/ ResolveDone \/ Conclude \/ Fallback
  BY <1>8 DEF NoMerge, CompleteMerge, StartResolve, WriteHalt, ResolveDone, Conclude, Fallback, Quiet
<1>9. CASE SyncPreflight \/ PullFails \/ SyncClean \/ SyncStops \/ SyncResolve \/ SyncCommit \/ Boot \/ Poll
  BY <1>9 DEF SyncPreflight, PullFails, SyncClean, SyncStops, SyncResolve, SyncCommit, Boot, Poll, Quiet
<1>10. CASE ResolveGet \/ ResolveGit \/ ResolveGitFails \/ WebResolve \/ Check \/ ClearHalt \/ Resume
  BY <1>10 DEF ResolveGet, ResolveGit, ResolveGitFails, WebResolve, Check, ClearHalt, Resume, Quiet
<1>11. CASE Start \/ SyncRecovers \/ SyncPulls \/ SyncFile \/ SyncTake \/ SyncEnd \/ OtherCommand
  BY <1>11 DEF Start, SyncRecovers, SyncPulls, SyncFile, SyncTake, SyncEnd, OtherCommand, Quiet
<1> QED
  BY <1>1, <1>2, <1>3, <1>4, <1>5, <1>6, <1>7, <1>8, <1>9, <1>10, <1>11
  DEF Next, Cycle, Command, Begin

LEMMA EndedTyped ==
    ASSUME StoreOK, NEW p \in Process, NEW how \in {"save", "remove"}
    PROVE  Ended(p, how) \in [Process -> Rewrite \cup {None}]
<1>1. \A q \in Process : rewrite[q] # None => rewrite[q] \in Rewrite
  BY DEF StoreOK
<1>2. \A q \in Process : rewrite[q] # None =>
          [rewrite[q] EXCEPT !.late = @ \cup {how}] \in Rewrite
  BY <1>1 DEF Rewrite
<1> QED
  BY <1>2 DEF Ended

LEMMA SavedTyped ==
    ASSUME StoreOK, NEW p \in Process, rewrite[p] # None
    PROVE  Changed(rewrite[p]) \in [File -> Status]
<1>1. rewrite[p] \in Rewrite
  BY DEF StoreOK
<1> QED
  BY <1>1 DEF Changed, Rewrite

LEMMA StoreStep ==
    ASSUME StoreOK, CommandOK, WritesOK, todo \subseteq File, Next PROVE StoreOK'
<1>1. CASE Quiet
  BY <1>1 DEF Quiet, StoreOK
<1>2. ASSUME NEW p \in Process, Reading(p) PROVE StoreOK'
  <2>1. PICK f \in File \cup {None}, s \in Status : Reads(p, f, s) /\ UNCHANGED store
    BY <1>2 DEF Reading
  <2>2. store \in [File -> Status]
    BY <2>1 DEF Reads, Readable, StoreOK
  <2>3. [list |-> store, file |-> f, status |-> s, late |-> {}] \in Rewrite
    BY <2>2 DEF Rewrite
  <2> QED
    BY <2>1, <2>3 DEF Reads, StoreOK
<1>3. ASSUME NEW p \in Process, Writing(p) PROVE StoreOK'
  <2>1. Changed(rewrite[p]) \in [File -> Status] /\ rewrite' \in [Process -> Rewrite \cup {None}]
    BY <1>3, SavedTyped, EndedTyped DEF Writing, Saves
  <2> QED
    BY <1>3, <2>1 DEF Writing, Saves, StoreOK
<1>4. ASSUME NEW p \in Process, Cutting(p) PROVE StoreOK'
  <2>1. Ended(p, "save") \in [Process -> Rewrite \cup {None}]
    BY EndedTyped
  <2> QED
    BY <1>4, <2>1 DEF Cutting, Cut, StoreOK
<1>5. CASE Removing
  <2>1. Ended("command", "remove") \in [Process -> Rewrite \cup {None}]
    BY EndedTyped DEF Process
  <2> QED
    BY <1>5, <2>1 DEF Removing, StoreOK, Status
<1> QED
  BY <1>1, <1>2, <1>3, <1>4, <1>5, StoreCases

\* A process that reads, ends or is cut leaves the other where it is.
LEMMA ReadsRewrite ==
    ASSUME StoreOK, NEW p \in Process, NEW f \in File \cup {None}, NEW s \in Status, Reads(p, f, s)
    PROVE  /\ rewrite'[p] # None /\ rewrite'[p].list = store /\ rewrite'[p].file = f
           /\ rewrite'[p].status = s /\ rewrite'[p].late = {}
           /\ \A q \in Process \ {p} : rewrite'[q] = rewrite[q]
<1>1. store \in [File -> Status]
  BY DEF Reads, Readable, StoreOK
<1>2. [list |-> store, file |-> f, status |-> s, late |-> {}] \in Rewrite
  BY <1>1 DEF Rewrite
<1>3. rewrite' = [rewrite EXCEPT ![p] = [list |-> store, file |-> f, status |-> s, late |-> {}]]
  BY DEF Reads
<1>4. rewrite'[p] = [list |-> store, file |-> f, status |-> s, late |-> {}]
  BY <1>3 DEF StoreOK
<1>5. \A q \in Process \ {p} : rewrite'[q] = rewrite[q]
  BY <1>3 DEF StoreOK
<1> QED
  BY <1>2, <1>4, <1>5, DaemonAssumption

LEMMA EndedRewrite ==
    ASSUME StoreOK, NEW p \in Process, NEW how \in {"save", "remove"}, rewrite' = Ended(p, how)
    PROVE  /\ rewrite'[p] = None
           /\ \A q \in Process \ {p} :
                 /\ rewrite[q] = None <=> rewrite'[q] = None
                 /\ rewrite[q] # None => /\ rewrite'[q].list = rewrite[q].list
                                         /\ rewrite'[q].late # {}
<1>1. rewrite'[p] = None
  BY DEF Ended
<1>2. ASSUME NEW q \in Process \ {p}, rewrite[q] = None PROVE rewrite'[q] = None
  BY <1>2 DEF Ended
<1>3. ASSUME NEW q \in Process \ {p}, rewrite[q] # None
      PROVE  rewrite'[q] # None /\ rewrite'[q].list = rewrite[q].list /\ rewrite'[q].late # {}
  <2>1. rewrite[q] \in Rewrite
    BY <1>3 DEF StoreOK
  <2>2. rewrite'[q] = [rewrite[q] EXCEPT !.late = @ \cup {how}]
    BY <1>3 DEF Ended
  <2>3. rewrite'[q] \in Rewrite
    BY <2>1, <2>2 DEF Rewrite
  <2> QED
    BY <2>1, <2>2, <2>3, DaemonAssumption DEF Rewrite
<1> QED
  BY <1>1, <1>2, <1>3

LEMMA CutRewrite ==
    ASSUME StoreOK, NEW p \in Process, Cut(p)
    PROVE  /\ rewrite'[p] = None
           /\ \A q \in Process \ {p} :
                 /\ rewrite[q] = None <=> rewrite'[q] = None
                 /\ rewrite[q] # None =>
                       /\ rewrite'[q].list = rewrite[q].list
                       /\ rewrite'[q].late = {} => store' = store /\ rewrite'[q] = rewrite[q]
           /\ store' = store \/ store' = Broken
<1>1. CASE store' = store
  <2>1. rewrite' = [rewrite EXCEPT ![p] = None]
    BY <1>1 DEF Cut
  <2> QED
    BY <1>1, <2>1 DEF StoreOK
<1>2. CASE store' # store
  <2>1. rewrite' = Ended(p, "save") /\ store' = Broken
    BY <1>2 DEF Cut
  <2> QED
    BY <2>1, EndedRewrite
<1> QED
  BY <1>1, <1>2

\* What the steps of the daemon and those of the user leave alone.
DaemonActs == Boot \/ Poll \/ Cycle \/ DaemonCrash
UserActs == Begin \/ Command \/ UserCrash

LEMMA DaemonLeaves ==
    ASSUME DaemonActs, todo \subseteq File
    PROVE  /\ UNCHANGED user
           /\ Quiet \/ Reading("daemon") \/ Writing("daemon") \/ Cutting("daemon")
<1>1. CASE MergeFile \/ Record
  BY <1>1 DEF MergeFile, Record, Quiet, Reading, Status
<1>2. CASE DaemonSave \/ DaemonCrash
  BY <1>2 DEF DaemonSave, DaemonCrash, Down, Writing, Cutting
<1>3. CASE NoMerge \/ CompleteMerge \/ StartResolve \/ WriteHalt \/ ResolveDone \/ Conclude \/ Fallback
  BY <1>3 DEF NoMerge, CompleteMerge, StartResolve, WriteHalt, ResolveDone, Conclude, Fallback, Quiet
<1>4. CASE SyncPreflight \/ PullFails \/ SyncClean \/ SyncStops \/ SyncResolve \/ SyncCommit \/ Boot \/ Poll
  BY <1>4 DEF SyncPreflight, PullFails, SyncClean, SyncStops, SyncResolve, SyncCommit, Boot, Poll, Quiet
<1> QED
  BY <1>1, <1>2, <1>3, <1>4 DEF DaemonActs, Cycle

\* The daemon is in a rewrite only while it resolves.
LEMMA DaemonRewriteStep ==
    ASSUME StoreOK, CommandOK, WritesOK, todo \subseteq File, Next
    PROVE  rewrite'["daemon"] # None => pc' = "resolve"
<1> USE DEF WritesOK
<1>a. "daemon" \in Process \ {"command"} /\ "daemon" \in Process /\ "command" \in Process
  BY DEF Process
<1>b. ASSUME rewrite["daemon"] = None <=> rewrite'["daemon"] = None, UNCHANGED pc
      PROVE  rewrite'["daemon"] # None => pc' = "resolve"
  BY <1>b
<1>1. CASE MergeFile \/ Record
  BY <1>1 DEF MergeFile, Record
<1>2. CASE DaemonSave
  BY <1>2, <1>a, EndedRewrite DEF DaemonSave, Saves
<1>3. CASE DaemonCrash \/ Stop \/ Restart
  BY <1>3, <1>a, CutRewrite DEF DaemonCrash, Stop, Restart, Uninstall, Down
<1>4. CASE ResolveDone
  BY <1>4 DEF ResolveDone
<1>5. CASE Boot \/ Poll \/ NoMerge \/ CompleteMerge \/ StartResolve \/ WriteHalt \/ Conclude \/ Fallback
  BY <1>5 DEF Boot, KeepAlive, Poll, NoMerge, CompleteMerge, StartResolve, WriteHalt, Conclude, Fallback
<1>6. CASE SyncPreflight \/ PullFails \/ SyncClean \/ SyncStops \/ SyncResolve \/ SyncCommit
  BY <1>6 DEF SyncPreflight, PullFails, SyncClean, SyncStops, SyncResolve, SyncCommit, daemon
<1>7. CASE MarkResolved \/ SyncRecord \/ Clear
  <2>1. UNCHANGED pc
    BY <1>7 DEF MarkResolved, SyncRecord, Clear, daemon
  <2>2. UNCHANGED rewrite \/ (\E f \in File \cup {None}, s \in Status : Reads("command", f, s))
    BY <1>7 DEF MarkResolved, SyncRecord, Clear, CommandOK, Status
  <2> QED
    BY <2>1, <2>2, <1>a, ReadsRewrite
<1>8. CASE CommandSave \/ RemoveStore
  <2>1. UNCHANGED pc /\ \E how \in {"save", "remove"} : rewrite' = Ended("command", how)
    BY <1>8 DEF CommandSave, Saves, RemoveStore, daemon
  <2> QED
    BY <2>1, <1>a, EndedRewrite
<1>9. CASE UserCrash
  <2>1. UNCHANGED pc /\ Cut("command")
    BY <1>9 DEF UserCrash, daemon
  <2> QED
    BY <2>1, <1>a, CutRewrite
<1>10. CASE ResolveGet \/ ResolveGit \/ ResolveGitFails \/ WebResolve \/ Check \/ ClearHalt \/ Resume
  BY <1>10 DEF ResolveGet, ResolveGit, ResolveGitFails, WebResolve, Check, ClearHalt, Resume, daemon
<1>11. CASE Start \/ SyncRecovers \/ SyncPulls
  BY <1>11 DEF Start, SyncRecovers, SyncPulls, daemon
<1>12. CASE SyncFile \/ SyncTake \/ SyncEnd \/ OtherCommand
  BY <1>12 DEF SyncFile, SyncTake, SyncEnd, OtherCommand, daemon
<1> QED
  BY <1>1, <1>2, <1>3, <1>4, <1>5, <1>6, <1>7, <1>8, <1>9, <1>10, <1>11, <1>12
  DEF Next, Cycle, Command, Begin

\* A command is in a rewrite between its list and its save.
LEMMA WritesStep == ASSUME StoreOK, CommandOK, WritesOK, todo \subseteq File, Next PROVE WritesOK'
<1> USE DEF WritesOK
<1>a. "command" \in Process \ {"daemon"} /\ "daemon" \in Process /\ "command" \in Process
  BY DEF Process
<1>b. NoCommand.op = "none" /\ NoCommand.step = "none"
  BY NoCommandTyped
<1>d. rewrite'["daemon"] # None => pc' = "resolve"
  BY DaemonRewriteStep
<1>1. CASE DaemonActs
  <2>1. UNCHANGED command
    BY <1>1, DaemonLeaves DEF user
  <2>2. rewrite["command"] = None <=> rewrite'["command"] = None
    <3>1. CASE Quiet
      BY <3>1 DEF Quiet
    <3>2. CASE Reading("daemon")
      BY <3>2, <1>a, ReadsRewrite DEF Reading
    <3>3. CASE Writing("daemon")
      BY <3>3, <1>a, EndedRewrite DEF Writing, Saves
    <3>4. CASE Cutting("daemon")
      BY <3>4, <1>a, CutRewrite DEF Cutting
    <3> QED
      BY <3>1, <3>2, <3>3, <3>4, <1>1, DaemonLeaves
  <2> QED
    BY <1>d, <2>1, <2>2
<1>2. CASE Stop \/ Restart
  <2>1. Cut("daemon") /\ UNCHANGED command
    BY <1>2 DEF Stop, Restart, Uninstall, Down, user
  <2> QED
    BY <1>d, <2>1, <1>a, CutRewrite
<1>3. CASE MarkResolved
  <2>1. CASE Reads("command", command.file, "resolved") /\ Goes("save")
    <3>1. /\ command.file \in File /\ "resolved" \in Status /\ command'.step = "save"
          /\ command'.op # "none"
      BY <1>3, <2>1 DEF MarkResolved, At, CommandOK, Goes, Status
    <3>2. rewrite'["command"] # None
      BY <2>1, <3>1, <1>a, ReadsRewrite
    <3> QED
      BY <1>d, <3>1, <3>2
  <2>2. CASE UNCHANGED rewrite /\ (Goes("check") \/ Ends)
    <3>1. /\ command.step = "add" /\ command'.step \in {"check", "none"}
          /\ command'.op = "none" => command'.step = "none"
      BY <1>3, <2>2, <1>b DEF MarkResolved, At, Goes, Ends, CommandOK
    <3> QED
      BY <1>d, <2>2, <3>1
  <2> QED
    BY <1>3, <2>1, <2>2 DEF MarkResolved
<1>4. CASE SyncRecord \/ Clear
  <2>1. \E f \in File \cup {None}, s \in Status : Reads("command", f, s)
    BY <1>4 DEF SyncRecord, Clear, Status, CommandOK
  <2>2. command'.step \in {"save", "remove"} /\ command'.op # "none"
    BY <1>4 DEF SyncRecord, Clear, At, CommandOK, NoCommand
  <2>3. rewrite'["command"] # None
    BY <2>1, <1>a, ReadsRewrite
  <2> QED
    BY <1>d, <2>2, <2>3
<1>5. CASE CommandSave
  <2>1. rewrite' = Ended("command", "save")
    BY <1>5 DEF CommandSave, Saves
  <2>2. /\ command'.step \in {"none", "check", "take"}
        /\ command'.op = "none" => command'.step = "none"
    BY <1>5, <1>b DEF CommandSave, At, Ends, Goes, AfterSave, CommandOK
  <2> QED
    BY <1>d, <2>1, <2>2, <1>a, EndedRewrite
<1>6. CASE RemoveStore
  <2>1. rewrite' = Ended("command", "remove") /\ command'.step = "none" /\ command'.op = "none"
    BY <1>6, <1>b DEF RemoveStore, Ends
  <2> QED
    BY <1>d, <2>1, <1>a, EndedRewrite
<1>7. CASE UserCrash
  <2>1. Cut("command") /\ command'.step = "none" /\ command'.op = "none"
    BY <1>7, <1>b DEF UserCrash, Ends
  <2> QED
    BY <1>d, <2>1, <1>a, CutRewrite
<1>8. CASE ResolveGit \/ ResolveGitFails \/ Check \/ ClearHalt \/ SyncTake \/ SyncEnd
  <2>1. UNCHANGED rewrite /\ command.step \notin {"save", "remove"}
    BY <1>8 DEF ResolveGit, ResolveGitFails, Check, ClearHalt, SyncTake, SyncEnd, At
  <2>2. /\ command'.step \in {"none", "add", "unhalt", "sync"}
        /\ command'.op = "none" => command'.step = "none"
    BY <1>8, <1>b DEF ResolveGit, ResolveGitFails, Check, ClearHalt, SyncTake, SyncEnd, At, Goes,
       Ends, CommandOK
  <2> QED
    BY <1>d, <2>1, <2>2
<1>9. CASE Start \/ SyncRecovers \/ OtherCommand \/ SyncFile
  BY <1>9, <1>d DEF Start, SyncRecovers, OtherCommand, SyncFile, user
<1>10. CASE ResolveGet \/ WebResolve \/ Resume \/ SyncPulls
  <2>1. UNCHANGED rewrite /\ command.op = "none"
    BY <1>10 DEF ResolveGet, WebResolve, Resume, SyncPulls, May
  <2>2. /\ command'.step \in {"git", "add", "unhalt", "none", "sync"}
        /\ command'.op = "none" => command'.step = "none"
    <3>1. CASE ResolveGet
      BY <3>1 DEF ResolveGet
    <3>2. CASE Resume
      BY <3>2 DEF Resume, NoCommand
    <3>4. CASE WebResolve
      <4>1. \E f \in File : command' = [NoCommand EXCEPT !.op = "web", !.step = "add", !.file = f]
        BY <3>4 DEF WebResolve
      <4> QED
        BY <4>1 DEF NoCommand
    <3>3. CASE SyncPulls
      BY <3>3 DEF SyncPulls, NoCommand
    <3> QED
      BY <1>10, <3>1, <3>2, <3>3, <3>4
  <2> QED
    BY <1>d, <2>1, <2>2
<1> QED
  BY <1>1, <1>2, <1>3, <1>4, <1>5, <1>6, <1>7, <1>8, <1>9, <1>10
  DEF Next, DaemonActs, Begin, Command

\* Of the daemon and its flags.
LEMMA DaemonStep == ASSUME DaemonOK, Next PROVE DaemonOK'
<1> USE DEF DaemonOK, daemon, Steps
<1>a. ASSUME UNCHANGED daemon, halt' \in BOOLEAN PROVE DaemonOK'
  BY <1>a
<1>1. CASE Boot \/ Poll \/ NoMerge \/ CompleteMerge \/ ResolveDone \/ Conclude \/ Fallback \/ PullFails
  BY <1>1 DEF Boot, Poll, NoMerge, CompleteMerge, ResolveDone, Conclude, Fallback, PullFails
<1>2. CASE StartResolve
  BY <1>2 DEF StartResolve, Listed
<1>3. CASE SyncClean \/ SyncStops \/ SyncResolve \/ SyncCommit
  BY <1>3 DEF SyncClean, SyncStops, SyncResolve, SyncCommit
<1>4. CASE MergeFile \/ Record
  BY <1>4 DEF MergeFile, Record
<1>5. CASE DaemonSave
  BY <1>5 DEF DaemonSave
<1>6. CASE WriteHalt
  BY <1>6 DEF WriteHalt
<1>7. CASE DaemonCrash \/ Stop \/ Restart
  BY <1>7 DEF DaemonCrash, Stop, Restart, Install, Uninstall, Down
<1>8. CASE Start
  BY <1>8 DEF Start, Install
<1>9. CASE SyncPreflight \/ ResolveGet \/ ResolveGit \/ ResolveGitFails \/ WebResolve \/ MarkResolved
           \/ CommandSave \/ UserCrash
  BY <1>9, <1>a DEF SyncPreflight, ResolveGet, ResolveGit, ResolveGitFails, WebResolve, MarkResolved,
     CommandSave, UserCrash
<1>10. CASE Check \/ ClearHalt \/ Clear \/ RemoveStore \/ Resume \/ SyncRecovers \/ OtherCommand
  BY <1>10, <1>a DEF Check, ClearHalt, Clear, RemoveStore, Resume, SyncRecovers, OtherCommand
<1>11. CASE SyncPulls \/ SyncFile \/ SyncRecord \/ SyncTake \/ SyncEnd
  BY <1>11, <1>a DEF SyncPulls, SyncFile, SyncRecord, SyncTake, SyncEnd
<1> QED
  BY <1>1, <1>2, <1>3, <1>4, <1>5, <1>6, <1>7, <1>8, <1>9, <1>10, <1>11
  DEF Next, Cycle, Command, Begin

\* Of the command that is running.
LEMMA CommandStep == ASSUME CommandOK, todo \subseteq File, Next PROVE CommandOK'
<1> USE DEF CommandOK
<1>a. ASSUME UNCHANGED user PROVE CommandOK'
  BY <1>a DEF user
<1>b. ASSUME Ends PROVE CommandOK'
  BY <1>b, NoCommandTyped DEF Ends
<1>c. ASSUME NEW t \in CommandSteps, Goes(t), files' \subseteq File PROVE CommandOK'
  BY <1>c DEF Goes
<1>d. ASSUME NEW o \in User, NEW t \in CommandSteps, command' = [NoCommand EXCEPT !.op = o, !.step = t],
             files' \subseteq File
      PROVE  CommandOK'
  BY <1>d, NoCommandTyped
<1>1. CASE DaemonActs
  BY <1>1, <1>a, DaemonLeaves
<1>2. CASE Start \/ Stop \/ Restart \/ SyncRecovers \/ OtherCommand
  BY <1>2, <1>a DEF Start, Stop, Restart, SyncRecovers, OtherCommand
<1>3. CASE ResolveGitFails \/ ClearHalt \/ RemoveStore \/ SyncEnd \/ UserCrash
  BY <1>3, <1>b DEF ResolveGitFails, ClearHalt, RemoveStore, SyncEnd, UserCrash
<1>4. CASE ResolveGet
  BY <1>4 DEF ResolveGet, May, Pending, CommandSteps, Strategy
<1>5. CASE ResolveGit
  BY <1>5 DEF ResolveGit, CommandSteps, Strategy
<1>6. CASE WebResolve
  <2>1. PICK f \in File : command' = [NoCommand EXCEPT !.op = "web", !.step = "add", !.file = f]
    BY <1>6 DEF WebResolve
  <2>2. "web" \in User /\ UNCHANGED files
    BY <1>6 DEF WebResolve, May
  <2>3. "add" \in CommandSteps
    BY DEF CommandSteps
  <2> QED
    BY <2>1, <2>2, <2>3, NoCommandTyped
<1>7. CASE MarkResolved
  BY <1>7, <1>b, <1>c DEF MarkResolved, CommandSteps
<1>8. CASE CommandSave
  BY <1>8, <1>b, <1>c DEF CommandSave, AfterSave, CommandSteps
<1>9. CASE Check
  BY <1>9, <1>b, <1>c DEF Check, CommandSteps
<1>10. CASE Resume \/ Clear
  <2>1. \E o \in User, t \in CommandSteps : command' = [NoCommand EXCEPT !.op = o, !.step = t]
    BY <1>10 DEF Resume, Clear, May, CommandSteps
  <2>2. UNCHANGED files
    BY <1>10 DEF Resume, Clear
  <2> QED
    BY <2>1, <2>2, <1>d
<1>11. CASE SyncPulls
  <2>1. "sync" \in User /\ "sync" \in CommandSteps /\ files' \subseteq File
    BY <1>11 DEF SyncPulls, May, CommandSteps
  <2>2. command' = NoCommand \/ command' = [NoCommand EXCEPT !.op = "sync", !.step = "sync"]
    BY <1>11 DEF SyncPulls
  <2> QED
    BY <2>1, <2>2, NoCommandTyped
<1>12. CASE SyncFile
  BY <1>12 DEF SyncFile
<1>13. CASE SyncRecord
  BY <1>13 DEF SyncRecord, CommandSteps
<1>14. CASE SyncTake
  BY <1>14, <1>c DEF SyncTake, CommandSteps
<1> QED
  BY <1>1, <1>2, <1>3, <1>4, <1>5, <1>6, <1>7, <1>8, <1>9, <1>10, <1>11, <1>12, <1>13, <1>14
  DEF Next, DaemonActs, Command, Begin

\* Of the counters.
LEMMA BoundsStep == ASSUME BoundsOK, Next PROVE BoundsOK'
<1> USE DEF BoundsOK
<1>a. MaxConflicts \in Nat /\ MaxCommands \in Nat /\ MaxCrashes \in Nat
  BY DaemonAssumption
<1>b. ASSUME NEW u, May(u), UNCHANGED conflicts PROVE BoundsOK'
  BY <1>a, <1>b DEF May
<1>c. ASSUME MergeStops, UNCHANGED commands \/ (commands' = commands + 1 /\ commands < MaxCommands),
             UNCHANGED crashes, crossed' \in BOOLEAN
      PROVE  BoundsOK'
  BY <1>a, <1>c DEF MergeStops
<1>d. ASSUME UNCHANGED bounds PROVE BoundsOK'
  BY <1>d DEF bounds
<1>1. CASE ResolveGet \/ WebResolve \/ Clear \/ Resume \/ Start \/ Stop \/ Restart \/ SyncRecovers
  BY <1>1, <1>b DEF ResolveGet, WebResolve, Clear, Resume, Start, Stop, Restart, SyncRecovers
<1>2. CASE SyncStops \/ SyncPulls \/ OtherCommand
  <2>1. /\ MergeStops /\ UNCHANGED crashes
        /\ UNCHANGED commands \/ (commands' = commands + 1 /\ commands < MaxCommands)
    BY <1>2 DEF SyncStops, SyncPulls, May, OtherCommand
  <2>2. UNCHANGED crossed \/ crossed' = TRUE
    BY <1>2 DEF SyncStops, SyncPulls, May, OtherCommand
  <2>3. crossed' \in BOOLEAN
    BY <2>2
  <2> QED
    BY <2>1, <2>3, <1>c
<1>3. CASE DaemonCrash \/ UserCrash
  BY <1>3, <1>a DEF DaemonCrash, UserCrash
<1>4. CASE StartResolve
  BY <1>4 DEF StartResolve
<1>5. CASE NoMerge \/ CompleteMerge \/ ResolveDone \/ Conclude \/ Fallback \/ MergeFile \/ Record
           \/ DaemonSave \/ WriteHalt
  BY <1>5, <1>d DEF NoMerge, CompleteMerge, ResolveDone, Conclude, Fallback, MergeFile, Record,
     DaemonSave, WriteHalt
<1>6. CASE SyncPreflight \/ PullFails \/ SyncClean \/ SyncResolve \/ SyncCommit \/ Boot \/ Poll
  BY <1>6, <1>d DEF SyncPreflight, PullFails, SyncClean, SyncResolve, SyncCommit, Boot, Poll
<1>7. CASE ResolveGit \/ ResolveGitFails \/ MarkResolved \/ CommandSave \/ Check \/ ClearHalt
  BY <1>7, <1>d DEF ResolveGit, ResolveGitFails, MarkResolved, CommandSave, Check, ClearHalt
<1>8. CASE RemoveStore \/ SyncFile \/ SyncRecord \/ SyncTake \/ SyncEnd
  BY <1>8, <1>d DEF RemoveStore, SyncFile, SyncRecord, SyncTake, SyncEnd
<1> QED
  BY <1>1, <1>2, <1>3, <1>4, <1>5, <1>6, <1>7, <1>8 DEF Next, Cycle, Command, Begin

LEMMA TypeStep == TypeOK /\ [Next]_vars => TypeOK'
<1> SUFFICES ASSUME TypeOK, [Next]_vars PROVE TypeOK'
  OBVIOUS
<1>a. RepoOK /\ StoreOK /\ DaemonOK /\ CommandOK /\ WritesOK /\ BoundsOK /\ todo \subseteq File
  BY TypeParts DEF DaemonOK
<1>1. CASE Next
  <2>1. RepoOK' /\ CommandOK' /\ BoundsOK'
    BY <1>a, <1>1, RepoStep, CommandStep, BoundsStep
  <2>2. StoreOK' /\ DaemonOK' /\ WritesOK'
    BY <1>a, <1>1, StoreStep, DaemonStep, WritesStep
  <2> QED
    BY <2>1, <2>2 DEF TypeOK, RepoOK, StoreOK, DaemonOK, CommandOK, WritesOK, BoundsOK
<1>2. CASE UNCHANGED vars
  BY <1>2 DEF vars, repo, daemon, user, bounds, TypeOK
<1> QED
  BY <1>1, <1>2

\* Types of the repository, the store, the daemon and the commands; no path is left in
\* conflict without a merge, and a command is in a rewrite of the store between its list
\* and its save.
THEOREM DaemonTypeCorrect == Spec => []TypeOK
<1>1. ASSUME Init PROVE TypeOK
  <2> USE <1>1
  <2>1. RepoOK
    BY DEF Init, RepoOK, Content
  <2>2. StoreOK /\ DaemonOK
    BY DEF Init, StoreOK, DaemonOK, Steps, Status
  <2>3. CommandOK
    BY NoCommandTyped DEF Init, CommandOK
  <2>4. WritesOK
    BY NoCommandTyped DEF Init, WritesOK, Process
  <2>5. BoundsOK
    <3>1. MaxConflicts \in Nat /\ MaxCommands \in Nat /\ MaxCrashes \in Nat
      BY DaemonAssumption
    <3>2. crossed = FALSE /\ conflicts = 0 /\ commands = 0 /\ crashes = 0
      BY DEF Init
    <3>3. crossed \in BOOLEAN
      BY <3>2
    <3>4. conflicts \in 0 .. MaxConflicts /\ commands \in 0 .. MaxCommands /\ crashes \in 0 .. MaxCrashes
      BY <3>1, <3>2
    <3> QED
      BY <3>3, <3>4 DEF BoundsOK
  <2> QED
    BY <2>1, <2>2, <2>3, <2>4, <2>5 DEF TypeOK, RepoOK, StoreOK, DaemonOK, CommandOK, WritesOK, BoundsOK
<1> QED
  BY <1>1, TypeStep, PTL DEF Spec

-----------------------------------------------------------------------------
(***************************************************************************)
(* The halt file is obeyed: while it is there, every daemon that runs has  *)
(* its copy of it set, whoever writes and removes the file.                *)
(***************************************************************************)
Obeyed == pc # "down" /\ halt => halted

LEMMA ObeyedStep ==
    ASSUME Obeyed, DaemonOK, WritesOK, Next
    PROVE  Obeyed' /\ (pc = "wait" /\ pc' = "preflight" => ~halt)
<1> USE DEF Obeyed
<1>a. ASSUME UNCHANGED <<halt, daemon>>
      PROVE  Obeyed' /\ (pc = "wait" /\ pc' = "preflight" => ~halt)
  BY <1>a DEF daemon
<1>1. CASE Boot
  BY <1>1 DEF Boot, KeepAlive
<1>2. CASE Poll
  BY <1>2 DEF Poll
<1>3. CASE WriteHalt
  BY <1>3 DEF WriteHalt
<1>4. CASE DaemonCrash \/ Stop \/ Restart
  BY <1>4 DEF DaemonCrash, Stop, Restart, Install, Uninstall, Down
<1>5. CASE ClearHalt
  BY <1>5 DEF ClearHalt, daemon
<1>6. CASE Start
  BY <1>6 DEF Start
<1>7. CASE NoMerge \/ CompleteMerge \/ StartResolve \/ MergeFile \/ Record \/ ResolveDone \/ Conclude
           \/ Fallback
  BY <1>7 DEF NoMerge, CompleteMerge, StartResolve, MergeFile, Record, ResolveDone, Conclude, Fallback
<1>8. CASE SyncPreflight \/ PullFails \/ SyncClean \/ SyncStops \/ SyncResolve \/ SyncCommit
  BY <1>8 DEF SyncPreflight, PullFails, SyncClean, SyncStops, SyncResolve, SyncCommit, daemon
<1>9. CASE DaemonSave
  BY <1>9 DEF DaemonSave, WritesOK
<1>10. CASE ResolveGet \/ ResolveGit \/ ResolveGitFails \/ WebResolve \/ MarkResolved \/ CommandSave
            \/ UserCrash
  BY <1>10, <1>a DEF ResolveGet, ResolveGit, ResolveGitFails, WebResolve, MarkResolved, CommandSave, UserCrash
<1>11. CASE Check \/ Clear \/ RemoveStore \/ Resume \/ SyncRecovers \/ OtherCommand
  BY <1>11, <1>a DEF Check, Clear, RemoveStore, Resume, SyncRecovers, OtherCommand
<1>12. CASE SyncPulls \/ SyncFile \/ SyncRecord \/ SyncTake \/ SyncEnd
  BY <1>12, <1>a DEF SyncPulls, SyncFile, SyncRecord, SyncTake, SyncEnd
<1> QED
  BY <1>1, <1>2, <1>3, <1>4, <1>5, <1>6, <1>7, <1>8, <1>9, <1>10, <1>11, <1>12
  DEF Next, Cycle, Command, Begin

\* No scheduled poll syncs while the halt file is there.
THEOREM HaltObeyed == Spec => HaltStopsPolls
<1>1. Init => Obeyed
  BY DEF Init, Obeyed
<1>2. TypeOK /\ Obeyed /\ [Next]_vars =>
          Obeyed' /\ ((pc = "wait" /\ pc' = "preflight") => ~halt)
  <2> SUFFICES ASSUME TypeOK, Obeyed, [Next]_vars
               PROVE  Obeyed' /\ ((pc = "wait" /\ pc' = "preflight") => ~halt)
    OBVIOUS
  <2>1. CASE Next
    BY <2>1, TypeParts, ObeyedStep
  <2>2. CASE UNCHANGED vars
    BY <2>2 DEF vars, daemon, Obeyed
  <2> QED
    BY <2>1, <2>2
<1>3. Spec => []Obeyed
  BY <1>1, <1>2, DaemonTypeCorrect, PTL DEF Spec
<1>4. TypeOK /\ Obeyed /\ [Next]_vars => [(pc = "wait" /\ pc' = "preflight") => ~halt]_vars
  BY <1>2
<1> QED
  BY <1>3, <1>4, DaemonTypeCorrect, PTL DEF Spec, HaltStopsPolls

-----------------------------------------------------------------------------
(***************************************************************************)
(* A record stays until it is answered, or two rewrites overlap.           *)
(***************************************************************************)
\* A process that no other has overtaken has in hand what the store still
\* holds; `dhd conflicts clear` removes a store that had nothing pending.
Fresh == \A p \in Process : rewrite[p] # None /\ rewrite[p].late = {} => store = rewrite[p].list
ClearEmpty == command.step = "remove" => Pending(rewrite["command"].list) = {}

LEMMA FreshStep ==
    ASSUME StoreOK, CommandOK, WritesOK, todo \subseteq File, Fresh, Next PROVE Fresh'
<1> SUFFICES ASSUME NEW q \in Process, rewrite'[q] # None, rewrite'[q].late = {}
             PROVE  store' = rewrite'[q].list
  BY DEF Fresh
<1>1. CASE Quiet
  BY <1>1 DEF Quiet, Fresh
<1>2. ASSUME NEW p \in Process, Reading(p) PROVE store' = rewrite'[q].list
  <2>1. PICK f \in File \cup {None}, s \in Status : Reads(p, f, s) /\ UNCHANGED store
    BY <1>2 DEF Reading
  <2>2. CASE q = p
    BY <2>1, <2>2, ReadsRewrite
  <2>3. CASE q # p
    BY <2>1, <2>3, ReadsRewrite DEF Fresh
  <2> QED
    BY <2>2, <2>3
<1>3. ASSUME NEW p \in Process, Writing(p) PROVE store' = rewrite'[q].list
  BY <1>3, EndedRewrite DEF Writing, Saves
<1>4. ASSUME NEW p \in Process, Cutting(p) PROVE store' = rewrite'[q].list
  <2>1. q # p /\ rewrite[q] # None /\ store' = store /\ rewrite'[q] = rewrite[q]
    BY <1>4, CutRewrite DEF Cutting
  <2> QED
    BY <2>1 DEF Fresh
<1>5. CASE Removing
  BY <1>5, EndedRewrite DEF Removing, Process
<1> QED
  BY <1>1, <1>2, <1>3, <1>4, <1>5, StoreCases

LEMMA ClearStep ==
    ASSUME StoreOK, CommandOK, WritesOK, todo \subseteq File, ClearEmpty, Next PROVE ClearEmpty'
<1> USE DEF ClearEmpty
<1>a. "command" \in Process \ {"daemon"} /\ "daemon" \in Process /\ "command" \in Process
  BY DEF Process
<1>b. NoCommand.step = "none"
  BY NoCommandTyped
<1>c. ASSUME UNCHANGED command, Quiet \/ Reading("daemon") \/ Writing("daemon") \/ Cutting("daemon")
      PROVE  ClearEmpty'
  <2>1. SUFFICES ASSUME command.step = "remove" PROVE rewrite'["command"].list = rewrite["command"].list
    BY <1>c
  <2>2. rewrite["command"] # None
    BY <2>1 DEF WritesOK
  <2>3. CASE Quiet
    BY <2>3 DEF Quiet
  <2>4. CASE Reading("daemon")
    BY <2>4, <1>a, ReadsRewrite DEF Reading
  <2>5. CASE Writing("daemon")
    BY <2>5, <2>2, <1>a, EndedRewrite DEF Writing, Saves
  <2>6. CASE Cutting("daemon")
    BY <2>6, <2>2, <1>a, CutRewrite DEF Cutting
  <2> QED
    BY <1>c, <2>3, <2>4, <2>5, <2>6
<1>1. CASE DaemonActs
  BY <1>1, <1>c, DaemonLeaves DEF user
<1>2. CASE Stop \/ Restart
  BY <1>2, <1>c DEF Stop, Restart, Uninstall, Down, Cutting, user
<1>3. CASE Clear
  <2>1. Reads("command", None, None) /\ Pending(store) = {}
    BY <1>3 DEF Clear
  <2>2. rewrite'["command"].list = store
    BY <2>1, <1>a, ReadsRewrite DEF Status
  <2> QED
    BY <2>1, <2>2
<1>4. CASE Start \/ SyncRecovers \/ OtherCommand
  BY <1>4, <1>c DEF Start, SyncRecovers, OtherCommand, Quiet, user
<1>5. CASE ResolveGitFails \/ ClearHalt \/ RemoveStore \/ SyncEnd \/ UserCrash
  BY <1>5, <1>b DEF ResolveGitFails, ClearHalt, RemoveStore, SyncEnd, UserCrash, Ends
<1>6. CASE ResolveGit \/ MarkResolved \/ CommandSave \/ Check \/ SyncTake
  <2>1. command'.step \in {"none", "add", "save", "check", "take", "unhalt", "sync"}
    BY <1>6, <1>b DEF ResolveGit, MarkResolved, CommandSave, Check, SyncTake, Goes, Ends, AfterSave, CommandOK
  <2> QED
    BY <2>1
<1>7. CASE SyncFile
  BY <1>7, <1>c DEF SyncFile, Quiet, At
<1>8. CASE SyncRecord
  BY <1>8 DEF SyncRecord, CommandOK
<1>9. CASE ResolveGet
  BY <1>9 DEF ResolveGet
<1>10. CASE WebResolve
  <2>1. \E f \in File : command' = [NoCommand EXCEPT !.op = "web", !.step = "add", !.file = f]
    BY <1>10 DEF WebResolve
  <2> QED
    BY <2>1 DEF NoCommand
<1>11. CASE Resume
  BY <1>11 DEF Resume, NoCommand
<1>12. CASE SyncPulls
  BY <1>12 DEF SyncPulls, NoCommand
<1> QED
  BY <1>1, <1>2, <1>3, <1>4, <1>5, <1>6, <1>7, <1>8, <1>9, <1>10, <1>11, <1>12
  DEF Next, DaemonActs, Command, Begin

Answered(f) ==
    \/ store' = Broken
    \/ \E p \in Process : /\ rewrite[p] # None /\ rewrite'[p] = None
                          /\ rewrite[p].file = f \/ rewrite[p].late # {}

LEMMA AnsweredStep ==
    ASSUME StoreOK, CommandOK, WritesOK, todo \subseteq File, Fresh, ClearEmpty, Next,
           NEW f \in Pending(store) \ Pending(store')
    PROVE  Answered(f)
<1>a. store \in [File -> Status] /\ f \in File /\ store[f] = "pending" /\ store # Broken
  BY DEF StoreOK, Pending
<1>b. store' # store
  OBVIOUS
<1>1. CASE Quiet
  BY <1>1, <1>b DEF Quiet
<1>2. ASSUME NEW p \in Process, Reading(p) PROVE Answered(f)
  BY <1>2, <1>b DEF Reading
<1>3. ASSUME NEW p \in Process, Writing(p) PROVE Answered(f)
  <2>1. rewrite[p] # None /\ rewrite'[p] = None
    BY <1>3, EndedRewrite DEF Writing, Saves
  <2>2. CASE rewrite[p].late # {}
    BY <2>1, <2>2 DEF Answered
  <2>3. CASE rewrite[p].file = f
    BY <2>1, <2>3 DEF Answered
  <2>4. CASE rewrite[p].late = {} /\ rewrite[p].file # f
    <3>1. store' = Changed(rewrite[p])
      BY <1>3, <2>4 DEF Writing, Saves
    <3>2. rewrite[p].list = store
      BY <2>1, <2>4 DEF Fresh
    <3>3. store' = [store EXCEPT ![rewrite[p].file] = rewrite[p].status]
      BY <3>1, <3>2 DEF Changed
    <3>4. store'[f] = "pending" /\ store' \in [File -> Status]
      BY <3>1, <3>3, <2>1, <2>4, <1>a, SavedTyped
    <3> QED
      BY <3>4, <1>a, DaemonAssumption DEF Pending
  <2> QED
    BY <2>2, <2>3, <2>4
<1>4. ASSUME NEW p \in Process, Cutting(p) PROVE Answered(f)
  BY <1>4, <1>b, CutRewrite DEF Cutting, Answered
<1>5. CASE Removing
  <2>1. "command" \in Process /\ rewrite["command"] # None /\ rewrite'["command"] = None
    BY <1>5, EndedRewrite DEF Removing, Process
  <2>2. rewrite["command"].late # {}
    <3>1. Pending(rewrite["command"].list) = {}
      BY <1>5 DEF Removing, ClearEmpty
    <3> QED
      BY <2>1, <3>1 DEF Fresh
  <2> QED
    BY <2>1, <2>2 DEF Answered
<1> QED
  BY <1>1, <1>2, <1>3, <1>4, <1>5, StoreCases

Kept == Fresh /\ ClearEmpty

LEMMA KeptAlways == Spec => []Kept
<1>1. Init => Kept
  BY NoCommandTyped DEF Init, Kept, Fresh, ClearEmpty
<1>2. TypeOK /\ Kept /\ [Next]_vars => Kept'
  <2> SUFFICES ASSUME TypeOK, Kept, [Next]_vars PROVE Kept'
    OBVIOUS
  <2>1. CASE Next
    BY <2>1, TypeParts, FreshStep, ClearStep DEF Kept, DaemonOK
  <2>2. CASE UNCHANGED vars
    BY <2>2 DEF vars, user, Kept, Fresh, ClearEmpty
  <2> QED
    BY <2>1, <2>2
<1> QED
  BY <1>1, <1>2, DaemonTypeCorrect, PTL DEF Spec

\* Of commands and cycles in any order, a rewrite of the store that no other has
\* overtaken since it read the list takes no pending record but that of its own file.
THEOREM NoRecordLost == Spec => RecordsKept
<1>1. TypeOK /\ Kept /\ [Next]_vars => [\A f \in Pending(store) \ Pending(store') : Answered(f)]_vars
  BY AnsweredStep, TypeParts DEF Kept, DaemonOK
<1> QED
  BY <1>1, KeptAlways, DaemonTypeCorrect, PTL DEF Spec, RecordsKept, Answered

-----------------------------------------------------------------------------
(***************************************************************************)
(* What the daemon leaves in conflict, it records, as long as no command   *)
(* comes in between.                                                       *)
(***************************************************************************)
InHand(f) ==
    rewrite["daemon"] # None /\ rewrite["daemon"].status = "pending" /\ rewrite["daemon"].file = f
Recorded ==
    pc \in {"resolve", "halt", "conclude"} /\ ~crossed =>
        /\ merging /\ command.op = "none"
        /\ rewrite["daemon"] # None =>
              /\ rewrite["daemon"].late = {}
              /\ rewrite["daemon"].status = "pending" \/ rewrite["daemon"].file \notin Listed
        /\ Readable => \A f \in Listed : \/ f \in Pending(store)
                                         \/ f \in todo /\ pc # "conclude"
                                         \/ InHand(f)

LEMMA RecordedStep ==
    ASSUME RepoOK, StoreOK, DaemonOK, CommandOK, WritesOK, Fresh, Recorded, Next PROVE Recorded'
<1> USE DEF Recorded, repo, daemon, user
<1>a. /\ unmerged \in [File -> Code \cup {None}] /\ todo \subseteq File
      /\ store \in [File -> Status] \cup {Broken} /\ "daemon" \in Process
  BY DEF RepoOK, StoreOK, DaemonOK, Process
<1>b. ASSUME pc' \notin {"resolve", "halt", "conclude"} PROVE Recorded'
  BY <1>b
<1>c. ASSUME crossed' = TRUE PROVE Recorded'
  BY <1>c
<1>d. ASSUME pc \in {"resolve", "halt", "conclude"}, ~crossed PROVE ~Unreadable("daemon") \/ ~Readable
  <2>1. rewrite["command"] = None
    BY <1>d DEF WritesOK
  <2> QED
    BY <2>1 DEF Unreadable, Process
<1>1. CASE StartResolve
  <2>1. CASE pc' = "fallback"
    BY <2>1, <1>b
  <2>2. CASE pc' = "resolve" /\ todo' = Listed
    <3>1. merging' /\ command' = command /\ crossed' = (command.op # "none") /\ UNCHANGED <<rewrite, unmerged>>
      BY <1>1 DEF StartResolve
    <3>2. rewrite["daemon"] = None
      BY <1>1 DEF StartResolve, WritesOK
    <3>3. Listed' = Listed
      BY <3>1 DEF Listed
    <3> QED
      BY <2>2, <3>1, <3>2, <3>3
  <2> QED
    BY <1>1, <2>1, <2>2 DEF StartResolve
<1>2. CASE MergeFile
  <2> SUFFICES ASSUME ~crossed PROVE Recorded'
    BY <1>2 DEF MergeFile, bounds
  <2>1. PICK g \in todo : /\ unmerged' = [unmerged EXCEPT ![g] = None] /\ merging' = merging
                          /\ todo' = todo \ {g} /\ store' = store /\ command' = command
                          /\ pc = "resolve" /\ pc' = "resolve" /\ rewrite["daemon"] = None
                          /\ Reads("daemon", g, None) \/ (Unreadable("daemon") /\ UNCHANGED rewrite)
    BY <1>2 DEF MergeFile, StageFile
  <2>2. g \in File /\ Listed' = Listed \ {g}
    BY <2>1, <1>a, DaemonAssumption DEF Listed, Code
  <2>3. CASE Reads("daemon", g, None)
    <3>1. rewrite'["daemon"].late = {} /\ rewrite'["daemon"].file = g
      BY <2>2, <2>3, <1>a, ReadsRewrite DEF Status
    <3> QED
      BY <2>1, <2>2, <3>1 DEF Readable, InHand
  <2>4. CASE Unreadable("daemon") /\ UNCHANGED rewrite
    BY <2>1, <2>2, <2>4, <1>d DEF Readable, InHand
  <2> QED
    BY <2>1, <2>3, <2>4
<1>3. CASE Record
  <2> SUFFICES ASSUME ~crossed PROVE Recorded'
    BY <1>3 DEF Record, bounds
  <2>1. PICK g \in todo : /\ UNCHANGED <<unmerged, merging, store, command>> /\ todo' = todo \ {g}
                          /\ pc = "resolve" /\ pc' = "resolve" /\ rewrite["daemon"] = None
                          /\ Reads("daemon", g, "pending") \/ (Unreadable("daemon") /\ UNCHANGED rewrite)
    BY <1>3 DEF Record
  <2>2. g \in File /\ Listed' = Listed
    BY <2>1, <1>a DEF Listed
  <2>3. CASE Reads("daemon", g, "pending")
    <3>1. /\ rewrite'["daemon"] # None /\ rewrite'["daemon"].late = {}
          /\ rewrite'["daemon"].status = "pending" /\ rewrite'["daemon"].file = g
      BY <2>2, <2>3, <1>a, ReadsRewrite DEF Status
    <3> QED
      BY <2>1, <2>2, <3>1 DEF Readable, InHand
  <2>4. CASE Unreadable("daemon") /\ UNCHANGED rewrite
    BY <2>1, <2>2, <2>4, <1>d DEF Readable, InHand
  <2> QED
    BY <2>1, <2>3, <2>4
<1>4. CASE DaemonSave
  <2> SUFFICES ASSUME ~crossed PROVE Recorded'
    BY <1>4 DEF DaemonSave, bounds
  <2>1. /\ rewrite["daemon"] # None /\ Saves("daemon") /\ pc = "resolve"
        /\ UNCHANGED <<merging, unmerged, command, todo>> /\ pc' \in {"resolve", "halt"}
    BY <1>4 DEF DaemonSave, WritesOK
  <2>2. rewrite["daemon"].late = {} /\ store = rewrite["daemon"].list /\ Listed' = Listed
    BY <2>1, <1>a DEF Fresh, Listed
  <2>3. store' = [store EXCEPT ![rewrite["daemon"].file] = rewrite["daemon"].status]
    BY <2>1, <2>2 DEF Saves, Changed
  <2>4. rewrite'["daemon"] = None
    BY <2>1, <1>a, EndedRewrite DEF Saves
  <2>5. store \in [File -> Status] /\ rewrite["daemon"].file \in File \cup {None}
    BY <2>1, <2>2, <1>a DEF StoreOK, Rewrite
  <2>6. store' \in [File -> Status] /\ store' # Broken /\ store # Broken
    BY <2>1, <2>3, <2>5, <2>2, <1>a, SavedTyped, DaemonAssumption DEF Changed
  <2>7. ASSUME NEW f \in Listed PROVE f \in Pending(store') \/ f \in todo
    <3>0. f \in File
      BY DEF Listed
    <3>1. CASE f \in Pending(store)
      BY <3>0, <3>1, <2>1, <2>3, <2>5, <2>6 DEF Pending
    <3>2. CASE InHand(f)
      BY <3>0, <3>2, <2>3, <2>5, <2>6 DEF Pending, InHand
    <3>3. CASE f \in todo
      BY <3>3
    <3> QED
      BY <3>1, <3>2, <3>3, <2>1, <2>6 DEF Readable
  <2> QED
    BY <2>1, <2>2, <2>4, <2>7
<1>5. CASE WriteHalt \/ ResolveDone
  <2>1. UNCHANGED <<merging, unmerged, store, rewrite, todo, command, crossed>>
    BY <1>5 DEF WriteHalt, ResolveDone, bounds
  <2>2. Listed' = Listed
    BY <2>1 DEF Listed
  <2>3. CASE WriteHalt
    BY <2>1, <2>2, <2>3 DEF WriteHalt, Readable, InHand
  <2>4. CASE ResolveDone
    BY <2>1, <2>2, <2>4 DEF ResolveDone, Readable, InHand
  <2> QED
    BY <1>5, <2>3, <2>4
<1>6. CASE Boot \/ Poll \/ NoMerge \/ CompleteMerge \/ Conclude \/ Fallback \/ DaemonCrash
  BY <1>6, <1>b DEF Boot, Poll, NoMerge, CompleteMerge, Conclude, Fallback, DaemonCrash, Down
<1>7. CASE SyncPreflight \/ PullFails \/ SyncClean \/ SyncStops \/ SyncResolve \/ SyncCommit
  BY <1>7, <1>b DEF SyncPreflight, PullFails, SyncClean, SyncStops, SyncResolve, SyncCommit
<1>8. CASE Begin
  BY <1>8, <1>c DEF Begin, ResolveGet, WebResolve, Resume, Clear, Start, Stop, Restart, SyncRecovers,
     SyncPulls, OtherCommand, May
<1>9. CASE Command
  <2>1. command.op # "none"
    BY <1>9 DEF Command, ResolveGit, ResolveGitFails, MarkResolved, CommandSave, Check, ClearHalt,
       RemoveStore, SyncFile, SyncRecord, SyncTake, SyncEnd, At, WritesOK
  <2>2. UNCHANGED <<pc, crossed>>
    BY <1>9 DEF Command, ResolveGit, ResolveGitFails, MarkResolved, CommandSave, Check, ClearHalt,
       RemoveStore, SyncFile, SyncRecord, SyncTake, SyncEnd, bounds
  <2> QED
    BY <2>1, <2>2
<1>10. CASE UserCrash
  BY <1>10 DEF UserCrash
<1> QED
  BY <1>1, <1>2, <1>3, <1>4, <1>5, <1>6, <1>7, <1>8, <1>9, <1>10 DEF Next, Cycle

\* When the daemon commits a merge, what is still in conflict in it is recorded for the
\* user, unless the store does not parse or a command has come in between.
THEOREM DaemonAlwaysRecords == Spec => DaemonRecords
<1>1. Init => Recorded
  BY DEF Init, Recorded
<1>2. TypeOK /\ Kept /\ Recorded /\ [Next]_vars => Recorded'
  <2> SUFFICES ASSUME TypeOK, Kept, Recorded, [Next]_vars PROVE Recorded'
    OBVIOUS
  <2>1. CASE UNCHANGED vars
    BY <2>1 DEF vars, repo, daemon, user, bounds, Recorded, Listed, Readable, Pending, InHand
  <2> QED
    BY <2>1, RecordedStep, TypeParts DEF Kept
<1>3. Spec => []Recorded
  BY <1>1, <1>2, KeptAlways, DaemonTypeCorrect, PTL DEF Spec
<1>4. TypeOK /\ Recorded =>
        [pc = "conclude" /\ pc' = "sync" /\ merging /\ Readable /\ ~crossed
            => Listed \subseteq Pending(store)]_vars
  BY DEF Recorded, TypeOK, InHand
<1> QED
  BY <1>3, <1>4, DaemonTypeCorrect, PTL DEF DaemonRecords
=============================================================================
