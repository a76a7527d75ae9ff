--------------------------- MODULE VaultSync_proofs ---------------------------
(***************************************************************************)
(* Proofs about VaultSync, for any machines, files, edits and crashes.     *)
(***************************************************************************)
EXTENDS VaultSync, TLAPS

Option == {None} \cup Content

-----------------------------------------------------------------------------
(***************************************************************************)
(* Types.                                                                  *)
(***************************************************************************)
LEMMA MergedTreeType ==
    ASSUME GitTypeOK, NEW m \in Machine, NEW t \in Tree, NEW p \in SUBSET Path
    PROVE  MergedTree(m, t, p) \in Tree
<1>1. MergedState(m, t, p) \in [File -> Option]
  <2>1. base[m].state \in [File -> Option] /\ head[m].state \in [File -> Option]
            /\ t.state \in [File -> Option]
    BY DEF GitTypeOK, Tree, Option
  <2>2. MapMerge(base[m].state, head[m].state, t.state) \in [File -> Option]
    BY <2>1 DEF MapMerge, KeyMerge
  <2> QED
    BY <2>1, <2>2 DEF MergedState
<1>2. [f \in File |-> IF TakesTheirs(m, p, f) THEN t.vault[f] ELSE head[m].vault[f]]
          \in [File -> Option]
  BY DEF GitTypeOK, Tree, Option
<1> QED
  BY <1>1, <1>2 DEF MergedTree, Tree, Option

LEMMA CheckoutType ==
    ASSUME GitTypeOK, NEW m \in Machine, NEW t \in Tree
    PROVE  Checkout(m, t) \in Tree
BY DEF GitTypeOK, Tree, Checkout

LEMMA RememberType ==
    ASSUME GitTypeOK, NEW t \in Tree
    PROVE  Remember(t) \in [File -> SUBSET Content]
BY DEF GitTypeOK, Tree, Remember

LEMMA ConcludeType ==
    ASSUME GitTypeOK, NEW m \in Machine, Merging(m),
           NEW t \in Tree, NEW kept \in SUBSET Path, Conclude(m, t, kept)
    PROVE  GitTypeOK'
<1>1. Remember(t) \in [File -> SUBSET Content]
  BY RememberType
<1>2. mergeHead[m] \in Tree
  BY DEF GitTypeOK, Merging
<1> QED
  BY <1>1, <1>2 DEF GitTypeOK, Conclude

LEMMA CommitAllType ==
    ASSUME GitTypeOK, NEW m \in Machine, CommitAll(m) PROVE GitTypeOK'
<1>1. CASE Merging(m)
  <2>1. Kept(m, fetched[m]) \cup dirty[m] \in SUBSET Path
    BY DEF GitTypeOK, Kept
  <2> QED
    BY <1>1, <2>1, ConcludeType DEF CommitAll, GitTypeOK
<1>2. CASE ~Merging(m)
  <2>1. Remember(work[m]) \in [File -> SUBSET Content]
    BY RememberType DEF GitTypeOK
  <2>2. ahead' \in [Machine -> BOOLEAN]
    BY <1>2 DEF CommitAll, GitTypeOK
  <2>3. touched' \in [Machine -> SUBSET Path] /\ dirty' \in [Machine -> SUBSET Path]
    BY <1>2 DEF CommitAll, GitTypeOK
  <2>4. head' \in [Machine -> Tree] /\ history' \in [File -> SUBSET Content]
    <3>1. head' = [head EXCEPT ![m] = work[m]] /\ history' = Remember(work[m])
      BY <1>2 DEF CommitAll
    <3> QED
      BY <2>1, <3>1 DEF GitTypeOK
  <2>5. UNCHANGED <<remote, base, work, mergeHead, locked, theirs, fetched, behind>>
    BY <1>2 DEF CommitAll
  <2> QED
    BY <2>2, <2>3, <2>4, <2>5 DEF GitTypeOK
<1> QED
  BY <1>1, <1>2

\* The vault directory after a `git merge --abort`.
Aborted(m) ==
    LET stays == dirty[m] \ fetched[m]
    IN  [state |-> IF StatePath \in stays THEN work[m].state ELSE head[m].state,
         vault |-> [f \in File |-> IF f \in stays THEN work[m].vault[f] ELSE head[m].vault[f]]]

LEMMA AbortMergeType ==
    ASSUME GitTypeOK, NEW m \in Machine, AbortMerge(m) PROVE GitTypeOK'
<1>1. Aborted(m) \in Tree
  BY DEF GitTypeOK, Tree, Aborted
<1>2. work' = [work EXCEPT ![m] = Aborted(m)] /\ dirty' = [dirty EXCEPT ![m] = dirty[m] \ fetched[m]]
  BY DEF AbortMerge, Aborted
<1> QED
  BY <1>1, <1>2 DEF GitTypeOK, AbortMerge

LEMMA ResolveRemoteType ==
    ASSUME GitTypeOK, NEW m \in Machine, Merging(m), ResolveConflictsRemote(m)
    PROVE  GitTypeOK'
<1> DEFINE t == mergeHead[m]
           staged == File \cap dirty[m] \cap fetched[m]
           seen == Detected(m, t, fetched[m]) \ staged
           added == staged \cup {f \in File \cap dirty[m] : head[m].vault[f] = None}
           merged == MergedTree(m, t, fetched[m])
           tree == [state |-> IF StatePath \in seen THEN t.state ELSE merged.state,
                    vault |-> [f \in File |-> IF f \in seen THEN t.vault[f]
                                              ELSE IF f \in added THEN work[m].vault[f]
                                              ELSE merged.vault[f]]]
           kept == (Kept(m, fetched[m]) \ seen) \cup added
<1>1. t \in Tree
  BY DEF GitTypeOK, Merging
<1>2. merged \in Tree
  BY <1>1, MergedTreeType DEF GitTypeOK
<1>3. tree \in Tree
  <2> HIDE DEF merged, seen, added
  <2> QED BY <1>1, <1>2 DEF GitTypeOK, Tree
<1>4. kept \in SUBSET Path
  BY DEF GitTypeOK, Kept, Path
<1>5. AbortMerge(m) \/ Conclude(m, tree, kept)
  BY DEF ResolveConflictsRemote
<1> HIDE DEF tree, kept
<1> QED
  BY <1>3, <1>4, <1>5, AbortMergeType, ConcludeType

LEMMA RecoverType ==
    ASSUME GitTypeOK, NEW m \in Machine, Recover(m) PROVE GitTypeOK'
BY CommitAllType, ResolveRemoteType DEF Recover, GitTypeOK, git

LEMMA PullType ==
    ASSUME GitTypeOK, NEW m \in Machine, PullOk(m) \/ PullConflict(m) \/ PullFails(m)
    PROVE  GitTypeOK'
<1>0. remote \in Tree /\ theirs[m] \in SUBSET Path
  BY DEF GitTypeOK
<1> DEFINE tree == MergedTree(m, remote, theirs[m])
<1>t. tree \in Tree
  BY <1>0, MergedTreeType
<1>1. CASE PullCurrent(m) \/ PullFails(m)
  BY <1>1 DEF PullCurrent, PullFails, git, GitTypeOK
<1>2. CASE PullForward(m)
  BY <1>0, <1>2, CheckoutType DEF PullForward, GitTypeOK
<1>3. CASE PullMerge(m)
  <2>1. Checkout(m, tree) \in Tree /\ Kept(m, theirs[m]) \in SUBSET Path
    BY <1>t, CheckoutType DEF GitTypeOK, Kept
  <2> QED
    BY <1>0, <1>t, <1>3, <2>1 DEF PullMerge, GitTypeOK
<1>4. CASE PullConflict(m)
  <2>1. Checkout(m, tree) \in Tree
    BY <1>t, CheckoutType
  <2> QED
    BY <1>0, <1>4, <2>1 DEF PullConflict, GitTypeOK
<1> QED
  BY <1>1, <1>2, <1>3, <1>4 DEF PullOk

LEMMA PushType ==
    ASSUME GitTypeOK, NEW m \in Machine, PushOk(m) \/ PushFails(m) PROVE GitTypeOK'
<1>1. CASE PushOk(m)
  <2>1. behind' \in [Machine -> BOOLEAN]
    <3>1. [n \in Machine |-> n # m] \in [Machine -> BOOLEAN]
      BY Zenon
    <3> QED
      BY <1>1, <3>1 DEF PushOk, GitTypeOK
  <2>2. theirs' \in [Machine -> SUBSET Path]
    BY <1>1 DEF PushOk, GitTypeOK
  <2> QED
    BY <1>1, <2>1, <2>2 DEF PushOk, GitTypeOK
<1>2. CASE PushFails(m)
  BY <1>2 DEF PushFails, git, GitTypeOK
<1> QED
  BY <1>1, <1>2

LEMMA WriteStateType ==
    ASSUME GitTypeOK, NEW m \in Machine, NEW files \in [File -> Option], WriteState(m, files)
    PROVE  GitTypeOK'
<1>1. [work[m] EXCEPT !.state = files] \in Tree
  BY DEF GitTypeOK, Tree, Option
<1>2. work' = [work EXCEPT ![m] = [work[m] EXCEPT !.state = files]]
  BY DEF WriteState
<1> QED
  BY <1>1, <1>2 DEF WriteState, git, GitTypeOK, Path

LEMMA StoreFileType ==
    ASSUME GitTypeOK, NEW m \in Machine, NEW f \in File, NEW c \in Option, StoreFile(m, f, c)
    PROVE  GitTypeOK'
<1>1. [work[m] EXCEPT !.vault = [work[m].vault EXCEPT ![f] = c]] \in Tree
  BY DEF GitTypeOK, Tree, Option
<1>2. CASE WriteVault(m, f, c)
  <2>1. work' = [work EXCEPT ![m] = [work[m] EXCEPT !.vault = [work[m].vault EXCEPT ![f] = c]]]
    BY <1>2 DEF WriteVault
  <2> QED
    BY <1>1, <1>2, <2>1 DEF WriteVault, git, GitTypeOK, Path
<1>3. CASE UNCHANGED <<git, work, dirty>>
  BY <1>3 DEF git, GitTypeOK
<1> QED
  BY <1>2, <1>3 DEF StoreFile

\* What resolveConflicts makes of the vault directory.
LEMMA MergedEditsType ==
    ASSUME GitTypeOK, NEW m \in Machine, Merging(m), NEW overlap,
           NEW f \in SmartMerged(m, mergeHead[m], overlap)
    PROVE  /\ f \in File
           /\ base[m].vault[f] \in Content /\ head[m].vault[f] \in Content
           /\ mergeHead[m].vault[f] \in Content
           /\ MergeEdits(base[m].vault[f], head[m].vault[f], mergeHead[m].vault[f]) \in Content
<1>1. f \in File /\ f \in Detected(m, mergeHead[m], fetched[m]) /\ base[m].vault[f] # None
  BY DEF SmartMerged
<1>2. head[m].vault[f] # None /\ mergeHead[m].vault[f] # None
  BY <1>1, ConstantsAssumption DEF Detected
<1>3. mergeHead[m] \in Tree
  BY DEF GitTypeOK, Merging
<1>4. /\ base[m].vault[f] \in Content /\ head[m].vault[f] \in Content
      /\ mergeHead[m].vault[f] \in Content
  BY <1>1, <1>2, <1>3 DEF GitTypeOK, Tree
<1> QED
  BY <1>1, <1>4 DEF MergeEdits, Content

LEMMA SettledType ==
    ASSUME GitTypeOK, NEW m \in Machine, Merging(m), NEW done, NEW overlap
    PROVE  Settled(m, done, overlap) \in Tree
<1> DEFINE t == mergeHead[m]
           merged == MergedTree(m, t, fetched[m])
           smart == SmartMerged(m, t, overlap)
           edits(f) == MergeEdits(base[m].vault[f], head[m].vault[f], t.vault[f])
<1>1. t \in Tree
  BY DEF GitTypeOK, Merging
<1>2. merged \in Tree
  BY <1>1, MergedTreeType DEF GitTypeOK
<1>3. \A f \in smart : edits(f) \in Content
  BY MergedEditsType
<1>4. Settled(m, done, overlap) =
        [state |-> IF StatePath \in done THEN t.state ELSE merged.state,
         vault |-> [f \in File |-> IF f \notin done THEN merged.vault[f]
                                   ELSE IF f \in smart THEN edits(f) ELSE t.vault[f]]]
  BY DEF Settled
<1> HIDE DEF t, merged, smart, edits
<1> QED
  BY <1>1, <1>2, <1>3, <1>4 DEF Tree

LEMMA ResolveGitType ==
    ASSUME GitTypeOK, NEW m \in Machine, Merging(m), Resolve(m) PROVE GitTypeOK'
<1> DEFINE seen == Detected(m, mergeHead[m], fetched[m])
           kept(o) == (Kept(m, fetched[m]) \ seen) \cup SmartMerged(m, mergeHead[m], o)
<1>1. PICK o : Conclude(m, Settled(m, seen, o), kept(o))
  BY DEF Resolve
<1>2. Settled(m, seen, o) \in Tree
  BY SettledType
<1>3. kept(o) \in SUBSET Path
  BY DEF GitTypeOK, Kept, Path, SmartMerged
<1> HIDE DEF kept, seen
<1> QED
  BY <1>1, <1>2, <1>3, ConcludeType

\* A panic leaves some of the conflicting paths settled, staged and not committed.
Stages(m) ==
    \E done \in SUBSET Detected(m, mergeHead[m], fetched[m]) : \E overlap :
        /\ work' = [work EXCEPT ![m] = Settled(m, done, overlap)]
        /\ dirty' = [dirty EXCEPT ![m] = dirty[m] \cup done]
        /\ UNCHANGED git

LEMMA MergePanicsStages ==
    ASSUME NEW m \in Machine, MergePanics(m) PROVE Stages(m)
<1>1. PICK f \in SmartMerged(m, mergeHead[m], {}) \cap Contested(m, mergeHead[m]) :
        \E done \in SUBSET (Detected(m, mergeHead[m], fetched[m]) \ {f}) :
        \E overlap \in SUBSET (Contested(m, mergeHead[m]) \cap done) :
           /\ work' = [work EXCEPT ![m] = Settled(m, done, overlap)]
           /\ dirty' = [dirty EXCEPT ![m] = dirty[m] \cup done]
  BY DEF MergePanics
<1>2. UNCHANGED git
  BY DEF MergePanics
<1> QED
  BY <1>1, <1>2 DEF Stages

LEMMA StagesType ==
    ASSUME GitTypeOK, NEW m \in Machine, Merging(m), Stages(m) PROVE GitTypeOK'
<1>1. PICK done \in SUBSET Detected(m, mergeHead[m], fetched[m]) : \E overlap :
        /\ work' = [work EXCEPT ![m] = Settled(m, done, overlap)]
        /\ dirty' = [dirty EXCEPT ![m] = dirty[m] \cup done]
        /\ UNCHANGED git
  BY DEF Stages
<1>2. PICK overlap : work' = [work EXCEPT ![m] = Settled(m, done, overlap)]
  BY <1>1
<1>3. Settled(m, done, overlap) \in Tree
  BY SettledType
<1>4. done \subseteq Path
  BY DEF Detected, Path
<1> QED
  BY <1>1, <1>2, <1>3, <1>4 DEF git, GitTypeOK

LEMMA FinishedType ==
    ASSUME CommandTypeOK, NEW m \in Machine, NEW label \in Resting, Finished(m, label)
    PROVE  /\ pc' \in [Machine -> Resting \cup SyncSteps \cup CommandSteps]
           /\ mem' \in [Machine -> [File -> Option]]
           /\ todo' \in [Machine -> SUBSET File]
           /\ cur' \in [Machine -> File \cup {None}]
           /\ \A n \in Machine : pc'[n] \in NamesFile => cur'[n] \in File
           /\ modified' \in [Machine -> BOOLEAN]
BY DEF CommandTypeOK, Finished, Goto, NoFiles, Option, Resting, NamesFile

\* The command moves on to a step that concerns file c.
LEMMA GotoType ==
    ASSUME CommandTypeOK, NEW m \in Machine, NEW c \in File,
           NEW label \in Resting \cup SyncSteps \cup CommandSteps,
           Goto(m, label), cur' = [cur EXCEPT ![m] = c]
    PROVE  /\ pc' \in [Machine -> Resting \cup SyncSteps \cup CommandSteps]
           /\ cur' \in [Machine -> File \cup {None}]
           /\ \A n \in Machine : pc'[n] \in NamesFile => cur'[n] \in File
<1>1. /\ pc \in [Machine -> Resting \cup SyncSteps \cup CommandSteps]
      /\ cur \in [Machine -> File \cup {None}]
      /\ \A n \in Machine : pc[n] \in NamesFile => cur[n] \in File
      /\ pc' = [pc EXCEPT ![m] = label]
  BY DEF CommandTypeOK, Goto
<1> QED
  BY <1>1

\* What a step of a sync does to the clone, in terms of git.
LEMMA SyncStepGitType ==
    ASSUME TypeOK, NEW m \in Machine, StartSync(m) \/ SyncStep(m) PROVE GitTypeOK'
<1> USE DEF TypeOK
<1>1. CASE StartSync(m)
  BY <1>1, RecoverType DEF StartSync
<1>2. ASSUME NEW f \in File, PushStore(m, f) PROVE GitTypeOK'
  BY <1>2, StoreFileType DEF PushStore, CommandTypeOK, Option
<1>3. CASE PushSave(m)
  <2>1. mem[m] \in [File -> Option]
    BY DEF CommandTypeOK, Option
  <2> QED
    BY <1>3, <2>1, WriteStateType DEF PushSave, git, GitTypeOK
<1>4. CASE PushCommit(m) \/ FinishCommit(m)
  BY <1>4, CommitAllType DEF PushCommit, FinishCommit
<1>5. CASE PushSend(m) \/ OfflinePush(m) \/ FinishPush(m)
  BY <1>5, PushType DEF PushSend, OfflinePush, FinishPush, PushAndFlag
<1>6. CASE PullDone(m) \/ PullStopped(m) \/ PullUnreachable(m)
  BY <1>6, PullType DEF PullDone, PullStopped, PullUnreachable
<1>7. CASE Resolve(m)
  <2>1. Merging(m)
    BY <1>7 DEF Resolve, Merging
  <2> QED
    BY <1>7, <2>1, ResolveGitType
<1>8. CASE UNCHANGED git /\ UNCHANGED work /\ UNCHANGED dirty
  BY <1>8 DEF git, GitTypeOK
<1>9. CASE MergePanics(m)
  <2>1. Merging(m)
    BY <1>9 DEF MergePanics, Merging
  <2> QED
    BY <1>9, <2>1, MergePanicsStages, StagesType
<1> QED
  BY <1>1, <1>2, <1>3, <1>4, <1>5, <1>6, <1>7, <1>8, <1>9
     DEF SyncStep, PushSkip, RestoreSkip, RestoreCheck, PushChecksum, RestoreWrite, RestoreDone

LEMMA CommandStepGitType ==
    ASSUME TypeOK, NEW m \in Machine, CommandStep(m) PROVE GitTypeOK'
<1> USE DEF TypeOK
<1>1. CASE CommandPull(m) \/ CommandRetryPull(m)
  BY <1>1, PullType DEF CommandPull, CommandRetryPull
<1>2. CASE Track(m) \/ Untrack(m)
  <2>1. cur[m] \in File
    BY <1>2 DEF Track, Untrack, CommandTypeOK, NamesFile
  <2>2. local[m][cur[m]] \in Option /\ None \in Option
    BY <2>1 DEF CommandTypeOK, Option
  <2> QED
    BY <1>2, <2>1, <2>2, StoreFileType DEF Track, Untrack
<1>3. CASE CommandSave(m)
  <2>1. mem[m] \in [File -> Option]
    BY DEF CommandTypeOK, Option
  <2> QED
    BY <1>3, <2>1, WriteStateType DEF CommandSave
<1>4. CASE CommandCommit(m)
  BY <1>4, CommitAllType DEF CommandCommit
<1>5. CASE CommandPush(m) \/ CommandRetryPush(m)
  BY <1>5, PushType DEF CommandPush, CommandRetryPush
<1>6. CASE TrackRejected(m) \/ UntrackRejected(m)
  BY <1>6 DEF TrackRejected, UntrackRejected, git, GitTypeOK
<1> QED
  BY <1>1, <1>2, <1>3, <1>4, <1>5, <1>6 DEF CommandStep

LEMMA RecordType ==
    ASSUME CommandTypeOK, NEW m \in Machine, NEW overlap,
           NEW done \in SUBSET Detected(m, mergeHead[m], fetched[m]), RecordSettled(m, done, overlap)
    PROVE  conflicts' \in [Machine -> SUBSET Path]
<1>1. done \subseteq Path
  BY DEF Detected, Path
<1> QED
  BY <1>1 DEF RecordSettled, CommandTypeOK

\* What a step does to the command, its machine's files and its config.
LEMMA SyncStepCommandType ==
    ASSUME TypeOK, GitTypeOK', NEW m \in Machine, StartSync(m) \/ SyncStep(m)
    PROVE  CommandTypeOK'
<1> USE DEF TypeOK, CommandTypeOK, Goto, Resting, SyncSteps, CommandSteps, NamesFile
<1>t. work'[m].state \in [File -> Option]
  BY DEF GitTypeOK, Tree, Option
<1>1. CASE StartSync(m)
  BY <1>1, <1>t DEF StartSync, Option
<1>2. ASSUME NEW f \in File, PushSkip(m, f) \/ RestoreSkip(m, f) PROVE CommandTypeOK'
  <2>1. todo' \in [Machine -> SUBSET File]
    BY <1>2 DEF PushSkip, RestoreSkip
  <2>2. UNCHANGED <<local, pending, conflicts, pc, mem, cur, modified, used, crashes>>
    BY <1>2 DEF PushSkip, RestoreSkip
  <2> QED
    BY <2>1, <2>2
<1>3. ASSUME NEW f \in File, PushStore(m, f) \/ RestoreCheck(m, f) PROVE CommandTypeOK'
  <2>1. PICK label \in {"sum_same", "sum_written", "write"} : pc' = [pc EXCEPT ![m] = label]
    BY <1>3 DEF PushStore, RestoreCheck
  <2>2. cur' = [cur EXCEPT ![m] = f]
    BY <1>3 DEF PushStore, RestoreCheck
  <2>3. UNCHANGED <<local, pending, conflicts, mem, todo, modified, used, crashes>>
    BY <1>3 DEF PushStore, RestoreCheck
  <2> QED
    BY <2>1, <2>2, <2>3, GotoType
<1>4. CASE PushChecksum(m)
  <2>1. cur[m] \in File
    BY <1>4 DEF PushChecksum
  <2>2. mem' = [mem EXCEPT ![m] = [mem[m] EXCEPT ![cur[m]] =
                  IF Missing(m, cur[m]) THEN mem[m][cur[m]] ELSE local[m][cur[m]]]]
    BY <1>4 DEF PushChecksum
  <2>3. mem' \in [Machine -> [File -> Option]]
    BY <2>1, <2>2 DEF Option
  <2>4. modified' \in [Machine -> BOOLEAN]
    BY <1>4 DEF PushChecksum
  <2> QED
    BY <1>4, <2>3, <2>4 DEF PushChecksum, Option
<1>5. CASE PushSave(m) \/ PushCommit(m) \/ RestoreDone(m) \/ FinishCommit(m)
            \/ PullStopped(m) \/ PullUnreachable(m)
  <2>1. PICK label \in {"commit", "send", "pull", "finish", "last_push", "resolve", "offline"} :
           pc' = [pc EXCEPT ![m] = label]
    BY <1>5 DEF PushSave, PushCommit, RestoreDone, FinishCommit, PullStopped, PullUnreachable
  <2>2. UNCHANGED <<local, pending, conflicts, mem, todo, cur, modified, used, crashes>>
    BY <1>5 DEF PushSave, PushCommit, RestoreDone, FinishCommit, PullStopped, PullUnreachable
  <2> QED
    BY <2>1, <2>2
<1>6. CASE PushSend(m)
  <2>1. pending' \in [Machine -> BOOLEAN]
    BY <1>6 DEF PushSend, PushAndFlag
  <2> QED
    BY <1>6, <2>1 DEF PushSend
<1>7. CASE OfflinePush(m) \/ FinishPush(m)
  <2>1. pending' \in [Machine -> BOOLEAN]
    BY <1>7 DEF OfflinePush, FinishPush, PushAndFlag
  <2>2. Finished(m, "idle") /\ UNCHANGED <<local, conflicts, used, crashes>>
    BY <1>7 DEF OfflinePush, FinishPush
  <2> QED
    BY <2>1, <2>2, FinishedType DEF Option
<1>8. CASE PullDone(m)
  BY <1>8, <1>t DEF PullDone, Option
<1>9. CASE RestoreWrite(m)
  <2>1. cur[m] \in File
    BY <1>9 DEF RestoreWrite
  <2>2. work[m].vault[cur[m]] \in Option
    BY <2>1 DEF GitTypeOK, Tree, Option
  <2>3. local' = [local EXCEPT ![m] = [local[m] EXCEPT ![cur[m]] =
           IF work[m].vault[cur[m]] = None THEN local[m][cur[m]] ELSE work[m].vault[cur[m]]]]
    BY <1>9 DEF RestoreWrite
  <2>4. local' \in [Machine -> [File -> Option]]
    BY <2>1, <2>2, <2>3 DEF Option
  <2> QED
    BY <1>9, <2>4 DEF RestoreWrite, Option
<1>10. CASE Resolve(m)
  <2>1. conflicts' \in [Machine -> SUBSET Path]
    BY <1>10, RecordType DEF Resolve
  <2> QED
    BY <1>10, <2>1 DEF Resolve
<1>11. CASE MergePanics(m)
  <2>1. Finished(m, "down") /\ UNCHANGED <<local, pending, used, crashes>>
    BY <1>11 DEF MergePanics
  <2>2. conflicts' \in [Machine -> SUBSET Path]
    <3>1. PICK f : \E done \in SUBSET (Detected(m, mergeHead[m], fetched[m]) \ {f}) : \E overlap :
              RecordSettled(m, done, overlap)
      BY <1>11 DEF MergePanics
    <3> QED
      BY <3>1, RecordType
  <2> QED
    BY <2>1, <2>2, FinishedType DEF Option
<1> QED
  BY <1>1, <1>2, <1>3, <1>4, <1>5, <1>6, <1>7, <1>8, <1>9, <1>10, <1>11 DEF SyncStep

LEMMA CommandStepCommandType ==
    ASSUME TypeOK, GitTypeOK', NEW m \in Machine, CommandStep(m)
    PROVE  CommandTypeOK'
<1> USE DEF TypeOK, CommandTypeOK, Goto, Resting, SyncSteps, CommandSteps, NamesFile
<1>1. CASE CommandPull(m) \/ CommandSave(m) \/ CommandCommit(m)
  BY <1>1 DEF CommandPull, CommandSave, CommandCommit
<1>2. CASE TrackRejected(m) \/ UntrackRejected(m) \/ CommandRetryPush(m)
            \/ ((CommandPush(m) \/ CommandRetryPull(m)) /\ Finished(m, "idle"))
  <2>1. Finished(m, "idle") /\ UNCHANGED <<local, pending, conflicts, used, crashes>>
    BY <1>2 DEF TrackRejected, UntrackRejected, CommandRetryPush, CommandPush, CommandRetryPull
  <2> QED
    BY <2>1, FinishedType DEF Option
<1>3. CASE Track(m) \/ Untrack(m)
  <2>1. cur[m] \in File
    BY <1>3 DEF Track, Untrack
  <2>2. PICK c \in Option : mem' = [mem EXCEPT ![m] = [work[m].state EXCEPT ![cur[m]] = c]]
    <3>1. local[m][cur[m]] \in Option /\ None \in Option
      BY <2>1 DEF Option
    <3> QED
      BY <1>3, <3>1 DEF Track, Untrack
  <2>3. mem' \in [Machine -> [File -> Option]]
    <3>1. work[m].state \in [File -> Option]
      BY DEF GitTypeOK, Tree, Option
    <3> QED
      BY <2>2, <3>1 DEF Option
  <2>4. /\ pc' = [pc EXCEPT ![m] = "cmd_save"]
        /\ UNCHANGED <<local, pending, conflicts, todo, cur, modified, used, crashes>>
    BY <1>3 DEF Track, Untrack
  <2> QED
    BY <2>3, <2>4 DEF Option
<1>4. CASE (CommandPush(m) \/ CommandRetryPull(m)) /\ ~Finished(m, "idle")
  BY <1>4 DEF CommandPush, CommandRetryPull
<1> QED
  BY <1>1, <1>2, <1>3, <1>4 DEF CommandStep

LEMMA EnvironmentCommandType ==
    ASSUME TypeOK, NEW m \in Machine,
           \/ Crash(m) \/ KeychainChanges(m)
           \/ \E f \in File :
                 \/ StartTrack(m, f) \/ StartUntrack(m, f) \/ UserDelete(m, f)
                 \/ \E e \in Edit : UserEdit(m, f, e)
    PROVE  CommandTypeOK'
<1> USE DEF TypeOK, CommandTypeOK, Goto, Resting, SyncSteps, CommandSteps, NamesFile
<1>1. ASSUME NEW f \in File, StartTrack(m, f) \/ StartUntrack(m, f) PROVE CommandTypeOK'
  <2>1. PICK label \in {"track_pull", "untrack_pull"} : pc' = [pc EXCEPT ![m] = label]
    BY <1>1 DEF StartTrack, StartUntrack, StartCommand
  <2>2. /\ cur' = [cur EXCEPT ![m] = f]
        /\ UNCHANGED <<local, pending, conflicts, mem, todo, modified, used, crashes>>
    BY <1>1 DEF StartTrack, StartUntrack, StartCommand
  <2> QED
    BY <2>1, <2>2, GotoType
<1>2. ASSUME NEW f \in File, NEW e \in Edit, UserEdit(m, f, e) PROVE CommandTypeOK'
  <2>1. PICK c \in Option : local' = [local EXCEPT ![m] = [local[m] EXCEPT ![f] = c]]
    <3>1. (IF local[m][f] = None THEN {} ELSE local[m][f]) \cup {e} \in Option
      BY DEF Option, Content
    <3> QED
      BY <1>2, <3>1 DEF UserEdit
  <2>2. local' \in [Machine -> [File -> Option]]
    BY <2>1 DEF Option
  <2>3. used' \subseteq Edit /\ UNCHANGED <<pending, conflicts, proc, crashes>>
    BY <1>2 DEF UserEdit
  <2> QED
    BY <2>2, <2>3 DEF proc, Option
<1>3. ASSUME NEW f \in File, UserDelete(m, f) PROVE CommandTypeOK'
  <2>1. local' = [local EXCEPT ![m] = [local[m] EXCEPT ![f] = None]]
    BY <1>3 DEF UserDelete
  <2>2. local' \in [Machine -> [File -> Option]]
    BY <2>1 DEF Option
  <2> QED
    BY <1>3, <2>2 DEF UserDelete, proc, Option
<1>4. CASE Crash(m)
  <2>1. Finished(m, "down") /\ UNCHANGED <<local, pending, conflicts, used>>
    BY <1>4 DEF Crash
  <2>2. crashes' \in 0 .. MaxCrashes
    BY <1>4, ConstantsAssumption DEF Crash
  <2> QED
    BY <2>1, <2>2, FinishedType DEF Option
<1>5. CASE KeychainChanges(m)
  BY <1>5 DEF KeychainChanges, proc, Option
<1> QED
  BY <1>1, <1>2, <1>3, <1>4, <1>5

-----------------------------------------------------------------------------
(***************************************************************************)
(* Every step of the system is, for the clone of the machine that takes    *)
(* it, one of these.                                                       *)
(***************************************************************************)
GitStep(m) ==
    \/ UNCHANGED <<git, work, dirty>>
    \/ \E files \in [File -> Option] : WriteState(m, files)
    \/ \E f \in File, c \in Option : WriteVault(m, f, c)
    \/ CommitAll(m)
    \/ Merging(m) /\ (Resolve(m) \/ Stages(m) \/ ResolveConflictsRemote(m))
    \/ PullForward(m) \/ PullMerge(m) \/ PullConflict(m)
    \/ PushOk(m)
    \/ KeychainChanges(m)

LEMMA SyncStepGit ==
    ASSUME TypeOK, NEW m \in Machine, StartSync(m) \/ SyncStep(m) PROVE GitStep(m)
<1> USE DEF TypeOK
<1>1. CASE StartSync(m)
  BY <1>1 DEF StartSync, Recover, GitStep
<1>2. ASSUME NEW f \in File, PushStore(m, f) PROVE GitStep(m)
  BY <1>2 DEF PushStore, StoreFile, CommandTypeOK, Option, GitStep
<1>3. CASE PushSave(m)
  BY <1>3 DEF PushSave, CommandTypeOK, Option, GitStep
<1>4. CASE PushCommit(m) \/ FinishCommit(m)
  BY <1>4 DEF PushCommit, FinishCommit, GitStep
<1>5. CASE PushSend(m) \/ OfflinePush(m) \/ FinishPush(m)
  BY <1>5 DEF PushSend, OfflinePush, FinishPush, PushAndFlag, PushFails, GitStep
<1>6. CASE PullDone(m) \/ PullStopped(m) \/ PullUnreachable(m)
  BY <1>6 DEF PullDone, PullStopped, PullUnreachable, PullOk, PullCurrent, PullFails, GitStep
<1>7. CASE Resolve(m)
  BY <1>7 DEF Resolve, Merging, GitStep
<1>8. CASE UNCHANGED git /\ UNCHANGED work /\ UNCHANGED dirty
  BY <1>8 DEF GitStep
<1>9. CASE MergePanics(m)
  <2>1. Merging(m)
    BY <1>9 DEF MergePanics, Merging
  <2> QED
    BY <1>9, <2>1, MergePanicsStages DEF GitStep
<1> QED
  BY <1>1, <1>2, <1>3, <1>4, <1>5, <1>6, <1>7, <1>8, <1>9
     DEF SyncStep, PushSkip, RestoreSkip, RestoreCheck, PushChecksum, RestoreWrite, RestoreDone

LEMMA CommandStepGit ==
    ASSUME TypeOK, NEW m \in Machine, CommandStep(m) PROVE GitStep(m)
<1> USE DEF TypeOK
<1>1. CASE CommandPull(m) \/ CommandRetryPull(m)
  BY <1>1 DEF CommandPull, CommandRetryPull, PullOk, PullCurrent, PullFails, GitStep
<1>2. CASE Track(m) \/ Untrack(m)
  <2>1. cur[m] \in File
    BY <1>2 DEF Track, Untrack, CommandTypeOK, NamesFile
  <2>2. local[m][cur[m]] \in Option /\ None \in Option
    BY <2>1 DEF CommandTypeOK, Option
  <2> QED
    BY <1>2, <2>1, <2>2 DEF Track, Untrack, StoreFile, GitStep
<1>3. CASE CommandSave(m)
  BY <1>3 DEF CommandSave, CommandTypeOK, Option, GitStep
<1>4. CASE CommandCommit(m)
  BY <1>4 DEF CommandCommit, GitStep
<1>5. CASE CommandPush(m) \/ CommandRetryPush(m)
  BY <1>5 DEF CommandPush, CommandRetryPush, PushFails, GitStep
<1>6. CASE TrackRejected(m) \/ UntrackRejected(m)
  BY <1>6 DEF TrackRejected, UntrackRejected, GitStep
<1> QED
  BY <1>1, <1>2, <1>3, <1>4, <1>5, <1>6 DEF CommandStep

LEMMA NextGit ==
    ASSUME TypeOK, Next PROVE \E m \in Machine : GitStep(m)
<1>1. PICK m \in Machine :
        \/ StartSync(m) \/ SyncStep(m) \/ CommandStep(m) \/ Crash(m) \/ KeychainChanges(m)
        \/ \E f \in File :
              \/ StartTrack(m, f) \/ StartUntrack(m, f) \/ UserDelete(m, f)
              \/ \E e \in Edit : UserEdit(m, f, e)
  BY DEF Next
<1>2. CASE StartSync(m) \/ SyncStep(m)
  BY <1>2, SyncStepGit
<1>3. CASE CommandStep(m)
  BY <1>3, CommandStepGit
<1>4. CASE ~(StartSync(m) \/ SyncStep(m) \/ CommandStep(m))
  BY <1>1, <1>4 DEF Crash, StartTrack, StartUntrack, StartCommand, UserDelete, UserEdit, GitStep
<1> QED
  BY <1>2, <1>3, <1>4

-----------------------------------------------------------------------------
\* A step of m leaves the clones of the others alone, but for what the remote has more.
LEMMA GitStepFrame ==
    ASSUME GitTypeOK, NEW m \in Machine, GitStep(m), NEW n \in Machine \ {m}
    PROVE  /\ base'[n] = base[n] /\ head'[n] = head[n] /\ work'[n] = work[n]
           /\ mergeHead'[n] = mergeHead[n] /\ locked'[n] = locked[n] /\ touched'[n] = touched[n]
           /\ dirty'[n] = dirty[n] /\ fetched'[n] = fetched[n] /\ ahead'[n] = ahead[n]
<1>1. CASE UNCHANGED <<git, work, dirty>>
  BY <1>1 DEF git
<1>2. CASE (\E files \in [File -> Option] : WriteState(m, files))
            \/ (\E f \in File, c \in Option : WriteVault(m, f, c))
  BY <1>2 DEF WriteState, WriteVault, git, GitTypeOK
<1>3. ASSUME NEW tree, NEW kept, Conclude(m, tree, kept)
      PROVE  /\ base'[n] = base[n] /\ head'[n] = head[n] /\ work'[n] = work[n]
             /\ mergeHead'[n] = mergeHead[n] /\ locked'[n] = locked[n] /\ touched'[n] = touched[n]
             /\ dirty'[n] = dirty[n] /\ fetched'[n] = fetched[n] /\ ahead'[n] = ahead[n]
  BY <1>3 DEF Conclude, GitTypeOK
<1>4. CASE CommitAll(m)
  <2>1. CASE Merging(m)
    BY <1>3, <1>4, <2>1 DEF CommitAll
  <2>2. CASE ~Merging(m)
    BY <1>4, <2>2 DEF CommitAll, GitTypeOK
  <2> QED
    BY <2>1, <2>2
<1>5. CASE Resolve(m)
  BY <1>3, <1>5 DEF Resolve
<1>6. CASE ResolveConflictsRemote(m)
  <2>1. CASE AbortMerge(m)
    BY <2>1 DEF AbortMerge, GitTypeOK
  <2> QED
    BY <1>3, <1>6, <2>1 DEF ResolveConflictsRemote
<1>7. CASE PullForward(m) \/ PullMerge(m) \/ PullConflict(m)
  BY <1>7 DEF PullForward, PullMerge, PullConflict, GitTypeOK
<1>8. CASE PushOk(m)
  BY <1>8 DEF PushOk, GitTypeOK
<1>9. CASE Stages(m)
  BY <1>9 DEF Stages, git, GitTypeOK
<1>10. CASE KeychainChanges(m)
  BY <1>10 DEF KeychainChanges, GitTypeOK
<1> QED
  BY <1>1, <1>2, <1>4, <1>5, <1>6, <1>7, <1>8, <1>9, <1>10 DEF GitStep

\* Machines other than m stay where they are, and m's command starts to resolve
\* conflicts only right after a pull that left it merging.
LEMMA ResolveStarts ==
    ASSUME TypeOK, NEW m \in Machine,
           \/ StartSync(m) \/ SyncStep(m) \/ CommandStep(m) \/ Crash(m) \/ KeychainChanges(m)
           \/ \E f \in File :
                 \/ StartTrack(m, f) \/ StartUntrack(m, f) \/ UserDelete(m, f)
                 \/ \E e \in Edit : UserEdit(m, f, e)
    PROVE  \A n \in Machine :
              pc'[n] = "resolve" => (n # m /\ pc[n] = "resolve") \/ (n = m /\ PullStopped(m))
                                      \/ (UNCHANGED <<pc, mergeHead>>)
<1> USE DEF TypeOK, CommandTypeOK, Goto, Finished
<1>1. CASE StartSync(m) \/ CommandStep(m) \/ Crash(m)
  BY <1>1 DEF StartSync, CommandStep, Crash, CommandPull, CommandRetryPull, Track, Untrack, CommandSave,
              CommandCommit, CommandPush, CommandRetryPush, TrackRejected, UntrackRejected
<1>2. CASE KeychainChanges(m) \/ \E f \in File : \/ StartTrack(m, f) \/ StartUntrack(m, f) \/ UserDelete(m, f)
                                                 \/ \E e \in Edit : UserEdit(m, f, e)
  BY <1>2 DEF KeychainChanges, StartTrack, StartUntrack, StartCommand, UserDelete, UserEdit, proc, git
<1>3. CASE SyncStep(m) /\ ~PullStopped(m)
  BY <1>3 DEF SyncStep, PushSkip, PushStore, RestoreSkip, RestoreCheck, PushChecksum, PushSave,
              PushCommit, PushSend, PullDone, PullUnreachable, OfflinePush, Resolve, MergePanics,
              RestoreWrite, RestoreDone, FinishCommit, FinishPush
<1>4. CASE PullStopped(m)
  BY <1>4 DEF PullStopped
<1> QED
  BY <1>1, <1>2, <1>3, <1>4

\* Types hold in every state; in particular a command that resolves conflicts is merging.
THEOREM TypeCorrect == Spec => []TypeOK
<1>1. Init => TypeOK
  <2> SUFFICES ASSUME Init PROVE TypeOK
    OBVIOUS
  <2>1. PICK tracked :
          LET files == [f \in File |-> IF f \in tracked THEN {} ELSE None]
              tree == [state |-> files, vault |-> files]
          IN  /\ local = [m \in Machine |-> [f \in File |->
                            IF GlobalOwner[f] \in {None, m} THEN files[f] ELSE None]]
              /\ remote = tree
              /\ base = [m \in Machine |-> tree]
              /\ head = [m \in Machine |-> tree]
              /\ work = [m \in Machine |-> tree]
              /\ history = [f \in File |-> {files[f]} \ {None}]
    BY DEF Init
  <2> DEFINE files == [f \in File |-> IF f \in tracked THEN {} ELSE None]
  <2>2. files \in [File -> Option]
    BY DEF Option, Content
  <2>3. [state |-> files, vault |-> files] \in Tree
    BY <2>2 DEF Tree, Option
  <2>4. local \in [Machine -> [File -> Option]]
    BY <2>1, <2>2 DEF Option
  <2>5. history \in [File -> SUBSET Content]
    BY <2>1, <2>2 DEF Option
  <2>6. GitTypeOK
    BY <2>1, <2>3, <2>5 DEF Init, GitTypeOK
  <2>7. CommandTypeOK
    <3>1. NoFiles \in [File -> Option]
      BY DEF NoFiles, Option
    <3> QED
      BY <2>4, <3>1, ConstantsAssumption DEF Init, CommandTypeOK, Resting, NamesFile, Option
  <2> QED
    BY <2>6, <2>7 DEF Init, TypeOK
<1>2. TypeOK /\ [Next]_vars => TypeOK'
  <2> SUFFICES ASSUME TypeOK, [Next]_vars PROVE TypeOK'
    OBVIOUS
  <2>1. CASE UNCHANGED vars
    BY <2>1 DEF vars, git, proc, TypeOK, GitTypeOK, CommandTypeOK
  <2>2. ASSUME NEW m \in Machine,
               \/ StartSync(m) \/ SyncStep(m) \/ CommandStep(m) \/ Crash(m) \/ KeychainChanges(m)
               \/ \E f \in File :
                     \/ StartTrack(m, f) \/ StartUntrack(m, f) \/ UserDelete(m, f)
                     \/ \E e \in Edit : UserEdit(m, f, e)
        PROVE  TypeOK'
    <3>1. GitTypeOK'
      <4>1. CASE StartSync(m) \/ SyncStep(m)
        BY <4>1, SyncStepGitType
      <4>2. CASE CommandStep(m)
        BY <4>2, CommandStepGitType
      <4>3. CASE KeychainChanges(m)
        BY <4>3 DEF KeychainChanges, TypeOK, GitTypeOK
      <4>4. CASE ~(StartSync(m) \/ SyncStep(m) \/ CommandStep(m) \/ KeychainChanges(m))
        <5>1. UNCHANGED <<git, work, dirty>>
          BY <2>2, <4>4 DEF StartTrack, StartUntrack, StartCommand, UserEdit, UserDelete, Crash
        <5> QED
          BY <5>1 DEF TypeOK, git, GitTypeOK
      <4> QED
        BY <4>1, <4>2, <4>3, <4>4
    <3>2. CommandTypeOK'
      <4>1. CASE StartSync(m) \/ SyncStep(m)
        BY <3>1, <4>1, SyncStepCommandType
      <4>2. CASE CommandStep(m)
        BY <3>1, <4>2, CommandStepCommandType
      <4>3. CASE ~(StartSync(m) \/ SyncStep(m) \/ CommandStep(m))
        BY <2>2, <4>3, EnvironmentCommandType
      <4> QED
        BY <4>1, <4>2, <4>3
    <3>3. ASSUME NEW n \in Machine, pc'[n] = "resolve" PROVE mergeHead'[n] # None
      <4>1. CASE n # m /\ pc[n] = "resolve"
        <5>1. GitStep(m)
          <6>1. CASE StartSync(m) \/ SyncStep(m)
            BY <6>1, SyncStepGit
          <6>2. CASE CommandStep(m)
            BY <6>2, CommandStepGit
          <6>3. CASE ~(StartSync(m) \/ SyncStep(m) \/ CommandStep(m))
            BY <2>2, <6>3 DEF StartTrack, StartUntrack, StartCommand, UserEdit, UserDelete,
                              Crash, GitStep
          <6> QED
            BY <6>1, <6>2, <6>3
        <5> QED
          BY <4>1, <5>1, GitStepFrame DEF TypeOK
      <4>2. CASE n = m /\ PullStopped(m)
        BY <4>2, ConstantsAssumption DEF PullStopped, PullConflict, TypeOK, GitTypeOK
      <4>3. CASE UNCHANGED <<pc, mergeHead>>
        BY <3>3, <4>3 DEF TypeOK
      <4> QED
        BY <2>2, <3>3, <4>1, <4>2, <4>3, ResolveStarts
    <3> QED
      BY <3>1, <3>2, <3>3 DEF TypeOK
  <2> QED
    BY <2>1, <2>2 DEF Next
<1> QED
  BY <1>1, <1>2, PTL DEF Spec

-----------------------------------------------------------------------------
(***************************************************************************)
(* Bookkeeping: what git knows of each clone is true.                      *)
(***************************************************************************)
Knows(m) ==
    /\ Same(base[m], head[m], touched[m])
    /\ Same(base[m], Tip(m), fetched[m])
    /\ Same(Tip(m), remote, theirs[m])
    /\ Same(MergedTree(m, Tip(m), fetched[m]), work[m], dirty[m])
    /\ ~Merging(m) => fetched[m] = {}
    /\ ~ahead[m] => head[m] = base[m]
    /\ ~behind[m] => remote = Tip(m)

\* A merge gives every path that is not kept the version of the tree merged in.
LEMMA MergeTakesTheRest ==
    ASSUME NEW m \in Machine, NEW t, NEW p,
           Same(base[m], head[m], touched[m]), Same(base[m], t, p)
    PROVE  Same(t, MergedTree(m, t, p), Kept(m, p))
<1>1. ASSUME StatePath \notin Kept(m, p) PROVE t.state = MergedState(m, t, p)
  <2>1. StatePath \notin touched[m]
    BY <1>1, ConstantsAssumption DEF Kept
  <2> QED
    BY <2>1 DEF MergedState, Same
<1>2. ASSUME NEW f \in File \ Kept(m, p)
      PROVE  t.vault[f] = IF TakesTheirs(m, p, f) THEN t.vault[f] ELSE head[m].vault[f]
  BY <1>2 DEF Kept, TakesTheirs, Same
<1> QED
  BY <1>1, <1>2 DEF Same, MergedTree

\* Without a merge, the merged tree is HEAD.
LEMMA NothingToMerge ==
    ASSUME TypeOK, NEW m \in Machine, NEW t PROVE MergedTree(m, t, {}) = head[m]
<1>1. head[m] = [state |-> head[m].state, vault |-> [f \in File |-> head[m].vault[f]]]
  BY DEF TypeOK, GitTypeOK, Tree
<1> QED
  BY <1>1 DEF MergedTree, MergedState, TakesTheirs

LEMMA SameTree ==
    ASSUME NEW t \in Tree, NEW u \in Tree, Same(t, u, {}) PROVE t = u
BY DEF Tree, Same

\* Concluding a merge is right when the paths not counted as kept are theirs.
LEMMA ConcludeKnows ==
    ASSUME TypeOK, TypeOK', NEW m \in Machine, Merging(m), Knows(m), NEW tree, NEW kept,
           Conclude(m, tree, kept), Same(mergeHead[m], tree, kept)
    PROVE  Knows(m)'
<1>1. /\ head'[m] = tree /\ work'[m] = tree /\ base'[m] = mergeHead[m] /\ mergeHead'[m] = None
      /\ touched'[m] = kept /\ dirty'[m] = {} /\ fetched'[m] = {} /\ ahead'[m] = TRUE
      /\ UNCHANGED <<remote, theirs, behind>>
  BY DEF Conclude, TypeOK, GitTypeOK
<1>2. Tip(m) = mergeHead[m] /\ Tip(m)' = mergeHead[m]
  BY <1>1 DEF Tip, Merging
<1>3. MergedTree(m, Tip(m), fetched[m])' = tree
  <2>1. head'[m] = [state |-> head'[m].state, vault |-> [f \in File |-> head'[m].vault[f]]]
    BY DEF TypeOK, GitTypeOK, Tree
  <2> QED
    BY <1>1, <2>1 DEF MergedTree, MergedState, TakesTheirs
<1> QED
  BY <1>1, <1>2, <1>3 DEF Knows, Same, Merging

LEMMA CommitAllKnows ==
    ASSUME TypeOK, TypeOK', NEW m \in Machine, Knows(m), CommitAll(m) PROVE Knows(m)'
<1>1. CASE Merging(m)
  <2> DEFINE t == mergeHead[m]
             kept == Kept(m, fetched[m]) \cup dirty[m]
  <2>1. Tip(m) = t
    BY <1>1 DEF Tip
  <2>2. Same(t, MergedTree(m, t, fetched[m]), Kept(m, fetched[m]))
    BY <2>1, MergeTakesTheRest DEF Knows
  <2>3. Same(t, work[m], kept)
    BY <2>1, <2>2 DEF Knows, Same
  <2>4. Conclude(m, work[m], kept)
    BY <1>1 DEF CommitAll
  <2> HIDE DEF kept
  <2> QED
    BY <1>1, <2>3, <2>4, ConcludeKnows
<1>2. CASE ~Merging(m)
  <2>0. ~ahead'[m] => ~ahead[m] /\ dirty[m] = {}
    <3>1. ahead' = [ahead EXCEPT ![m] = IF dirty[m] = {} THEN ahead[m] ELSE TRUE]
      BY <1>2 DEF CommitAll
    <3>2. ahead'[m] = IF dirty[m] = {} THEN ahead[m] ELSE TRUE
      BY <3>1, Zenon DEF TypeOK, GitTypeOK
    <3> QED
      BY <3>2
  <2>1. /\ head'[m] = work[m] /\ touched'[m] = touched[m] \cup dirty[m] /\ dirty'[m] = {}
        /\ UNCHANGED <<remote, base, work, mergeHead, theirs, fetched, behind>>
    BY <1>2 DEF CommitAll, TypeOK, GitTypeOK
  <2>2. fetched[m] = {} /\ Tip(m) = base[m] /\ Tip(m)' = base[m]
    BY <1>2, <2>1 DEF Knows, Tip, Merging
  <2>3. Same(head[m], work[m], dirty[m])
    BY <2>2, NothingToMerge DEF Knows
  <2>4. Same(base[m], head[m], touched[m])' /\ Same(base[m], Tip(m), fetched[m])'
            /\ Same(Tip(m), remote, theirs[m])'
    BY <2>1, <2>2, <2>3 DEF Knows, Same
  <2>5. Same(MergedTree(m, Tip(m), fetched[m]), work[m], dirty[m])'
    BY <2>1, <2>2 DEF MergedTree, MergedState, TakesTheirs, Same
  <2>6. ASSUME ~ahead'[m] PROVE head'[m] = base'[m]
    <3>1. work[m] = head[m]
      BY <2>0, <2>3, <2>6, SameTree DEF TypeOK, GitTypeOK
    <3> QED
      BY <2>0, <2>1, <2>6, <3>1 DEF Knows
  <2> QED
    BY <2>1, <2>2, <2>4, <2>5, <2>6 DEF Knows, Merging
<1> QED
  BY <1>1, <1>2

LEMMA AbortMergeKnows ==
    ASSUME TypeOK, NEW m \in Machine, Merging(m), Knows(m), AbortMerge(m) PROVE Knows(m)'
<1>1. /\ work'[m] = Aborted(m)
      /\ mergeHead'[m] = None /\ fetched'[m] = {} /\ behind'[m] = TRUE
      /\ theirs'[m] = theirs[m] \cup fetched[m] /\ dirty'[m] = dirty[m] \ fetched[m]
      /\ UNCHANGED <<remote, base, head, touched, ahead, history>>
  BY DEF AbortMerge, Aborted, TypeOK, GitTypeOK
<1>2. Tip(m)' = base[m]
  BY <1>1 DEF Tip, Merging
<1>3. Same(Tip(m), remote, theirs[m])'
  BY <1>1, <1>2 DEF Knows, Same
<1>4. Same(MergedTree(m, Tip(m), fetched[m]), work[m], dirty[m])'
  BY <1>1, <1>2 DEF Aborted, MergedTree, MergedState, TakesTheirs, Same
<1> QED
  BY <1>1, <1>2, <1>3, <1>4 DEF Knows, Same, Merging

LEMMA ResolveRemoteKnows ==
    ASSUME TypeOK, TypeOK', NEW m \in Machine, Merging(m), Knows(m), ResolveConflictsRemote(m)
    PROVE  Knows(m)'
<1> DEFINE t == mergeHead[m]
           staged == File \cap dirty[m] \cap fetched[m]
           seen == Detected(m, t, fetched[m]) \ staged
           added == staged \cup {f \in File \cap dirty[m] : head[m].vault[f] = None}
           merged == MergedTree(m, t, fetched[m])
           tree == [state |-> IF StatePath \in seen THEN t.state ELSE merged.state,
                    vault |-> [f \in File |-> IF f \in seen THEN t.vault[f]
                                              ELSE IF f \in added THEN work[m].vault[f]
                                              ELSE merged.vault[f]]]
           kept == (Kept(m, fetched[m]) \ seen) \cup added
<1>1. Tip(m) = t
  BY DEF Tip
<1>2. Same(t, merged, Kept(m, fetched[m]))
  BY <1>1, MergeTakesTheRest DEF Knows
<1>3. Same(t, tree, kept)
  <2>1. StatePath \notin added
    BY ConstantsAssumption
  <2> HIDE DEF merged, seen, added, t
  <2> QED
    BY <1>2, <2>1 DEF Same
<1>4. AbortMerge(m) \/ Conclude(m, tree, kept)
  BY DEF ResolveConflictsRemote
<1> HIDE DEF tree, kept
<1> QED
  BY <1>3, <1>4, AbortMergeKnows, ConcludeKnows

LEMMA ResolveKnows ==
    ASSUME TypeOK, TypeOK', NEW m \in Machine, Merging(m), Knows(m), Resolve(m)
    PROVE  Knows(m)'
<1> DEFINE t == mergeHead[m]
           seen == Detected(m, t, fetched[m])
           merged == MergedTree(m, t, fetched[m])
           smart(o) == SmartMerged(m, t, o)
           tree(o) == Settled(m, seen, o)
           kept(o) == (Kept(m, fetched[m]) \ seen) \cup smart(o)
<1>1. PICK o : Conclude(m, tree(o), kept(o))
  BY DEF Resolve
<1>2. Tip(m) = t
  BY DEF Tip
<1>3. Same(t, merged, Kept(m, fetched[m]))
  BY <1>2, MergeTakesTheRest DEF Knows
<1>4. Same(t, tree(o), kept(o))
  <2>1. StatePath \notin smart(o)
    BY ConstantsAssumption DEF SmartMerged
  <2>2. /\ tree(o).state = IF StatePath \in seen THEN t.state ELSE merged.state
        /\ \A f \in File \ smart(o) : tree(o).vault[f] = IF f \in seen THEN t.vault[f] ELSE merged.vault[f]
    BY DEF Settled
  <2> HIDE DEF merged, seen, smart, t, tree
  <2> QED
    BY <1>3, <2>1, <2>2 DEF Same
<1> HIDE DEF tree, kept
<1> QED
  BY <1>1, <1>4, ConcludeKnows

\* What a panic leaves differs from the merge in what it has staged.
LEMMA StagesKnows ==
    ASSUME TypeOK, NEW m \in Machine, Merging(m), Knows(m), Stages(m) PROVE Knows(m)'
<1>1. PICK done \in SUBSET Detected(m, mergeHead[m], fetched[m]) : \E overlap :
        /\ work' = [work EXCEPT ![m] = Settled(m, done, overlap)]
        /\ dirty' = [dirty EXCEPT ![m] = dirty[m] \cup done]
        /\ UNCHANGED git
  BY DEF Stages
<1>2. PICK overlap : work' = [work EXCEPT ![m] = Settled(m, done, overlap)]
  BY <1>1
<1>3. work'[m] = Settled(m, done, overlap) /\ dirty'[m] = dirty[m] \cup done /\ UNCHANGED git
  BY <1>1, <1>2 DEF TypeOK, GitTypeOK
<1>4. Tip(m) = mergeHead[m] /\ Tip(m)' = Tip(m) /\ Merging(m)' = Merging(m)
      /\ MergedTree(m, Tip(m), fetched[m])' = MergedTree(m, Tip(m), fetched[m])
  BY <1>3 DEF git, Tip, Merging, MergedTree, MergedState, TakesTheirs
<1>5. Same(MergedTree(m, Tip(m), fetched[m]), Settled(m, done, overlap), done)
  BY <1>4 DEF Same, Settled
<1>6. Same(MergedTree(m, Tip(m), fetched[m]), work[m], dirty[m])'
  BY <1>3, <1>4, <1>5 DEF Same
<1> QED
  BY <1>3, <1>4, <1>6 DEF git, Knows, Same

\* Whether the driver can load the vault decides nothing while nothing is merged.
LEMMA KeychainKnows ==
    ASSUME TypeOK, NEW m \in Machine, Knows(m), KeychainChanges(m) PROVE Knows(m)'
<1>1. /\ ~Merging(m) /\ fetched[m] = {}
      /\ UNCHANGED <<remote, base, head, work, mergeHead, touched, dirty, theirs, fetched, behind, ahead>>
  BY DEF KeychainChanges, Knows
<1>2. Tip(m)' = Tip(m) /\ Merging(m)' = Merging(m)
      /\ MergedTree(m, Tip(m), fetched[m])' = MergedTree(m, Tip(m), fetched[m])
  BY <1>1 DEF Tip, Merging, MergedTree, MergedState, TakesTheirs
<1> QED
  BY <1>1, <1>2 DEF Knows, Same

LEMMA PullKnows ==
    ASSUME TypeOK, NEW m \in Machine, Knows(m),
           PullForward(m) \/ PullMerge(m) \/ PullConflict(m)
    PROVE  Knows(m)'
<1>0. ~Merging(m) /\ Tip(m) = base[m] /\ fetched[m] = {} /\ mergeHead[m] = None
  BY DEF PullForward, PullMerge, PullConflict, PullAllowed, Tip, Knows, Merging
<1> DEFINE tree == MergedTree(m, remote, theirs[m])
<1>1. CASE PullForward(m)
  <2>1. /\ head'[m] = remote /\ base'[m] = remote /\ work'[m] = Checkout(m, remote)
        /\ theirs'[m] = {} /\ behind'[m] = FALSE
        /\ UNCHANGED <<remote, mergeHead, touched, dirty, fetched, ahead, history>>
    BY <1>1 DEF PullForward, TypeOK, GitTypeOK
  <2>2. Tip(m)' = remote
    BY <1>0, <2>1 DEF Tip, Merging
  <2>3. Same(MergedTree(m, Tip(m), fetched[m]), work[m], dirty[m])'
    BY <1>0, <2>1 DEF MergedTree, MergedState, TakesTheirs, Checkout, Same
  <2> QED
    BY <1>0, <2>1, <2>2, <2>3 DEF Knows, Same, Merging
<1>2. CASE PullMerge(m)
  <2>1. /\ head'[m] = tree /\ base'[m] = remote /\ work'[m] = Checkout(m, tree)
        /\ touched'[m] = Kept(m, theirs[m]) /\ theirs'[m] = {} /\ behind'[m] = FALSE /\ ahead[m]
        /\ UNCHANGED <<remote, mergeHead, dirty, fetched, ahead, history>>
    BY <1>2 DEF PullMerge, TypeOK, GitTypeOK
  <2>2. Tip(m)' = remote
    BY <1>0, <2>1 DEF Tip, Merging
  <2>3. Same(remote, tree, Kept(m, theirs[m]))
    BY <1>0, MergeTakesTheRest DEF Knows
  <2> HIDE DEF tree
  <2>4. Same(MergedTree(m, Tip(m), fetched[m]), work[m], dirty[m])'
    BY <1>0, <2>1 DEF MergedTree, MergedState, TakesTheirs, Checkout, Same
  <2> QED
    BY <1>0, <2>1, <2>2, <2>3, <2>4 DEF Knows, Same, Merging
<1>3. CASE PullConflict(m)
  <2>1. /\ mergeHead'[m] = remote /\ work'[m] = Checkout(m, tree)
        /\ fetched'[m] = theirs[m] /\ theirs'[m] = {} /\ behind'[m] = FALSE
        /\ UNCHANGED <<remote, base, head, locked, touched, dirty, ahead, history>>
    BY <1>3 DEF PullConflict, TypeOK, GitTypeOK
  <2>2. Merging(m)' /\ Tip(m)' = remote
    BY <2>1, ConstantsAssumption DEF Tip, Merging, TypeOK, GitTypeOK
  <2>3. MergedTree(m, Tip(m), fetched[m])' = tree
    BY <2>1, <2>2 DEF MergedTree, MergedState, TakesTheirs
  <2>4. Same(tree, Checkout(m, tree), dirty[m])
    BY DEF Same, Checkout
  <2> HIDE DEF tree
  <2> QED
    BY <1>0, <2>1, <2>2, <2>3, <2>4 DEF Knows, Same
<1> QED
  BY <1>1, <1>2, <1>3

\* What m pushes is on the remote, which the others know only in part from then on.
LEMMA PushKnows ==
    ASSUME TypeOK, NEW m \in Machine, NEW n \in Machine, Knows(m), Knows(n), PushOk(m)
    PROVE  Knows(n)'
<1>1. ~Merging(m) /\ mergeHead[m] = None /\ Tip(m) = base[m] /\ fetched[m] = {} /\ remote = base[m]
  BY DEF PushOk, Tip, Knows, Merging
<1>2. UNCHANGED <<head, work, dirty, mergeHead, locked, fetched, history>> /\ remote' = head[m]
  BY DEF PushOk
<1>3. CASE n = m
  <2>1. /\ base'[m] = head[m] /\ touched'[m] = {} /\ theirs'[m] = {}
    BY DEF PushOk, TypeOK, GitTypeOK
  <2>2. Tip(m)' = head[m]
    BY <1>1, <1>2, <2>1 DEF Tip, Merging
  <2>3. Same(MergedTree(m, Tip(m), fetched[m]), work[m], dirty[m])'
    <3>1. Same(head[m], work[m], dirty[m])
      BY <1>1, NothingToMerge DEF Knows
    <3> QED
      BY <1>1, <1>2, <3>1 DEF MergedTree, MergedState, TakesTheirs, Same
  <2> QED
    BY <1>1, <1>2, <1>3, <2>1, <2>2, <2>3 DEF Knows, Same, Merging
<1>4. CASE n # m
  <2>1. /\ base'[n] = base[n] /\ touched'[n] = touched[n] /\ ahead'[n] = ahead[n]
        /\ theirs'[n] = theirs[n] \cup touched[m]
    BY <1>4 DEF PushOk, TypeOK, GitTypeOK
  <2>2. ~behind'[n] => ~ahead[m] /\ ~behind[n]
    BY <1>4 DEF PushOk, TypeOK, GitTypeOK
  <2>3. Tip(n)' = Tip(n) /\ MergedTree(n, Tip(n), fetched[n])' = MergedTree(n, Tip(n), fetched[n])
    BY <1>2, <2>1 DEF Tip, Merging, MergedTree, MergedState, TakesTheirs
  <2>4. Same(Tip(n), remote, theirs[n])'
    BY <1>1, <1>2, <2>1, <2>3 DEF Knows, Same
  <2>5. ~behind'[n] => remote' = Tip(n)'
    BY <1>1, <1>2, <2>2, <2>3 DEF Knows
  <2> QED
    BY <1>2, <2>1, <2>3, <2>4, <2>5 DEF Knows, Merging
<1> QED
  BY <1>3, <1>4

\* The remote, and what the others do not have of it, changes with a push only.
LEMMA GitStepRemote ==
    ASSUME TypeOK, NEW m \in Machine, GitStep(m), ~PushOk(m)
    PROVE  /\ remote' = remote
           /\ \A n \in Machine \ {m} : theirs'[n] = theirs[n] /\ behind'[n] = behind[n]
<1> USE DEF TypeOK, GitTypeOK
<1>1. ASSUME NEW tree, NEW kept, Conclude(m, tree, kept)
      PROVE  remote' = remote /\ theirs' = theirs /\ behind' = behind
  BY <1>1 DEF Conclude
<1>2. CASE CommitAll(m)
  BY <1>1, <1>2 DEF CommitAll
<1>3. CASE Resolve(m)
  BY <1>1, <1>3 DEF Resolve
<1>4. CASE ResolveConflictsRemote(m)
  <2>1. CASE AbortMerge(m)
    BY <2>1 DEF AbortMerge
  <2> QED
    BY <1>1, <1>4, <2>1 DEF ResolveConflictsRemote
<1>5. CASE PullForward(m) \/ PullMerge(m) \/ PullConflict(m)
  BY <1>5 DEF PullForward, PullMerge, PullConflict
<1> QED
  BY <1>2, <1>3, <1>4, <1>5 DEF GitStep, WriteState, WriteVault, Stages, KeychainChanges, git

\* A clone stops being ahead of the remote by a push only.
LEMMA OnlyPushPublishes ==
    ASSUME TypeOK, NEW m \in Machine, GitStep(m), ahead[m], ~ahead'[m] PROVE PushOk(m)
<1> SUFFICES ASSUME ~PushOk(m) PROVE ahead'[m]
  OBVIOUS
<1>1. ASSUME NEW tree, NEW kept, Conclude(m, tree, kept) PROVE ahead'[m]
  BY <1>1 DEF Conclude, TypeOK, GitTypeOK
<1>2. CASE CommitAll(m)
  <2>1. CASE ~Merging(m)
    <3>1. ahead' = [ahead EXCEPT ![m] = IF dirty[m] = {} THEN ahead[m] ELSE TRUE]
      BY <1>2, <2>1 DEF CommitAll
    <3>2. ahead'[m] = IF dirty[m] = {} THEN ahead[m] ELSE TRUE
      BY <3>1, Zenon DEF TypeOK, GitTypeOK
    <3> QED
      BY <3>2
  <2> QED
    BY <1>1, <1>2, <2>1 DEF CommitAll
<1>3. CASE Resolve(m)
  BY <1>1, <1>3 DEF Resolve
<1>4. CASE ResolveConflictsRemote(m)
  <2>1. CASE AbortMerge(m)
    BY <2>1 DEF AbortMerge
  <2> QED
    BY <1>1, <1>4, <2>1 DEF ResolveConflictsRemote
<1>5. CASE PullForward(m) \/ PullMerge(m) \/ PullConflict(m)
  BY <1>5 DEF PullForward, PullMerge, PullConflict
<1> QED
  BY <1>2, <1>3, <1>4, <1>5 DEF GitStep, WriteState, WriteVault, Stages, KeychainChanges, git

LEMMA GitStepKnows ==
    ASSUME TypeOK, TypeOK', Bookkeeping, NEW m \in Machine, GitStep(m) PROVE Bookkeeping'
<1>0. \A n \in Machine : Knows(n)
  BY DEF Bookkeeping, Knows
<1>1. CASE PushOk(m)
  BY <1>0, <1>1, PushKnows DEF Bookkeeping, Knows
<1>2. CASE ~PushOk(m)
  <2>1. Knows(m)'
    <3>1. CASE UNCHANGED <<git, work, dirty>>
      BY <1>0, <3>1 DEF git, Knows, Same, Tip, Merging, MergedTree, MergedState, TakesTheirs
    <3>2. ASSUME NEW files \in [File -> Option], WriteState(m, files) PROVE Knows(m)'
      <4>1. /\ work'[m].vault = work[m].vault /\ dirty'[m] = dirty[m] \cup {StatePath}
            /\ UNCHANGED git
        BY <3>2 DEF WriteState, TypeOK, GitTypeOK, Tree
      <4> QED
        BY <1>0, <4>1 DEF git, Knows, Same, Tip, Merging, MergedTree, MergedState, TakesTheirs
    <3>3. ASSUME NEW f \in File, NEW c \in Option, WriteVault(m, f, c) PROVE Knows(m)'
      <4>1. work' = [work EXCEPT ![m] = [work[m] EXCEPT !.vault = [work[m].vault EXCEPT ![f] = c]]]
        BY <3>3 DEF WriteVault
      <4>2. /\ work'[m].state = work[m].state
            /\ \A g \in File \ {f} : work'[m].vault[g] = work[m].vault[g]
            /\ dirty'[m] = dirty[m] \cup {f}
            /\ UNCHANGED git
        BY <3>3, <4>1 DEF WriteVault, TypeOK, GitTypeOK, Tree
      <4> QED
        BY <1>0, <4>2 DEF git, Knows, Same, Tip, Merging, MergedTree, MergedState, TakesTheirs
    <3>4. CASE CommitAll(m)
      BY <1>0, <3>4, CommitAllKnows
    <3>5. CASE Merging(m) /\ (Resolve(m) \/ Stages(m) \/ ResolveConflictsRemote(m))
      BY <1>0, <3>5, ResolveKnows, StagesKnows, ResolveRemoteKnows
    <3>6. CASE PullForward(m) \/ PullMerge(m) \/ PullConflict(m) \/ KeychainChanges(m)
      BY <1>0, <3>6, PullKnows, KeychainKnows
    <3> QED
      BY <1>2, <3>1, <3>2, <3>3, <3>4, <3>5, <3>6 DEF GitStep
  <2>2. ASSUME NEW n \in Machine \ {m} PROVE Knows(n)'
    <3>1. /\ base'[n] = base[n] /\ head'[n] = head[n] /\ work'[n] = work[n]
          /\ mergeHead'[n] = mergeHead[n] /\ locked'[n] = locked[n] /\ touched'[n] = touched[n]
          /\ dirty'[n] = dirty[n] /\ fetched'[n] = fetched[n] /\ ahead'[n] = ahead[n]
      BY GitStepFrame DEF TypeOK
    <3>2. remote' = remote /\ theirs'[n] = theirs[n] /\ behind'[n] = behind[n]
      BY <1>2, GitStepRemote
    <3> QED
      BY <1>0, <3>1, <3>2 DEF Knows, Same, Tip, Merging, MergedTree, MergedState, TakesTheirs
  <2> QED
    BY <2>1, <2>2 DEF Bookkeeping, Knows
<1> QED
  BY <1>1, <1>2

\* What git knows of each clone stays true: a path outside touched, fetched, theirs or
\* dirty is the same in the two trees that set compares.
THEOREM KnowledgeIsTrue == Spec => []Bookkeeping
<1>1. Init => Bookkeeping
  <2> SUFFICES ASSUME Init, NEW m \in Machine PROVE Knows(m)
    BY DEF Bookkeeping, Knows
  <2>1. PICK tree : /\ remote = tree /\ base = [n \in Machine |-> tree]
                    /\ head = [n \in Machine |-> tree] /\ work = [n \in Machine |-> tree]
    BY DEF Init
  <2>2. /\ mergeHead[m] = None /\ touched[m] = {} /\ dirty[m] = {} /\ theirs[m] = {}
        /\ fetched[m] = {} /\ base[m] = tree /\ head[m] = tree /\ work[m] = tree /\ remote = tree
    BY <2>1 DEF Init
  <2>3. Same(MergedTree(m, tree, {}), tree, {})
    BY <2>2 DEF Same, MergedTree, MergedState, TakesTheirs
  <2> QED
    BY <2>2, <2>3 DEF Knows, Same, Tip, Merging
<1>2. TypeOK /\ TypeOK' /\ Bookkeeping /\ [Next]_vars => Bookkeeping'
  <2> SUFFICES ASSUME TypeOK, TypeOK', Bookkeeping, [Next]_vars PROVE Bookkeeping'
    OBVIOUS
  <2>1. CASE Next
    BY <2>1, NextGit, GitStepKnows
  <2>2. CASE UNCHANGED vars
    BY <2>2 DEF vars, git, Bookkeeping, Same, Tip, Merging, MergedTree, MergedState, TakesTheirs
  <2> QED
    BY <2>1, <2>2
<1> QED
  BY <1>1, <1>2, TypeCorrect, PTL DEF Spec

\* Every push replaces on the remote only what its machine wrote or resolved itself: a
\* path the push changes is one the clone counts as touched.
THEOREM NothingUnseenOverwritten == Spec => PushKeepsUnseen
<1>1. TypeOK /\ Bookkeeping /\ [Next]_vars =>
         \A m \in Machine : ahead[m] /\ ~ahead'[m] =>
          /\ remote'.state # remote.state => StatePath \in touched[m]
          /\ \A f \in File : remote'.vault[f] # remote.vault[f] => f \in touched[m]
  <2> SUFFICES ASSUME TypeOK, Bookkeeping, [Next]_vars, NEW m \in Machine, ahead[m], ~ahead'[m]
               PROVE  /\ remote'.state # remote.state => StatePath \in touched[m]
                      /\ \A f \in File : remote'.vault[f] # remote.vault[f] => f \in touched[m]
    OBVIOUS
  <2>1. PICK n \in Machine : GitStep(n)
    <3>1. Next
      BY DEF vars, git
    <3> QED
      BY <3>1, NextGit
  <2>2. n = m
    BY <2>1, GitStepFrame DEF TypeOK
  <2>3. PushOk(m)
    BY <2>1, <2>2, OnlyPushPublishes
  <2>4. remote = base[m] /\ remote' = head[m]
    BY <2>3 DEF PushOk, Bookkeeping, Tip, Merging
  <2> QED
    BY <2>4 DEF Bookkeeping, Same
<1> QED
  BY <1>1, TypeCorrect, KnowledgeIsTrue, PTL DEF Spec, PushKeepsUnseen

-----------------------------------------------------------------------------
(***************************************************************************)
(* Every entry of the state has its blob, for any machines that do not     *)
(* untrack: the proof of EntryHasBlob.  Without untrack blobs never vanish,*)
(* so a merge has the blobs of both sides; its entries come from one side  *)
(* or the other.                                                           *)
(***************************************************************************)
NoUntrack == \A m \in Machine : "untrack" \notin Ops[m]

Blobs(t) == {f \in File : t.vault[f] # None}
Keys(files) == {f \in File : files[f] # None}

Merged(m) == MergedTree(m, Tip(m), fetched[m])

\* Blobs are only added along the way of a file: integrated, HEAD or merged, directory.
Stocked(m) ==
    /\ HasBlobs(base[m]) /\ HasBlobs(head[m]) /\ HasBlobs(Tip(m)) /\ HasBlobs(work[m])
    /\ Blobs(base[m]) \subseteq Blobs(head[m])
    /\ Blobs(base[m]) \subseteq Blobs(Tip(m))
    /\ Blobs(Tip(m)) \subseteq Blobs(remote)
    /\ Blobs(Merged(m)) \subseteq Blobs(work[m])

\* What a command has in memory may be saved, and a merge it did not write into may
\* be abandoned.
Ready(m) ==
    /\ pc[m] \notin {"untrack_pull", "untrack"}
    /\ Merging(m) => pc[m] \in Resting \cup {"resolve", "offline", "track_pull", "track",
                                             "cmd_save", "cmd_commit"}
    /\ Merging(m) /\ pc[m] \notin {"cmd_save", "cmd_commit"} => HasBlobs(Aborted(m))
    /\ pc[m] \in {"push", "sum_same", "sum_written", "cmd_save"} => Keys(mem[m]) \subseteq Blobs(work[m])
    /\ pc[m] \in {"sum_same", "sum_written"} => cur[m] \in Blobs(work[m])

\* The git steps, with what is written.
StockedStep(m) ==
    \/ UNCHANGED <<git, work, dirty>>
    \/ \E files \in [File -> Option] : Keys(files) \subseteq Blobs(work[m]) /\ WriteState(m, files)
    \/ \E f \in File, c \in Content : WriteVault(m, f, c)
    \/ CommitAll(m)
    \/ Merging(m) /\ (Resolve(m) \/ Stages(m))
    \/ Merging(m) /\ HasBlobs(Aborted(m)) /\ ResolveConflictsRemote(m)
    \/ PullForward(m) \/ PullMerge(m) \/ PullConflict(m)
    \/ PushOk(m)
    \/ KeychainChanges(m)

-----------------------------------------------------------------------------
(***************************************************************************)
(* Trees.                                                                  *)
(***************************************************************************)
LEMMA HasBlobsIsSubset ==
    ASSUME NEW t PROVE HasBlobs(t) <=> Keys(t.state) \subseteq Blobs(t)
BY DEF HasBlobs, Keys, Blobs

\* A merge has the blobs of both sides and no entry that neither has.
LEMMA MergeStocked ==
    ASSUME TypeOK, NEW m \in Machine, NEW t \in Tree, NEW p \in SUBSET Path,
           Same(base[m], head[m], touched[m]), Same(base[m], t, p),
           Blobs(base[m]) \subseteq Blobs(head[m]), Blobs(base[m]) \subseteq Blobs(t)
    PROVE  /\ Blobs(head[m]) \subseteq Blobs(MergedTree(m, t, p))
           /\ Blobs(t) \subseteq Blobs(MergedTree(m, t, p))
           /\ Keys(MergedTree(m, t, p).state) \subseteq Keys(head[m].state) \cup Keys(t.state)
<1>1. ASSUME NEW f \in File, head[m].vault[f] # None \/ t.vault[f] # None
      PROVE  (IF TakesTheirs(m, p, f) THEN t.vault[f] ELSE head[m].vault[f]) # None
  BY <1>1 DEF TakesTheirs, Same, Blobs
<1>2. ASSUME NEW f \in File, MergedState(m, t, p)[f] # None
      PROVE  head[m].state[f] # None \/ t.state[f] # None
  <2>1. DOMAIN base[m].state = File
    BY DEF TypeOK, GitTypeOK, Tree
  <2> QED
    BY <1>2, <2>1 DEF MergedState, MapMerge, KeyMerge
<1> QED
  BY <1>1, <1>2 DEF MergedTree, Blobs, Keys

\* A pull leaves what is not committed, and the directory has the blobs of both.
LEMMA CheckoutStocked ==
    ASSUME NEW m \in Machine, NEW t, Same(head[m], work[m], dirty[m]),
           HasBlobs(t), HasBlobs(work[m]), Blobs(head[m]) \subseteq Blobs(t),
           \A f \in File \cap dirty[m] : t.vault[f] # None => work[m].vault[f] # None
    PROVE  HasBlobs(Checkout(m, t)) /\ Blobs(t) \subseteq Blobs(Checkout(m, t))
<1>1. ASSUME NEW f \in File, t.vault[f] # None \/ work[m].vault[f] # None
      PROVE  (IF f \in dirty[m] THEN work[m].vault[f] ELSE t.vault[f]) # None
  BY <1>1 DEF Same, Blobs
<1> QED
  BY <1>1 DEF HasBlobs, Blobs, Checkout

\* Concluding a merge with a tree that has all blobs of the tree merged in.
LEMMA ConcludeStocked ==
    ASSUME TypeOK, TypeOK', NEW m \in Machine, Merging(m), Stocked(m), NEW tree, NEW kept,
           Conclude(m, tree, kept), HasBlobs(tree), Blobs(mergeHead[m]) \subseteq Blobs(tree)
    PROVE  Stocked(m)'
<1>1. /\ head'[m] = tree /\ work'[m] = tree /\ base'[m] = mergeHead[m] /\ mergeHead'[m] = None
      /\ fetched'[m] = {} /\ remote' = remote
  BY DEF Conclude, TypeOK, GitTypeOK
<1>2. Tip(m) = mergeHead[m] /\ Tip(m)' = mergeHead[m]
  BY <1>1 DEF Tip, Merging
<1>3. Merged(m)' = tree
  <2>1. head'[m] = [state |-> head'[m].state, vault |-> [f \in File |-> head'[m].vault[f]]]
    BY DEF TypeOK, GitTypeOK, Tree
  <2> QED
    BY <1>1, <2>1 DEF Merged, MergedTree, MergedState, TakesTheirs
<1> QED
  BY <1>1, <1>2, <1>3 DEF Stocked, HasBlobs, Blobs

\* While merging, the directory has the blobs of HEAD and of the tree merged in.
LEMMA MergingStocked ==
    ASSUME TypeOK, NEW m \in Machine, Knows(m), Stocked(m)
    PROVE  /\ Blobs(head[m]) \subseteq Blobs(Merged(m)) /\ Blobs(Tip(m)) \subseteq Blobs(Merged(m))
           /\ Keys(Merged(m).state) \subseteq Keys(head[m].state) \cup Keys(Tip(m).state)
           /\ Blobs(head[m]) \subseteq Blobs(work[m]) /\ Blobs(Tip(m)) \subseteq Blobs(work[m])
<1>1. Tip(m) \in Tree /\ fetched[m] \in SUBSET Path
  BY DEF Tip, Merging, TypeOK, GitTypeOK
<1> QED
  BY <1>1, MergeStocked DEF Knows, Stocked, Merged

LEMMA CommitAllStocked ==
    ASSUME TypeOK, TypeOK', NEW m \in Machine, Knows(m), Stocked(m), CommitAll(m)
    PROVE  Stocked(m)'
<1>1. CASE Merging(m)
  <2>1. Conclude(m, work[m], Kept(m, fetched[m]) \cup dirty[m]) /\ Tip(m) = mergeHead[m]
    BY <1>1 DEF CommitAll, Tip
  <2> QED
    BY <1>1, <2>1, MergingStocked, ConcludeStocked DEF Stocked
<1>2. CASE ~Merging(m)
  <2>1. /\ head'[m] = work[m] /\ UNCHANGED <<remote, base, work, mergeHead, fetched>>
    BY <1>2 DEF CommitAll, TypeOK, GitTypeOK
  <2>2. fetched[m] = {} /\ Tip(m) = base[m] /\ Tip(m)' = base[m]
    BY <1>2, <2>1 DEF Knows, Tip, Merging
  <2>3. Merged(m)' = head'[m]
    <3>1. head'[m] = [state |-> head'[m].state, vault |-> [f \in File |-> head'[m].vault[f]]]
      BY DEF TypeOK, GitTypeOK, Tree
    <3> QED
      BY <2>1, <2>2, <3>1 DEF Merged, MergedTree, MergedState, TakesTheirs
  <2>4. Blobs(head[m]) \subseteq Blobs(work[m])
    BY MergingStocked
  <2> QED
    BY <2>1, <2>2, <2>3, <2>4 DEF Stocked, HasBlobs, Blobs
<1> QED
  BY <1>1, <1>2

LEMMA AbortMergeStocked ==
    ASSUME TypeOK, NEW m \in Machine, Merging(m), Knows(m), Stocked(m), HasBlobs(Aborted(m)),
           AbortMerge(m)
    PROVE  Stocked(m)'
<1>1. /\ work'[m] = Aborted(m) /\ mergeHead'[m] = None /\ fetched'[m] = {}
      /\ UNCHANGED <<remote, base, head>>
  BY DEF AbortMerge, Aborted, TypeOK, GitTypeOK
<1>2. Tip(m)' = base[m]
  BY <1>1 DEF Tip, Merging
<1>3. Merged(m)' = head[m]
  <2>1. head[m] = [state |-> head[m].state, vault |-> [f \in File |-> head[m].vault[f]]]
    BY DEF TypeOK, GitTypeOK, Tree
  <2> QED
    BY <1>1, <2>1 DEF Merged, MergedTree, MergedState, TakesTheirs
<1>4. Blobs(head[m]) \subseteq Blobs(Aborted(m))
  <2>1. Blobs(head[m]) \subseteq Blobs(work[m])
    BY MergingStocked
  <2> QED
    BY <2>1 DEF Blobs, Aborted
<1> QED
  BY <1>1, <1>2, <1>3, <1>4 DEF Stocked, HasBlobs, Blobs

LEMMA ResolveRemoteStocked ==
    ASSUME TypeOK, TypeOK', NEW m \in Machine, Merging(m), Knows(m), Stocked(m),
           HasBlobs(Aborted(m)), ResolveConflictsRemote(m)
    PROVE  Stocked(m)'
<1> DEFINE t == mergeHead[m]
           staged == File \cap dirty[m] \cap fetched[m]
           seen == Detected(m, t, fetched[m]) \ staged
           added == staged \cup {f \in File \cap dirty[m] : head[m].vault[f] = None}
           merged == MergedTree(m, t, fetched[m])
           tree == [state |-> IF StatePath \in seen THEN t.state ELSE merged.state,
                    vault |-> [f \in File |-> IF f \in seen THEN t.vault[f]
                                              ELSE IF f \in added THEN work[m].vault[f]
                                              ELSE merged.vault[f]]]
           kept == (Kept(m, fetched[m]) \ seen) \cup added
<1>1. Tip(m) = t /\ Merged(m) = merged
  BY DEF Tip, Merged
<1>2. /\ Blobs(head[m]) \subseteq Blobs(merged) /\ Blobs(t) \subseteq Blobs(merged)
      /\ Keys(merged.state) \subseteq Keys(head[m].state) \cup Keys(t.state)
      /\ Blobs(t) \subseteq Blobs(work[m])
  BY <1>1, MergingStocked
<1>3. HasBlobs(head[m]) /\ HasBlobs(t)
  BY <1>1 DEF Stocked
<1>4. \A f \in File \cap seen : t.vault[f] # None
  BY ConstantsAssumption DEF Detected
<1>5. \A f \in File \cap added : head[m].vault[f] # None \/ t.vault[f] # None => work[m].vault[f] # None
  <2>1. Blobs(head[m]) \subseteq Blobs(work[m])
    BY MergingStocked
  <2> HIDE DEF added
  <2> QED
    BY <1>2, <2>1 DEF Blobs
<1>6. HasBlobs(tree) /\ Blobs(t) \subseteq Blobs(tree)
  <2> HIDE DEF merged, seen, added, t
  <2>1. Blobs(head[m]) \cup Blobs(t) \subseteq Blobs(tree)
    BY <1>2, <1>4, <1>5 DEF Blobs
  <2>2. Keys(tree.state) \subseteq Keys(head[m].state) \cup Keys(t.state)
    BY <1>2 DEF Keys
  <2> HIDE DEF tree
  <2> QED
    BY <1>3, <2>1, <2>2, HasBlobsIsSubset
<1>7. AbortMerge(m) \/ Conclude(m, tree, kept)
  BY DEF ResolveConflictsRemote
<1> HIDE DEF tree, kept
<1> QED
  BY <1>6, <1>7, AbortMergeStocked, ConcludeStocked

LEMMA SettledStocked ==
    ASSUME TypeOK, NEW m \in Machine, Merging(m), Knows(m), Stocked(m), NEW overlap,
           NEW done \in SUBSET Detected(m, mergeHead[m], fetched[m])
    PROVE  /\ HasBlobs(Settled(m, done, overlap))
           /\ Blobs(mergeHead[m]) \subseteq Blobs(Settled(m, done, overlap))
           /\ Blobs(Merged(m)) \subseteq Blobs(Settled(m, done, overlap))
<1> DEFINE t == mergeHead[m]
           merged == MergedTree(m, t, fetched[m])
           tree == Settled(m, done, overlap)
<1>1. Tip(m) = t /\ Merged(m) = merged
  BY DEF Tip, Merged
<1>2. /\ Blobs(head[m]) \subseteq Blobs(merged) /\ Blobs(t) \subseteq Blobs(merged)
      /\ Keys(merged.state) \subseteq Keys(head[m].state) \cup Keys(t.state)
  BY <1>1, MergingStocked
<1>3. HasBlobs(head[m]) /\ HasBlobs(t)
  BY <1>1 DEF Stocked
<1>4. ASSUME NEW f \in File, f \in done PROVE tree.vault[f] # None
  <2>1. t.vault[f] # None
    BY <1>4, ConstantsAssumption DEF Detected
  <2>2. ASSUME f \in SmartMerged(m, t, overlap)
        PROVE  MergeEdits(base[m].vault[f], head[m].vault[f], t.vault[f]) # None
    BY <2>2, MergedEditsType, ConstantsAssumption DEF TypeOK
  <2> QED
    BY <1>4, <2>1, <2>2 DEF Settled
<1>5. \A f \in File \ done : tree.vault[f] = merged.vault[f]
  BY DEF Settled
<1>6. tree.state = t.state \/ tree.state = merged.state
  BY DEF Settled
<1> HIDE DEF merged, t, tree
<1>7. Blobs(merged) \subseteq Blobs(tree)
  BY <1>4, <1>5 DEF Blobs
<1>8. Keys(tree.state) \subseteq Keys(head[m].state) \cup Keys(t.state)
  BY <1>2, <1>6
<1>9. HasBlobs(tree) /\ Blobs(t) \subseteq Blobs(tree)
  BY <1>2, <1>3, <1>7, <1>8, HasBlobsIsSubset
<1> QED
  BY <1>1, <1>7, <1>9 DEF t, tree

LEMMA ResolveStocked ==
    ASSUME TypeOK, TypeOK', NEW m \in Machine, Merging(m), Knows(m), Stocked(m), Resolve(m)
    PROVE  Stocked(m)'
<1> DEFINE seen == Detected(m, mergeHead[m], fetched[m])
<1>1. PICK o, kept : Conclude(m, Settled(m, seen, o), kept)
  BY DEF Resolve
<1>2. HasBlobs(Settled(m, seen, o)) /\ Blobs(mergeHead[m]) \subseteq Blobs(Settled(m, seen, o))
  BY SettledStocked
<1> HIDE DEF seen
<1> QED
  BY <1>1, <1>2, ConcludeStocked

\* A panic leaves the blobs there; an abort of the merge would leave HEAD.
LEMMA StagesStocked ==
    ASSUME TypeOK, NEW m \in Machine, Merging(m), Knows(m), Stocked(m), Stages(m)
    PROVE  Stocked(m)' /\ HasBlobs(Aborted(m))'
<1>1. PICK done \in SUBSET Detected(m, mergeHead[m], fetched[m]) : \E overlap :
        /\ work' = [work EXCEPT ![m] = Settled(m, done, overlap)]
        /\ dirty' = [dirty EXCEPT ![m] = dirty[m] \cup done]
        /\ UNCHANGED git
  BY DEF Stages
<1>2. PICK overlap : work' = [work EXCEPT ![m] = Settled(m, done, overlap)]
  BY <1>1
<1>3. work'[m] = Settled(m, done, overlap) /\ dirty'[m] = dirty[m] \cup done /\ UNCHANGED git
  BY <1>1, <1>2 DEF TypeOK, GitTypeOK
<1>4. HasBlobs(Settled(m, done, overlap)) /\ Blobs(Merged(m)) \subseteq Blobs(Settled(m, done, overlap))
  BY SettledStocked
<1>5. Tip(m)' = Tip(m) /\ Merged(m)' = Merged(m)
  BY <1>3 DEF git, Tip, Merging, Merged, MergedTree, MergedState, TakesTheirs
<1>6. Stocked(m)'
  BY <1>3, <1>4, <1>5 DEF git, Stocked, HasBlobs, Blobs
<1>7. HasBlobs(Aborted(m))'
  <2>1. done \subseteq fetched[m]
    BY DEF Detected
  <2>2. \A p \in Path : p \in dirty'[m] \ fetched'[m] => p \notin fetched[m] /\ p \notin done
    BY <1>3, <2>1 DEF git
  <2>3. /\ StatePath \in dirty'[m] \ fetched'[m] => work'[m].state = head[m].state
        /\ \A f \in File : f \in dirty'[m] \ fetched'[m] => work'[m].vault[f] = head[m].vault[f]
    BY <1>3, <2>2 DEF Path, Settled, MergedTree, MergedState, TakesTheirs
  <2>4. /\ Aborted(m)'.state = head[m].state
        /\ \A f \in File : Aborted(m)'.vault[f] = head[m].vault[f]
    BY <1>3, <2>3 DEF Aborted, git
  <2> QED
    BY <2>4 DEF Stocked, HasBlobs
<1> QED
  BY <1>6, <1>7

LEMMA KeychainStocked ==
    ASSUME TypeOK, NEW m \in Machine, Knows(m), Stocked(m), KeychainChanges(m)
    PROVE  Stocked(m)'
<1>1. /\ fetched[m] = {}
      /\ UNCHANGED <<remote, base, head, work, mergeHead, touched, fetched>>
  BY DEF KeychainChanges, Knows
<1>2. Tip(m)' = Tip(m) /\ Merged(m)' = Merged(m)
  BY <1>1 DEF Tip, Merging, Merged, MergedTree, MergedState, TakesTheirs
<1> QED
  BY <1>1, <1>2 DEF Stocked, HasBlobs, Blobs

\* A pull whose remote has what this clone integrated last.
LEMMA PullStocked ==
    ASSUME TypeOK, TypeOK', NEW m \in Machine, Knows(m), Stocked(m), HasBlobs(remote),
           PullForward(m) \/ PullMerge(m) \/ PullConflict(m)
    PROVE  /\ Stocked(m)'
           /\ PullConflict(m) => HasBlobs(Aborted(m))'
<1>0. /\ ~Merging(m) /\ Tip(m) = base[m] /\ fetched[m] = {} /\ mergeHead[m] = None
      /\ dirty[m] \cap theirs[m] = {} /\ remote \in Tree /\ theirs[m] \in SUBSET Path
  BY DEF PullForward, PullMerge, PullConflict, PullAllowed, Tip, Knows, Merging, TypeOK, GitTypeOK
<1>1. Merged(m) = head[m] /\ Same(head[m], work[m], dirty[m])
  BY <1>0, NothingToMerge DEF Merged, Knows
<1>2. Blobs(base[m]) \subseteq Blobs(remote) /\ Blobs(head[m]) \subseteq Blobs(work[m])
  BY <1>1 DEF Stocked
<1> DEFINE tree == MergedTree(m, remote, theirs[m])
<1>3. /\ Blobs(head[m]) \subseteq Blobs(tree) /\ Blobs(remote) \subseteq Blobs(tree) /\ HasBlobs(tree)
      /\ \A f \in File \cap dirty[m] : tree.vault[f] # None => work[m].vault[f] # None
  <2>1. /\ Blobs(head[m]) \subseteq Blobs(tree) /\ Blobs(remote) \subseteq Blobs(tree)
        /\ Keys(tree.state) \subseteq Keys(head[m].state) \cup Keys(remote.state)
    <3>1. Same(base[m], head[m], touched[m]) /\ Same(base[m], remote, theirs[m])
      BY <1>0 DEF Knows
    <3>2. Blobs(base[m]) \subseteq Blobs(head[m])
      BY DEF Stocked
    <3> QED
      BY <1>0, <1>2, <3>1, <3>2, MergeStocked
  <2>2. \A f \in File \cap dirty[m] : tree.vault[f] = head[m].vault[f]
    BY <1>0 DEF MergedTree, TakesTheirs
  <2> HIDE DEF tree
  <2>3. HasBlobs(tree)
    BY <2>1, HasBlobsIsSubset DEF Stocked
  <2> QED
    BY <1>2, <2>1, <2>2, <2>3 DEF Blobs
<1> HIDE DEF tree
<1>4. HasBlobs(Checkout(m, tree)) /\ Blobs(tree) \subseteq Blobs(Checkout(m, tree))
  BY <1>1, <1>3, CheckoutStocked DEF Stocked
<1>5. CASE PullForward(m)
  <2>1. /\ head'[m] = remote /\ base'[m] = remote /\ work'[m] = Checkout(m, remote)
        /\ UNCHANGED <<remote, mergeHead, fetched>> /\ ~ahead[m] /\ PullConflict(m) = FALSE
    BY <1>5 DEF PullForward, PullConflict, TypeOK, GitTypeOK
  <2>2. Blobs(head[m]) \subseteq Blobs(remote)
    BY <1>2, <2>1 DEF Knows
  <2>3. \A f \in File \cap dirty[m] : remote.vault[f] # None => work[m].vault[f] # None
    BY <1>0, <1>2 DEF Knows, Stocked, Same, Blobs
  <2>4. HasBlobs(Checkout(m, remote)) /\ Blobs(remote) \subseteq Blobs(Checkout(m, remote))
    BY <1>1, <2>2, <2>3, CheckoutStocked DEF Stocked
  <2>5. Tip(m)' = remote
    BY <1>0, <2>1 DEF Tip, Merging
  <2>6. Merged(m)' = remote
    <3>1. remote = [state |-> remote.state, vault |-> [f \in File |-> remote.vault[f]]]
      BY <1>0 DEF Tree
    <3> QED
      BY <1>0, <2>1, <3>1 DEF Merged, MergedTree, MergedState, TakesTheirs
  <2> QED
    BY <2>1, <2>4, <2>5, <2>6 DEF Stocked, HasBlobs, Blobs
<1>6. CASE PullMerge(m)
  <2>1. /\ head'[m] = tree /\ base'[m] = remote /\ work'[m] = Checkout(m, tree)
        /\ UNCHANGED <<remote, mergeHead, fetched>> /\ PullConflict(m) = FALSE
    BY <1>6 DEF PullMerge, PullConflict, TypeOK, GitTypeOK, tree
  <2>2. Tip(m)' = remote
    BY <1>0, <2>1 DEF Tip, Merging
  <2>3. Merged(m)' = tree
    <3>1. head'[m] = [state |-> head'[m].state, vault |-> [f \in File |-> head'[m].vault[f]]]
      BY DEF TypeOK, GitTypeOK, Tree
    <3> QED
      BY <1>0, <2>1, <3>1 DEF Merged, MergedTree, MergedState, TakesTheirs
  <2> QED
    BY <1>3, <1>4, <2>1, <2>2, <2>3 DEF Stocked, HasBlobs, Blobs
<1>7. CASE PullConflict(m)
  <2>1. /\ mergeHead'[m] = remote /\ work'[m] = Checkout(m, tree) /\ fetched'[m] = theirs[m]
        /\ UNCHANGED <<remote, base, head, locked, touched, dirty>>
    BY <1>7 DEF PullConflict, TypeOK, GitTypeOK, tree
  <2>2. Merging(m)' /\ Tip(m)' = remote
    BY <2>1, ConstantsAssumption DEF Tip, Merging, TypeOK, GitTypeOK
  <2>3. Merged(m)' = tree
    BY <2>1, <2>2 DEF Merged, MergedTree, MergedState, TakesTheirs, tree
  <2>4. HasBlobs(Aborted(m))'
    <3>0. dirty'[m] \ fetched'[m] = dirty[m]
      BY <1>0, <2>1
    <3>1. ASSUME NEW f \in File, Aborted(m)'.state[f] # None PROVE work[m].state[f] # None
      BY <1>1, <2>1, <3>0, <3>1 DEF Aborted, Checkout, Same
    <3>2. ASSUME NEW f \in File, work[m].vault[f] # None PROVE Aborted(m)'.vault[f] # None
      BY <1>1, <2>1, <3>0, <3>2 DEF Aborted, Checkout, Same
    <3> QED
      BY <3>1, <3>2 DEF Stocked, HasBlobs
  <2> QED
    BY <1>2, <1>4, <2>1, <2>2, <2>3, <2>4 DEF Stocked, HasBlobs, Blobs
<1> QED
  BY <1>5, <1>6, <1>7

LEMMA PushStocked ==
    ASSUME TypeOK, NEW m \in Machine, NEW n \in Machine, Knows(m), Knows(n), Stocked(m), Stocked(n),
           PushOk(m)
    PROVE  Stocked(n)' /\ HasBlobs(remote')
<1>1. ~Merging(m) /\ Tip(m) = base[m] /\ fetched[m] = {} /\ remote = base[m]
  BY DEF PushOk, Tip, Knows, Merging
<1>2. UNCHANGED <<head, work, mergeHead, locked, fetched>> /\ remote' = head[m]
  BY DEF PushOk
<1>3. Blobs(remote) \subseteq Blobs(remote') /\ HasBlobs(remote')
  BY <1>1, <1>2 DEF Stocked
<1>4. CASE n = m
  <2>1. base'[m] = head[m] /\ Tip(m)' = head[m]
    BY <1>1, <1>2 DEF PushOk, TypeOK, GitTypeOK, Tip, Merging
  <2>2. Merged(m)' = head[m]
    <3>1. head[m] = [state |-> head[m].state, vault |-> [f \in File |-> head[m].vault[f]]]
      BY DEF TypeOK, GitTypeOK, Tree
    <3> QED
      BY <1>1, <1>2, <3>1 DEF Merged, MergedTree, MergedState, TakesTheirs
  <2>3. Blobs(head[m]) \subseteq Blobs(work[m])
    BY MergingStocked
  <2> QED
    BY <1>2, <1>3, <1>4, <2>1, <2>2, <2>3 DEF Stocked, HasBlobs, Blobs
<1>5. CASE n # m
  <2>1. base'[n] = base[n] /\ touched'[n] = touched[n]
    BY <1>5 DEF PushOk, TypeOK, GitTypeOK
  <2>2. Tip(n)' = Tip(n) /\ Merged(n)' = Merged(n)
    BY <1>2, <2>1 DEF Tip, Merging, Merged, MergedTree, MergedState, TakesTheirs
  <2> QED
    BY <1>2, <1>3, <2>1, <2>2 DEF Stocked, HasBlobs, Blobs
<1> QED
  BY <1>3, <1>4, <1>5

LEMMA WriteStocked ==
    ASSUME TypeOK, NEW m \in Machine, Stocked(m),
           \/ \E files \in [File -> Option] : Keys(files) \subseteq Blobs(work[m]) /\ WriteState(m, files)
           \/ \E f \in File, c \in Content : WriteVault(m, f, c)
    PROVE  Stocked(m)'
<1>1. ASSUME UNCHANGED git, Blobs(work[m]) \subseteq Blobs(work'[m]), HasBlobs(work'[m])
      PROVE  Stocked(m)'
  BY <1>1 DEF git, Stocked, HasBlobs, Blobs, Tip, Merging, Merged, MergedTree, MergedState, TakesTheirs
<1>2. ASSUME NEW files, Keys(files) \subseteq Blobs(work[m]), WriteState(m, files)
      PROVE  Stocked(m)'
  <2>1. work'[m].vault = work[m].vault /\ work'[m].state = files /\ UNCHANGED git
    BY <1>2 DEF WriteState, TypeOK, GitTypeOK, Tree
  <2> QED
    BY <1>1, <1>2, <2>1 DEF HasBlobs, Blobs, Keys
<1>3. ASSUME NEW f \in File, NEW c \in Content, WriteVault(m, f, c) PROVE Stocked(m)'
  <2>1. work' = [work EXCEPT ![m] = [work[m] EXCEPT !.vault = [work[m].vault EXCEPT ![f] = c]]]
    BY <1>3 DEF WriteVault
  <2>2. /\ work'[m].state = work[m].state /\ work'[m].vault[f] = c
        /\ \A g \in File \ {f} : work'[m].vault[g] = work[m].vault[g]
        /\ UNCHANGED git
    BY <1>3, <2>1 DEF WriteVault, TypeOK, GitTypeOK, Tree
  <2> QED
    BY <1>1, <2>2, ConstantsAssumption DEF Stocked, HasBlobs, Blobs
<1> QED
  BY <1>2, <1>3

-----------------------------------------------------------------------------
(***************************************************************************)
(* Every step is one of these, and Ready stays true.                       *)
(***************************************************************************)
\* Blobs of the directory only become more.
LEMMA StepStocked ==
    ASSUME TypeOK, TypeOK', Bookkeeping, NEW m \in Machine, StockedStep(m),
           HasBlobs(remote), \A n \in Machine : Stocked(n)
    PROVE  /\ HasBlobs(remote')
           /\ \A n \in Machine : Stocked(n)'
           /\ PullConflict(m) \/ (Merging(m) /\ Stages(m)) => HasBlobs(Aborted(m))'
<1>0. \A n \in Machine : Knows(n)
  BY DEF Bookkeeping, Knows
<1>1. CASE PushOk(m)
  <2>1. ~PullConflict(m) /\ ~Merging(m)
    BY <1>1 DEF PushOk, PullConflict
  <2> QED
    BY <1>0, <1>1, <2>1, PushStocked
<1>2. CASE ~PushOk(m)
  <2>0. GitStep(m)
    BY ConstantsAssumption DEF StockedStep, GitStep, Option
  <2>1. PullConflict(m) \/ (Merging(m) /\ Stages(m)) => HasBlobs(Aborted(m))'
    BY <1>0, PullStocked, StagesStocked
  <2>2. Stocked(m)'
    <3>1. CASE PullForward(m) \/ PullMerge(m) \/ PullConflict(m)
      BY <1>0, <3>1, PullStocked
    <3>2. CASE UNCHANGED <<git, work, dirty>>
      <4>1. Tip(m)' = Tip(m) /\ Merged(m)' = Merged(m)
        BY <3>2 DEF git, Tip, Merging, Merged, MergedTree, MergedState, TakesTheirs
      <4> QED
        BY <3>2, <4>1 DEF git, Stocked, HasBlobs, Blobs
    <3>3. CASE \/ \E files \in [File -> Option] :
                      Keys(files) \subseteq Blobs(work[m]) /\ WriteState(m, files)
               \/ \E f \in File, c \in Content : WriteVault(m, f, c)
      <4>1. Stocked(m)
        OBVIOUS
      <4> QED
        BY <3>3, <4>1, WriteStocked
    <3>4. CASE CommitAll(m)
      BY <1>0, <3>4, CommitAllStocked
    <3>5. CASE Merging(m) /\ (Resolve(m) \/ Stages(m))
      BY <1>0, <3>5, ResolveStocked, StagesStocked
    <3>6. CASE Merging(m) /\ HasBlobs(Aborted(m)) /\ ResolveConflictsRemote(m)
      BY <1>0, <3>6, ResolveRemoteStocked
    <3>7. CASE KeychainChanges(m)
      BY <1>0, <3>7, KeychainStocked
    <3> QED
      BY <1>2, <3>1, <3>2, <3>3, <3>4, <3>5, <3>6, <3>7 DEF StockedStep
  <2>3. remote' = remote
    BY <1>2, <2>0, GitStepRemote
  <2>4. ASSUME NEW n \in Machine \ {m} PROVE Stocked(n)'
    <3>1. /\ base'[n] = base[n] /\ head'[n] = head[n] /\ work'[n] = work[n]
          /\ mergeHead'[n] = mergeHead[n] /\ locked'[n] = locked[n]
          /\ touched'[n] = touched[n] /\ fetched'[n] = fetched[n]
      BY <2>0, GitStepFrame DEF TypeOK
    <3>2. Tip(n)' = Tip(n) /\ Merged(n)' = Merged(n)
      BY <3>1 DEF Tip, Merging, Merged, MergedTree, MergedState, TakesTheirs
    <3> QED
      BY <2>3, <3>1, <3>2 DEF Stocked, HasBlobs, Blobs
  <2> QED
    BY <2>1, <2>2, <2>3, <2>4
<1> QED
  BY <1>1, <1>2

\* What machine m may do.
MachineStep(m) ==
    \/ StartSync(m) \/ SyncStep(m) \/ CommandStep(m) \/ Crash(m) \/ KeychainChanges(m)
    \/ \E f \in File :
          \/ StartTrack(m, f) \/ StartUntrack(m, f) \/ UserDelete(m, f)
          \/ \E e \in Edit : UserEdit(m, f, e)

LEMMA StepIsStocked ==
    ASSUME TypeOK, NEW m \in Machine, Ready(m), MachineStep(m) PROVE StockedStep(m)
<1> USE DEF TypeOK
<1>1. CASE StartSync(m)
  <2>1. pc[m] \in Resting
    BY <1>1 DEF StartSync, Busy
  <2> QED
    BY <1>1, <2>1 DEF StartSync, Recover, StockedStep, Ready, Resting
<1>2. ASSUME NEW f \in File, PushStore(m, f) PROVE StockedStep(m)
  <2>1. local[m][f] \in Content
    BY <1>2 DEF PushStore, Missing, CommandTypeOK
  <2> QED
    BY <1>2, <2>1 DEF PushStore, StoreFile, StockedStep
<1>3. CASE PushSave(m) \/ CommandSave(m)
  <2>1. mem[m] \in [File -> Option] /\ Keys(mem[m]) \subseteq Blobs(work[m])
    BY <1>3 DEF PushSave, CommandSave, CommandTypeOK, Option, Ready
  <2> QED
    BY <1>3, <2>1 DEF PushSave, CommandSave, StockedStep
<1>4. CASE PushCommit(m) \/ FinishCommit(m) \/ CommandCommit(m)
  BY <1>4 DEF PushCommit, FinishCommit, CommandCommit, StockedStep
<1>5. CASE PushSend(m) \/ OfflinePush(m) \/ FinishPush(m) \/ CommandPush(m) \/ CommandRetryPush(m)
  BY <1>5 DEF PushSend, OfflinePush, FinishPush, PushAndFlag, CommandPush, CommandRetryPush, PushFails,
              StockedStep
<1>6. CASE PullDone(m) \/ PullStopped(m) \/ PullUnreachable(m) \/ CommandPull(m) \/ CommandRetryPull(m)
  BY <1>6 DEF PullDone, PullStopped, PullUnreachable, CommandPull, CommandRetryPull, PullOk, PullCurrent,
              PullFails, StockedStep
<1>7. CASE Resolve(m)
  BY <1>7 DEF Resolve, Merging, StockedStep
<1>8. CASE Track(m)
  <2>1. cur[m] \in File
    BY <1>8 DEF Track, CommandTypeOK, NamesFile
  <2>2. local[m][cur[m]] \in Content
    BY <1>8, <2>1 DEF Track, Missing, CommandTypeOK
  <2> QED
    BY <1>8, <2>1, <2>2 DEF Track, StoreFile, StockedStep
<1>9. CASE UNCHANGED git /\ UNCHANGED work /\ UNCHANGED dirty
  BY <1>9 DEF StockedStep
<1>10. CASE KeychainChanges(m)
  BY <1>10 DEF StockedStep
<1>11. CASE MergePanics(m)
  <2>1. Merging(m)
    BY <1>11 DEF MergePanics, Merging
  <2> QED
    BY <1>11, <2>1, MergePanicsStages DEF StockedStep
<1> QED
  BY <1>1, <1>2, <1>3, <1>4, <1>5, <1>6, <1>7, <1>8, <1>9, <1>10, <1>11
     DEF MachineStep, SyncStep, CommandStep, PushSkip, RestoreSkip, RestoreCheck, PushChecksum,
         RestoreWrite, RestoreDone, TrackRejected, UntrackRejected, Untrack, Ready, Crash, StartTrack,
         StartUntrack, StartCommand, UserDelete, UserEdit

\* These leave no merge.
LEMMA NoMergeAfter ==
    ASSUME TypeOK, NEW m \in Machine
    PROVE  /\ CommitAll(m) => mergeHead'[m] = None
           /\ Recover(m) => mergeHead'[m] = None
           /\ PullOk(m) => mergeHead'[m] = None
           /\ Resolve(m) => mergeHead'[m] = None
<1> USE DEF TypeOK, GitTypeOK, Merging
<1>1. ASSUME NEW tree, NEW kept, Conclude(m, tree, kept) PROVE mergeHead'[m] = None
  BY <1>1 DEF Conclude
<1>2. ASSUME CommitAll(m) PROVE mergeHead'[m] = None
  BY <1>1, <1>2 DEF CommitAll
<1>3. ASSUME PullOk(m) PROVE mergeHead'[m] = None
  BY <1>3 DEF PullOk, PullCurrent, PullForward, PullMerge, PullAllowed, git
<1>4. ASSUME ResolveConflictsRemote(m) PROVE mergeHead'[m] = None
  BY <1>1, <1>4 DEF ResolveConflictsRemote, AbortMerge
<1>5. ASSUME Recover(m) PROVE mergeHead'[m] = None
  BY <1>2, <1>4, <1>5 DEF Recover, git
<1>6. ASSUME Resolve(m) PROVE mergeHead'[m] = None
  BY <1>1, <1>6 DEF Resolve
<1> QED
  BY <1>2, <1>3, <1>5, <1>6

\* A step of m leaves the commands of the others alone.
LEMMA OthersStand ==
    ASSUME TypeOK, NEW m \in Machine, MachineStep(m), NEW n \in Machine \ {m}
    PROVE  pc'[n] = pc[n] /\ mem'[n] = mem[n] /\ cur'[n] = cur[n]
<1> USE DEF TypeOK, CommandTypeOK, Goto, Finished, proc
<1>1. CASE StartSync(m) \/ Crash(m)
  BY <1>1 DEF StartSync, Crash
<1>2. CASE KeychainChanges(m) \/ \E f \in File : \/ StartTrack(m, f) \/ StartUntrack(m, f) \/ UserDelete(m, f)
                                                 \/ \E e \in Edit : UserEdit(m, f, e)
  BY <1>2 DEF KeychainChanges, StartTrack, StartUntrack, StartCommand, UserDelete, UserEdit
<1>3. CASE CommandStep(m)
  BY <1>3 DEF CommandStep, CommandPull, CommandRetryPull, Track, Untrack, CommandSave,
              CommandCommit, CommandPush, CommandRetryPush, TrackRejected, UntrackRejected
<1>4. ASSUME NEW f \in File, PushSkip(m, f) \/ PushStore(m, f) \/ RestoreSkip(m, f) \/ RestoreCheck(m, f)
      PROVE  pc'[n] = pc[n] /\ mem'[n] = mem[n] /\ cur'[n] = cur[n]
  BY <1>4 DEF PushSkip, PushStore, RestoreSkip, RestoreCheck
<1>5. CASE SyncStep(m)
  BY <1>4, <1>5 DEF SyncStep, PushChecksum, PushSave,
              PushCommit, PushSend, PullDone, PullStopped, PullUnreachable, OfflinePush, Resolve, MergePanics,
              RestoreWrite, RestoreDone, FinishCommit, FinishPush
<1> QED
  BY <1>1, <1>2, <1>3, <1>5 DEF MachineStep

\* A step that leaves the clone alone, and either what the command loaded too, or
\* the command where nothing of it is saved.
LEMMA IdleReady ==
    ASSUME TypeOK, NEW m \in Machine, Ready(m), UNCHANGED <<git, work, dirty>>,
           pc'[m] \notin {"untrack_pull", "untrack", "sum_same", "sum_written"},
           pc[m] \notin {"cmd_save", "cmd_commit"},
           pc'[m] \in {"push", "cmd_save"} => pc[m] = pc'[m] /\ mem'[m] = mem[m],
           Merging(m) => pc'[m] \in Resting \cup {"resolve", "offline", "track_pull", "track"}
    PROVE  Ready(m)'
<1>1. Merging(m)' = Merging(m) /\ Aborted(m)' = Aborted(m)
  BY DEF git, Merging, Aborted
<1> QED
  BY <1>1 DEF Ready, HasBlobs, Blobs, Keys

LEMMA SyncReady ==
    ASSUME TypeOK, NEW m \in Machine, Ready(m), StartSync(m) \/ SyncStep(m), Stocked(m), Stocked(m)',
           PullConflict(m) \/ (Merging(m) /\ Stages(m)) => HasBlobs(Aborted(m))'
    PROVE  Ready(m)'
<1>0. CommitAll(m) \/ Recover(m) \/ PullOk(m) => ~Merging(m)'
  BY NoMergeAfter DEF Merging
<1>a. Resolve(m) => ~Merging(m)' /\ pc'[m] = "finish"
  <2>1. Resolve(m) => pc'[m] = "finish"
    BY DEF Resolve, Goto, TypeOK, CommandTypeOK
  <2> QED
    BY <2>1, NoMergeAfter DEF Merging
<1> USE DEF TypeOK, CommandTypeOK, Goto, Finished, Resting
<1>1. CASE StartSync(m)
  <2>1. ~Merging(m)'
    BY <1>0, <1>1 DEF StartSync
  <2>2. pc'[m] = "push" /\ mem'[m] = work'[m].state
    BY <1>1 DEF StartSync
  <2> QED
    BY <2>1, <2>2, HasBlobsIsSubset DEF Ready, Stocked
<1>2. ASSUME NEW f \in File, PushSkip(m, f) PROVE Ready(m)'
  BY <1>2, IdleReady DEF PushSkip, Ready
<1>3. ASSUME NEW f \in File, PushStore(m, f) PROVE Ready(m)'
  <2>1. /\ pc[m] = "push" /\ pc'[m] \in {"sum_same", "sum_written"} /\ cur'[m] = f
        /\ mem'[m] = mem[m] /\ mergeHead' = mergeHead /\ local[m][f] # None
    BY <1>3 DEF PushStore, StoreFile, WriteVault, git, Missing
  <2>2. Blobs(work[m]) \subseteq Blobs(work'[m]) /\ f \in Blobs(work'[m])
    <3>1. CASE work[m].vault[f] = local[m][f]
      BY <1>3, <2>1, <3>1 DEF PushStore, StoreFile, Blobs
    <3>2. CASE WriteVault(m, f, local[m][f])
      BY <2>1, <3>2 DEF WriteVault, Blobs, GitTypeOK, Tree
    <3> QED
      BY <1>3, <3>1, <3>2 DEF PushStore, StoreFile
  <2> QED
    BY <2>1, <2>2 DEF Ready, Merging
<1>4. CASE PushChecksum(m)
  <2>1. /\ pc[m] \in {"sum_same", "sum_written"} /\ pc'[m] = "push"
        /\ UNCHANGED <<git, work, dirty>> /\ cur[m] \in File
        /\ \A f \in File \ {cur[m]} : mem'[m][f] = mem[m][f]
    BY <1>4 DEF PushChecksum, NamesFile
  <2> QED
    BY <2>1 DEF Ready, git, Merging, Keys, Blobs
<1>5. CASE PushSave(m)
  <2>1. pc[m] = "push" /\ pc'[m] = "commit" /\ mergeHead' = mergeHead
    BY <1>5 DEF PushSave, WriteState, git
  <2> QED
    BY <2>1 DEF Ready, Merging
<1>6. CASE PushCommit(m) \/ FinishCommit(m)
  <2>1. pc'[m] \in {"send", "pull", "last_push"} /\ ~Merging(m)'
    BY <1>0, <1>6 DEF PushCommit, FinishCommit
  <2> QED
    BY <2>1 DEF Ready
<1>7. CASE PushSend(m) \/ OfflinePush(m) \/ FinishPush(m)
  <2>1. mergeHead' = mergeHead /\ work' = work /\ dirty' = dirty /\ head' = head /\ fetched' = fetched
    BY <1>7 DEF PushSend, OfflinePush, FinishPush, PushAndFlag, PushOk, PushFails, git
  <2>2. Merging(m)' = Merging(m) /\ Aborted(m)' = Aborted(m)
    BY <2>1 DEF Merging, Aborted
  <2>3. pc[m] \in {"send", "offline", "last_push"} /\ pc'[m] \in {"pull", "idle"}
            /\ (pc[m] = "send" => pc'[m] = "pull") /\ (pc[m] # "send" => pc'[m] = "idle")
    BY <1>7 DEF PushSend, OfflinePush, FinishPush
  <2> QED
    BY <2>2, <2>3 DEF Ready, HasBlobs
<1>8. CASE PullDone(m)
  <2>1. pc'[m] = "restore" /\ ~Merging(m)'
    BY <1>0, <1>8 DEF PullDone
  <2> QED
    BY <2>1 DEF Ready
<1>9. CASE PullStopped(m)
  BY <1>9 DEF PullStopped, Ready
<1>10. CASE PullUnreachable(m)
  BY <1>10, IdleReady DEF PullUnreachable, PullFails
<1>11. CASE Resolve(m)
  <2>1. pc'[m] = "finish" /\ ~Merging(m)'
    BY <1>a, <1>11
  <2> QED
    BY <2>1 DEF Ready
<1>12. CASE MergePanics(m)
  <2>1. Merging(m) /\ Stages(m) /\ pc'[m] = "down"
    BY <1>12, MergePanicsStages DEF MergePanics, Merging
  <2> QED
    BY <2>1 DEF Ready
<1>13. ASSUME NEW f \in File, RestoreSkip(m, f) \/ RestoreCheck(m, f) PROVE Ready(m)'
  BY <1>13, IdleReady DEF RestoreSkip, RestoreCheck, Ready
<1>14. CASE RestoreWrite(m) \/ RestoreDone(m)
  BY <1>14, IdleReady DEF RestoreWrite, RestoreDone, Ready
<1> QED
  BY <1>1, <1>2, <1>3, <1>4, <1>5, <1>6, <1>7, <1>8, <1>9, <1>10, <1>11, <1>12, <1>13, <1>14 DEF SyncStep

LEMMA CommandReady ==
    ASSUME TypeOK, NEW m \in Machine, Ready(m), CommandStep(m), Stocked(m), Stocked(m)',
           PullConflict(m) \/ (Merging(m) /\ Stages(m)) => HasBlobs(Aborted(m))'
    PROVE  Ready(m)'
<1>0. CommitAll(m) \/ PullOk(m) => ~Merging(m)'
  BY NoMergeAfter DEF Merging
<1> USE DEF TypeOK, CommandTypeOK, Goto, Finished, Resting
<1>1. CASE CommandPull(m)
  <2>1. pc[m] = "track_pull" /\ pc'[m] = "track"
    BY <1>1 DEF CommandPull, Ready
  <2>2. CASE PullOk(m)
    BY <1>0, <2>1, <2>2 DEF Ready
  <2>3. CASE PullConflict(m)
    BY <2>1, <2>3 DEF Ready
  <2>4. CASE PullFails(m)
    BY <2>1, <2>4, IdleReady DEF PullFails
  <2> QED
    BY <1>1, <2>2, <2>3, <2>4 DEF CommandPull
<1>2. CASE TrackRejected(m) \/ UntrackRejected(m)
  BY <1>2, IdleReady DEF TrackRejected, UntrackRejected
<1>3. CASE Track(m)
  <2> DEFINE f == cur[m]
  <2>1. f \in File /\ local[m][f] # None
    BY <1>3 DEF Track, NamesFile, Missing
  <2>2. /\ pc[m] = "track" /\ pc'[m] = "cmd_save" /\ mergeHead' = mergeHead
        /\ mem'[m] = [work[m].state EXCEPT ![f] = local[m][f]]
    BY <1>3 DEF Track, StoreFile, WriteVault, git
  <2>3. Blobs(work[m]) \subseteq Blobs(work'[m]) /\ f \in Blobs(work'[m])
    <3>1. CASE work[m].vault[f] = local[m][f]
      BY <1>3, <2>1, <3>1 DEF Track, StoreFile, Blobs
    <3>2. CASE WriteVault(m, f, local[m][f])
      BY <2>1, <3>2 DEF WriteVault, Blobs, GitTypeOK, Tree
    <3> QED
      BY <1>3, <3>1, <3>2 DEF Track, StoreFile
  <2>4. Keys(work[m].state) \subseteq Blobs(work[m]) /\ DOMAIN work[m].state = File
    BY HasBlobsIsSubset DEF Stocked, GitTypeOK, Tree
  <2>5. Keys(mem'[m]) \subseteq Keys(work[m].state) \cup {f}
    BY <2>1, <2>2, <2>4 DEF Keys
  <2> QED
    BY <2>2, <2>3, <2>4, <2>5 DEF Ready, Merging
<1>4. CASE Untrack(m)
  BY <1>4 DEF Untrack, Ready
<1>5. CASE CommandSave(m)
  BY <1>5 DEF CommandSave, WriteState, git, Ready, Merging
<1>6. CASE CommandCommit(m)
  <2>1. pc'[m] = "cmd_push" /\ ~Merging(m)'
    BY <1>0, <1>6 DEF CommandCommit
  <2> QED
    BY <2>1 DEF Ready
<1>7. CASE CommandPush(m) \/ CommandRetryPush(m)
  <2>1. mergeHead' = mergeHead
    BY <1>7 DEF CommandPush, CommandRetryPush, PushOk, PushFails, git
  <2>2. pc[m] \in {"cmd_push", "cmd_last"} /\ pc'[m] \in {"idle", "cmd_retry"}
    BY <1>7 DEF CommandPush, CommandRetryPush
  <2> QED
    BY <2>1, <2>2 DEF Ready, Merging
<1>8. CASE CommandRetryPull(m)
  <2>1. pc[m] = "cmd_retry" /\ pc'[m] \in {"cmd_last", "idle"}
    BY <1>8 DEF CommandRetryPull
  <2>2. CASE PullOk(m)
    BY <1>0, <2>1, <2>2 DEF Ready
  <2>3. CASE PullConflict(m) /\ pc'[m] = "idle"
    BY <2>3 DEF Ready
  <2>4. CASE PullFails(m)
    BY <2>1, <2>4, IdleReady DEF PullFails, Ready
  <2> QED
    BY <1>8, <2>2, <2>3, <2>4 DEF CommandRetryPull
<1> QED
  BY <1>1, <1>2, <1>3, <1>4, <1>5, <1>6, <1>7, <1>8 DEF CommandStep

LEMMA OtherReady ==
    ASSUME TypeOK, NoUntrack, NEW m \in Machine, Ready(m),
           \/ Crash(m) \/ KeychainChanges(m)
           \/ \E f \in File :
                 \/ StartTrack(m, f) \/ StartUntrack(m, f) \/ UserDelete(m, f)
                 \/ \E e \in Edit : UserEdit(m, f, e)
    PROVE  Ready(m)'
<1> USE DEF TypeOK, CommandTypeOK, Goto, Finished, Resting
<1>1. CASE Crash(m)
  <2>1. pc[m] \in {"cmd_save", "cmd_commit"} => ~Merging(m)
    BY <1>1 DEF Crash, CommandSteps
  <2>2. pc'[m] = "down" /\ Merging(m)' = Merging(m) /\ Aborted(m)' = Aborted(m)
    BY <1>1 DEF Crash, git, Merging, Aborted
  <2> QED
    BY <2>1, <2>2 DEF Ready, HasBlobs
<1>2. ASSUME NEW f \in File, StartTrack(m, f) \/ StartUntrack(m, f) PROVE Ready(m)'
  <2>1. StartTrack(m, f)
    BY <1>2 DEF StartUntrack, StartCommand, NoUntrack
  <2> QED
    BY <2>1, IdleReady DEF StartTrack, StartCommand, Busy
<1>3. ASSUME NEW f \in File, UserDelete(m, f) \/ \E e \in Edit : UserEdit(m, f, e) PROVE Ready(m)'
  <2>1. UNCHANGED <<git, work, dirty, proc>>
    BY <1>3 DEF UserDelete, UserEdit
  <2> QED
    BY <2>1 DEF git, proc, Ready, Merging, Aborted, HasBlobs, Keys, Blobs
<1>4. CASE KeychainChanges(m)
  <2>1. ~Merging(m) /\ ~Merging(m)' /\ UNCHANGED <<work, proc>>
    BY <1>4 DEF KeychainChanges, Merging
  <2> QED
    BY <2>1 DEF proc, Ready, Keys, Blobs
<1> QED
  BY <1>1, <1>2, <1>3, <1>4

-----------------------------------------------------------------------------
BlobInv ==
    /\ HasBlobs(remote)
    /\ \A m \in Machine : Stocked(m) /\ Ready(m)

LEMMA BlobsHold ==
    ASSUME NoUntrack PROVE Spec => []BlobInv
<1>1. Init => BlobInv
  <2> SUFFICES ASSUME Init PROVE BlobInv
    OBVIOUS
  <2>1. PICK tree : /\ tree.state = tree.vault
                    /\ remote = tree /\ base = [n \in Machine |-> tree]
                    /\ head = [n \in Machine |-> tree] /\ work = [n \in Machine |-> tree]
    BY DEF Init
  <2>2. ASSUME NEW m \in Machine
        PROVE  /\ mergeHead[m] = None /\ fetched[m] = {} /\ pc[m] = "idle"
               /\ base[m] = tree /\ head[m] = tree /\ work[m] = tree
    BY <2>1 DEF Init
  <2>3. HasBlobs(tree)
    BY <2>1 DEF HasBlobs
  <2>4. ASSUME NEW m \in Machine PROVE Stocked(m)
    <3>1. Tip(m) = tree
      BY <2>2 DEF Tip, Merging
    <3>2. Blobs(Merged(m)) \subseteq Blobs(work[m])
      BY <2>2 DEF Merged, MergedTree, TakesTheirs, Blobs
    <3> QED
      BY <2>1, <2>2, <2>3, <3>1, <3>2 DEF Stocked
  <2>5. ASSUME NEW m \in Machine PROVE Ready(m)
    BY <2>2 DEF Ready, Merging
  <2> QED
    BY <2>1, <2>3, <2>4, <2>5 DEF BlobInv
<1>2. TypeOK /\ TypeOK' /\ Bookkeeping /\ BlobInv /\ [Next]_vars => BlobInv'
  <2> SUFFICES ASSUME TypeOK, TypeOK', Bookkeeping, BlobInv, [Next]_vars PROVE BlobInv'
    OBVIOUS
  <2>1. CASE Next
    <3>1. PICK m \in Machine : MachineStep(m)
      BY <2>1 DEF Next, MachineStep
    <3>2. StockedStep(m)
      BY <3>1, StepIsStocked DEF BlobInv
    <3>3. /\ HasBlobs(remote') /\ \A n \in Machine : Stocked(n)'
          /\ PullConflict(m) \/ (Merging(m) /\ Stages(m)) => HasBlobs(Aborted(m))'
      BY <3>2, StepStocked DEF BlobInv
    <3>4. Ready(m)'
      BY <3>1, <3>3, SyncReady, CommandReady, OtherReady DEF BlobInv, MachineStep
    <3>5. ASSUME NEW n \in Machine \ {m} PROVE Ready(n)'
      <4>1. GitStep(m)
        BY <3>2, ConstantsAssumption DEF StockedStep, GitStep, Option
      <4>2. pc'[n] = pc[n] /\ mem'[n] = mem[n] /\ cur'[n] = cur[n]
        BY <3>1, OthersStand
      <4>3. /\ head'[n] = head[n] /\ work'[n] = work[n] /\ mergeHead'[n] = mergeHead[n]
            /\ dirty'[n] = dirty[n] /\ fetched'[n] = fetched[n]
        BY <4>1, GitStepFrame DEF TypeOK
      <4> QED
        BY <4>2, <4>3 DEF BlobInv, Ready, Merging, Aborted, HasBlobs, Keys, Blobs
    <3> QED
      BY <3>3, <3>4, <3>5 DEF BlobInv
  <2>2. CASE UNCHANGED vars
    <3>1. /\ UNCHANGED <<remote, base, head, work, mergeHead, locked, fetched, touched, dirty, pc, mem, cur>>
      BY <2>2 DEF vars, git, proc
    <3>2. ASSUME NEW m \in Machine PROVE Stocked(m)' /\ Ready(m)'
      <4>1. Tip(m)' = Tip(m) /\ Merged(m)' = Merged(m) /\ Aborted(m)' = Aborted(m) /\ Merging(m)' = Merging(m)
        BY <3>1 DEF Tip, Merging, Merged, MergedTree, MergedState, TakesTheirs, Aborted
      <4> QED
        BY <3>1, <4>1 DEF BlobInv, Stocked, Ready, HasBlobs, Keys, Blobs
    <3> QED
      BY <3>1, <3>2 DEF BlobInv, HasBlobs
  <2> QED
    BY <2>1, <2>2
<1> QED
  BY <1>1, <1>2, TypeCorrect, KnowledgeIsTrue, PTL DEF Spec

\* An entry of the state comes with its blob in every tree that git may hand to a
\* machine, through every merge of state and blobs, crash and retry, as long as no
\* machine untracks: untrack removes the blob before it saves the state.
THEOREM EntriesRestorable ==
    ASSUME NoUntrack PROVE Spec => []EntryHasBlob
<1>1. BlobInv => EntryHasBlob
  BY DEF BlobInv, Stocked, EntryHasBlob
<1> QED
  BY <1>1, BlobsHold, PTL
=============================================================================
