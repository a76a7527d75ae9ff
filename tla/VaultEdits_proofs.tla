------------------------- MODULE VaultEdits_proofs -------------------------
(***************************************************************************)
(* What VaultSync makes of users' edits, for any machines and files: the   *)
(* proofs of BacklogFlagged, NoSpuriousCommit and OverwriteRecoverable.    *)
(* Three invariants, one on the other: every edit in the vault was made    *)
(* (EditsKnown), what is not committed differs from HEAD (Adds), and a     *)
(* content that is in no commit is on no entry but that of its own blob    *)
(* (Traced).                                                               *)
(***************************************************************************)
EXTENDS VaultSync_proofs

\* A sync that ran to its end leaves no commit behind unflagged.
THEOREM BacklogNoticed == Spec => BacklogFlagged
<1>1. TypeOK /\ [Next]_vars =>
         \A m \in Machine : pc[m] \in SyncSteps /\ pc'[m] = "idle" /\ ahead'[m] => pending'[m]
  <2> SUFFICES ASSUME TypeOK, [Next]_vars, NEW m \in Machine,
                      pc[m] \in SyncSteps, pc'[m] = "idle", ahead'[m]
               PROVE  pending'[m]
    OBVIOUS
  <2>1. PICK n \in Machine : MachineStep(n)
    <3>1. Next
      BY DEF vars, proc, SyncSteps
    <3> QED
      BY <3>1 DEF Next, MachineStep
  <2>2. n = m
    BY <2>1, OthersStand DEF SyncSteps
  <2>3. OfflinePush(m) \/ FinishPush(m)
    <3> USE DEF TypeOK, CommandTypeOK, SyncSteps, Goto, Finished
    <3>1. ~StartSync(m) /\ ~Crash(m) /\ ~KeychainChanges(m)
      BY DEF StartSync, Crash, Busy, Resting, KeychainChanges, proc
    <3>2. ~CommandStep(m)
      BY DEF CommandStep, CommandPull, TrackRejected, Track, UntrackRejected, Untrack, CommandSave,
             CommandCommit, CommandPush, CommandRetryPull, CommandRetryPush
    <3>3. ASSUME NEW f \in File
          PROVE  /\ ~PushSkip(m, f) /\ ~PushStore(m, f) /\ ~RestoreSkip(m, f) /\ ~RestoreCheck(m, f)
                 /\ ~StartTrack(m, f) /\ ~StartUntrack(m, f) /\ ~UserDelete(m, f)
                 /\ \A e \in Edit : ~UserEdit(m, f, e)
      BY DEF PushSkip, PushStore, RestoreSkip, RestoreCheck, StartTrack, StartUntrack, StartCommand,
             Busy, Resting, UserDelete, UserEdit, proc
    <3>4. ~PushChecksum(m) /\ ~PushSave(m) /\ ~PushCommit(m) /\ ~PushSend(m) /\ ~PullDone(m)
      BY DEF PushChecksum, PushSave, PushCommit, PushSend, PullDone
    <3>5. /\ ~PullStopped(m) /\ ~PullUnreachable(m) /\ ~Resolve(m) /\ ~MergePanics(m)
          /\ ~RestoreWrite(m) /\ ~RestoreDone(m) /\ ~FinishCommit(m)
      BY DEF PullStopped, PullUnreachable, Resolve, MergePanics, RestoreWrite, RestoreDone, FinishCommit
    <3> QED
      BY <2>1, <2>2, <3>1, <3>2, <3>3, <3>4, <3>5 DEF MachineStep, SyncStep
  <2> QED
    BY <2>3 DEF OfflinePush, FinishPush, PushAndFlag, PushOk, TypeOK, GitTypeOK, CommandTypeOK
<1> QED
  BY <1>1, TypeCorrect, PTL DEF Spec, BacklogFlagged

-----------------------------------------------------------------------------
(***************************************************************************)
(* What a step writes comes from what was there.                           *)
(***************************************************************************)
\* The git steps, with what is written: the command's state, a user's file.
Writes(m) ==
    \/ pc[m] \in {"push", "cmd_save"} /\ WriteState(m, mem[m])
    \/ \E f \in File : local[m][f] # None /\ WriteVault(m, f, local[m][f])
    \/ CommitAll(m)
    \/ Merging(m) /\ (Resolve(m) \/ Stages(m))
    \/ Merging(m) /\ pc[m] \in Resting /\ ResolveConflictsRemote(m)
    \/ PullForward(m) \/ PullMerge(m) \/ PullConflict(m)
    \/ PushOk(m)
    \/ KeychainChanges(m)

EditStep(m) == UNCHANGED <<git, work, dirty>> \/ (UNCHANGED <<local, used>> /\ Writes(m))

LEMMA StepWrites ==
    ASSUME TypeOK, NEW m \in Machine, Ready(m), MachineStep(m) PROVE EditStep(m)
<1> USE DEF TypeOK
<1>1. CASE StartSync(m)
  BY <1>1 DEF StartSync, Busy, Recover, EditStep, Writes
<1>2. ASSUME NEW f \in File, PushStore(m, f) PROVE EditStep(m)
  BY <1>2 DEF PushStore, StoreFile, Missing, EditStep, Writes
<1>3. CASE PushSave(m) \/ CommandSave(m)
  BY <1>3 DEF PushSave, CommandSave, EditStep, Writes
<1>4. CASE PushCommit(m) \/ FinishCommit(m) \/ CommandCommit(m)
  BY <1>4 DEF PushCommit, FinishCommit, CommandCommit, EditStep, Writes
<1>5. CASE PushSend(m) \/ OfflinePush(m) \/ FinishPush(m) \/ CommandPush(m) \/ CommandRetryPush(m)
  BY <1>5 DEF PushSend, OfflinePush, FinishPush, PushAndFlag, CommandPush, CommandRetryPush, PushFails,
              EditStep, Writes
<1>6. CASE PullDone(m) \/ PullStopped(m) \/ PullUnreachable(m) \/ CommandPull(m) \/ CommandRetryPull(m)
  BY <1>6 DEF PullDone, PullStopped, PullUnreachable, CommandPull, CommandRetryPull, PullOk, PullCurrent,
              PullFails, EditStep, Writes
<1>7. CASE Resolve(m)
  BY <1>7 DEF Resolve, Merging, EditStep, Writes
<1>8. CASE Track(m)
  <2>1. cur[m] \in File
    BY <1>8 DEF Track, CommandTypeOK, NamesFile
  <2> QED
    BY <1>8, <2>1 DEF Track, StoreFile, Missing, EditStep, Writes
<1>9. CASE UNCHANGED git /\ UNCHANGED work /\ UNCHANGED dirty
  BY <1>9 DEF EditStep
<1>10. CASE KeychainChanges(m)
  BY <1>10 DEF KeychainChanges, EditStep, Writes
<1>11. CASE MergePanics(m)
  <2>1. Merging(m) /\ UNCHANGED <<local, used>>
    BY <1>11 DEF MergePanics, Merging
  <2> QED
    BY <1>11, <2>1, MergePanicsStages DEF EditStep, Writes
<1> QED
  BY <1>1, <1>2, <1>3, <1>4, <1>5, <1>6, <1>7, <1>8, <1>9, <1>10, <1>11
     DEF MachineStep, SyncStep, CommandStep, PushSkip, RestoreSkip, RestoreCheck, PushChecksum,
         RestoreWrite, RestoreDone, TrackRejected, UntrackRejected, Untrack, Ready, Crash, StartTrack,
         StartUntrack, StartCommand, UserDelete, UserEdit

LEMMA WritesIsGitStep ==
    ASSUME TypeOK, NEW m \in Machine, EditStep(m) PROVE GitStep(m)
BY DEF EditStep, Writes, GitStep, TypeOK, CommandTypeOK, Option

\* Only the user and a restore change a file.
LEMMA LocalFrom ==
    ASSUME TypeOK, NEW m \in Machine, MachineStep(m)
    PROVE  \/ UNCHANGED <<local, used>>
           \/ UNCHANGED used /\ RestoreWrite(m)
           \/ \E f \in File : UserDelete(m, f) \/ \E e \in Edit : UserEdit(m, f, e)
<1>1. CASE StartSync(m) \/ Crash(m) \/ KeychainChanges(m) \/ \E f \in File : StartTrack(m, f) \/ StartUntrack(m, f)
  BY <1>1 DEF StartSync, Crash, KeychainChanges, StartTrack, StartUntrack, StartCommand
<1>2. CASE CommandStep(m)
  BY <1>2 DEF CommandStep, CommandPull, CommandRetryPull, Track, Untrack, CommandSave,
              CommandCommit, CommandPush, CommandRetryPush, TrackRejected, UntrackRejected
<1>3. ASSUME NEW f \in File, PushSkip(m, f) \/ PushStore(m, f) \/ RestoreSkip(m, f) \/ RestoreCheck(m, f)
      PROVE  UNCHANGED <<local, used>>
  BY <1>3 DEF PushSkip, PushStore, RestoreSkip, RestoreCheck
<1>4. CASE SyncStep(m)
  BY <1>3, <1>4 DEF SyncStep, PushChecksum, PushSave, PushCommit, PushSend, PullDone, PullStopped,
              PullUnreachable, OfflinePush, Resolve, MergePanics, RestoreWrite, RestoreDone, FinishCommit,
              FinishPush
<1> QED
  BY <1>1, <1>2, <1>4 DEF MachineStep

\* What a command has in memory.
LEMMA MemFrom ==
    ASSUME TypeOK, NEW m \in Machine, MachineStep(m)
    PROVE  \/ mem'[m] = mem[m] \/ mem'[m] = NoFiles \/ mem'[m] = work'[m].state
           \/ PushChecksum(m) \/ Track(m) \/ Untrack(m)
<1> USE DEF TypeOK, CommandTypeOK, Finished
<1>1. CASE StartSync(m) \/ Crash(m)
  BY <1>1 DEF StartSync, Crash
<1>2. CASE KeychainChanges(m) \/ \E f \in File : \/ StartTrack(m, f) \/ StartUntrack(m, f) \/ UserDelete(m, f)
                                                 \/ \E e \in Edit : UserEdit(m, f, e)
  BY <1>2 DEF KeychainChanges, StartTrack, StartUntrack, StartCommand, UserDelete, UserEdit, proc
<1>3. CASE CommandStep(m)
  BY <1>3 DEF CommandStep, CommandPull, CommandRetryPull, CommandSave,
              CommandCommit, CommandPush, CommandRetryPush, TrackRejected, UntrackRejected
<1>4. ASSUME NEW f \in File, PushSkip(m, f) \/ PushStore(m, f) \/ RestoreSkip(m, f) \/ RestoreCheck(m, f)
      PROVE  mem'[m] = mem[m]
  BY <1>4 DEF PushSkip, PushStore, RestoreSkip, RestoreCheck
<1>5. CASE SyncStep(m)
  BY <1>4, <1>5 DEF SyncStep, PushSave,
              PushCommit, PushSend, PullDone, PullStopped, PullUnreachable, OfflinePush, Resolve, MergePanics,
              RestoreWrite, RestoreDone, FinishCommit, FinishPush
<1> QED
  BY <1>1, <1>2, <1>3, <1>5 DEF MachineStep

-----------------------------------------------------------------------------
(***************************************************************************)
(* Every edit in a file, in the state or in a blob has been made: a new    *)
(* edit gives a content that is nowhere yet.                               *)
(***************************************************************************)
Made(u, c) == c # None => c \subseteq u
Known(u, t) == \A f \in File : Made(u, t.state[f]) /\ Made(u, t.vault[f])

TreesKnown(m) ==
    /\ Known(used, base[m]) /\ Known(used, head[m]) /\ Known(used, work[m])
    /\ Merging(m) => Known(used, mergeHead[m])

EditsKnown ==
    /\ Known(used, remote)
    /\ \A m \in Machine : /\ TreesKnown(m)
                          /\ \A f \in File : Made(used, local[m][f]) /\ Made(used, mem[m][f])

\* The entries of a merge are from one side or the other, or gone.
LEMMA MergedEntry ==
    ASSUME TypeOK, NEW m \in Machine, NEW t, NEW p, NEW f \in File
    PROVE  MergedState(m, t, p)[f] \in {head[m].state[f], t.state[f], None}
<1>1. DOMAIN base[m].state = File
  BY DEF TypeOK, GitTypeOK, Tree
<1> QED
  BY <1>1 DEF MergedState, MapMerge, KeyMerge

LEMMA MergedKnown ==
    ASSUME TypeOK, NEW m \in Machine, NEW t, NEW p, NEW u, Known(u, head[m]), Known(u, t)
    PROVE  Known(u, MergedTree(m, t, p))
BY MergedEntry DEF Known, Made, MergedTree

LEMMA CheckoutKnown ==
    ASSUME NEW m \in Machine, NEW t, NEW u, Known(u, work[m]), Known(u, t)
    PROVE  Known(u, Checkout(m, t))
BY DEF Known, Checkout

LEMMA ConcludeTrees ==
    ASSUME TypeOK, NEW m \in Machine, NEW tree, NEW kept, Conclude(m, tree, kept)
    PROVE  /\ head'[m] = tree /\ work'[m] = tree /\ base'[m] = mergeHead[m] /\ mergeHead'[m] = None
           /\ dirty'[m] = {} /\ ~Merging(m)' /\ remote' = remote /\ history' = Remember(tree)
BY DEF Conclude, Merging, TypeOK, GitTypeOK

LEMMA CommitTrees ==
    ASSUME TypeOK, NEW m \in Machine, CommitAll(m)
    PROVE  /\ head'[m] = work[m] /\ work'[m] = work[m] /\ dirty'[m] = {} /\ ~Merging(m)'
           /\ base'[m] = IF Merging(m) THEN mergeHead[m] ELSE base[m]
           /\ remote' = remote /\ history' = Remember(work[m])
<1>1. CASE Merging(m)
  BY <1>1, ConcludeTrees DEF CommitAll
<1>2. CASE ~Merging(m)
  BY <1>2 DEF CommitAll, Merging, TypeOK, GitTypeOK
<1> QED
  BY <1>1, <1>2

LEMMA AbortTrees ==
    ASSUME TypeOK, NEW m \in Machine, AbortMerge(m)
    PROVE  /\ work'[m] = Aborted(m) /\ dirty'[m] = dirty[m] \ fetched[m] /\ fetched'[m] = {} /\ ~Merging(m)'
           /\ UNCHANGED <<remote, base, head, history>>
BY DEF AbortMerge, Aborted, Merging, TypeOK, GitTypeOK

LEMMA AbortKnown ==
    ASSUME NEW m \in Machine, NEW u, Known(u, work[m]), Known(u, head[m])
    PROVE  Known(u, Aborted(m))
BY DEF Known, Aborted

\* What `git checkout --theirs .` and the commit make of a merge.
TheirsTree(m) ==
    LET t == mergeHead[m]
        staged == File \cap dirty[m] \cap fetched[m]
        seen == Detected(m, t, fetched[m]) \ staged
        added == staged \cup {f \in File \cap dirty[m] : head[m].vault[f] = None}
        merged == MergedTree(m, t, fetched[m])
    IN  [state |-> IF StatePath \in seen THEN t.state ELSE merged.state,
         vault |-> [f \in File |-> IF f \in seen THEN t.vault[f]
                                   ELSE IF f \in added THEN work[m].vault[f]
                                   ELSE merged.vault[f]]]

LEMMA ResolveRemoteTrees ==
    ASSUME TypeOK, NEW m \in Machine, ResolveConflictsRemote(m)
    PROVE  AbortMerge(m) \/ \E kept : Conclude(m, TheirsTree(m), kept)
<1> DEFINE t == mergeHead[m]
           staged == File \cap dirty[m] \cap fetched[m]
           seen == Detected(m, t, fetched[m]) \ staged
           added == staged \cup {f \in File \cap dirty[m] : head[m].vault[f] = None}
           merged == MergedTree(m, t, fetched[m])
           tree == [state |-> IF StatePath \in seen THEN t.state ELSE merged.state,
                    vault |-> [f \in File |-> IF f \in seen THEN t.vault[f]
                                              ELSE IF f \in added THEN work[m].vault[f]
                                              ELSE merged.vault[f]]]
<1>1. AbortMerge(m) \/ Conclude(m, tree, (Kept(m, fetched[m]) \ seen) \cup added)
  BY DEF ResolveConflictsRemote
<1>2. tree = TheirsTree(m)
  BY DEF TheirsTree
<1> HIDE DEF tree
<1> QED
  BY <1>1, <1>2

LEMMA ResolveTrees ==
    ASSUME TypeOK, NEW m \in Machine, Resolve(m)
    PROVE  \E overlap, kept :
              Conclude(m, Settled(m, Detected(m, mergeHead[m], fetched[m]), overlap), kept)
BY DEF Resolve

LEMMA StagesTrees ==
    ASSUME TypeOK, NEW m \in Machine, Stages(m)
    PROVE  \E done \in SUBSET Detected(m, mergeHead[m], fetched[m]) : \E overlap :
              /\ work'[m] = Settled(m, done, overlap) /\ dirty'[m] = dirty[m] \cup done
              /\ UNCHANGED <<remote, base, head, mergeHead, fetched, history>>
BY DEF Stages, git, TypeOK, GitTypeOK

LEMMA SettledKnown ==
    ASSUME TypeOK, NEW m \in Machine, Merging(m), TreesKnown(m), NEW done, NEW overlap
    PROVE  Known(used, Settled(m, done, overlap))
<1> DEFINE t == mergeHead[m]
           smart == SmartMerged(m, t, overlap)
           merged == MergedTree(m, t, fetched[m])
<1>1. Known(used, t) /\ Known(used, merged)
  BY MergedKnown DEF TreesKnown
<1>2. ASSUME NEW f \in smart
      PROVE  MergeEdits(base[m].vault[f], head[m].vault[f], t.vault[f]) \subseteq used
  <2>1. f \in File /\ base[m].vault[f] # None /\ head[m].vault[f] # None /\ t.vault[f] # None
    BY ConstantsAssumption DEF SmartMerged, Detected
  <2>2. /\ base[m].vault[f] \subseteq used /\ head[m].vault[f] \subseteq used
        /\ t.vault[f] \subseteq used
    BY <1>1, <2>1 DEF TreesKnown, Known, Made
  <2> QED
    BY <2>2 DEF MergeEdits
<1> HIDE DEF smart, t, merged
<1>3. ASSUME NEW f \in File
      PROVE  Made(used, IF f \notin done THEN merged.vault[f]
                        ELSE IF f \in smart THEN MergeEdits(base[m].vault[f], head[m].vault[f], t.vault[f])
                        ELSE t.vault[f])
  BY <1>1, <1>2 DEF Known, Made
<1>4. \A f \in File : Made(used, t.state[f]) /\ Made(used, merged.state[f])
  BY <1>1 DEF Known
<1> QED
  BY <1>3, <1>4 DEF Settled, Known, t, smart, merged

LEMMA PullTrees ==
    ASSUME TypeOK, NEW m \in Machine, PullForward(m) \/ PullMerge(m) \/ PullConflict(m)
    PROVE  \E tree \in {remote, MergedTree(m, remote, theirs[m])} :
              /\ work'[m] = Checkout(m, tree) /\ head'[m] \in {head[m], tree}
              /\ base'[m] \in {base[m], remote} /\ mergeHead'[m] \in {None, remote}
              /\ UNCHANGED <<remote, dirty, history>>
<1> USE DEF TypeOK, GitTypeOK
<1>1. CASE PullForward(m)
  BY <1>1 DEF PullForward, PullAllowed, Merging
<1>2. CASE PullMerge(m)
  BY <1>2 DEF PullMerge, PullAllowed, Merging
<1>3. CASE PullConflict(m)
  BY <1>3 DEF PullConflict
<1> QED
  BY <1>1, <1>2, <1>3

LEMMA WritesKnown ==
    ASSUME TypeOK, NEW m \in Machine, Writes(m), EditsKnown
    PROVE  /\ Known(used, remote')
           /\ Known(used, base'[m]) /\ Known(used, head'[m]) /\ Known(used, work'[m])
           /\ mergeHead'[m] # None => Known(used, mergeHead'[m])
<1> DEFINE Trees == /\ Known(used, remote') /\ Known(used, base'[m]) /\ Known(used, head'[m])
                    /\ Known(used, work'[m])
                    /\ mergeHead'[m] # None => Known(used, mergeHead'[m])
<1>0. TreesKnown(m) /\ Known(used, remote)
  BY DEF EditsKnown
<1>1. ASSUME NEW tree, NEW kept, Conclude(m, tree, kept), Merging(m), Known(used, tree) PROVE Trees
  BY <1>0, <1>1, ConcludeTrees DEF TreesKnown
<1>2. CASE WriteState(m, mem[m])
  <2>1. /\ work'[m].state = mem[m] /\ work'[m].vault = work[m].vault
        /\ UNCHANGED <<remote, base, head, mergeHead>>
    BY <1>2 DEF WriteState, git, TypeOK, GitTypeOK, Tree
  <2> QED
    BY <1>0, <2>1 DEF EditsKnown, TreesKnown, Known, Merging
<1>3. ASSUME NEW f \in File, WriteVault(m, f, local[m][f]) PROVE Trees
  <2>1. /\ work'[m].state = work[m].state
        /\ \A g \in File : work'[m].vault[g] = IF g = f THEN local[m][f] ELSE work[m].vault[g]
        /\ UNCHANGED <<remote, base, head, mergeHead>>
    BY <1>3 DEF WriteVault, git, TypeOK, GitTypeOK, Tree
  <2> QED
    BY <1>0, <2>1 DEF EditsKnown, TreesKnown, Known, Merging
<1>4. CASE CommitAll(m)
  BY <1>0, <1>4, CommitTrees DEF TreesKnown, Merging
<1>5. CASE Merging(m) /\ Resolve(m)
  BY <1>0, <1>1, <1>5, ResolveTrees, SettledKnown
<1>9. CASE Merging(m) /\ Stages(m)
  <2>1. PICK done, overlap : /\ work'[m] = Settled(m, done, overlap)
                             /\ UNCHANGED <<remote, base, head, mergeHead>>
    BY <1>9, StagesTrees
  <2>2. Known(used, Settled(m, done, overlap))
    BY <1>0, <1>9, SettledKnown
  <2> QED
    BY <1>0, <2>1, <2>2 DEF TreesKnown, Merging
<1>10. CASE KeychainChanges(m)
  BY <1>0, <1>10 DEF KeychainChanges, TreesKnown, Merging
<1>6. CASE Merging(m) /\ ResolveConflictsRemote(m)
  <2>1. Known(used, TheirsTree(m))
    <3> DEFINE t == mergeHead[m]
               merged == MergedTree(m, t, fetched[m])
    <3>1. Known(used, t) /\ Known(used, merged) /\ Known(used, work[m])
      BY <1>0, <1>6, MergedKnown DEF TreesKnown
    <3> HIDE DEF merged
    <3> QED
      BY <3>1 DEF TheirsTree, Known, merged
  <2>2. CASE AbortMerge(m)
    BY <1>0, <2>2, AbortTrees, AbortKnown DEF TreesKnown, Merging
  <2> QED
    BY <1>1, <1>6, <2>1, <2>2, ResolveRemoteTrees
<1>7. CASE PullForward(m) \/ PullMerge(m) \/ PullConflict(m)
  <2>1. Known(used, MergedTree(m, remote, theirs[m]))
    BY <1>0, MergedKnown DEF TreesKnown
  <2>2. PICK tree : /\ Known(used, tree)
                    /\ work'[m] = Checkout(m, tree) /\ head'[m] \in {head[m], tree}
                    /\ base'[m] \in {base[m], remote} /\ mergeHead'[m] \in {None, remote}
                    /\ remote' = remote
    BY <1>0, <1>7, <2>1, PullTrees
  <2> QED
    BY <1>0, <2>2, CheckoutKnown DEF TreesKnown
<1>8. CASE PushOk(m)
  BY <1>0, <1>8 DEF PushOk, TreesKnown, TypeOK, GitTypeOK, Merging
<1> QED
  BY <1>2, <1>3, <1>4, <1>5, <1>6, <1>7, <1>8, <1>9, <1>10 DEF Writes

LEMMA StepKnown ==
    ASSUME TypeOK, TypeOK', NEW m \in Machine, MachineStep(m), EditStep(m), EditsKnown
    PROVE  EditsKnown'
<1>0. GitStep(m)
  BY WritesIsGitStep
<1>1. /\ Known(used, remote')
      /\ \A n \in Machine : /\ Known(used, base'[n]) /\ Known(used, head'[n]) /\ Known(used, work'[n])
                            /\ mergeHead'[n] # None => Known(used, mergeHead'[n])
  <2>1. CASE UNCHANGED <<git, work, dirty>>
    BY <2>1 DEF git, EditsKnown, TreesKnown, Merging
  <2>2. CASE Writes(m)
    <3>1. ASSUME NEW n \in Machine \ {m}
          PROVE  /\ Known(used, base'[n]) /\ Known(used, head'[n]) /\ Known(used, work'[n])
                 /\ mergeHead'[n] # None => Known(used, mergeHead'[n])
      BY <1>0, GitStepFrame DEF TypeOK, EditsKnown, TreesKnown, Merging
    <3> QED
      BY <2>2, <3>1, WritesKnown
  <2> QED
    BY <2>1, <2>2 DEF EditStep
<1>2. used \subseteq used'
  BY LocalFrom DEF UserDelete, UserEdit
<1>3. \A n \in Machine, f \in File : Made(used', local'[n][f])
  <2>1. CASE UNCHANGED <<local, used>>
    BY <2>1 DEF EditsKnown
  <2>2. CASE UNCHANGED used /\ RestoreWrite(m)
    <3>1. \A n \in Machine, f \in File : local'[n][f] \in {local[n][f], work[m].vault[f]}
      BY <2>2 DEF RestoreWrite, TypeOK, CommandTypeOK, NamesFile
    <3> QED
      BY <2>2, <3>1 DEF EditsKnown, TreesKnown, Known, Made
  <2>3. ASSUME NEW g \in File, UserDelete(m, g) PROVE \A n \in Machine, f \in File : Made(used', local'[n][f])
    BY <2>3 DEF UserDelete, EditsKnown, Made, TypeOK, CommandTypeOK
  <2>4. ASSUME NEW g \in File, NEW e \in Edit, UserEdit(m, g, e)
        PROVE  \A n \in Machine, f \in File : Made(used', local'[n][f])
    BY <2>4 DEF UserEdit, EditsKnown, Made, TypeOK, CommandTypeOK
  <2> QED
    BY <2>1, <2>2, <2>3, <2>4, LocalFrom
<1>4. \A n \in Machine, f \in File : Made(used, mem'[n][f])
  <2>1. CASE mem'[m] = mem[m] \/ mem'[m] = NoFiles \/ mem'[m] = work'[m].state
    BY <1>1, <2>1, OthersStand DEF EditsKnown, NoFiles, Known, Made
  <2>2. CASE PushChecksum(m)
    BY <2>2, OthersStand DEF PushChecksum, EditsKnown, TypeOK, CommandTypeOK, NamesFile
  <2>3. CASE Track(m) \/ Untrack(m)
    <3>1. \A f \in File : mem'[m][f] \in {work[m].state[f], local[m][f], None}
      <4>1. PICK c \in {local[m][cur[m]], None} : mem' = [mem EXCEPT ![m] = [work[m].state EXCEPT ![cur[m]] = c]]
        BY <2>3 DEF Track, Untrack
      <4>2. mem'[m] = [work[m].state EXCEPT ![cur[m]] = c] /\ work[m].state \in [File -> {None} \cup Content]
        BY <4>1 DEF TypeOK, GitTypeOK, Tree, CommandTypeOK
      <4> QED
        BY <4>2
    <3> QED
      BY <3>1, OthersStand DEF EditsKnown, TreesKnown, Known, Made
  <2> QED
    BY <2>1, <2>2, <2>3, MemFrom
<1>5. ASSUME NEW c, Made(used, c) PROVE Made(used', c)
  BY <1>2, <1>5 DEF Made
<1> QED
  BY <1>1, <1>3, <1>4, <1>5 DEF EditsKnown, TreesKnown, Known, Merging

LEMMA EditsAreKnown ==
    ASSUME NoUntrack PROVE Spec => []EditsKnown
<1>1. Init => EditsKnown
  <2> SUFFICES ASSUME Init PROVE EditsKnown
    OBVIOUS
  <2>1. PICK tracked :
          LET files == [f \in File |-> IF f \in tracked THEN {} ELSE None]
              tree == [state |-> files, vault |-> files]
          IN  /\ remote = tree /\ base = [n \in Machine |-> tree]
              /\ head = [n \in Machine |-> tree] /\ work = [n \in Machine |-> tree]
              /\ local = [m \in Machine |-> [f \in File |->
                            IF GlobalOwner[f] \in {None, m} THEN files[f] ELSE None]]
    BY DEF Init
  <2> DEFINE files == [f \in File |-> IF f \in tracked THEN {} ELSE None]
             tree == [state |-> files, vault |-> files]
  <2>2. Known(used, tree) /\ \A m \in Machine, f \in File : Made(used, local[m][f])
    <3>1. \A f \in File : files[f] = None \/ files[f] = {}
      OBVIOUS
    <3>2. \A m \in Machine, f \in File : local[m][f] \in {files[f], None}
      BY <2>1
    <3> HIDE DEF files
    <3> QED
      BY <3>1, <3>2 DEF Known, Made
  <2>3. \A m \in Machine : mergeHead[m] = None /\ mem[m] = NoFiles
    BY DEF Init
  <2>4. remote = tree /\ \A m \in Machine : base[m] = tree /\ head[m] = tree /\ work[m] = tree
    BY <2>1
  <2> HIDE DEF tree, files
  <2> QED
    BY <2>2, <2>3, <2>4 DEF EditsKnown, TreesKnown, Merging, NoFiles, Made
<1>2. TypeOK /\ TypeOK' /\ BlobInv /\ EditsKnown /\ [Next]_vars => EditsKnown'
  <2> SUFFICES ASSUME TypeOK, TypeOK', BlobInv, EditsKnown, [Next]_vars PROVE EditsKnown'
    OBVIOUS
  <2>1. CASE Next
    BY <2>1, StepWrites, StepKnown DEF Next, MachineStep, BlobInv
  <2>2. CASE UNCHANGED vars
    BY <2>2 DEF vars, git, proc, EditsKnown, TreesKnown, Merging
  <2> QED
    BY <2>1, <2>2
<1> QED
  BY <1>1, <1>2, TypeCorrect, BlobsHold, PTL DEF Spec

-----------------------------------------------------------------------------
(***************************************************************************)
(* What is not committed yet differs from HEAD, so a commit of Push is     *)
(* never one of ciphertext alone.                                          *)
(***************************************************************************)
\* The files of a machine, its vault directory, its HEAD and the paths not committed.
\* A file whose blob is rewritten is not back at HEAD's content either: it would be
\* stored again.
Rewritten(files, dir, tip, paths) ==
    /\ \A f \in File \cap paths :
          dir.vault[f] # tip.vault[f] /\ (files[f] = None \/ files[f] # tip.vault[f])
    /\ StatePath \in paths => \/ File \cap paths # {}
                              \/ \E f \in File : tip.state[f] = None /\ dir.state[f] # None

\* A command that runs on in a merge writes over merged blobs; it always commits.
Concluding(m) == Merging(m) /\ pc[m] \in {"cmd_save", "cmd_commit"}

\* What a panic left staged was changed by the other side too, and nothing else is in the
\* vault directory then; what a merge finds uncommitted, the other side left alone.
Adds(m) ==
    /\ ~Concluding(m) => Rewritten(local[m], work[m], head[m], dirty[m] \ fetched[m])
    /\ Merging(m) /\ ~Concluding(m) => dirty[m] \subseteq fetched[m] \/ dirty[m] \cap fetched[m] = {}
    /\ pc[m] = "cmd_save" => /\ Keys(work[m].state) \subseteq Keys(mem[m])
                             /\ \E f \in File : mem[m][f] # None /\ work[m].state[f] = None
    /\ pc[m] \in Resting => ~modified[m]
    /\ pc[m] \in {"push", "sum_same", "sum_written"} /\ modified[m] => File \cap dirty[m] # {}
    /\ pc[m] = "sum_written" => cur[m] \in dirty[m]
    /\ pc[m] \in {"send", "pull", "restore", "write", "resolve"} => dirty[m] = {}

LEMMA NothingRewritten ==
    ASSUME NEW files, NEW dir, NEW tip, NEW paths, paths = {} PROVE Rewritten(files, dir, tip, paths)
BY DEF Rewritten

\* Outside a merge, what is not committed is not staged by one.
LEMMA NoneFetched ==
    ASSUME TypeOK, NEW m \in Machine, Knows(m), ~Merging(m) PROVE dirty[m] \ fetched[m] = dirty[m]
BY DEF Knows

LEMMA PullRewritten ==
    ASSUME TypeOK, NEW m \in Machine, Knows(m), NEW files, Rewritten(files, work[m], head[m], dirty[m]),
           PullForward(m) \/ PullMerge(m) \/ PullConflict(m)
    PROVE  /\ Rewritten(files, work'[m], head'[m], dirty'[m] \ fetched'[m])
           /\ Merging(m)' => dirty'[m] \cap fetched'[m] = {}
<1>1. dirty[m] \cap theirs[m] = {} /\ ~Merging(m)
  BY DEF PullForward, PullMerge, PullConflict, PullAllowed
<1>4. dirty'[m] \cap fetched'[m] = {} /\ dirty'[m] \ fetched'[m] = dirty[m]
  <2>1. dirty'[m] = dirty[m] /\ fetched'[m] \in {fetched[m], theirs[m]}
    BY DEF PullForward, PullMerge, PullConflict, TypeOK, GitTypeOK
  <2>2. fetched[m] = {}
    BY <1>1 DEF Knows
  <2> QED
    BY <1>1, <2>1, <2>2
<1>2. /\ StatePath \in dirty[m] => head'[m].state = head[m].state
      /\ \A f \in File \cap dirty[m] : head'[m].vault[f] = head[m].vault[f]
      /\ dirty'[m] = dirty[m]
  <2>1. CASE PullForward(m)
    <3>1. head'[m] = remote /\ base[m] = head[m] /\ Same(base[m], remote, theirs[m]) /\ dirty' = dirty
      BY <1>1, <2>1 DEF PullForward, Knows, Tip, TypeOK, GitTypeOK
    <3> QED
      BY <1>1, <3>1 DEF Same
  <2>2. CASE PullMerge(m)
    <3>1. head'[m] = MergedTree(m, remote, theirs[m]) /\ dirty' = dirty
      BY <2>2 DEF PullMerge, TypeOK, GitTypeOK
    <3> QED
      BY <1>1, <3>1 DEF MergedTree, MergedState, TakesTheirs
  <2>3. CASE PullConflict(m)
    BY <2>3 DEF PullConflict
  <2> QED
    BY <2>1, <2>2, <2>3
<1>3. /\ StatePath \in dirty[m] => work'[m].state = work[m].state
      /\ \A f \in File \cap dirty[m] : work'[m].vault[f] = work[m].vault[f]
  <2>1. PICK tree : work'[m] = Checkout(m, tree)
    BY PullTrees
  <2> QED
    BY <2>1 DEF Checkout
<1>5. Rewritten(files, work'[m], head'[m], dirty[m])
  BY <1>2, <1>3 DEF Rewritten
<1> QED
  BY <1>4, <1>5

LEMMA AbortRewritten ==
    ASSUME TypeOK, NEW m \in Machine, NEW files,
           Rewritten(files, work[m], head[m], dirty[m] \ fetched[m]), AbortMerge(m)
    PROVE  Rewritten(files, work'[m], head'[m], dirty'[m] \ fetched'[m])
<1> DEFINE stays == dirty[m] \ fetched[m]
<1>1. work'[m] = Aborted(m) /\ head' = head /\ dirty'[m] \ fetched'[m] = stays
  BY AbortTrees
<1>2. /\ StatePath \in stays => work'[m].state = work[m].state
      /\ \A f \in File \cap stays : work'[m].vault[f] = work[m].vault[f]
  BY <1>1 DEF Aborted
<1> HIDE DEF stays
<1>3. Rewritten(files, work[m], head[m], stays)
  BY DEF stays
<1>4. Rewritten(files, work'[m], head'[m], stays)
  BY <1>1, <1>2, <1>3 DEF Rewritten
<1> QED
  BY <1>1, <1>4

\* Storing a file that differs from its blob: from HEAD's too.
LEMMA StoreRewritten ==
    ASSUME TypeOK, NEW m \in Machine, Knows(m), ~Merging(m), NEW f \in File, local[m][f] # None,
           Rewritten(local[m], work[m], head[m], dirty[m]), StoreFile(m, f, local[m][f])
    PROVE  /\ Rewritten(local[m], work'[m], head'[m], dirty'[m])
           /\ dirty'[m] \ fetched'[m] = dirty'[m]
           /\ dirty[m] \subseteq dirty'[m] /\ mergeHead' = mergeHead /\ work'[m].state = work[m].state
           /\ work[m].vault[f] # local[m][f] => f \in dirty'[m]
<1>0. fetched[m] = {}
  BY DEF Knows
<1>1. CASE UNCHANGED <<git, work, dirty>> /\ work[m].vault[f] = local[m][f]
  BY <1>0, <1>1 DEF git
<1>2. CASE WriteVault(m, f, local[m][f]) /\ work[m].vault[f] # local[m][f]
  <2>0. dirty'[m] \ fetched'[m] = dirty'[m]
    BY <1>0, <1>2 DEF WriteVault, git
  <2>1. /\ work'[m].state = work[m].state /\ head' = head /\ mergeHead' = mergeHead
        /\ \A g \in File : work'[m].vault[g] = IF g = f THEN local[m][f] ELSE work[m].vault[g]
        /\ dirty'[m] = dirty[m] \cup {f}
    BY <1>2 DEF WriteVault, git, TypeOK, GitTypeOK, Tree
  <2>2. f \notin dirty[m] => work[m].vault[f] = head[m].vault[f]
    <3>1. MergedTree(m, Tip(m), fetched[m]) = head[m]
      BY NothingToMerge DEF Knows
    <3> QED
      BY <3>1 DEF Knows, Same
  <2>3. local[m][f] # head[m].vault[f]
    BY <1>2, <2>2 DEF Rewritten
  <2>4. Rewritten(local[m], work'[m], head'[m], dirty'[m])
    BY <2>1, <2>3 DEF Rewritten
  <2> QED
    BY <2>0, <2>1, <2>4
<1> QED
  BY <1>1, <1>2 DEF StoreFile

LEMMA FileRewritten ==
    ASSUME NEW files, NEW dir, NEW tip, NEW paths, Rewritten(files, dir, tip, paths),
           NEW f, NEW c, NEW new, c = None \/ c # tip.vault[f],
           \A g \in File : new[g] = IF g = f THEN c ELSE files[g]
    PROVE  Rewritten(new, dir, tip, paths)
BY DEF Rewritten

\* The user's next edit, and a deletion.
LEMMA EditRewritten ==
    ASSUME TypeOK, NEW m \in Machine, NEW paths, EditsKnown, Rewritten(local[m], work[m], head[m], paths),
           \E f \in File : UserDelete(m, f) \/ \E e \in Edit : UserEdit(m, f, e)
    PROVE  Rewritten(local'[m], work[m], head[m], paths)
<1>1. ASSUME NEW f \in File, UserDelete(m, f) PROVE Rewritten(local'[m], work[m], head[m], paths)
  <2>1. \A g \in File : local'[m][g] = IF g = f THEN None ELSE local[m][g]
    BY <1>1 DEF UserDelete, TypeOK, CommandTypeOK
  <2> QED
    BY <2>1, FileRewritten
<1>2. ASSUME NEW f \in File, NEW e \in Edit, UserEdit(m, f, e)
      PROVE  Rewritten(local'[m], work[m], head[m], paths)
  <2> DEFINE new == (IF local[m][f] = None THEN {} ELSE local[m][f]) \cup {e}
  <2>1. (\A g \in File : local'[m][g] = IF g = f THEN new ELSE local[m][g]) /\ e \notin used
    BY <1>2 DEF UserEdit, TypeOK, CommandTypeOK
  <2>2. new # head[m].vault[f]
    <3>1. new \in Content
      BY DEF TypeOK, CommandTypeOK, Content
    <3>2. new # None
      BY <3>1, ConstantsAssumption
    <3>3. head[m].vault[f] # None => head[m].vault[f] \subseteq used
      BY DEF EditsKnown, TreesKnown, Known, Made
    <3> QED
      BY <2>1, <3>2, <3>3
  <2> HIDE DEF new
  <2>3. \A g \in File : local'[m][g] = IF g = f THEN new ELSE local[m][g]
    BY <2>1
  <2>4. new = None \/ new # head[m].vault[f]
    BY <2>2
  <2> QED
    BY <2>3, <2>4, FileRewritten
<1> QED
  BY <1>1, <1>2

\* A step of m that leaves files and clone alone, and the command where it stands or
\* where it has nothing more to save.
LEMMA IdleAdds ==
    ASSUME TypeOK, NEW m \in Machine, Adds(m), UNCHANGED <<local, git, work, dirty>>, ~Concluding(m),
           pc'[m] \notin {"sum_written", "cmd_save"},
           pc'[m] \in {"push", "sum_same"} => pc[m] = "push" /\ modified'[m] = modified[m],
           pc'[m] \in Resting => ~modified'[m],
           pc'[m] # "resolve",
           pc'[m] \in {"send", "pull", "restore", "write"} => pc[m] \in {"send", "pull", "restore", "write"}
    PROVE  Adds(m)'
BY DEF Adds, Concluding, Merging, git

\* A step after which nothing is left to commit.
LEMMA CleanAdds ==
    ASSUME TypeOK, NEW m \in Machine, dirty'[m] = {},
           pc'[m] \notin {"push", "sum_same", "sum_written", "cmd_save"},
           pc'[m] \in Resting => ~modified'[m]
    PROVE  Adds(m)'
<1>1. dirty'[m] \ fetched'[m] = {} /\ dirty'[m] \cap fetched'[m] = {}
  OBVIOUS
<1>2. Rewritten(local'[m], work'[m], head'[m], dirty'[m] \ fetched'[m])
  BY <1>1, NothingRewritten
<1> QED
  BY <1>1, <1>2 DEF Adds

LEMMA SyncAdds ==
    ASSUME TypeOK, NEW m \in Machine, Knows(m), Ready(m), Adds(m), StartSync(m) \/ SyncStep(m)
    PROVE  Adds(m)'
<1> USE DEF TypeOK, CommandTypeOK, Goto, Finished, Resting
<1>1. CASE StartSync(m)
  <2>1. /\ pc[m] \in Resting /\ pc'[m] = "push" /\ modified' = modified /\ local' = local
        /\ Rewritten(local[m], work[m], head[m], dirty[m] \ fetched[m])
    BY <1>1 DEF StartSync, Busy, Adds, Concluding
  <2>2. Rewritten(local[m], work'[m], head'[m], dirty'[m] \ fetched'[m])
    <3>1. CASE UNCHANGED <<git, work, dirty>>
      BY <2>1, <3>1 DEF git
    <3>2. CASE AbortMerge(m)
      BY <2>1, <3>2, AbortRewritten
    <3>3. CASE dirty'[m] = {}
      <4>1. dirty'[m] \ fetched'[m] = {}
        BY <3>3
      <4> QED
        BY <4>1, NothingRewritten
    <3> QED
      BY <1>1, <3>1, <3>2, <3>3, CommitTrees, ConcludeTrees, ResolveRemoteTrees DEF StartSync, Recover
  <2>3. ~Merging(m)'
    BY <1>1, NoMergeAfter DEF StartSync, Merging
  <2> QED
    BY <2>1, <2>2, <2>3 DEF Adds
<1>2. ASSUME NEW f \in File, PushSkip(m, f) PROVE Adds(m)'
  BY <1>2, IdleAdds DEF PushSkip, Concluding
<1>3. ASSUME NEW f \in File, PushStore(m, f) PROVE Adds(m)'
  <2>1. /\ pc[m] = "push" /\ pc'[m] = (IF work[m].vault[f] = local[m][f] THEN "sum_same" ELSE "sum_written")
        /\ cur'[m] = f /\ local[m][f] # None /\ StoreFile(m, f, local[m][f])
        /\ modified' = modified /\ local' = local
    BY <1>3 DEF PushStore, Missing
  <2>2. ~Merging(m) /\ ~Concluding(m)
    BY <2>1 DEF Ready, Concluding
  <2>3. /\ Rewritten(local[m], work'[m], head'[m], dirty'[m] \ fetched'[m]) /\ dirty[m] \subseteq dirty'[m]
        /\ work[m].vault[f] # local[m][f] => f \in dirty'[m]
        /\ mergeHead' = mergeHead
    <3>1. Rewritten(local[m], work[m], head[m], dirty[m])
      BY <2>2, NoneFetched DEF Adds
    <3> QED
      BY <2>1, <2>2, <3>1, StoreRewritten
  <2> QED
    BY <2>1, <2>2, <2>3 DEF Adds, Merging
<1>4. CASE PushChecksum(m)
  <2>1. /\ pc[m] \in {"sum_same", "sum_written"} /\ pc'[m] = "push" /\ cur[m] \in File
        /\ UNCHANGED <<local, git, work, dirty>>
        /\ modified'[m] => modified[m] \/ pc[m] = "sum_written"
    BY <1>4 DEF PushChecksum, NamesFile
  <2>2. Rewritten(local[m], work[m], head[m], dirty[m] \ fetched[m]) /\ ~Concluding(m)
    BY <2>1 DEF Adds, Concluding
  <2> QED
    BY <2>1, <2>2 DEF Adds, git, Merging
<1>5. CASE PushSave(m)
  <2>1. /\ pc[m] = "push" /\ pc'[m] = "commit" /\ local' = local
        /\ Rewritten(local[m], work[m], head[m], dirty[m] \ fetched[m])
        /\ ~Merging(m) /\ fetched[m] = {}
    BY <1>5 DEF PushSave, Adds, Concluding, Ready, Knows
  <2>2. CASE UNCHANGED <<git, work, dirty>>
    BY <2>1, <2>2 DEF Adds, git, Merging
  <2>3. CASE WriteState(m, mem[m]) /\ modified[m]
    <3>1. /\ work'[m].vault = work[m].vault /\ head' = head /\ mergeHead' = mergeHead
          /\ dirty'[m] \ fetched'[m] = (dirty[m] \ fetched[m]) \cup {StatePath}
          /\ File \cap (dirty[m] \ fetched[m]) # {}
      BY <2>1, <2>3 DEF WriteState, git, GitTypeOK, Tree, Adds
    <3>2. Rewritten(local[m], work'[m], head'[m], dirty'[m] \ fetched'[m])
      BY <2>1, <3>1, ConstantsAssumption DEF Rewritten
    <3> QED
      BY <2>1, <3>1, <3>2 DEF Adds, Merging
  <2> QED
    BY <1>5, <2>2, <2>3 DEF PushSave
<1>6. CASE PushCommit(m) \/ FinishCommit(m)
  <2>1. pc'[m] \in {"send", "pull", "last_push"} /\ dirty'[m] = {}
    BY <1>6, CommitTrees DEF PushCommit, FinishCommit
  <2> QED
    BY <2>1, CleanAdds
<1>7. CASE PushSend(m) \/ OfflinePush(m) \/ FinishPush(m)
  <2>1. UNCHANGED <<work, dirty, head, mergeHead, fetched, local>>
    BY <1>7 DEF PushSend, OfflinePush, FinishPush, PushAndFlag, PushOk, PushFails, git
  <2>2. /\ pc[m] \in {"send", "offline", "last_push"} /\ pc'[m] \in {"pull", "idle"}
        /\ pc'[m] = "pull" => pc[m] = "send"
        /\ pc'[m] = "idle" => ~modified'[m]
    BY <1>7 DEF PushSend, OfflinePush, FinishPush
  <2> QED
    BY <2>1, <2>2 DEF Adds, Concluding, Merging
<1>8. CASE PullDone(m) \/ PullStopped(m) \/ PullUnreachable(m)
  <2>1. pc[m] = "pull" /\ pc'[m] \in {"restore", "resolve", "offline"} /\ dirty' = dirty
    BY <1>8 DEF PullDone, PullStopped, PullUnreachable, PullOk, PullCurrent, PullForward, PullMerge,
                PullConflict, PullFails
  <2>2. dirty'[m] = {}
    BY <2>1 DEF Adds
  <2> QED
    BY <2>1, <2>2, CleanAdds
<1>9. CASE Resolve(m)
  <2>1. pc'[m] = "finish" /\ dirty'[m] = {}
    BY <1>9, ResolveTrees, ConcludeTrees DEF Resolve
  <2> QED
    BY <2>1, CleanAdds
<1>10. CASE MergePanics(m)
  <2>1. pc[m] = "resolve" /\ pc'[m] = "down" /\ ~modified'[m] /\ dirty[m] = {}
    BY <1>10 DEF MergePanics, Adds
  <2>2. dirty'[m] \subseteq fetched'[m]
    <3>1. PICK done \in SUBSET Detected(m, mergeHead[m], fetched[m]) :
            dirty'[m] = dirty[m] \cup done /\ fetched' = fetched
      BY <1>10, MergePanicsStages, StagesTrees
    <3> QED
      BY <2>1, <3>1 DEF Detected
  <2>3. dirty'[m] \ fetched'[m] = {}
    BY <2>2
  <2> QED
    BY <2>1, <2>2, <2>3, NothingRewritten DEF Adds
<1>11. ASSUME NEW f \in File, RestoreSkip(m, f) \/ RestoreCheck(m, f) PROVE Adds(m)'
  BY <1>11, IdleAdds DEF RestoreSkip, RestoreCheck, Concluding
<1>12. CASE RestoreWrite(m) \/ RestoreDone(m)
  <2>1. pc[m] \in {"restore", "write"} /\ pc'[m] \in {"restore", "finish"} /\ dirty' = dirty
    BY <1>12 DEF RestoreWrite, RestoreDone
  <2>2. dirty'[m] = {}
    BY <2>1 DEF Adds
  <2> QED
    BY <2>1, <2>2, CleanAdds
<1> QED
  BY <1>1, <1>2, <1>3, <1>4, <1>5, <1>6, <1>7, <1>8, <1>9, <1>10, <1>11, <1>12 DEF SyncStep

LEMMA CommandAdds ==
    ASSUME TypeOK, NEW m \in Machine, Knows(m), Ready(m), Adds(m), CommandStep(m)
    PROVE  Adds(m)'
<1> USE DEF TypeOK, CommandTypeOK, Goto, Finished, Resting
<1>1. CASE CommandPull(m) \/ CommandRetryPull(m)
  <2>1. /\ pc[m] \in {"track_pull", "untrack_pull", "cmd_retry"} /\ local' = local
        /\ pc'[m] \in {"track", "untrack", "cmd_last", "idle"}
        /\ pc'[m] = "idle" => ~modified'[m]
        /\ UNCHANGED <<git, work, dirty>> \/ PullForward(m) \/ PullMerge(m) \/ PullConflict(m)
    BY <1>1 DEF CommandPull, CommandRetryPull, PullOk, PullCurrent, PullFails
  <2>2. Rewritten(local[m], work[m], head[m], dirty[m] \ fetched[m]) /\ ~Concluding(m)
    BY <2>1 DEF Adds, Concluding
  <2>3. CASE UNCHANGED <<git, work, dirty>>
    BY <2>1, <2>2, <2>3 DEF Adds, git, Merging
  <2>4. CASE PullForward(m) \/ PullMerge(m) \/ PullConflict(m)
    <3>1. ~Merging(m)
      BY <2>4 DEF PullForward, PullMerge, PullConflict, PullAllowed
    <3>2. Rewritten(local[m], work[m], head[m], dirty[m])
      BY <2>2, <3>1, NoneFetched
    <3>3. /\ Rewritten(local[m], work'[m], head'[m], dirty'[m] \ fetched'[m])
          /\ Merging(m)' => dirty'[m] \cap fetched'[m] = {}
      BY <2>4, <3>2, PullRewritten
    <3> QED
      BY <2>1, <3>3 DEF Adds
  <2> QED
    BY <2>1, <2>3, <2>4
<1>2. CASE TrackRejected(m) \/ UntrackRejected(m)
  BY <1>2, IdleAdds DEF TrackRejected, UntrackRejected, Concluding
<1>3. CASE Track(m)
  <2> DEFINE f == cur[m]
  <2>1. /\ f \in File /\ local[m][f] # None /\ pc[m] = "track" /\ pc'[m] = "cmd_save"
        /\ work[m].state[f] = None /\ StoreFile(m, f, local[m][f]) /\ local' = local
        /\ mem'[m] = [work[m].state EXCEPT ![f] = local[m][f]]
    BY <1>3 DEF Track, Missing, NamesFile
  <2>2. work'[m].state = work[m].state /\ mergeHead' = mergeHead
    BY <2>1 DEF StoreFile, WriteVault, git, GitTypeOK, Tree
  <2>3. ASSUME ~Merging(m) PROVE Rewritten(local[m], work'[m], head'[m], dirty'[m] \ fetched'[m])
    <3>1. Rewritten(local[m], work[m], head[m], dirty[m])
      BY <2>3, NoneFetched DEF Adds, Concluding
    <3> QED
      BY <2>1, <2>3, <3>1, StoreRewritten
  <2>4. /\ Keys(work[m].state) \subseteq Keys(mem'[m])
        /\ mem'[m][f] # None
    BY <2>1 DEF GitTypeOK, Tree, Keys
  <2> HIDE DEF f
  <2> QED
    BY <2>1, <2>2, <2>3, <2>4 DEF Adds, Concluding, Merging
<1>4. CASE Untrack(m)
  BY <1>4 DEF Untrack, Ready
<1>5. CASE CommandSave(m)
  <2>1. /\ pc[m] = "cmd_save" /\ pc'[m] = "cmd_commit" /\ WriteState(m, mem[m]) /\ local' = local
    BY <1>5 DEF CommandSave
  <2>2. /\ work'[m].vault = work[m].vault /\ work'[m].state = mem[m] /\ head' = head /\ mergeHead' = mergeHead
        /\ dirty'[m] = dirty[m] \cup {StatePath} /\ fetched' = fetched
    BY <2>1 DEF WriteState, git, GitTypeOK, Tree
  <2>3. PICK f \in File : mem[m][f] # None /\ work[m].state[f] = None
    BY <2>1 DEF Adds
  <2>4. ASSUME ~Merging(m) PROVE Rewritten(local[m], work'[m], head'[m], dirty'[m] \ fetched'[m])
    <3>1. Rewritten(local[m], work[m], head[m], dirty[m])
      BY <2>4, NoneFetched DEF Adds, Concluding
    <3>2. MergedTree(m, Tip(m), fetched[m]) = head[m]
      BY <2>4, NothingToMerge DEF Knows
    <3>3. \/ File \cap dirty[m] # {}
          \/ \E g \in File : head[m].state[g] = None /\ mem[m][g] # None
      <4>1. CASE StatePath \notin dirty[m]
        <5>1. head[m].state = work[m].state
          BY <3>2, <4>1 DEF Knows, Same
        <5> QED
          BY <2>3, <5>1
      <4>2. CASE StatePath \in dirty[m]
        BY <2>1, <3>1, <4>2 DEF Rewritten, Adds, Keys
      <4> QED
        BY <4>1, <4>2
    <3>4. Rewritten(local[m], work'[m], head'[m], dirty'[m])
      BY <2>2, <3>1, <3>3, ConstantsAssumption DEF Rewritten
    <3>5. dirty'[m] \ fetched'[m] = dirty'[m]
      BY <2>2, <2>4 DEF Knows
    <3> QED
      BY <3>4, <3>5
  <2> QED
    BY <2>1, <2>2, <2>4 DEF Adds, Concluding, Merging
<1>6. CASE CommandCommit(m)
  <2>1. pc'[m] = "cmd_push" /\ dirty'[m] = {}
    BY <1>6, CommitTrees DEF CommandCommit
  <2> QED
    BY <2>1, CleanAdds
<1>7. CASE CommandPush(m) \/ CommandRetryPush(m)
  <2>1. UNCHANGED <<work, dirty, head, mergeHead, fetched, local>>
    BY <1>7 DEF CommandPush, CommandRetryPush, PushOk, PushFails, git
  <2>2. pc[m] \in {"cmd_push", "cmd_last"} /\ pc'[m] \in {"idle", "cmd_retry"}
        /\ (pc'[m] = "idle" => ~modified'[m])
    BY <1>7 DEF CommandPush, CommandRetryPush
  <2> QED
    BY <2>1, <2>2 DEF Adds, Concluding, Merging
<1> QED
  BY <1>1, <1>2, <1>3, <1>4, <1>5, <1>6, <1>7 DEF CommandStep

LEMMA OtherAdds ==
    ASSUME TypeOK, EditsKnown, NEW m \in Machine, Adds(m),
           \/ Crash(m) \/ KeychainChanges(m)
           \/ \E f \in File :
                 \/ StartTrack(m, f) \/ StartUntrack(m, f) \/ UserDelete(m, f)
                 \/ \E e \in Edit : UserEdit(m, f, e)
    PROVE  Adds(m)'
<1> USE DEF TypeOK, CommandTypeOK, Goto, Finished, Resting
<1>1. CASE Crash(m)
  <2>1. ~Concluding(m)
    BY <1>1 DEF Crash, Concluding, CommandSteps
  <2> QED
    BY <1>1, <2>1, IdleAdds DEF Crash
<1>2. ASSUME NEW f \in File, StartTrack(m, f) \/ StartUntrack(m, f) PROVE Adds(m)'
  BY <1>2, IdleAdds DEF StartTrack, StartUntrack, StartCommand, Busy, Concluding
<1>3. CASE \E f \in File : UserDelete(m, f) \/ \E e \in Edit : UserEdit(m, f, e)
  <2>1. UNCHANGED <<git, work, dirty, proc>>
    BY <1>3 DEF UserDelete, UserEdit
  <2>2. ~Concluding(m) => Rewritten(local'[m], work[m], head[m], dirty[m] \ fetched[m])
    BY <1>3, EditRewritten DEF Adds
  <2> QED
    BY <2>1, <2>2 DEF git, proc, Adds, Concluding, Merging
<1>4. CASE KeychainChanges(m)
  <2>1. UNCHANGED <<local, work, head, dirty, fetched, mergeHead, proc>>
    BY <1>4 DEF KeychainChanges
  <2> QED
    BY <2>1 DEF proc, Adds, Concluding, Merging
<1> QED
  BY <1>1, <1>2, <1>3, <1>4

\* What of machine n a step of m leaves alone.
LEMMA OthersUntouched ==
    ASSUME TypeOK, NEW m \in Machine, MachineStep(m), NEW n \in Machine \ {m}
    PROVE  modified'[n] = modified[n] /\ local'[n] = local[n]
<1> USE DEF TypeOK, CommandTypeOK, Finished, proc
<1>1. CASE StartSync(m) \/ Crash(m)
  BY <1>1 DEF StartSync, Crash
<1>2. CASE KeychainChanges(m) \/ \E f \in File : \/ StartTrack(m, f) \/ StartUntrack(m, f) \/ UserDelete(m, f)
                                                 \/ \E e \in Edit : UserEdit(m, f, e)
  BY <1>2 DEF KeychainChanges, StartTrack, StartUntrack, StartCommand, UserDelete, UserEdit
<1>3. CASE CommandStep(m)
  BY <1>3 DEF CommandStep, CommandPull, CommandRetryPull, Track, Untrack, CommandSave,
              CommandCommit, CommandPush, CommandRetryPush, TrackRejected, UntrackRejected
<1>4. ASSUME NEW f \in File, PushSkip(m, f) \/ PushStore(m, f) \/ RestoreSkip(m, f) \/ RestoreCheck(m, f)
      PROVE  modified'[n] = modified[n] /\ local'[n] = local[n]
  BY <1>4 DEF PushSkip, PushStore, RestoreSkip, RestoreCheck
<1>5. CASE SyncStep(m)
  BY <1>4, <1>5 DEF SyncStep, PushChecksum, PushSave,
              PushCommit, PushSend, PullDone, PullStopped, PullUnreachable, OfflinePush, Resolve, MergePanics,
              RestoreWrite, RestoreDone, FinishCommit, FinishPush
<1> QED
  BY <1>1, <1>2, <1>3, <1>5 DEF MachineStep

LEMMA AddsHolds ==
    ASSUME NoUntrack PROVE Spec => [](\A m \in Machine : Adds(m))
<1> DEFINE Inv == \A m \in Machine : Adds(m)
<1>1. Init => Inv
  <2> SUFFICES ASSUME Init, NEW m \in Machine PROVE Adds(m)
    OBVIOUS
  <2>1. dirty[m] = {} /\ pc[m] = "idle" /\ ~modified[m]
    BY DEF Init
  <2> QED
    BY <2>1, NothingRewritten DEF Adds
<1>2. TypeOK /\ Bookkeeping /\ BlobInv /\ EditsKnown /\ Inv /\ [Next]_vars => Inv'
  <2> SUFFICES ASSUME TypeOK, Bookkeeping, BlobInv, EditsKnown, Inv, [Next]_vars PROVE Inv'
    OBVIOUS
  <2>1. CASE Next
    <3>1. PICK m \in Machine : MachineStep(m)
      BY <2>1 DEF Next, MachineStep
    <3>2. Adds(m)'
      <4>1. Knows(m) /\ Ready(m) /\ Adds(m)
        BY DEF Bookkeeping, Knows, BlobInv
      <4> QED
        BY <3>1, <4>1, SyncAdds, CommandAdds, OtherAdds DEF MachineStep
    <3>3. ASSUME NEW n \in Machine \ {m} PROVE Adds(n)'
      <4>1. pc'[n] = pc[n] /\ mem'[n] = mem[n] /\ cur'[n] = cur[n] /\ modified'[n] = modified[n]
            /\ local'[n] = local[n]
        BY <3>1, OthersStand, OthersUntouched
      <4>2. GitStep(m)
        BY <3>1, StepWrites, WritesIsGitStep DEF BlobInv
      <4>3. /\ head'[n] = head[n] /\ work'[n] = work[n] /\ mergeHead'[n] = mergeHead[n]
            /\ dirty'[n] = dirty[n] /\ fetched'[n] = fetched[n]
        BY <4>2, GitStepFrame DEF TypeOK
      <4> QED
        BY <4>1, <4>3 DEF Adds, Concluding, Merging, Keys
    <3> QED
      BY <3>2, <3>3
  <2>2. CASE UNCHANGED vars
    BY <2>2 DEF vars, git, proc, Adds, Concluding, Merging
  <2> QED
    BY <2>1, <2>2
<1> QED
  BY <1>1, <1>2, TypeCorrect, KnowledgeIsTrue, BlobsHold, EditsAreKnown, PTL DEF Spec

\* A commit of Push changes some content, not ciphertext alone, whatever the sync before
\* it left behind when it crashed: what is not committed differs from HEAD, and so it
\* does when the user edits or deletes a file between two reads of it.
THEOREM CommitsAreReal ==
    ASSUME NoUntrack PROVE Spec => NoSpuriousCommit
<1>1. TypeOK /\ Bookkeeping /\ BlobInv /\ (\A m \in Machine : Adds(m)) /\ [Next]_vars =>
         \A m \in Machine : pc[m] = "commit" /\ ahead'[m] /\ ~ahead[m] => head'[m] # head[m]
  <2> SUFFICES ASSUME TypeOK, Bookkeeping, BlobInv, \A m \in Machine : Adds(m), [Next]_vars, NEW m \in Machine,
                      pc[m] = "commit", ahead'[m], ~ahead[m]
               PROVE  head'[m] # head[m]
    OBVIOUS
  <2>1. PICK n \in Machine : MachineStep(n)
    <3>1. Next
      BY DEF vars, git
    <3> QED
      BY <3>1 DEF Next, MachineStep
  <2>2. Writes(n)
    BY <2>1, StepWrites DEF BlobInv, EditStep, git
  <2>3. n = m
    BY <2>1, <2>2, StepWrites, WritesIsGitStep, GitStepFrame DEF BlobInv, TypeOK
  <2>4. ~Merging(m)
    BY DEF BlobInv, Ready, Resting
  <2>5. CommitAll(m)
    <3> USE DEF TypeOK, GitTypeOK
    <3>1. ~PushOk(m) /\ ~PullForward(m) /\ ~PullMerge(m) /\ ~PullConflict(m)
      BY DEF PushOk, PullForward, PullMerge, PullConflict
    <3>2. ~WriteState(m, mem[m]) /\ \A f \in File : ~WriteVault(m, f, local[m][f])
      BY DEF WriteState, WriteVault, git
    <3>3. ~KeychainChanges(m)
      BY DEF KeychainChanges
    <3> QED
      BY <2>2, <2>3, <2>4, <3>1, <3>2, <3>3 DEF Writes
  <2>6. dirty[m] # {} /\ head'[m] = work[m] /\ dirty[m] \subseteq File \cup {StatePath}
    BY <2>4, <2>5 DEF CommitAll, TypeOK, GitTypeOK, Path
  <2>7. Rewritten(local[m], work[m], head[m], dirty[m])
    <3>1. Knows(m)
      BY DEF Bookkeeping, Knows
    <3> QED
      BY <2>4, <3>1, NoneFetched DEF Adds, Concluding
  <2> QED
    BY <2>6, <2>7 DEF Rewritten
<1> QED
  BY <1>1, TypeCorrect, KnowledgeIsTrue, BlobsHold, AddsHolds, PTL DEF Spec, NoSpuriousCommit

-----------------------------------------------------------------------------
(***************************************************************************)
(* What git can give back.  A content of a user's file that is in no       *)
(* commit yet is known to no other machine; on its own machine an entry    *)
(* has it only while its blob is in the vault directory.                   *)
(***************************************************************************)
Saved(h, f, c) == c = None \/ c \in h[f]

\* A committed tree, for the users' files l and the history h.
Recorded(l, h, t) ==
    \A f \in File : /\ Saved(h, f, t.vault[f])
                    /\ \A m \in Machine : t.state[f] = l[m][f] => Saved(h, f, t.state[f])

\* Entries of machine m, whose vault directory is dir.
Loaded(m, l, h, dir, files) ==
    \A f \in File : /\ files[f] = l[m][f] => Saved(h, f, files[f]) \/ files[f] = dir.vault[f]
                    /\ \A n \in Machine \ {m} : files[f] = l[n][f] => Saved(h, f, files[f])

\* A vault directory of machine m.
Draft(m, l, h, dir) == Loaded(m, l, h, dir, dir.state)

\* Where what a command has loaded is still used.
Loading == {"push", "sum_same", "sum_written", "restore", "write", "cmd_save"}

Alone(l, h) ==
    \A m \in Machine, n \in Machine, f \in File :
        m # n /\ l[m][f] = l[n][f] => Saved(h, f, l[m][f])

TreesTraced(l) ==
    /\ Recorded(l, history, remote)
    /\ \A m \in Machine :
          /\ Recorded(l, history, base[m]) /\ Recorded(l, history, head[m])
          /\ mergeHead[m] # None => Recorded(l, history, mergeHead[m])
          /\ Draft(m, l, history, work[m])

MemTraced(l) ==
    \A m \in Machine : pc[m] \in Loading => Loaded(m, l, history, work[m], mem[m])

\* Between two reads of a file by one command, its content does not change.
Steady(m) ==
    /\ pc[m] \in {"sum_same", "sum_written"} => local[m][cur[m]] = work[m].vault[cur[m]]
    /\ pc[m] = "write" => local[m][cur[m]] \in {None, mem[m][cur[m]]}

Traced ==
    /\ TreesTraced(local) /\ MemTraced(local) /\ Alone(local, history)
    /\ \A m \in Machine : Steady(m)

LEMMA SavedGrows ==
    ASSUME NEW h, NEW k, \A f \in File : h[f] \subseteq k[f], NEW l
    PROVE  /\ \A t : Recorded(l, h, t) => Recorded(l, k, t)
           /\ \A m, t, files : Loaded(m, l, h, t, files) => Loaded(m, l, k, t, files)
           /\ \A m, t : Draft(m, l, h, t) => Draft(m, l, k, t)
           /\ Alone(l, h) => Alone(l, k)
<1>1. \A f \in File : \A c : Saved(h, f, c) => Saved(k, f, c)
  BY DEF Saved
<1>2. ASSUME NEW t, Recorded(l, h, t) PROVE Recorded(l, k, t)
  BY <1>1, <1>2 DEF Recorded
<1>3. ASSUME NEW m, NEW t, NEW files, Loaded(m, l, h, t, files) PROVE Loaded(m, l, k, t, files)
  BY <1>1, <1>3 DEF Loaded
<1>4. ASSUME NEW m, NEW t, Draft(m, l, h, t) PROVE Draft(m, l, k, t)
  BY <1>1, <1>3, <1>4 DEF Draft
<1>5. ASSUME Alone(l, h) PROVE Alone(l, k)
  BY <1>1, <1>5 DEF Alone
<1> QED
  BY <1>2, <1>3, <1>4, <1>5

LEMMA RecordedIsDraft ==
    ASSUME NEW m \in Machine, NEW l, NEW h, NEW t, Recorded(l, h, t), NEW dir, dir.state = t.state
    PROVE  Draft(m, l, h, dir)
BY DEF Recorded, Draft, Loaded

LEMMA MergedRecorded ==
    ASSUME TypeOK, NEW m \in Machine, NEW t, NEW p, NEW l, NEW h,
           Recorded(l, h, head[m]), Recorded(l, h, t)
    PROVE  Recorded(l, h, MergedTree(m, t, p))
BY MergedEntry DEF Recorded, Saved, MergedTree

\* What is not dirty in a vault directory is a blob of a commit.
LEMMA CleanSaved ==
    ASSUME TypeOK, NEW m \in Machine, Knows(m), NEW l, TreesTraced(l), NEW f \in File \ dirty[m]
    PROVE  Saved(history, f, work[m].vault[f])
<1>1. Recorded(l, history, head[m]) /\ Recorded(l, history, Tip(m))
  BY DEF TreesTraced, Tip, Merging
<1>2. Recorded(l, history, MergedTree(m, Tip(m), fetched[m]))
  BY <1>1, MergedRecorded
<1>3. MergedTree(m, Tip(m), fetched[m]).vault[f] = work[m].vault[f]
  BY DEF Knows, Same
<1> QED
  BY <1>2, <1>3 DEF Recorded

LEMMA CheckoutDraft ==
    ASSUME TypeOK, NEW m \in Machine, Knows(m), NEW l, TreesTraced(l), NEW t, Recorded(l, history, t)
    PROVE  Draft(m, l, history, Checkout(m, t))
<1>1. Draft(m, l, history, work[m])
  BY DEF TreesTraced
<1>2. \A f \in File \ dirty[m] : Saved(history, f, work[m].vault[f])
  BY CleanSaved
<1> DEFINE dir == Checkout(m, t)
<1>3. ASSUME NEW f \in File
      PROVE  /\ dir.state[f] = IF StatePath \in dirty[m] THEN work[m].state[f] ELSE t.state[f]
             /\ dir.vault[f] = IF f \in dirty[m] THEN work[m].vault[f] ELSE t.vault[f]
  BY DEF Checkout
<1> HIDE DEF dir
<1>4. Loaded(m, l, history, dir, dir.state)
  BY <1>1, <1>2, <1>3 DEF Draft, Loaded, Recorded
<1> QED
  BY <1>4 DEF Draft, dir

\* An abandoned merge leaves the entries of HEAD, or those that were there before it.
LEMMA AbortDraft ==
    ASSUME TypeOK, NEW m \in Machine, Knows(m), NEW l, TreesTraced(l),
           dirty[m] \subseteq fetched[m] \/ dirty[m] \cap fetched[m] = {}
    PROVE  Draft(m, l, history, Aborted(m))
<1>1. Recorded(l, history, head[m])
  BY DEF TreesTraced
<1>2. CASE dirty[m] \subseteq fetched[m]
  <2>1. Aborted(m).state = head[m].state
    BY <1>2 DEF Aborted
  <2> QED
    BY <1>1, <2>1, RecordedIsDraft
<1>3. CASE dirty[m] \cap fetched[m] = {}
  <2>1. Aborted(m) = Checkout(m, head[m])
    BY <1>3 DEF Aborted, Checkout
  <2> QED
    BY <1>1, <2>1, CheckoutDraft
<1> QED
  BY <1>2, <1>3

LEMMA RememberSaves ==
    ASSUME TypeOK, NEW tree PROVE
      /\ \A f \in File : history[f] \subseteq Remember(tree)[f] /\ Saved(Remember(tree), f, tree.vault[f])
BY DEF Remember, Saved

\* A commit records what its tree has, entries included when their blobs come along.
LEMMA CommitRecorded ==
    ASSUME TypeOK, NEW m \in Machine, NEW l, NEW dir, Draft(m, l, history, dir)
    PROVE  Recorded(l, Remember(dir), dir)
<1> DEFINE h == Remember(dir)
<1>1. \A f \in File : history[f] \subseteq h[f] /\ Saved(h, f, dir.vault[f])
  BY RememberSaves
<1> HIDE DEF h
<1>2. Draft(m, l, h, dir)
  BY <1>1, SavedGrows
<1>3. Recorded(l, h, dir)
  BY <1>1, <1>2 DEF Draft, Loaded, Recorded
<1> QED
  BY <1>3 DEF h

LEMMA MergeRecorded ==
    ASSUME TypeOK, NEW m \in Machine, Merging(m), NEW l, TreesTraced(l), NEW tree,
           tree.state \in {mergeHead[m].state, MergedTree(m, mergeHead[m], fetched[m]).state}
    PROVE  Recorded(l, Remember(tree), tree)
<1> DEFINE h == Remember(tree)
           merged == MergedTree(m, mergeHead[m], fetched[m])
<1>1. \A f \in File : history[f] \subseteq h[f] /\ Saved(h, f, tree.vault[f])
  BY RememberSaves
<1>2. Recorded(l, history, mergeHead[m]) /\ Recorded(l, history, merged)
  BY MergedRecorded DEF TreesTraced, Merging
<1> HIDE DEF h, merged
<1>3. Recorded(l, h, mergeHead[m]) /\ Recorded(l, h, merged)
  BY <1>1, <1>2, SavedGrows
<1>4. tree.state = mergeHead[m].state \/ tree.state = merged.state
  BY DEF merged
<1>5. Recorded(l, h, tree)
  BY <1>1, <1>3, <1>4 DEF Recorded
<1> QED
  BY <1>5 DEF h

LEMMA HistoryGrows ==
    ASSUME TypeOK, NEW m \in Machine, Writes(m)
    PROVE  \A f \in File : history[f] \subseteq history'[f]
<1>1. ASSUME NEW tree, history' = Remember(tree) PROVE \A f \in File : history[f] \subseteq history'[f]
  BY <1>1, RememberSaves
<1>2. CASE CommitAll(m)
  BY <1>1, <1>2, CommitTrees
<1>3. CASE Resolve(m)
  BY <1>1, <1>3, ResolveTrees, ConcludeTrees
<1>4. CASE ResolveConflictsRemote(m)
  BY <1>1, <1>4, ResolveRemoteTrees, ConcludeTrees, AbortTrees
<1>5. CASE PullForward(m) \/ PullMerge(m) \/ PullConflict(m)
  BY <1>5, PullTrees
<1>6. CASE Stages(m) \/ KeychainChanges(m)
  BY <1>6 DEF Stages, KeychainChanges, git
<1> QED
  BY <1>2, <1>3, <1>4, <1>5, <1>6 DEF Writes, WriteState, WriteVault, PushOk, git

LEMMA WritesTraced ==
    ASSUME TypeOK, NEW m \in Machine, Knows(m), Adds(m), Writes(m), TreesTraced(local), MemTraced(local)
    PROVE  /\ Recorded(local, history', remote')
           /\ Recorded(local, history', base'[m]) /\ Recorded(local, history', head'[m])
           /\ mergeHead'[m] # None => Recorded(local, history', mergeHead'[m])
           /\ Draft(m, local, history', work'[m])
<1> DEFINE Trees == /\ Recorded(local, history', remote')
                    /\ Recorded(local, history', base'[m]) /\ Recorded(local, history', head'[m])
                    /\ mergeHead'[m] # None => Recorded(local, history', mergeHead'[m])
                    /\ Draft(m, local, history', work'[m])
<1>0. /\ Recorded(local, history, remote) /\ Recorded(local, history, base[m])
      /\ Recorded(local, history, head[m]) /\ Draft(m, local, history, work[m])
      /\ mergeHead[m] # None => Recorded(local, history, mergeHead[m])
  BY DEF TreesTraced
<1>h. /\ \A t : Recorded(local, history, t) => Recorded(local, history', t)
      /\ \A t : Draft(m, local, history, t) => Draft(m, local, history', t)
  <2>1. \A f \in File : history[f] \subseteq history'[f]
    BY HistoryGrows
  <2> QED
    BY <2>1, SavedGrows
<1>1. ASSUME NEW tree, NEW kept, Conclude(m, tree, kept), Merging(m),
             tree.state \in {mergeHead[m].state, MergedTree(m, mergeHead[m], fetched[m]).state}
      PROVE  Trees
  <2>1. /\ head'[m] = tree /\ work'[m] = tree /\ base'[m] = mergeHead[m] /\ mergeHead'[m] = None
        /\ remote' = remote /\ history' = Remember(tree)
    BY <1>1, ConcludeTrees
  <2>2. Recorded(local, history', tree)
    BY <1>1, <2>1, MergeRecorded
  <2> QED
    BY <1>0, <1>1, <1>h, <2>1, <2>2, RecordedIsDraft DEF Merging
<1>2. CASE pc[m] \in {"push", "cmd_save"} /\ WriteState(m, mem[m])
  <2>1. /\ work'[m].state = mem[m] /\ work'[m].vault = work[m].vault
        /\ UNCHANGED <<remote, base, head, mergeHead, history>>
    BY <1>2 DEF WriteState, git, TypeOK, GitTypeOK, Tree
  <2>2. Loaded(m, local, history, work[m], mem[m])
    BY <1>2 DEF MemTraced, Loading
  <2>3. Draft(m, local, history, work'[m])
    BY <1>0, <2>1, <2>2 DEF Draft, Loaded
  <2> QED
    BY <1>0, <2>1, <2>3
<1>3. ASSUME NEW f \in File, WriteVault(m, f, local[m][f]) PROVE Trees
  <2>1. /\ work'[m].state = work[m].state
        /\ \A g \in File : work'[m].vault[g] = IF g = f THEN local[m][f] ELSE work[m].vault[g]
        /\ UNCHANGED <<remote, base, head, mergeHead, history>>
    BY <1>3 DEF WriteVault, git, TypeOK, GitTypeOK, Tree
  <2>2. Loaded(m, local, history, work'[m], work'[m].state)
    BY <1>0, <2>1 DEF Draft, Loaded
  <2> QED
    BY <1>0, <2>1, <2>2 DEF Draft
<1>4. CASE CommitAll(m)
  <2>1. Recorded(local, Remember(work[m]), work[m])
    BY <1>0, CommitRecorded
  <2>2. /\ head'[m] = work[m] /\ work'[m] = work[m] /\ remote' = remote /\ history' = Remember(work[m])
        /\ base'[m] = (IF Merging(m) THEN mergeHead[m] ELSE base[m]) /\ mergeHead'[m] = None
    BY <1>4, CommitTrees DEF Merging
  <2> QED
    BY <1>0, <1>h, <2>1, <2>2 DEF Merging
<1>5. CASE Merging(m) /\ Resolve(m)
  <2>1. PICK overlap, kept : Conclude(m, Settled(m, Detected(m, mergeHead[m], fetched[m]), overlap), kept)
    BY <1>5, ResolveTrees
  <2>2. \A done, o : Settled(m, done, o).state
                        \in {mergeHead[m].state, MergedTree(m, mergeHead[m], fetched[m]).state}
    BY DEF Settled
  <2> QED
    BY <1>1, <1>5, <2>1, <2>2
<1>9. CASE Merging(m) /\ Stages(m)
  <2>1. PICK done, overlap : /\ work'[m] = Settled(m, done, overlap)
                             /\ UNCHANGED <<remote, base, head, mergeHead, history>>
    BY <1>9, StagesTrees
  <2> DEFINE t == mergeHead[m]
             merged == MergedTree(m, mergeHead[m], fetched[m])
  <2>2. Recorded(local, history, t) /\ Recorded(local, history, merged)
    BY <1>0, <1>9, MergedRecorded DEF Merging
  <2>3. work'[m].state \in {t.state, merged.state}
    BY <2>1 DEF Settled
  <2> HIDE DEF t, merged
  <2>4. Draft(m, local, history, work'[m])
    BY <2>2, <2>3, RecordedIsDraft
  <2> QED
    BY <1>0, <2>1, <2>4
<1>10. CASE KeychainChanges(m)
  BY <1>0, <1>10 DEF KeychainChanges
<1>6. CASE Merging(m) /\ pc[m] \in Resting /\ ResolveConflictsRemote(m)
  <2>1. CASE AbortMerge(m)
    <3>1. /\ work'[m] = Aborted(m) /\ mergeHead'[m] = None
          /\ UNCHANGED <<remote, base, head, history>>
      BY <2>1, AbortTrees DEF Merging
    <3>3. dirty[m] \subseteq fetched[m] \/ dirty[m] \cap fetched[m] = {}
      BY <1>6 DEF Adds, Concluding, Resting
    <3>2. Draft(m, local, history, Aborted(m))
      BY <3>3, AbortDraft
    <3> QED
      BY <1>0, <3>1, <3>2
  <2>2. TheirsTree(m).state \in {mergeHead[m].state, MergedTree(m, mergeHead[m], fetched[m]).state}
    BY DEF TheirsTree
  <2> QED
    BY <1>1, <1>6, <2>1, <2>2, ResolveRemoteTrees
<1>7. CASE PullForward(m) \/ PullMerge(m) \/ PullConflict(m)
  <2>1. Recorded(local, history, MergedTree(m, remote, theirs[m]))
    BY <1>0, MergedRecorded
  <2>2. PICK tree : /\ Recorded(local, history, tree)
                    /\ work'[m] = Checkout(m, tree) /\ head'[m] \in {head[m], tree}
                    /\ base'[m] \in {base[m], remote} /\ mergeHead'[m] \in {None, remote}
                    /\ remote' = remote /\ history' = history
    BY <1>0, <1>7, <2>1, PullTrees
  <2>3. Draft(m, local, history, Checkout(m, tree))
    BY <2>2, CheckoutDraft
  <2> QED
    BY <1>0, <2>2, <2>3
<1>8. CASE PushOk(m)
  BY <1>0, <1>8 DEF PushOk, TypeOK, GitTypeOK
<1> QED
  BY <1>2, <1>3, <1>4, <1>5, <1>6, <1>7, <1>8, <1>9, <1>10 DEF Writes

\* A machine's files become contents that git has, or one that is nowhere else.
Renewed(l, k, h, u) ==
    \A m \in Machine, f \in File :
        k[m][f] = l[m][f] \/ Saved(h, f, k[m][f]) \/ ~Made(u, k[m][f])

LEMMA RenewedRecorded ==
    ASSUME NEW l, NEW k, NEW h, NEW u, Renewed(l, k, h, u)
    PROVE  /\ \A t : Known(u, t) /\ Recorded(l, h, t) => Recorded(k, h, t)
           /\ \A m \in Machine : \A dir, files :
                 (\A f \in File : Made(u, files[f])) /\ Loaded(m, l, h, dir, files) => Loaded(m, k, h, dir, files)
           /\ \A m \in Machine : \A dir : Known(u, dir) /\ Draft(m, l, h, dir) => Draft(m, k, h, dir)
<1>1. ASSUME NEW t, Known(u, t), Recorded(l, h, t) PROVE Recorded(k, h, t)
  BY <1>1 DEF Renewed, Known, Recorded
<1>2. ASSUME NEW m \in Machine, NEW dir, NEW files, \A f \in File : Made(u, files[f]), Loaded(m, l, h, dir, files)
      PROVE  Loaded(m, k, h, dir, files)
  BY <1>2 DEF Renewed, Loaded
<1>3. ASSUME NEW m \in Machine, NEW dir, Known(u, dir), Draft(m, l, h, dir) PROVE Draft(m, k, h, dir)
  BY <1>2, <1>3 DEF Known, Draft
<1> QED
  BY <1>1, <1>2, <1>3

\* Claim by claim, for a step of m: what git has, with the files as they were.
LEMMA StepTrees ==
    ASSUME TypeOK, TypeOK', NEW m \in Machine, Knows(m), Adds(m), EditStep(m), Traced, NEW l, l = local
    PROVE  TreesTraced(l)'
<1>0. GitStep(m)
  BY WritesIsGitStep
<1>1. CASE UNCHANGED <<git, work, dirty>>
  BY <1>1 DEF git, Traced, TreesTraced
<1>2. CASE Writes(m)
  <2>1. /\ Recorded(l, history', remote')
        /\ Recorded(l, history', base'[m]) /\ Recorded(l, history', head'[m])
        /\ mergeHead'[m] # None => Recorded(l, history', mergeHead'[m])
        /\ Draft(m, l, history', work'[m])
    BY <1>2, WritesTraced DEF Traced
  <2>2. \A f \in File : history[f] \subseteq history'[f]
    BY <1>2, HistoryGrows
  <2>3. ASSUME NEW n \in Machine \ {m}
        PROVE  /\ Recorded(l, history', base'[n]) /\ Recorded(l, history', head'[n])
               /\ mergeHead'[n] # None => Recorded(l, history', mergeHead'[n])
               /\ Draft(n, l, history', work'[n])
    <3>1. base'[n] = base[n] /\ head'[n] = head[n] /\ mergeHead'[n] = mergeHead[n] /\ work'[n] = work[n]
      BY <1>0, GitStepFrame DEF TypeOK
    <3>2. /\ Recorded(l, history, base[n]) /\ Recorded(l, history, head[n])
          /\ mergeHead[n] # None => Recorded(l, history, mergeHead[n])
          /\ Draft(n, l, history, work[n])
      BY DEF Traced, TreesTraced
    <3> QED
      BY <2>2, <3>1, <3>2, SavedGrows
  <2> QED
    BY <2>1, <2>3 DEF TreesTraced
<1> QED
  BY <1>1, <1>2 DEF EditStep

\* What the commands have loaded.
LEMMA StepMem ==
    ASSUME TypeOK, TypeOK', NEW m \in Machine, Ready(m), MachineStep(m), EditStep(m), Traced,
           NEW l, l = local, TreesTraced(l)'
    PROVE  MemTraced(l)'
<1>0. /\ Draft(m, l, history, work[m]) /\ Draft(m, l, history', work'[m])
      /\ pc[m] \in Loading => Loaded(m, l, history, work[m], mem[m])
  BY DEF Traced, TreesTraced, MemTraced
<1> USE DEF TypeOK, CommandTypeOK, Goto, Finished, Loading
<1>1. ASSUME NEW n \in Machine \ {m}, pc'[n] \in Loading PROVE Loaded(n, l, history', work'[n], mem'[n])
  <2>1. pc'[n] = pc[n] /\ mem'[n] = mem[n]
    BY OthersStand
  <2>2. work'[n] = work[n]
    BY WritesIsGitStep, GitStepFrame
  <2>3. Loaded(n, l, history, work[n], mem[n])
    BY <1>1, <2>1 DEF Traced, MemTraced
  <2>4. \A f \in File : history[f] \subseteq history'[f]
    BY HistoryGrows DEF EditStep, git
  <2> QED
    BY <2>1, <2>2, <2>3, <2>4, SavedGrows
<1>2. SUFFICES ASSUME pc'[m] \in Loading PROVE Loaded(m, l, history', work'[m], mem'[m])
  BY <1>1 DEF MemTraced
<1>3. CASE mem'[m] = work'[m].state
  BY <1>0, <1>3 DEF Draft
<1>4. CASE UNCHANGED <<history, work>> /\ mem'[m] = mem[m] /\ pc[m] \in Loading
  BY <1>0, <1>4
<1>5. CASE StartSync(m) \/ PullDone(m)
  BY <1>3, <1>5 DEF StartSync, PullDone
<1>6. ASSUME NEW f \in File, PushStore(m, f) PROVE Loaded(m, l, history', work'[m], mem'[m])
  <2>1. mem'[m] = mem[m] /\ Loaded(m, l, history, work[m], mem[m]) /\ history' = history
    BY <1>0, <1>6 DEF PushStore, StoreFile, WriteVault, git
  <2>2. ASSUME NEW g \in File PROVE work'[m].vault[g] = work[m].vault[g] \/ work'[m].vault[g] = l[m][g]
    <3>1. CASE UNCHANGED <<git, work, dirty>>
      BY <3>1
    <3>2. CASE WriteVault(m, f, local[m][f])
      BY <3>2 DEF WriteVault, GitTypeOK, Tree
    <3> QED
      BY <1>6, <3>1, <3>2 DEF PushStore, StoreFile
  <2> QED
    BY <2>1, <2>2 DEF Loaded
<1>7. CASE PushChecksum(m)
  <2>1. /\ \A g \in File : mem'[m][g] = mem[m][g] \/ (g = cur[m] /\ mem'[m][g] = l[m][g])
        /\ UNCHANGED <<history, work>> /\ Loaded(m, l, history, work[m], mem[m])
        /\ l[m][cur[m]] = work[m].vault[cur[m]]
    BY <1>0, <1>7 DEF PushChecksum, NamesFile, git, Traced, Steady
  <2>2. Alone(l, history)
    BY DEF Traced
  <2>3. ASSUME NEW g \in File, g = cur[m], mem'[m][g] = l[m][g]
        PROVE  /\ mem'[m][g] = work[m].vault[g]
               /\ \A n \in Machine \ {m} : mem'[m][g] = l[n][g] => Saved(history, g, mem'[m][g])
    BY <2>1, <2>2, <2>3 DEF Alone
  <2> QED
    BY <2>1, <2>3 DEF Loaded
<1>8. CASE Track(m)
  <2> DEFINE f == cur[m]
  <2>1. /\ f \in File /\ mem'[m] = [work[m].state EXCEPT ![f] = l[m][f]] /\ history' = history
        /\ work[m].state \in [File -> {None} \cup Content]
    BY <1>8 DEF Track, NamesFile, StoreFile, WriteVault, git, GitTypeOK, Tree
  <2>2. /\ \A g \in File : g # f => work'[m].vault[g] = work[m].vault[g]
        /\ work'[m].vault[f] = l[m][f]
    BY <1>8, <2>1 DEF Track, StoreFile, WriteVault, GitTypeOK, Tree
  <2>3. Alone(l, history)
    BY DEF Traced
  <2>4. \A g \in File : mem'[m][g] = IF g = f THEN l[m][g] ELSE work[m].state[g]
    BY <2>1
  <2> HIDE DEF f
  <2> QED
    BY <1>0, <2>1, <2>2, <2>3, <2>4 DEF Draft, Loaded, Alone
<1>9. ASSUME NEW f \in File, \/ PushSkip(m, f) \/ RestoreSkip(m, f) \/ RestoreCheck(m, f)
                            \/ UserDelete(m, f) \/ \E e \in Edit : UserEdit(m, f, e)
      PROVE  Loaded(m, l, history', work'[m], mem'[m])
  BY <1>2, <1>4, <1>9 DEF PushSkip, RestoreSkip, RestoreCheck, UserDelete, UserEdit, proc, git
<1>14. CASE KeychainChanges(m)
  BY <1>2, <1>4, <1>14 DEF KeychainChanges, proc
<1>10. CASE RestoreWrite(m)
  BY <1>4, <1>10 DEF RestoreWrite, git
<1>11. ~Untrack(m)
  BY DEF Untrack, Ready
<1>12. /\ ~Crash(m) /\ ~CommandSave(m) /\ ~CommandCommit(m) /\ ~CommandPush(m) /\ ~CommandRetryPush(m)
       /\ ~CommandPull(m) /\ ~CommandRetryPull(m) /\ ~TrackRejected(m) /\ ~UntrackRejected(m)
       /\ \A f \in File : ~StartTrack(m, f) /\ ~StartUntrack(m, f)
  BY <1>2 DEF Crash, CommandSave, CommandCommit, CommandPush, CommandRetryPush, CommandPull,
          CommandRetryPull, TrackRejected, UntrackRejected, StartTrack, StartUntrack, StartCommand
<1>13. /\ ~PushSave(m) /\ ~PushCommit(m) /\ ~PushSend(m) /\ ~PullStopped(m) /\ ~PullUnreachable(m)
       /\ ~OfflinePush(m) /\ ~Resolve(m) /\ ~MergePanics(m) /\ ~RestoreDone(m) /\ ~FinishCommit(m)
       /\ ~FinishPush(m)
  BY <1>2 DEF PushSave, PushCommit, PushSend, PullStopped, PullUnreachable, OfflinePush, Resolve,
          MergePanics, RestoreDone, FinishCommit, FinishPush
<1> QED
  BY <1>5, <1>6, <1>7, <1>8, <1>9, <1>10, <1>11, <1>12, <1>13, <1>14 DEF MachineStep, SyncStep, CommandStep

\* A step that changes a file leaves it with a content that git has or a new one.
LEMMA StepRenews ==
    ASSUME TypeOK, NEW m \in Machine, Knows(m), Ready(m), Adds(m), MachineStep(m), EditsKnown, Traced,
           ~UNCHANGED local
    PROVE  /\ UNCHANGED <<git, work, dirty, mem>>
           /\ Renewed(local, local', history, used)
           /\ \A n \in Machine \ {m} : local'[n] = local[n]
<1> USE DEF TypeOK, CommandTypeOK
<1>1. \A n \in Machine \ {m} : local'[n] = local[n]
  BY OthersUntouched
<1>2. CASE RestoreWrite(m)
  <2>1. /\ UNCHANGED <<git, work, dirty, mem>> /\ pc[m] = "write" /\ cur[m] \in File
        /\ \A f \in File : local'[m][f] = local[m][f] \/ local'[m][f] = work[m].vault[f]
    BY <1>2 DEF RestoreWrite, NamesFile
  <2>2. \A f \in File : Saved(history, f, work[m].vault[f])
    <3>1. dirty[m] = {} /\ TreesTraced(local)
      BY <2>1 DEF Adds, Traced
    <3> QED
      BY <3>1, CleanSaved
  <2> QED
    BY <1>1, <2>1, <2>2 DEF Renewed
<1>3. ASSUME NEW f \in File, UserDelete(m, f)
      PROVE  /\ UNCHANGED <<git, work, dirty, mem>>
             /\ \A g \in File : local'[m][g] = local[m][g] \/ local'[m][g] = None
  BY <1>3 DEF UserDelete, proc
<1>4. ASSUME NEW f \in File, NEW e \in Edit, UserEdit(m, f, e)
      PROVE  /\ UNCHANGED <<git, work, dirty, mem>>
             /\ \A g \in File : local'[m][g] = local[m][g] \/ ~Made(used, local'[m][g])
  <2> DEFINE new == (IF local[m][f] = None THEN {} ELSE local[m][f]) \cup {e}
  <2>1. /\ \A g \in File : local'[m][g] = IF g = f THEN new ELSE local[m][g]
        /\ e \notin used /\ UNCHANGED <<git, work, dirty, mem>>
    BY <1>4 DEF UserEdit, proc
  <2>2. new # None /\ e \in new
    <3>1. new \in Content
      BY DEF Content
    <3> QED
      BY <3>1, ConstantsAssumption
  <2> HIDE DEF new
  <2> QED
    BY <2>1, <2>2 DEF Made
<1> QED
  BY <1>1, <1>2, <1>3, <1>4, LocalFrom DEF Renewed, Saved

LEMMA StepTraced ==
    ASSUME TypeOK, TypeOK', NEW m \in Machine, Knows(m), Ready(m), Adds(m), MachineStep(m), EditsKnown,
           Traced
    PROVE  TreesTraced(local)' /\ MemTraced(local)' /\ Alone(local', history')
<1>0. EditStep(m)
  BY StepWrites
<1>1. PICK l : l = local
  OBVIOUS
<1>2. TreesTraced(l)'
  BY <1>0, <1>1, StepTrees
<1>3. MemTraced(l)'
  BY <1>0, <1>1, <1>2, StepMem
<1>4. Alone(l, history) /\ Alone(l, history')
  <2>1. \A f \in File : history[f] \subseteq history'[f]
    BY <1>0, HistoryGrows DEF EditStep, git
  <2> QED
    BY <1>1, <2>1, SavedGrows DEF Traced
<1>5. CASE UNCHANGED local
  BY <1>1, <1>2, <1>3, <1>4, <1>5 DEF TreesTraced, MemTraced
<1>6. CASE ~UNCHANGED local
  <2>1. /\ UNCHANGED <<git, work, dirty, mem>>
        /\ Renewed(l, local', history, used)
        /\ \A n \in Machine \ {m} : local'[n] = l[n]
    BY <1>1, <1>6, StepRenews
  <2>2. /\ \A t : Known(used, t) /\ Recorded(l, history, t) => Recorded(local', history, t)
        /\ \A n \in Machine : \A dir, files : (\A f \in File : Made(used, files[f])) /\ Loaded(n, l, history, dir, files)
                    => Loaded(n, local', history, dir, files)
        /\ \A n \in Machine : \A dir :
                    Known(used, dir) /\ Draft(n, l, history, dir) => Draft(n, local', history, dir)
    BY <2>1, RenewedRecorded
  <2>3. /\ history' = history /\ remote' = remote /\ base' = base /\ head' = head /\ work' = work
        /\ mergeHead' = mergeHead /\ mem' = mem
    BY <2>1 DEF git
  <2>4. TreesTraced(local)'
    BY <1>2, <2>2, <2>3 DEF EditsKnown, TreesKnown, Merging, TreesTraced
  <2>5. MemTraced(local)'
    BY <1>3, <2>2, <2>3 DEF EditsKnown, MemTraced
  <2>6. Alone(local', history')
    <3> SUFFICES ASSUME NEW a \in Machine, NEW b \in Machine, NEW f \in File, a # b,
                        local'[a][f] = local'[b][f]
                 PROVE  Saved(history, f, local'[a][f])
      BY <2>3 DEF Alone
    <3>1. CASE local'[a][f] = l[a][f] /\ local'[b][f] = l[b][f]
      BY <1>4, <3>1 DEF Alone
    <3>2. ASSUME NEW c \in {a, b}, local'[c][f] # l[c][f] PROVE Saved(history, f, local'[a][f])
      <4>1. c = m
        BY <2>1, <3>2
      <4>2. PICK d \in {a, b} : d # c
        OBVIOUS
      <4>3. local'[d][f] = l[d][f] /\ Made(used, l[d][f])
        BY <1>1, <2>1, <4>1, <4>2 DEF EditsKnown
      <4> QED
        BY <2>1, <3>2, <4>3 DEF Renewed
    <3> QED
      BY <3>1, <3>2
  <2> QED
    BY <2>4, <2>5, <2>6
<1> QED
  BY <1>5, <1>6

LEMMA StepSteady ==
    ASSUME TypeOK, RacyEdits = FALSE, NEW m \in Machine, MachineStep(m), Steady(m)
    PROVE  Steady(m)'
<1> USE DEF TypeOK, CommandTypeOK, Goto, Finished
<1>1. ASSUME NEW f \in File, PushStore(m, f) PROVE Steady(m)'
  <2>1. pc'[m] \in {"sum_same", "sum_written"} /\ cur'[m] = f /\ local' = local
    BY <1>1 DEF PushStore
  <2>2. work'[m].vault[f] = local[m][f]
    <3>1. CASE WriteVault(m, f, local[m][f])
      BY <3>1 DEF WriteVault, GitTypeOK, Tree
    <3> QED
      BY <1>1, <3>1 DEF PushStore, StoreFile
  <2> QED
    BY <2>1, <2>2 DEF Steady
<1>2. ASSUME NEW f \in File, RestoreCheck(m, f) PROVE Steady(m)'
  BY <1>2 DEF RestoreCheck, Missing, Clean, Steady
<1>3. ASSUME NEW f \in File, UserDelete(m, f) \/ \E e \in Edit : UserEdit(m, f, e) PROVE Steady(m)'
  <2>1. UNCHANGED <<work, pc, mem, cur>> /\ ~Exposed(m, f)
        /\ \A g \in File : g # f => local'[m][g] = local[m][g]
    BY <1>3 DEF UserDelete, UserEdit, proc
  <2> QED
    BY <2>1 DEF Exposed, NamesFile, Steady
<1>8. CASE KeychainChanges(m)
  BY <1>8 DEF KeychainChanges, proc, Steady
<1>4. CASE pc'[m] \notin {"sum_same", "sum_written", "write"}
  BY <1>4 DEF Steady
<1>5. ASSUME NEW f \in File, \/ PushSkip(m, f) \/ RestoreSkip(m, f) \/ StartTrack(m, f) \/ StartUntrack(m, f)
      PROVE  pc'[m] \notin {"sum_same", "sum_written", "write"}
  BY <1>5 DEF PushSkip, RestoreSkip, StartTrack, StartUntrack, StartCommand
<1>6. CASE StartSync(m) \/ Crash(m) \/ CommandStep(m)
  <2>1. pc'[m] \notin {"sum_same", "sum_written", "write"}
    BY <1>6 DEF StartSync, Crash, CommandStep, CommandPull, CommandRetryPull, Track, Untrack, CommandSave,
              CommandCommit, CommandPush, CommandRetryPush, TrackRejected, UntrackRejected
  <2> QED
    BY <1>4, <2>1
<1>7. CASE \/ PushChecksum(m) \/ PushSave(m) \/ PushCommit(m) \/ PushSend(m) \/ PullDone(m) \/ PullStopped(m)
           \/ PullUnreachable(m) \/ OfflinePush(m) \/ Resolve(m) \/ MergePanics(m) \/ RestoreWrite(m)
           \/ RestoreDone(m) \/ FinishCommit(m) \/ FinishPush(m)
  <2>1. pc'[m] \notin {"sum_same", "sum_written", "write"}
    BY <1>7 DEF PushChecksum, PushSave, PushCommit, PushSend, PullDone, PullStopped, PullUnreachable,
                OfflinePush, Resolve, MergePanics, RestoreWrite, RestoreDone, FinishCommit, FinishPush
  <2> QED
    BY <1>4, <2>1
<1> QED
  BY <1>1, <1>2, <1>3, <1>4, <1>5, <1>6, <1>7, <1>8 DEF MachineStep, SyncStep

LEMMA TracedHolds ==
    ASSUME NoUntrack, RacyEdits = FALSE PROVE Spec => []Traced
<1>1. Init => Traced
  <2> SUFFICES ASSUME Init PROVE Traced
    OBVIOUS
  <2>1. PICK tracked :
          LET files == [f \in File |-> IF f \in tracked THEN {} ELSE None]
              tree == [state |-> files, vault |-> files]
          IN  /\ remote = tree /\ base = [n \in Machine |-> tree]
              /\ head = [n \in Machine |-> tree] /\ work = [n \in Machine |-> tree]
              /\ history = [f \in File |-> {files[f]} \ {None}]
              /\ local = [m \in Machine |-> [f \in File |->
                            IF GlobalOwner[f] \in {None, m} THEN files[f] ELSE None]]
    BY DEF Init
  <2> DEFINE files == [f \in File |-> IF f \in tracked THEN {} ELSE None]
             tree == [state |-> files, vault |-> files]
  <2>2. /\ tree.state = files /\ tree.vault = files
        /\ \A f \in File : Saved(history, f, files[f])
        /\ \A m \in Machine, f \in File : Saved(history, f, local[m][f])
    BY <2>1 DEF Saved
  <2>3. remote = tree /\ \A m \in Machine : base[m] = tree /\ head[m] = tree /\ work[m] = tree
    BY <2>1
  <2>4. \A m \in Machine : mergeHead[m] = None /\ pc[m] = "idle"
    BY DEF Init
  <2> HIDE DEF tree, files
  <2>5. Recorded(local, history, tree) /\ Alone(local, history)
    BY <2>2 DEF Recorded, Alone
  <2>6. \A m \in Machine : Draft(m, local, history, tree)
    BY <2>5, RecordedIsDraft
  <2> QED
    BY <2>3, <2>4, <2>5, <2>6 DEF Traced, TreesTraced, MemTraced, Loading, Steady
<1>2. /\ TypeOK /\ TypeOK' /\ Bookkeeping /\ BlobInv /\ EditsKnown /\ (\A m \in Machine : Adds(m))
      /\ Traced /\ [Next]_vars
      => Traced'
  <2> SUFFICES ASSUME TypeOK, TypeOK', Bookkeeping, BlobInv, EditsKnown, \A m \in Machine : Adds(m), Traced,
                      [Next]_vars
               PROVE  Traced'
    OBVIOUS
  <2>1. CASE Next
    <3>1. PICK m \in Machine : MachineStep(m)
      BY <2>1 DEF Next, MachineStep
    <3>2. Knows(m) /\ Ready(m) /\ Adds(m)
      BY DEF Bookkeeping, Knows, BlobInv
    <3>3. TreesTraced(local)' /\ MemTraced(local)' /\ Alone(local', history')
      BY <3>1, <3>2, StepTraced
    <3>4. Steady(m)'
      BY <3>1, StepSteady DEF Traced
    <3>5. ASSUME NEW n \in Machine \ {m} PROVE Steady(n)'
      <4>1. pc'[n] = pc[n] /\ mem'[n] = mem[n] /\ cur'[n] = cur[n] /\ local'[n] = local[n]
        BY <3>1, OthersStand, OthersUntouched
      <4>2. work'[n] = work[n]
        BY <3>1, <3>2, StepWrites, WritesIsGitStep, GitStepFrame DEF TypeOK
      <4> QED
        BY <4>1, <4>2 DEF Traced, Steady
    <3> QED
      BY <3>3, <3>4, <3>5 DEF Traced
  <2>2. CASE UNCHANGED vars
    BY <2>2 DEF vars, git, proc, Traced, TreesTraced, MemTraced, Steady
  <2> QED
    BY <2>1, <2>2
<1> QED
  BY <1>1, <1>2, TypeCorrect, KnowledgeIsTrue, BlobsHold, EditsAreKnown, AddsHolds, PTL DEF Spec

\* What a sync writes over in a user's file, git can give back: a content that is in no
\* commit is on no entry a restore could take it for clean by, through every merge,
\* crash and retry.  A file that changes between two reads of it by one command can
\* lose an edit, and untrack leaves entries without their blob: both are excluded.
THEOREM NoEditDestroyed ==
    ASSUME NoUntrack, RacyEdits = FALSE PROVE Spec => OverwriteRecoverable
<1>1. TypeOK /\ Traced /\ [Next]_vars =>
         \A m \in Machine, f \in File :
            used' = used /\ local[m][f] # None /\ local'[m][f] \notin {local[m][f], None}
              => local[m][f] \in history[f]
  <2> SUFFICES ASSUME TypeOK, Traced, [Next]_vars, NEW m \in Machine, NEW f \in File,
                      used' = used, local[m][f] # None, local'[m][f] \notin {local[m][f], None}
               PROVE  local[m][f] \in history[f]
    OBVIOUS
  <2> USE DEF TypeOK, CommandTypeOK
  <2>1. PICK n \in Machine : MachineStep(n)
    <3>1. Next
      BY DEF vars
    <3> QED
      BY <3>1 DEF Next, MachineStep
  <2>2. n = m
    BY <2>1, OthersUntouched
  <2>3. RestoreWrite(m)
    <3>1. \A g \in File : ~UserDelete(m, g)
      BY DEF UserDelete
    <3>2. \A g \in File, e \in Edit : ~UserEdit(m, g, e)
      BY DEF UserEdit
    <3> QED
      BY <2>1, <2>2, <3>1, <3>2, LocalFrom
  <2>4. pc[m] = "write" /\ cur[m] = f /\ local'[m][f] = work[m].vault[f]
    BY <2>3 DEF RestoreWrite, NamesFile
  <2>5. mem[m][f] = local[m][f] /\ Loaded(m, local, history, work[m], mem[m])
    BY <2>4 DEF Traced, Steady, MemTraced, Loading
  <2> QED
    BY <2>4, <2>5 DEF Loaded, Saved
<1> QED
  BY <1>1, TypeCorrect, TracedHolds, PTL DEF Spec, OverwriteRecoverable
=============================================================================
