------------------------- MODULE SecretVault_proofs -------------------------
(***************************************************************************)
(* For any names, values and mapped files, any commands of any number on   *)
(* both machines, and any crashes: versions of secrets are kept, a command *)
(* that reports success has its change at the remote and in the mapped     *)
(* files, and the migration of the legacy format loses nothing.            *)
(***************************************************************************)
EXTENDS SecretVault, FiniteSetTheorems, SequenceTheorems, TLAPS

Index == [Name -> IndexEntry \cup LegacyEntry \cup {None}]
Files == [Name -> Secret \cup {None}]

\* A secret whose current version it has.
Good(sf) == sf \in Secret \cup {None} /\ (sf # None => sf.latest \in DOMAIN sf.versions)
GoodTree(t) == t \in Tree /\ Current(t)

-----------------------------------------------------------------------------
(***************************************************************************)
(* Secrets and trees.                                                      *)
(***************************************************************************)
LEMMA TreeParts ==
    ASSUME NEW t, GoodTree(t)
    PROVE  /\ t.file \in Files /\ t.state \in Index
           /\ t = [file |-> t.file, state |-> t.state]
           /\ \A n \in Name : Good(t.file[n])
BY DEF GoodTree, Tree, Files, Index, Current, Good

LEMMA TreeOfParts ==
    ASSUME NEW files \in Files, NEW s \in Index, \A n \in Name : Good(files[n])
    PROVE  GoodTree([file |-> files, state |-> s])
BY DEF GoodTree, Tree, Files, Index, Current, Good

LEMMA InitialGood ==
    ASSUME NEW v \in Value, NEW refs \in SUBSET RefFile
    PROVE  Good(Initial(v, refs)) /\ Initial(v, refs) # None
<1>1. <<v>> \in Seq(Value) /\ DOMAIN <<v>> = {1}
  OBVIOUS
<1>2. Initial(v, refs) \in Secret
  BY <1>1 DEF Initial, Secret
<1> QED
  BY <1>1, <1>2, ConstantsAssumption DEF Initial, Good

LEMMA AddVersionGood ==
    ASSUME NEW sf \in Secret, NEW v \in Value
    PROVE  /\ Good(AddVersion(sf, v)) /\ AddVersion(sf, v) \in Secret
           /\ Extends(AddVersion(sf, v), sf)
<1> DEFINE new == AddVersion(sf, v)
<1>1. sf.versions \in Seq(Value)
  BY DEF Secret
<1>2. /\ Append(sf.versions, v) \in Seq(Value) /\ Len(sf.versions) \in Nat
      /\ DOMAIN sf.versions = 1 .. Len(sf.versions)
      /\ DOMAIN Append(sf.versions, v) = 1 .. Len(sf.versions) + 1
      /\ \A i \in 1 .. Len(sf.versions) : Append(sf.versions, v)[i] = sf.versions[i]
  BY <1>1
<1>3. /\ new \in Secret /\ new.versions = Append(sf.versions, v)
      /\ new.latest = Len(sf.versions) + 1
  <2> DEFINE app == Append(sf.versions, v)
             len == Len(sf.versions)
  <2>1. new = [sf EXCEPT !.versions = app, !.latest = len + 1]
    BY DEF AddVersion
  <2>2. app \in Seq(Value) /\ len + 1 \in Nat
    BY <1>2
  <2> HIDE DEF app, len
  <2>3. /\ [sf EXCEPT !.versions = app, !.latest = len + 1] \in Secret
        /\ [sf EXCEPT !.versions = app, !.latest = len + 1].versions = app
        /\ [sf EXCEPT !.versions = app, !.latest = len + 1].latest = len + 1
    BY <2>2 DEF Secret
  <2> QED
    BY <2>1, <2>3 DEF app, len
<1>4. new.latest \in DOMAIN new.versions
  BY <1>2, <1>3
<1>5. \A i \in DOMAIN sf.versions : i \in DOMAIN new.versions /\ new.versions[i] = sf.versions[i]
  BY <1>2, <1>3
<1>6. new # None
  BY <1>3, ConstantsAssumption
<1> HIDE DEF new
<1> QED
  BY <1>3, <1>4, <1>5, <1>6 DEF Good, Extends, new

LEMMA ExtendsRefl == ASSUME NEW sf PROVE Extends(sf, sf)
BY DEF Extends

LEMMA ExtendsTrans ==
    ASSUME NEW a, NEW b, NEW c, Extends(a, b), Extends(b, c) PROVE Extends(a, c)
BY DEF Extends

LEMMA CurrentValue == ASSUME NEW sf \in Secret, Good(sf) PROVE LatestValue(sf) \in Value
BY ConstantsAssumption DEF Good, Secret, LatestValue

LEMMA ValuesTyped == ASSUME NEW sf, Good(sf) PROVE Values(sf) \subseteq Value
BY DEF Good, Secret, Values

LEMMA NextValueTyped == ASSUME CanEnter PROVE NextValue \in Value
BY DEF CanEnter, NextValue

-----------------------------------------------------------------------------
(***************************************************************************)
(* Commands and the migration.                                             *)
(***************************************************************************)
\* What the users ask for has the arguments it needs.
JobOK(j) ==
    /\ j \in Job
    /\ j.op \in {"set", "rotate"} => j.value \in Value
    /\ j.op = "rename" => j.arg \in Name
    /\ j.op \in {"ref", "unref"} => j.arg \in RefFile
    /\ j.op = "rollback" => j.arg \in Nat

LEMMA AskedOK == ASSUME NEW o \in Commands, NEW j \in Asked(o) PROVE JobOK(j) /\ j.op = o
<1>1. CASE o \in {"set", "rotate"}
  BY <1>1, NextValueTyped DEF Asked, JobOK, Job, AllOps, Commands
<1>2. CASE o = "rollback"
  <2>1. Cardinality(Value) \in Nat
    BY ConstantsAssumption, FS_CardinalityType
  <2>2. \A i \in 1 .. Cardinality(Value) : i \in Nat
    BY <2>1
  <2> QED
    BY <1>2, <2>2 DEF Asked, JobOK, Job, AllOps, Commands
<1>3. CASE o \in {"ref", "unref"}
  BY <1>3 DEF Asked, JobOK, Job, AllOps, Commands
<1>4. CASE o = "delete"
  BY <1>4 DEF Asked, JobOK, Job, AllOps, Commands
<1>5. CASE o = "rename"
  BY <1>5 DEF Asked, JobOK, Job, AllOps, Commands
<1> QED
  BY <1>1, <1>2, <1>3, <1>4, <1>5 DEF Commands

\* The secret a command saves has every version that was there under its name, unless it
\* deletes it.
LEMMA SavedGood ==
    ASSUME NEW files \in Files, \A n \in Name : Good(files[n]), NEW j, JobOK(j), j.op \in Commands,
           Accepts(files, j)
    PROVE  /\ Target(j) \in Name /\ Good(Saved(files, j))
           /\ j.op # "delete" => Extends(Saved(files, j), files[Target(j)])
<1> DEFINE sf == files[j.name]
<1>0. j.name \in Name /\ sf \in Secret \cup {None} /\ Good(sf)
  BY DEF JobOK, Job, Files
<1>1. CASE j.op = "set"
  <2>1. j.value \in Value /\ Target(j) = j.name /\ Saved(files, j) = SetSecret(sf, j.value)
    BY <1>1 DEF JobOK, Target, Saved
  <2>2. CASE sf = None
    BY <1>0, <2>1, <2>2, InitialGood DEF SetSecret, Extends
  <2>3. CASE sf # None
    BY <1>0, <2>1, <2>3, AddVersionGood DEF SetSecret
  <2> QED
    BY <2>2, <2>3
<1>2. CASE j.op = "rotate"
  <2>1. /\ j.value \in Value /\ Target(j) = j.name /\ Saved(files, j) = AddVersion(sf, j.value)
        /\ sf # None
    BY <1>2 DEF JobOK, Target, Saved, RotateSecret, Accepts
  <2> QED
    BY <1>0, <2>1, AddVersionGood
<1>3. CASE j.op = "rollback"
  <2>1. /\ j.arg \in Nat /\ Target(j) = j.name /\ sf \in Secret /\ j.arg \in DOMAIN sf.versions
        /\ Saved(files, j) = [sf EXCEPT !.latest = j.arg]
    BY <1>0, <1>3 DEF JobOK, Target, Saved, RollbackSecret, Accepts
  <2>2. Saved(files, j) \in Secret /\ Saved(files, j).versions = sf.versions /\ Saved(files, j).latest = j.arg
    BY <2>1 DEF Secret
  <2> QED
    BY <1>0, <2>1, <2>2, ConstantsAssumption DEF Good, Extends
<1>4. CASE j.op \in {"ref", "unref"}
  <2>1. /\ j.arg \in RefFile /\ Target(j) = j.name /\ sf \in Secret
        /\ Saved(files, j) \in {[sf EXCEPT !.refs = @ \cup {j.arg}], [sf EXCEPT !.refs = @ \ {j.arg}]}
    BY <1>0, <1>4 DEF JobOK, Target, Saved, RefSecret, UnrefSecret, Accepts
  <2>2. Saved(files, j) \in Secret /\ Saved(files, j).versions = sf.versions /\ Saved(files, j).latest = sf.latest
    BY <2>1 DEF Secret
  <2> QED
    BY <1>0, <2>1, <2>2, ConstantsAssumption DEF Good, Extends
<1>5. CASE j.op = "delete"
  BY <1>0, <1>5 DEF Target, Saved, DeleteSecret, Good
<1>6. CASE j.op = "rename"
  BY <1>0, <1>6 DEF JobOK, Target, Saved, Accepts, Extends
<1> QED
  BY <1>1, <1>2, <1>3, <1>4, <1>5, <1>6 DEF Commands

LEMMA LoadTyped == ASSUME NEW s \in Index PROVE LoadState(s) \in [Name -> IndexEntry \cup {None}]
<1>1. ASSUME NEW n \in Name PROVE IF IsInline(s[n]) THEN TRUE ELSE s[n] \in IndexEntry \cup {None}
  BY DEF Index, IsInline, LegacyEntry
<1> QED
  BY <1>1 DEF LoadState, IndexEntry

LEMMA ReindexedTyped ==
    ASSUME NEW files \in Files, \A n \in Name : Good(files[n]), NEW j, JobOK(j), j.op \in Commands,
           Accepts(files, j), NEW s \in [Name -> IndexEntry \cup {None}]
    PROVE  Reindexed(s, files, j) \in [Name -> IndexEntry \cup {None}]
<1>0. j.name \in Name
  BY DEF JobOK, Job
<1>1. CASE j.op \in {"set", "rotate"}
  <2>1. Saved(files, j) \in Secret
    <3>1. j.value \in Value /\ files[j.name] \in Secret \cup {None} /\ Initial(j.value, {}) \in Secret
      BY <1>0, <1>1, InitialGood DEF JobOK, Files, Good
    <3> QED
      BY <3>1, <1>1, AddVersionGood DEF Saved, SetSecret, RotateSecret, Accepts
  <2>2. Indexed(Saved(files, j)) \in IndexEntry
    BY <2>1 DEF Indexed, IndexEntry, Secret
  <2> QED
    BY <1>0, <1>1, <2>2 DEF Reindexed
<1>2. CASE j.op = "rollback"
  <2>1. j.arg \in Nat
    BY <1>2 DEF JobOK
  <2>2. s[j.name] # None => [s[j.name] EXCEPT !.latest = j.arg] \in IndexEntry
    BY <1>0, <2>1 DEF IndexEntry
  <2> QED
    BY <1>0, <1>2, <2>2 DEF Reindexed
<1>3. CASE j.op = "delete"
  BY <1>0, <1>3 DEF Reindexed
<1>4. CASE j.op = "rename"
  BY <1>0, <1>4 DEF Reindexed, JobOK
<1>5. CASE j.op \in {"ref", "unref"}
  BY <1>5 DEF Reindexed
<1> QED
  BY <1>1, <1>2, <1>3, <1>4, <1>5 DEF Commands

LEMMA IndexWiden == [Name -> IndexEntry \cup {None}] \subseteq Index
BY DEF Index

\* The migration writes secrets, and only where there is none.
LEMMA MigratedFileGood ==
    ASSUME NEW t, GoodTree(t), NEW n \in Name
    PROVE  /\ Good(MigratedFile(t, n)) /\ Extends(MigratedFile(t, n), t.file[n])
<1>0. Good(t.file[n]) /\ t.state[n] \in IndexEntry \cup LegacyEntry \cup {None}
  BY TreeParts DEF Index
<1>1. CASE n \in Unwritten(t)
  <2>1. t.state[n] \in LegacyEntry /\ t.file[n] = None
    BY <1>0, <1>1 DEF Unwritten, IsInline, IndexEntry
  <2>2. t.state[n].value \in Value /\ t.state[n].refs \in SUBSET RefFile
    BY <2>1 DEF LegacyEntry
  <2> QED
    BY <1>1, <2>1, <2>2, InitialGood DEF MigratedFile, Extends
<1>2. CASE n \notin Unwritten(t)
  BY <1>0, <1>2, ExtendsRefl DEF MigratedFile
<1> QED
  BY <1>1, <1>2

LEMMA MigratedStateTyped == ASSUME NEW t PROVE MigratedState(t) \in Index
BY DEF MigratedState, Index, IndexEntry

LEMMA MigrateGood == ASSUME NEW t, GoodTree(t) PROVE GoodTree(MigrateIfNeeded(t))
<1>1. [n \in Name |-> MigratedFile(t, n)] \in Files
  BY MigratedFileGood DEF Files, Good
<1> QED
  BY <1>1, MigratedFileGood, MigratedStateTyped, TreeOfParts DEF MigrateIfNeeded

LEMMA AfterPeerGood ==
    ASSUME NEW t, GoodTree(t), NEW j, JobOK(j), j.op \in Commands, Accepts(t.file, j)
    PROVE  GoodTree(AfterPeer(t, j))
<1> DEFINE new == [t.file EXCEPT ![Target(j)] = Saved(t.file, j)]
           files == IF j.op = "rename" THEN [new EXCEPT ![j.name] = None] ELSE new
           s == Reindexed(LoadState(t.state), t.file, j)
<1>1. t.file \in Files /\ \A n \in Name : Good(t.file[n])
  BY TreeParts
<1>2. Target(j) \in Name /\ Good(Saved(t.file, j)) /\ j.name \in Name /\ Good(None)
  BY <1>1, SavedGood DEF JobOK, Job, Good
<1>3. new \in Files /\ \A n \in Name : Good(new[n])
  BY <1>1, <1>2 DEF Files, Good
<1>4. files \in Files /\ \A n \in Name : Good(files[n])
  BY <1>2, <1>3 DEF Files, Good
<1>5. s \in Index
  BY <1>1, TreeParts, LoadTyped, ReindexedTyped, IndexWiden
<1> QED
  BY <1>4, <1>5, TreeOfParts DEF AfterPeer

-----------------------------------------------------------------------------
(***************************************************************************)
(* Every step is, for the clone, one of these.                             *)
(***************************************************************************)
\* A process writes files of the vault directory: what it does not count as replaced, it
\* extends.
WritesWork ==
    /\ UNCHANGED git
    /\ GoodTree(work')
    /\ replaced \subseteq replaced' /\ replaced' \subseteq Name
    /\ \E written \in SUBSET Path :
        /\ dirty' = dirty \cup written
        /\ \A n \in Name \ written : work'.file[n] = work.file[n]
        /\ \A n \in Name \cap written : n \in replaced' \/ Extends(work'.file[n], work.file[n])

PeerWrites ==
    /\ GoodTree(remote')
    /\ theirs \subseteq theirs' /\ theirs' \subseteq Path
    /\ \A n \in Name \ theirs' : remote'.file[n] = remote.file[n]
    /\ behind' = TRUE
    /\ UNCHANGED <<head, mergeHead, touched, fetched, ahead, work, dirty, replaced>>

NoGit == UNCHANGED <<git, work, dirty, replaced>>

NextGit == PullForward \/ PullMerge \/ PullConflict \/ CommitAll \/ PushOk \/ WritesWork
              \/ PeerWrites \/ NoGit

GitOK ==
    /\ GoodTree(remote) /\ GoodTree(head) /\ GoodTree(work)
    /\ mergeHead # None => GoodTree(mergeHead)
    /\ touched \subseteq Path /\ dirty \subseteq Path
    /\ theirs \subseteq Path /\ fetched \subseteq Path
    /\ behind \in BOOLEAN /\ ahead \in BOOLEAN
    /\ replaced \subseteq Name

LEMMA MergedTreeGood ==
    ASSUME GitOK, NEW t, GoodTree(t), NEW p PROVE GoodTree(MergedTree(t, p))
<1> DEFINE files == [n \in Name |-> IF TakesTheirs(p, n) THEN t.file[n] ELSE head.file[n]]
           s == IF StateIsTheirs(p) THEN t.state ELSE head.state
<1>1. /\ t.state \in Index /\ head.state \in Index
      /\ \A n \in Name : Good(t.file[n]) /\ Good(head.file[n])
  BY TreeParts DEF GitOK
<1>2. files \in Files /\ \A n \in Name : Good(files[n])
  BY <1>1 DEF Files, Good
<1>3. s \in Index
  BY <1>1
<1> QED
  BY <1>2, <1>3, TreeOfParts DEF MergedTree

LEMMA CheckoutGood == ASSUME GitOK, NEW t, GoodTree(t) PROVE GoodTree(Checkout(t))
<1> DEFINE files == [n \in Name |-> IF n \in dirty THEN work.file[n] ELSE t.file[n]]
           s == IF StatePath \in dirty THEN work.state ELSE t.state
<1>1. /\ t.state \in Index /\ work.state \in Index
      /\ \A n \in Name : Good(t.file[n]) /\ Good(work.file[n])
  BY TreeParts DEF GitOK
<1>2. files \in Files /\ \A n \in Name : Good(files[n])
  BY <1>1 DEF Files, Good
<1>3. s \in Index
  BY <1>1
<1> QED
  BY <1>2, <1>3, TreeOfParts DEF Checkout

LEMMA KeptTyped == ASSUME GitOK, NEW p PROVE Kept(p) \subseteq Path
BY DEF GitOK, Kept

LEMMA GitTypes == ASSUME GitOK, NextGit PROVE GitOK'
<1>1. CASE PullForward
  BY <1>1, CheckoutGood DEF PullForward, GitOK
<1>2. CASE PullMerge
  <2>1. GoodTree(head')
    BY <1>2, MergedTreeGood DEF PullMerge, GitOK
  <2>2. GoodTree(work')
    BY <1>2, <2>1, CheckoutGood DEF PullMerge
  <2>3. touched' \subseteq Path
    BY <1>2, KeptTyped DEF PullMerge
  <2> QED
    BY <1>2, <2>1, <2>2, <2>3 DEF PullMerge, GitOK
<1>3. CASE PullConflict
  <2>1. GoodTree(MergedTree(remote, theirs))
    BY MergedTreeGood DEF GitOK
  <2>2. GoodTree(work')
    BY <1>3, <2>1, CheckoutGood DEF PullConflict
  <2> QED
    BY <1>3, <2>2 DEF PullConflict, GitOK
<1>4. CASE CommitAll
  <2>1. replaced' \subseteq Name
    BY <1>4 DEF CommitAll, GitOK, Overridden
  <2>2. touched' \subseteq Path
    BY <1>4, KeptTyped DEF CommitAll, GitOK
  <2>3. CASE Merging
    <3>1. ahead' \in BOOLEAN /\ mergeHead' = None /\ fetched' = {}
      BY <1>4, <2>3 DEF CommitAll
    <3> QED
      BY <1>4, <2>1, <2>2, <3>1 DEF CommitAll, GitOK
  <2>4. CASE ~Merging
    <3>1. ahead' = (ahead \/ dirty # {}) /\ UNCHANGED <<mergeHead, fetched>>
      BY <1>4, <2>4 DEF CommitAll
    <3>2. ahead' \in BOOLEAN
      BY <3>1
    <3> QED
      BY <1>4, <2>1, <2>2, <3>1, <3>2 DEF CommitAll, GitOK
  <2> QED
    BY <2>3, <2>4
<1>5. CASE PushOk
  BY <1>5 DEF PushOk, GitOK
<1>6. CASE WritesWork
  BY <1>6 DEF WritesWork, git, GitOK
<1>7. CASE PeerWrites
  BY <1>7 DEF PeerWrites, GitOK
<1>8. CASE NoGit
  BY <1>8 DEF NoGit, git, GitOK
<1> QED
  BY <1>1, <1>2, <1>3, <1>4, <1>5, <1>6, <1>7, <1>8 DEF NextGit

-----------------------------------------------------------------------------
(***************************************************************************)
(* What the clone knows of versions.  Here stands what the vault directory *)
(* holds but for uncommitted writes.                                       *)
(***************************************************************************)
Here(n) == IF Merging THEN MergedTree(mergeHead, fetched).file[n] ELSE head.file[n]

Knows ==
    /\ ~behind => theirs = {}
    /\ ~Merging => \A n \in Name \ (theirs \cup replaced) : Extends(head.file[n], remote.file[n])
    /\ Merging => \A n \in Name \ theirs :
                     /\ mergeHead.file[n] = remote.file[n]
                     /\ n \notin fetched \cup replaced => Extends(head.file[n], mergeHead.file[n])
    /\ \A n \in Name \ dirty : work.file[n] = Here(n)
    /\ \A n \in (Name \cap dirty) \ replaced : Extends(work.file[n], Here(n))

\* A path that a merge leaves as it is here, with versions the other side lacks or has
\* changed, is in conflict.
LEMMA MergeExtends ==
    ASSUME NEW t, NEW p, NEW n \in Name, n \notin Overridden(t, p),
           n \notin p => Extends(head.file[n], t.file[n])
    PROVE  Extends(MergedTree(t, p).file[n], t.file[n])
<1>1. MergedTree(t, p).file[n] = IF TakesTheirs(p, n) THEN t.file[n] ELSE head.file[n]
  BY DEF MergedTree
<1>2. CASE TakesTheirs(p, n)
  BY <1>1, <1>2, ExtendsRefl
<1>3. CASE ~TakesTheirs(p, n) /\ n \in p
  <2>1. n \in touched /\ head.file[n] # None
    BY <1>3 DEF TakesTheirs
  <2>2. t.file[n] = None
    BY <1>3, <2>1 DEF Overridden, Conflicts
  <2> QED
    BY <2>2 DEF Extends
<1>4. CASE n \notin p
  BY <1>1, <1>4 DEF TakesTheirs
<1> QED
  BY <1>2, <1>3, <1>4

LEMMA CheckoutFile ==
    ASSUME NEW t, NEW n \in Name
    PROVE  Checkout(t).file[n] = IF n \in dirty THEN work.file[n] ELSE t.file[n]
BY DEF Checkout

LEMMA KnowsStep == ASSUME GitOK, Knows, NextGit PROVE Knows'
<1>1. CASE PullForward
  <2>0. /\ ~Merging /\ dirty \cap theirs = {} /\ head' = remote /\ work' = Checkout(remote)
        /\ theirs' = {} /\ behind' = FALSE /\ UNCHANGED <<remote, mergeHead, dirty, replaced>>
    BY <1>1 DEF PullForward, PullAllowed
  <2>1. ASSUME NEW n \in Name PROVE Here(n) = head.file[n] /\ Here(n)' = remote.file[n]
    BY <2>0 DEF Here, Merging
  <2>2. ASSUME NEW n \in Name \ dirty PROVE work'.file[n] = remote.file[n]
    BY <2>0, CheckoutFile
  <2>3. ASSUME NEW n \in (Name \cap dirty) \ replaced PROVE Extends(work'.file[n], remote.file[n])
    <3>1. work'.file[n] = work.file[n] /\ n \notin theirs
      BY <2>0, CheckoutFile
    <3>2. Extends(work.file[n], head.file[n]) /\ Extends(head.file[n], remote.file[n])
      BY <2>0, <2>1, <3>1 DEF Knows
    <3> QED
      BY <3>1, <3>2, ExtendsTrans
  <2> QED
    BY <2>0, <2>1, <2>2, <2>3, ExtendsRefl DEF Knows, Merging
<1>2. CASE PullMerge
  <2>0. /\ ~Merging /\ dirty \cap theirs = {} /\ head' = MergedTree(remote, theirs)
        /\ work' = Checkout(head') /\ Conflicts(remote, theirs) = {}
        /\ theirs' = {} /\ behind' = FALSE /\ UNCHANGED <<remote, mergeHead, dirty, replaced>>
    BY <1>2 DEF PullMerge, PullAllowed
  <2>1. ASSUME NEW n \in Name PROVE Here(n) = head.file[n] /\ Here(n)' = head'.file[n]
    BY <2>0 DEF Here, Merging
  <2>2. ASSUME NEW n \in Name \ dirty PROVE work'.file[n] = head'.file[n]
    BY <2>0, CheckoutFile
  <2>3. ASSUME NEW n \in (Name \cap dirty) \ replaced PROVE Extends(work'.file[n], head'.file[n])
    <3>1. work'.file[n] = work.file[n] /\ n \notin theirs
      BY <2>0, CheckoutFile
    <3>2. head'.file[n] = head.file[n]
      BY <2>0, <3>1 DEF MergedTree, TakesTheirs
    <3> QED
      BY <2>0, <2>1, <3>1, <3>2 DEF Knows
  <2>4. ASSUME NEW n \in Name \ replaced PROVE Extends(head'.file[n], remote.file[n])
    <3>1. n \notin Overridden(remote, theirs)
      BY <2>0 DEF Overridden
    <3>2. n \notin theirs => Extends(head.file[n], remote.file[n])
      BY <2>0 DEF Knows
    <3> QED
      BY <2>0, <3>1, <3>2, MergeExtends
  <2> QED
    BY <2>0, <2>1, <2>2, <2>3, <2>4 DEF Knows, Merging
<1>3. CASE PullConflict
  <2>0. /\ ~Merging /\ dirty \cap theirs = {} /\ mergeHead' = remote /\ fetched' = theirs
        /\ work' = Checkout(MergedTree(remote, theirs))
        /\ theirs' = {} /\ behind' = FALSE
        /\ UNCHANGED <<remote, head, touched, dirty, replaced>>
    BY <1>3 DEF PullConflict, PullAllowed
  <2>1. Merging'
    BY <2>0, ConstantsAssumption DEF Merging, GitOK, GoodTree
  <2>2. MergedTree(mergeHead, fetched)' = MergedTree(remote, theirs)
    BY <2>0 DEF MergedTree, TakesTheirs, StateIsTheirs
  <2>3. ASSUME NEW n \in Name
        PROVE Here(n) = head.file[n] /\ Here(n)' = MergedTree(remote, theirs).file[n]
    BY <2>0, <2>1, <2>2 DEF Here
  <2>4. ASSUME NEW n \in Name \ dirty PROVE work'.file[n] = MergedTree(remote, theirs).file[n]
    BY <2>0, CheckoutFile
  <2>5. ASSUME NEW n \in (Name \cap dirty) \ replaced
        PROVE Extends(work'.file[n], MergedTree(remote, theirs).file[n])
    <3>1. work'.file[n] = work.file[n] /\ n \notin theirs
      BY <2>0, CheckoutFile
    <3>2. MergedTree(remote, theirs).file[n] = head.file[n]
      BY <3>1 DEF MergedTree, TakesTheirs
    <3> QED
      BY <2>0, <2>3, <3>1, <3>2 DEF Knows
  <2>6. \A n \in Name \ (theirs \cup replaced) : Extends(head.file[n], remote.file[n])
    BY <2>0 DEF Knows
  <2> QED
    BY <2>0, <2>1, <2>3, <2>4, <2>5, <2>6 DEF Knows
<1>4. CASE CommitAll
  <2>0. /\ head' = work /\ dirty' = {} /\ UNCHANGED <<remote, work, theirs, behind>>
        /\ mergeHead' = None /\ ~Merging'
    BY <1>4 DEF CommitAll, Merging
  <2>1. \A n \in Name : Here(n)' = work'.file[n]
    BY <2>0 DEF Here
  <2>2. ASSUME NEW n \in Name \ (theirs \cup replaced') PROVE Extends(work.file[n], remote.file[n])
    <3>1. n \notin replaced /\ (Merging => n \notin Overridden(mergeHead, fetched))
      BY <1>4 DEF CommitAll
    <3>2. Extends(work.file[n], Here(n))
      BY <3>1, ExtendsRefl DEF Knows
    <3>3. Extends(Here(n), remote.file[n])
      <4>1. CASE Merging
        <5>1. mergeHead.file[n] = remote.file[n]
          BY <4>1 DEF Knows
        <5>2. n \notin fetched => Extends(head.file[n], mergeHead.file[n])
          BY <3>1, <4>1 DEF Knows
        <5> QED
          BY <3>1, <4>1, <5>1, <5>2, MergeExtends DEF Here
      <4>2. CASE ~Merging
        BY <3>1, <4>2 DEF Knows, Here
      <4> QED
        BY <4>1, <4>2
    <3> QED
      BY <3>2, <3>3, ExtendsTrans
  <2> QED
    BY <2>0, <2>1, <2>2 DEF Knows
<1>5. CASE PushOk
  <2>0. /\ ~Merging /\ remote' = head /\ theirs = {} /\ replaced' = replaced \cap dirty
        /\ UNCHANGED <<head, work, mergeHead, dirty, theirs, fetched, behind>>
    BY <1>5 DEF PushOk, Knows
  <2>1. \A n \in Name : Here(n)' = Here(n)
    BY <2>0 DEF Here, Merging
  <2> QED
    BY <2>0, <2>1, ExtendsRefl DEF Knows, Merging
<1>6. CASE WritesWork
  <2>0. UNCHANGED git /\ replaced \subseteq replaced'
    BY <1>6 DEF WritesWork
  <2>1. PICK written \in SUBSET Path :
          /\ dirty' = dirty \cup written
          /\ \A n \in Name \ written : work'.file[n] = work.file[n]
          /\ \A n \in Name \cap written : n \in replaced' \/ Extends(work'.file[n], work.file[n])
    BY <1>6 DEF WritesWork
  <2>2. \A n \in Name : Here(n)' = Here(n)
    BY <2>0 DEF Here, Merging, MergedTree, TakesTheirs, git
  <2>3. ASSUME NEW n \in Name \ dirty' PROVE work'.file[n] = Here(n)'
    BY <2>1, <2>2 DEF Knows
  <2>4. ASSUME NEW n \in (Name \cap dirty') \ replaced' PROVE Extends(work'.file[n], Here(n)')
    <3>1. Extends(work'.file[n], work.file[n])
      BY <2>1, ExtendsRefl
    <3>2. Extends(work.file[n], Here(n))
      BY <2>0, ExtendsRefl DEF Knows
    <3> QED
      BY <2>2, <3>1, <3>2, ExtendsTrans
  <2> QED
    BY <2>0, <2>3, <2>4 DEF Knows, Merging, git
<1>7. CASE PeerWrites
  <2>1. \A n \in Name : Here(n)' = Here(n)
    BY <1>7 DEF PeerWrites, Here, Merging, MergedTree, TakesTheirs
  <2> QED
    BY <1>7, <2>1 DEF PeerWrites, Knows, Merging
<1>8. CASE NoGit
  <2>1. \A n \in Name : Here(n)' = Here(n)
    BY <1>8 DEF NoGit, git, Here, Merging, MergedTree, TakesTheirs
  <2> QED
    BY <1>8, <2>1 DEF NoGit, git, Knows, Merging
<1> QED
  BY <1>1, <1>2, <1>3, <1>4, <1>5, <1>6, <1>7, <1>8 DEF NextGit

-----------------------------------------------------------------------------
(***************************************************************************)
(* Processes.                                                              *)
(***************************************************************************)
CommandSteps == {"pull", "migrate", "migrate_commit", "migrate_push", "apply", "drop_old", "save",
                 "commit", "push", "retry_pull", "retry_push", "refs"}

ProcOK ==
    /\ pc \in Steps \cup {"idle"} /\ JobOK(job)
    /\ pc \in CommandSteps => job.op \in Commands
    /\ mem \in Index /\ todo \subseteq RefFile

RestOK ==
    /\ erased \subseteq Value /\ envFile \in [RefFile -> Value \cup {None}] /\ used \subseteq Value

BoundsOK == jobs \in 0 .. MaxJobs /\ peers \in 0 .. MaxPeer /\ crashes \in 0 .. MaxCrashes

LEMMA WriteFileWrites ==
    ASSUME GitOK, NEW n \in Name, NEW sf, Good(sf), WriteFile(n, sf),
           replaced \subseteq replaced', replaced' \subseteq Name,
           n \in replaced' \/ Extends(sf, work.file[n])
    PROVE  WritesWork
<1> DEFINE files == [work.file EXCEPT ![n] = sf]
<1>1. work.file \in Files /\ work.state \in Index /\ \A x \in Name : Good(work.file[x])
  BY TreeParts DEF GitOK
<1>2. files \in Files /\ \A x \in Name : Good(files[x])
  BY <1>1 DEF Files, Good
<1>3. work' = [file |-> files, state |-> work.state]
  <2>1. work = [file |-> work.file, state |-> work.state]
    BY TreeParts DEF GitOK
  <2>2. work' = [work EXCEPT !.file[n] = sf]
    BY DEF WriteFile
  <2> QED
    BY <2>1, <2>2
<1>4. GoodTree(work') /\ work'.file = files
  BY <1>1, <1>2, <1>3, TreeOfParts
<1>5. \A x \in Name \ {n} : work'.file[x] = work.file[x]
  BY <1>1, <1>4 DEF Files
<1>6. work'.file[n] = sf
  BY <1>1, <1>4 DEF Files
<1>7. \A x \in Name \cap {n} : x \in replaced' \/ Extends(work'.file[x], work.file[x])
  BY <1>6
<1>8. {n} \in SUBSET Path /\ dirty' = dirty \cup {n} /\ UNCHANGED git
  BY DEF WriteFile, Path
<1> HIDE DEF files
<1> QED
  BY <1>4, <1>5, <1>7, <1>8 DEF WritesWork

LEMMA WriteStateWrites ==
    ASSUME GitOK, NEW s \in Index, WriteState(s), UNCHANGED replaced
    PROVE  WritesWork
<1>1. work.file \in Files /\ (\A x \in Name : Good(work.file[x]))
      /\ work = [file |-> work.file, state |-> work.state]
  BY TreeParts DEF GitOK
<1>2. work' = [file |-> work.file, state |-> s]
  <2>1. work' = [work EXCEPT !.state = s]
    BY DEF WriteState
  <2> QED
    BY <1>1, <2>1
<1>3. GoodTree(work') /\ work'.file = work.file
  BY <1>1, <1>2, TreeOfParts
<1>4. Name \cap {StatePath} = {}
  BY ConstantsAssumption
<1> QED
  BY <1>3, <1>4 DEF WriteState, WritesWork, GitOK, Path

LEMMA PullKinds == ASSUME PullOk \/ PullConflict \/ PullFails PROVE NextGit
BY DEF PullOk, PullCurrent, PullFails, NextGit, NoGit

LEMMA PushKinds == ASSUME PushOk \/ PushFails PROVE NextGit
BY DEF PushFails, NextGit, NoGit

\* The files a command saves in its own tree.
LEMMA ApplyWrites == ASSUME GitOK, ProcOK, Apply PROVE WritesWork
<1>1. work.file \in Files /\ \A n \in Name : Good(work.file[n])
  BY TreeParts DEF GitOK
<1>2. JobOK(job) /\ job.op \in Commands /\ Accepts(work.file, job) /\ job.name \in Name
  BY DEF Apply, ProcOK, CommandSteps, JobOK, Job
<1>3. /\ Target(job) \in Name /\ Good(Saved(work.file, job))
      /\ job.op # "delete" => Extends(Saved(work.file, job), work.file[Target(job)])
  BY <1>1, <1>2, SavedGood
<1>4. WriteFile(Target(job), Saved(work.file, job))
  BY DEF Apply
<1>5. /\ replaced' = IF job.op = "delete" THEN replaced \cup {job.name} ELSE replaced
      /\ job.op = "delete" => Target(job) = job.name
  BY DEF Apply, Target
<1> QED
  BY <1>2, <1>3, <1>4, <1>5, WriteFileWrites DEF GitOK

LEMMA CreateWrites == ASSUME GitOK, WebCreate PROVE WritesWork
<1>1. NextValue \in Value
  BY NextValueTyped DEF WebCreate, WebMayRun
<1>2. PICK n \in Name :
        /\ work' = [file |-> [work.file EXCEPT ![n] = Initial(NextValue, {})],
                    state |-> [LoadState(work.state) EXCEPT ![n] = [latest |-> 1, count |-> 1]]]
        /\ dirty' = dirty \cup {n, StatePath}
        /\ replaced' = replaced \cup {n}
  BY DEF WebCreate
<1> DEFINE files == [work.file EXCEPT ![n] = Initial(NextValue, {})]
           s == [LoadState(work.state) EXCEPT ![n] = [latest |-> 1, count |-> 1]]
<1>3. work.file \in Files /\ work.state \in Index /\ \A x \in Name : Good(work.file[x])
  BY TreeParts DEF GitOK
<1>4. Good(Initial(NextValue, {}))
  BY <1>1, InitialGood
<1>5. files \in Files /\ \A x \in Name : Good(files[x])
  BY <1>3, <1>4 DEF Files, Good
<1>6. s \in Index
  <2>1. LoadState(work.state) \in [Name -> IndexEntry \cup {None}]
    BY <1>3, LoadTyped
  <2>2. [latest |-> 1, count |-> 1] \in IndexEntry
    BY DEF IndexEntry
  <2> QED
    BY <2>1, <2>2, IndexWiden
<1>7. GoodTree(work') /\ work'.file = files
  BY <1>2, <1>5, <1>6, TreeOfParts
<1>8. \A x \in Name \ {n, StatePath} : work'.file[x] = work.file[x]
  BY <1>3, <1>7 DEF Files
<1>9. Name \cap {n, StatePath} = {n}
  BY ConstantsAssumption
<1>10. UNCHANGED git
  BY DEF WebCreate
<1> QED
  BY <1>2, <1>7, <1>8, <1>9, <1>10 DEF WritesWork, GitOK, Path

LEMMA PeerIsWrites == ASSUME GitOK, Peer PROVE PeerWrites
<1>1. PICK o \in PeerOps : \E j \in Asked(o) :
        LET start == MigrateIfNeeded(remote)
            tree == AfterPeer(start, j)
        IN  /\ Accepts(start.file, j)
            /\ remote' = tree
            /\ theirs' = theirs \cup {n \in Name : tree.file[n] # remote.file[n]} \cup {Target(j)}
                            \cup (IF tree.state # remote.state \/ Stamps(start.state, j)
                                  THEN {StatePath} ELSE {})
  BY DEF Peer
<1> DEFINE start == MigrateIfNeeded(remote)
<1>2. PICK j \in Asked(o) :
        /\ Accepts(start.file, j)
        /\ remote' = AfterPeer(start, j)
        /\ theirs' = theirs \cup {n \in Name : AfterPeer(start, j).file[n] # remote.file[n]}
                        \cup {Target(j)}
                        \cup (IF AfterPeer(start, j).state # remote.state \/ Stamps(start.state, j)
                              THEN {StatePath} ELSE {})
  BY <1>1
<1>3. JobOK(j) /\ j.op \in Commands
  BY AskedOK, ConstantsAssumption
<1>4. GoodTree(start)
  BY MigrateGood DEF GitOK
<1> HIDE DEF start
<1>5. GoodTree(remote')
  BY <1>2, <1>3, <1>4, AfterPeerGood
<1>6. Target(j) \in Name
  BY <1>2, <1>3, <1>4, TreeParts, SavedGood
<1>7. theirs' \subseteq Path /\ theirs \subseteq theirs'
  BY <1>2, <1>6 DEF GitOK, Path
<1>8. \A n \in Name \ theirs' : remote'.file[n] = remote.file[n]
  BY <1>2
<1>9. behind' = TRUE /\ UNCHANGED <<head, mergeHead, touched, fetched, ahead, work, dirty, replaced>>
  BY DEF Peer
<1> QED
  BY <1>5, <1>7, <1>8, <1>9 DEF PeerWrites

LEMMA NextIsNextGit == ASSUME GitOK, ProcOK, Next PROVE NextGit
<1>a. /\ work.file \in Files /\ work.state \in Index
      /\ \A n \in Name : Good(work.file[n])
  BY TreeParts DEF GitOK
<1>1. CASE Pull \/ RetryPull
  BY <1>1, PullKinds DEF Pull, RetryPull
<1>2. CASE MigrateFile
  <2>1. PICK n \in Unwritten(work) : WriteFile(n, MigratedFile(work, n))
    BY <1>2 DEF MigrateFile
  <2>2. n \in Name /\ Good(MigratedFile(work, n)) /\ Extends(MigratedFile(work, n), work.file[n])
    BY MigratedFileGood DEF GitOK, Unwritten
  <2>3. replaced' = replaced /\ replaced \subseteq Name
    BY <1>2 DEF MigrateFile, GitOK
  <2> QED
    BY <2>1, <2>2, <2>3, WriteFileWrites DEF NextGit
<1>3. CASE MigrateState
  BY <1>3, MigratedStateTyped, WriteStateWrites DEF MigrateState, NextGit
<1>4. CASE MigrateCommit \/ Commit \/ SyncCommit
  BY <1>4 DEF MigrateCommit, Commit, SyncCommit, NextGit
<1>5. CASE MigratePush \/ Push \/ RetryPush \/ SyncPush
  BY <1>5, PushKinds DEF MigratePush, Push, RetryPush, SyncPush
<1>6. CASE Apply
  BY <1>6, ApplyWrites DEF NextGit
<1>7. CASE DropOld
  <2>1. job.name \in Name /\ WriteFile(job.name, None) /\ replaced' = replaced \cup {job.name}
    BY <1>7 DEF DropOld, ProcOK, JobOK, Job
  <2>2. Good(None)
    BY DEF Good
  <2>3. replaced \subseteq Name
    BY DEF GitOK
  <2> QED
    BY <2>1, <2>2, <2>3, WriteFileWrites DEF NextGit
<1>8. CASE Save
  <2>1. CASE mem = work.state /\ ~Stamps(work.state, job)
    BY <1>8, <2>1 DEF Save, NextGit, NoGit
  <2>2. CASE ~(mem = work.state /\ ~Stamps(work.state, job))
    BY <1>8, <2>2, WriteStateWrites DEF Save, ProcOK, NextGit
  <2> QED
    BY <2>1, <2>2
<1>9. CASE SyncSave
  BY <1>9, <1>a, LoadTyped, IndexWiden, WriteStateWrites DEF SyncSave, NextGit
<1>10. CASE WebCreate
  BY <1>10, CreateWrites DEF NextGit
<1>11. CASE WebRotate
  <2>1. PICK n \in Name : work.file[n] # None /\ WriteFile(n, AddVersion(work.file[n], NextValue))
    BY <1>11 DEF WebRotate
  <2>2. NextValue \in Value /\ replaced' = replaced /\ replaced \subseteq Name
    BY <1>11, NextValueTyped DEF WebRotate, WebMayRun, GitOK
  <2>3. /\ Good(AddVersion(work.file[n], NextValue))
        /\ Extends(AddVersion(work.file[n], NextValue), work.file[n])
    BY <1>a, <2>1, <2>2, AddVersionGood DEF Good
  <2> QED
    BY <2>1, <2>2, <2>3, WriteFileWrites DEF NextGit
<1>12. CASE Peer
  BY <1>12, PeerIsWrites DEF NextGit
<1>13. CASE Start \/ MigrateNothing \/ ApplyFails \/ WriteEnvFile \/ Finish \/ Crash \/ SyncStart
  BY <1>13 DEF Start, MigrateNothing, ApplyFails, WriteEnvFile, Finish, Crash, SyncStart, NextGit,
     NoGit
<1> QED
  BY <1>1, <1>2, <1>3, <1>4, <1>5, <1>6, <1>7, <1>8, <1>9, <1>10, <1>11, <1>12, <1>13
     DEF Next, Command, Migrate, Sync

-----------------------------------------------------------------------------
(***************************************************************************)
(* Types.                                                                  *)
(***************************************************************************)
LEMMA NoJobOK == JobOK(NoJob)
<1>1. (CHOOSE n \in Name : TRUE) \in Name
  BY ConstantsAssumption
<1> QED
  BY <1>1 DEF JobOK, NoJob, Job, AllOps, Commands

LEMMA ReturnTyped == ASSUME Return PROVE ProcOK'
BY NoJobOK DEF Return, ProcOK, NoIndex, Index, CommandSteps

\* The job with the value it goes through the mapped files with.
LEMMA JobValueOK ==
    ASSUME JobOK(job), NEW v \in Value PROVE JobOK([job EXCEPT !.value = v])
BY DEF JobOK, Job

LEMMA SucceedTyped == ASSUME GitOK, ProcOK, pc \in CommandSteps, UNCHANGED work, Succeed PROVE ProcOK'
<1>1. ASSUME work.file[job.name] # None, job.op \in {"set", "rotate", "rollback"}
      PROVE  LatestValue(work.file[job.name]) \in Value
  <2>1. job.name \in Name /\ Good(work.file[job.name])
    BY TreeParts DEF GitOK, ProcOK, JobOK, Job
  <2> QED
    BY <1>1, <2>1, CurrentValue DEF Good
<1>2. /\ JobOK(job') /\ job'.op = job.op /\ todo' \subseteq RefFile
  <2>1. CASE job.op \in {"set", "rotate", "rollback"} /\ work.file[job.name] # None
    <3>1. /\ job' = [job EXCEPT !.value = LatestValue(work.file[job.name])]
          /\ todo' = work.file[job.name].refs \cap Bound
      BY <2>1 DEF Succeed
    <3>2. JobOK(job')
      BY <1>1, <2>1, <3>1, JobValueOK DEF ProcOK
    <3> QED
      BY <3>1, <3>2, ConstantsAssumption DEF ProcOK, JobOK, Job
  <2>2. CASE ~(job.op \in {"set", "rotate", "rollback"} /\ work.file[job.name] # None)
    BY <2>2 DEF Succeed, ProcOK
  <2> QED
    BY <2>1, <2>2
<1> QED
  BY <1>2 DEF Succeed, ProcOK, Steps

LEMMA ProcStep == ASSUME GitOK, ProcOK, Next PROVE ProcOK'
<1>a. /\ work.file \in Files /\ work.state \in Index
      /\ \A n \in Name : Good(work.file[n])
  BY TreeParts DEF GitOK
<1>b. ASSUME UNCHANGED <<job, mem, todo>>, pc \in CommandSteps, pc' \in CommandSteps PROVE ProcOK'
  BY <1>b DEF ProcOK, CommandSteps, Steps
<1>c. ASSUME UNCHANGED proc PROVE ProcOK'
  BY <1>c DEF ProcOK, proc
<1>1. CASE Start
  <2>1. PICK o \in Ops \cap Commands : \E j \in Asked(o) : job' = j
    BY <1>1 DEF Start
  <2>2. JobOK(job') /\ job'.op \in Commands
    BY <2>1, AskedOK
  <2> QED
    BY <1>1, <2>2 DEF Start, ProcOK, Steps
<1>2. CASE Pull \/ MigrateState \/ MigrateNothing \/ MigrateCommit \/ MigratePush \/ DropOld \/ Commit
  BY <1>2, <1>b DEF Pull, MigrateState, MigrateNothing, MigrateCommit, MigratePush, DropOld, Commit,
     CommandSteps
<1>3. CASE MigrateFile \/ WebCreate \/ WebRotate \/ Peer
  BY <1>3, <1>c DEF MigrateFile, WebCreate, WebRotate, Peer
<1>4. CASE Apply
  <2>1. /\ JobOK(job) /\ job.op \in Commands /\ Accepts(work.file, job) /\ job.name \in Name
    BY <1>4 DEF Apply, ProcOK, CommandSteps, JobOK, Job
  <2>2. mem' \in Index
    <3>1. LoadState(work.state) \in [Name -> IndexEntry \cup {None}]
      BY <1>a, LoadTyped
    <3>2. Reindexed(LoadState(work.state), work.file, job) \in Index
      BY <1>a, <2>1, <3>1, ReindexedTyped, IndexWiden
    <3> QED
      BY <1>4, <3>2 DEF Apply
  <2>3. JobOK(job') /\ job'.op = job.op /\ todo' \subseteq RefFile
    <3>1. CASE job.op = "ref"
      <4>1. work.file[job.name] \in Secret /\ Good(work.file[job.name])
        BY <1>a, <2>1, <3>1 DEF Accepts, Good
      <4>2. job' = [job EXCEPT !.value = LatestValue(work.file[job.name])] /\ todo' = {job.arg}
        BY <1>4, <3>1 DEF Apply
      <4>3. JobOK(job')
        BY <2>1, <4>1, <4>2, CurrentValue, JobValueOK
      <4> QED
        BY <2>1, <3>1, <4>2, <4>3 DEF JobOK, Job
    <3>2. CASE job.op # "ref"
      BY <1>4, <2>1, <3>2 DEF Apply
    <3> QED
      BY <3>1, <3>2
  <2>4. pc' \in {"drop_old", "save"}
    BY <1>4 DEF Apply
  <2> QED
    BY <2>1, <2>2, <2>3, <2>4 DEF ProcOK, Steps
<1>5. CASE ApplyFails \/ Finish \/ Crash
  BY <1>5, ReturnTyped DEF ApplyFails, Finish, Crash
<1>6. CASE Save
  <2>1. pc = "save" /\ pc' = "commit" /\ mem' = NoIndex /\ UNCHANGED <<job, todo>>
    BY <1>6 DEF Save
  <2> QED
    BY <2>1 DEF ProcOK, CommandSteps, Steps, NoIndex, Index
<1>7. CASE Push
  <2>1. CASE PushOk /\ Succeed
    BY <1>7, <2>1, SucceedTyped DEF Push, PushOk, CommandSteps
  <2>2. CASE pc' = "retry_pull" /\ UNCHANGED <<job, mem, todo>>
    BY <1>7, <2>2, <1>b DEF Push, CommandSteps
  <2> QED
    BY <1>7, <2>1, <2>2 DEF Push
<1>8. CASE RetryPull
  BY <1>8, <1>b, ReturnTyped DEF RetryPull, GiveUp, CommandSteps
<1>9. CASE RetryPush
  BY <1>9, SucceedTyped, ReturnTyped DEF RetryPush, PushOk, GiveUp, CommandSteps
<1>10. CASE WriteEnvFile
  BY <1>10 DEF WriteEnvFile, ProcOK
<1>11. CASE SyncStart \/ SyncSave \/ SyncCommit
  BY <1>11 DEF SyncStart, SyncSave, SyncCommit, ProcOK, CommandSteps, Steps
<1>12. CASE SyncPush
  BY <1>12, ReturnTyped DEF SyncPush, GiveUp
<1> QED
  BY <1>1, <1>2, <1>3, <1>4, <1>5, <1>6, <1>7, <1>8, <1>9, <1>10, <1>11, <1>12
     DEF Next, Command, Migrate, Sync

LEMMA RestStep == ASSUME GitOK, ProcOK, RestOK, Next PROVE RestOK'
<1>a. \A n \in Name : Values(work.file[n]) \subseteq Value
  BY TreeParts, ValuesTyped DEF GitOK
<1>b. ASSUME UNCHANGED <<erased, envFile, used>> PROVE RestOK'
  BY <1>b DEF RestOK
<1>c. ASSUME NEW j, JobOK(j) PROVE {j.value} \ {None} \subseteq Value
  BY <1>c DEF JobOK, Job
<1>1. CASE Start
  <2>1. PICK o \in Ops \cap Commands : \E j \in Asked(o) : used' = used \cup ({j.value} \ {None})
    BY <1>1 DEF Start
  <2>2. used' \subseteq Value
    BY <2>1, <1>c, AskedOK DEF RestOK
  <2> QED
    BY <1>1, <2>2 DEF Start, RestOK
<1>2. CASE Apply
  <2>1. erased' \subseteq Value
    BY <1>2, <1>a DEF Apply, RestOK, ProcOK, JobOK, Job
  <2> QED
    BY <1>2, <2>1 DEF Apply, RestOK, bounds
<1>3. CASE WriteEnvFile
  <2>1. job.value \in Value \cup {None} /\ todo \subseteq RefFile
    BY DEF ProcOK, JobOK, Job
  <2> QED
    BY <1>3, <2>1 DEF WriteEnvFile, RestOK, bounds
<1>4. CASE WebCreate
  BY <1>4, <1>a, NextValueTyped DEF WebCreate, WebMayRun, RestOK
<1>5. CASE WebRotate
  BY <1>5, NextValueTyped DEF WebRotate, WebMayRun, RestOK
<1>6. CASE Peer
  <2>1. PICK o \in PeerOps : \E j \in Asked(o) :
          /\ erased' = IF o = "delete" THEN erased \cup Values(MigrateIfNeeded(remote).file[j.name])
                       ELSE erased
          /\ used' = used \cup ({j.value} \ {None})
    BY <1>6 DEF Peer
  <2>2. PICK j \in Asked(o) :
          /\ erased' = IF o = "delete" THEN erased \cup Values(MigrateIfNeeded(remote).file[j.name])
                       ELSE erased
          /\ used' = used \cup ({j.value} \ {None})
    BY <2>1
  <2>3. JobOK(j) /\ j.name \in Name
    BY AskedOK, ConstantsAssumption DEF JobOK, Job
  <2>4. Values(MigrateIfNeeded(remote).file[j.name]) \subseteq Value
    BY <2>3, MigrateGood, TreeParts, ValuesTyped DEF GitOK
  <2>5. UNCHANGED envFile
    BY <1>6 DEF Peer
  <2> QED
    BY <2>2, <2>3, <2>4, <2>5, <1>c DEF RestOK
<1>7. CASE Pull \/ MigrateFile \/ MigrateState \/ MigrateNothing \/ MigrateCommit \/ MigratePush
  BY <1>7, <1>b DEF Pull, MigrateFile, MigrateState, MigrateNothing, MigrateCommit, MigratePush, bounds
<1>8. CASE ApplyFails \/ DropOld \/ Save \/ Commit \/ Finish \/ Crash
  BY <1>8, <1>b DEF ApplyFails, DropOld, Save, Commit, Finish, Crash, bounds
<1>9. CASE Push \/ RetryPull \/ RetryPush
  BY <1>9, <1>b DEF Push, RetryPull, RetryPush, Succeed, GiveUp, bounds
<1>10. CASE SyncStart \/ SyncSave \/ SyncCommit \/ SyncPush
  BY <1>10, <1>b DEF SyncStart, SyncSave, SyncCommit, SyncPush, GiveUp, bounds
<1> QED
  BY <1>1, <1>2, <1>3, <1>4, <1>5, <1>6, <1>7, <1>8, <1>9, <1>10 DEF Next, Command, Migrate, Sync

LEMMA BoundsStep == ASSUME BoundsOK, Next PROVE BoundsOK'
<1>a. MaxJobs \in Nat /\ MaxPeer \in Nat /\ MaxCrashes \in Nat
  BY ConstantsAssumption
<1>b. ASSUME UNCHANGED <<jobs, peers, crashes>> PROVE BoundsOK'
  BY <1>b DEF BoundsOK
<1>1. CASE Start \/ SyncStart \/ WebCreate \/ WebRotate
  BY <1>1, <1>a DEF Start, SyncStart, WebCreate, WebRotate, WebMayRun, BoundsOK
<1>2. CASE Crash
  BY <1>2, <1>a DEF Crash, BoundsOK
<1>3. CASE Peer
  BY <1>3, <1>a DEF Peer, BoundsOK
<1>4. CASE Pull \/ MigrateFile \/ MigrateState \/ MigrateNothing \/ MigrateCommit \/ MigratePush
  BY <1>4, <1>b DEF Pull, MigrateFile, MigrateState, MigrateNothing, MigrateCommit, MigratePush, bounds
<1>5. CASE Apply \/ ApplyFails \/ DropOld \/ Save \/ Commit \/ WriteEnvFile \/ Finish
  BY <1>5, <1>b DEF Apply, ApplyFails, DropOld, Save, Commit, WriteEnvFile, Finish, bounds
<1>6. CASE Push \/ RetryPull \/ RetryPush
  BY <1>6, <1>b DEF Push, RetryPull, RetryPush, Succeed, GiveUp, bounds
<1>7. CASE SyncSave \/ SyncCommit \/ SyncPush
  BY <1>7, <1>b DEF SyncSave, SyncCommit, SyncPush, GiveUp, bounds
<1> QED
  BY <1>1, <1>2, <1>3, <1>4, <1>5, <1>6, <1>7 DEF Next, Command, Migrate, Sync

\* The invariant: types, and what the clone knows.
IInv == GitOK /\ ProcOK /\ RestOK /\ BoundsOK /\ Knows

LEMMA InitIInv == Init => IInv
<1> SUFFICES ASSUME Init PROVE IInv
  OBVIOUS
<1>1. PICK legacy \in {{}, Legacy} :
        LET tree == [file  |-> [n \in Name |-> None],
                     state |-> [n \in Name |-> IF n \in legacy THEN [value |-> Old, refs |-> {}]
                                               ELSE None]]
        IN  /\ remote = tree /\ head = tree /\ work = tree
            /\ mergeHead = None
            /\ touched = {} /\ dirty = {} /\ theirs = {} /\ fetched = {}
            /\ behind = FALSE /\ ahead = FALSE
            /\ replaced = {} /\ erased = IF legacy = {} THEN {Old} ELSE {}
            /\ envFile = [f \in RefFile |-> None]
            /\ pc = "idle" /\ job = NoJob
            /\ mem = NoIndex
            /\ todo = {}
            /\ used = {Old}
            /\ jobs = 0 /\ peers = 0 /\ crashes = 0
  BY DEF Init
<1> DEFINE files == [n \in Name |-> None]
           s == [n \in Name |-> IF n \in legacy THEN [value |-> Old, refs |-> {}] ELSE None]
<1>2. [value |-> Old, refs |-> {}] \in LegacyEntry
  BY ConstantsAssumption DEF LegacyEntry
<1>3. files \in Files /\ (\A n \in Name : Good(files[n])) /\ s \in Index
  BY <1>2 DEF Files, Good, Index
<1>4. GoodTree([file |-> files, state |-> s])
  BY <1>3, TreeOfParts
<1>5. GitOK
  BY <1>1, <1>4 DEF GitOK
<1>6. ProcOK
  BY <1>1, NoJobOK DEF ProcOK, NoIndex, Index, CommandSteps
<1>7. RestOK /\ BoundsOK
  BY <1>1, ConstantsAssumption DEF RestOK, BoundsOK
<1>8. Knows
  <2>1. head = remote /\ work = head /\ mergeHead = None /\ theirs = {} /\ dirty = {}
    BY <1>1
  <2> QED
    BY <2>1, ExtendsRefl DEF Knows, Merging, Here
<1> QED
  BY <1>5, <1>6, <1>7, <1>8 DEF IInv

LEMMA NextIInv == IInv /\ [Next]_vars => IInv'
<1> SUFFICES ASSUME IInv, [Next]_vars PROVE IInv'
  OBVIOUS
<1>1. CASE Next
  <2>1. GitOK /\ ProcOK /\ RestOK /\ BoundsOK /\ Knows
    BY DEF IInv
  <2>2. NextGit
    BY <1>1, <2>1, NextIsNextGit
  <2> QED
    BY <1>1, <2>1, <2>2, GitTypes, KnowsStep, ProcStep, RestStep, BoundsStep DEF IInv
<1>2. CASE UNCHANGED vars
  <2>1. GitOK' /\ Knows'
    <3>1. NoGit
      BY <1>2 DEF vars, NoGit
    <3> QED
      BY <3>1, GitTypes, KnowsStep DEF IInv, NextGit
  <2> QED
    BY <1>2, <2>1 DEF vars, proc, bounds, IInv, ProcOK, RestOK, BoundsOK
<1> QED
  BY <1>1, <1>2

LEMMA InvHolds == Spec => []IInv
BY InitIInv, NextIInv, PTL DEF Spec

\* Types: every tree holds secrets whose current version exists.
THEOREM SecretTypeCorrect == Spec => []TypeOK
<1>1. IInv => TypeOK
  <2> SUFFICES ASSUME IInv PROVE TypeOK
    OBVIOUS
  <2>1. GitOK /\ ProcOK /\ RestOK /\ BoundsOK
    BY DEF IInv
  <2>2. /\ remote \in Tree /\ head \in Tree /\ work \in Tree /\ mergeHead \in Tree \cup {None}
        /\ Current(remote) /\ Current(head) /\ Current(work) /\ (mergeHead # None => Current(mergeHead))
    BY <2>1 DEF GitOK, GoodTree
  <2>3. pc \in Steps \cup {"idle"} /\ job \in Job /\ todo \subseteq RefFile
    BY <2>1 DEF ProcOK, JobOK
  <2>4. mem \in [Name -> IndexEntry \cup LegacyEntry \cup {None}]
    BY <2>1 DEF ProcOK, Index
  <2> QED
    BY <2>1, <2>2, <2>3, <2>4 DEF TypeOK, GitOK, RestOK, BoundsOK
<1> QED
  BY <1>1, InvHolds, PTL

\* Whatever a push can put in place of the remote's tree holds all its versions, but for
\* the secrets that this clone has replaced.
THEOREM VersionsKept == Spec => []PushKeepsVersions
<1>1. IInv => PushKeepsVersions
  BY DEF IInv, Knows, PushKeepsVersions
<1> QED
  BY <1>1, InvHolds, PTL

-----------------------------------------------------------------------------
(***************************************************************************)
(* A command that succeeds: what it was asked for stays in place from the  *)
(* directory to HEAD, through the one merge of the retry, to the remote    *)
(* and into the mapped files.                                              *)
(***************************************************************************)
Paths(j) == {j.name, Target(j)}

Landed ==
    /\ pc = "drop_old" => /\ job.op = "rename" /\ job.arg # job.name
                          /\ work.file[job.arg] # None /\ job.arg \in dirty
    /\ pc \in {"save", "commit"} => Published(work, job) /\ Paths(job) \subseteq dirty
    /\ pc \in {"push", "retry_pull"} => Paths(job) \subseteq touched /\ ahead
    /\ pc \in {"push", "retry_pull", "retry_push", "refs"} =>
          Published(head, job) /\ dirty = {} /\ ~Merging /\ work.file = head.file

\* While it goes through the mapped files, those it is done with have the current value.
Following ==
    pc = "refs" /\ job.op \in {"set", "rotate", "rollback"} =>
        /\ job.value = LatestValue(head.file[job.name])
        /\ \A f \in (head.file[job.name].refs \cap Bound) \ todo : envFile[f] = job.value

\* Published looks at the files only, and for all but set and rotate not at the value.
LEMMA PublishedFiles ==
    ASSUME NEW t, NEW u, NEW j, j.op \in Commands, Published(t, j),
           \A n \in Paths(j) : u.file[n] = t.file[n]
    PROVE  Published(u, j)
BY DEF Published, Paths, Target, Commands

LEMMA PublishedValue ==
    ASSUME NEW t, NEW j, JobOK(j), NEW v, Published(t, j), j.op \in Commands \ {"set", "rotate"}
    PROVE  Published(t, [j EXCEPT !.value = v])
<1> DEFINE k == [j EXCEPT !.value = v]
<1>1. k.op = j.op /\ k.name = j.name /\ k.arg = j.arg
  BY DEF JobOK, Job
<1> HIDE DEF k
<1>2. Published(t, k)
  BY <1>1 DEF Published, Commands
<1> QED
  BY <1>2 DEF k

\* What a command saves is what it was asked for; a rename has still to drop the old file.
LEMMA SavedPublished ==
    ASSUME NEW files \in Files, NEW j, JobOK(j), j.op \in Commands \ {"rename"}, Accepts(files, j),
           NEW t, t.file[j.name] = Saved(files, j)
    PROVE  Published(t, j)
<1> DEFINE sf == files[j.name]
<1>0. j.name \in Name /\ sf \in Secret \cup {None} /\ t.file[j.name] = Saved(files, j)
  BY DEF JobOK, Job, Files
<1>1. ASSUME NEW s \in Secret, NEW v \in Value
      PROVE  /\ AddVersion(s, v) # None /\ LatestValue(AddVersion(s, v)) = v
             /\ AddVersion(s, v).latest = Len(AddVersion(s, v).versions)
  <2> DEFINE app == Append(s.versions, v)
             len == Len(s.versions)
  <2>1. s.versions \in Seq(Value)
    BY DEF Secret
  <2>2. app \in Seq(Value) /\ len \in Nat /\ Len(app) = len + 1 /\ app[len + 1] = v
    BY <2>1
  <2>3. AddVersion(s, v) = [s EXCEPT !.versions = app, !.latest = len + 1]
    BY DEF AddVersion
  <2> HIDE DEF app, len
  <2>4. AddVersion(s, v).versions = app /\ AddVersion(s, v).latest = len + 1
    BY <2>2, <2>3 DEF Secret
  <2> QED
    BY <2>2, <2>4, AddVersionGood, ConstantsAssumption DEF LatestValue
<1>2. ASSUME NEW v \in Value
      PROVE  /\ Initial(v, {}) # None /\ LatestValue(Initial(v, {})) = v
             /\ Initial(v, {}).latest = Len(Initial(v, {}).versions)
  <2>1. Len(<<v>>) = 1 /\ <<v>>[1] = v
    OBVIOUS
  <2> QED
    BY <2>1, InitialGood DEF Initial, LatestValue
<1>3. CASE j.op = "set"
  <2>1. j.value \in Value /\ Saved(files, j) = SetSecret(sf, j.value)
    BY <1>3 DEF JobOK, Saved
  <2> QED
    BY <1>0, <1>1, <1>2, <1>3, <2>1 DEF SetSecret, Published
<1>4. CASE j.op = "rotate"
  <2>1. j.value \in Value /\ Saved(files, j) = AddVersion(sf, j.value) /\ sf # None
    BY <1>4 DEF JobOK, Saved, RotateSecret, Accepts
  <2> QED
    BY <1>0, <1>1, <1>4, <2>1 DEF Published
<1>5. CASE j.op = "rollback"
  <2>1. Saved(files, j) = [sf EXCEPT !.latest = j.arg] /\ sf \in Secret /\ j.arg \in Nat
    BY <1>0, <1>5 DEF JobOK, Saved, RollbackSecret, Accepts
  <2>2. Saved(files, j) \in Secret /\ Saved(files, j).latest = j.arg
    BY <2>1 DEF Secret
  <2> QED
    BY <1>0, <1>5, <2>2, ConstantsAssumption DEF Published
<1>6. CASE j.op \in {"ref", "unref"}
  <2>1. /\ sf \in Secret /\ j.arg \in RefFile
        /\ j.op = "ref" => Saved(files, j) = [sf EXCEPT !.refs = @ \cup {j.arg}]
        /\ j.op = "unref" => Saved(files, j) = [sf EXCEPT !.refs = @ \ {j.arg}]
    BY <1>0, <1>6 DEF JobOK, Saved, RefSecret, UnrefSecret, Accepts
  <2>2. /\ Saved(files, j) \in Secret
        /\ j.op = "ref" => j.arg \in Saved(files, j).refs
        /\ j.op = "unref" => j.arg \notin Saved(files, j).refs
    BY <1>6, <2>1 DEF Secret
  <2> QED
    BY <1>0, <1>6, <2>2, ConstantsAssumption DEF Published
<1>7. CASE j.op = "delete"
  BY <1>0, <1>7 DEF Saved, DeleteSecret, Published
<1> QED
  BY <1>3, <1>4, <1>5, <1>6, <1>7 DEF Commands

\* Files of the directory after a write.
LEMMA WrittenFile ==
    ASSUME GitOK, NEW n \in Name, NEW sf, WriteFile(n, sf)
    PROVE  /\ work'.file[n] = sf /\ \A x \in Name \ {n} : work'.file[x] = work.file[x]
           /\ work'.state = work.state
<1>1. work.file \in Files /\ work = [file |-> work.file, state |-> work.state]
  BY TreeParts DEF GitOK
<1>2. work' = [work EXCEPT !.file[n] = sf]
  BY DEF WriteFile
<1>3. work'.file = [work.file EXCEPT ![n] = sf] /\ work'.state = work.state
  BY <1>1, <1>2
<1> QED
  BY <1>1, <1>3 DEF Files

\* What is asked for is still there after the merge of a retry.
LEMMA RetryKeeps ==
    ASSUME GitOK, ProcOK, Landed, pc = "retry_pull", PullOk
    PROVE  Published(head', job) /\ dirty' = {} /\ ~Merging' /\ work'.file = head'.file
<1>0. /\ Paths(job) \subseteq touched /\ ahead /\ Published(head, job) /\ dirty = {} /\ ~Merging
      /\ work.file = head.file /\ job.op \in Commands /\ JobOK(job)
  BY DEF Landed, ProcOK, CommandSteps
<1>1. CASE PullCurrent
  BY <1>0, <1>1 DEF PullCurrent, git, Merging
<1>2. CASE PullForward
  BY <1>0, <1>2 DEF PullForward
<1>3. CASE PullMerge
  <2>1. /\ head' = MergedTree(remote, theirs) /\ Conflicts(remote, theirs) = {}
        /\ work' = Checkout(head') /\ UNCHANGED <<mergeHead, dirty>>
    BY <1>3 DEF PullMerge
  <2>2. ASSUME NEW n \in Name \cap touched PROVE head'.file[n] = head.file[n]
    <3>1. head'.file[n] = IF TakesTheirs(theirs, n) THEN remote.file[n] ELSE head.file[n]
      BY <2>1 DEF MergedTree
    <3>2. CASE TakesTheirs(theirs, n)
      <4>1. n \in theirs /\ head.file[n] = None
        BY <2>2, <3>2 DEF TakesTheirs
      <4>2. remote.file[n] = None
        BY <2>1, <2>2, <4>1 DEF Conflicts
      <4> QED
        BY <3>1, <4>1, <4>2
    <3> QED
      BY <3>1, <3>2
  <2>3. Paths(job) \subseteq Name
    BY <1>0 DEF Paths, Target, JobOK, Job
  <2>4. Published(head', job)
    BY <1>0, <2>2, <2>3, PublishedFiles
  <2>5. work'.file = head'.file
    <3>1. GoodTree(head')
      BY <2>1, MergedTreeGood DEF GitOK
    <3>2. head'.file \in Files /\ \A n \in Name : work'.file[n] = head'.file[n]
      BY <1>0, <2>1, <3>1, TreeParts, CheckoutFile
    <3>3. work'.file = [n \in Name |-> head'.file[n]]
      BY <1>0, <2>1 DEF Checkout
    <3> QED
      BY <3>2, <3>3 DEF Files
  <2> QED
    BY <1>0, <2>1, <2>4, <2>5 DEF Merging
<1> QED
  BY <1>1, <1>2, <1>3 DEF PullOk

LEMMA LandedCommit ==
    ASSUME GitOK, ProcOK, Landed, Commit PROVE Landed'
<1>1. /\ pc = "commit" /\ pc' = "push" /\ job' = job
  BY DEF Commit
<1>2. /\ Published(work, job) /\ Paths(job) \subseteq dirty
  BY <1>1 DEF Landed
<1>3. /\ head' = work /\ work' = work /\ dirty' = {} /\ mergeHead' = None
      /\ dirty \subseteq touched' /\ (Merging => ahead') /\ (~Merging => ahead' = (ahead \/ dirty # {}))
  BY DEF Commit, CommitAll, Merging
<1>4. ahead'
  BY <1>2, <1>3 DEF Paths
<1>5. Published(head', job') /\ Paths(job') \subseteq touched'
  BY <1>1, <1>2, <1>3
<1> QED
  BY <1>1, <1>3, <1>4, <1>5 DEF Landed, Merging

LEMMA LandedSuccess ==
    ASSUME GitOK, ProcOK, Landed, pc \in {"push", "retry_push"}, PushOk, Succeed
    PROVE  Landed' /\ Following' /\ Published(remote', job)
<1>0. /\ Published(head, job) /\ dirty = {} /\ ~Merging /\ work.file = head.file
      /\ job.op \in Commands /\ JobOK(job) /\ job.name \in Name
  BY DEF Landed, ProcOK, CommandSteps, JobOK, Job
<1>1. remote' = head /\ UNCHANGED <<head, work, mergeHead, dirty>> /\ pc' = "refs"
  BY DEF PushOk, Succeed
<1>2. CASE job.op \in {"set", "rotate", "rollback"}
  <2>1. head.file[job.name] # None
    BY <1>0, <1>2 DEF Published
  <2>2. /\ job' = [job EXCEPT !.value = LatestValue(work.file[job.name])]
        /\ todo' = work.file[job.name].refs \cap Bound
    BY <1>0, <1>2, <2>1 DEF Succeed
  <2>3. /\ job'.op = job.op /\ job'.name = job.name /\ job'.arg = job.arg
        /\ job'.value = LatestValue(head.file[job.name])
    BY <1>0, <2>2 DEF JobOK, Job
  <2>4. Published(head, job')
    BY <1>0, <1>2, <2>3 DEF Published
  <2> QED
    BY <1>0, <1>1, <2>2, <2>3, <2>4 DEF Landed, Following, Merging
<1>3. CASE job.op \notin {"set", "rotate", "rollback"}
  <2>1. job' = job
    BY <1>3 DEF Succeed
  <2> QED
    BY <1>0, <1>1, <1>3, <2>1 DEF Landed, Following, Merging
<1> QED
  BY <1>2, <1>3

LEMMA LandedApply == ASSUME GitOK, ProcOK, Apply PROVE Landed'
<1>1. /\ JobOK(job) /\ job.op \in Commands /\ Accepts(work.file, job)
      /\ work.file \in Files /\ job.name \in Name
  BY TreeParts DEF Apply, ProcOK, CommandSteps, JobOK, Job, GitOK
<1>2. Target(job) \in Name
  BY <1>1 DEF Target, JobOK
<1>3. /\ work'.file[Target(job)] = Saved(work.file, job) /\ Target(job) \in dirty'
      /\ pc' = IF job.op = "rename" THEN "drop_old" ELSE "save"
  BY <1>2, WrittenFile DEF Apply, WriteFile
<1>4. /\ job' = IF job.op = "ref" THEN [job EXCEPT !.value = LatestValue(work.file[job.name])] ELSE job
  BY DEF Apply
<1>5. CASE job.op = "rename"
  <2>1. /\ work'.file[job.arg] = work.file[job.name] /\ work.file[job.name] # None
        /\ work.file[job.arg] = None /\ job.arg \in dirty' /\ job' = job /\ pc' = "drop_old"
    BY <1>1, <1>3, <1>4, <1>5 DEF Target, Saved, Accepts
  <2> QED
    BY <1>5, <2>1 DEF Landed
<1>6. CASE job.op # "rename"
  <2>1. Published(work', job) /\ Target(job) = job.name
    BY <1>1, <1>3, <1>6, SavedPublished DEF Target
  <2>2. Published(work', job') /\ Paths(job') = {job.name}
    <3>1. CASE job.op = "ref"
      <4>1. job'.name = job.name /\ job'.op = job.op
        BY <1>1, <1>4, <3>1 DEF JobOK, Job
      <4> QED
        BY <1>1, <1>4, <2>1, <3>1, <4>1, PublishedValue DEF Paths, Target, Commands
    <3> QED
      BY <1>4, <1>6, <2>1, <3>1 DEF Paths, Target
  <2> QED
    BY <1>3, <1>6, <2>1, <2>2 DEF Landed
<1> QED
  BY <1>5, <1>6

LEMMA LandedDrop == ASSUME GitOK, ProcOK, Landed, DropOld PROVE Landed'
<1>1. /\ pc = "drop_old" /\ pc' = "save" /\ job' = job /\ WriteFile(job.name, None)
      /\ job.name \in Name /\ job.op = "rename" /\ job.arg # job.name /\ job.arg \in Name
      /\ work.file[job.arg] # None /\ job.arg \in dirty
  BY DEF DropOld, Landed, ProcOK, JobOK, Job
<1>2. work'.file[job.name] = None /\ work'.file[job.arg] # None /\ dirty' = dirty \cup {job.name}
  BY <1>1, WrittenFile DEF WriteFile
<1>3. Published(work', job') /\ Paths(job') \subseteq dirty'
  BY <1>1, <1>2 DEF Published, Paths, Target
<1> QED
  BY <1>1, <1>3 DEF Landed

LEMMA LandedSave == ASSUME GitOK, ProcOK, Landed, Save PROVE Landed'
<1>1. pc = "save" /\ pc' = "commit" /\ job' = job /\ Published(work, job) /\ Paths(job) \subseteq dirty
  BY DEF Save, Landed
<1>2. work'.file = work.file /\ dirty \subseteq dirty'
  BY DEF Save, WriteState, GitOK, GoodTree, Tree
<1>3. Published(work', job)
  BY <1>1, <1>2 DEF Published
<1> QED
  BY <1>1, <1>2, <1>3 DEF Landed

\* Without interference by the web UI.
LEMMA LandedStep ==
    ASSUME Overlap = FALSE, GitOK, ProcOK, RestOK, Landed, Following, [Next]_vars
    PROVE  Landed' /\ Following'
<1>a. ASSUME pc' \in {"idle", "migrate", "migrate_commit", "migrate_push", "apply", "pull",
                      "sync_save", "sync_commit", "sync_push"}
      PROVE  Landed' /\ Following'
  BY <1>a DEF Landed, Following
<1>b. ASSUME pc' # "refs" PROVE Following'
  BY <1>b DEF Following
<1>1. CASE Start \/ Pull \/ Migrate \/ ApplyFails \/ Finish \/ Crash \/ Sync
  BY <1>1, <1>a DEF Start, Pull, Migrate, MigrateFile, MigrateState, MigrateNothing, MigrateCommit,
     MigratePush, ApplyFails, Finish, Crash, Sync, SyncStart, SyncSave, SyncCommit, SyncPush, GiveUp,
     Return, proc
<1>2. CASE WebCreate \/ WebRotate
  BY <1>2, <1>a DEF WebCreate, WebRotate, WebMayRun, proc
<1>3. CASE Apply
  BY <1>3, <1>b, LandedApply DEF Apply
<1>4. CASE DropOld \/ Save \/ Commit
  BY <1>4, <1>b, LandedDrop, LandedSave, LandedCommit DEF DropOld, Save, Commit
<1>5. CASE Push \/ RetryPush
  <2>1. CASE PushOk /\ Succeed
    BY <1>5, <2>1, LandedSuccess DEF Push, RetryPush
  <2>2. CASE PushFails /\ pc = "push" /\ pc' = "retry_pull" /\ UNCHANGED job
    BY <2>2, <1>b DEF PushFails, git, Landed, Merging
  <2>3. CASE GiveUp
    BY <2>3, <1>a DEF GiveUp, Return
  <2> QED
    BY <1>5, <2>1, <2>2, <2>3 DEF Push, RetryPush
<1>6. CASE RetryPull
  <2>1. CASE PullOk /\ pc' = "retry_push" /\ UNCHANGED job
    BY <1>6, <2>1, <1>b, RetryKeeps DEF RetryPull, Landed
  <2>2. CASE GiveUp
    BY <2>2, <1>a DEF GiveUp, Return
  <2> QED
    BY <1>6, <2>1, <2>2 DEF RetryPull
<1>7. CASE WriteEnvFile
  <2>1. PICK f \in todo :
          /\ todo' = todo \ {f}
          /\ envFile' = IF f \in Bound THEN [envFile EXCEPT ![f] = job.value] ELSE envFile
    BY <1>7 DEF WriteEnvFile
  <2>2. UNCHANGED <<git, work, dirty, pc, job>> /\ pc = "refs"
    BY <1>7 DEF WriteEnvFile
  <2>3. Landed'
    BY <2>2 DEF git, Landed, Merging
  <2>4. f \in RefFile /\ envFile \in [RefFile -> Value \cup {None}]
    BY <2>1 DEF ProcOK, RestOK
  <2>5. ASSUME NEW g \in Bound, NEW v, g \in todo \/ envFile[g] = job.value, g \notin todo'
        PROVE  envFile'[g] = job.value
    BY <2>1, <2>4, <2>5, ConstantsAssumption
  <2>6. Following'
    BY <2>2, <2>5 DEF Following, git
  <2> QED
    BY <2>3, <2>6
<1>8. CASE Peer
  <2>1. UNCHANGED <<head, mergeHead, touched, ahead, work, dirty, envFile, proc>>
    BY <1>8 DEF Peer
  <2> QED
    BY <2>1 DEF proc, Landed, Following, Merging
<1>9. CASE UNCHANGED vars
  BY <1>9 DEF vars, git, proc, Landed, Following, Merging
<1> QED
  BY <1>1, <1>2, <1>3, <1>4, <1>5, <1>6, <1>7, <1>8, <1>9 DEF Next, Command

\* Without interference by the web UI, a command that reports success has its change at
\* the remote, whatever was merged before and between its two pushes.
THEOREM SuccessIsPublished ==
    ASSUME Overlap = FALSE PROVE Spec => PublishedOnSuccess
<1>1. Init => Landed /\ Following
  BY DEF Init, Landed, Following
<1>2. IInv /\ Landed /\ Following /\ [Next]_vars => Landed' /\ Following'
  BY LandedStep DEF IInv
<1>3. IInv /\ Landed /\ [Next]_vars => (pc # "refs" /\ pc' = "refs" => Published(remote', job))
  <2> SUFFICES ASSUME IInv, Landed, [Next]_vars, pc # "refs", pc' = "refs"
               PROVE  Published(remote', job)
    OBVIOUS
  <2>1. PushOk /\ Succeed /\ pc \in {"push", "retry_push"}
    BY DEF vars, proc, Next, Command, Migrate, Sync, Start, Pull, MigrateFile, MigrateState,
       MigrateNothing, MigrateCommit, MigratePush, Apply, ApplyFails, DropOld, Save, Commit, Push,
       RetryPull, RetryPush, WriteEnvFile, Finish, Crash, SyncStart, SyncSave, SyncCommit, SyncPush,
       WebCreate, WebRotate, Peer, Return, GiveUp
  <2> QED
    BY <2>1, LandedSuccess DEF IInv
<1> QED
  BY <1>1, <1>2, <1>3, InvHolds, PTL DEF Spec, PublishedOnSuccess

\* Without interference by the web UI, when set, rotate or rollback end, the files this
\* machine maps the secret to hold the value that is current in what was pushed.
THEOREM MappedFilesFollow ==
    ASSUME Overlap = FALSE PROVE Spec => FilesFollow
<1>1. Init => Landed /\ Following
  BY DEF Init, Landed, Following
<1>2. IInv /\ Landed /\ Following /\ [Next]_vars => Landed' /\ Following'
  BY LandedStep DEF IInv
<1>3. IInv /\ Following /\ [Next]_vars =>
        (pc = "refs" /\ pc' = "idle" /\ crashes' = crashes /\ job.op \in {"set", "rotate", "rollback"} =>
           \A f \in head.file[job.name].refs \cap Bound :
              envFile[f] = LatestValue(head.file[job.name]))
  <2> SUFFICES ASSUME IInv, Following, [Next]_vars, pc = "refs", pc' = "idle", crashes' = crashes,
                      job.op \in {"set", "rotate", "rollback"}
               PROVE  todo = {}
    BY DEF Following
  <2>1. ~Crash
    BY DEF Crash, IInv, BoundsOK
  <2>2. Finish
    BY <2>1 DEF vars, proc, Next, Command, Migrate, Sync, Start, Pull, MigrateFile, MigrateState,
       MigrateNothing, MigrateCommit, MigratePush, Apply, ApplyFails, DropOld, Save, Commit, Push,
       RetryPull, RetryPush, WriteEnvFile, Finish, SyncStart, SyncSave, SyncCommit, SyncPush,
       WebCreate, WebRotate, Peer
  <2> QED
    BY <2>2 DEF Finish
<1> QED
  BY <1>1, <1>2, <1>3, InvHolds, PTL DEF Spec, FilesFollow

-----------------------------------------------------------------------------
(***************************************************************************)
(* The migration.  A tree in the legacy format is the one of the start:    *)
(* whoever writes migrates first.  In the other trees some file carries    *)
(* the old value, and a merge keeps it: what HEAD has of it and this clone *)
(* has not touched, the other side has as well.                            *)
(***************************************************************************)
Carries(sf) == Old \in Values(sf)
Inline(t) == HasLegacySecrets(t.state)
HasOld(t) == Inline(t) \/ \E n \in Name : Carries(t.file[n])
InlineOld(s) == \A n \in Name : IsInline(s[n]) => s[n].value = Old

Migrated == {"migrate_commit", "migrate_push", "apply", "drop_old", "save", "commit", "sync_save",
             "sync_commit"}

OldTrees ==
    /\ HasOld(remote) /\ HasOld(head) /\ HasOld(work)
    /\ InlineOld(remote.state) /\ InlineOld(head.state) /\ InlineOld(work.state)
    /\ Inline(remote) => theirs = {} /\ ~behind /\ \A n \in Name : remote.file[n] = None
    /\ Inline(head) => ~ahead /\ ~Merging /\ \A n \in Name : head.file[n] = None
    /\ Inline(work) => Inline(head) /\ StatePath \notin dirty
                       /\ \A n \in Name : IF n \in dirty THEN Carries(work.file[n]) ELSE work.file[n] = None
    /\ ~ahead => touched = {}
    /\ ~Merging => \A n \in Name \ touched : Carries(head.file[n]) => Carries(remote.file[n])
    /\ Merging => /\ ~Inline(mergeHead)
                  /\ \A n \in Name \ touched : Carries(head.file[n]) => Carries(mergeHead.file[n])
                  /\ \A n \in Name : Carries(mergeHead.file[n]) => Carries(remote.file[n])

OldSteps ==
    /\ pc \in Migrated => ~Inline(work)
    /\ pc = "drop_old" => /\ job.op = "rename" /\ job.arg # job.name
                          /\ Carries(work.file[job.name]) => Carries(work.file[job.arg])
    /\ \A n \in Name : ~IsInline(mem[n])

OldKept == Old \in used /\ (Old \notin erased => OldTrees /\ OldSteps)
LEMMA NotInline ==
    ASSUME NEW s \in [Name -> IndexEntry \cup {None}] PROVE \A n \in Name : ~IsInline(s[n])
<1>1. ASSUME NEW e \in IndexEntry PROVE "value" \notin DOMAIN e
  BY DEF IndexEntry
<1> QED
  BY <1>1 DEF IsInline

LEMMA MigratedNotInline == ASSUME NEW t PROVE \A n \in Name : ~IsInline(MigratedState(t)[n])
<1>1. MigratedState(t) \in [Name -> IndexEntry \cup {None}]
  BY DEF MigratedState, IndexEntry
<1> QED
  BY <1>1, NotInline

LEMMA ExtendsCarries ==
    ASSUME NEW sf, NEW old, Extends(sf, old), Carries(old) PROVE Carries(sf) /\ sf # None
BY DEF Extends, Carries, Values

\* A value never entered is not the old one.
LEMMA NewIsNotOld ==
    ASSUME CanEnter, Old \in used
    PROVE  /\ NextValue # Old /\ NextValue \in Value
           /\ ~Carries(Initial(NextValue, {}))
           /\ \A sf \in Secret : Carries(AddVersion(sf, NextValue)) => Carries(sf)
<1>1. NextValue # Old /\ NextValue \in Value
  BY DEF CanEnter, NextValue
<1>2. ~Carries(Initial(NextValue, {}))
  BY <1>1 DEF Carries, Values, Initial
<1>3. ASSUME NEW sf \in Secret, Carries(AddVersion(sf, NextValue)) PROVE Carries(sf)
  <2> DEFINE app == Append(sf.versions, NextValue)
             len == Len(sf.versions)
  <2>1. sf.versions \in Seq(Value) /\ sf # None
    BY ConstantsAssumption DEF Secret
  <2>2. /\ DOMAIN sf.versions = 1 .. len /\ len \in Nat /\ DOMAIN app = 1 .. len + 1
        /\ app[len + 1] = NextValue /\ \A i \in 1 .. len : app[i] = sf.versions[i]
    BY <1>1, <2>1
  <2>3. AddVersion(sf, NextValue).versions = app
    <3>1. AddVersion(sf, NextValue) = [sf EXCEPT !.versions = app, !.latest = len + 1]
      BY DEF AddVersion
    <3> HIDE DEF app, len
    <3> QED
      BY <3>1 DEF Secret
  <2>4. PICK i \in 1 .. len + 1 : app[i] = Old
    BY <1>3, <2>2, <2>3 DEF Carries, Values
  <2>5. i \in 1 .. len
    BY <1>1, <2>2, <2>4
  <2> QED
    BY <2>1, <2>2, <2>4, <2>5 DEF Carries, Values
<1> QED
  BY <1>1, <1>2, <1>3

\* What HEAD has of it is in the merged tree too.
LEMMA MergeCarries ==
    ASSUME NEW t, NEW p, \A n \in Name \ touched : Carries(head.file[n]) => Carries(t.file[n]),
           NEW n \in Name
    PROVE  /\ Carries(head.file[n]) => Carries(MergedTree(t, p).file[n])
           /\ n \notin Kept(p) /\ Carries(MergedTree(t, p).file[n]) => Carries(t.file[n])
<1>1. MergedTree(t, p).file[n] = IF TakesTheirs(p, n) THEN t.file[n] ELSE head.file[n]
  BY DEF MergedTree
<1>2. Carries(head.file[n]) => head.file[n] # None
  BY DEF Carries, Values
<1> QED
  BY <1>1, <1>2 DEF TakesTheirs, Kept

LEMMA MergeNotInline ==
    ASSUME NEW t, NEW p, ~Inline(t), ~Inline(head) PROVE ~Inline(MergedTree(t, p))
BY DEF Inline, HasLegacySecrets, MergedTree

\* Nor does the directory lose it when its tree changes.
LEMMA CheckoutKeeps ==
    ASSUME GitOK, Knows, OldTrees, NEW t, ~Inline(t), HasOld(t),
           \A n \in Name : Carries(Here(n)) => Carries(t.file[n])
    PROVE  HasOld(Checkout(t)) /\ ~Inline(Checkout(t)) /\ InlineOld(Checkout(t).state)
<1>1. ~Inline(Checkout(t))
  <2>1. StatePath \in dirty => ~Inline(work)
    BY DEF OldTrees
  <2> QED
    BY <2>1 DEF Inline, HasLegacySecrets, Checkout
<1>2. PICK x \in Name : Carries(t.file[x])
  BY DEF HasOld
<1>3. CASE Inline(work)
  <2>1. x \in dirty => Carries(work.file[x])
    BY <1>3 DEF OldTrees
  <2>2. Carries(Checkout(t).file[x])
    BY <1>2, <2>1, CheckoutFile
  <2> QED
    BY <1>1, <2>2 DEF HasOld, InlineOld, Inline, HasLegacySecrets
<1>4. CASE ~Inline(work)
  <2>1. PICK y \in Name : Carries(work.file[y])
    BY <1>4 DEF OldTrees, HasOld
  <2>2. y \notin dirty => work.file[y] = Here(y)
    BY DEF Knows
  <2>3. Carries(Checkout(t).file[y])
    BY <2>1, <2>2, CheckoutFile
  <2> QED
    BY <1>1, <2>3 DEF HasOld, InlineOld, Inline, HasLegacySecrets
<1> QED
  BY <1>3, <1>4

LEMMA OldForward == ASSUME GitOK, Knows, OldTrees, PullForward PROVE OldTrees'
<1>1. /\ ~Merging /\ behind /\ ~ahead /\ head' = remote /\ work' = Checkout(remote)
      /\ UNCHANGED <<remote, mergeHead, touched, dirty, ahead>>
  BY DEF PullForward, PullAllowed
<1>2. ~Inline(remote) /\ HasOld(remote) /\ touched = {}
  BY <1>1 DEF OldTrees
<1>3. \A n \in Name : Carries(Here(n)) => Carries(remote.file[n])
  BY <1>1, <1>2 DEF OldTrees, Here
<1>4. HasOld(work') /\ ~Inline(work') /\ InlineOld(work'.state)
  BY <1>1, <1>2, <1>3, CheckoutKeeps
<1>5. ~Merging'
  BY <1>1 DEF Merging
<1> QED
  BY <1>1, <1>2, <1>4, <1>5 DEF OldTrees

LEMMA OldMerge == ASSUME GitOK, Knows, OldTrees, PullMerge PROVE OldTrees'
<1> DEFINE t == MergedTree(remote, theirs)
<1>1. /\ ~Merging /\ behind /\ ahead /\ head' = t /\ work' = Checkout(t) /\ touched' = Kept(theirs)
      /\ UNCHANGED <<remote, mergeHead, dirty, ahead>>
  BY DEF PullMerge, PullAllowed
<1>2. ~Inline(remote) /\ HasOld(remote) /\ ~Inline(head) /\ HasOld(head) /\ InlineOld(remote.state)
  BY <1>1 DEF OldTrees
<1>3. \A n \in Name \ touched : Carries(head.file[n]) => Carries(remote.file[n])
  BY <1>1 DEF OldTrees
<1>4. ~Inline(t)
  BY <1>2, MergeNotInline
<1>5. /\ \A n \in Name : Carries(head.file[n]) => Carries(t.file[n])
      /\ \A n \in Name \ touched' : Carries(t.file[n]) => Carries(remote.file[n])
  BY <1>1, <1>3, MergeCarries
<1> HIDE DEF t
<1>6. HasOld(t) /\ \A n \in Name : Carries(Here(n)) => Carries(t.file[n])
  BY <1>1, <1>2, <1>5 DEF HasOld, Here
<1>7. HasOld(work') /\ ~Inline(work') /\ InlineOld(work'.state)
  BY <1>1, <1>4, <1>6, CheckoutKeeps
<1>8. InlineOld(head'.state)
  BY <1>1, <1>4 DEF InlineOld, Inline, HasLegacySecrets
<1>9. ~Merging'
  BY <1>1 DEF Merging
<1> QED
  BY <1>1, <1>2, <1>4, <1>5, <1>6, <1>7, <1>8, <1>9 DEF OldTrees

LEMMA OldConflict == ASSUME GitOK, Knows, OldTrees, PullConflict PROVE OldTrees'
<1> DEFINE t == MergedTree(remote, theirs)
<1>1. /\ ~Merging /\ behind /\ ahead /\ mergeHead' = remote /\ work' = Checkout(t)
      /\ UNCHANGED <<remote, head, touched, dirty, ahead>>
  BY DEF PullConflict, PullAllowed
<1>2. ~Inline(remote) /\ ~Inline(head) /\ HasOld(head)
  BY <1>1 DEF OldTrees
<1>3. \A n \in Name \ touched : Carries(head.file[n]) => Carries(remote.file[n])
  BY <1>1 DEF OldTrees
<1>4. ~Inline(t)
  BY <1>2, MergeNotInline
<1>5. \A n \in Name : Carries(head.file[n]) => Carries(t.file[n])
  BY <1>3, MergeCarries
<1> HIDE DEF t
<1>6. HasOld(t) /\ \A n \in Name : Carries(Here(n)) => Carries(t.file[n])
  BY <1>1, <1>2, <1>5 DEF HasOld, Here
<1>7. HasOld(work') /\ ~Inline(work') /\ InlineOld(work'.state)
  BY <1>1, <1>4, <1>6, CheckoutKeeps
<1>8. Merging'
  BY <1>1, ConstantsAssumption DEF Merging, GitOK, GoodTree
<1> QED
  BY <1>1, <1>2, <1>3, <1>7, <1>8 DEF OldTrees

LEMMA OldCommit == ASSUME GitOK, Knows, OldTrees, ~Inline(work), CommitAll PROVE OldTrees'
<1>1. /\ head' = work /\ dirty' = {} /\ UNCHANGED <<remote, work, theirs, behind>>
      /\ mergeHead' = None /\ ~Merging'
  BY DEF CommitAll, Merging
<1>2. ASSUME NEW n \in Name \ touched', Carries(work.file[n]) PROVE Carries(remote.file[n])
  <2>1. n \notin dirty /\ Carries(Here(n))
    BY <1>2 DEF CommitAll, Knows
  <2>2. CASE Merging
    <3>1. n \notin Kept(fetched)
      BY <1>2, <2>2 DEF CommitAll
    <3>2. /\ \A x \in Name \ touched : Carries(head.file[x]) => Carries(mergeHead.file[x])
          /\ Carries(mergeHead.file[n]) => Carries(remote.file[n])
      BY <2>2 DEF OldTrees
    <3>3. Carries(MergedTree(mergeHead, fetched).file[n])
      BY <2>1, <2>2 DEF Here
    <3> QED
      BY <3>1, <3>2, <3>3, MergeCarries
  <2>3. CASE ~Merging
    <3>1. n \notin touched
      BY <1>2, <2>3 DEF CommitAll
    <3> QED
      BY <2>1, <2>3, <3>1 DEF Here, OldTrees
  <2> QED
    BY <2>2, <2>3
<1>3. ~ahead' => touched' = {}
  BY DEF CommitAll, OldTrees
<1> QED
  BY <1>1, <1>2, <1>3 DEF OldTrees

LEMMA OldPush == ASSUME GitOK, Knows, OldTrees, PushOk PROVE OldTrees'
<1>1. /\ ~behind /\ ~Merging /\ remote' = head /\ touched' = {} /\ ahead' = FALSE /\ theirs = {}
      /\ UNCHANGED <<head, work, mergeHead, dirty, theirs, behind>>
  BY DEF PushOk, Knows
<1>2. ~Merging'
  BY <1>1 DEF Merging
<1> QED
  BY <1>1, <1>2 DEF OldTrees

LEMMA OldSame ==
    ASSUME OldTrees, UNCHANGED <<git, work, dirty>> PROVE OldTrees'
BY DEF OldTrees, git, Merging

\* A write that leaves no inline secret.
LEMMA OldWrite ==
    ASSUME OldTrees, UNCHANGED git, HasOld(work'), ~Inline(work') PROVE OldTrees'
<1>1. InlineOld(work'.state)
  BY DEF InlineOld, Inline, HasLegacySecrets
<1> QED
  BY <1>1 DEF OldTrees, git, Merging

\* Every write of a file that takes no copy of it away.
LEMMA KeepsOld ==
    ASSUME NEW t, NEW u, ~Inline(t), HasOld(t),
           \A n \in Name : Carries(t.file[n]) => Carries(u.file[n])
    PROVE  HasOld(u)
BY DEF HasOld

\* The other machine migrates first.
LEMMA StartKeeps ==
    ASSUME GitOK, OldTrees
    PROVE  /\ ~Inline(MigrateIfNeeded(remote)) /\ HasOld(MigrateIfNeeded(remote))
           /\ \A n \in Name : Carries(remote.file[n]) => Carries(MigrateIfNeeded(remote).file[n])
<1> DEFINE start == MigrateIfNeeded(remote)
<1>1. CASE ~Inline(remote)
  BY <1>1 DEF Inline, MigrateIfNeeded, OldTrees
<1>2. CASE Inline(remote)
  <2>1. start = [file |-> [n \in Name |-> MigratedFile(remote, n)], state |-> MigratedState(remote)]
    BY <1>2 DEF MigrateIfNeeded, Inline
  <2>2. ~Inline(start)
    BY <2>1, MigratedNotInline DEF Inline, HasLegacySecrets
  <2>3. \A n \in Name : remote.file[n] = None
    BY <1>2 DEF OldTrees
  <2>4. PICK x \in Name : IsInline(remote.state[x])
    BY <1>2 DEF Inline, HasLegacySecrets
  <2>5. remote.state[x].value = Old
    BY <2>4 DEF OldTrees, InlineOld
  <2>6. start.file[x] = Initial(Old, remote.state[x].refs)
    BY <2>1, <2>3, <2>4, <2>5 DEF MigratedFile, Unwritten
  <2>7. Carries(start.file[x])
    <3>1. /\ Initial(Old, remote.state[x].refs).versions = <<Old>> /\ <<Old>>[1] = Old
          /\ 1 \in DOMAIN <<Old>>
      BY DEF Initial
    <3>2. remote.state[x].refs \in SUBSET RefFile
      BY <2>4, NotInline, TreeParts DEF GitOK, Index, IsInline, IndexEntry, LegacyEntry
    <3>3. Initial(Old, remote.state[x].refs) # None
      BY <3>2, InitialGood, ConstantsAssumption
    <3> QED
      BY <2>6, <3>1, <3>3 DEF Carries, Values
  <2>8. \A n \in Name : ~Carries(remote.file[n])
    BY <2>3 DEF Carries, Values
  <2> QED
    BY <2>2, <2>7, <2>8 DEF HasOld
<1> QED
  BY <1>1, <1>2

\* A command that is no rename keeps it, unless it deletes it.
LEMMA CommandKeeps ==
    ASSUME NEW t, GoodTree(t), ~Inline(t), HasOld(t),
           NEW j, JobOK(j), j.op \in Commands \ {"rename"}, Accepts(t.file, j),
           j.op = "delete" => ~Carries(t.file[j.name])
    PROVE  /\ ~Inline(AfterPeer(t, j)) /\ HasOld(AfterPeer(t, j))
           /\ \A n \in Name : Carries(t.file[n]) => Carries(AfterPeer(t, j).file[n])
<1>1. /\ t.file \in Files /\ t.state \in Index /\ (\A n \in Name : Good(t.file[n]))
  BY TreeParts
<1>2. /\ Target(j) \in Name
      /\ j.op # "delete" => Extends(Saved(t.file, j), t.file[Target(j)])
      /\ Target(j) = j.name
  BY <1>1, SavedGood DEF Target
<1>3. /\ AfterPeer(t, j).file = [t.file EXCEPT ![Target(j)] = Saved(t.file, j)]
      /\ AfterPeer(t, j).state = Reindexed(LoadState(t.state), t.file, j)
  BY DEF AfterPeer
<1>4. ~Inline(AfterPeer(t, j))
  <2>1. LoadState(t.state) \in [Name -> IndexEntry \cup {None}]
    BY <1>1, LoadTyped
  <2>2. Reindexed(LoadState(t.state), t.file, j) \in [Name -> IndexEntry \cup {None}]
    BY <1>1, <2>1, ReindexedTyped
  <2> QED
    BY <1>3, <2>2, NotInline DEF Inline, HasLegacySecrets
<1>5. ASSUME NEW n \in Name, Carries(t.file[n]) PROVE Carries(AfterPeer(t, j).file[n])
  <2>1. CASE n = Target(j)
    <3>1. AfterPeer(t, j).file[n] = Saved(t.file, j)
      BY <1>1, <1>2, <1>3, <2>1 DEF Files
    <3>2. j.op # "delete"
      BY <1>2, <1>5, <2>1
    <3> QED
      BY <1>2, <1>5, <2>1, <3>1, <3>2, ExtendsCarries
  <2>2. CASE n # Target(j)
    BY <1>1, <1>3, <1>5, <2>2 DEF Files
  <2> QED
    BY <2>1, <2>2
<1> QED
  BY <1>4, <1>5, KeepsOld

LEMMA OldPeer ==
    ASSUME "rename" \notin PeerOps, GitOK, OldTrees, Peer, Old \notin erased'
    PROVE  OldTrees'
<1> DEFINE start == MigrateIfNeeded(remote)
<1>1. PICK o \in PeerOps : \E j \in Asked(o) :
        /\ Accepts(start.file, j)
        /\ remote' = AfterPeer(start, j)
        /\ erased' = IF o = "delete" THEN erased \cup Values(start.file[j.name]) ELSE erased
  BY DEF Peer
<1>2. PICK j \in Asked(o) :
        /\ Accepts(start.file, j)
        /\ remote' = AfterPeer(start, j)
        /\ erased' = IF o = "delete" THEN erased \cup Values(start.file[j.name]) ELSE erased
  BY <1>1
<1>3. JobOK(j) /\ j.op \in Commands \ {"rename"} /\ j.op = o
  BY AskedOK, ConstantsAssumption
<1>4. GoodTree(start)
  BY MigrateGood DEF GitOK
<1>5. j.op = "delete" => ~Carries(start.file[j.name])
  BY <1>2, <1>3 DEF Carries
<1>6. /\ ~Inline(start) /\ HasOld(start)
      /\ \A n \in Name : Carries(remote.file[n]) => Carries(start.file[n])
  BY StartKeeps
<1> HIDE DEF start
<1>7. /\ ~Inline(remote') /\ HasOld(remote')
      /\ \A n \in Name : Carries(start.file[n]) => Carries(remote'.file[n])
  BY <1>2, <1>3, <1>4, <1>5, <1>6, CommandKeeps
<1>8. InlineOld(remote'.state)
  BY <1>7 DEF InlineOld, Inline, HasLegacySecrets
<1>9. UNCHANGED <<head, mergeHead, touched, ahead, work, dirty>>
  BY DEF Peer
<1> QED
  BY <1>6, <1>7, <1>8, <1>9 DEF OldTrees, Merging

LEMMA OldMigrateFile == ASSUME GitOK, OldTrees, MigrateFile PROVE OldTrees'
<1>1. PICK n \in Unwritten(work) : WriteFile(n, MigratedFile(work, n))
  BY DEF MigrateFile
<1>2. n \in Name /\ IsInline(work.state[n]) /\ Inline(work)
  BY DEF Unwritten, Inline, HasLegacySecrets
<1>3. work.state[n].value = Old /\ MigratedFile(work, n) = Initial(Old, work.state[n].refs)
  BY <1>2 DEF OldTrees, InlineOld, MigratedFile
<1>4. Carries(MigratedFile(work, n))
  <2>1. /\ Initial(Old, work.state[n].refs).versions = <<Old>> /\ <<Old>>[1] = Old
        /\ 1 \in DOMAIN <<Old>>
    BY DEF Initial
  <2>2. work.state[n].refs \in SUBSET RefFile
    BY <1>2, TreeParts DEF GitOK, Index, IsInline, IndexEntry, LegacyEntry
  <2>3. Initial(Old, work.state[n].refs) # None
    BY <2>2, InitialGood, ConstantsAssumption
  <2> QED
    BY <1>3, <2>1, <2>3 DEF Carries, Values
<1>5. /\ work'.file[n] = MigratedFile(work, n) /\ work'.state = work.state
      /\ \A x \in Name \ {n} : work'.file[x] = work.file[x]
  BY <1>1, <1>2, WrittenFile
<1>6. UNCHANGED git /\ dirty' = dirty \cup {n} /\ n # StatePath
  BY <1>1, <1>2, ConstantsAssumption DEF WriteFile
<1>7. Inline(work') /\ HasOld(work') /\ InlineOld(work'.state)
  BY <1>2, <1>5 DEF Inline, HasOld, OldTrees
<1>8. \A x \in Name : IF x \in dirty' THEN Carries(work'.file[x]) ELSE work'.file[x] = None
  BY <1>2, <1>4, <1>5, <1>6 DEF OldTrees
<1> QED
  BY <1>2, <1>6, <1>7, <1>8 DEF OldTrees, git, Merging

LEMMA WrittenState ==
    ASSUME GitOK, NEW s, WriteState(s) PROVE work'.file = work.file /\ work'.state = s
<1>1. work = [file |-> work.file, state |-> work.state]
  BY TreeParts DEF GitOK
<1>2. work' = [work EXCEPT !.state = s]
  BY DEF WriteState
<1> QED
  BY <1>1, <1>2

\* The index is rewritten only when every inline secret has a file.
LEMMA OldMigrateState ==
    ASSUME GitOK, OldTrees, MigrateState PROVE OldTrees' /\ ~Inline(work')
<1>1. /\ HasLegacySecrets(work.state) /\ Unwritten(work) = {} /\ UNCHANGED git
      /\ WriteState(MigratedState(work))
  BY DEF MigrateState, WriteState
<1>2. work'.file = work.file /\ work'.state = MigratedState(work)
  BY <1>1, WrittenState
<1>3. ~Inline(work')
  BY <1>2, MigratedNotInline DEF Inline, HasLegacySecrets
<1>4. PICK x \in Name : IsInline(work.state[x])
  BY <1>1 DEF HasLegacySecrets
<1>5. work.file[x] # None
  BY <1>1, <1>4 DEF Unwritten
<1>6. Carries(work.file[x])
  BY <1>1, <1>5 DEF Inline, OldTrees
<1>7. HasOld(work')
  BY <1>2, <1>6 DEF HasOld
<1> QED
  BY <1>1, <1>3, <1>7, OldWrite

LEMMA OldApply ==
    ASSUME GitOK, ProcOK, OldTrees, OldSteps, Apply, Old \notin erased' PROVE OldTrees' /\ OldSteps'
<1>1. /\ JobOK(job) /\ job.op \in Commands /\ Accepts(work.file, job) /\ job.name \in Name
      /\ work.file \in Files /\ work.state \in Index /\ (\A n \in Name : Good(work.file[n]))
  BY TreeParts DEF Apply, ProcOK, CommandSteps, JobOK, Job, GitOK
<1>2. /\ Target(job) \in Name
      /\ job.op # "delete" => Extends(Saved(work.file, job), work.file[Target(job)])
  BY <1>1, SavedGood
<1>3. /\ work'.file[Target(job)] = Saved(work.file, job) /\ UNCHANGED git
      /\ \A n \in Name \ {Target(job)} : work'.file[n] = work.file[n]
      /\ work'.state = work.state
  BY <1>2, WrittenFile DEF Apply, WriteFile
<1>4. ~Inline(work) /\ HasOld(work)
  BY DEF Apply, OldSteps, Migrated, OldTrees
<1>5. ASSUME NEW n \in Name, Carries(work.file[n]) PROVE Carries(work'.file[n])
  <2>1. CASE job.op = "delete"
    <3>1. n # job.name /\ Target(job) = job.name
      BY <1>5, <2>1 DEF Apply, Carries, Target
    <3> QED
      BY <1>3, <1>5, <3>1
  <2>2. CASE job.op # "delete"
    BY <1>2, <1>3, <1>5, <2>2, ExtendsCarries
  <2> QED
    BY <2>1, <2>2
<1>6. ~Inline(work') /\ HasOld(work')
  BY <1>3, <1>4, <1>5 DEF Inline, HasOld
<1>7. OldTrees'
  BY <1>3, <1>6, OldWrite
<1>8. \A n \in Name : ~IsInline(mem'[n])
  <2>1. LoadState(work.state) \in [Name -> IndexEntry \cup {None}]
    BY <1>1, LoadTyped
  <2>2. Reindexed(LoadState(work.state), work.file, job) \in [Name -> IndexEntry \cup {None}]
    BY <1>1, <2>1, ReindexedTyped
  <2>3. mem' = Reindexed(LoadState(work.state), work.file, job)
    BY DEF Apply
  <2> QED
    BY <2>2, <2>3, NotInline
<1>9. pc' = "drop_old" => /\ job'.op = "rename" /\ job'.arg # job'.name
                          /\ Carries(work'.file[job'.name]) => Carries(work'.file[job'.arg])
  <2> SUFFICES ASSUME pc' = "drop_old"
               PROVE  /\ job'.op = "rename" /\ job'.arg # job'.name
                      /\ Carries(work'.file[job'.name]) => Carries(work'.file[job'.arg])
    OBVIOUS
  <2>1. job.op = "rename" /\ job' = job
    BY DEF Apply
  <2>2. /\ Target(job) = job.arg /\ Saved(work.file, job) = work.file[job.name]
        /\ work.file[job.name] # None /\ work.file[job.arg] = None
    BY <1>1, <2>1 DEF Target, Saved, Accepts
  <2> QED
    BY <1>1, <1>3, <2>1, <2>2
<1> QED
  BY <1>6, <1>7, <1>8, <1>9 DEF OldSteps

LEMMA OldDrop ==
    ASSUME GitOK, ProcOK, OldTrees, OldSteps, DropOld PROVE OldTrees' /\ OldSteps'
<1>1. /\ job.name \in Name /\ WriteFile(job.name, None) /\ UNCHANGED git /\ pc' = "save"
      /\ UNCHANGED <<mem, job>>
  BY DEF DropOld, ProcOK, JobOK, Job, WriteFile
<1>2. /\ \A n \in Name \ {job.name} : work'.file[n] = work.file[n]
      /\ work'.state = work.state
  BY <1>1, WrittenFile
<1>3. /\ ~Inline(work) /\ HasOld(work) /\ job.arg # job.name
      /\ Carries(work.file[job.name]) => Carries(work.file[job.arg])
  BY DEF DropOld, OldSteps, Migrated, OldTrees
<1>4. PICK x \in Name : Carries(work.file[x])
  BY <1>3 DEF HasOld
<1>5. job.arg \in Name
  <2>1. pc = "drop_old"
    BY DEF DropOld
  <2> QED
    BY <2>1 DEF OldSteps, ProcOK, JobOK
<1>6. HasOld(work')
  BY <1>2, <1>3, <1>4, <1>5 DEF HasOld
<1>7. ~Inline(work')
  BY <1>2, <1>3 DEF Inline
<1> QED
  BY <1>1, <1>6, <1>7, OldWrite DEF OldSteps

\* A command or a sync writes its index: no entry of it is inline.
LEMMA OldIndex ==
    ASSUME GitOK, OldTrees, ~Inline(work), NEW s, \A n \in Name : ~IsInline(s[n]), WriteState(s)
    PROVE  OldTrees' /\ ~Inline(work')
<1>1. work'.file = work.file /\ work'.state = s /\ UNCHANGED git
  BY WrittenState DEF WriteState
<1>2. ~Inline(work')
  BY <1>1 DEF Inline, HasLegacySecrets
<1>3. HasOld(work')
  BY <1>1 DEF OldTrees, HasOld
<1> QED
  BY <1>1, <1>2, <1>3, OldWrite

\* The web UI, at any step of a command.
LEMMA OldCreate ==
    ASSUME Unmigrated = FALSE, GitOK, ProcOK, OldTrees, OldSteps, Old \in used, WebCreate,
           Old \notin erased'
    PROVE  OldTrees' /\ OldSteps'
<1>1. PICK n \in Name :
        /\ work' = [file |-> [work.file EXCEPT ![n] = Initial(NextValue, {})],
                    state |-> [LoadState(work.state) EXCEPT ![n] = [latest |-> 1, count |-> 1]]]
        /\ erased' = erased \cup Values(work.file[n])
  BY DEF WebCreate
<1>2. ~Inline(work) /\ HasOld(work) /\ UNCHANGED <<git, proc>>
  BY DEF WebCreate, MayRewriteState, Inline, OldTrees
<1>3. /\ work.file \in Files /\ work.state \in Index
  BY TreeParts DEF GitOK
<1>4. /\ ~Carries(work.file[n]) /\ work'.file[n] = Initial(NextValue, {})
      /\ \A x \in Name \ {n} : work'.file[x] = work.file[x]
  BY <1>1, <1>3 DEF Carries, Files
<1>5. \A x \in Name : ~IsInline(work'.state[x])
  <2>1. LoadState(work.state) \in [Name -> IndexEntry \cup {None}]
    BY <1>3, LoadTyped
  <2>2. [latest |-> 1, count |-> 1] \in IndexEntry
    BY DEF IndexEntry
  <2>3. [LoadState(work.state) EXCEPT ![n] = [latest |-> 1, count |-> 1]]
            \in [Name -> IndexEntry \cup {None}]
    BY <2>1, <2>2
  <2> QED
    BY <1>1, <2>3, NotInline
<1>6. ~Inline(work')
  BY <1>5 DEF Inline, HasLegacySecrets
<1>7. HasOld(work')
  BY <1>2, <1>4 DEF HasOld
<1>8. ~Carries(work'.file[n])
  BY <1>4, NewIsNotOld DEF WebCreate, WebMayRun
<1>9. \A x \in Name : Carries(work'.file[x]) <=> Carries(work.file[x])
  BY <1>4, <1>8
<1> QED
  BY <1>2, <1>6, <1>7, <1>9, OldWrite DEF OldSteps, proc, ProcOK, JobOK, Job

LEMMA OldRotate ==
    ASSUME GitOK, ProcOK, OldTrees, OldSteps, Old \in used, WebRotate PROVE OldTrees' /\ OldSteps'
<1>1. PICK n \in Name : work.file[n] # None /\ WriteFile(n, AddVersion(work.file[n], NextValue))
  BY DEF WebRotate
<1>2. /\ UNCHANGED <<git, proc>> /\ dirty' = dirty \cup {n} /\ n # StatePath
  BY <1>1, ConstantsAssumption DEF WebRotate, WriteFile
<1>3. /\ work'.file[n] = AddVersion(work.file[n], NextValue) /\ work'.state = work.state
      /\ \A x \in Name \ {n} : work'.file[x] = work.file[x]
  BY <1>1, WrittenFile
<1>4. work.file[n] \in Secret /\ NextValue \in Value
  BY <1>1, TreeParts, NextValueTyped DEF GitOK, Good, WebRotate, WebMayRun
<1>5. Carries(work'.file[n]) <=> Carries(work.file[n])
  <2>1. Extends(work'.file[n], work.file[n])
    BY <1>3, <1>4, AddVersionGood
  <2>2. Carries(work'.file[n]) => Carries(work.file[n])
    BY <1>3, <1>4, NewIsNotOld DEF WebRotate, WebMayRun
  <2> QED
    BY <2>1, <2>2, ExtendsCarries
<1>6. \A x \in Name : Carries(work'.file[x]) <=> Carries(work.file[x])
  BY <1>3, <1>5
<1>7. Inline(work') = Inline(work) /\ HasOld(work') = HasOld(work)
  BY <1>3, <1>6 DEF Inline, HasOld
<1>8. Inline(work) => \A x \in Name : IF x \in dirty' THEN Carries(work'.file[x])
                                      ELSE work'.file[x] = None
  <2>1. Inline(work) => n \in dirty
    BY <1>1 DEF OldTrees
  <2> QED
    BY <1>2, <1>3, <1>6, <2>1 DEF OldTrees
<1>9. OldTrees'
  BY <1>2, <1>3, <1>7, <1>8 DEF OldTrees, git, Merging
<1>10. OldSteps'
  BY <1>2, <1>6, <1>7 DEF OldSteps, proc, ProcOK, JobOK, Job
<1> QED
  BY <1>9, <1>10

\* A process that goes on to a step with pc' changes no more than what git changed.
LEMMA OldGit ==
    ASSUME GitOK, Knows, OldTrees,
           PullOk \/ PullConflict \/ PullFails \/ PushOk \/ PushFails \/ (~Inline(work) /\ CommitAll)
    PROVE  OldTrees'
<1>1. CASE PullCurrent \/ PullFails \/ PushFails
  BY <1>1, OldSame DEF PullCurrent, PullFails, PushFails
<1> QED
  BY <1>1, OldForward, OldMerge, OldConflict, OldPush, OldCommit DEF PullOk

LEMMA OldStep ==
    ASSUME Unmigrated = FALSE, "rename" \notin PeerOps, GitOK, ProcOK, Knows, Old \in used,
           OldTrees, OldSteps, Next, Old \notin erased'
    PROVE  OldTrees' /\ OldSteps'
<1>a. ASSUME pc' \notin Migrated, UNCHANGED mem PROVE OldSteps'
  BY <1>a DEF OldSteps, Migrated
<1>b. ASSUME ~Inline(work), UNCHANGED <<work, mem>>, pc' # "drop_old" PROVE OldSteps'
  BY <1>b DEF OldSteps
<1>c. ASSUME Return PROVE OldSteps'
  <2>1. \A n \in Name : ~IsInline(None)
    BY DEF IsInline
  <2> QED
    BY <1>c, <2>1 DEF Return, NoIndex, OldSteps, Migrated
<1>d. ASSUME pc \in Migrated PROVE ~Inline(work)
  BY <1>d DEF OldSteps
<1>1. CASE Start
  BY <1>1, <1>a, OldSame DEF Start, Migrated
<1>2. CASE Pull
  BY <1>2, <1>a, OldGit DEF Pull, Migrated
<1>3. CASE MigrateFile
  BY <1>3, <1>a, OldMigrateFile DEF MigrateFile, proc, Migrated
<1>4. CASE MigrateState
  BY <1>4, OldMigrateState DEF MigrateState, OldSteps
<1>5. CASE MigrateNothing
  BY <1>5, <1>b, OldSame DEF MigrateNothing, Inline
<1>6. CASE MigrateCommit \/ Commit \/ SyncCommit
  <2>1. ~Inline(work) /\ CommitAll /\ UNCHANGED <<work, mem>> /\ pc' # "drop_old"
    BY <1>6, <1>d DEF MigrateCommit, Commit, SyncCommit, CommitAll, Migrated
  <2> QED
    BY <2>1, <1>b, OldGit
<1>7. CASE MigratePush
  <2>1. ~Inline(work) /\ UNCHANGED <<work, mem>> /\ pc' # "drop_old" /\ (PushOk \/ PushFails)
    BY <1>7, <1>d DEF MigratePush, PushOk, PushFails, Migrated
  <2> QED
    BY <2>1, <1>b, OldGit
<1>8. CASE Apply
  BY <1>8, OldApply
<1>9. CASE DropOld
  BY <1>9, OldDrop
<1>10. CASE Save
  <2>1. /\ ~Inline(work) /\ pc' # "drop_old" /\ mem' = NoIndex
    BY <1>10, <1>d DEF Save, Migrated
  <2>2. OldTrees' /\ ~Inline(work')
    <3>1. CASE UNCHANGED <<git, work, dirty>>
      BY <2>1, <3>1, OldSame
    <3>2. CASE WriteState(mem)
      BY <2>1, <3>2, OldIndex DEF OldSteps
    <3> QED
      BY <1>10, <3>1, <3>2 DEF Save
  <2>3. \A n \in Name : ~IsInline(mem'[n])
    BY <2>1 DEF NoIndex, IsInline
  <2> QED
    BY <2>1, <2>2, <2>3 DEF OldSteps
<1>11. CASE SyncSave
  <2>1. /\ ~Inline(work) /\ pc' # "drop_old" /\ UNCHANGED mem /\ WriteState(LoadState(work.state))
    BY <1>11, <1>d DEF SyncSave, Migrated
  <2>2. \A n \in Name : ~IsInline(LoadState(work.state)[n])
    BY TreeParts, LoadTyped, NotInline DEF GitOK
  <2>3. OldTrees' /\ ~Inline(work')
    BY <2>1, <2>2, OldIndex
  <2> QED
    BY <2>1, <2>3 DEF OldSteps
<1>12. CASE Push
  <2>1. OldTrees'
    BY <1>12, OldGit DEF Push
  <2> QED
    BY <1>12, <2>1, <1>a DEF Push, Succeed, Migrated
<1>13. CASE RetryPull
  <2>1. OldTrees'
    BY <1>13, OldGit DEF RetryPull
  <2> QED
    BY <1>13, <2>1, <1>a, <1>c DEF RetryPull, GiveUp, Migrated
<1>14. CASE RetryPush \/ SyncPush
  <2>1. OldTrees'
    BY <1>14, OldGit DEF RetryPush, SyncPush
  <2> QED
    BY <1>14, <2>1, <1>a, <1>c DEF RetryPush, SyncPush, Succeed, GiveUp, Migrated
<1>15. CASE ApplyFails \/ Finish \/ Crash
  BY <1>15, <1>c, OldSame DEF ApplyFails, Finish, Crash
<1>16. CASE WriteEnvFile
  BY <1>16, <1>a, OldSame DEF WriteEnvFile, Migrated
<1>17. CASE SyncStart
  BY <1>17, <1>b, OldSame DEF SyncStart, MayRewriteState, Inline
<1>18. CASE WebCreate \/ WebRotate
  BY <1>18, OldCreate, OldRotate
<1>19. CASE Peer
  <2>1. OldTrees'
    BY <1>19, OldPeer
  <2>2. UNCHANGED <<work, proc>>
    BY <1>19 DEF Peer
  <2> QED
    BY <2>1, <2>2 DEF OldSteps, proc
<1> QED
  BY <1>1, <1>2, <1>3, <1>4, <1>5, <1>6, <1>7, <1>8, <1>9, <1>10, <1>11, <1>12, <1>13, <1>14, <1>15,
     <1>16, <1>17, <1>18, <1>19 DEF Next, Command, Migrate, Sync

\* What was entered or taken away stays so.
LEMMA EnteredGrows == ASSUME Next PROVE used \subseteq used' /\ erased \subseteq erased'
<1>1. CASE Start
  BY <1>1 DEF Start
<1>2. CASE Pull \/ MigrateFile \/ MigrateState \/ MigrateNothing \/ MigrateCommit \/ MigratePush
  BY <1>2 DEF Pull, MigrateFile, MigrateState, MigrateNothing, MigrateCommit, MigratePush, bounds
<1>3. CASE Apply \/ ApplyFails \/ DropOld \/ Save \/ Commit \/ WriteEnvFile \/ Finish \/ Crash
  BY <1>3 DEF Apply, ApplyFails, DropOld, Save, Commit, WriteEnvFile, Finish, Crash, bounds
<1>4. CASE Push \/ RetryPull \/ RetryPush \/ SyncStart \/ SyncSave \/ SyncCommit \/ SyncPush
  BY <1>4 DEF Push, RetryPull, RetryPush, SyncStart, SyncSave, SyncCommit, SyncPush, Succeed, GiveUp,
     bounds
<1>5. CASE WebCreate \/ WebRotate \/ Peer
  BY <1>5 DEF WebCreate, WebRotate, Peer
<1> QED
  BY <1>1, <1>2, <1>3, <1>4, <1>5 DEF Next, Command, Migrate, Sync

LEMMA OldInit == Init => OldKept
<1> SUFFICES ASSUME Init PROVE OldKept
  OBVIOUS
<1>1. PICK legacy \in {{}, Legacy} :
        LET tree == [file  |-> [n \in Name |-> None],
                     state |-> [n \in Name |-> IF n \in legacy THEN [value |-> Old, refs |-> {}]
                                               ELSE None]]
        IN  /\ remote = tree /\ head = tree /\ work = tree
            /\ mergeHead = None /\ touched = {} /\ dirty = {} /\ theirs = {}
            /\ behind = FALSE /\ ahead = FALSE
            /\ erased = IF legacy = {} THEN {Old} ELSE {}
            /\ pc = "idle" /\ mem = NoIndex /\ used = {Old}
  BY DEF Init
<1> SUFFICES ASSUME legacy # {} PROVE OldTrees /\ OldSteps
  BY <1>1 DEF OldKept
<1> DEFINE s == [n \in Name |-> IF n \in legacy THEN [value |-> Old, refs |-> {}] ELSE None]
<1>2. [value |-> Old, refs |-> {}] # None
  <2>1. [value |-> Old, refs |-> {}] \in LegacyEntry
    BY ConstantsAssumption DEF LegacyEntry
  <2> QED
    BY <2>1, ConstantsAssumption
<1>3. PICK x \in Name : x \in legacy
  BY ConstantsAssumption
<1>4. IsInline(s[x]) /\ \A n \in Name : IsInline(s[n]) => s[n].value = Old
  BY <1>2, <1>3 DEF IsInline
<1>5. /\ remote = head /\ work = head /\ head.state = s /\ \A n \in Name : head.file[n] = None
  BY <1>1
<1> HIDE DEF s
<1>6. Inline(head) /\ HasOld(head) /\ InlineOld(head.state)
  BY <1>3, <1>4, <1>5 DEF Inline, HasLegacySecrets, HasOld, InlineOld
<1>7. OldTrees
  BY <1>1, <1>5, <1>6 DEF OldTrees, Merging
<1>8. OldSteps
  BY <1>1 DEF OldSteps, Migrated, NoIndex, IsInline
<1> QED
  BY <1>7, <1>8

\* However the migration of the legacy format dies, is repeated or meets that of another
\* machine, the value is inline or in a file until somebody removes it.  The other machine
\* does not rename: where it takes the value to a name that was made here meanwhile, the
\* conflict keeps the file of this clone.
THEOREM LegacySurvives ==
    ASSUME Unmigrated = FALSE, "rename" \notin PeerOps PROVE Spec => []LegacyKept
<1>1. IInv /\ OldKept /\ [Next]_vars => OldKept'
  <2> SUFFICES ASSUME IInv, OldKept, [Next]_vars PROVE OldKept'
    OBVIOUS
  <2>1. CASE Next
    <3>1. Old \in used' /\ (Old \in erased => Old \in erased')
      BY <2>1, EnteredGrows DEF OldKept
    <3>2. ASSUME Old \notin erased' PROVE OldTrees' /\ OldSteps'
      BY <2>1, <3>1, <3>2, OldStep DEF OldKept, IInv
    <3> QED
      BY <3>1, <3>2 DEF OldKept
  <2>2. CASE UNCHANGED vars
    <3>1. OldTrees => OldTrees'
      BY <2>2, OldSame DEF vars
    <3>2. OldSteps => OldSteps'
      BY <2>2 DEF vars, proc, OldSteps
    <3> QED
      BY <2>2, <3>1, <3>2 DEF vars, bounds, OldKept
  <2> QED
    BY <2>1, <2>2
<1>2. OldKept => LegacyKept
  <2>1. ASSUME NEW t, HasOld(t), InlineOld(t.state)
        PROVE  Old \in InlineValues(t) \cup UNION {Values(t.file[n]) : n \in Name}
    <3>1. CASE Inline(t)
      BY <2>1, <3>1 DEF Inline, HasLegacySecrets, InlineOld, InlineValues
    <3>2. CASE ~Inline(t)
      BY <2>1, <3>2 DEF HasOld, Carries
    <3> QED
      BY <3>1, <3>2
  <2>2. ASSUME OldKept, NEW t \in {head, work}
        PROVE  Old \in erased \cup InlineValues(t) \cup UNION {Values(t.file[n]) : n \in Name}
    <3>1. CASE Old \in erased
      BY <3>1
    <3>2. CASE Old \notin erased
      <4>1. HasOld(t) /\ InlineOld(t.state)
        BY <2>2, <3>2 DEF OldKept, OldTrees
      <4> QED
        BY <2>1, <4>1
    <3> QED
      BY <3>1, <3>2
  <2> QED
    BY <2>2 DEF LegacyKept
<1> QED
  BY <1>1, <1>2, OldInit, InvHolds, PTL DEF Spec
=============================================================================
