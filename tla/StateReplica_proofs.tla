-------------------------- MODULE StateReplica_proofs --------------------------
(***************************************************************************)
(* Proofs about StateMerge and StateReplica, for any keys and values.      *)
(***************************************************************************)
EXTENDS StateReplica, TLAPS

-----------------------------------------------------------------------------
(***************************************************************************)
(* One key and one map.                                                    *)
(***************************************************************************)
\* The cases of the driver are the reference's conflicts.
LEMMA DivergedIsConflicting ==
    ASSUME NEW b, NEW l, NEW r PROVE Diverged(b, l, r) <=> Conflicting(b, l, r)
BY DEF Diverged, Changed, Conflicting

LEMMA MapConflictIsConflicting ==
    ASSUME NEW K, NEW b, NEW l, NEW r, DOMAIN b = K
    PROVE  MapConflict(b, l, r) <=> \E k \in K : Conflicting(b[k], l[k], r[k])
BY DivergedIsConflicting DEF MapConflict

\* Swapping the sides changes neither the verdict nor, without a conflict, the result.
LEMMA KeySideBlind ==
    ASSUME NEW b, NEW l, NEW r
    PROVE  /\ Diverged(b, l, r) <=> Diverged(b, r, l)
           /\ ~Diverged(b, l, r) => KeyMerge(b, l, r) = KeyMerge(b, r, l)
BY DEF Diverged, Changed, KeyMerge

LEMMA MapSideBlind ==
    ASSUME NEW b, NEW l, NEW r
    PROVE  /\ MapConflict(b, l, r) <=> MapConflict(b, r, l)
           /\ ~MapConflict(b, l, r) => MapMerge(b, l, r) = MapMerge(b, r, l)
BY KeySideBlind DEF MapConflict, MapMerge

LEMMA KeyMergeIsThreeWay ==
    ASSUME NEW b, NEW l, NEW r, ~Diverged(b, l, r), b # None \/ (l # None /\ r # None)
    PROVE  KeyMerge(b, l, r) = ThreeWay(b, l, r)
BY DEF Diverged, Changed, KeyMerge, ThreeWay

LEMMA KeyMergeType ==
    ASSUME NEW b \in Entry, NEW l \in Entry, NEW r \in Entry PROVE KeyMerge(b, l, r) \in Entry
BY DEF KeyMerge, Entry

-----------------------------------------------------------------------------
LEMMA PutType ==
    ASSUME NEW s \in VaultState, NEW k \in Keys, NEW v \in Entry
    PROVE  Put(s, k, v) \in VaultState
BY DEF Put, Keys, VaultState

LEMMA MergeResultType ==
    ASSUME TypeOK, NEW loaded \in BOOLEAN PROVE MergeResult(loaded) \in VaultState
<1>1. mergeVaultState(base, ours, theirs) \in VaultState
  BY KeyMergeType DEF TypeOK, VaultState, mergeVaultState, MapMerge
<1> QED
  BY <1>1 DEF MergeResult, TypeOK

\* The copies are states, whatever is merged into them.
THEOREM ReplicaTypeCorrect == Spec => []TypeOK
<1>1. Init => TypeOK
  <2>1. EmptyState \in VaultState
    BY DEF EmptyState, VaultState, Entry
  <2> QED
    BY <2>1 DEF Init, TypeOK
<1>2. TypeOK /\ [Next]_vars => TypeOK'
  <2> SUFFICES ASSUME TypeOK, [Next]_vars PROVE TypeOK'
    OBVIOUS
  <2>1. CASE OurChange
    BY <2>1, PutType DEF OurChange, TypeOK
  <2>2. CASE TheirChange
    BY <2>2, PutType DEF TheirChange, TypeOK
  <2>3. CASE Pull
    BY <2>3, MergeResultType DEF Pull, TypeOK
  <2>4. CASE Push
    BY <2>4 DEF Push, TypeOK
  <2>5. CASE UNCHANGED vars
    BY <2>5 DEF vars, TypeOK
  <2> QED
    BY <2>1, <2>2, <2>3, <2>4, <2>5 DEF Next
<1> QED
  BY <1>1, <1>2, PTL DEF Spec

\* The driver stops for a conflict exactly when some key of the three states it is
\* given is in conflict: the two sides moved it, to different values.
THEOREM ConflictDetection == Spec => []ConflictIsDivergence
<1>1. TypeOK => ConflictIsDivergence
  <2> SUFFICES ASSUME TypeOK PROVE ConflictIsDivergence
    OBVIOUS
  <2>1. MapConflict(base.files, ours.files, theirs.files)
          <=> \E k \in FileKey : Conflicting(base.files[k], ours.files[k], theirs.files[k])
    BY MapConflictIsConflicting DEF TypeOK, VaultState
  <2>2. MapConflict(base.secrets, ours.secrets, theirs.secrets)
          <=> \E k \in SecretKey : Conflicting(base.secrets[k], ours.secrets[k], theirs.secrets[k])
    BY MapConflictIsConflicting DEF TypeOK, VaultState
  <2>3. (\E k \in Keys : Conflicting(At(base, k), At(ours, k), At(theirs, k)))
          <=> \/ \E k \in FileKey : Conflicting(base.files[k], ours.files[k], theirs.files[k])
              \/ \E k \in SecretKey : Conflicting(base.secrets[k], ours.secrets[k], theirs.secrets[k])
    <3>1. \A k \in FileKey : /\ [map |-> "files", key |-> k] \in Keys
                             /\ \A s \in VaultState : At(s, [map |-> "files", key |-> k]) = s.files[k]
      BY DEF Keys, At, VaultState
    <3>2. \A k \in SecretKey : /\ [map |-> "secrets", key |-> k] \in Keys
                               /\ \A s \in VaultState :
                                     At(s, [map |-> "secrets", key |-> k]) = s.secrets[k]
      BY DEF Keys, At, VaultState
    <3>3. \A k \in Keys : \/ k.key \in FileKey /\ \A s \in VaultState : At(s, k) = s.files[k.key]
                          \/ k.key \in SecretKey /\ \A s \in VaultState : At(s, k) = s.secrets[k.key]
      BY DEF Keys, At, VaultState
    <3> QED
      BY <3>1, <3>2, <3>3 DEF TypeOK
  <2> QED
    BY <2>1, <2>2, <2>3 DEF ConflictIsDivergence, StateConflict
<1> QED
  BY <1>1, ReplicaTypeCorrect, PTL

\* The verdict, and the merged state, do not depend on which machine merges.
THEOREM MergeSideBlind == Spec => []SideBlind
<1>1. SideBlind
  BY MapSideBlind DEF SideBlind, StateConflict, mergeVaultState
<1> QED
  BY <1>1, PTL

-----------------------------------------------------------------------------
\* What a pull does to one key when the driver merges.
LEMMA MergedKey ==
    ASSUME TypeOK, ~StateConflict(base, ours, theirs), NEW k \in Keys
    PROVE  /\ At(mergeVaultState(base, ours, theirs), k)
                 = KeyMerge(At(base, k), At(ours, k), At(theirs, k))
           /\ ~Diverged(At(base, k), At(ours, k), At(theirs, k))
BY DEF Keys, At, StateConflict, MapConflict, mergeVaultState, MapMerge, TypeOK, VaultState

\* Between two pushes, what no command changed here is as in the base, or gone, unless a
\* merge kept ours; and with no command at all, ours is the base.
Untouched ==
    /\ mine = {} => ours = base /\ ~skipped
    /\ ~skipped => \A k \in Keys : k \in mine \/ At(ours, k) \in {None, At(base, k)}

LEMMA PutElsewhere ==
    ASSUME NEW s \in VaultState, NEW k \in Keys, NEW v, NEW j \in Keys, j # k
    PROVE  At(Put(s, k, v), j) = At(s, j)
BY DEF Put, At, Keys, VaultState

LEMMA UntouchedStays == Spec => []Untouched
<1>1. Init => Untouched
  BY DEF Init, Untouched
<1>2. TypeOK /\ Untouched /\ [Next]_vars => Untouched'
  <2> SUFFICES ASSUME TypeOK, Untouched, [Next]_vars PROVE Untouched'
    OBVIOUS
  <2>1. CASE OurChange
    <3>1. PICK k \in Keys, v \in Entry : ours' = Put(ours, k, v) /\ mine' = mine \cup {k}
      BY <2>1 DEF OurChange
    <3>2. UNCHANGED <<base, skipped>>
      BY <2>1 DEF OurChange
    <3>3. \A j \in Keys : j # k => At(ours', j) = At(ours, j)
      BY <3>1, PutElsewhere DEF TypeOK
    <3> QED
      BY <3>1, <3>2, <3>3 DEF Untouched, At
  <2>2. CASE TheirChange
    BY <2>2 DEF TheirChange, Untouched, At
  <2>3. CASE Pull
    <3>1. PICK loaded \in BOOLEAN :
             /\ ours' = MergeResult(loaded)
             /\ skipped' = (skipped \/ (mine # {} /\ ~Merges(loaded)))
      BY <2>3 DEF Pull
    <3>2. base' = theirs /\ mine' = mine
      BY <2>3 DEF Pull
    <3>3. CASE mine = {}
      <4>1. ours' = theirs
        BY <3>1, <3>3 DEF MergeResult
      <4> QED
        BY <3>1, <3>2, <3>3, <4>1 DEF Untouched, At
    <3>4. CASE mine # {} /\ ~Merges(loaded)
      BY <3>1, <3>2, <3>4 DEF Untouched
    <3>5. CASE mine # {} /\ Merges(loaded)
      <4>0. skipped \in BOOLEAN
        BY DEF TypeOK
      <4>1. ours' = mergeVaultState(base, ours, theirs) /\ skipped' = skipped
        <5>1. Merges(loaded)
          BY <3>5 DEF Merges
        <5>2. ours' = mergeVaultState(base, ours, theirs)
          BY <3>1, <3>5, <5>1 DEF MergeResult
        <5> QED
          BY <3>1, <4>0, <5>1, <5>2, Zenon
      <4>2. ~StateConflict(base, ours, theirs)
        BY <3>5 DEF Merges
      <4>3. ASSUME ~skipped, NEW k \in Keys, k \notin mine
            PROVE  At(ours', k) \in {None, At(theirs, k)}
        <5>1. At(ours, k) \in {None, At(base, k)}
          BY <4>3 DEF Untouched
        <5>2. At(ours', k) = KeyMerge(At(base, k), At(ours, k), At(theirs, k))
          BY <4>1, <4>2, MergedKey
        <5> QED
          BY <5>1, <5>2 DEF KeyMerge, Changed
      <4> QED
        BY <3>2, <3>5, <4>1, <4>3 DEF Untouched, At
    <3> QED
      BY <3>3, <3>4, <3>5
  <2>4. CASE Push
    BY <2>4 DEF Push, Untouched, At
  <2>5. CASE UNCHANGED vars
    BY <2>5 DEF vars, Untouched, At
  <2> QED
    BY <2>1, <2>2, <2>3, <2>4, <2>5 DEF Next
<1> QED
  BY <1>1, <1>2, ReplicaTypeCorrect, PTL DEF Spec

\* A pull merges whole states, each known entry to its three-way value, or leaves ours
\* as it is.
THEOREM WholeMergeOrNone == Spec => MergedOrKept
<1> DEFINE Result(k, s) ==
        /\ ~Conflicting(At(base, k), At(ours, k), At(theirs, k))
        /\ At(base, k) # None \/ (At(ours, k) # None /\ At(theirs, k) # None) =>
               At(s, k) = ThreeWay(At(base, k), At(ours, k), At(theirs, k))
        /\ At(s, k) \in {At(ours, k), At(theirs, k), None}
<1>1. TypeOK /\ Untouched /\ Pull => ours' = ours \/ \A k \in Keys : Result(k, ours')
  <2> SUFFICES ASSUME TypeOK, Untouched, Pull, ours' # ours, NEW k \in Keys
               PROVE  Result(k, ours')
    OBVIOUS
  <2>1. PICK loaded \in BOOLEAN : ours' = MergeResult(loaded)
    BY DEF Pull
  <2>2. CASE mine = {}
    BY <2>1, <2>2 DEF MergeResult, Untouched, Conflicting, ThreeWay
  <2>3. CASE mine # {}
    <3>1. /\ ours' = mergeVaultState(base, ours, theirs)
          /\ ~StateConflict(base, ours, theirs)
      BY <2>1, <2>3 DEF MergeResult, Merges
    <3>2. /\ At(ours', k) = KeyMerge(At(base, k), At(ours, k), At(theirs, k))
          /\ ~Diverged(At(base, k), At(ours, k), At(theirs, k))
      BY <3>1, MergedKey
    <3>3. At(ours', k) \in {At(ours, k), At(theirs, k), None}
      BY <3>2 DEF KeyMerge
    <3> QED
      BY <3>2, <3>3, DivergedIsConflicting, KeyMergeIsThreeWay
  <2> QED
    BY <2>2, <2>3
<1> QED
  BY <1>1, ReplicaTypeCorrect, UntouchedStays, PTL DEF Spec, MergedOrKept

\* Whatever was pulled and merged in between, a push gives new values only to entries that
\* commands changed here, unless a merge kept ours.
THEOREM OthersNotTakenBack == Spec => PushesOwnChanges
<1>1. TypeOK /\ Untouched =>
         (Push /\ ~skipped =>
             \A k \in Keys : At(theirs', k) \notin {None, At(theirs, k)} => k \in mine)
  BY DEF Push, Untouched
<1> QED
  BY <1>1, ReplicaTypeCorrect, UntouchedStays, PTL DEF Spec, PushesOwnChanges
=============================================================================
