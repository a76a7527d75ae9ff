---------------------------- MODULE StateReplica ----------------------------
(***************************************************************************)
(* state.toml.age in a clone that has the merge driver of `dhd git setup`: *)
(* commands of this machine and of the others change their copies of it,   *)
(* git pull merges the others' copy in through `dhd merge`                 *)
(* (internal/cmd/merge.go, internal/merge/state.go), git push publishes.   *)
(*                                                                         *)
(* A value is what the driver compares of an entry: the checksum of a      *)
(* tracked file, the UpdatedAt of a secret.                                *)
(***************************************************************************)
EXTENDS StateMerge

CONSTANTS
    FileKey,    \* keys of the Files map
    SecretKey,  \* keys of the Secrets map
    Value       \* checksums and times: a bound on how many there are

ASSUME ReplicaAssumption == None \notin Value

VARIABLES
    base,    \* the state both copies come from
    ours,    \* the state in this clone's HEAD
    theirs,  \* the state in the remote
    mine,    \* keys that commands changed here since the last push
    skipped  \* has a merge since then kept ours as it was?

vars == <<base, ours, theirs, mine, skipped>>

Entry == {None} \cup Value
VaultState == [files : [FileKey -> Entry], secrets : [SecretKey -> Entry]]

Keys == [map : {"files"}, key : FileKey] \cup [map : {"secrets"}, key : SecretKey]
At(s, k) == s[k.map][k.key]

TypeOK ==
    /\ base \in VaultState /\ ours \in VaultState /\ theirs \in VaultState
    /\ mine \subseteq Keys /\ skipped \in BOOLEAN

EmptyState == [files |-> [k \in FileKey |-> None], secrets |-> [k \in SecretKey |-> None]]

Init ==
    /\ base = EmptyState /\ ours = EmptyState /\ theirs = EmptyState
    /\ mine = {} /\ skipped = FALSE

-----------------------------------------------------------------------------
\* One command's change to a state: an entry added, changed or deleted.
Put(s, k, v) ==
    IF k.map = "files" THEN [s EXCEPT !.files[k.key] = v] ELSE [s EXCEPT !.secrets[k.key] = v]

OurChange ==
    \E k \in Keys, v \in Entry :
        /\ ours' = Put(ours, k, v)
        /\ mine' = mine \cup {k}
        /\ UNCHANGED <<base, theirs, skipped>>

TheirChange ==
    \E k \in Keys, v \in Entry :
        /\ theirs' = Put(theirs, k, v)
        /\ UNCHANGED <<base, ours, mine, skipped>>

\* git merge takes their file when ours has not been written since, and calls the
\* driver when both have: it decrypts the three versions and merges them.  It cannot
\* when the vault does not load, in a process of its own, or an entry has diverged:
\* it then keeps ours and reports success, and git takes the merge for done.
Merges(loaded) == loaded /\ ~StateConflict(base, ours, theirs)

MergeResult(loaded) ==
    IF mine = {} THEN theirs
    ELSE IF Merges(loaded) THEN mergeVaultState(base, ours, theirs) ELSE ours

Pull ==
    \E loaded \in BOOLEAN :
        /\ theirs # base
        /\ ours' = MergeResult(loaded)
        /\ skipped' = (skipped \/ (mine # {} /\ ~Merges(loaded)))
        /\ base' = theirs
        /\ UNCHANGED <<theirs, mine>>

\* git push takes effect only on top of what was pulled.
Push ==
    /\ theirs = base
    /\ theirs' = ours
    /\ base' = ours
    /\ mine' = {} /\ skipped' = FALSE
    /\ UNCHANGED ours

Next == OurChange \/ TheirChange \/ Pull \/ Push

Spec == Init /\ [][Next]_vars

-----------------------------------------------------------------------------
\* The reference: a key is in conflict when both sides moved it, to different
\* values, absence being a value; otherwise the side that moved it has its way.
Conflicting(b, l, r) == l # b /\ r # b /\ l # r
ThreeWay(b, l, r) == IF l = b THEN r ELSE l

\* The driver reports a conflict exactly when some key is in conflict: it neither
\* merges over a divergence nor stops for changes that agree.
ConflictIsDivergence ==
    StateConflict(base, ours, theirs)
        <=> \E k \in Keys : Conflicting(At(base, k), At(ours, k), At(theirs, k))

\* The machine that merges does not matter: had the others pulled our copy instead,
\* they would have stopped for the same conflict or come to the same state.
SideBlind ==
    /\ StateConflict(base, ours, theirs) <=> StateConflict(base, theirs, ours)
    /\ ~StateConflict(base, ours, theirs) =>
           mergeVaultState(base, ours, theirs) = mergeVaultState(base, theirs, ours)

\* A pull merges whole states or nothing: it leaves ours as it was, or no key was in
\* conflict and every entry that the base or both sides have gets its three-way value.
\* An entry that one side alone added gets that side's value or is dropped, which is what
\* AdditionsMerged is about.
MergedOrKept ==
    [][Pull => \/ ours' = ours
               \/ \A k \in Keys :
                    LET b == At(base, k)
                        l == At(ours, k)
                        r == At(theirs, k)
                    IN  /\ ~Conflicting(b, l, r)
                        /\ b # None \/ (l # None /\ r # None) => At(ours', k) = ThreeWay(b, l, r)
                        /\ At(ours', k) \in {l, r, None}]_vars

\* However many pulls, merges and changes of the others lie between, a push puts a new
\* value or an old one only into entries that commands changed on this machine since the
\* last push: the others' changes are not taken back.  It is stated of pushes with no
\* merge before them that kept ours whole (SkippedRetried), and of values: an entry that
\* the others added may go (AdditionsMerged).
PushesOwnChanges ==
    [][Push /\ ~skipped =>
          \A k \in Keys : At(theirs', k) \notin {None, At(theirs, k)} => k \in mine]_vars

(***************************************************************************)
(* What comments in the code say and the code does not do.                 *)
(***************************************************************************)
\* "Keep local and report success so Git doesn't mark it conflicted.  The next sync will
\* retry." (merge.go:91): what such a merge left out is merged before a push takes it back.
SkippedRetried ==
    [][Push => \A k \in Keys : At(theirs', k) \notin {None, At(theirs, k)} => k \in mine]_vars

\* "Machine A adding a file + Machine B adding a different file -> auto-merges"
\* (state.go:26): an entry that one side added is in the merged state.
AdditionsMerged ==
    [][Pull /\ ours' # ours =>
          \A k \in Keys : At(base, k) = None =>
             At(ours', k) = ThreeWay(None, At(ours, k), At(theirs, k))]_vars
=============================================================================
