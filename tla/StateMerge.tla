----------------------------- MODULE StateMerge -----------------------------
(***************************************************************************)
(* The three-way merge of the vault state, internal/merge/state.go.        *)
(*                                                                         *)
(* state.toml holds two maps: tracked files by "namespace:relPath" and the *)
(* secret index by name.  The driver merges both key by key, with the same *)
(* rules; a file entry counts as changed when its Checksum differs, an     *)
(* index entry when its UpdatedAt does.  Here a map is a function from     *)
(* keys to values, None marks a key that is not in the map, and a value    *)
(* stands for the field that is compared.                                  *)
(***************************************************************************)
CONSTANT None

(***************************************************************************)
(* One key: base b, local l, remote r.                                     *)
(***************************************************************************)
\* A side changed the key: it has it, and the base lacked it or had another value.
Changed(b, s) == s # None /\ s # b

\* Mutant: a key deleted on one side and changed on the other is no conflict.
DivergedEdits(b, l, r) == Changed(b, l) /\ Changed(b, r) /\ l # r

\* Mutant: a key that the remote deleted and we changed is no conflict.
DivergedLocalDelete(b, l, r) ==
    \/ b # None /\ l = None /\ Changed(b, r)
    \/ Changed(b, l) /\ Changed(b, r) /\ l # r

\* Deleted on one side and changed on the other, or changed on both to
\* different values (an addition on both sides is such a change).
Diverged(b, l, r) ==
    \/ b # None /\ l = None /\ Changed(b, r)
    \/ b # None /\ r = None /\ Changed(b, l)
    \/ Changed(b, l) /\ Changed(b, r) /\ l # r

\* Mutant: a key that one side lacks is taken from the other.
KeyMergeRevives(b, l, r) ==
    IF l = None THEN r
    ELSE IF r = None THEN l
    ELSE IF Changed(b, r) /\ ~Changed(b, l) THEN r
    ELSE l

\* Mutant: a key that both sides have keeps our value.
KeyMergeOurs(b, l, r) == IF l = None \/ r = None THEN None ELSE l

\* The two "one-sided delete" cases of the switch come before the cases for a
\* key with no base, so they also take a key that one side has just added.
KeyMerge(b, l, r) ==
    IF l = None \/ r = None THEN None
    ELSE IF Changed(b, r) /\ ~Changed(b, l) THEN r
    ELSE l

(***************************************************************************)
(* Whole maps.  One diverged key makes the whole merge a conflict.         *)
(***************************************************************************)
MapConflict(b, l, r) == \E k \in DOMAIN b : Diverged(b[k], l[k], r[k])

\* Mutant: only the base's keys are merged.
MapMergeBaseKeys(b, l, r) ==
    [k \in {x \in DOMAIN b : b[x] # None} |-> KeyMerge(b[k], l[k], r[k])]

MapMerge(b, l, r) == [k \in DOMAIN b |-> KeyMerge(b[k], l[k], r[k])]

(***************************************************************************)
(* The state: both maps.                                                   *)
(***************************************************************************)
StateConflict(b, l, r) ==
    MapConflict(b.files, l.files, r.files) \/ MapConflict(b.secrets, l.secrets, r.secrets)

mergeVaultState(b, l, r) ==
    [files   |-> MapMerge(b.files, l.files, r.files),
     secrets |-> MapMerge(b.secrets, l.secrets, r.secrets)]
=============================================================================
