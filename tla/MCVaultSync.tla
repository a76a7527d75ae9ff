---------------------------- MODULE MCVaultSync ----------------------------
(***************************************************************************)
(* VaultSync on small instances: two machines, one or two files.           *)
(***************************************************************************)
EXTENDS VaultSync, TLC

CONSTANTS m1, m2, f1, f2, e1, e2

\* GlobalOwner: every file in a namespace both machines have; or f2 a global file of m1.
Namespaced == [f \in File |-> None]
SecondGlobal == [f \in File |-> IF f = f2 THEN m1 ELSE None]

\* Ops.
SyncOnly == [m \in Machine |-> {"sync", "edit"}]
OneTracks == (m1 :> {"sync", "track", "edit"} @@ m2 :> {"sync", "edit"})
SyncTrack == [m \in Machine |-> {"sync", "track", "edit"}]
SyncTrackDelete == (m1 :> {"sync", "track", "edit"} @@ m2 :> {"sync", "track", "edit", "delete"})
OneUntracks == (m1 :> {"sync", "edit"} @@ m2 :> {"sync", "untrack"})

\* Edits are interchangeable.  Machines and files are not: the cfgs tell them apart.
Symmetry == Permutations(Edit)
=============================================================================
