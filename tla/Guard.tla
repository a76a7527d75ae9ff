-------------------------------- MODULE Guard --------------------------------
(***************************************************************************)
(* What the lock file does promise.  Not that one command at a time works: *)
(* of commands that look for the lock at once, several may get it.  But a  *)
(* command that has the lock for itself keeps it for itself, whoever comes *)
(* later and whatever crashes, until it leaves.  ProcessLock implements    *)
(* this with a file and PIDs.                                              *)
(***************************************************************************)
CONSTANT Command
VARIABLES
    holders, \* commands that work, believing that they hold the lock
    secure   \* the one that has it for itself, if there is one

vars == <<holders, secure>>

OnlyOne(h) == {c \in h : h = {c}}

Init == holders = {} /\ secure = {}

\* Nobody gets in while somebody has the lock for itself.
Enter(c) ==
    /\ secure = {} /\ c \notin holders
    /\ holders' = holders \cup {c}
    /\ secure' \in SUBSET OnlyOne(holders')

\* The command is done, or it died.
Leave(c) ==
    /\ c \in holders
    /\ holders' = holders \ {c}
    /\ secure' \in SUBSET OnlyOne(holders')

\* The last rival on its way in has gone.
Settle ==
    /\ secure = {}
    /\ secure' \in SUBSET OnlyOne(holders)
    /\ UNCHANGED holders

Next == Settle \/ \E c \in Command : Enter(c) \/ Leave(c)

Spec == Init /\ [][Next]_vars
=============================================================================
