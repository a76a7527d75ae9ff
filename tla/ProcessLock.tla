----------------------------- MODULE ProcessLock -----------------------------
(***************************************************************************)
(* The PID lock file of mutating commands: internal/lock, and mustLock of  *)
(* internal/cmd/root.go.  A command takes the lock, works, and removes the *)
(* file; one that finds the lock held gives up.  The lock of a dead        *)
(* process is stale and is removed by whoever finds it.  Commands start    *)
(* and run at any time, next to other programs of the same user, whose     *)
(* processes take PIDs from the same supply.  The directory is writable.   *)
(***************************************************************************)
EXTENDS Naturals, FiniteSets

CONSTANTS
    Command,    \* shells that run commands, one at a time each
    Pid,        \* process identifiers: the system reuses those of dead processes
    None,       \* no file, no process
    Empty,      \* content of a lock file just created
    MaxOthers,  \* bound on the other processes that run at once
    MaxCrashes  \* bound on the number of crashes

LockFile == [by : Command, says : {Empty} \cup Pid]

ASSUME LockAssumption ==
    /\ None \notin LockFile
    /\ None \notin Command \cup Pid /\ Empty \notin Pid
    /\ MaxOthers \in Nat
    /\ MaxCrashes \in Nat

VARIABLES
    file,    \* the file at the lock's path: who created it and what it says, or None
    pid,     \* pid[c]: PID of c's process, None when none runs
    pc,      \* pc[c]: where it is
    others,  \* PIDs of the user's processes that are no commands of dhd
    crashes  \* crashes so far

vars == <<file, pid, pc, others, crashes>>

Acquiring == {"create", "write", "read", "remove"}

TypeOK ==
    /\ file \in {None} \cup LockFile
    /\ pid \in [Command -> {None} \cup Pid]
    /\ pc \in [Command -> {"off", "held"} \cup Acquiring]
    /\ \A c \in Command : pid[c] = None <=> pc[c] = "off"
    /\ others \subseteq Pid
    /\ crashes \in 0 .. MaxCrashes

Init ==
    /\ file = None
    /\ pid = [c \in Command |-> None]
    /\ pc = [c \in Command |-> "off"]
    /\ others = {}
    /\ crashes = 0

-----------------------------------------------------------------------------
\* Mutant: the lock file is opened without O_EXCL.
CreateOver(c) ==
    /\ pc[c] = "create"
    /\ file' = [by |-> c, says |-> Empty] /\ pc' = [pc EXCEPT ![c] = "write"]
    /\ UNCHANGED <<pid, others, crashes>>

\* Mutant: every process is taken for dead.
NeverAlive(p) == FALSE

\* Any process that takes the signal counts, a command of dhd or not.
processAlive(p) == p \in others \/ \E c \in Command : pid[c] = p

Goto(c, label) == pc' = [pc EXCEPT ![c] = label]

\* Mutant: the process stays in the process table.
ExitKeepsPid(c) == Goto(c, "off") /\ UNCHANGED pid

Exit(c) == Goto(c, "off") /\ pid' = [pid EXCEPT ![c] = None]

Start(c) ==
    /\ pc[c] = "off"
    /\ \E p \in Pid : ~processAlive(p) /\ pid' = [pid EXCEPT ![c] = p]
    /\ Goto(c, "create")
    /\ UNCHANGED <<file, others, crashes>>

\* open with O_CREATE|O_EXCL.
Create(c) ==
    /\ pc[c] = "create"
    /\ IF file = None
       THEN file' = [by |-> c, says |-> Empty] /\ Goto(c, "write")
       ELSE Goto(c, "read") /\ UNCHANGED file
    /\ UNCHANGED <<pid, others, crashes>>

\* The PID goes to the file that was created, wherever the path leads by now.
WritePid(c) ==
    /\ pc[c] = "write"
    /\ file' = IF file # None /\ file.by = c THEN [file EXCEPT !.says = pid[c]] ELSE file
    /\ Goto(c, "held")
    /\ UNCHANGED <<pid, others, crashes>>

\* A lock that cannot be read, names no PID or names a dead process is stale.
Stale(f) == f = None \/ f.says = Empty \/ ~processAlive(f.says)

\* Mutant: a stale lock stops the command like any other.
ReadStops(c) ==
    /\ pc[c] = "read"
    /\ Exit(c)
    /\ UNCHANGED <<file, others, crashes>>

Read(c) ==
    /\ pc[c] = "read"
    /\ IF Stale(file) THEN Goto(c, "remove") /\ UNCHANGED pid ELSE Exit(c)
    /\ UNCHANGED <<file, others, crashes>>

\* Whatever is at the path is removed, and Acquire starts again.
RemoveStale(c) ==
    /\ pc[c] = "remove"
    /\ file' = None
    /\ Goto(c, "create")
    /\ UNCHANGED <<pid, others, crashes>>

\* The command is done: Release, and the process exits.
Release(c) ==
    /\ pc[c] = "held"
    /\ file' = None
    /\ Exit(c)
    /\ UNCHANGED <<others, crashes>>

\* The process is killed: the file stays, as far as it was written.
Crash(c) ==
    /\ pc[c] # "off" /\ crashes < MaxCrashes
    /\ crashes' = crashes + 1
    /\ Exit(c)
    /\ UNCHANGED <<file, others>>

Step(c) == Create(c) \/ WritePid(c) \/ Read(c) \/ RemoveStale(c) \/ Release(c)

\* Other programs start and end; one may be given the PID that a stale lock names.
OtherStarts ==
    /\ Cardinality(others) < MaxOthers
    /\ \E p \in Pid : ~processAlive(p) /\ others' = others \cup {p}
    /\ UNCHANGED <<file, pid, pc, crashes>>

OtherExits ==
    /\ \E p \in others : others' = others \ {p}
    /\ UNCHANGED <<file, pid, pc, crashes>>

Next == OtherStarts \/ OtherExits \/ \E c \in Command : Start(c) \/ Step(c) \/ Crash(c)

Spec == Init /\ [][Next]_vars

\* A started command runs on; users start commands again and again.
FairSpec == Spec /\ \A c \in Command : WF_vars(Step(c)) /\ WF_vars(Start(c))

-----------------------------------------------------------------------------
(***************************************************************************)
(* Properties.                                                             *)
(***************************************************************************)
\* "Lock manages an exclusive process lock" (lock.go:27): one command at a time works.
MutualExclusion == \A c, d \in Command : pc[c] = "held" /\ pc[d] = "held" => c = d

Holders == {c \in Command : pc[c] = "held"}

\* c works, the file says so, and nobody else works, is about to, or has found the
\* file stale and is about to remove it.
ForItself(c) ==
    /\ pc[c] = "held" /\ file = [by |-> c, says |-> pid[c]]
    /\ \A d \in Command \ {c} : pc[d] \notin {"held", "write", "remove"}

Abstract == INSTANCE Guard WITH holders <- Holders,
                                secure <- {c \in Command : ForItself(c)}

\* The file, its PIDs and the removal of stale locks implement the promise of Guard: a
\* command that has the lock for itself keeps it, and keeps out all that come later,
\* until it leaves or dies, in whatever order others read, write, remove and crash and
\* whoever gets the PIDs of the dead.
LockGuards == Abstract!Spec

\* The PID in the file is that of a live process which is not the command that
\* holds the lock: the system has given it away again.
Reused ==
    /\ file # None /\ file.says # Empty /\ processAlive(file.says)
    /\ ~(pc[file.by] = "held" /\ pid[file.by] = file.says)

\* "Stale locks (from crashed processes) are cleaned up automatically" (lock.go:28):
\* whatever crashed, at whatever point, and however commands steal the lock from each
\* other, some command gets to work again and again, unless a stale lock is found
\* again and again while another process has the PID in it.
WorkGoesOn == []<>(\E c \in Command : pc[c] = "held") \/ []<>Reused
=============================================================================
