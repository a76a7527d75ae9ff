-------------------------- MODULE ProcessLock_proofs --------------------------
(***************************************************************************)
(* A command that has the lock for itself keeps it until it leaves,        *)
(* whoever comes later, whatever crashes and whatever PIDs are used again. *)
(***************************************************************************)
EXTENDS ProcessLock, TLAPS

LEMMA LockInit == Init => TypeOK
BY LockAssumption DEF Init, TypeOK, LockFile, Acquiring

\* The variables keep their types through every step.
LEMMA LockTypeStep == TypeOK /\ [Next]_vars => TypeOK'
<1> SUFFICES ASSUME TypeOK, [Next]_vars PROVE TypeOK'
  OBVIOUS
<1> USE LockAssumption DEF TypeOK, LockFile, Acquiring, Goto, Exit
<1>1. ASSUME NEW c \in Command, Start(c) PROVE TypeOK'
  BY <1>1 DEF Start
<1>2. ASSUME NEW c \in Command, Create(c) PROVE TypeOK'
  BY <1>2 DEF Create
<1>3. ASSUME NEW c \in Command, WritePid(c) PROVE TypeOK'
  BY <1>3 DEF WritePid
<1>4. ASSUME NEW c \in Command, Read(c) PROVE TypeOK'
  BY <1>4 DEF Read
<1>5. ASSUME NEW c \in Command, RemoveStale(c) PROVE TypeOK'
  BY <1>5 DEF RemoveStale
<1>6. ASSUME NEW c \in Command, Release(c) PROVE TypeOK'
  BY <1>6 DEF Release
<1>7. ASSUME NEW c \in Command, Crash(c) PROVE TypeOK'
  BY <1>7 DEF Crash
<1>8. CASE OtherStarts \/ OtherExits
  BY <1>8 DEF OtherStarts, OtherExits
<1>9. CASE UNCHANGED vars
  BY <1>9 DEF vars
<1> QED
  BY <1>1, <1>2, <1>3, <1>4, <1>5, <1>6, <1>7, <1>8, <1>9 DEF Next, Step

\* Types of the lock file, the process table and the commands' places in the code.
THEOREM LockTypeCorrect == Spec => []TypeOK
BY LockInit, LockTypeStep, PTL DEF Spec

-----------------------------------------------------------------------------
Secure == {c \in Command : ForItself(c)}

\* The variables of the lock that is implemented.
abstract == <<Holders, Secure>>

LEMMA SecureIsOnlyHolder == Secure \in SUBSET Abstract!OnlyOne(Holders)
BY DEF Secure, ForItself, Holders, Abstract!OnlyOne

\* Nobody who is about to change the file or works goes along with a secure holder.
LEMMA SecureExcludes ==
    ASSUME NEW c \in Command, pc[c] \in {"held", "write", "remove"}, ~ForItself(c)
    PROVE  Secure = {}
BY DEF Secure, ForItself

\* A secure holder keeps what it has while nobody else changes the file or its state.
LEMMA SecureHolderLives ==
    ASSUME TypeOK, NEW c \in Command, ForItself(c)
    PROVE  file # None /\ ~Stale(file)
BY LockAssumption DEF TypeOK, LockFile, ForItself, Stale, processAlive

\* Every step of Acquire, Release and a crash is an entry, a leave, or the settling of a
\* race; the one fact it takes is that who finds the lock of a secure holder gives up.
LEMMA LockStep ==
    ASSUME TypeOK, [Next]_vars PROVE [Abstract!Next]_abstract
<1> USE LockAssumption DEF TypeOK, Acquiring
<1>0. Secure' \in SUBSET Abstract!OnlyOne(Holders')
  BY DEF Secure, ForItself, Holders, Abstract!OnlyOne
<1>1. ASSUME NEW c \in Command, WritePid(c) PROVE Abstract!Enter(c)
  <2>1. Secure = {}
    BY <1>1, SecureExcludes DEF WritePid, ForItself
  <2>2. c \notin Holders /\ Holders' = Holders \cup {c}
    BY <1>1 DEF WritePid, Goto, Holders
  <2> QED
    BY <2>1, <2>2, <1>0 DEF Abstract!Enter, Secure
<1>2. ASSUME NEW c \in Command, pc[c] = "held", Release(c) \/ Crash(c) PROVE Abstract!Leave(c)
  <2>1. c \in Holders /\ Holders' = Holders \ {c}
    BY <1>2 DEF Release, Crash, Exit, Goto, Holders
  <2> QED
    BY <2>1, <1>0 DEF Abstract!Leave, Secure
<1>3. ASSUME NEW c \in Command, pc[c] # "held", Crash(c) PROVE [Abstract!Next]_abstract
  <2>1. Holders' = Holders
    BY <1>3 DEF Crash, Exit, Goto, Holders
  <2>2. Secure \subseteq Secure'
    BY <1>3 DEF Crash, Exit, Goto, Secure, ForItself
  <2>3. Secure = {} \/ Secure' = Secure
    BY <2>1, <2>2, <1>0, SecureIsOnlyHolder DEF Abstract!OnlyOne
  <2> QED
    BY <2>1, <2>3, <1>0 DEF Abstract!Next, Abstract!Settle, abstract, Secure
<1>4. ASSUME NEW c \in Command, RemoveStale(c) PROVE UNCHANGED abstract
  <2>1. Holders' = Holders
    BY <1>4 DEF RemoveStale, Goto, Holders
  <2>2. Secure = {}
    BY <1>4, SecureExcludes DEF RemoveStale, ForItself
  <2>3. Secure' = {}
    BY <1>4 DEF RemoveStale, Goto, Secure, ForItself, LockFile
  <2> QED
    BY <2>1, <2>2, <2>3 DEF abstract
<1>5. ASSUME NEW c \in Command, Read(c) PROVE UNCHANGED abstract
  <2>1. Holders' = Holders
    BY <1>5 DEF Read, Exit, Goto, Holders
  <2>2. ASSUME NEW d \in Command PROVE ForItself(d)' <=> ForItself(d)
    <3>1. CASE Stale(file)
      BY <1>5, <3>1, SecureHolderLives DEF Read, Goto, ForItself
    <3>2. CASE ~Stale(file)
      BY <1>5, <3>2 DEF Read, Exit, Goto, ForItself
    <3> QED
      BY <3>1, <3>2
  <2> QED
    BY <2>1, <2>2 DEF abstract, Secure
<1>6. ASSUME NEW c \in Command, Create(c) PROVE UNCHANGED abstract
  <2>1. Holders' = Holders
    BY <1>6 DEF Create, Goto, Holders
  <2>2. ASSUME NEW d \in Command PROVE ForItself(d)' <=> ForItself(d)
    BY <1>6 DEF Create, Goto, ForItself, LockFile
  <2> QED
    BY <2>1, <2>2 DEF abstract, Secure
<1>7. ASSUME NEW c \in Command, Start(c) PROVE UNCHANGED abstract
  <2>1. Holders' = Holders
    BY <1>7 DEF Start, Goto, Holders
  <2>2. ASSUME NEW d \in Command PROVE ForItself(d)' <=> ForItself(d)
    BY <1>7 DEF Start, Goto, ForItself
  <2> QED
    BY <2>1, <2>2 DEF abstract, Secure
<1>8. CASE OtherStarts \/ OtherExits \/ UNCHANGED vars
  BY <1>8 DEF OtherStarts, OtherExits, vars, abstract, Holders, Secure, ForItself
<1> QED
  BY <1>1, <1>2, <1>3, <1>4, <1>5, <1>6, <1>7, <1>8
     DEF Next, Step, Release, Abstract!Next

\* The lock file gives what Guard promises, with no assumption on when commands start,
\* crash or get which PID: who has the lock for itself is never joined or robbed.
THEOREM LockKeepsOut == Spec => LockGuards
<1>1. Init => Abstract!Init
  BY LockAssumption DEF Init, Abstract!Init, Holders, ForItself
<1>2. TypeOK /\ [Next]_vars => [Abstract!Next]_abstract
  BY LockStep
<1>3. [Abstract!Next]_abstract <=> [Abstract!Next]_(Abstract!vars)
  BY DEF abstract, Abstract!vars, Secure
<1> QED
  BY <1>1, <1>2, <1>3, LockTypeCorrect, PTL DEF Spec, LockGuards, Abstract!Spec
=============================================================================
