-------------------------- MODULE LocalConfig_proofs --------------------------
(***************************************************************************)
(* However commands and cycles of the daemon overlap and crash: a save     *)
(* undoes only what was saved while its process ran, and the salt of the   *)
(* identity is in the config unless somebody met a half-written one.       *)
(***************************************************************************)
EXTENDS LocalConfig, TLAPS

-----------------------------------------------------------------------------
(***************************************************************************)
(* The config in memory and in the file.                                   *)
(***************************************************************************)
LEMMA BlankTyped == Blank \in Config
BY DEF Blank, Config

\* An edit of a config gives a config, and all but the making of a salt keep the salt.
LEMMA EditTyped ==
    ASSUME NEW c \in Config, NEW e \in Edit
    PROVE  Apply(e, c) \in Config /\ (e.kind # "salt" => Apply(e, c).salt = c.salt)
<1>1. CASE e \in [kind : {"bind"}, ns : Namespace, root : Root]
  BY <1>1 DEF Apply, SetBinding, Config
<1>2. CASE e \in [kind : {"ignore", "unignore"}, key : Key]
  BY <1>2 DEF Apply, IgnoreFile, UnignoreFile, Config
<1>3. CASE e \in [kind : {"pending"}, value : BOOLEAN]
  BY <1>3 DEF Apply, SetPendingPush, Config
<1>4. CASE e \in [kind : {"init"}, id : MachineId]
  BY <1>4 DEF Apply, InitConfig, Blank, Config
<1>5. CASE e \in [kind : {"salt"}, salt : Salt]
  BY <1>5 DEF Apply, SetIdentitySalt, Config
<1> QED
  BY <1>1, <1>2, <1>3, <1>4, <1>5 DEF Edit

LEMMA ReaderTyped ==
    ASSUME TypeOK PROVE Saved \in Config /\ (Loads => OnDisk \in Config)
BY BlankTyped DEF TypeOK, Saved, Loads, OnDisk

-----------------------------------------------------------------------------
(***************************************************************************)
(* Types.                                                                  *)
(***************************************************************************)
\* The identity has been written when its password goes to the keychain, a rekey has
\* found the salt that the identity was encrypted with, and the daemon runs cycles only.
TypeInv ==
    /\ TypeOK
    /\ proc["command"].step = "keychain" => identity # None
    /\ proc["command"].step # "idle" /\ proc["command"].op = "rekey" =>
          proc["command"].step \notin {"saving", "late"} /\ proc["command"].copy.salt \in Salt
    /\ proc["daemon"].step # "idle" => proc["daemon"].op = "cycle"

LEMMA EditsTyped ==
    ASSUME TypeInv, NEW p \in Process, NEW e \in Edit, proc[p].step = "edit",
           proc[p].op # "rekey", Edits(p, e)
    PROVE  TypeInv'
<1>1. Apply(e, proc[p].copy) \in Config
  BY EditTyped DEF TypeInv, TypeOK
<1>2. TypeOK'
  BY <1>1 DEF TypeInv, TypeOK, Edits, StartSave, daemon
<1>3. \A q \in Process : proc'[q].op = proc[q].op /\ (q # p => proc'[q].copy = proc[q].copy)
  BY DEF TypeInv, TypeOK, Edits, StartSave
<1>4. proc'[p].step = "saving"
  BY DEF Edits, StartSave, TypeInv, TypeOK
<1>5. \A q \in Process \ {p} :
        proc'[q].step = proc[q].step \/ (proc[q].step = "late" /\ proc'[q].step = "saving")
  BY DEF Edits, StartSave, TypeInv, TypeOK
<1> QED
  BY <1>2, <1>3, <1>4, <1>5 DEF TypeInv, Edits, Process

\* The starting of a command or a cycle with a config that was loaded.
LEMMA BeginTyped ==
    ASSUME TypeInv, NEW p \in Process, NEW o \in Op, NEW c \in Config, Begin(p, o, c),
           UNCHANGED <<disk, identity, daemon, crashes>>, keychain' \in Password \cup {None},
           ops' \in 0 .. MaxOps, p = "command" /\ o = "rekey" => c.salt \in Salt,
           p = "daemon" => o = "cycle"
    PROVE  TypeInv'
<1>1. proc' = [proc EXCEPT ![p] = [op |-> o, step |-> "edit", copy |-> c, edit |-> None]]
  BY DEF Begin
<1>2. alone' \subseteq Process /\ cut' \in BOOLEAN
  BY DEF Begin, TypeInv, TypeOK, Truncated
<1> QED
  BY <1>1, <1>2 DEF TypeInv, TypeOK, daemon, Process

LEMMA TypeStep == TypeInv /\ [Next]_vars => TypeInv'
<1> SUFFICES ASSUME TypeInv, [Next]_vars PROVE TypeInv'
  OBVIOUS
<1>a. TypeOK /\ MaxOps \in Nat /\ MaxCrashes \in Nat /\ Blank \in Config
  BY LocalConfigAssumption, BlankTyped DEF TypeInv
<1>b. Saved \in Config /\ (Loads => OnDisk \in Config)
  BY <1>a, ReaderTyped
<1>c. Contextual \subseteq Op /\ "rekey" \notin Contextual /\ "command" \in Process /\ "daemon" \in Process
  BY DEF Contextual, Op, Process
<1>1. ASSUME NEW o \in Contextual, LoadContext(o) PROVE TypeInv'
  <2>1. keychain' \in Password \cup {None} /\ ops' \in 0 .. MaxOps
    BY <1>1, <1>a DEF LoadContext, MayStart, TypeOK
  <2>2. CASE Begin("command", o, OnDisk)
    BY <1>1, <2>1, <2>2, <1>b, <1>c, BeginTyped DEF LoadContext
  <2>3. CASE UNCHANGED <<proc, history>>
    BY <1>1, <2>1, <2>3 DEF LoadContext, TypeInv, TypeOK, daemon, history
  <2> QED
    BY <1>1, <2>2, <2>3 DEF LoadContext
<1>2. CASE Bind
  BY <1>2, <1>c, EditsTyped DEF Bind, Running, Edit
<1>3. CASE Ignore
  BY <1>3, <1>c, EditsTyped DEF Ignore, Running, Edit
<1>4. CASE Unignore
  <2>1. proc["command"].copy.ignored \subseteq Key
    BY <1>a, <1>c DEF TypeOK, Config
  <2> QED
    BY <1>4, <1>c, <2>1, EditsTyped DEF Unignore, Running, Edit
<1>5. ASSUME NEW p \in Process, Written(p) PROVE TypeInv'
  BY <1>5 DEF Written, TypeInv, TypeOK, daemon, Process, Op, Contextual
<1>6. ASSUME NEW p \in Process, BindIfUnbound(p) PROVE TypeInv'
  BY <1>6, EditsTyped DEF BindIfUnbound, Running, Edit
<1>7. ASSUME NEW p \in Process, Pushed(p) PROVE TypeInv'
  BY <1>7, EditsTyped DEF Pushed, Running, Edit
<1>8. ASSUME NEW p \in Process, Finish(p) PROVE TypeInv'
  BY <1>8, <1>a DEF Finish, End, Idle, history, TypeInv, TypeOK, daemon, Process
<1>9. ASSUME NEW p \in Process, Crash(p) PROVE TypeInv'
  <2>1. disk' \in Config \cup {None, Broken} /\ identity' \in Identity \cup {None}
    BY <1>9, <1>a DEF Crash, TypeOK
  <2>2. crashes' \in 0 .. MaxCrashes
    BY <1>9, <1>a DEF Crash, TypeOK
  <2>7. cut' \in BOOLEAN
    BY <1>9, <1>a DEF Crash, TypeOK
  <2>3. up' \in BOOLEAN
    BY <1>9, <1>a DEF Crash, TypeOK
  <2>4. p # "command" => UNCHANGED identity
    BY <1>9 DEF Crash
  <2>5. proc' = [proc EXCEPT ![p] = Idle]
    BY <1>9 DEF Crash
  <2>6. TypeOK'
    BY <1>9, <1>a, <2>1, <2>2, <2>3, <2>5, <2>7 DEF Crash, Idle, TypeOK
  <2> QED
    BY <1>a, <2>4, <2>5, <2>6 DEF Idle, TypeInv, TypeOK, Process
<1>10. CASE InitStart
  <2>1. ops' \in 0 .. MaxOps /\ "init" \in Op
    BY <1>10, <1>a DEF InitStart, MayStart, TypeOK, Op
  <2> QED
    BY <1>10, <1>a, <1>b, <1>c, <2>1, BeginTyped DEF InitStart, TypeOK
<1>21. CASE InitSave
  BY <1>21, <1>c, EditsTyped DEF InitSave, Running, Edit
<1>11. CASE InitSalt
  BY <1>11, <1>c, EditsTyped DEF InitSalt, Initialized, Running, Edit
<1>12. CASE InitIdentity
  <2>1. proc["command"].copy.salt \in Salt
    BY <1>12, <1>a, <1>c DEF InitIdentity, TypeOK, Config
  <2>2. identity' \in Identity
    BY <1>12, <2>1 DEF InitIdentity, EncryptWithPassword, Identity
  <2> QED
    BY <1>12, <2>2, LocalConfigAssumption DEF InitIdentity, Initialized, Running, history, TypeInv, TypeOK, daemon, Process
<1>13. CASE RekeyStart
  <2>1. OnDisk.salt \in Salt
    BY <1>13, <1>a DEF RekeyStart, DecryptWithPassword, EncryptWithPassword, TypeOK, Identity
  <2>2. ops' \in 0 .. MaxOps /\ "rekey" \in Op
    BY <1>13, <1>a DEF RekeyStart, MayStart, TypeOK, Op
  <2> QED
    BY <1>13, <1>a, <1>b, <1>c, <2>1, <2>2, BeginTyped DEF RekeyStart, TypeOK
<1>14. CASE RekeyIdentity
  <2>1. identity' \in Identity
    BY <1>14 DEF RekeyIdentity, Running, EncryptWithPassword, Identity, TypeInv
  <2> QED
    BY <1>14, <2>1, LocalConfigAssumption DEF RekeyIdentity, Running, history, TypeInv, TypeOK, daemon, Process
<1>15. CASE StoreInKeychain
  <2>1. identity \in Identity
    BY <1>15, <1>a DEF StoreInKeychain, TypeInv, TypeOK
  <2> QED
    BY <1>15, <1>a, <2>1 DEF StoreInKeychain, Store, End, Idle, history, TypeInv, TypeOK, daemon, Process, Identity
<1>16. CASE Logout
  BY <1>16, <1>a DEF Logout, MayStart, TypeInv, TypeOK, daemon, history
<1>17. CASE WebLogin
  BY <1>17 DEF WebLogin, TypeInv, TypeOK, daemon, history
<1>18. CASE Boot
  BY <1>18, <1>b DEF Boot, DecryptWithPassword, TypeInv, TypeOK, history
<1>19. CASE Cycle
  <2>1. ops' \in 0 .. MaxOps /\ "cycle" \in Op
    BY <1>19, <1>a DEF Cycle, TypeOK, Op
  <2> QED
    BY <1>19, <1>a, <1>b, <1>c, <2>1, BeginTyped DEF Cycle, TypeOK
<1>20. CASE UNCHANGED vars
  BY <1>20 DEF vars, daemon, history, TypeInv, TypeOK
<1> QED
  BY <1>1, <1>2, <1>3, <1>4, <1>5, <1>6, <1>7, <1>8, <1>9, <1>10, <1>11, <1>12, <1>13, <1>14,
     <1>15, <1>16, <1>17, <1>18, <1>19, <1>20, <1>21 DEF Next

LEMMA InitTyped == Init => TypeInv
<1> SUFFICES ASSUME Init PROVE TypeInv
  OBVIOUS
<1>1. Idle \in [op : Op \cup {None}, copy : Config, edit : Edit \cup {None},
               step : {"idle", "edit", "saving", "late", "keychain"}]
  BY BlankTyped DEF Idle
<1>2. \A p \in Process : proc[p].step = "idle"
  BY DEF Init, Idle
<1>3. up \in BOOLEAN /\ unlocked \in BOOLEAN
  BY DEF Init
<1>4. ops \in 0 .. MaxOps /\ crashes \in 0 .. MaxCrashes
  BY LocalConfigAssumption DEF Init
<1>5. TypeOK
  BY <1>1, <1>3, <1>4, BlankTyped DEF Init, TypeOK
<1> QED
  BY <1>2, <1>5 DEF TypeInv, Process

\* Types of the config, the identity, the keychain and every process's copy, whatever
\* overlaps and whichever writes are cut short.
THEOREM LocalTypeCorrect == Spec => []TypeOK
<1>1. TypeInv => TypeOK
  BY DEF TypeInv
<1> QED
  BY <1>1, InitTyped, TypeStep, PTL DEF Spec

-----------------------------------------------------------------------------
(***************************************************************************)
(* The salt.                                                               *)
(***************************************************************************)
\* The daemon that could not open the identity when it started saves nothing.
MaySave(p) == p = "command" \/ unlocked

\* Whoever may save has the salt that was saved last, or makes the first one.
CopiesSalted ==
    \A p \in Process :
        proc[p].step # "idle" /\ MaySave(p) =>
            \/ proc[p].copy.salt = Saved.salt
            \/ p = "command" /\ proc[p].step \in {"saving", "late"} /\ Saved.salt = None

\* The daemon that could open it has a salt, in the config and in its startup copy.
DaemonSalted ==
    /\ unlocked => Saved.salt # None /\ startup.salt = Saved.salt
    /\ proc["daemon"].step \in {"saving", "late"} => unlocked
    /\ ~up => proc["daemon"].step = "idle"

SaltInv == ~cut => disk # Broken /\ SaltOpens /\ CopiesSalted /\ DaemonSalted

LEMMA EditsSalted ==
    ASSUME TypeInv, SaltInv, NEW p \in Process, NEW e \in Edit, proc[p].step = "edit", Edits(p, e),
           MaySave(p), e.kind = "salt" => p = "command" /\ proc[p].copy.salt = None
    PROVE  SaltInv'
<1> SUFFICES ASSUME ~cut PROVE (disk # Broken /\ SaltOpens /\ CopiesSalted /\ DaemonSalted)'
  BY DEF SaltInv, Edits, StartSave
<1>a. "command" \in Process /\ "daemon" \in Process /\ \A q \in Process : q \in {"command", "daemon"}
  BY DEF Process
<1>1. disk # Broken /\ SaltOpens /\ CopiesSalted /\ DaemonSalted
  BY DEF SaltInv
<1>2. UNCHANGED <<disk, identity, startup, unlocked, up, cut>> /\ Saved' = Saved
  BY DEF Edits, StartSave, daemon, Saved
<1>3. proc'[p].step = "saving" /\ proc'[p].copy = Apply(e, proc[p].copy)
  BY DEF Edits, StartSave, TypeInv, TypeOK
<1>4. proc[p].copy.salt = Saved.salt
  BY <1>1 DEF CopiesSalted
<1>5. e.kind # "salt" => Apply(e, proc[p].copy).salt = Saved.salt
  BY <1>4, EditTyped DEF TypeInv, TypeOK
<1>6. \A q \in Process \ {p} :
        /\ proc'[q].copy = proc[q].copy
        /\ proc'[q].step = proc[q].step \/ (proc[q].step = "late" /\ proc'[q].step = "saving")
  BY DEF Edits, StartSave, TypeInv, TypeOK
<1>7. SaltOpens' /\ disk' # Broken
  BY <1>1, <1>2 DEF SaltOpens
<1>8. CopiesSalted'
  <2> SUFFICES ASSUME NEW q \in Process, proc'[q].step # "idle", MaySave(q)'
               PROVE  \/ proc'[q].copy.salt = Saved.salt
                      \/ q = "command" /\ proc'[q].step \in {"saving", "late"} /\ Saved.salt = None
    BY <1>2 DEF CopiesSalted
  <2>1. MaySave(q)
    BY <1>2 DEF MaySave
  <2>2. CASE q = p
    BY <1>3, <1>4, <1>5, <2>2
  <2>3. CASE q # p
    BY <1>1, <1>6, <2>1, <2>3 DEF CopiesSalted
  <2> QED
    BY <2>2, <2>3
<1>9. DaemonSalted'
  BY <1>1, <1>2, <1>3, <1>6, <1>a DEF DaemonSalted, MaySave
<1> QED
  BY <1>7, <1>8, <1>9

LEMMA BeginSalted ==
    ASSUME TypeInv, SaltInv, NEW p \in Process, NEW o \in Op, NEW c \in Config, Begin(p, o, c),
           UNCHANGED <<disk, identity, daemon>>, p = "daemon" => up,
           ~cut' /\ MaySave(p) => c.salt = Saved.salt
    PROVE  SaltInv'
<1> SUFFICES ASSUME ~cut' PROVE (disk # Broken /\ SaltOpens /\ CopiesSalted /\ DaemonSalted)'
  BY DEF SaltInv
<1>1. ~cut /\ disk # Broken /\ SaltOpens /\ CopiesSalted /\ DaemonSalted
  BY DEF SaltInv, Begin
<1>2. UNCHANGED <<disk, identity, startup, unlocked, up>> /\ Saved' = Saved
  BY DEF daemon, Saved
<1>3. proc' = [proc EXCEPT ![p] = [op |-> o, step |-> "edit", copy |-> c, edit |-> None]]
  BY DEF Begin
<1>4. SaltOpens' /\ disk' # Broken
  BY <1>1, <1>2 DEF SaltOpens
<1>5. CopiesSalted'
  BY <1>1, <1>2, <1>3 DEF CopiesSalted, MaySave, TypeInv, TypeOK
<1>6. DaemonSalted'
  BY <1>1, <1>2, <1>3 DEF DaemonSalted, TypeInv, TypeOK, Process
<1> QED
  BY <1>4, <1>5, <1>6

\* Steps that neither save nor load: the config keeps its salt, processes go on or end.
LEMMA OthersSalted ==
    ASSUME TypeInv, SaltInv, UNCHANGED <<disk, startup, unlocked, cut>>,
           NEW p \in Process,
           proc' \in {proc, [proc EXCEPT ![p] = Idle], [proc EXCEPT ![p].step = "keychain"]},
           proc' = proc \/ proc' = [proc EXCEPT ![p] = Idle] \/ (p = "command" /\ proc[p].step = "edit"),
           up' = up \/ proc' = [proc EXCEPT !["daemon"] = Idle],
           ~cut => identity' \in {None, identity}
                      \/ (identity' # None /\ Saved.salt # None /\ identity'.salt = Saved.salt)
    PROVE  SaltInv'
<1> SUFFICES ASSUME ~cut PROVE (disk # Broken /\ SaltOpens /\ CopiesSalted /\ DaemonSalted)'
  BY DEF SaltInv
<1>1. disk # Broken /\ SaltOpens /\ CopiesSalted /\ DaemonSalted
  BY DEF SaltInv
<1>2. Saved' = Saved
  BY DEF Saved
<1>3. Saved.salt # None => disk \in Config /\ Saved = disk
  BY <1>1 DEF Saved, Blank, TypeInv, TypeOK
<1>4. SaltOpens' /\ disk' # Broken
  BY <1>1, <1>3 DEF SaltOpens
<1>5. CopiesSalted'
  BY <1>1, <1>2 DEF CopiesSalted, MaySave, TypeInv, TypeOK, Idle
<1>6. DaemonSalted'
  BY <1>1, <1>2 DEF DaemonSalted, TypeInv, TypeOK, Idle, Process
<1> QED
  BY <1>4, <1>5, <1>6

\* Nobody meets a truncated file: a reader finds what was saved last.
LEMMA ReadersSalted ==
    ASSUME TypeInv, disk # Broken, ~Truncated
    PROVE  OnDisk = disk /\ (Loads => OnDisk = Saved) /\ (~Loads => disk = None /\ Saved = Blank)
BY DEF OnDisk, Loads, Saved

LEMMA WrittenSalted ==
    ASSUME TypeInv, SaltInv, NEW p \in Process, Written(p) PROVE SaltInv'
<1> SUFFICES ASSUME ~cut' PROVE (disk # Broken /\ SaltOpens /\ CopiesSalted /\ DaemonSalted)'
  BY DEF SaltInv
<1>a. "command" \in Process /\ "daemon" \in Process /\ \A q \in Process : q \in {"command", "daemon"}
  BY DEF Process
<1>1. ~cut /\ disk # Broken /\ SaltOpens /\ CopiesSalted /\ DaemonSalted
  BY DEF SaltInv, Written
<1>2. /\ proc[p].step = "saving" /\ disk' = proc[p].copy
      /\ UNCHANGED <<identity, startup, unlocked, up>>
  BY <1>1 DEF Written, daemon
<1>3. disk' \in Config /\ disk' # Broken /\ Saved' = disk'
  BY <1>2, LocalConfigAssumption DEF TypeInv, TypeOK, Saved
<1>4. MaySave(p)
  BY <1>1, <1>2, <1>a DEF DaemonSalted, MaySave
<1>5. \/ Saved'.salt = Saved.salt
      \/ p = "command" /\ Saved.salt = None
  BY <1>1, <1>2, <1>3, <1>4 DEF CopiesSalted
<1>6. Saved.salt = None => identity = None /\ ~unlocked
  BY <1>1, LocalConfigAssumption DEF SaltOpens, DaemonSalted, Saved, TypeInv, TypeOK, Identity
<1>7. identity # None => disk \in Config /\ Saved = disk /\ disk.salt = identity.salt
  BY <1>1, LocalConfigAssumption DEF SaltOpens, Saved
<1>8. SaltOpens'
  BY <1>2, <1>3, <1>5, <1>6, <1>7 DEF SaltOpens
<1>9. /\ proc'[p].step = "edit" /\ proc'[p].copy = proc[p].copy
      /\ \A q \in Process \ {p} :
            /\ proc'[q].copy = proc[q].copy
            /\ proc'[q].step = proc[q].step \/ (proc[q].step = "saving" /\ proc'[q].step = "late")
  BY DEF Written, TypeInv, TypeOK
<1>10. CopiesSalted'
  <2> SUFFICES ASSUME NEW q \in Process, proc'[q].step # "idle", MaySave(q)'
               PROVE  \/ proc'[q].copy.salt = Saved'.salt
                      \/ q = "command" /\ proc'[q].step \in {"saving", "late"} /\ Saved'.salt = None
    BY DEF CopiesSalted
  <2>1. CASE q = p
    BY <1>2, <1>3, <1>9, <2>1
  <2>2. CASE q # p
    <3>1. MaySave(q)
      BY <1>2 DEF MaySave
    <3>2. Saved'.salt = Saved.salt
      BY <1>5, <1>6, <1>a, <3>1, <2>2 DEF MaySave
    <3> QED
      BY <1>1, <1>9, <2>2, <3>1, <3>2 DEF CopiesSalted
  <2> QED
    BY <2>1, <2>2
<1>11. DaemonSalted'
  <2>1. unlocked => Saved'.salt = Saved.salt
    BY <1>5, <1>6
  <2>2. proc'["daemon"].step \in {"saving", "late"} => unlocked
    BY <1>1, <1>9, <1>a DEF DaemonSalted
  <2>3. ~up => proc'["daemon"].step = "idle"
    BY <1>1, <1>2, <1>9, <1>a DEF DaemonSalted
  <2> QED
    BY <1>1, <1>2, <2>1, <2>2, <2>3 DEF DaemonSalted
<1> QED
  BY <1>3, <1>8, <1>10, <1>11

LEMMA SaltStep == TypeInv /\ SaltInv /\ [Next]_vars => SaltInv'
<1> SUFFICES ASSUME TypeInv, SaltInv, [Next]_vars PROVE SaltInv'
  OBVIOUS
<1>a. "command" \in Process /\ "daemon" \in Process /\ MaySave("command")
  BY DEF Process, MaySave
<1>b. Saved \in Config /\ Blank \in Config /\ (Loads => OnDisk \in Config)
  BY ReaderTyped, BlankTyped DEF TypeInv
<1>c. ASSUME NEW p \in Process, NEW o \in Op, NEW c \in Config, Begin(p, o, c), ~cut'
      PROVE  OnDisk = disk /\ (Loads => OnDisk = Saved) /\ (~Loads => disk = None /\ Saved = Blank)
  <2>1. ~cut /\ ~Truncated
    BY <1>c DEF Begin
  <2> QED
    BY <2>1, ReadersSalted DEF SaltInv
<1>1. ASSUME NEW o \in Contextual, LoadContext(o) PROVE SaltInv'
  <2>1. CASE Begin("command", o, OnDisk)
    BY <1>1, <2>1, <1>a, <1>b, <1>c, BeginSalted DEF LoadContext, Op
  <2>2. CASE UNCHANGED <<proc, history>>
    BY <1>1, <2>2, <1>a, OthersSalted DEF LoadContext, history, daemon
  <2> QED
    BY <1>1, <2>1, <2>2 DEF LoadContext
<1>2. CASE Bind
  BY <1>2, <1>a, EditsSalted DEF Bind, Running, Edit
<1>3. CASE Ignore
  BY <1>3, <1>a, EditsSalted DEF Ignore, Running, Edit
<1>4. CASE Unignore
  <2>1. proc["command"].copy.ignored \subseteq Key
    BY <1>a DEF TypeInv, TypeOK, Config
  <2> QED
    BY <1>4, <1>a, <2>1, EditsSalted DEF Unignore, Running, Edit
<1>5. ASSUME NEW p \in Process, Written(p) PROVE SaltInv'
  BY <1>5, WrittenSalted
<1>6. ASSUME NEW p \in Process, BindIfUnbound(p) PROVE SaltInv'
  BY <1>6, EditsSalted DEF BindIfUnbound, Running, Edit, MaySave, Process
<1>7. ASSUME NEW p \in Process, Pushed(p) PROVE SaltInv'
  BY <1>7, EditsSalted DEF Pushed, Running, Edit, MaySave, Process
<1>8. ASSUME NEW p \in Process, Finish(p) PROVE SaltInv'
  BY <1>8, OthersSalted DEF Finish, End, history, daemon
<1>9. ASSUME NEW p \in Process, Crash(p) PROVE SaltInv'
  <2>1. CASE cut'
    BY <2>1 DEF SaltInv
  <2>2. CASE ~cut'
    <3>1. UNCHANGED <<disk, cut, startup, unlocked>> /\ proc' = [proc EXCEPT ![p] = Idle]
      BY <1>9, <2>2 DEF Crash
    <3>2. identity' \in {None, identity}
      BY <1>9 DEF Crash
    <3>3. up' = up \/ p = "daemon"
      BY <1>9 DEF Crash
    <3> QED
      BY <3>1, <3>2, <3>3, OthersSalted
  <2> QED
    BY <2>1, <2>2
<1>10. CASE InitStart
  <2>1. PICK c \in Config : c = (IF Loads THEN OnDisk ELSE Blank)
    BY <1>b
  <2>2. Begin("command", "init", c)
    BY <1>10, <2>1 DEF InitStart
  <2>3. ~cut' => c = Saved
    BY <2>1, <2>2, <1>a, <1>c DEF Op
  <2> QED
    BY <1>10, <2>2, <2>3, <1>a, BeginSalted DEF InitStart, Op
<1>11. CASE InitSave
  BY <1>11, <1>a, EditsSalted DEF InitSave, Running, Edit
<1>12. CASE InitSalt
  BY <1>12, <1>a, EditsSalted DEF InitSalt, Initialized, Running, Edit
<1>13. CASE InitIdentity \/ RekeyIdentity
  <2>4. proc["command"].step = "edit" /\ proc["command"].copy.salt \in Salt
    <3>1. CASE InitIdentity
      BY <3>1, <1>a DEF InitIdentity, Initialized, Running, TypeInv, TypeOK, Config
    <3>2. CASE RekeyIdentity
      BY <3>2 DEF RekeyIdentity, Running, TypeInv
    <3> QED
      BY <1>13, <3>1, <3>2
  <2>5. PICK pw \in Password : identity' = [password |-> pw, salt |-> proc["command"].copy.salt]
    BY <1>13 DEF InitIdentity, RekeyIdentity, EncryptWithPassword
  <2>1. /\ proc["command"].step = "edit" /\ proc["command"].copy.salt # None
        /\ identity' # None /\ identity'.salt = proc["command"].copy.salt
    BY <2>4, <2>5, LocalConfigAssumption DEF Identity
  <2>2. /\ proc' = [proc EXCEPT !["command"].step = "keychain"]
        /\ UNCHANGED <<disk, startup, unlocked, up, cut>>
    BY <1>13 DEF InitIdentity, RekeyIdentity, daemon, history
  <2>3. ~cut => proc["command"].copy.salt = Saved.salt
    BY <2>1, <1>a DEF SaltInv, CopiesSalted
  <2> QED
    BY <2>1, <2>2, <2>3, <1>a, OthersSalted
<1>14. CASE RekeyStart
  BY <1>14, <1>a, <1>b, <1>c, BeginSalted DEF RekeyStart, Op
<1>15. CASE StoreInKeychain
  BY <1>15, <1>a, OthersSalted DEF StoreInKeychain, End, history, daemon
<1>16. CASE Logout \/ WebLogin \/ UNCHANGED vars
  BY <1>16, <1>a, OthersSalted DEF Logout, WebLogin, history, daemon, vars
<1>17. CASE Boot
  <2> SUFFICES ASSUME ~cut PROVE (disk # Broken /\ SaltOpens /\ CopiesSalted /\ DaemonSalted)'
    BY <1>17 DEF SaltInv, Boot, history
  <2>1. disk # Broken /\ SaltOpens /\ CopiesSalted /\ DaemonSalted
    BY DEF SaltInv
  <2>2. UNCHANGED <<disk, identity, proc>> /\ Saved' = Saved /\ startup' = OnDisk /\ up'
    BY <1>17 DEF Boot, Saved
  <2>3. proc["daemon"].step = "idle"
    BY <1>17, <2>1 DEF Boot, DaemonSalted
  <2>4. unlocked' => OnDisk.salt # None /\ identity # None /\ OnDisk.salt = identity.salt
    BY <1>17, LocalConfigAssumption
    DEF Boot, DecryptWithPassword, EncryptWithPassword, TypeInv, TypeOK, Identity
  <2>5. unlocked' => OnDisk.salt = Saved.salt
    BY <2>1, <2>4, LocalConfigAssumption DEF SaltOpens, Saved
  <2>6. DaemonSalted'
    BY <2>2, <2>3, <2>4, <2>5 DEF DaemonSalted
  <2>7. CopiesSalted'
    BY <2>1, <2>2, <2>3 DEF CopiesSalted, MaySave, Process
  <2>8. SaltOpens'
    BY <1>17, <2>1, <2>2 DEF SaltOpens, Boot, history
  <2> QED
    BY <2>1, <2>2, <2>6, <2>7, <2>8
<1>18. CASE Cycle
  <2>1. PICK c \in Config : c = (IF Loads THEN OnDisk ELSE startup)
    BY <1>b DEF TypeInv, TypeOK
  <2>2. Begin("daemon", "cycle", c) /\ up
    BY <1>18, <2>1 DEF Cycle
  <2>3. ~cut' /\ unlocked => c.salt = Saved.salt
    BY <2>1, <2>2, <1>a, <1>c DEF SaltInv, DaemonSalted, Op, Begin
  <2> QED
    BY <1>18, <2>2, <2>3, <1>a, BeginSalted DEF Cycle, Op, MaySave
<1> QED
  BY <1>1, <1>2, <1>3, <1>4, <1>5, <1>6, <1>7, <1>8, <1>9, <1>10, <1>11, <1>12, <1>13, <1>14,
     <1>15, <1>16, <1>17, <1>18 DEF Next

\* The salt outlives every interleaving of commands, cycles, lost updates and crashes
\* outside a write: only a half-written config that somebody loads or leaves can part it
\* from the identity.
THEOREM SaltKept == Spec => []SaltOpens
<1>1. Init => SaltInv
  BY LocalConfigAssumption
  DEF Init, SaltInv, SaltOpens, CopiesSalted, DaemonSalted, Idle, Process, Saved, Blank
<1>2. SaltInv => SaltOpens
  BY DEF SaltInv, SaltOpens
<1> QED
  BY <1>1, <1>2, InitTyped, TypeStep, SaltStep, PTL DEF Spec

-----------------------------------------------------------------------------
(***************************************************************************)
(* Lost updates.                                                           *)
(***************************************************************************)
\* A process that no save has crossed has the config that was saved last, or that with
\* its edit, and nobody else is in a save; unless the config does not parse.
AloneCurrent ==
    \A p \in alone :
        proc[p].step # "idle" =>
            /\ proc[p].step # "late"
            /\ \A q \in Process \ {p} : proc[q].step \notin {"saving", "late"}
            /\ disk # Broken =>
                  /\ proc[p].step \in {"edit", "keychain"} => proc[p].copy = Saved
                  /\ proc[p].step = "saving" => proc[p].copy = Apply(proc[p].edit, Saved)

AloneInv == AloneCurrent /\ (disk = None => startup = Blank)

LEMMA EditsAlone ==
    ASSUME TypeInv, AloneInv, NEW p \in Process, NEW e \in Edit, proc[p].step = "edit", Edits(p, e)
    PROVE  AloneInv'
<1>1. UNCHANGED <<disk, startup>> /\ Saved' = Saved /\ alone' = alone \cap {p}
  BY DEF Edits, StartSave, daemon, Saved
<1>2. /\ proc'[p].step = "saving" /\ proc'[p].copy = Apply(e, proc[p].copy) /\ proc'[p].edit = e
      /\ \A q \in Process \ {p} :
            proc'[q].step = proc[q].step \/ (proc[q].step = "late" /\ proc'[q].step = "saving")
  BY DEF Edits, StartSave, TypeInv, TypeOK
<1> QED
  BY <1>1, <1>2 DEF AloneInv, AloneCurrent

LEMMA BeginAlone ==
    ASSUME TypeInv, AloneInv, NEW p \in Process, NEW o \in Op, NEW c \in Config, Begin(p, o, c),
           UNCHANGED <<disk, startup>>, disk # Broken /\ ~Truncated => c = Saved
    PROVE  AloneInv'
<1>1. Saved' = Saved
  BY DEF Saved
<1>2. proc' = [proc EXCEPT ![p] = [op |-> o, step |-> "edit", copy |-> c, edit |-> None]]
  BY DEF Begin
<1>3. /\ alone' \subseteq alone \cup {p}
      /\ p \in alone' => \A q \in Process : proc[q].step \notin {"saving", "late"}
  BY DEF Begin
<1>4. ASSUME NEW q \in alone', proc'[q].step # "idle"
      PROVE  /\ proc'[q].step # "late"
             /\ \A r \in Process \ {q} : proc'[r].step \notin {"saving", "late"}
             /\ disk # Broken =>
                   /\ proc'[q].step \in {"edit", "keychain"} => proc'[q].copy = Saved
                   /\ proc'[q].step = "saving" => proc'[q].copy = Apply(proc'[q].edit, Saved)
  <2>1. q \in Process
    BY <1>3, <1>4 DEF TypeInv, TypeOK
  <2>2. CASE q = p
    BY <1>2, <1>3, <1>4, <2>2 DEF Truncated, TypeInv, TypeOK
  <2>3. CASE q # p
    BY <1>2, <1>3, <1>4, <2>1, <2>3 DEF AloneInv, AloneCurrent, TypeInv, TypeOK
  <2> QED
    BY <2>2, <2>3
<1> QED
  BY <1>1, <1>4 DEF AloneInv, AloneCurrent

\* Steps that neither save nor load.
LEMMA OthersAlone ==
    ASSUME TypeInv, AloneInv, UNCHANGED <<disk, alone>>, NEW p \in Process,
           proc' = proc \/ proc' = [proc EXCEPT ![p] = Idle]
             \/ (proc[p].step = "edit" /\ proc' = [proc EXCEPT ![p].step = "keychain"]),
           disk = None => startup' = startup \/ startup' = Blank
    PROVE  AloneInv'
<1>1. Saved' = Saved
  BY DEF Saved
<1>2. AloneCurrent'
  BY <1>1 DEF AloneInv, AloneCurrent, TypeInv, TypeOK, Idle
<1> QED
  BY <1>2 DEF AloneInv

\* The process that crosses nobody's save is the one that writes.
LEMMA WrittenAlone ==
    ASSUME TypeInv, AloneInv, NEW p \in Process, Written(p)
    PROVE  /\ AloneInv'
           /\ \A q \in alone : proc[q].step = "saving" =>
                 q = p /\ (disk # Broken => disk' = Apply(proc[q].edit, Saved))
<1>1. /\ disk' \in {proc[p].copy, Broken} /\ UNCHANGED <<alone, startup>>
      /\ proc[p].step \in {"saving", "late"}
      /\ proc[p].step = "saving" => disk' = proc[p].copy
  BY DEF Written, daemon
<1>2. /\ proc'[p].step = "edit" /\ proc'[p].copy = proc[p].copy
      /\ \A q \in Process \ {p} :
            proc'[q].step = proc[q].step \/ (proc[q].step = "saving" /\ proc'[q].step = "late")
  BY DEF Written, TypeInv, TypeOK
<1>3. disk' # None /\ (disk' # Broken => Saved' = proc[p].copy)
  BY <1>1, LocalConfigAssumption DEF Saved, TypeInv, TypeOK
<1>4. ASSUME NEW q \in alone, q # p PROVE proc[q].step = "idle" /\ proc'[q].step = "idle"
  BY <1>1, <1>2, <1>4 DEF AloneInv, AloneCurrent, TypeInv, TypeOK
<1>5. p \in alone =>
         proc[p].step = "saving" /\ \A q \in Process \ {p} : proc[q].step \notin {"saving", "late"}
  BY <1>1 DEF AloneInv, AloneCurrent
<1>6. AloneCurrent'
  <2> SUFFICES ASSUME NEW q \in alone, proc'[q].step # "idle"
               PROVE  /\ proc'[q].step # "late"
                      /\ \A r \in Process \ {q} : proc'[r].step \notin {"saving", "late"}
                      /\ disk' # Broken =>
                            /\ proc'[q].step \in {"edit", "keychain"} => proc'[q].copy = Saved'
                            /\ proc'[q].step = "saving" => proc'[q].copy = Apply(proc'[q].edit, Saved')
    BY <1>1 DEF AloneCurrent
  <2>1. q = p
    BY <1>4
  <2> QED
    BY <1>2, <1>3, <1>5, <2>1
<1>7. ASSUME NEW q \in alone, proc[q].step = "saving"
      PROVE  q = p /\ (disk # Broken => disk' = Apply(proc[q].edit, Saved))
  BY <1>1, <1>4, <1>7 DEF AloneInv, AloneCurrent
<1> QED
  BY <1>3, <1>6, <1>7 DEF AloneInv

LEMMA AloneStep == TypeInv /\ AloneInv /\ [Next]_vars => AloneInv'
<1> SUFFICES ASSUME TypeInv, AloneInv, [Next]_vars PROVE AloneInv'
  OBVIOUS
<1>a. "command" \in Process /\ "daemon" \in Process
  BY DEF Process
<1>b. Saved \in Config /\ Blank \in Config /\ (Loads => OnDisk \in Config)
  BY ReaderTyped, BlankTyped DEF TypeInv
<1>c. disk # Broken /\ ~Truncated =>
         OnDisk = disk /\ (Loads => OnDisk = Saved) /\ (~Loads => disk = None /\ Saved = Blank)
  BY ReadersSalted
<1>1. ASSUME NEW o \in Contextual, LoadContext(o) PROVE AloneInv'
  <2>1. CASE Begin("command", o, OnDisk)
    BY <1>1, <2>1, <1>a, <1>b, <1>c, BeginAlone DEF LoadContext, Op, daemon
  <2>2. CASE UNCHANGED <<proc, history>>
    BY <1>1, <2>2, <1>a, OthersAlone DEF LoadContext, history, daemon
  <2> QED
    BY <1>1, <2>1, <2>2 DEF LoadContext
<1>2. CASE Bind
  BY <1>2, <1>a, EditsAlone DEF Bind, Running, Edit
<1>3. CASE Ignore
  BY <1>3, <1>a, EditsAlone DEF Ignore, Running, Edit
<1>4. CASE Unignore
  <2>1. proc["command"].copy.ignored \subseteq Key
    BY <1>a DEF TypeInv, TypeOK, Config
  <2> QED
    BY <1>4, <1>a, <2>1, EditsAlone DEF Unignore, Running, Edit
<1>5. ASSUME NEW p \in Process, Written(p) PROVE AloneInv'
  BY <1>5, WrittenAlone
<1>6. ASSUME NEW p \in Process, BindIfUnbound(p) PROVE AloneInv'
  BY <1>6, EditsAlone DEF BindIfUnbound, Running, Edit
<1>7. ASSUME NEW p \in Process, Pushed(p) PROVE AloneInv'
  BY <1>7, EditsAlone DEF Pushed, Running, Edit
<1>8. ASSUME NEW p \in Process, Finish(p) PROVE AloneInv'
  BY <1>8, OthersAlone DEF Finish, End, history, daemon
<1>9. ASSUME NEW p \in Process, Crash(p) PROVE AloneInv'
  <2>1. proc' = [proc EXCEPT ![p] = Idle] /\ UNCHANGED <<alone, startup>>
    BY <1>9 DEF Crash
  <2>2. CASE UNCHANGED disk
    BY <2>1, <2>2, OthersAlone
  <2>3. CASE proc[p].step \in {"saving", "late"}
    <3>1. ASSUME NEW q \in alone PROVE proc'[q].step = "idle"
      BY <2>1, <2>3 DEF AloneInv, AloneCurrent, Idle, TypeInv, TypeOK
    <3>2. disk' = None => disk = None
      BY <1>9, LocalConfigAssumption, <1>b DEF Crash
    <3> QED
      BY <2>1, <3>1, <3>2 DEF AloneInv, AloneCurrent
  <2> QED
    BY <1>9, <2>2, <2>3 DEF Crash
<1>10. CASE InitStart
  <2>1. PICK c \in Config : c = (IF Loads THEN OnDisk ELSE Blank)
    BY <1>b
  <2> QED
    BY <1>10, <2>1, <1>a, <1>c, BeginAlone DEF InitStart, Op, daemon
<1>11. CASE InitSave
  BY <1>11, <1>a, EditsAlone DEF InitSave, Running, Edit
<1>12. CASE InitSalt
  BY <1>12, <1>a, EditsAlone DEF InitSalt, Initialized, Running, Edit
<1>13. CASE InitIdentity \/ RekeyIdentity
  BY <1>13, <1>a, OthersAlone DEF InitIdentity, RekeyIdentity, Initialized, Running, daemon, history
<1>14. CASE RekeyStart
  <2>1. Begin("command", "rekey", OnDisk) /\ Loads /\ UNCHANGED <<disk, startup>>
    BY <1>14 DEF RekeyStart, daemon
  <2> QED
    BY <2>1, <1>a, <1>b, <1>c, BeginAlone DEF Op
<1>15. CASE StoreInKeychain
  BY <1>15, <1>a, OthersAlone DEF StoreInKeychain, End, history, daemon
<1>16. CASE Logout \/ WebLogin \/ UNCHANGED vars
  BY <1>16, <1>a, OthersAlone DEF Logout, WebLogin, history, daemon, vars
<1>17. CASE Boot
  <2>1. disk = None => OnDisk = Blank
    BY <1>17 DEF Boot, Loads, OnDisk
  <2> QED
    BY <1>17, <2>1, <1>a, OthersAlone DEF Boot, history
<1>18. CASE Cycle
  <2>1. PICK c \in Config : c = (IF Loads THEN OnDisk ELSE startup)
    BY <1>b DEF TypeInv, TypeOK
  <2>2. disk # Broken /\ ~Truncated => c = Saved
    BY <2>1, <1>c DEF AloneInv
  <2> QED
    BY <1>18, <2>1, <2>2, <1>a, BeginAlone DEF Cycle, Op, daemon
<1> QED
  BY <1>1, <1>2, <1>3, <1>4, <1>5, <1>6, <1>7, <1>8, <1>9, <1>10, <1>11, <1>12, <1>13, <1>14,
     <1>15, <1>16, <1>17, <1>18 DEF Next

\* What a save undoes was saved while its process ran: commands and cycles, in any
\* interleaving, write over nothing that they could have loaded.
THEOREM UndoneOnlyAcross == Spec => SavesOwnEdit
<1>1. Init => AloneInv
  BY DEF Init, AloneInv, AloneCurrent
<1>2. ASSUME TypeInv, AloneInv, [Next]_vars
      PROVE  \A p \in alone :
                proc[p].step = "saving" /\ disk' # disk /\ crashes' = crashes /\ disk # Broken =>
                   disk' = Apply(proc[p].edit, Saved)
  <2> SUFFICES ASSUME NEW p \in alone, proc[p].step = "saving", disk' # disk, crashes' = crashes,
                      disk # Broken
               PROVE  disk' = Apply(proc[p].edit, Saved)
    OBVIOUS
  <2>1. \A q \in Process : ~Crash(q)
    BY <1>2, LocalConfigAssumption DEF Crash, TypeInv, TypeOK
  <2>2. PICK q \in Process : Written(q)
    BY <1>2, <2>1 DEF Next, vars, daemon, LoadContext, Bind, Ignore, Unignore, BindIfUnbound, Pushed, Finish,
       InitStart, InitSave, InitSalt, InitIdentity, RekeyStart, RekeyIdentity, StoreInKeychain, Logout,
       WebLogin, Boot, Cycle, Edits
  <2> QED
    BY <1>2, <2>2, WrittenAlone
<1> QED
  BY <1>1, <1>2, InitTyped, TypeStep, AloneStep, PTL DEF Spec, SavesOwnEdit
=============================================================================
