----------------------------- MODULE LocalConfig -----------------------------
(***************************************************************************)
(* What one machine keeps outside the vault: config.toml, the identity     *)
(* file, the keychain; and who reads and writes them: the commands of one  *)
(* user (internal/cmd/init.go, rekey.go, logout.go, track.go, untrack.go,  *)
(* discover.go, status.go, sync.go, secret.go), the login page of the web  *)
(* UI and the daemon.  The user runs one command at a time; the daemon     *)
(* takes no lock, so its cycles fall between any two steps of a command.   *)
(*                                                                         *)
(* Abstractions.  The identity file is the password and the salt that it   *)
(* was encrypted with; the key in it, the remote's URL and the vault are   *)
(* left out.  Every process loads the whole config, edits its copy and     *)
(* saves all of it: the file is truncated, then written.  Two savers may   *)
(* both have truncated it before either writes.                            *)
(***************************************************************************)
EXTENDS Naturals, FiniteSets

CONSTANTS
    None,      \* nothing there
    Broken,    \* a config that does not parse
    Namespace, Root, Key, MachineId, Salt, Password,
    MaxOps,    \* bound on commands and cycles
    MaxCrashes \* bound on crashes

Config == [id : MachineId \cup {None}, salt : Salt \cup {None},
           bindings : [Namespace -> Root \cup {None}], ignored : SUBSET Key, pending : BOOLEAN]
Identity == [password : Password, salt : Salt]
Edit == [kind : {"bind"}, ns : Namespace, root : Root]
        \cup [kind : {"ignore", "unignore"}, key : Key]
        \cup [kind : {"pending"}, value : BOOLEAN]
        \cup [kind : {"init"}, id : MachineId] \cup [kind : {"salt"}, salt : Salt]

ASSUME LocalConfigAssumption ==
    /\ None \notin Root \cup MachineId \cup Salt \cup Password
    /\ None # Broken /\ None \notin Config /\ Broken \notin Config /\ None \notin Identity
    /\ MaxOps \in Nat /\ MaxCrashes \in Nat

Contextual == {"track", "untrack_local", "untrack_missing", "discover", "status", "sync", "ref"}
Op == Contextual \cup {"init", "rekey", "cycle"}
Process == {"command", "daemon"}

VARIABLES
    disk,     \* config.toml; while someone saves it, what it was before
    identity, \* identity.age
    keychain, \* the password the keychain holds
    proc,     \* per process: what it runs, where it is, its copy, its last edit
    up,       \* the daemon runs
    startup,  \* Runner.cfg
    unlocked, \* the daemon could load the vault's identity when it started
    alone,    \* history: processes that nobody's save has crossed since they began
    cut,      \* history: somebody has met, or left, a half-written config
    ops,      \* commands and cycles so far
    crashes   \* crashes so far

daemon == <<up, startup, unlocked>>
history == <<alone, cut>>
vars == <<disk, identity, keychain, proc, daemon, history, ops, crashes>>

\* An empty file decodes without an error.
Blank == [id |-> None, salt |-> None, bindings |-> [n \in Namespace |-> None],
          ignored |-> {}, pending |-> FALSE]

Idle == [op |-> None, step |-> "idle", copy |-> Blank, edit |-> None]

TypeOK ==
    /\ disk \in Config \cup {None, Broken}
    /\ identity \in Identity \cup {None}
    /\ keychain \in Password \cup {None}
    /\ proc \in [Process -> [op : Op \cup {None}, copy : Config, edit : Edit \cup {None},
                             step : {"idle", "edit", "saving", "late", "keychain"}]]
    /\ alone \subseteq Process /\ cut \in BOOLEAN
    /\ up \in BOOLEAN /\ startup \in Config /\ unlocked \in BOOLEAN
    /\ ops \in 0 .. MaxOps /\ crashes \in 0 .. MaxCrashes

-----------------------------------------------------------------------------
(***************************************************************************)
(* The config in memory.                                                   *)
(***************************************************************************)
SetBinding(c, n, r) == [c EXCEPT !.bindings[n] = r]
SetPendingPush(c, b) == [c EXCEPT !.pending = b]
IgnoreFile(c, k) == [c EXCEPT !.ignored = @ \cup {k}]
UnignoreFile(c, k) == [c EXCEPT !.ignored = @ \ {k}]
SetIdentitySalt(c, s) == [c EXCEPT !.salt = s]
InitConfig(c, id) == [Blank EXCEPT !.id = id, !.salt = c.salt, !.pending = c.pending]

Apply(e, c) ==
    CASE e.kind = "bind" -> SetBinding(c, e.ns, e.root)
      [] e.kind = "ignore" -> IgnoreFile(c, e.key)
      [] e.kind = "unignore" -> UnignoreFile(c, e.key)
      [] e.kind = "pending" -> SetPendingPush(c, e.value)
      [] e.kind = "init" -> InitConfig(c, e.id)
      [] e.kind = "salt" -> SetIdentitySalt(c, e.salt)

\* The file is empty between the two halves of a save.
Truncated == \E p \in Process : proc[p].step = "saving"
OnDisk == IF Truncated THEN Blank ELSE disk
Loads == OnDisk \notin {None, Broken}

\* Save, first half: the edit is in memory and the file truncated.
StartSave(p, c, e) ==
    /\ proc' = [q \in Process |->
                  IF q = p THEN [proc[p] EXCEPT !.step = "saving", !.copy = Apply(e, c), !.edit = e]
                  ELSE IF proc[q].step = "late" THEN [proc[q] EXCEPT !.step = "saving"]
                  ELSE proc[q]]
    /\ alone' = alone \cap {p}
    /\ UNCHANGED cut

\* Save, second half.  It is late if the other has written since the file was
\* truncated: the end of a longer text stays behind the shorter.
Written(p) ==
    /\ proc[p].step \in {"saving", "late"}
    /\ disk' \in IF proc[p].step = "late" THEN {proc[p].copy, Broken} ELSE {proc[p].copy}
    /\ proc' = [q \in Process |->
                  IF q = p THEN [proc[p] EXCEPT !.step = "edit"]
                  ELSE IF proc[q].step = "saving" THEN [proc[q] EXCEPT !.step = "late"]
                  ELSE proc[q]]
    /\ cut' = (cut \/ proc[p].step = "late")
    /\ UNCHANGED <<identity, keychain, daemon, alone, ops, crashes>>

-----------------------------------------------------------------------------
(***************************************************************************)
(* The identity.                                                           *)
(***************************************************************************)
EncryptWithPassword(pw, s) == [password |-> pw, salt |-> s]
DecryptWithPassword(pw, s) == identity # None /\ identity = EncryptWithPassword(pw, s)

\* keychain.Store may fail; its callers warn and go on.
Store(pw) == keychain' \in {pw, keychain}

-----------------------------------------------------------------------------
(***************************************************************************)
(* Commands.                                                               *)
(***************************************************************************)
Running(p, some) == proc[p].step = "edit" /\ proc[p].op \in some

MayStart ==
    /\ proc["command"].step = "idle" /\ ops < MaxOps /\ ops' = ops + 1

\* A process has loaded c and goes to work.
Begin(p, o, c) ==
    /\ proc' = [proc EXCEPT ![p] = [op |-> o, step |-> "edit", copy |-> c, edit |-> None]]
    /\ alone' = IF \A q \in Process : proc[q].step \notin {"saving", "late"}
                THEN alone \cup {p} ELSE alone \ {p}
    /\ cut' = (cut \/ Truncated)

End(p) == proc' = [proc EXCEPT ![p] = Idle] /\ UNCHANGED history

\* A password that is asked for goes to the keychain before it is tried.
LoadContext(o) ==
    /\ MayStart /\ Loads
    /\ \E typed \in Password :
        LET pw == IF keychain = None THEN typed ELSE keychain IN
        /\ keychain' = pw
        /\ IF DecryptWithPassword(pw, OnDisk.salt) THEN Begin("command", o, OnDisk)
                                                   ELSE UNCHANGED <<proc, history>>
    /\ UNCHANGED <<disk, identity, daemon, crashes>>

Edits(p, e) ==
    /\ StartSave(p, proc[p].copy, e)
    /\ UNCHANGED <<disk, identity, keychain, daemon, ops, crashes>>

\* A repository the user named or discover found.
Bind ==
    /\ Running("command", {"track", "discover"})
    /\ \E n \in Namespace, r \in Root : Edits("command", [kind |-> "bind", ns |-> n, root |-> r])

\* A repository found where repositories usually are, if there is no binding.
BindIfUnbound(p) ==
    /\ Running(p, {"ref", "sync", "discover", "status", "untrack_missing", "cycle"})
    /\ p = "daemon" => unlocked
    /\ \E n \in Namespace, r \in Root :
        /\ proc[p].copy.bindings[n] = None
        /\ Edits(p, [kind |-> "bind", ns |-> n, root |-> r])

Ignore ==
    /\ Running("command", {"untrack_local", "untrack_missing"})
    /\ \E k \in Key \ proc["command"].copy.ignored :
        Edits("command", [kind |-> "ignore", key |-> k])

Unignore ==
    /\ Running("command", {"track"})
    /\ \E k \in proc["command"].copy.ignored : Edits("command", [kind |-> "unignore", key |-> k])

\* A push has failed or succeeded.
Pushed(p) ==
    /\ Running(p, {"sync", "discover", "cycle"})
    /\ p = "daemon" => unlocked
    /\ \E b \in BOOLEAN : Edits(p, [kind |-> "pending", value |-> b])

\* Done, or failed on the way.
Finish(p) ==
    /\ proc[p].step = "edit"
    /\ End(p)
    /\ UNCHANGED <<disk, identity, keychain, daemon, ops, crashes>>

\* `dhd init`, with --force if there is a config that loads.
InitStart ==
    /\ MayStart
    /\ Begin("command", "init", IF Loads THEN OnDisk ELSE Blank)
    /\ UNCHANGED <<disk, identity, keychain, daemon, crashes>>

Initialized == Running("command", {"init"}) /\ proc["command"].edit # None

\* The remote has been asked for: a new machine id.
InitSave ==
    /\ Running("command", {"init"}) /\ proc["command"].edit = None
    /\ \E id \in MachineId \ {proc["command"].copy.id} :
        Edits("command", [kind |-> "init", id |-> id])

\* Mutant: every init makes a salt of its own.
InitFreshSalt ==
    /\ Initialized /\ proc["command"].edit.kind # "salt"
    /\ \E s \in Salt \ {proc["command"].copy.salt} :
        Edits("command", [kind |-> "salt", salt |-> s])

InitSalt ==
    /\ Initialized /\ proc["command"].copy.salt = None
    /\ \E s \in Salt : Edits("command", [kind |-> "salt", salt |-> s])

\* Mutant: the identity is made before there is a salt.
InitIdentityFirst ==
    /\ Initialized
    /\ \E pw \in Password : identity' = EncryptWithPassword(pw, proc["command"].copy.salt)
    /\ proc' = [proc EXCEPT !["command"].step = "keychain"]
    /\ UNCHANGED <<disk, keychain, daemon, history, ops, crashes>>

InitIdentity ==
    /\ Initialized /\ proc["command"].copy.salt # None
    /\ \E pw \in Password : identity' = EncryptWithPassword(pw, proc["command"].copy.salt)
    /\ proc' = [proc EXCEPT !["command"].step = "keychain"]
    /\ UNCHANGED <<disk, keychain, daemon, history, ops, crashes>>

\* `dhd rekey` with the right password.
RekeyStart ==
    /\ MayStart /\ Loads
    /\ \E pw \in Password : DecryptWithPassword(pw, OnDisk.salt)
    /\ Begin("command", "rekey", OnDisk)
    /\ UNCHANGED <<disk, identity, keychain, daemon, crashes>>

\* Written to a temporary file and renamed.
RekeyIdentity ==
    /\ Running("command", {"rekey"})
    /\ \E pw \in Password : identity' = EncryptWithPassword(pw, proc["command"].copy.salt)
    /\ proc' = [proc EXCEPT !["command"].step = "keychain"]
    /\ UNCHANGED <<disk, keychain, daemon, history, ops, crashes>>

\* Init stores the password, rekey only where there was one.
StoreInKeychain ==
    /\ proc["command"].step = "keychain"
    /\ IF proc["command"].op = "rekey" /\ keychain = None
       THEN UNCHANGED keychain ELSE Store(identity.password)
    /\ End("command")
    /\ UNCHANGED <<disk, identity, daemon, ops, crashes>>

Logout ==
    /\ MayStart
    /\ keychain' = None
    /\ UNCHANGED <<disk, identity, proc, daemon, history, crashes>>

\* The login page tries the password before it stores it.
WebLogin ==
    /\ Loads /\ \E pw \in Password : DecryptWithPassword(pw, OnDisk.salt) /\ keychain' = pw
    /\ UNCHANGED <<disk, identity, proc, daemon, history, ops, crashes>>

-----------------------------------------------------------------------------
(***************************************************************************)
(* The daemon.                                                             *)
(***************************************************************************)
Boot ==
    /\ ~up /\ Loads
    /\ up' = TRUE /\ startup' = OnDisk
    /\ unlocked' = (keychain # None /\ DecryptWithPassword(keychain, OnDisk.salt))
    /\ UNCHANGED <<disk, identity, keychain, proc, history, ops, crashes>>

\* Mutant: the config that the daemon was started with.
CycleStale ==
    /\ up /\ proc["daemon"].step = "idle" /\ ops < MaxOps
    /\ Begin("daemon", "cycle", startup)
    /\ ops' = ops + 1
    /\ UNCHANGED <<disk, identity, keychain, daemon, crashes>>

\* The config is loaded again, or the one of the start is used.
Cycle ==
    /\ up /\ proc["daemon"].step = "idle" /\ ops < MaxOps
    /\ Begin("daemon", "cycle", IF Loads THEN OnDisk ELSE startup)
    /\ ops' = ops + 1
    /\ UNCHANGED <<disk, identity, keychain, daemon, crashes>>

\* A crash in the middle of a write may leave an empty or a partial file.
Crash(p) ==
    /\ crashes < MaxCrashes /\ crashes' = crashes + 1
    /\ IF p = "daemon" THEN up /\ up' = FALSE ELSE proc[p].step # "idle" /\ UNCHANGED up
    /\ proc' = [proc EXCEPT ![p] = Idle]
    /\ IF proc[p].step \in {"saving", "late"}
       THEN disk' \in {Blank, Broken, disk} /\ cut' = TRUE
       ELSE UNCHANGED <<disk, cut>>
    /\ IF p = "command" /\ Initialized THEN identity' \in {None, identity} ELSE UNCHANGED identity
    /\ UNCHANGED <<keychain, startup, unlocked, alone, ops>>

-----------------------------------------------------------------------------
\* A machine on which `dhd init` has not been run.
Init ==
    /\ disk = None /\ identity = None /\ keychain = None
    /\ proc = [p \in Process |-> Idle]
    /\ up = FALSE /\ startup = Blank /\ unlocked = FALSE
    /\ alone = {} /\ cut = FALSE
    /\ ops = 0 /\ crashes = 0

Next ==
    \/ \E o \in Contextual : LoadContext(o)
    \/ Bind \/ Ignore \/ Unignore
    \/ \E p \in Process : Written(p) \/ BindIfUnbound(p) \/ Pushed(p) \/ Finish(p) \/ Crash(p)
    \/ InitStart \/ InitSave \/ InitSalt \/ InitIdentity
    \/ RekeyStart \/ RekeyIdentity \/ StoreInKeychain
    \/ Logout \/ WebLogin \/ Boot \/ Cycle

Spec == Init /\ [][Next]_vars

-----------------------------------------------------------------------------
(***************************************************************************)
(* Properties.                                                             *)
(***************************************************************************)
\* What the last complete save left.
Saved == IF disk \in {None, Broken} THEN Blank ELSE disk

\* A save undoes only what another process has saved while the saver was running: of a
\* command or a cycle that no other save has crossed since it began, every save changes
\* what it set out to change and leaves the rest as it finds it, however long ago the
\* copy was loaded that it writes.  ("Reload config from disk on every sync cycle",
\* runner.go:175.)
SavesOwnEdit ==
    [][\A p \in alone :
          proc[p].step = "saving" /\ disk' # disk /\ crashes' = crashes /\ disk # Broken =>
            disk' = Apply(proc[p].edit, Saved)]_vars

\* The salt that the identity file was encrypted with is the one in the config, at every
\* point of init, rekey and a crash between two of their writes, and although commands
\* and cycles save old copies over each other; unless somebody has loaded a config that
\* was truncated and not yet written, or died leaving one.  Without the salt no password
\* opens the vault again.
SaltOpens ==
    ~cut /\ identity # None => disk \in Config /\ disk.salt = identity.salt

\* "A stable UUID generated at `dhd init`" (README.md:275): while no command runs and
\* nothing has crashed, the config keeps its machine id.
MachineIdStable ==
    [][proc["command"].step = "idle" /\ crashes = 0 /\ disk \in Config =>
          disk' \in Config /\ disk.id' = disk.id]_vars
=============================================================================
