---------------------------- MODULE MergeDrivers ----------------------------
(***************************************************************************)
(* One merge of one file through the registry of merge drivers,            *)
(* internal/merge/driver.go: the driver is picked by the file's name and   *)
(* given three versions.  The sync engine, the daemon, the web UI and      *)
(* `dhd merge` all merge this way.  What the drivers do is in LineMerge    *)
(* and KeyedMerge; the state driver has StateReplica.                      *)
(***************************************************************************)
EXTENDS LineMerge, KeyedMerge

CONSTANTS
    Line,      \* lines of text
    Field,     \* fields of CSV records
    TextFile,  \* contents of a file that is merged as lines
    EnvFile,   \* of a .env file
    JsonFile,  \* of a JSON file
    CsvFile,   \* of a CSV file
    Files      \* names of files to merge

\* A .env file says of every key whether it is there; the records of a CSV file are as
\* long as the first, its header.
ASSUME FilesAssumption ==
    /\ TextFile \subseteq Seq(Line)
    /\ \A s, t \in EnvFile : DOMAIN s = DOMAIN t
    /\ JsonFile \subseteq JsonValue
    /\ \A t \in CsvFile :
          /\ t = Table(t.header, t.rows)
          /\ t.header \in Seq(Field) /\ t.rows \in Seq(Seq(Field))
          /\ \A i \in DOMAIN t.rows : t.header # <<>> /\ Len(t.rows[i]) = Len(t.header)

VARIABLES
    name,                  \* the file's name
    driver,                \* the driver that merges it
    base, local, remote,   \* its versions: the common ancestor, ours, theirs
    outcome                \* what Resolve returned, if it has

vars == <<name, driver, base, local, remote, outcome>>

-----------------------------------------------------------------------------
(***************************************************************************)
(* A name is its directory and the parts of its last component that dots   *)
(* separate: secrets/k.toml.age is [dir |-> "secrets",                     *)
(* parts |-> <<"k", "toml", "age">>].                                      *)
(***************************************************************************)
Extension(n) == IF Len(n.parts) > 1 THEN n.parts[Len(n.parts)] ELSE ""

IsStateName(n) == n.dir = "" /\ n.parts \in {<<"state", "toml", "age">>, <<"state", "toml">>}

IsSecretName(n) ==
    /\ n.dir = "secrets"
    /\ Len(n.parts) > 2 /\ n.parts[Len(n.parts) - 1] = "toml" /\ Extension(n) = "age"

IsEnvName(n) ==
    \/ n.parts = <<"", "envrc">>
    \/ Len(n.parts) > 2 /\ n.parts[1] = "" /\ n.parts[2] = "env"
    \/ Extension(n) = "env"

Binary == {"png", "jpg", "jpeg", "gif", "webp", "ico",
           "pdf", "zip", "tar", "gz", "exe", "bin", "so", "dylib"}
IsTextName(n) == Extension(n) \notin Binary

\* The drivers in the order they are asked.
Drivers == <<"state", "secret", "env", "json", "csv", "text">>

CanHandle(d, n) ==
    CASE d = "state"  -> IsStateName(n)
      [] d = "secret" -> IsSecretName(n)
      [] d = "env"    -> IsEnvName(n)
      [] d = "text"   -> IsTextName(n)
      [] OTHER -> Extension(n) = d

\* The registry takes the directory off the name before it asks the drivers, so the
\* secret driver, which looks for the directory, never answers: a secret's file is
\* merged as lines.
DriverOf(n) ==
    LET bare == [n EXCEPT !.dir = ""]
        able == SelectSeq(Drivers, LAMBDA d : CanHandle(d, bare))
    IN  IF able = <<>> THEN None ELSE able[1]

MergeBy(d, b, l, r) ==
    CASE d = "env"    -> EnvMerge(b, l, r)
      [] d = "json"   -> mergeJSON(b, l, r)
      [] d = "csv"    -> CsvMerge(b, l, r)
      [] d = "text"   -> merge3Lines(b, l, r)
      [] OTHER -> [result |-> "Unsupported", file |-> None]

Contents(d) ==
    CASE d = "env"    -> EnvFile
      [] d = "json"   -> JsonFile
      [] d = "csv"    -> CsvFile
      [] d = "text"   -> TextFile
      [] OTHER -> {<<>>}

-----------------------------------------------------------------------------
\* Two users have written what they like over a common version.
Init ==
    /\ name \in Files /\ driver = DriverOf(name)
    /\ base \in Contents(driver) /\ local \in Contents(driver) /\ remote \in Contents(driver)
    /\ outcome = [result |-> "None", file |-> None]

MergeFile ==
    /\ outcome.result = "None"
    /\ outcome' = MergeBy(driver, base, local, remote)
    /\ UNCHANGED <<name, driver, base, local, remote>>

Next == MergeFile

Spec == Init /\ [][Next]_vars

-----------------------------------------------------------------------------
(***************************************************************************)
(* Properties.                                                             *)
(***************************************************************************)
Merged(d) == outcome.result = "Merged" /\ driver = d

\* Whichever machine merges, a line or JSON merge stops, panics or succeeds alike, and
\* comes to the same file: the machines do not drift apart by merging on both ends.
SameFromBothSides ==
    outcome.result # "None" /\ driver \in {"text", "json"} =>
        LET mirrored == MergeBy(driver, base, remote, local)
        IN  /\ mirrored.result = outcome.result
            /\ outcome.result = "Merged" => mirrored.file = outcome.file

\* A clean merge of lines has each line as often as the two sides' changes add up to,
\* the changes they share counted once: no line of either side is lost, doubled or
\* brought back, even when lines repeat and the match of the versions is not unique.
LineCount(s, x) == Cardinality({i \in DOMAIN s : s[i] = x})

LinesAddUp ==
    Merged("text") =>
        LET shared == computeEdits(base, local) \cap computeEdits(base, remote)
            replaced == UNION {e.from + 1 .. e.to : e \in shared}
            inserted == UNION {{e} \X DOMAIN e.lines : e \in shared}
        IN  \A x \in ToSet(base) \cup ToSet(local) \cup ToSet(remote) :
                LineCount(outcome.file, x)
                    + LineCount(base, x)
                    + Cardinality({p \in inserted : p[1].lines[p[2]] = x})
                = LineCount(local, x) + LineCount(remote, x)
                    + Cardinality({i \in replaced : base[i] = x})

\* A text or JSON file that one side left alone, or both changed alike, merges to the
\* changed one, whatever was changed and wherever: no conflict, no panic, nothing of the
\* base left over.
OneSided ==
    outcome.result # "None" /\ driver \in {"text", "json"} =>
        /\ base = remote => outcome = [result |-> "Merged", file |-> local]
        /\ local = remote => outcome = [result |-> "Merged", file |-> local]

\* The line merge panics exactly when an edit of one side starts inside what an edit of
\* the other side replaces; edits that start together are a conflict, others merge.
PanicIsOverlap ==
    outcome.result # "None" /\ driver = "text" =>
        (outcome.result = "Panic"
            <=> \E e \in computeEdits(base, local) \cup computeEdits(base, remote),
                   f \in computeEdits(base, local) \cup computeEdits(base, remote) :
                       e.from < f.from /\ f.from < e.to)

ThreeWay(b, l, r) == IF l = b THEN r ELSE l
Diverge(b, l, r) == l # b /\ r # b /\ l # r

\* A clean merge of JSON has, at every path of keys, the three-way value of what is
\* there, and no path had diverged: a change deep in an object survives changes around
\* it, and a whole object replaced on one side never hides a change of the other inside.
Entry(v, k) == IF IsMap(v) THEN Lookup(v, k) ELSE Nil
At(v, path) ==
    LET at[n \in 0 .. Len(path)] == IF n = 0 THEN v ELSE Entry(at[n - 1], path[n])
    IN  at[Len(path)]
PathValue(v, path) == IF IsMap(At(v, path)) THEN <<"map">> ELSE At(v, path)

InnerKeys(v) == IF IsMap(v) THEN KeysOf(v) ELSE {}
Paths(v) ==
    {<<>>} \cup {<<k>> : k \in InnerKeys(v)}
        \cup UNION {{<<k, j>> : j \in InnerKeys(Lookup(v, k))} : k \in InnerKeys(v)}

JsonLeavesMerged ==
    Merged("json") =>
        \A path \in Paths(base) \cup Paths(local) \cup Paths(remote) :
            LET b == PathValue(base, path)
                l == PathValue(local, path)
                r == PathValue(remote, path)
            IN  ~Diverge(b, l, r) /\ PathValue(outcome.file, path) = ThreeWay(b, l, r)

\* A .env merge stops exactly when a key has diverged, and otherwise gives every key of
\* the base its three-way value: neither side's change nor its deletion is undone.  (Keys
\* that one side added are dropped, as in the state: see StateReplica.)
EnvKeysMerged ==
    outcome.result # "None" /\ driver = "env" =>
        /\ outcome.result = "HasConflict"
               <=> \E k \in DOMAIN base : Diverge(base[k], local[k], remote[k])
        /\ outcome.result = "Merged" =>
               \A k \in DOMAIN base : base[k] # None =>
                   outcome.file[k] = ThreeWay(base[k], local[k], remote[k])

\* A clean merge of CSV files with a header, one row per key and the key column always
\* first has exactly the rows that three-way merging their presence gives, each once, and
\* in them the three-way value of every cell; a column that one side lacks is blank there.
\* A row goes only if whoever did not delete it left its cells as they were.
OneRowPerKey(t) == IsInjective(RowKeys(t))
KeyedBy(t, col) == t.header # <<>> => {i \in DOMAIN t.header : t.header[i] = col} = {1}

CsvCellsMerged ==
    /\ Merged("csv") /\ base.header # <<>>
    /\ \A t \in {base, local, remote} : OneRowPerKey(t) /\ KeyedBy(t, base.header[1])
    =>
        /\ OneRowPerKey(outcome.file)
        /\ \A key \in ToSet(RowKeys(base)) \cup ToSet(RowKeys(local)) \cup ToSet(RowKeys(remote)) :
              /\ HasRow(outcome.file, key) <=>
                     ThreeWay(HasRow(base, key), HasRow(local, key), HasRow(remote, key))
              /\ HasRow(outcome.file, key) =>
                     \A col \in ToSet(outcome.file.header) :
                        LET b == Cell(base, key, col)
                            l == IF HasRow(local, key) THEN Cell(local, key, col) ELSE b
                            r == IF HasRow(remote, key) THEN Cell(remote, key, col) ELSE b
                        IN  ~Diverge(b, l, r) /\ Cell(outcome.file, key, col) = ThreeWay(b, l, r)
              /\ HasRow(base, key) /\ ~HasRow(outcome.file, key) =>
                     \A s \in {local, remote} : HasRow(s, key) =>
                         \A col \in ToSet(base.header) : Cell(s, key, col) = Cell(base, key, col)

\* "remote unchanged, local deleted: apply delete" (csv.go:103), and the other way round:
\* a clean merge drops a row that one side deleted only if the other side's is the base's,
\* in the columns of either.
DroppedUnchanged ==
    Merged("csv") /\ base.header # <<>> =>
        \A key \in ToSet(RowKeys(base)), s \in {local, remote} :
            HasRow(s, key) /\ ~HasRow(outcome.file, key) =>
                \A col \in ToSet(base.header) \cup ToSet(s.header) :
                    Cell(s, key, col) = Cell(base, key, col)

\* "config.json tracked in vault": "JSONDriver deep merges" (SMART_MERGE_ARCHITECTURE.md:543,
\* 560): the vault's copy of a file, which has .age appended to its name, is merged by the
\* driver of the file's format.
SameDriver ==
    outcome.result # "None" /\ Extension(name) = "age" =>
        DriverOf(name) = DriverOf([name EXCEPT !.parts = SubSeq(@, 1, Len(@) - 1)])
=============================================================================
