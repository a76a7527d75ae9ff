----------------------------- MODULE KeyedMerge -----------------------------
(***************************************************************************)
(* The three-way merges of .env, JSON and CSV files: internal/merge/env.go,*)
(* json.go, csv.go.  Files are what the drivers parse: comments, quotes,   *)
(* spaces and the order of keys are left out.  A merge is a record of the  *)
(* result and, when that is "Merged", the file.                            *)
(***************************************************************************)
EXTENDS Naturals, StateMerge, SequencesExt

CONSTANTS
    JsonValue,  \* JSON values: those of files and those inside them
    JsonDepth   \* how deep each is nested

Clean(file) == [result |-> "Merged", file |-> file]
Conflict == [result |-> "HasConflict", file |-> None]

-----------------------------------------------------------------------------
(***************************************************************************)
(* .env: a function from keys to values, None for a key that is not there. *)
(* The switch of EnvDriver.Merge has the cases of the state's, in the same *)
(* order.                                                                  *)
(***************************************************************************)
EnvMerge(b, l, r) == IF MapConflict(b, l, r) THEN Conflict ELSE Clean(MapMerge(b, l, r))

-----------------------------------------------------------------------------
(***************************************************************************)
(* JSON: <<"leaf", v>>, <<"map", f>> with f a function from the keys, or   *)
(* Nil, which is both null and what looking up a missing key gives.        *)
(***************************************************************************)
Nil == <<"nil">>
IsMap(v) == v[1] = "map"
KeysOf(v) == DOMAIN v[2]
Lookup(v, k) == IF k \in KeysOf(v) THEN v[2][k] ELSE Nil

\* What is in a value is a value, and nested less deep.
ASSUME JsonAssumption ==
    /\ JsonDepth \in [JsonValue -> Nat]
    /\ Nil \in JsonValue /\ JsonDepth[Nil] = 0
    /\ \A v \in JsonValue : IsMap(v) =>
          /\ v = <<"map", [k \in KeysOf(v) |-> Lookup(v, k)]>>
          /\ \A k \in KeysOf(v) : /\ Lookup(v, k) \in JsonValue
                                  /\ JsonDepth[Lookup(v, k)] < JsonDepth[v]

\* Mutant: a value that differs on both sides is taken from the remote's.
PickRemote(b, l, r) == IF b = r THEN Clean(l) ELSE Clean(r)

\* Values that are not all maps: the side that changed has its way.
Pick(b, l, r) ==
    IF b = l THEN Clean(r)
    ELSE IF b = r \/ l = r THEN Clean(l)
    ELSE Conflict

\* Mutant: a key that one side deleted is deleted whatever the other did to it.
DeletedFreely(b, l, r, k) == k \notin KeysOf(l) \/ k \notin KeysOf(r)

\* The base's key is gone from one side, or both.
Deleted(b, l, r, k) ==
    \/ k \notin KeysOf(l) /\ k \notin KeysOf(r)
    \/ k \in KeysOf(b) /\ ~(k \in KeysOf(l) /\ k \in KeysOf(r))

\* A key gone from one side must be as in the base on the other.
DeleteConflict(b, l, r, k) ==
    /\ k \in KeysOf(b)
    /\ \/ k \notin KeysOf(l) /\ k \in KeysOf(r) /\ Lookup(r, k) # Lookup(b, k)
       \/ k \notin KeysOf(r) /\ k \in KeysOf(l) /\ Lookup(l, k) # Lookup(b, k)

\* The merge of three values, by those of the values under their keys.
jsonMerges[t \in JsonValue \X JsonValue \X JsonValue] ==
    LET b == t[1]
        l == t[2]
        r == t[3]
        keys == KeysOf(b) \cup KeysOf(l) \cup KeysOf(r)
        merged == [k \in {x \in keys : ~Deleted(b, l, r, x)} |->
                      jsonMerges[<<Lookup(b, k), Lookup(l, k), Lookup(r, k)>>]]
    IN  IF ~(IsMap(b) /\ IsMap(l) /\ IsMap(r)) THEN Pick(b, l, r)
        ELSE IF \/ \E k \in keys : DeleteConflict(b, l, r, k)
                \/ \E k \in DOMAIN merged : merged[k].result = "HasConflict"
        THEN Conflict
        ELSE Clean(<<"map", [k \in DOMAIN merged |-> merged[k].file]>>)

mergeJSON(b, l, r) == jsonMerges[<<b, l, r>>]

-----------------------------------------------------------------------------
(***************************************************************************)
(* CSV: the header and the rows; a row's first cell is its key.  Of rows   *)
(* with one key the index has the last.                                    *)
(***************************************************************************)
Table(header, rows) == [header |-> header, rows |-> rows]
RowKeys(t) == [i \in DOMAIN t.rows |-> t.rows[i][1]]
HasRow(t, key) == Contains(RowKeys(t), key)
RowOf(t, key) == t.rows[Max({i \in DOMAIN t.rows : t.rows[i][1] = key})]

Blank == ""
Cell(t, key, col) ==
    IF HasRow(t, key) /\ Contains(t.header, col)
    THEN RowOf(t, key)[Max({i \in DOMAIN t.header : t.header[i] = col})]
    ELSE Blank

\* What s has at these places.
Only(s, places) ==
    LET only[n \in 0 .. Len(s)] ==
            IF n = 0 THEN <<>>
            ELSE IF n \in places THEN Append(only[n - 1], s[n])
            ELSE only[n - 1]
    IN  only[Len(s)]

\* s, then what t has besides, each once.
Joined(s, t) ==
    s \o Only(t, {n \in DOMAIN t : t[n] \notin ToSet(s) /\ \A i \in 1 .. n - 1 : t[i] # t[n]})

mergeHeaders(b, l, r) == Joined(Joined(Joined(<<>>, b), l), r)

rowsEqual(t, u, key) ==
    /\ Cardinality(ToSet(t.header)) = Cardinality(ToSet(u.header))
    /\ \A col \in ToSet(t.header) : Cell(u, key, col) = Cell(t, key, col)

RowDeleted(b, l, r, key) ==
    \/ ~HasRow(l, key) /\ ~HasRow(r, key)
    \/ HasRow(b, key) /\ ~(HasRow(l, key) /\ HasRow(r, key))

RowConflict(b, l, r, key) ==
    /\ HasRow(b, key)
    /\ \/ ~HasRow(l, key) /\ HasRow(r, key) /\ ~rowsEqual(b, r, key)
       \/ ~HasRow(r, key) /\ HasRow(l, key) /\ ~rowsEqual(b, l, key)

CellChanged(b, s, key, col) == HasRow(s, key) /\ Cell(s, key, col) # Cell(b, key, col)

CellConflict(b, l, r, key, col) ==
    CellChanged(b, l, key, col) /\ CellChanged(b, r, key, col) /\ Cell(l, key, col) # Cell(r, key, col)

\* Mutant: a cell the remote changed counts only in a row that is in the base.
MergedCellOld(b, l, r, key, col) ==
    IF CellChanged(b, l, key, col) THEN Cell(l, key, col)
    ELSE IF HasRow(b, key) /\ CellChanged(b, r, key, col) THEN Cell(r, key, col)
    ELSE Cell(b, key, col)

MergedCell(b, l, r, key, col) ==
    IF CellChanged(b, l, key, col) THEN Cell(l, key, col)
    ELSE IF CellChanged(b, r, key, col) THEN Cell(r, key, col)
    ELSE Cell(b, key, col)

\* An empty base: our rows as they are, and the remote's that have a new key.
concatCSV(l, r) ==
    Clean(Table(mergeHeaders(<<>>, l.header, r.header),
                l.rows \o Only(r.rows, {i \in DOMAIN r.rows : ~HasRow(l, r.rows[i][1])})))

CsvMerge(b, l, r) ==
    LET header == mergeHeaders(b.header, l.header, r.header)
        keys == Joined(Joined(RowKeys(b), RowKeys(l)), RowKeys(r))
        kept == Only(keys, {i \in DOMAIN keys : ~RowDeleted(b, l, r, keys[i])})
    IN  IF b.header = <<>> THEN concatCSV(l, r)
        ELSE IF \/ \E key \in ToSet(keys) : RowConflict(b, l, r, key)
                \/ \E key \in ToSet(kept), col \in ToSet(header) : CellConflict(b, l, r, key, col)
        THEN Conflict
        ELSE Clean(Table(header,
                         [i \in DOMAIN kept |->
                             [c \in DOMAIN header |-> MergedCell(b, l, r, kept[i], header[c])]]))
=============================================================================
