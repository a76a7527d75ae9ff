--------------------------- MODULE MCMergeDrivers ---------------------------
(***************************************************************************)
(* MergeDrivers on small files.                                            *)
(***************************************************************************)
EXTENDS MergeDrivers

CONSTANT MaxLines

SmallText == BoundedSeq(Line, MaxLines)

SmallEnv == [{"A", "B"} -> {None, "0", "1"}]

\* Maps of up to two keys, one of which may hold a map.
Leaf == {Nil, <<"leaf", "0">>, <<"leaf", "1">>}
MapsOf(keys, Values(_)) ==
    {<<"map", f>> : f \in UNION {{g \in [ks -> UNION {Values(k) : k \in ks}] :
                                      \A k \in ks : g[k] \in Values(k)} : ks \in SUBSET keys}}
Inner == MapsOf({"x"}, LAMBDA k : Leaf)
SmallJson == MapsOf({"x", "y"}, LAMBDA k : IF k = "x" THEN Leaf \cup Inner ELSE Leaf)

Values == SmallJson \cup Inner \cup Leaf
DepthOf ==
    [v \in Values |-> IF ~IsMap(v) THEN 0
                      ELSE IF \E k \in KeysOf(v) : IsMap(Lookup(v, k)) THEN 2
                      ELSE 1]

\* Up to two rows, with or without a second column; and a file without a header.
Rows(cells) == BoundedSeq({<<key>> \o c : key \in {"1", "2"}, c \in cells}, 2)
SmallCsv ==
    {Table(<<>>, <<>>)}
        \cup {Table(<<"id", "c">>, rows) : rows \in Rows({<<"0">>, <<"1">>})}
        \cup {Table(<<"id", "d", "c">>, rows) : rows \in Rows({<<"0", "0">>, <<"0", "1">>})}

CsvFields == {"id", "c", "d", "0", "1", "2", ""}

\* One row, of a key and a cell that may be blank, under either name.
RenamedCsv ==
    {Table(<<"id", col>>, rows) : col \in {"c", "d"}, rows \in BoundedSeq({<<"1", "">>, <<"1", "0">>}, 1)}

\* app.json, table.csv, logo.png, what the vault calls .env, and the secret k.
SomeFiles ==
    {[dir |-> "", parts |-> p] :
         p \in {<<"", "env", "age">>, <<"app", "json">>, <<"table", "csv">>,
                <<"logo", "png">>}}
        \cup {[dir |-> "secrets", parts |-> <<"k", "toml", "age">>]}

CsvFiles == {[dir |-> "", parts |-> <<"table", "csv">>]}

\* What the vault calls app.json.
StoredFiles == {[dir |-> "", parts |-> <<"app", "json", "age">>]}
=============================================================================
