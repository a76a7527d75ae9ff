------------------------- MODULE MergeDrivers_proofs -------------------------
(***************************************************************************)
(* Proofs about the merge drivers, for files of any size: .env files, JSON *)
(* values of any depth, by induction on the depth, texts of any length, by *)
(* induction on the lines, and CSV tables.                                 *)
(***************************************************************************)
EXTENDS MergeDrivers, FiniteSetTheorems, SequenceTheorems, WellFoundedInduction, TLAPS

\* What is merged are files of the driver, and the outcome is the driver's.
Called ==
    /\ {base, local, remote} \subseteq Contents(driver)
    /\ outcome.result # "None" => outcome = MergeBy(driver, base, local, remote)

LEMMA OutcomeIsMerge == Spec => []Called
<1>1. Init => Called
  BY DEF Init, Called
<1>2. Called /\ [Next]_vars => Called'
  BY DEF Called, Next, MergeFile, vars
<1> QED
  BY <1>1, <1>2, PTL DEF Spec

-----------------------------------------------------------------------------
\* The cases of the driver are those of a three-way merge.
LEMMA EnvKeyMerged ==
    ASSUME NEW b, NEW l, NEW r
    PROVE  /\ Diverged(b, l, r) <=> Diverge(b, l, r)
           /\ ~Diverged(b, l, r) /\ b # None => KeyMerge(b, l, r) = ThreeWay(b, l, r)
BY DEF Diverged, Diverge, Changed, KeyMerge, ThreeWay

\* A .env merge stops exactly for a diverged key, and else undoes no change and no
\* deletion of a key of the base.
THEOREM EnvMergedByKey == Spec => []EnvKeysMerged
<1>1. Called => EnvKeysMerged
  <2> SUFFICES ASSUME Called, outcome.result # "None", driver = "env"
               PROVE  /\ outcome.result = "HasConflict"
                             <=> \E k \in DOMAIN base : Diverge(base[k], local[k], remote[k])
                      /\ outcome.result = "Merged" =>
                             \A k \in DOMAIN base : base[k] # None =>
                                 outcome.file[k] = ThreeWay(base[k], local[k], remote[k])
    BY DEF EnvKeysMerged
  <2>1. outcome = EnvMerge(base, local, remote)
    BY DEF Called, MergeBy
  <2>2. MapConflict(base, local, remote)
          <=> \E k \in DOMAIN base : Diverge(base[k], local[k], remote[k])
    BY EnvKeyMerged DEF MapConflict
  <2>3. CASE MapConflict(base, local, remote)
    BY <2>1, <2>2, <2>3 DEF EnvMerge, Conflict
  <2>4. CASE ~MapConflict(base, local, remote)
    <3>1. outcome.result = "Merged" /\ outcome.file = MapMerge(base, local, remote)
      BY <2>1, <2>4 DEF EnvMerge, Clean
    <3>2. \A k \in DOMAIN base :
             /\ outcome.file[k] = KeyMerge(base[k], local[k], remote[k])
             /\ ~Diverged(base[k], local[k], remote[k])
      BY <2>4, <3>1 DEF MapMerge, MapConflict
    <3> QED
      BY <2>2, <2>4, <3>1, <3>2, EnvKeyMerged
  <2> QED
    BY <2>3, <2>4
<1> QED
  BY <1>1, OutcomeIsMerge, PTL

-----------------------------------------------------------------------------
(***************************************************************************)
(* JSON.  The recursion of mergeJSON goes to values that are nested less   *)
(* deep, so there is one function that it defines.                         *)
(***************************************************************************)
Triple == JsonValue \X JsonValue \X JsonValue
Depth(t) == JsonDepth[t[1]] + JsonDepth[t[2]] + JsonDepth[t[3]]

AllMaps(t) == IsMap(t[1]) /\ IsMap(t[2]) /\ IsMap(t[3])
Under(t, k) == <<Lookup(t[1], k), Lookup(t[2], k), Lookup(t[3], k)>>
AllKeys(t) == KeysOf(t[1]) \cup KeysOf(t[2]) \cup KeysOf(t[3])
KeptKeys(t) == {k \in AllKeys(t) : ~Deleted(t[1], t[2], t[3], k)}

\* The merge of maps, given that of what is under each key.
Assembled(t, under) ==
    IF \/ \E k \in AllKeys(t) : DeleteConflict(t[1], t[2], t[3], k)
       \/ \E k \in DOMAIN under : under[k].result = "HasConflict"
    THEN Conflict
    ELSE Clean(<<"map", [k \in DOMAIN under |-> under[k].file]>>)

\* One unfolding of jsonMerges, with g for the merges below it.
Merge(g, t) == IF ~AllMaps(t) THEN Pick(t[1], t[2], t[3])
               ELSE Assembled(t, [k \in KeptKeys(t) |-> g[Under(t, k)]])

\* Induction goes to the least number of a set, since a theorem about all predicates
\* cannot be applied here.
LEMMA LeastNatural ==
    ASSUME NEW T \in SUBSET Nat, T # {} PROVE \E n \in T : \A i \in T : n <= i
<1> DEFINE R == OpToRel(<, Nat)
<1>1. IsWellFoundedOn(R, Nat)
  BY NatLessThanWellFounded
<1>2. \A i, j \in Nat : i < j => <<i, j>> \in R
  BY DEF OpToRel
<1> HIDE DEF R
<1>3. PICK n \in T : \A i \in T : <<i, n>> \notin R
  BY <1>1, WFMin
<1>4. ASSUME NEW i \in T PROVE n <= i
  <2>1. i \in Nat /\ n \in Nat
    OBVIOUS
  <2>2. ~(i < n)
    BY <1>2, <1>3, <2>1, Zenon
  <2> QED
    BY <2>1, <2>2
<1> QED
  BY <1>4

LEMMA TripleDepth == \A t \in Triple : Depth(t) \in Nat
BY JsonAssumption DEF Triple, Depth

\* What some triples are, all those have that have it when all less deep ones have it.
LEMMA DepthInduction ==
    ASSUME NEW T \in SUBSET Triple,
           \A t \in Triple : (\A u \in Triple : Depth(u) < Depth(t) => u \in T) => t \in T
    PROVE  T = Triple
<1>1. SUFFICES ASSUME Triple \ T # {} PROVE FALSE
  OBVIOUS
<1> DEFINE D == {Depth(t) : t \in Triple \ T}
<1>2. D \in SUBSET Nat /\ D # {}
  BY <1>1, TripleDepth
<1>3. PICK n \in D : \A i \in D : n <= i
  BY <1>2, LeastNatural
<1>4. PICK t \in Triple \ T : n = Depth(t)
  BY <1>3
<1>5. ASSUME NEW u \in Triple, Depth(u) < Depth(t), u \notin T PROVE FALSE
  BY <1>3, <1>4, <1>5, TripleDepth
<1> QED
  BY <1>4, <1>5

LEMMA UnderIsLessDeep ==
    ASSUME NEW t \in Triple, AllMaps(t), NEW k \in AllKeys(t)
    PROVE  Under(t, k) \in Triple /\ Depth(Under(t, k)) < Depth(t)
<1>1. \A i \in {t[1], t[2], t[3]} :
         /\ i \in JsonValue /\ IsMap(i) /\ JsonDepth[i] \in Nat
         /\ Lookup(i, k) \in JsonValue /\ JsonDepth[Lookup(i, k)] \in Nat
         /\ JsonDepth[Lookup(i, k)] <= JsonDepth[i]
         /\ k \in KeysOf(i) => JsonDepth[Lookup(i, k)] < JsonDepth[i]
  <2> SUFFICES ASSUME NEW i \in {t[1], t[2], t[3]}
               PROVE  /\ i \in JsonValue /\ IsMap(i) /\ JsonDepth[i] \in Nat
                      /\ Lookup(i, k) \in JsonValue /\ JsonDepth[Lookup(i, k)] \in Nat
                      /\ JsonDepth[Lookup(i, k)] <= JsonDepth[i]
                      /\ k \in KeysOf(i) => JsonDepth[Lookup(i, k)] < JsonDepth[i]
    OBVIOUS
  <2>1. i \in JsonValue /\ IsMap(i) /\ JsonDepth[i] \in Nat
    BY JsonAssumption DEF Triple, AllMaps
  <2>2. CASE k \in KeysOf(i)
    BY <2>1, <2>2, JsonAssumption
  <2>3. CASE k \notin KeysOf(i)
    <3>1. Lookup(i, k) = Nil
      BY <2>3 DEF Lookup
    <3> QED
      BY <2>1, <2>3, <3>1, JsonAssumption
  <2> QED
    BY <2>2, <2>3
<1> HIDE DEF Lookup, KeysOf
<1>2. Depth(Under(t, k)) = JsonDepth[Lookup(t[1], k)] + JsonDepth[Lookup(t[2], k)] + JsonDepth[Lookup(t[3], k)]
  BY DEF Depth, Under
<1> QED
  BY <1>1, <1>2 DEF AllKeys, Under, Triple, Depth

LEMMA MergeOfEqual ==
    ASSUME NEW t \in Triple, NEW g, NEW h,
           \A u \in Triple : Depth(u) < Depth(t) => g[u] = h[u]
    PROVE  Merge(g, t) = Merge(h, t)
<1>1. AllMaps(t) => \A k \in KeptKeys(t) : g[Under(t, k)] = h[Under(t, k)]
  BY UnderIsLessDeep DEF KeptKeys
<1>2. AllMaps(t) => [k \in KeptKeys(t) |-> g[Under(t, k)]] = [k \in KeptKeys(t) |-> h[Under(t, k)]]
  BY <1>1
<1> QED
  BY <1>2 DEF Merge

\* Merges of the triples down to a depth.
Below(n) == {t \in Triple : Depth(t) < n}
MergesBelow(n, g) == g = [t \in Below(n) |-> Merge(g, t)]

LEMMA MergesAgree ==
    ASSUME NEW m \in Nat, NEW n \in Nat, NEW g, NEW h, MergesBelow(m, g), MergesBelow(n, h)
    PROVE  \A t \in Below(m) \cap Below(n) : g[t] = h[t]
<1> DEFINE T == {t \in Triple : t \in Below(m) \cap Below(n) => g[t] = h[t]}
<1>1. ASSUME NEW t \in Triple, \A u \in Triple : Depth(u) < Depth(t) => u \in T PROVE t \in T
  <2> SUFFICES ASSUME t \in Below(m) \cap Below(n) PROVE g[t] = h[t]
    OBVIOUS
  <2>1. \A u \in Triple : Depth(u) < Depth(t) => g[u] = h[u]
    BY <1>1, TripleDepth DEF Below
  <2>2. Merge(g, t) = Merge(h, t)
    BY <2>1, MergeOfEqual
  <2> QED
    BY <2>2 DEF MergesBelow
<1>2. T = Triple
  <2> HIDE DEF T
  <2>1. T \in SUBSET Triple
    BY DEF T
  <2> QED
    BY <1>1, <2>1, DepthInduction
<1> QED
  BY <1>2 DEF Below

LEMMA MergesExist == \A n \in Nat : \E g : MergesBelow(n, g)
<1> DEFINE T == {n \in Nat : ~\E g : MergesBelow(n, g)}
<1>1. SUFFICES ASSUME T # {} PROVE FALSE
  OBVIOUS
<1>2. PICK n \in T : \A i \in T : n <= i
  BY <1>1, LeastNatural
<1>3. n # 0
  <2>1. Below(0) = {}
    BY TripleDepth DEF Below
  <2>2. MergesBelow(0, [t \in {} |-> t])
    BY <2>1 DEF MergesBelow
  <2> QED
    BY <2>2
<1>4. PICK g : MergesBelow(n - 1, g)
  BY <1>2, <1>3
<1> DEFINE h == [t \in Below(n) |-> Merge(g, t)]
<1>5. ASSUME NEW t \in Below(n) PROVE Merge(h, t) = Merge(g, t)
  <2>1. \A u \in Triple : Depth(u) < Depth(t) => u \in Below(n - 1) /\ u \in Below(n)
    BY <1>2, TripleDepth DEF Below
  <2>2. \A u \in Triple : Depth(u) < Depth(t) => h[u] = g[u]
    BY <1>4, <2>1 DEF MergesBelow
  <2> HIDE DEF h
  <2> QED
    BY <2>2, MergeOfEqual DEF Below
<1>6. MergesBelow(n, h)
  BY <1>5 DEF MergesBelow
<1> QED
  BY <1>6

\* So the recursive definition means what it says.
LEMMA JsonMergesUnfolded == jsonMerges = [t \in Triple |-> Merge(jsonMerges, t)]
<1> DEFINE below(n) == CHOOSE g : MergesBelow(n, g)
           all == [t \in Triple |-> below(Depth(t) + 1)[t]]
<1>1. \A n \in Nat : MergesBelow(n, below(n))
  BY MergesExist
<1> HIDE DEF below
<1>2. ASSUME NEW t \in Triple PROVE all[t] = Merge(all, t)
  <2>1. Depth(t) + 1 \in Nat /\ t \in Below(Depth(t) + 1)
    BY TripleDepth DEF Below
  <2>2. ASSUME NEW u \in Triple, Depth(u) < Depth(t) PROVE all[u] = below(Depth(t) + 1)[u]
    <3>1. /\ Depth(u) + 1 \in Nat
          /\ u \in Below(Depth(u) + 1) /\ u \in Below(Depth(t) + 1)
      BY <2>2, TripleDepth DEF Below
    <3>2. below(Depth(u) + 1)[u] = below(Depth(t) + 1)[u]
      BY <1>1, <2>1, <3>1, MergesAgree
    <3> QED
      BY <3>2
  <2>3. Merge(all, t) = Merge(below(Depth(t) + 1), t)
    <3> HIDE DEF all
    <3> QED
      BY <2>2, MergeOfEqual
  <2>4. below(Depth(t) + 1)[t] = Merge(below(Depth(t) + 1), t)
    BY <1>1, <2>1 DEF MergesBelow
  <2> QED
    BY <2>3, <2>4
<1>3. all = [t \in Triple |-> Merge(all, t)]
  BY <1>2
<1> HIDE DEF all
<1> QED
  BY <1>3 DEF jsonMerges, Triple, Merge, AllMaps, Assembled, KeptKeys, AllKeys, Under

\* What mergeJSON returns, in terms of the merges of what is inside.
Under3(b, l, r, k) == mergeJSON(Lookup(b, k), Lookup(l, k), Lookup(r, k))
Kept(b, l, r) == {k \in KeysOf(b) \cup KeysOf(l) \cup KeysOf(r) : ~Deleted(b, l, r, k)}

LEMMA MergeOfMaps ==
    ASSUME NEW b \in JsonValue, NEW l \in JsonValue, NEW r \in JsonValue,
           IsMap(b), IsMap(l), IsMap(r)
    PROVE  mergeJSON(b, l, r) =
              IF \/ \E k \in KeysOf(b) \cup KeysOf(l) \cup KeysOf(r) : DeleteConflict(b, l, r, k)
                 \/ \E k \in Kept(b, l, r) : Under3(b, l, r, k).result = "HasConflict"
              THEN Conflict
              ELSE Clean(<<"map", [k \in Kept(b, l, r) |-> Under3(b, l, r, k).file]>>)
<1> DEFINE t == <<b, l, r>>
           under == [k \in KeptKeys(t) |-> jsonMerges[Under(t, k)]]
<1>1. t \in Triple /\ t[1] = b /\ t[2] = l /\ t[3] = r
  BY DEF Triple
<1>2. AllMaps(t) /\ AllKeys(t) = KeysOf(b) \cup KeysOf(l) \cup KeysOf(r) /\ KeptKeys(t) = Kept(b, l, r)
  BY <1>1 DEF AllMaps, AllKeys, KeptKeys, Kept
<1>3. \A k : jsonMerges[Under(t, k)] = Under3(b, l, r, k)
  BY <1>1 DEF Under, Under3, mergeJSON
<1>4. DOMAIN under = Kept(b, l, r) /\ \A k \in Kept(b, l, r) : under[k] = Under3(b, l, r, k)
  BY <1>2, <1>3
<1>5. mergeJSON(b, l, r) = Merge(jsonMerges, t)
  BY <1>1, JsonMergesUnfolded DEF mergeJSON
<1>6. mergeJSON(b, l, r) = Assembled(t, under)
  BY <1>2, <1>5 DEF Merge
<1> HIDE DEF t, under
<1>7. [k \in DOMAIN under |-> under[k].file] = [k \in Kept(b, l, r) |-> Under3(b, l, r, k).file]
  BY <1>4
<1> QED
  BY <1>1, <1>2, <1>4, <1>6, <1>7 DEF Assembled

LEMMA MergeOfOthers ==
    ASSUME NEW b \in JsonValue, NEW l \in JsonValue, NEW r \in JsonValue,
           ~(IsMap(b) /\ IsMap(l) /\ IsMap(r))
    PROVE  mergeJSON(b, l, r) = Pick(b, l, r)
<1> DEFINE t == <<b, l, r>>
<1>1. t \in Triple /\ t[1] = b /\ t[2] = l /\ t[3] = r
  BY DEF Triple
<1>2. mergeJSON(b, l, r) = Merge(jsonMerges, t)
  BY <1>1, JsonMergesUnfolded DEF mergeJSON
<1> HIDE DEF t
<1> QED
  BY <1>1, <1>2 DEF Merge, AllMaps

\* Values whose merge is right where every merge below it is.
LEMMA JsonInduction ==
    ASSUME NEW T \in SUBSET Triple,
           ASSUME NEW b \in JsonValue, NEW l \in JsonValue, NEW r \in JsonValue,
                  IsMap(b) /\ IsMap(l) /\ IsMap(r) =>
                     \A k \in KeysOf(b) \cup KeysOf(l) \cup KeysOf(r) :
                        <<Lookup(b, k), Lookup(l, k), Lookup(r, k)>> \in T
           PROVE  <<b, l, r>> \in T
    PROVE  \A b, l, r \in JsonValue : <<b, l, r>> \in T
<1>1. ASSUME NEW t \in Triple, \A u \in Triple : Depth(u) < Depth(t) => u \in T PROVE t \in T
  <2>1. t[1] \in JsonValue /\ t[2] \in JsonValue /\ t[3] \in JsonValue /\ t = <<t[1], t[2], t[3]>>
    BY DEF Triple
  <2>2. AllMaps(t) => \A k \in AllKeys(t) : Under(t, k) \in T
    BY <1>1, UnderIsLessDeep
  <2>3. IsMap(t[1]) /\ IsMap(t[2]) /\ IsMap(t[3]) =>
           \A k \in KeysOf(t[1]) \cup KeysOf(t[2]) \cup KeysOf(t[3]) :
              <<Lookup(t[1], k), Lookup(t[2], k), Lookup(t[3], k)>> \in T
    BY <2>2 DEF AllMaps, AllKeys, Under
  <2>4. <<t[1], t[2], t[3]>> \in T
    BY <2>1, <2>3
  <2> QED
    BY <2>1, <2>4
<1>2. T = Triple
  BY <1>1, DepthInduction
<1> QED
  BY <1>2 DEF Triple

-----------------------------------------------------------------------------
\* A value that one side left alone, or both changed alike, merges to the changed one.
LEMMA MapOfAll ==
    ASSUME NEW b \in JsonValue, NEW l \in JsonValue, NEW r \in JsonValue, NEW v \in JsonValue,
           IsMap(b), IsMap(l), IsMap(r), IsMap(v),
           Kept(b, l, r) = KeysOf(v),
           \A k \in KeysOf(b) \cup KeysOf(l) \cup KeysOf(r) : ~DeleteConflict(b, l, r, k),
           \A k \in KeysOf(v) : Under3(b, l, r, k) = Clean(Lookup(v, k))
    PROVE  mergeJSON(b, l, r) = Clean(v)
<1>1. \A k \in Kept(b, l, r) : Under3(b, l, r, k).result = "Merged" /\ Under3(b, l, r, k).file = Lookup(v, k)
  BY DEF Clean
<1>2. mergeJSON(b, l, r) = Clean(<<"map", [k \in Kept(b, l, r) |-> Under3(b, l, r, k).file]>>)
  BY <1>1, MergeOfMaps
<1>3. [k \in Kept(b, l, r) |-> Under3(b, l, r, k).file] = [k \in KeysOf(v) |-> Lookup(v, k)]
  BY <1>1
<1>4. v = <<"map", [k \in KeysOf(v) |-> Lookup(v, k)]>>
  BY JsonAssumption
<1> QED
  BY <1>2, <1>3, <1>4

LEMMA JsonOneSided ==
    \A b, c \in JsonValue : /\ mergeJSON(b, c, b) = Clean(c)
                            /\ mergeJSON(b, b, c) = Clean(c)
                            /\ mergeJSON(b, c, c) = Clean(c)
<1> DEFINE Right(b, l, r) == /\ b = r => mergeJSON(b, l, r) = Clean(l)
                             /\ b = l => mergeJSON(b, l, r) = Clean(r)
                             /\ l = r => mergeJSON(b, l, r) = Clean(l)
           T == {t \in Triple : Right(t[1], t[2], t[3])}
<1>1. ASSUME NEW b \in JsonValue, NEW l \in JsonValue, NEW r \in JsonValue,
             IsMap(b) /\ IsMap(l) /\ IsMap(r) =>
                \A k \in KeysOf(b) \cup KeysOf(l) \cup KeysOf(r) :
                   <<Lookup(b, k), Lookup(l, k), Lookup(r, k)>> \in T
      PROVE  <<b, l, r>> \in T
  <2>1. SUFFICES Right(b, l, r)
    BY DEF Triple
  <2>2. CASE ~(IsMap(b) /\ IsMap(l) /\ IsMap(r))
    BY <2>2, MergeOfOthers DEF Pick
  <2>3. CASE IsMap(b) /\ IsMap(l) /\ IsMap(r)
    <3>1. ASSUME NEW k \in KeysOf(b) \cup KeysOf(l) \cup KeysOf(r)
          PROVE  /\ Lookup(b, k) = Lookup(r, k) => Under3(b, l, r, k) = Clean(Lookup(l, k))
                 /\ Lookup(b, k) = Lookup(l, k) => Under3(b, l, r, k) = Clean(Lookup(r, k))
                 /\ Lookup(l, k) = Lookup(r, k) => Under3(b, l, r, k) = Clean(Lookup(l, k))
      <4>1. Right(Lookup(b, k), Lookup(l, k), Lookup(r, k))
        BY <1>1, <2>3
      <4> QED
        BY <4>1 DEF Under3
    <3>2. CASE b = r
      <4>1. Kept(b, l, r) = KeysOf(l) /\ \A k \in KeysOf(b) \cup KeysOf(l) \cup KeysOf(r) : ~DeleteConflict(b, l, r, k)
        BY <3>2 DEF Kept, Deleted, DeleteConflict
      <4>2. mergeJSON(b, l, r) = Clean(l)
        BY <2>3, <3>1, <3>2, <4>1, MapOfAll
      <4>3. l = b => r = l
        BY <3>2
      <4> QED
        BY <3>2, <4>2, <4>3
    <3>3. CASE b = l
      <4>1. Kept(b, l, r) = KeysOf(r) /\ \A k \in KeysOf(b) \cup KeysOf(l) \cup KeysOf(r) : ~DeleteConflict(b, l, r, k)
        BY <3>3 DEF Kept, Deleted, DeleteConflict
      <4>2. mergeJSON(b, l, r) = Clean(r)
        BY <2>3, <3>1, <3>3, <4>1, MapOfAll
      <4> QED
        BY <3>3, <4>2
    <3>4. CASE l = r
      <4>1. Kept(b, l, r) = KeysOf(l) /\ \A k \in KeysOf(b) \cup KeysOf(l) \cup KeysOf(r) : ~DeleteConflict(b, l, r, k)
        BY <3>4 DEF Kept, Deleted, DeleteConflict
      <4>2. mergeJSON(b, l, r) = Clean(l)
        BY <2>3, <3>1, <3>4, <4>1, MapOfAll
      <4> QED
        BY <3>4, <4>2
    <3> QED
      BY <3>2, <3>3, <3>4
  <2> QED
    BY <2>2, <2>3
<1>2. \A b, l, r \in JsonValue : <<b, l, r>> \in T
  <2> HIDE DEF T
  <2>1. T \in SUBSET Triple
    BY DEF T
  <2> QED
    BY <1>1, <2>1, JsonInduction
<1>3. ASSUME NEW b \in JsonValue, NEW l \in JsonValue, NEW r \in JsonValue PROVE Right(b, l, r)
  <2>1. <<b, l, r>> \in T
    BY <1>2
  <2> QED
    BY <2>1
<1> QED
  BY <1>3

-----------------------------------------------------------------------------
\* The side that merges does not matter.
Alike(x, y) == x.result = y.result /\ (x.result = "Merged" => x.file = y.file)

LEMMA SidesSwapped ==
    ASSUME NEW b, NEW l, NEW r
    PROVE  /\ Kept(b, l, r) = Kept(b, r, l)
           /\ KeysOf(b) \cup KeysOf(l) \cup KeysOf(r) = KeysOf(b) \cup KeysOf(r) \cup KeysOf(l)
           /\ \A k : DeleteConflict(b, l, r, k) <=> DeleteConflict(b, r, l, k)
<1>1. KeysOf(b) \cup KeysOf(l) \cup KeysOf(r) = KeysOf(b) \cup KeysOf(r) \cup KeysOf(l)
  OBVIOUS
<1>2. \A k : Deleted(b, l, r, k) <=> Deleted(b, r, l, k)
  BY DEF Deleted
<1>3. \A k : DeleteConflict(b, l, r, k) <=> DeleteConflict(b, r, l, k)
  BY DEF DeleteConflict
<1> QED
  BY <1>1, <1>2, <1>3 DEF Kept

LEMMA PickAlike == ASSUME NEW b, NEW l, NEW r PROVE Alike(Pick(b, l, r), Pick(b, r, l))
BY DEF Alike, Pick, Clean, Conflict

LEMMA JsonVerdict ==
    ASSUME NEW b \in JsonValue, NEW l \in JsonValue, NEW r \in JsonValue
    PROVE  \/ mergeJSON(b, l, r) = Conflict
           \/ \E v : mergeJSON(b, l, r) = Clean(v)
<1>1. CASE IsMap(b) /\ IsMap(l) /\ IsMap(r)
  <2>1. \/ mergeJSON(b, l, r) = Conflict
        \/ mergeJSON(b, l, r) = Clean(<<"map", [k \in Kept(b, l, r) |-> Under3(b, l, r, k).file]>>)
    BY <1>1, MergeOfMaps
  <2> QED
    BY <2>1
<1>2. CASE ~(IsMap(b) /\ IsMap(l) /\ IsMap(r))
  BY <1>2, MergeOfOthers DEF Pick
<1> QED
  BY <1>1, <1>2

LEMMA JsonSideBlind ==
    \A b, l, r \in JsonValue : Alike(mergeJSON(b, l, r), mergeJSON(b, r, l))
<1> DEFINE T == {t \in Triple : Alike(mergeJSON(t[1], t[2], t[3]), mergeJSON(t[1], t[3], t[2]))}
<1>1. ASSUME NEW b \in JsonValue, NEW l \in JsonValue, NEW r \in JsonValue,
             IsMap(b) /\ IsMap(l) /\ IsMap(r) =>
                \A k \in KeysOf(b) \cup KeysOf(l) \cup KeysOf(r) :
                   <<Lookup(b, k), Lookup(l, k), Lookup(r, k)>> \in T
      PROVE  <<b, l, r>> \in T
  <2>1. SUFFICES Alike(mergeJSON(b, l, r), mergeJSON(b, r, l))
    BY DEF Triple
  <2>2. CASE ~(IsMap(b) /\ IsMap(l) /\ IsMap(r))
    BY <2>2, MergeOfOthers, PickAlike
  <2>3. CASE IsMap(b) /\ IsMap(l) /\ IsMap(r)
    <3>1. \A k \in KeysOf(b) \cup KeysOf(l) \cup KeysOf(r) : Alike(Under3(b, l, r, k), Under3(b, r, l, k))
      BY <1>1, <2>3 DEF Under3
    <3> DEFINE stop == \/ \E k \in KeysOf(b) \cup KeysOf(l) \cup KeysOf(r) : DeleteConflict(b, l, r, k)
                       \/ \E k \in Kept(b, l, r) : Under3(b, l, r, k).result = "HasConflict"
    <3>2. stop <=> \/ \E k \in KeysOf(b) \cup KeysOf(r) \cup KeysOf(l) : DeleteConflict(b, r, l, k)
                   \/ \E k \in Kept(b, r, l) : Under3(b, r, l, k).result = "HasConflict"
      BY <3>1, SidesSwapped DEF Alike, Kept
    <3>3. CASE stop
      <4>1. mergeJSON(b, l, r) = Conflict /\ mergeJSON(b, r, l) = Conflict
        BY <2>3, <3>2, <3>3, MergeOfMaps
      <4> QED
        BY <4>1 DEF Alike
    <3>4. CASE ~stop
      <4>1. /\ mergeJSON(b, l, r) = Clean(<<"map", [k \in Kept(b, l, r) |-> Under3(b, l, r, k).file]>>)
            /\ mergeJSON(b, r, l) = Clean(<<"map", [k \in Kept(b, r, l) |-> Under3(b, r, l, k).file]>>)
        BY <2>3, <3>2, <3>4, MergeOfMaps
      <4>2. \A k \in Kept(b, l, r) : Under3(b, l, r, k).result = "Merged"
        <5> SUFFICES ASSUME NEW k \in Kept(b, l, r) PROVE Under3(b, l, r, k).result = "Merged"
          OBVIOUS
        <5>1. /\ Lookup(b, k) \in JsonValue /\ Lookup(l, k) \in JsonValue /\ Lookup(r, k) \in JsonValue
          BY <2>3, JsonAssumption DEF Lookup
        <5> QED
          BY <3>4, <5>1, JsonVerdict DEF Under3, Clean, Conflict
      <4>3. \A k \in Kept(b, l, r) : Under3(b, l, r, k).file = Under3(b, r, l, k).file
        BY <3>1, <4>2 DEF Alike, Kept
      <4>4. [k \in Kept(b, l, r) |-> Under3(b, l, r, k).file] = [k \in Kept(b, r, l) |-> Under3(b, r, l, k).file]
        BY <4>3, SidesSwapped
      <4> QED
        BY <4>1, <4>4 DEF Alike, Clean
    <3> QED
      BY <3>3, <3>4
  <2> QED
    BY <2>2, <2>3
<1>2. \A b, l, r \in JsonValue : <<b, l, r>> \in T
  <2> HIDE DEF T
  <2>1. T \in SUBSET Triple
    BY DEF T
  <2> QED
    BY <1>1, <2>1, JsonInduction
<1>3. ASSUME NEW b \in JsonValue, NEW l \in JsonValue, NEW r \in JsonValue
      PROVE  Alike(mergeJSON(b, l, r), mergeJSON(b, r, l))
  <2>1. <<b, l, r>> \in T
    BY <1>2
  <2> QED
    BY <2>1
<1> QED
  BY <1>3

\* The verdict and the result of a line or JSON merge are the same on both machines.
THEOREM MergedAlike == Spec => []SameFromBothSides
<1>1. Called => SameFromBothSides
  <2> SUFFICES ASSUME Called, outcome.result # "None", driver \in {"text", "json"}
               PROVE  Alike(outcome, MergeBy(driver, base, remote, local))
    BY DEF SameFromBothSides, Alike
  <2>1. outcome = MergeBy(driver, base, local, remote)
    BY DEF Called
  <2>2. CASE driver = "json"
    <3>1. base \in JsonValue /\ local \in JsonValue /\ remote \in JsonValue
      BY <2>2, FilesAssumption DEF Called, Contents
    <3> QED
      BY <2>1, <2>2, <3>1, JsonSideBlind DEF MergeBy
  <2>3. CASE driver = "text"
    <3>1. computeEdits(base, local) \cup computeEdits(base, remote)
             = computeEdits(base, remote) \cup computeEdits(base, local)
      OBVIOUS
    <3>2. merge3Lines(base, local, remote) = merge3Lines(base, remote, local)
      BY <3>1 DEF merge3Lines
    <3> QED
      BY <2>1, <2>3, <3>2 DEF MergeBy, Alike
  <2> QED
    BY <2>2, <2>3
<1> QED
  BY <1>1, OutcomeIsMerge, PTL

-----------------------------------------------------------------------------
\* A clean merge, looked into, is the clean merge of what is there in the versions.
LEMMA PickAtEntry ==
    ASSUME NEW b \in JsonValue, NEW l \in JsonValue, NEW r \in JsonValue, NEW m, NEW k,
           Pick(b, l, r) = Clean(m)
    PROVE  mergeJSON(Entry(b, k), Entry(l, k), Entry(r, k)) = Clean(Entry(m, k))
<1>1. Entry(b, k) \in JsonValue /\ Entry(l, k) \in JsonValue /\ Entry(r, k) \in JsonValue
  BY JsonAssumption DEF Entry, Lookup
<1>2. \/ b = l /\ m = r
      \/ (b = r \/ l = r) /\ m = l
  BY DEF Pick, Clean, Conflict
<1> QED
  BY <1>1, <1>2, JsonOneSided

LEMMA MergeAtEntry ==
    ASSUME NEW b \in JsonValue, NEW l \in JsonValue, NEW r \in JsonValue, NEW m, NEW k,
           mergeJSON(b, l, r) = Clean(m)
    PROVE  mergeJSON(Entry(b, k), Entry(l, k), Entry(r, k)) = Clean(Entry(m, k))
<1>1. CASE ~(IsMap(b) /\ IsMap(l) /\ IsMap(r))
  BY <1>1, MergeOfOthers, PickAtEntry
<1>2. CASE IsMap(b) /\ IsMap(l) /\ IsMap(r)
  <2>1. /\ Entry(b, k) = Lookup(b, k) /\ Entry(l, k) = Lookup(l, k) /\ Entry(r, k) = Lookup(r, k)
        /\ Lookup(b, k) \in JsonValue /\ Lookup(l, k) \in JsonValue /\ Lookup(r, k) \in JsonValue
    BY <1>2, JsonAssumption DEF Entry, Lookup
  <2>2. /\ \A j \in KeysOf(b) \cup KeysOf(l) \cup KeysOf(r) : ~DeleteConflict(b, l, r, j)
        /\ \A j \in Kept(b, l, r) : Under3(b, l, r, j).result # "HasConflict"
        /\ m = <<"map", [j \in Kept(b, l, r) |-> Under3(b, l, r, j).file]>>
    BY <1>2, MergeOfMaps DEF Clean, Conflict
  <2>3. IsMap(m) /\ KeysOf(m) = Kept(b, l, r) /\ \A j \in Kept(b, l, r) : Lookup(m, j) = Under3(b, l, r, j).file
    BY <2>2 DEF IsMap, KeysOf, Lookup
  <2>4. Entry(m, k) = Lookup(m, k)
    BY <2>3 DEF Entry
  <2>5. CASE k \in Kept(b, l, r)
    <3>1. Under3(b, l, r, k) = Clean(Under3(b, l, r, k).file)
      BY <2>1, <2>2, <2>5, JsonVerdict DEF Under3, Clean, Conflict
    <3> QED
      BY <2>1, <2>3, <2>4, <2>5, <3>1 DEF Under3
  <2>6. CASE k \notin Kept(b, l, r)
    <3>1. Lookup(m, k) = Nil
      BY <2>3, <2>6 DEF Lookup
    <3>2. \/ Lookup(l, k) = Nil /\ Lookup(r, k) = Nil
          \/ Lookup(l, k) = Nil /\ Lookup(r, k) = Lookup(b, k)
          \/ Lookup(r, k) = Nil /\ Lookup(l, k) = Lookup(b, k)
      <4>1. k \notin KeysOf(l) \/ k \notin KeysOf(r)
        BY <2>6 DEF Kept, Deleted
      <4>2. k \in KeysOf(b) \/ (k \notin KeysOf(l) /\ k \notin KeysOf(r))
        BY <2>6 DEF Kept, Deleted
      <4> QED
        BY <2>2, <4>1, <4>2 DEF DeleteConflict, Lookup
    <3> QED
      BY <2>1, <2>4, <3>1, <3>2, JsonOneSided, JsonAssumption
  <2> QED
    BY <2>5, <2>6
<1> QED
  BY <1>1, <1>2

\* What At returns, a key after the other.
AtFcn(v, path, f) ==
    f = [n \in 0 .. Len(path) |-> IF n = 0 THEN v ELSE Entry(f[n - 1], path[n])]

LEMMA AtExists ==
    ASSUME NEW v, NEW path, Len(path) \in Nat
    PROVE  \E f : AtFcn(v, path, f) /\ At(v, path) = f[Len(path)]
<1> DEFINE Upto(n, f) == f = [i \in 0 .. n |-> IF i = 0 THEN v ELSE Entry(f[i - 1], path[i])]
           T == {n \in Nat : ~\E f : Upto(n, f)}
<1>1. T = {}
  <2>1. SUFFICES ASSUME T # {} PROVE FALSE
    OBVIOUS
  <2>2. PICK n \in T : \A i \in T : n <= i
    BY <2>1, LeastNatural
  <2>3. CASE n = 0
    <3>1. Upto(0, [i \in 0 .. 0 |-> v])
      OBVIOUS
    <3> QED
      BY <2>3, <3>1
  <2>4. CASE n # 0
    <3>1. n - 1 \in Nat /\ n - 1 \notin T
      <4>1. n \in Nat
        OBVIOUS
      <4> HIDE DEF T
      <4>2. n - 1 \in Nat /\ ~(n <= n - 1)
        BY <2>4, <4>1
      <4> QED
        BY <2>2, <4>2
    <3>2. PICK g : Upto(n - 1, g)
      BY <3>1
    <3> DEFINE f == [i \in 0 .. n |-> IF i = n THEN Entry(g[n - 1], path[n]) ELSE g[i]]
    <3>3. ASSUME NEW i \in 0 .. n PROVE f[i] = IF i = 0 THEN v ELSE Entry(f[i - 1], path[i])
      BY <2>4, <3>2
    <3>4. Upto(n, f)
      BY <3>3
    <3> QED
      BY <3>4
  <2> QED
    BY <2>3, <2>4
<1>2. PICK f : Upto(Len(path), f)
  BY <1>1
<1> QED
  BY <1>2 DEF At, AtFcn

LEMMA MergeAtPath ==
    ASSUME NEW b \in JsonValue, NEW l \in JsonValue, NEW r \in JsonValue, NEW m, NEW path,
           Len(path) \in Nat, mergeJSON(b, l, r) = Clean(m)
    PROVE  /\ At(b, path) \in JsonValue /\ At(l, path) \in JsonValue /\ At(r, path) \in JsonValue
           /\ mergeJSON(At(b, path), At(l, path), At(r, path)) = Clean(At(m, path))
<1>1. PICK fb : AtFcn(b, path, fb) /\ At(b, path) = fb[Len(path)]
  BY AtExists
<1>2. PICK fl : AtFcn(l, path, fl) /\ At(l, path) = fl[Len(path)]
  BY AtExists
<1>3. PICK fr : AtFcn(r, path, fr) /\ At(r, path) = fr[Len(path)]
  BY AtExists
<1>4. PICK fm : AtFcn(m, path, fm) /\ At(m, path) = fm[Len(path)]
  BY AtExists
<1> DEFINE Right(n) == /\ fb[n] \in JsonValue /\ fl[n] \in JsonValue /\ fr[n] \in JsonValue
                       /\ mergeJSON(fb[n], fl[n], fr[n]) = Clean(fm[n])
           T == {n \in 0 .. Len(path) : ~Right(n)}
<1>5. fb[0] = b /\ fl[0] = l /\ fr[0] = r /\ fm[0] = m
  BY <1>1, <1>2, <1>3, <1>4 DEF AtFcn
<1>6. \A n \in 0 .. Len(path) : n # 0 =>
         /\ fb[n] = Entry(fb[n - 1], path[n]) /\ fl[n] = Entry(fl[n - 1], path[n])
         /\ fr[n] = Entry(fr[n - 1], path[n]) /\ fm[n] = Entry(fm[n - 1], path[n])
  BY <1>1, <1>2, <1>3, <1>4 DEF AtFcn
<1>7. ASSUME NEW n \in 1 .. Len(path), Right(n - 1) PROVE Right(n)
  <2>1. \A v \in JsonValue : \A k : Entry(v, k) \in JsonValue
    BY JsonAssumption DEF Entry, Lookup
  <2> QED
    BY <1>6, <1>7, <2>1, MergeAtEntry
<1>8. Right(0)
  BY <1>5
<1> HIDE DEF Right
<1>9. T = {}
  <2>1. SUFFICES ASSUME T # {} PROVE FALSE
    OBVIOUS
  <2>2. T \in SUBSET Nat
    OBVIOUS
  <2>3. PICK n \in T : \A i \in T : n <= i
    BY <2>1, <2>2, LeastNatural
  <2>4. n \in 1 .. Len(path) /\ ~Right(n)
    BY <1>8
  <2>5. n - 1 \in 0 .. Len(path) /\ ~(n <= n - 1)
    BY <2>4
  <2>6. Right(n - 1)
    BY <2>3, <2>5
  <2> QED
    BY <1>7, <2>4, <2>6
<1>10. Right(Len(path))
  BY <1>9
<1> QED
  BY <1>1, <1>2, <1>3, <1>4, <1>10 DEF Right

\* What a merge does to a value as far as one sees of it without looking into it.
Seen(v) == IF IsMap(v) THEN <<"map">> ELSE v

LEMMA SeenMerged ==
    ASSUME NEW b \in JsonValue, NEW l \in JsonValue, NEW r \in JsonValue, NEW m,
           mergeJSON(b, l, r) = Clean(m)
    PROVE  ~Diverge(Seen(b), Seen(l), Seen(r)) /\ Seen(m) = ThreeWay(Seen(b), Seen(l), Seen(r))
<1>1. CASE IsMap(b) /\ IsMap(l) /\ IsMap(r)
  <2>1. m = <<"map", [k \in Kept(b, l, r) |-> Under3(b, l, r, k).file]>>
    BY <1>1, MergeOfMaps DEF Clean, Conflict
  <2>2. IsMap(m)
    BY <2>1 DEF IsMap
  <2> QED
    BY <1>1, <2>2 DEF Seen, Diverge, ThreeWay
<1>2. CASE ~(IsMap(b) /\ IsMap(l) /\ IsMap(r))
  <2>1. \/ b = l /\ m = r
        \/ (b = r \/ l = r) /\ m = l
    BY <1>2, MergeOfOthers DEF Pick, Clean, Conflict
  <2> QED
    BY <2>1 DEF Diverge, ThreeWay
<1> QED
  BY <1>1, <1>2

\* JsonLeavesMerged for paths of any length.
JsonPathsMerged ==
    Merged("json") =>
        \A path : Len(path) \in Nat =>
            LET b == PathValue(base, path)
                l == PathValue(local, path)
                r == PathValue(remote, path)
            IN  ~Diverge(b, l, r) /\ PathValue(outcome.file, path) = ThreeWay(b, l, r)

\* A clean merge of JSON has the three-way value at every path, however deep, and what
\* is there had not diverged.
THEOREM JsonMergedAtAnyDepth == Spec => []JsonPathsMerged
<1>1. Called => JsonPathsMerged
  <2> SUFFICES ASSUME Called, Merged("json"), NEW path, Len(path) \in Nat
               PROVE  /\ ~Diverge(PathValue(base, path), PathValue(local, path), PathValue(remote, path))
                      /\ PathValue(outcome.file, path)
                            = ThreeWay(PathValue(base, path), PathValue(local, path), PathValue(remote, path))
    BY DEF JsonPathsMerged
  <2>1. base \in JsonValue /\ local \in JsonValue /\ remote \in JsonValue
    BY FilesAssumption DEF Called, Merged, Contents
  <2>2. mergeJSON(base, local, remote) = Clean(outcome.file)
    <3>1. outcome = mergeJSON(base, local, remote) /\ outcome.result = "Merged"
      BY DEF Called, Merged, MergeBy
    <3> QED
      BY <2>1, <3>1, JsonVerdict DEF Clean, Conflict
  <2>3. \A v : PathValue(v, path) = Seen(At(v, path))
    BY DEF PathValue, Seen
  <2> QED
    BY <2>1, <2>2, <2>3, MergeAtPath, SeenMerged
<1> QED
  BY <1>1, OutcomeIsMerge, PTL

\* The same for the paths that the run looks at.
THEOREM JsonMerged == Spec => []JsonLeavesMerged
<1>1. JsonPathsMerged => JsonLeavesMerged
  <2>1. \A v : \A path \in Paths(v) : Len(path) \in Nat
    BY DEF Paths
  <2> QED
    BY <2>1 DEF JsonPathsMerged, JsonLeavesMerged
<1> QED
  BY <1>1, JsonMergedAtAnyDepth, PTL
-----------------------------------------------------------------------------
(***************************************************************************)
(* Lines.  The longest common subsequence matches equal lines in order.    *)
(***************************************************************************)
Places(xs, ys) == (0 .. Len(xs)) \X (0 .. Len(ys))

\* One step back through the table of lengths, with g for the steps after it.
Back(xs, ys, g, p) ==
    IF p[1] = 0 \/ p[2] = 0 THEN <<>>
    ELSE IF xs[p[1]] = ys[p[2]] THEN Append(g[<<p[1] - 1, p[2] - 1>>], p)
    ELSE IF lcsLengths(xs, ys)[<<p[1] - 1, p[2]>>] > lcsLengths(xs, ys)[<<p[1], p[2] - 1>>]
    THEN g[<<p[1] - 1, p[2]>>]
    ELSE g[<<p[1], p[2] - 1>>]

LEMMA BackOfEqual ==
    ASSUME NEW xs \in Seq(Line), NEW ys \in Seq(Line), NEW p \in Places(xs, ys), NEW g, NEW h,
           \A q \in Places(xs, ys) : q[1] + q[2] < p[1] + p[2] => g[q] = h[q]
    PROVE  Back(xs, ys, g, p) = Back(xs, ys, h, p)
<1> DEFINE i == p[1]
           j == p[2]
<1>1. i \in 0 .. Len(xs) /\ j \in 0 .. Len(ys) /\ Len(xs) \in Nat /\ Len(ys) \in Nat
  BY DEF Places
<1>2. CASE i = 0 \/ j = 0
  BY <1>2 DEF Back
<1>3. CASE i # 0 /\ j # 0
  <2>1. /\ <<i - 1, j - 1>> \in Places(xs, ys) /\ <<i - 1, j>> \in Places(xs, ys)
        /\ <<i, j - 1>> \in Places(xs, ys)
    BY <1>1, <1>3 DEF Places
  <2>2. /\ g[<<i - 1, j - 1>>] = h[<<i - 1, j - 1>>] /\ g[<<i - 1, j>>] = h[<<i - 1, j>>]
        /\ g[<<i, j - 1>>] = h[<<i, j - 1>>]
    BY <1>1, <1>3, <2>1
  <2> QED
    BY <2>2 DEF Back
<1> QED
  BY <1>2, <1>3

LEMMA BackExists ==
    ASSUME NEW xs \in Seq(Line), NEW ys \in Seq(Line)
    PROVE  \E f : /\ f = [p \in Places(xs, ys) |-> Back(xs, ys, f, p)]
                  /\ lcsIndices(xs, ys) = f[<<Len(xs), Len(ys)>>]
<1> DEFINE Near(n) == {p \in Places(xs, ys) : p[1] + p[2] < n}
           Upto(n, g) == g = [p \in Near(n) |-> Back(xs, ys, g, p)]
           T == {n \in Nat : ~\E g : Upto(n, g)}
<1>1. \A p \in Places(xs, ys) : p[1] + p[2] \in 0 .. Len(xs) + Len(ys)
  BY DEF Places
<1>2. T = {}
  <2>1. SUFFICES ASSUME T # {} PROVE FALSE
    OBVIOUS
  <2>2. PICK n \in T : \A i \in T : n <= i
    BY <2>1, LeastNatural
  <2>3. n # 0
    <3>1. Near(0) = {}
      BY <1>1
    <3>2. Upto(0, [p \in {} |-> p])
      BY <3>1
    <3> QED
      BY <3>2
  <2>4. PICK g : Upto(n - 1, g)
    <3>1. n \in Nat
      OBVIOUS
    <3> HIDE DEF T
    <3>2. n - 1 \in Nat /\ n - 1 \notin T
      <4>1. n - 1 \in Nat /\ ~(n <= n - 1)
        BY <2>3, <3>1
      <4> QED
        BY <2>2, <4>1
    <3> HIDE DEF Upto
    <3> QED
      BY <3>2 DEF T
  <2> DEFINE h == [p \in Near(n) |-> Back(xs, ys, g, p)]
  <2>5. ASSUME NEW p \in Near(n) PROVE Back(xs, ys, h, p) = Back(xs, ys, g, p)
    <3>1. \A q \in Places(xs, ys) : q[1] + q[2] < p[1] + p[2] => q \in Near(n - 1) /\ q \in Near(n)
      BY <1>1, <2>2
    <3>2. \A q \in Places(xs, ys) : q[1] + q[2] < p[1] + p[2] => h[q] = g[q]
      BY <2>4, <3>1
    <3> HIDE DEF h
    <3> QED
      BY <3>2, BackOfEqual
  <2>6. Upto(n, h)
    BY <2>5
  <2> QED
    BY <2>6
<1>3. Len(xs) + Len(ys) + 1 \in Nat
  OBVIOUS
<1>4. PICK f : Upto(Len(xs) + Len(ys) + 1, f)
  <2> HIDE DEF Upto
  <2> QED
    BY <1>2, <1>3
<1>5. Near(Len(xs) + Len(ys) + 1) = Places(xs, ys)
  BY <1>1
<1>6. f = [p \in Places(xs, ys) |-> Back(xs, ys, f, p)]
  BY <1>4, <1>5
<1>7. \E g : g = [p \in Places(xs, ys) |-> Back(xs, ys, g, p)]
  BY <1>6
<1> QED
  BY <1>7 DEF lcsIndices, Back, Places

\* Matches of the first i lines of xs with the first j of ys.
Matches(s, xs, ys, i, j) ==
    /\ s \in Seq(Nat \X Nat)
    /\ \A k \in 1 .. Len(s) : s[k][1] \in 1 .. i /\ s[k][2] \in 1 .. j /\ xs[s[k][1]] = ys[s[k][2]]
    /\ \A k, q \in 1 .. Len(s) : k < q => s[k][1] < s[q][1] /\ s[k][2] < s[q][2]

LEMMA MatchesGrow ==
    ASSUME NEW s, NEW xs, NEW ys, NEW i \in Nat, NEW j \in Nat, NEW m \in Nat, NEW n \in Nat,
           Matches(s, xs, ys, i, j), i <= m, j <= n
    PROVE  Matches(s, xs, ys, m, n)
BY DEF Matches

LEMMA MatchAppended ==
    ASSUME NEW s, NEW xs, NEW ys, NEW i \in Nat \ {0}, NEW j \in Nat \ {0},
           Matches(s, xs, ys, i - 1, j - 1), xs[i] = ys[j]
    PROVE  Matches(Append(s, <<i, j>>), xs, ys, i, j)
<1> DEFINE t == Append(s, <<i, j>>)
<1>1. /\ t \in Seq(Nat \X Nat) /\ Len(t) = Len(s) + 1 /\ Len(s) \in Nat
      /\ \A k \in 1 .. Len(s) : t[k] = s[k]
      /\ t[Len(s) + 1] = <<i, j>>
  BY AppendProperties DEF Matches
<1> HIDE DEF t
<1>2. \A k \in 1 .. Len(s) : s[k][1] \in 1 .. i - 1 /\ s[k][2] \in 1 .. j - 1
  BY DEF Matches
<1>3. ASSUME NEW k \in 1 .. Len(t)
      PROVE  t[k][1] \in 1 .. i /\ t[k][2] \in 1 .. j /\ xs[t[k][1]] = ys[t[k][2]]
  <2>1. CASE k \in 1 .. Len(s)
    <3>1. t[k] = s[k] /\ s[k][1] \in 1 .. i - 1 /\ s[k][2] \in 1 .. j - 1
      BY <1>1, <1>2, <2>1
    <3>2. xs[s[k][1]] = ys[s[k][2]]
      BY <2>1 DEF Matches
    <3>3. 1 .. i - 1 \subseteq 1 .. i /\ 1 .. j - 1 \subseteq 1 .. j
      OBVIOUS
    <3> QED
      BY <3>1, <3>2, <3>3
  <2>2. CASE k = Len(s) + 1
    BY <1>1, <2>2
  <2> QED
    BY <1>1, <2>1, <2>2
<1>4. ASSUME NEW k \in 1 .. Len(t), NEW q \in 1 .. Len(t), k < q
      PROVE  t[k][1] < t[q][1] /\ t[k][2] < t[q][2]
  <2>1. k \in 1 .. Len(s)
    BY <1>1, <1>4
  <2>2. CASE q \in 1 .. Len(s)
    BY <1>1, <1>4, <2>1, <2>2 DEF Matches
  <2>3. CASE q = Len(s) + 1
    <3>1. t[k] = s[k] /\ t[q] = <<i, j>>
      BY <1>1, <2>1, <2>3
    <3>2. \A m \in 1 .. i - 1 : m < i
      OBVIOUS
    <3>3. \A m \in 1 .. j - 1 : m < j
      OBVIOUS
    <3>4. s[k][1] < i /\ s[k][2] < j
      BY <1>2, <2>1, <3>2, <3>3
    <3> QED
      BY <3>1, <3>4
  <2> QED
    BY <1>1, <2>2, <2>3
<1>5. Matches(t, xs, ys, i, j)
  BY <1>1, <1>3, <1>4 DEF Matches
<1> QED
  BY <1>5 DEF t

LEMMA LcsMatches ==
    ASSUME NEW xs \in Seq(Line), NEW ys \in Seq(Line)
    PROVE  Matches(lcsIndices(xs, ys), xs, ys, Len(xs), Len(ys))
<1>1. PICK f : /\ f = [p \in Places(xs, ys) |-> Back(xs, ys, f, p)]
               /\ lcsIndices(xs, ys) = f[<<Len(xs), Len(ys)>>]
  BY BackExists
<1> DEFINE T == {p \in Places(xs, ys) : ~Matches(f[p], xs, ys, p[1], p[2])}
           D == {p[1] + p[2] : p \in T}
<1>2. T = {}
  <2>1. SUFFICES ASSUME T # {} PROVE FALSE
    OBVIOUS
  <2>2. D \in SUBSET Nat /\ D # {}
    BY <2>1 DEF Places
  <2>3. PICK n \in D : \A m \in D : n <= m
    BY <2>2, LeastNatural
  <2>4. PICK p \in T : n = p[1] + p[2]
    BY <2>3
  <2> DEFINE i == p[1]
             j == p[2]
  <2>5. /\ i \in 0 .. Len(xs) /\ j \in 0 .. Len(ys) /\ p = <<i, j>> /\ p \in Places(xs, ys)
        /\ Len(xs) \in Nat /\ Len(ys) \in Nat
        /\ ~Matches(f[p], xs, ys, i, j) /\ f[p] = Back(xs, ys, f, p)
    BY <1>1 DEF Places
  <2>6. ASSUME NEW q \in Places(xs, ys), q[1] + q[2] < i + j PROVE Matches(f[q], xs, ys, q[1], q[2])
    <3>1. q[1] + q[2] \notin D
      <4>1. ~(n <= q[1] + q[2])
        BY <2>4, <2>5, <2>6 DEF Places
      <4> HIDE DEF D
      <4> QED
        BY <2>3, <4>1
    <3> QED
      BY <3>1
  <2> HIDE DEF T, D, i, j
  <2>6a. ASSUME NEW a, NEW b, <<a, b>> \in Places(xs, ys), a + b < i + j
        PROVE  Matches(f[<<a, b>>], xs, ys, a, b)
    <3> DEFINE q == <<a, b>>
    <3>1. q \in Places(xs, ys) /\ q[1] = a /\ q[2] = b
      BY <2>6a
    <3> HIDE DEF q
    <3>2. Matches(f[q], xs, ys, a, b)
      BY <2>6a, <2>6, <3>1
    <3> QED
      BY <3>2 DEF q
  <2>7. CASE i = 0 \/ j = 0
    <3>1. f[p] = <<>>
      BY <2>5, <2>7 DEF Back, i, j
    <3>2. Matches(<<>>, xs, ys, i, j)
      BY DEF Matches
    <3> QED
      BY <2>5, <3>1, <3>2
  <2>8. CASE i # 0 /\ j # 0 /\ xs[i] = ys[j]
    <3>1. f[p] = Append(f[<<i - 1, j - 1>>], <<i, j>>)
      BY <2>5, <2>8 DEF Back, i, j
    <3>2. <<i - 1, j - 1>> \in Places(xs, ys)
      BY <2>5, <2>8 DEF Places
    <3>3. /\ (i - 1) + (j - 1) < i + j
          /\ i \in Nat \ {0} /\ j \in Nat \ {0}
      BY <2>5, <2>8
    <3>4. Matches(f[<<i - 1, j - 1>>], xs, ys, i - 1, j - 1)
      BY <2>6a, <3>2, <3>3
    <3>5. Matches(Append(f[<<i - 1, j - 1>>], <<i, j>>), xs, ys, i, j)
      BY <2>8, <3>3, <3>4, MatchAppended
    <3> QED
      BY <2>5, <3>1, <3>5
  <2>9. CASE i # 0 /\ j # 0 /\ xs[i] # ys[j]
    <3>1. f[p] = f[<<i - 1, j>>] \/ f[p] = f[<<i, j - 1>>]
      BY <2>5, <2>9 DEF Back, i, j
    <3>2. <<i - 1, j>> \in Places(xs, ys) /\ <<i, j - 1>> \in Places(xs, ys)
      BY <2>5, <2>9 DEF Places
    <3>3. Matches(f[<<i - 1, j>>], xs, ys, i - 1, j) /\ Matches(f[<<i, j - 1>>], xs, ys, i, j - 1)
      <4>1. (i - 1) + j < i + j /\ i + (j - 1) < i + j
        BY <2>5, <2>9
      <4> QED
        BY <2>6a, <3>2, <4>1
    <3>4. Matches(f[<<i - 1, j>>], xs, ys, i, j) /\ Matches(f[<<i, j - 1>>], xs, ys, i, j)
      <4>1. i - 1 \in Nat /\ j - 1 \in Nat /\ i \in Nat /\ j \in Nat /\ i - 1 <= i /\ j - 1 <= j /\ i <= i /\ j <= j
        BY <2>5, <2>9
      <4> QED
        BY <3>3, <4>1, MatchesGrow
    <3> QED
      BY <2>5, <3>1, <3>4
  <2> QED
    BY <2>7, <2>8, <2>9
<1>3. <<Len(xs), Len(ys)>> \in Places(xs, ys)
  BY DEF Places
<1>4. Matches(f[<<Len(xs), Len(ys)>>], xs, ys, Len(xs), Len(ys))
  BY <1>2, <1>3
<1> QED
  BY <1>1, <1>4

\* The anchors are in order, from before the first lines to after the last.
InOrder(a, xs, ys) ==
    /\ a \in Seq(Nat \X Nat) /\ Len(a) >= 2
    /\ a[1] = <<0, 0>> /\ a[Len(a)] = <<Len(xs) + 1, Len(ys) + 1>>
    /\ \A k, q \in 1 .. Len(a) : k < q => a[k][1] < a[q][1] /\ a[k][2] < a[q][2]
    /\ \A k \in 2 .. Len(a) - 1 : xs[a[k][1]] = ys[a[k][2]]

LEMMA Flanked ==
    ASSUME NEW s \in Seq(Nat \X Nat), NEW m \in Nat, NEW n \in Nat,
           NEW a, a = <<<<0, 0>>>> \o s \o <<<<m, n>>>>
    PROVE  /\ a \in Seq(Nat \X Nat) /\ Len(a) = Len(s) + 2
           /\ a[1] = <<0, 0>> /\ a[Len(s) + 2] = <<m, n>>
           /\ \A k \in 2 .. Len(s) + 1 : a[k] = s[k - 1]
<1> DEFINE b == <<<<0, 0>>>> \o s \o <<<<m, n>>>>
<1>1. /\ b \in Seq(Nat \X Nat) /\ Len(b) = Len(s) + 2
      /\ b[1] = <<0, 0>> /\ b[Len(s) + 2] = <<m, n>>
      /\ \A k \in 2 .. Len(s) + 1 : b[k] = s[k - 1]
  OBVIOUS
<1>2. a = b
  OBVIOUS
<1> HIDE DEF b
<1> QED
  BY <1>1, <1>2

LEMMA AnchorsInOrder ==
    ASSUME NEW xs \in Seq(Line), NEW ys \in Seq(Line) PROVE InOrder(Anchors(xs, ys), xs, ys)
<1> DEFINE s == lcsIndices(xs, ys)
           m == Len(xs) + 1
           n == Len(ys) + 1
           a == <<<<0, 0>>>> \o s \o <<<<m, n>>>>
<1>1. /\ s \in Seq(Nat \X Nat)
      /\ \A k \in 1 .. Len(s) : s[k][1] \in 1 .. Len(xs) /\ s[k][2] \in 1 .. Len(ys) /\ xs[s[k][1]] = ys[s[k][2]]
      /\ \A k, q \in 1 .. Len(s) : k < q => s[k][1] < s[q][1] /\ s[k][2] < s[q][2]
  BY LcsMatches DEF Matches
<1>2. m \in Nat /\ n \in Nat /\ m = Len(xs) + 1 /\ n = Len(ys) + 1 /\ Len(xs) \in Nat /\ Len(ys) \in Nat /\ Len(s) \in Nat
  BY <1>1
<1> HIDE DEF s, m, n
<1>3. /\ a \in Seq(Nat \X Nat) /\ Len(a) = Len(s) + 2
      /\ a[1] = <<0, 0>> /\ a[Len(s) + 2] = <<m, n>>
      /\ \A k \in 2 .. Len(s) + 1 : a[k] = s[k - 1]
  BY <1>1, <1>2, Flanked
<1>3a. /\ Len(a) \in Nat
       /\ a[1][1] = 0 /\ a[1][2] = 0 /\ a[Len(a)][1] = m /\ a[Len(a)][2] = n
  BY <1>2, <1>3
<1> HIDE DEF a
<1>4. ASSUME NEW k \in 2 .. Len(a) - 1
      PROVE  a[k] = s[k - 1] /\ k - 1 \in 1 .. Len(s) /\ xs[a[k][1]] = ys[a[k][2]]
  <2>1. k \in 2 .. Len(s) + 1 /\ k - 1 \in 1 .. Len(s)
    BY <1>2, <1>3
  <2>2. a[k] = s[k - 1]
    BY <1>3, <2>1
  <2> QED
    BY <1>1, <2>1, <2>2
<1>5. ASSUME NEW k \in 2 .. Len(a) - 1
      PROVE  0 < a[k][1] /\ a[k][1] < m /\ 0 < a[k][2] /\ a[k][2] < n
  <2>1. a[k][1] \in 1 .. Len(xs) /\ a[k][2] \in 1 .. Len(ys)
    BY <1>1, <1>4
  <2>2. (\A i \in 1 .. Len(xs) : 0 < i /\ i < m) /\ (\A i \in 1 .. Len(ys) : 0 < i /\ i < n)
    BY <1>2
  <2> QED
    BY <2>1, <2>2
<1>6. ASSUME NEW k \in 1 .. Len(a), NEW q \in 1 .. Len(a), k < q
      PROVE  a[k][1] < a[q][1] /\ a[k][2] < a[q][2]
  <2>1. CASE k = 1 /\ q = Len(a)
    BY <1>2, <1>3a, <2>1
  <2>2. CASE k = 1 /\ q # Len(a)
    <3>1. q \in 2 .. Len(a) - 1
      BY <1>3a, <1>6, <2>2
    <3> QED
      BY <1>3a, <1>5, <2>2, <3>1
  <2>3. CASE k # 1 /\ q = Len(a)
    <3>1. k \in 2 .. Len(a) - 1
      BY <1>3a, <1>6, <2>3
    <3> QED
      BY <1>3a, <1>5, <2>3, <3>1
  <2>4. CASE k # 1 /\ q # Len(a)
    <3>1. k \in 2 .. Len(a) - 1 /\ q \in 2 .. Len(a) - 1 /\ k - 1 < q - 1
      BY <1>3a, <1>6, <2>4
    <3> QED
      BY <1>1, <1>4, <3>1
  <2> QED
    BY <2>1, <2>2, <2>3, <2>4
<1>7. Len(a) >= 2 /\ a[Len(a)] = <<Len(xs) + 1, Len(ys) + 1>>
  BY <1>2, <1>3
<1> QED
  BY <1>3, <1>4, <1>6, <1>7 DEF InOrder, Anchors, a, s, m, n

\* What lies between two anchors.
Gap(xs, ys, k) ==
    [from  |-> Anchors(xs, ys)[k][1],
     to    |-> Anchors(xs, ys)[k + 1][1] - 1,
     lines |-> SubSeq(ys, Anchors(xs, ys)[k][2] + 1, Anchors(xs, ys)[k + 1][2] - 1)]

IsEdit(e) == e.from < e.to \/ e.lines # <<>>

LEMMA EditsAreGaps ==
    ASSUME NEW xs, NEW ys
    PROVE  computeEdits(xs, ys) = {e \in {Gap(xs, ys, k) : k \in 1 .. Len(Anchors(xs, ys)) - 1} : IsEdit(e)}
BY DEF computeEdits, Gap, IsEdit

\* Edits of one side: ranges of the base's lines, no two of which start together.
Ranges(edits, xs) ==
    /\ \A e \in edits : e.from \in 0 .. Len(xs) /\ e.to \in 0 .. Len(xs) /\ e.from <= e.to
    /\ \A e, f \in edits : e.from = f.from => e = f

LEMMA EditsAreRanges ==
    ASSUME NEW xs \in Seq(Line), NEW ys \in Seq(Line) PROVE Ranges(computeEdits(xs, ys), xs)
<1> DEFINE a == Anchors(xs, ys)
<1>1. /\ a \in Seq(Nat \X Nat) /\ Len(a) >= 2 /\ Len(a) \in Nat /\ Len(xs) \in Nat
      /\ a[Len(a)][1] = Len(xs) + 1
      /\ \A k, q \in 1 .. Len(a) : k < q => a[k][1] < a[q][1]
  <2>1. InOrder(a, xs, ys)
    BY AnchorsInOrder
  <2> HIDE DEF a
  <2>2. a[Len(a)] = <<Len(xs) + 1, Len(ys) + 1>>
    BY <2>1 DEF InOrder
  <2>3. a \in Seq(Nat \X Nat) /\ Len(a) >= 2 /\ \A k, q \in 1 .. Len(a) : k < q => a[k][1] < a[q][1]
    BY <2>1 DEF InOrder
  <2>4. a[Len(a)][1] = Len(xs) + 1
    BY <2>2
  <2>5. Len(a) \in Nat /\ Len(xs) \in Nat
    BY <2>3
  <2> QED
    BY <2>3, <2>4, <2>5
<1> HIDE DEF a
<1>2. ASSUME NEW k \in 1 .. Len(a) - 1
      PROVE  /\ a[k][1] \in 0 .. Len(xs) /\ a[k + 1][1] - 1 \in 0 .. Len(xs) /\ a[k][1] <= a[k + 1][1] - 1
  <2>1. k \in 1 .. Len(a) /\ k + 1 \in 1 .. Len(a) /\ Len(a) \in 1 .. Len(a) /\ k < k + 1
    BY <1>1
  <2>2. a[k][1] \in Nat /\ a[k + 1][1] \in Nat
    <3>1. a \in [1 .. Len(a) -> Nat \X Nat]
      BY <1>1
    <3>2. a[k] \in Nat \X Nat /\ a[k + 1] \in Nat \X Nat
      BY <2>1, <3>1
    <3> QED
      BY <3>2
  <2>3. a[k][1] < a[k + 1][1]
    BY <1>1, <2>1
  <2>4. a[k + 1][1] <= Len(xs) + 1
    <3>1. CASE k + 1 = Len(a)
      BY <1>1, <3>1
    <3>2. CASE k + 1 < Len(a)
      <4>1. a[k + 1][1] < a[Len(a)][1]
        BY <1>1, <2>1, <3>2
      <4> QED
        BY <1>1, <2>2, <4>1
    <3> QED
      BY <1>1, <3>1, <3>2
  <2>5. \A x, y \in Nat : x < y /\ y <= Len(xs) + 1 => x \in 0 .. Len(xs) /\ y - 1 \in 0 .. Len(xs) /\ x <= y - 1
    BY <1>1
  <2> QED
    BY <2>2, <2>3, <2>4, <2>5
<1>3. ASSUME NEW e \in computeEdits(xs, ys)
      PROVE  \E k \in 1 .. Len(a) - 1 : e = Gap(xs, ys, k) /\ e.from = a[k][1] /\ e.to = a[k + 1][1] - 1
  BY EditsAreGaps DEF Gap, a
<1>4. ASSUME NEW e \in computeEdits(xs, ys), NEW f \in computeEdits(xs, ys), e.from = f.from PROVE e = f
  <2>1. PICK k \in 1 .. Len(a) - 1 : e = Gap(xs, ys, k) /\ e.from = a[k][1]
    BY <1>3
  <2>2. PICK q \in 1 .. Len(a) - 1 : f = Gap(xs, ys, q) /\ f.from = a[q][1]
    BY <1>3
  <2>3. ~(a[k][1] < a[q][1]) /\ ~(a[q][1] < a[k][1])
    <3>1. a[k][1] = a[q][1] /\ a[k][1] \in Nat
      BY <1>2, <1>4, <2>1, <2>2
    <3> QED
      BY <3>1
  <2>4. k \in 1 .. Len(a) /\ q \in 1 .. Len(a)
    BY <1>1
  <2>4a. ~(k < q) /\ ~(q < k)
    BY <1>1, <2>3, <2>4
  <2>5. k = q
    BY <2>4, <2>4a
  <2> QED
    BY <2>1, <2>2, <2>5
<1>5. ASSUME NEW e \in computeEdits(xs, ys)
      PROVE  e.from \in 0 .. Len(xs) /\ e.to \in 0 .. Len(xs) /\ e.from <= e.to
  BY <1>2, <1>3
<1> QED
  BY <1>4, <1>5 DEF Ranges

-----------------------------------------------------------------------------
(***************************************************************************)
(* The merge goes over the base and applies the edits where they start.    *)
(***************************************************************************)
Start == [result |-> "Merged", pos |-> 0, lines |-> <<>>]
Stepped(xs, edits, acc, n) ==
    IF \E e \in edits : e.from = n THEN ApplyEdits(xs, edits, acc, n) ELSE acc
Over(xs, edits, f) ==
    f = [n \in 0 .. Len(xs) + 1 |->
            IF n = 0 THEN Start ELSE Stepped(xs, edits, f[n - 1], n - 1)]

LEMMA OverStepped ==
    ASSUME NEW xs \in Seq(Line), NEW edits, NEW f, Over(xs, edits, f),
           NEW n \in 1 .. Len(xs) + 1
    PROVE  f[n] = Stepped(xs, edits, f[n - 1], n - 1)
<1>1. n \in 0 .. Len(xs) + 1 /\ n # 0
  OBVIOUS
<1> QED
  BY <1>1 DEF Over

LEMMA OverExists ==
    ASSUME NEW xs \in Seq(Line), NEW edits
    PROVE  \E f : /\ Over(xs, edits, f)
                  /\ ApplyAll(xs, edits) =
                        [result |-> f[Len(xs) + 1].result,
                         file   |-> f[Len(xs) + 1].lines
                                       \o SubSeq(xs, f[Len(xs) + 1].pos + 1, Len(xs))]
<1> DEFINE Step(g, n) == IF n = 0 THEN Start ELSE Stepped(xs, edits, g[n - 1], n - 1)
           Upto(n, g) == g = [i \in 0 .. n |-> Step(g, i)]
           T == {n \in Nat : ~\E g : Upto(n, g)}
<1>1. T = {}
  <2>1. SUFFICES ASSUME T # {} PROVE FALSE
    OBVIOUS
  <2>2. PICK n \in T : \A i \in T : n <= i
    BY <2>1, LeastNatural
  <2>3. n \in Nat /\ ~\E g : Upto(n, g)
    OBVIOUS
  <2>4. CASE n = 0
    <3>1. Upto(0, [i \in 0 .. 0 |-> Start])
      OBVIOUS
    <3> QED
      BY <2>3, <2>4, <3>1
  <2>5. CASE n # 0
    <3>1. n - 1 \in Nat /\ n - 1 \notin T
      <4>1. n - 1 \in Nat /\ ~(n <= n - 1)
        BY <2>3, <2>5
      <4> HIDE DEF T
      <4> QED
        BY <2>2, <4>1
    <3>2. PICK g : Upto(n - 1, g)
      <4> HIDE DEF Upto
      <4> QED
        BY <3>1
    <3> DEFINE h == [i \in 0 .. n |-> IF i = n THEN Step(g, n) ELSE g[i]]
    <3>3. ASSUME NEW i \in 0 .. n PROVE h[i] = Step(h, i)
      <4>1. i # 0 => h[i - 1] = g[i - 1]
        BY <2>3
      <4>2. Step(h, i) = Step(g, i)
        BY <4>1
      <4>3. i # n => g[i] = Step(g, i)
        <5>1. i # n => i \in 0 .. n - 1
          BY <2>3
        <5> HIDE DEF Step
        <5> QED
          BY <3>2, <5>1
      <4> HIDE DEF Step
      <4> QED
        BY <4>2, <4>3
    <3>4. Upto(n, h)
      <4> HIDE DEF Step
      <4> QED
        BY <3>3
    <3> QED
      BY <2>3, <3>4
  <2> QED
    BY <2>4, <2>5
<1>2. PICK f : Upto(Len(xs) + 1, f)
  <2>1. Len(xs) + 1 \in Nat
    OBVIOUS
  <2> HIDE DEF Upto
  <2> QED
    BY <1>1, <2>1
<1>3. \E g : Over(xs, edits, g)
  BY <1>2 DEF Over
<1> QED
  BY <1>3 DEF ApplyAll, Over, Stepped, Start

\* The edits of two sides: each is a range of the base's lines, and at most two of them
\* start at a place, for at most one of each side does.
Sides(edits, xs) ==
    /\ \A e \in edits : /\ e.from \in Nat /\ e.to \in Nat /\ e.from <= e.to
                        /\ e.from <= Len(xs)
    /\ \A e \in edits : \E f \in edits :
            /\ f.from = e.from
            /\ \A g \in edits : g.from = e.from => g = e \/ g = f

LEMMA EditsOfSides ==
    ASSUME NEW xs \in Seq(Line), NEW es, NEW fs, Ranges(es, xs), Ranges(fs, xs),
           NEW edits, edits = es \cup fs
    PROVE  Sides(edits, xs)
<1>1. \A e \in edits : /\ e.from \in Nat /\ e.to \in Nat /\ e.from <= e.to
                       /\ e.from <= Len(xs)
  BY DEF Ranges
<1>2. ASSUME NEW e \in edits
      PROVE  \E f \in edits : /\ f.from = e.from
                              /\ \A g \in edits : g.from = e.from => g = e \/ g = f
  BY DEF Ranges
<1> QED
  BY <1>1, <1>2 DEF Sides

\* The edits that start at a place.
Here(edits, n) == {e \in edits : e.from = n}

LEMMA EditsHere ==
    ASSUME NEW xs, NEW edits, Sides(edits, xs),
           NEW n, NEW e \in edits, e.from = n
    PROVE  \E f \in edits : f.from = n /\ Here(edits, n) = {e, f}
<1>1. PICK f \in edits : f.from = n /\ \A g \in edits : g.from = n => g = e \/ g = f
  BY DEF Sides
<1> QED
  BY <1>1 DEF Here

\* One of them, or two that differ.
LEMMA CardinalityOfTwo ==
    ASSUME NEW e, NEW f
    PROVE  /\ Cardinality({e, e}) = 1
           /\ e # f => Cardinality({e, f}) = 2
<1>1. Cardinality({e}) = 1 /\ IsFiniteSet({e}) /\ {e} = {e, e}
  BY FS_Singleton
<1>2. e # f => Cardinality({e} \cup {f}) = 2
  BY <1>1, FS_AddElement
<1>3. {e} \cup {f} = {e, f}
  OBVIOUS
<1> QED
  BY <1>1, <1>2, <1>3

IsAcc(acc) == /\ acc = [result |-> acc.result, pos |-> acc.pos, lines |-> acc.lines]
              /\ acc.result \in {"Merged", "HasConflict", "Panic"}
              /\ acc.pos \in Nat

\* What is left of the edits that start at line n, after them.
Taken(edits, n, new) ==
    /\ IsAcc(new) /\ new.result # "Panic"
    /\ \E g \in edits : g.from = n /\ g.to = new.pos
    /\ \A g \in edits : g.from = n => g.to <= new.pos

LEMMA AppliedInTime ==
    ASSUME NEW xs \in Seq(Line), NEW edits, Sides(edits, xs),
           NEW n \in Nat, NEW e \in edits, e.from = n,
           NEW acc, IsAcc(acc), acc.result # "Panic", acc.pos <= n,
           NEW new, new = ApplyEdits(xs, edits, acc, n)
    PROVE  Taken(edits, n, new)
<1>1. PICK f \in edits : f.from = n /\ Here(edits, n) = {e, f}
  <2>1. Sides(edits, xs) /\ e \in edits /\ e.from = n
    OBVIOUS
  <2> QED
    BY <2>1, EditsHere DEF Here
<1>2. e.to \in Nat /\ f.to \in Nat
  BY DEF Sides
<1>3. \A g \in edits : g.from = n => g = e \/ g = f
  BY <1>1 DEF Here
<1>4. ~(acc.result = "Panic" \/ n < acc.pos)
  BY DEF IsAcc
<1>5. CASE e = f
  <2>1. Here(edits, n) = {e} /\ ~(Cardinality(Here(edits, n)) > 1)
    <3>1. Here(edits, n) = {e}
      BY <1>1, <1>5
    <3>2. Cardinality({e}) = 1
      BY FS_Singleton
    <3> QED
      BY <3>1, <3>2
  <2>2. (CHOOSE g \in Here(edits, n) : TRUE) = e
    BY <2>1
  <2>3. new = Emit(xs, acc, n, e)
    BY <1>4, <2>1, <2>2 DEF ApplyEdits, Here
  <2>4. /\ new = [result |-> acc.result, pos |-> e.to, lines |-> new.lines]
    BY <2>3 DEF Emit, IsAcc
  <2>5. new.result = acc.result /\ new.pos = e.to
    BY <2>4
  <2>6. IsAcc(new) /\ new.result # "Panic"
    BY <1>2, <2>4, <2>5 DEF IsAcc
  <2>7. \A g \in edits : g.from = n => g.to <= new.pos
    BY <1>2, <1>3, <1>5, <2>5
  <2> QED
    BY <2>5, <2>6, <2>7 DEF Taken
<1>6. CASE e # f
  <2>1. Cardinality(Here(edits, n)) > 1
    <3>1. Cardinality({e, f}) = 2
      BY <1>6, CardinalityOfTwo, Zenon
    <3> QED
      BY <1>1, <3>1
  <2>2. {g.to : g \in Here(edits, n)} = {e.to, f.to}
    BY <1>1
  <2>3. new = [acc EXCEPT !.pos = Max({e.to, f.to}), !.result = "HasConflict"]
    BY <1>4, <2>1, <2>2 DEF ApplyEdits, Here
  <2>4. /\ Max({e.to, f.to}) \in {e.to, f.to}
        /\ e.to <= Max({e.to, f.to}) /\ f.to <= Max({e.to, f.to})
    <3>1. \E x \in {e.to, f.to} : \A y \in {e.to, f.to} : x >= y
      BY <1>2
    <3>2. /\ Max({e.to, f.to}) \in {e.to, f.to}
          /\ \A y \in {e.to, f.to} : Max({e.to, f.to}) >= y
      BY <3>1 DEF Max
    <3> QED
      BY <1>2, <3>2
  <2>5. new = [result |-> "HasConflict", pos |-> Max({e.to, f.to}), lines |-> acc.lines]
    BY <2>3 DEF IsAcc
  <2>6. new.pos \in {e.to, f.to} /\ e.to <= new.pos /\ f.to <= new.pos
    BY <2>4, <2>5
  <2>7. IsAcc(new) /\ new.result # "Panic"
    BY <1>2, <2>5, <2>6 DEF IsAcc
  <2>8. \A g \in edits : g.from = n => g.to <= new.pos
    BY <1>3, <2>6
  <2>9. \E g \in edits : g.from = n /\ g.to = new.pos
    BY <1>1, <2>6
  <2> QED
    BY <2>7, <2>8, <2>9 DEF Taken
<1> QED
  BY <1>5, <1>6

LEMMA AppliedLate ==
    ASSUME NEW xs, NEW edits, NEW n, NEW acc, IsAcc(acc), acc.result = "Panic" \/ n < acc.pos,
           NEW new, new = ApplyEdits(xs, edits, acc, n)
    PROVE  IsAcc(new) /\ new.result = "Panic"
<1>1. new = [acc EXCEPT !.result = "Panic"]
  BY DEF ApplyEdits
<1> QED
  BY <1>1 DEF IsAcc

\* An edit that starts before line n and inside another.
Overlap(edits, n) ==
    \E e \in edits, f \in edits : e.from < f.from /\ f.from < e.to /\ f.from < n

\* Where the merge stands before line n.
Reached(edits, acc, n) ==
    /\ IsAcc(acc)
    /\ acc.result = "Panic" <=> Overlap(edits, n)
    /\ acc.result # "Panic" => /\ acc.pos = 0 \/ \E e \in edits : e.from < n /\ e.to = acc.pos
                               /\ \A e \in edits : e.from < n => e.to <= acc.pos

LEMMA ReachedNext ==
    ASSUME NEW xs \in Seq(Line), NEW edits, Sides(edits, xs),
           NEW n \in Nat, NEW acc, Reached(edits, acc, n),
           NEW new, new = Stepped(xs, edits, acc, n)
    PROVE  Reached(edits, new, n + 1)
<1>1. \A e \in edits : e.from \in Nat /\ e.to \in Nat /\ e.from <= e.to
  BY DEF Sides
<1>2. \A e \in edits : e.from < n + 1 <=> (e.from < n \/ e.from = n)
  BY <1>1
<1>3. CASE ~\E e \in edits : e.from = n
  <2>1. Overlap(edits, n + 1) <=> Overlap(edits, n)
    BY <1>2, <1>3 DEF Overlap
  <2> QED
    BY <1>2, <1>3, <2>1 DEF Reached, Stepped
<1>4. ASSUME NEW e \in edits, e.from = n PROVE Reached(edits, new, n + 1)
  <2>1. new = ApplyEdits(xs, edits, acc, n)
    BY <1>4 DEF Stepped
  <2>2. IsAcc(acc)
    BY DEF Reached
  <2>3. CASE acc.result = "Panic"
    <3>1. Overlap(edits, n + 1)
      BY <1>2, <2>3 DEF Reached, Overlap
    <3> QED
      BY <2>1, <2>2, <2>3, <3>1, AppliedLate DEF Reached
  <2>4. CASE acc.result # "Panic" /\ n < acc.pos
    <3>1. PICK g \in edits : g.from < n /\ g.to = acc.pos
      BY <2>4 DEF Reached
    <3>2. Overlap(edits, n + 1)
      BY <1>4, <2>4, <3>1 DEF Overlap
    <3> QED
      BY <2>1, <2>2, <2>4, <3>2, AppliedLate DEF Reached
  <2>5. CASE acc.result # "Panic" /\ ~(n < acc.pos)
    <3>1. acc.pos \in Nat /\ acc.pos <= n
      BY <2>2, <2>5 DEF IsAcc
    <3>2. /\ IsAcc(new) /\ new.result # "Panic"
          /\ \E g \in edits : g.from = n /\ g.to = new.pos
          /\ \A g \in edits : g.from = n => g.to <= new.pos
      <4>1. Taken(edits, n, new)
        BY <1>4, <2>1, <2>2, <2>5, <3>1, AppliedInTime
      <4> QED
        BY <4>1 DEF Taken
    <3>3. ~Overlap(edits, n + 1)
      <4> SUFFICES ASSUME NEW g \in edits, NEW h \in edits,
                          g.from < h.from, h.from < g.to, h.from < n + 1
                   PROVE  FALSE
        BY DEF Overlap
      <4>1. h.from = n
        BY <1>2, <2>5 DEF Reached, Overlap
      <4>2. g.to <= acc.pos
        BY <2>5, <4>1 DEF Reached
      <4> QED
        BY <1>1, <3>1, <4>1, <4>2
    <3>4. ASSUME NEW g \in edits, g.from < n + 1 PROVE g.to <= new.pos
      <4>1. CASE g.from = n
        BY <3>2, <4>1
      <4>2. CASE g.from < n
        <5>1. g.to <= acc.pos
          BY <2>5, <4>2 DEF Reached
        <5>2. n <= new.pos
          BY <1>1, <3>2
        <5> QED
          BY <1>1, <3>1, <3>2, <5>1, <5>2 DEF IsAcc
      <4> QED
        BY <1>2, <3>4, <4>1, <4>2
    <3> QED
      BY <1>2, <3>2, <3>3, <3>4 DEF Reached
  <2> QED
    BY <2>3, <2>4, <2>5
<1> QED
  BY <1>3, <1>4

LEMMA ReachedAll ==
    ASSUME NEW xs \in Seq(Line), NEW edits, Sides(edits, xs),
           NEW f, Over(xs, edits, f)
    PROVE  \A n \in 0 .. Len(xs) + 1 : Reached(edits, f[n], n)
<1> DEFINE T == {n \in 0 .. Len(xs) + 1 : ~Reached(edits, f[n], n)}
<1>1. Len(xs) \in Nat
  OBVIOUS
<1>2. SUFFICES ASSUME T # {} PROVE FALSE
  OBVIOUS
<1>3. T \in SUBSET Nat
  BY <1>1
<1>4. PICK n \in T : \A i \in T : n <= i
  BY <1>2, <1>3, LeastNatural
<1>5. n \in 0 .. Len(xs) + 1 /\ ~Reached(edits, f[n], n)
  OBVIOUS
<1>6. CASE n = 0
  <2>1. f[0] = Start
    BY <1>1 DEF Over
  <2>2. ~Overlap(edits, 0) /\ \A e \in edits : ~(e.from < 0)
    BY DEF Overlap, Sides
  <2> QED
    BY <1>5, <1>6, <2>1, <2>2 DEF Reached, IsAcc, Start
<1>7. CASE n # 0
  <2>1. n - 1 \in Nat /\ n - 1 \in 0 .. Len(xs) + 1 /\ ~(n <= n - 1) /\ (n - 1) + 1 = n
    BY <1>1, <1>5, <1>7
  <2>2. n - 1 \notin T
    <3> HIDE DEF T
    <3> QED
      BY <1>4, <2>1
  <2>3. Reached(edits, f[n - 1], n - 1)
    BY <2>1, <2>2
  <2>4. f[n] = Stepped(xs, edits, f[n - 1], n - 1)
    BY <1>1, <1>5, <1>7, OverStepped
  <2>5. Reached(edits, f[n], (n - 1) + 1)
    BY <2>1, <2>3, <2>4, ReachedNext
  <2> QED
    BY <1>5, <2>1, <2>5
<1> QED
  BY <1>6, <1>7

\* A line merge panics exactly when an edit of one side starts inside what another
\* edit replaces, for texts of any length.
THEOREM PanicsOnOverlap == Spec => []PanicIsOverlap
<1>1. Called => PanicIsOverlap
  <2> SUFFICES ASSUME Called, outcome.result # "None", driver = "text"
               PROVE  outcome.result = "Panic"
                         <=> \E e \in computeEdits(base, local) \cup computeEdits(base, remote),
                                f \in computeEdits(base, local) \cup computeEdits(base, remote) :
                                    e.from < f.from /\ f.from < e.to
    BY DEF PanicIsOverlap
  <2> DEFINE edits == computeEdits(base, local) \cup computeEdits(base, remote)
  <2>1. base \in Seq(Line) /\ local \in Seq(Line) /\ remote \in Seq(Line)
    BY FilesAssumption DEF Called, Contents
  <2>2. outcome = ApplyAll(base, edits)
    BY DEF Called, MergeBy, merge3Lines
  <2>3. Sides(edits, base)
    BY <2>1, EditsAreRanges, EditsOfSides
  <2> HIDE DEF edits
  <2>4. PICK f : /\ Over(base, edits, f)
                 /\ ApplyAll(base, edits) =
                       [result |-> f[Len(base) + 1].result,
                        file   |-> f[Len(base) + 1].lines
                                      \o SubSeq(base, f[Len(base) + 1].pos + 1, Len(base))]
    BY <2>1, OverExists
  <2>5. outcome.result = f[Len(base) + 1].result
    BY <2>2, <2>4
  <2>6. Reached(edits, f[Len(base) + 1], Len(base) + 1)
    <3>1. Len(base) + 1 \in 0 .. Len(base) + 1
      BY <2>1
    <3> QED
      BY <2>1, <2>3, <2>4, <3>1, ReachedAll, Zenon
  <2>7. \A e \in edits : e.from < Len(base) + 1
    BY <2>1, <2>3 DEF Sides
  <2>8. outcome.result = "Panic"
           <=> \E e \in edits, g \in edits : e.from < g.from /\ g.from < e.to
    BY <2>5, <2>6, <2>7 DEF Reached, Overlap
  <2> QED
    BY <2>8 DEF edits
<1> QED
  BY <1>1, OutcomeIsMerge, PTL

-----------------------------------------------------------------------------
(***************************************************************************)
(* One side's edits, applied to the base, make that side's text.           *)
(***************************************************************************)
\* What is written, and the base's lines up to x after it, is ys up to line y.
UpTo(acc, xs, ys, x, y) ==
    /\ acc = [result |-> "Merged", pos |-> acc.pos, lines |-> acc.lines]
    /\ acc.pos \in Nat /\ acc.pos <= x /\ acc.lines \in Seq(Line)
    /\ acc.lines \o SubSeq(xs, acc.pos + 1, x) = SubSeq(ys, 1, y)

LEMMA PieceOfLines ==
    ASSUME NEW xs \in Seq(Line), NEW i \in Nat, NEW j \in Nat, i >= 1, j <= Len(xs)
    PROVE  SubSeq(xs, i, j) \in Seq(Line)
<1>1. \A k \in i .. j : k \in 1 .. Len(xs)
  OBVIOUS
<1>2. \A k \in i .. j : xs[k] \in Line
  BY <1>1, ElementOfSeq
<1>3. i \in Int /\ j \in Int
  OBVIOUS
<1> QED
  BY <1>2, <1>3, SubSeqProperties

LEMMA LineAdded ==
    ASSUME NEW xs \in Seq(Line), NEW i \in Nat, NEW j \in Nat, i >= 1, i <= j, j <= Len(xs)
    PROVE  SubSeq(xs, i, j) = SubSeq(xs, i, j - 1) \o <<xs[j]>>
<1>1. i \in 1 .. Len(xs) /\ j \in i .. Len(xs)
  OBVIOUS
<1> QED
  BY <1>1, SubSeqRecursiveSecond

LEMMA JoinedInTurn ==
    ASSUME NEW r \in Seq(Line), NEW s \in Seq(Line), NEW t \in Seq(Line)
    PROVE  r \o (s \o t) = (r \o s) \o t
BY ConcatAssociative

LEMMA LastLine ==
    ASSUME NEW s \in Seq(Line), NEW v \in Line PROVE s \o <<v>> # <<>>
<1>1. <<v>> \in Seq(Line) /\ Len(<<v>>) = 1 /\ Len(s) \in Nat
  OBVIOUS
<1>2. Len(s \o <<v>>) = Len(s) + 1
  BY <1>1, ConcatProperties
<1> QED
  BY <1>1, <1>2, EmptySeq

LEMMA MatchPassed ==
    ASSUME NEW xs \in Seq(Line), NEW ys \in Seq(Line), NEW acc,
           NEW x \in 1 .. Len(xs), NEW y \in 1 .. Len(ys), xs[x] = ys[y],
           UpTo(acc, xs, ys, x - 1, y - 1)
    PROVE  UpTo(acc, xs, ys, x, y)
<1> DEFINE p == acc.pos
           s == acc.lines
<1>1. /\ p \in Nat /\ p <= x - 1 /\ s \in Seq(Line)
      /\ s \o SubSeq(xs, p + 1, x - 1) = SubSeq(ys, 1, y - 1)
  BY DEF UpTo
<1> HIDE DEF p, s
<1>2. SubSeq(xs, p + 1, x) = SubSeq(xs, p + 1, x - 1) \o <<xs[x]>>
  <2>1. p + 1 \in Nat /\ x \in Nat /\ p + 1 >= 1 /\ p + 1 <= x /\ x <= Len(xs)
    BY <1>1
  <2> QED
    BY <2>1, LineAdded
<1>3. SubSeq(ys, 1, y) = SubSeq(ys, 1, y - 1) \o <<ys[y]>>
  <2>1. 1 \in Nat /\ y \in Nat /\ 1 >= 1 /\ 1 <= y /\ y <= Len(ys)
    OBVIOUS
  <2> QED
    BY <2>1, LineAdded
<1>4. SubSeq(xs, p + 1, x - 1) \in Seq(Line) /\ <<xs[x]>> \in Seq(Line)
  <2>1. p + 1 \in Nat /\ x - 1 \in Nat /\ p + 1 >= 1 /\ x - 1 <= Len(xs)
    BY <1>1
  <2>2. xs[x] \in Line
    BY ElementOfSeq
  <2> QED
    BY <2>1, <2>2, PieceOfLines
<1>5. s \o (SubSeq(xs, p + 1, x - 1) \o <<xs[x]>>) = (s \o SubSeq(xs, p + 1, x - 1)) \o <<xs[x]>>
  BY <1>1, <1>4, JoinedInTurn, Zenon
<1>6. s \o SubSeq(xs, p + 1, x) = SubSeq(ys, 1, y)
  BY <1>1, <1>2, <1>3, <1>5
<1>7. p <= x
  BY <1>1
<1> QED
  BY <1>6, <1>7 DEF UpTo, p, s

\* What lies between the anchors k and k + 1.
GapOf(a, ys, k) == [from  |-> a[k][1],
                    to    |-> a[k + 1][1] - 1,
                    lines |-> SubSeq(ys, a[k][2] + 1, a[k + 1][2] - 1)]

Gaps(edits, a, ys) == edits = {e \in {GapOf(a, ys, k) : k \in 1 .. Len(a) - 1} : IsEdit(e)}

LEMMA AnchorBounds ==
    ASSUME NEW xs \in Seq(Line), NEW ys \in Seq(Line), NEW a, InOrder(a, xs, ys),
           NEW k \in 1 .. Len(a) - 1
    PROVE  /\ k \in 1 .. Len(a) /\ k + 1 \in 1 .. Len(a) /\ Len(a) \in Nat
           /\ a[k][1] \in 0 .. Len(xs) /\ a[k][2] \in 0 .. Len(ys)
           /\ a[k + 1][1] \in 1 .. Len(xs) + 1 /\ a[k + 1][2] \in 1 .. Len(ys) + 1
           /\ a[k][1] <= a[k + 1][1] - 1 /\ a[k][2] <= a[k + 1][2] - 1
<1>1. Len(a) \in Nat /\ Len(a) >= 2 /\ Len(xs) \in Nat /\ Len(ys) \in Nat
  BY DEF InOrder
<1>2. k \in 1 .. Len(a) /\ k + 1 \in 1 .. Len(a) /\ Len(a) \in 1 .. Len(a) /\ k < k + 1
  BY <1>1
<1>3. ASSUME NEW i \in 1 .. Len(a) PROVE a[i][1] \in Nat /\ a[i][2] \in Nat
  <2>1. a \in Seq(Nat \X Nat)
    BY DEF InOrder
  <2>2. a[i] \in Nat \X Nat
    BY <2>1, ElementOfSeq
  <2> QED
    BY <2>2
<1>4. a[k][1] < a[k + 1][1] /\ a[k][2] < a[k + 1][2]
  BY <1>2 DEF InOrder
<1>5. a[Len(a)][1] = Len(xs) + 1 /\ a[Len(a)][2] = Len(ys) + 1
  <2>1. a[Len(a)] = <<Len(xs) + 1, Len(ys) + 1>>
    BY DEF InOrder
  <2> QED
    BY <2>1
<1>6. a[k + 1][1] <= Len(xs) + 1 /\ a[k + 1][2] <= Len(ys) + 1
  <2>1. CASE k + 1 = Len(a)
    BY <1>1, <1>5, <2>1
  <2>2. CASE k + 1 # Len(a)
    <3>1. k + 1 < Len(a)
      BY <1>2, <2>2
    <3>2. a[k + 1][1] < a[Len(a)][1] /\ a[k + 1][2] < a[Len(a)][2]
      BY <1>2, <3>1 DEF InOrder
    <3> QED
      BY <1>2, <1>3, <1>5, <3>2
  <2> QED
    BY <2>1, <2>2
<1>7. \A n \in Nat : \A i, j \in Nat : i < j /\ j <= n + 1 =>
         i \in 0 .. n /\ j \in 1 .. n + 1 /\ i <= j - 1
  OBVIOUS
<1> QED
  BY <1>1, <1>2, <1>3, <1>4, <1>6, <1>7

\* At an anchor starts the edit of the gap that follows it, if there is one.
LEMMA EditAtAnchor ==
    ASSUME NEW xs \in Seq(Line), NEW ys \in Seq(Line), NEW a, InOrder(a, xs, ys),
           NEW edits, Gaps(edits, a, ys), NEW k \in 1 .. Len(a) - 1
    PROVE  Here(edits, a[k][1]) = IF IsEdit(GapOf(a, ys, k)) THEN {GapOf(a, ys, k)} ELSE {}
<1>1. ASSUME NEW e \in edits, e.from = a[k][1] PROVE e = GapOf(a, ys, k) /\ IsEdit(e)
  <2>1. PICK q \in 1 .. Len(a) - 1 : e = GapOf(a, ys, q) /\ IsEdit(e)
    BY DEF Gaps
  <2>2. a[q][1] = a[k][1]
    BY <1>1, <2>1 DEF GapOf
  <2>3. k \in 1 .. Len(a) /\ q \in 1 .. Len(a) /\ a[k][1] \in 0 .. Len(xs)
    BY AnchorBounds
  <2>4. ~(a[q][1] < a[k][1]) /\ ~(a[k][1] < a[q][1])
    BY <2>2, <2>3
  <2>5. ~(q < k) /\ ~(k < q)
    BY <2>3, <2>4 DEF InOrder
  <2>6. q = k
    BY <2>3, <2>5
  <2> QED
    BY <2>1, <2>6
<1>2. GapOf(a, ys, k).from = a[k][1]
  BY DEF GapOf
<1>3. IsEdit(GapOf(a, ys, k)) => GapOf(a, ys, k) \in edits
  BY DEF Gaps
<1> QED
  BY <1>1, <1>2, <1>3 DEF Here

\* The next step of the merge at an anchor brings it to the next anchor.
LEMMA GapApplied ==
    ASSUME NEW xs \in Seq(Line), NEW ys \in Seq(Line), NEW a, InOrder(a, xs, ys),
           NEW edits, Gaps(edits, a, ys), NEW k \in 1 .. Len(a) - 1,
           NEW acc, UpTo(acc, xs, ys, a[k][1], a[k][2]),
           NEW n, n = a[k][1],
           NEW new, new = Stepped(xs, edits, acc, n)
    PROVE  UpTo(new, xs, ys, a[k + 1][1] - 1, a[k + 1][2] - 1)
<1> DEFINE x == a[k + 1][1] - 1
           m == a[k][2]
           y == a[k + 1][2] - 1
           g == GapOf(a, ys, k)
           p == acc.pos
           s == acc.lines
           piece == SubSeq(ys, m + 1, y)
<1>1. /\ n \in Nat /\ x \in Nat /\ n <= x /\ x <= Len(xs) /\ Len(xs) \in Nat
      /\ m \in Nat /\ y \in Nat /\ m <= y /\ y <= Len(ys) /\ Len(ys) \in Nat
  <2>1. /\ a[k][1] \in 0 .. Len(xs) /\ a[k][2] \in 0 .. Len(ys)
        /\ a[k + 1][1] \in 1 .. Len(xs) + 1 /\ a[k + 1][2] \in 1 .. Len(ys) + 1
        /\ a[k][1] <= a[k + 1][1] - 1 /\ a[k][2] <= a[k + 1][2] - 1
    BY AnchorBounds
  <2>2. \A l \in Nat : \A i \in 0 .. l : \A j \in 1 .. l + 1 :
           i \in Nat /\ j - 1 \in Nat /\ j - 1 <= l
    OBVIOUS
  <2>3. Len(xs) \in Nat /\ Len(ys) \in Nat
    OBVIOUS
  <2>4. n = a[k][1] /\ x = a[k + 1][1] - 1 /\ m = a[k][2] /\ y = a[k + 1][2] - 1
    OBVIOUS
  <2> HIDE DEF x, m, y
  <2> QED
    BY <2>1, <2>2, <2>3, <2>4
<1>2. /\ p \in Nat /\ p <= n /\ s \in Seq(Line)
      /\ acc = [result |-> "Merged", pos |-> p, lines |-> s]
      /\ s \o SubSeq(xs, p + 1, n) = SubSeq(ys, 1, m)
  <2> HIDE DEF m
  <2> QED
    BY DEF UpTo, m
<1>3. Here(edits, n) = IF IsEdit(g) THEN {g} ELSE {}
  BY EditAtAnchor
<1>4. g = [from |-> n, to |-> x, lines |-> piece]
  BY DEF GapOf
<1> HIDE DEF x, m, y, g, p, s, piece
<1>5. g.from = n /\ g.to = x /\ g.lines = piece
  BY <1>4
<1>5a. acc.result = "Merged" /\ acc.pos = p /\ acc.lines = s
  BY <1>2
<1>6. CASE IsEdit(g)
  <2>1. Here(edits, n) = {g} /\ \E e \in edits : e.from = n
    BY <1>3, <1>6 DEF Here
  <2>2. Cardinality(Here(edits, n)) = 1 /\ (CHOOSE e \in Here(edits, n) : TRUE) = g
    BY <2>1, FS_Singleton
  <2>3. ~(acc.result = "Panic" \/ n < acc.pos)
    BY <1>1, <1>2, <1>5a
  <2>4. new = Emit(xs, acc, n, g)
    BY <2>1, <2>2, <2>3 DEF Stepped, ApplyEdits, Here
  <2>5. new = [result |-> "Merged", pos |-> x, lines |-> (s \o SubSeq(xs, p + 1, n)) \o piece]
    BY <1>2, <1>5, <1>5a, <2>4 DEF Emit
  <2>6. new.pos = x /\ new.lines = SubSeq(ys, 1, m) \o piece
    <3>1. new = [result |-> "Merged", pos |-> x, lines |-> SubSeq(ys, 1, m) \o piece]
      BY <1>2, <2>5, Zenon
    <3> DEFINE w == SubSeq(ys, 1, m) \o piece
    <3> HIDE DEF w
    <3>2. new = [result |-> "Merged", pos |-> x, lines |-> w]
      BY <3>1 DEF w
    <3>3. new.pos = x /\ new.lines = w
      BY <3>2
    <3> QED
      BY <3>3 DEF w
  <2>7. SubSeq(ys, 1, m) \o piece = SubSeq(ys, 1, y)
    <3>1. 1 \in 1 .. Len(ys) + 1 /\ m \in 1 - 1 .. Len(ys) /\ y \in m .. Len(ys)
      BY <1>1
    <3> QED
      BY <3>1, ConcatAdjacentSubSeq DEF piece
  <2>8. SubSeq(ys, 1, y) \in Seq(Line)
    BY <1>1, PieceOfLines
  <2>9. SubSeq(xs, x + 1, x) = <<>>
    <3>1. x + 1 \in Int /\ x \in Int /\ x < x + 1
      BY <1>1
    <3> QED
      BY <3>1, SubSeqEmpty
  <2>10. new.lines = SubSeq(ys, 1, y)
    BY <2>6, <2>7
  <2>11. new.lines \o SubSeq(xs, new.pos + 1, x) = SubSeq(ys, 1, y)
    BY <2>6, <2>8, <2>9, <2>10, ConcatEmptySeq
  <2>12. new = [result |-> "Merged", pos |-> new.pos, lines |-> new.lines]
    BY <2>5
  <2>13. UpTo(new, xs, ys, x, y)
    <3>1. new.pos \in Nat /\ new.pos <= x
      BY <1>1, <2>6
    <3>2. new.lines \in Seq(Line)
      BY <2>8, <2>10
    <3> QED
      BY <2>11, <2>12, <3>1, <3>2, Zenon DEF UpTo
  <2> QED
    BY <2>13 DEF x, y
<1>7. CASE ~IsEdit(g)
  <2>1. ~\E e \in edits : e.from = n
    BY <1>3, <1>7 DEF Here
  <2>2. ~(n < x) /\ piece = <<>>
    BY <1>5, <1>7 DEF IsEdit
  <2>3. n = x
    BY <1>1, <2>2
  <2>4. ~(m < y)
    <3>1. SUFFICES ASSUME m < y PROVE FALSE
      OBVIOUS
    <3>2. SubSeq(ys, m + 1, y) = SubSeq(ys, m + 1, y - 1) \o <<ys[y]>>
      <4>1. m + 1 \in Nat /\ y \in Nat /\ m + 1 >= 1 /\ m + 1 <= y /\ y <= Len(ys)
        BY <1>1, <3>1
      <4> QED
        BY <4>1, LineAdded
    <3>3. SubSeq(ys, m + 1, y - 1) \in Seq(Line)
      <4>1. m + 1 \in Nat /\ y - 1 \in Nat /\ m + 1 >= 1 /\ y - 1 <= Len(ys)
        BY <1>1, <3>1
      <4> QED
        BY <4>1, PieceOfLines
    <3>4. ys[y] \in Line
      <4>1. y \in 1 .. Len(ys)
        BY <1>1, <3>1
      <4> QED
        BY <4>1, ElementOfSeq
    <3> QED
      BY <2>2, <3>2, <3>3, <3>4, LastLine DEF piece
  <2>5. m = y
    BY <1>1, <2>4
  <2>6. UpTo(new, xs, ys, n, m)
    BY <2>1 DEF m, Stepped
  <2> QED
    BY <2>3, <2>5, <2>6 DEF x, y
<1> QED
  BY <1>6, <1>7

LEMMA SideRebuilt ==
    ASSUME NEW xs \in Seq(Line), NEW ys \in Seq(Line), NEW a, InOrder(a, xs, ys),
           NEW edits, Gaps(edits, a, ys)
    PROVE  ApplyAll(xs, edits) = [result |-> "Merged", file |-> ys]
<1> DEFINE end == Len(xs) + 1
<1>1. PICK f : /\ Over(xs, edits, f)
               /\ ApplyAll(xs, edits) =
                     [result |-> f[end].result,
                      file   |-> f[end].lines \o SubSeq(xs, f[end].pos + 1, Len(xs))]
  BY OverExists
<1> DEFINE Passed(n) == \E k \in 1 .. Len(a) - 1 :
                          /\ a[k][1] < n /\ n <= a[k + 1][1]
                          /\ UpTo(f[n], xs, ys, a[k + 1][1] - 1, a[k + 1][2] - 1)
           T == {n \in 1 .. end : ~Passed(n)}
<1>2. /\ Len(a) \in Nat /\ Len(a) >= 2 /\ end \in Nat /\ Len(xs) \in Nat /\ Len(ys) \in Nat
      /\ a[1][1] = 0 /\ a[1][2] = 0 /\ a[Len(a)][1] = end /\ a[Len(a)][2] = Len(ys) + 1
      /\ end = Len(xs) + 1
  <2>1. a[1] = <<0, 0>> /\ a[Len(a)] = <<end, Len(ys) + 1>> /\ Len(a) >= 2 /\ Len(a) \in Nat
    BY DEF InOrder
  <2> QED
    BY <2>1
<1> HIDE DEF end
<1>3. ASSUME NEW n \in 1 .. end
      PROVE  f[n] = Stepped(xs, edits, f[n - 1], n - 1)
  BY <1>1, <1>2, OverStepped
\* From an anchor the next step leads to the next one.
<1>4. ASSUME NEW n \in 1 .. end, NEW k \in 1 .. Len(a) - 1, a[k][1] = n - 1,
             UpTo(f[n - 1], xs, ys, a[k][1], a[k][2])
      PROVE  Passed(n)
  <2>1. UpTo(f[n], xs, ys, a[k + 1][1] - 1, a[k + 1][2] - 1)
    <3> DEFINE i == n - 1
               acc == f[i]
               new == f[n]
    <3>1. i = a[k][1] /\ new = Stepped(xs, edits, acc, i) /\ UpTo(acc, xs, ys, a[k][1], a[k][2])
      BY <1>3, <1>4
    <3> HIDE DEF i, acc, new
    <3>2. UpTo(new, xs, ys, a[k + 1][1] - 1, a[k + 1][2] - 1)
      BY <3>1, GapApplied
    <3> QED
      BY <3>2 DEF new
  <2>2. a[k][1] < n /\ n <= a[k + 1][1]
    BY <1>2, <1>4, AnchorBounds
  <2> QED
    BY <2>1, <2>2
<1>5. T = {}
  <2>1. SUFFICES ASSUME T # {} PROVE FALSE
    OBVIOUS
  <2>2. T \in SUBSET Nat
    BY <1>2
  <2>3. PICK n \in T : \A i \in T : n <= i
    BY <2>1, <2>2, LeastNatural
  <2>4. n \in 1 .. end /\ ~Passed(n)
    OBVIOUS
  <2>5. CASE n = 1
    <3>1. f[0] = Start
      BY <1>1, <1>2 DEF Over
    <3>2. UpTo(Start, xs, ys, 0, 0)
      <4>1. SubSeq(xs, 1, 0) = <<>> /\ SubSeq(ys, 1, 0) = <<>>
        BY SubSeqEmpty
      <4>2. <<>> \in Seq(Line) /\ <<>> \o <<>> = <<>>
        BY EmptySeq, ConcatEmptySeq
      <4>3. Start.pos = 0 /\ Start.lines = <<>> /\ Start.result = "Merged"
        BY DEF Start
      <4> QED
        BY <4>1, <4>2, <4>3 DEF UpTo, Start
    <3>3. 1 \in 1 .. Len(a) - 1 /\ a[1][1] = n - 1 /\ n - 1 = 0
      BY <1>2, <2>5
    <3>4. UpTo(f[n - 1], xs, ys, a[1][1], a[1][2])
      BY <1>2, <3>1, <3>2, <3>3
    <3> QED
      BY <1>4, <2>4, <3>3, <3>4
  <2>6. CASE n # 1
    <3>1. n - 1 \in 1 .. end /\ n - 1 \in Nat /\ n \in Nat /\ ~(n <= n - 1)
      BY <1>2, <2>4, <2>6
    <3>2. Passed(n - 1)
      <4>1. n - 1 \notin T
        <5> HIDE DEF T
        <5> QED
          BY <2>3, <3>1
      <4> QED
        BY <3>1, <4>1
    <3>3. PICK k \in 1 .. Len(a) - 1 :
                 /\ a[k][1] < n - 1 /\ n - 1 <= a[k + 1][1]
                 /\ UpTo(f[n - 1], xs, ys, a[k + 1][1] - 1, a[k + 1][2] - 1)
      BY <3>2
    <3>4. /\ k \in 1 .. Len(a) /\ k + 1 \in 1 .. Len(a)
          /\ a[k][1] \in Nat /\ a[k + 1][1] \in Nat /\ a[k + 1][2] \in 1 .. Len(ys) + 1
      <4>1. /\ k \in 1 .. Len(a) /\ k + 1 \in 1 .. Len(a)
            /\ a[k][1] \in 0 .. Len(xs) /\ a[k + 1][1] \in 1 .. Len(xs) + 1
            /\ a[k + 1][2] \in 1 .. Len(ys) + 1
        BY AnchorBounds
      <4>2. (\A i \in 0 .. Len(xs) : i \in Nat) /\ (\A i \in 1 .. Len(xs) + 1 : i \in Nat)
        BY <1>2
      <4> QED
        BY <4>1, <4>2
    <3>5. CASE n - 1 = a[k + 1][1]
      <4>1. k + 1 # Len(a)
        BY <1>2, <2>4, <3>5
      <4>2. k + 1 \in 1 .. Len(a) - 1 /\ k + 1 \in 2 .. Len(a) - 1
        BY <1>2, <3>4, <4>1
      <4>3. xs[a[k + 1][1]] = ys[a[k + 1][2]]
        BY <4>2 DEF InOrder
      <4>4. a[k + 1][1] \in 1 .. Len(xs) /\ a[k + 1][2] \in 1 .. Len(ys)
        <5>1. a[k + 1][1] \in 0 .. Len(xs) /\ a[k + 1][2] \in 0 .. Len(ys)
          BY <4>2, AnchorBounds
        <5> QED
          BY <1>2, <3>1, <3>4, <3>5, <5>1
      <4>5. UpTo(f[n - 1], xs, ys, a[k + 1][1], a[k + 1][2])
        BY <3>3, <4>3, <4>4, MatchPassed
      <4> HIDE DEF Passed
      <4> QED
        BY <1>4, <2>4, <3>5, <4>2, <4>5
    <3>6. CASE n - 1 # a[k + 1][1]
      <4>1. n - 1 < a[k + 1][1]
        BY <3>1, <3>3, <3>4, <3>6
      <4>2. ~\E e \in edits : e.from = n - 1
        <5>1. SUFFICES ASSUME NEW e \in edits, e.from = n - 1 PROVE FALSE
          OBVIOUS
        <5>2. PICK q \in 1 .. Len(a) - 1 : e.from = a[q][1]
          BY DEF Gaps, GapOf
        <5>3. q \in 1 .. Len(a) /\ a[q][1] = n - 1
          BY <1>2, <5>1, <5>2
        <5>4. ~(q < k) /\ q # k /\ ~(k + 1 < q) /\ q # k + 1
          <6>1. a[k][1] < a[q][1] /\ a[q][1] < a[k + 1][1]
            BY <3>3, <4>1, <5>3
          <6>2. a[q][1] \in Nat
            BY <3>1, <5>3
          <6>3. q < k => a[q][1] < a[k][1]
            BY <3>4, <5>3 DEF InOrder
          <6>4. k + 1 < q => a[k + 1][1] < a[q][1]
            BY <3>4, <5>3 DEF InOrder
          <6>5. \A i, j \in Nat : i < j => i # j /\ ~(j < i)
            OBVIOUS
          <6>6. /\ a[q][1] # a[k][1] /\ a[q][1] # a[k + 1][1]
                /\ ~(a[q][1] < a[k][1]) /\ ~(a[k + 1][1] < a[q][1])
            BY <3>4, <6>1, <6>2, <6>5
          <6> QED
            BY <6>3, <6>4, <6>6
        <5> QED
          BY <3>4, <5>3, <5>4
      <4>3. f[n] = f[n - 1]
        BY <1>3, <2>4, <4>2 DEF Stepped
      <4>4. a[k][1] < n /\ n <= a[k + 1][1]
        <5>1. \A x, y \in Nat : x < n - 1 /\ n - 1 < y => x < n /\ n <= y
          BY <3>1
        <5> QED
          BY <3>3, <3>4, <4>1, <5>1
      <4> QED
        BY <2>4, <3>3, <4>3, <4>4
    <3> QED
      BY <3>5, <3>6
  <2> QED
    BY <2>5, <2>6
<1>6. PICK k \in 1 .. Len(a) - 1 :
             /\ end <= a[k + 1][1]
             /\ UpTo(f[end], xs, ys, a[k + 1][1] - 1, a[k + 1][2] - 1)
  <2>1. end \in 1 .. end
    BY <1>2
  <2>2. Passed(end)
    <3> HIDE DEF Passed
    <3> QED
      BY <1>5, <2>1
  <2> QED
    BY <2>2
<1>7. k + 1 = Len(a)
  <2>1. k + 1 \in 1 .. Len(a) /\ Len(a) \in 1 .. Len(a) /\ a[k + 1][1] \in Nat
    BY <1>2, AnchorBounds
  <2>2. k + 1 < Len(a) => a[k + 1][1] < end
    BY <1>2, <2>1 DEF InOrder
  <2> QED
    BY <1>2, <1>6, <2>1, <2>2
<1>8. a[k + 1][1] - 1 = Len(xs) /\ a[k + 1][2] - 1 = Len(ys)
  BY <1>2, <1>7
<1>9. UpTo(f[end], xs, ys, Len(xs), Len(ys))
  BY <1>6, <1>8
<1>10. f[end].lines \o SubSeq(xs, f[end].pos + 1, Len(xs)) = ys
  BY <1>9, SubSeqFull DEF UpTo
<1>11. f[end].result = "Merged"
  BY <1>9 DEF UpTo
<1> QED
  BY <1>1, <1>10, <1>11

\* A side's text is what its edits make of the base.
LEMMA SideMerges ==
    ASSUME NEW xs \in Seq(Line), NEW ys \in Seq(Line)
    PROVE  ApplyAll(xs, computeEdits(xs, ys)) = [result |-> "Merged", file |-> ys]
<1>1. InOrder(Anchors(xs, ys), xs, ys)
  BY AnchorsInOrder
<1>2. Gaps(computeEdits(xs, ys), Anchors(xs, ys), ys)
  BY EditsAreGaps DEF Gaps, GapOf, Gap
<1> QED
  BY <1>1, <1>2, SideRebuilt

\* A text has no edits against itself: each of its lines is matched with itself.
LEMMA NoEditsAgainstItself ==
    ASSUME NEW xs \in Seq(Line) PROVE computeEdits(xs, xs) = {}
<1> DEFINE len == Len(xs)
           Diagonal(n) == [k \in 1 .. n |-> <<k, k>>]
<1>1. PICK f : /\ f = [p \in Places(xs, xs) |-> Back(xs, xs, f, p)]
               /\ lcsIndices(xs, xs) = f[<<len, len>>]
  BY BackExists
<1>2. len \in Nat
  OBVIOUS
<1>2a. ASSUME NEW n \in Nat
       PROVE  /\ Diagonal(n) \in Seq(Nat \X Nat) /\ Len(Diagonal(n)) = n
              /\ \A i \in 1 .. n : Diagonal(n)[i] = <<i, i>>
  OBVIOUS
<1>2b. Diagonal(0) = <<>>
  OBVIOUS
<1> HIDE DEF Diagonal
<1> DEFINE T == {n \in 0 .. len : f[<<n, n>>] # Diagonal(n)}
<1>3. T = {}
  <2>1. SUFFICES ASSUME T # {} PROVE FALSE
    OBVIOUS
  <2>2. T \in SUBSET Nat
    BY <1>2
  <2>3. PICK n \in T : \A i \in T : n <= i
    BY <2>1, <2>2, LeastNatural
  <2>4. n \in 0 .. len /\ f[<<n, n>>] # Diagonal(n)
    OBVIOUS
  <2> DEFINE p == <<n, n>>
  <2>5. p \in Places(xs, xs) /\ p[1] = n /\ p[2] = n
    BY <2>4 DEF Places
  <2>6. f[p] = Back(xs, xs, f, p)
    BY <1>1, <2>5
  <2>7. CASE n = 0
    <3>1. f[p] = <<>>
      BY <2>5, <2>6, <2>7 DEF Back
    <3> QED
      BY <1>2b, <2>4, <2>7, <3>1
  <2>8. CASE n # 0
    <3>1. f[p] = Append(f[<<n - 1, n - 1>>], p)
      BY <2>5, <2>6, <2>8 DEF Back
    <3>2. n - 1 \in 0 .. len /\ ~(n <= n - 1) /\ n - 1 \in Nat /\ (n - 1) + 1 = n
      BY <1>2, <2>4, <2>8
    <3>3. f[<<n - 1, n - 1>>] = Diagonal(n - 1)
      <4>1. n - 1 \notin T
        <5> HIDE DEF T
        <5> QED
          BY <2>3, <3>2
      <4> QED
        BY <3>2, <4>1
    <3>4. Append(Diagonal(n - 1), p) = Diagonal(n)
      <4> DEFINE d == Diagonal(n - 1)
                 s == Append(d, p)
      <4>1. d \in Seq(Nat \X Nat) /\ Len(d) = n - 1 /\ \A i \in 1 .. n - 1 : d[i] = <<i, i>>
        BY <1>2a, <3>2
      <4>2. p \in Nat \X Nat /\ p = <<n, n>>
        BY <2>4
      <4> HIDE DEF d, p
      <4>3. /\ s \in Seq(Nat \X Nat) /\ Len(s) = (n - 1) + 1
            /\ \A i \in 1 .. n - 1 : s[i] = d[i]
            /\ s[(n - 1) + 1] = p
        BY <4>1, <4>2, AppendProperties
      <4> HIDE DEF s
      <4>4. ASSUME NEW i \in 1 .. n PROVE s[i] = <<i, i>>
        <5>1. i = n \/ i \in 1 .. n - 1
          BY <3>2
        <5> QED
          BY <3>2, <4>1, <4>2, <4>3, <5>1
      <4>5. n \in Nat /\ Len(s) = n
        BY <3>2, <4>3
      <4>6. s = Diagonal(n)
        <5> DEFINE e == Diagonal(n)
        <5>1. e \in Seq(Nat \X Nat) /\ Len(e) = n /\ \A i \in 1 .. n : e[i] = <<i, i>>
          BY <1>2a, <4>5
        <5> HIDE DEF e
        <5>2. \A i \in 1 .. Len(s) : s[i] = e[i]
          BY <4>4, <4>5, <5>1
        <5>3. s = e
          BY <4>3, <4>5, <5>1, <5>2, SeqEqual
        <5> QED
          BY <5>3 DEF e
      <4> QED
        BY <4>6 DEF s, d
    <3> QED
      BY <2>4, <3>1, <3>3, <3>4
  <2> QED
    BY <2>7, <2>8
<1> DEFINE s == lcsIndices(xs, xs)
           a == Anchors(xs, xs)
<1>4. s = Diagonal(len)
  <2>1. len \in 0 .. len
    BY <1>2
  <2>2. f[<<len, len>>] = Diagonal(len)
    BY <1>3, <2>1
  <2> QED
    BY <1>1, <2>2
<1>5. /\ s \in Seq(Nat \X Nat) /\ Len(s) = len
      /\ \A k \in 1 .. len : s[k] = <<k, k>>
  BY <1>2, <1>2a, <1>4
<1> DEFINE end == len + 1
<1>6. a = <<<<0, 0>>>> \o s \o <<<<end, end>>>>
  BY DEF Anchors
<1>6a. end \in Nat /\ end = len + 1
  BY <1>2
<1> HIDE DEF s, a, len, end
<1>7. Len(a) = len + 2 /\ a[1] = <<0, 0>> /\ a[len + 2] = <<end, end>>
      /\ \A k \in 2 .. len + 1 : a[k] = s[k - 1]
  <2>1. s \in Seq(Nat \X Nat) /\ end \in Nat
    BY <1>5, <1>6a
  <2>2. /\ Len(a) = Len(s) + 2 /\ a[1] = <<0, 0>> /\ a[Len(s) + 2] = <<end, end>>
        /\ \A k \in 2 .. Len(s) + 1 : a[k] = s[k - 1]
    BY <1>6, <2>1, Flanked
  <2>3. Len(s) = len
    BY <1>5
  <2> QED
    BY <2>2, <2>3
<1>8. ASSUME NEW k \in 1 .. len + 2 PROVE a[k] = <<k - 1, k - 1>>
  <2>1. CASE k = 1 \/ k = len + 2
    BY <1>2, <1>6a, <1>7, <2>1
  <2>2. CASE k # 1 /\ k # len + 2
    <3>1. k \in 2 .. len + 1 /\ k - 1 \in 1 .. len
      BY <1>2, <2>2
    <3> QED
      BY <1>5, <1>7, <3>1
  <2> QED
    BY <2>1, <2>2
<1>9. ASSUME NEW k \in 1 .. Len(a) - 1 PROVE ~IsEdit(Gap(xs, xs, k))
  <2>1. k \in 1 .. len + 2 /\ k + 1 \in 1 .. len + 2 /\ k \in Nat
    BY <1>2, <1>7
  <2>2. a[k] = <<k - 1, k - 1>> /\ a[k + 1] = <<(k + 1) - 1, (k + 1) - 1>>
    BY <1>8, <2>1
  <2>3. a[k][1] = k - 1 /\ a[k][2] = k - 1 /\ a[k + 1][1] = k /\ a[k + 1][2] = k
    BY <2>1, <2>2
  <2>4. SubSeq(xs, (k - 1) + 1, k - 1) = <<>>
    BY <2>1, SubSeqEmpty
  <2> DEFINE g == Gap(xs, xs, k)
  <2>5. g = [from |-> a[k][1], to |-> a[k + 1][1] - 1,
             lines |-> SubSeq(xs, a[k][2] + 1, a[k + 1][2] - 1)]
    BY DEF Gap, a
  <2>6. g = [from |-> k - 1, to |-> k - 1, lines |-> <<>>]
    BY <2>3, <2>4, <2>5
  <2> HIDE DEF g
  <2>7. g.from = k - 1 /\ g.to = k - 1 /\ g.lines = <<>>
    BY <2>6
  <2>8. ~IsEdit(g)
    BY <2>1, <2>7 DEF IsEdit
  <2> QED
    BY <2>8 DEF g
<1> QED
  BY <1>9, EditsAreGaps DEF a

\* Text or JSON of which one side changed something, or both the same, merges to what
\* that side made of it, for contents of any size.
THEOREM MergesOneSided == Spec => []OneSided
<1>1. \A b, c \in Seq(Line) : ApplyAll(b, computeEdits(b, c)) = [result |-> "Merged", file |-> c]
  BY SideMerges
<1>2. ASSUME NEW b \in Seq(Line), NEW c \in Seq(Line)
      PROVE  /\ merge3Lines(b, c, b) = [result |-> "Merged", file |-> c]
             /\ merge3Lines(b, c, c) = [result |-> "Merged", file |-> c]
  <2>1. /\ computeEdits(b, c) \cup computeEdits(b, b) = computeEdits(b, c)
        /\ computeEdits(b, c) \cup computeEdits(b, c) = computeEdits(b, c)
    BY NoEditsAgainstItself
  <2> QED
    BY <1>1, <2>1 DEF merge3Lines
<1>3. Called => OneSided
  <2> SUFFICES ASSUME Called, outcome.result # "None", driver \in {"text", "json"}
               PROVE  /\ base = remote => outcome = [result |-> "Merged", file |-> local]
                      /\ local = remote => outcome = [result |-> "Merged", file |-> local]
    BY DEF OneSided
  <2>1. CASE driver = "text"
    <3>1. base \in Seq(Line) /\ local \in Seq(Line) /\ remote \in Seq(Line)
      BY <2>1, FilesAssumption DEF Called, Contents
    <3>2. outcome = merge3Lines(base, local, remote)
      BY <2>1 DEF Called, MergeBy
    <3> QED
      BY <1>2, <3>1, <3>2
  <2>2. CASE driver = "json"
    <3>1. base \in JsonValue /\ local \in JsonValue /\ remote \in JsonValue
      BY <2>2, FilesAssumption DEF Called, Contents
    <3>2. outcome = mergeJSON(base, local, remote)
      BY <2>2 DEF Called, MergeBy
    <3> QED
      BY <3>1, <3>2, JsonOneSided DEF Clean
  <2> QED
    BY <2>1, <2>2
<1> QED
  BY <1>3, OutcomeIsMerge, PTL
-----------------------------------------------------------------------------
(***************************************************************************)
(* Lines are counted along the merge of both sides' edits and along that of*)
(* either side's alone.                                                    *)
(***************************************************************************)
Shifted(S, k) == {i + k : i \in S}

LEMMA ShiftedCount ==
    ASSUME NEW S \in SUBSET Int, IsFiniteSet(S), NEW k \in Int
    PROVE  IsFiniteSet(Shifted(S, k)) /\ Cardinality(Shifted(S, k)) = Cardinality(S)
<1> DEFINE T == Shifted(S, k)
<1> DEFINE shift == [i \in S |-> i + k]
<1>1. shift \in [S -> T] /\ \A i \in S : shift[i] = i + k
  BY DEF Shifted
<1> HIDE DEF shift
<1>2. \A i, j \in S : shift[i] = shift[j] => i = j
  BY <1>1
<1>3. \A t \in T : \E i \in S : shift[i] = t
  BY <1>1 DEF Shifted
<1> HIDE DEF T
<1>4. shift \in Bijection(S, T)
  BY <1>1, <1>2, <1>3 DEF Bijection, Injection, Surjection, IsInjective
<1> QED
  BY <1>4, FS_Bijection DEF ExistsBijection, T

Spots(s, x) == {i \in DOMAIN s : s[i] = x}

LEMMA CountIsFinite ==
    ASSUME NEW s \in Seq(Line), NEW x
    PROVE  /\ IsFiniteSet(Spots(s, x)) /\ Spots(s, x) \subseteq 1 .. Len(s)
           /\ LineCount(s, x) = Cardinality(Spots(s, x)) /\ LineCount(s, x) \in Nat
<1>1. Spots(s, x) \subseteq 1 .. Len(s) /\ Len(s) \in Int
  BY DEF Spots
<1>2. IsFiniteSet(1 .. Len(s))
  BY <1>1, FS_Interval
<1>3. IsFiniteSet(Spots(s, x))
  BY <1>1, <1>2, FS_Subset
<1>4. Cardinality(Spots(s, x)) \in Nat
  BY <1>3, FS_CardinalityType
<1> QED
  BY <1>1, <1>3, <1>4 DEF LineCount, Spots

LEMMA DisjointCount ==
    ASSUME NEW S, NEW T, IsFiniteSet(S), IsFiniteSet(T), S \cap T = {}
    PROVE  /\ IsFiniteSet(S \cup T) /\ Cardinality(S \cup T) = Cardinality(S) + Cardinality(T)
           /\ Cardinality(S) \in Nat /\ Cardinality(T) \in Nat
<1>1. Cardinality(S) \in Nat /\ Cardinality(T) \in Nat
  BY FS_CardinalityType
<1>2. IsFiniteSet(S \cup T) /\ Cardinality(S \cup T) = Cardinality(S) + Cardinality(T) - Cardinality(S \cap T)
  BY FS_Union
<1>3. Cardinality(S \cap T) = 0
  BY FS_EmptySet
<1> QED
  BY <1>1, <1>2, <1>3

LEMMA CountJoined ==
    ASSUME NEW s \in Seq(Line), NEW t \in Seq(Line), NEW x
    PROVE  LineCount(s \o t, x) = LineCount(s, x) + LineCount(t, x)
<1> DEFINE j == s \o t
           k == Len(s)
           R == Shifted(Spots(t, x), k)
<1>1. /\ j \in Seq(Line) /\ DOMAIN j = 1 .. k + Len(t) /\ k \in Nat /\ Len(t) \in Nat
      /\ \A i \in 1 .. k : j[i] = s[i]
      /\ \A i \in 1 .. Len(t) : j[i + k] = t[i]
  OBVIOUS
<1> HIDE DEF j
<1>2. /\ IsFiniteSet(Spots(s, x)) /\ IsFiniteSet(Spots(t, x))
      /\ Spots(s, x) \subseteq 1 .. k /\ Spots(t, x) \subseteq 1 .. Len(t)
  BY CountIsFinite
<1>3. \A i \in DOMAIN j : i \in 1 .. k \/ \E m \in 1 .. Len(t) : i = m + k
  <2> SUFFICES ASSUME NEW i \in DOMAIN j, i \notin 1 .. k PROVE \E m \in 1 .. Len(t) : i = m + k
    OBVIOUS
  <2>1. i - k \in 1 .. Len(t) /\ i = (i - k) + k
    BY <1>1
  <2> QED
    BY <2>1
<1>4. Spots(j, x) = Spots(s, x) \cup R
  <2>1. ASSUME NEW i \in Spots(j, x) PROVE i \in Spots(s, x) \cup R
    <3>1. i \in DOMAIN j /\ j[i] = x
      BY DEF Spots
    <3>2. CASE i \in 1 .. k
      BY <1>1, <3>1, <3>2 DEF Spots
    <3>3. ASSUME NEW m \in 1 .. Len(t), i = m + k PROVE i \in R
      <4>1. m \in Spots(t, x)
        BY <1>1, <3>1, <3>3 DEF Spots
      <4> QED
        BY <3>3, <4>1 DEF Shifted
    <3> QED
      BY <1>3, <3>1, <3>2, <3>3
  <2>2. ASSUME NEW i \in Spots(s, x) PROVE i \in Spots(j, x)
    <3>1. i \in 1 .. k /\ s[i] = x
      BY <1>2 DEF Spots
    <3>2. i \in DOMAIN j
      BY <1>1, <3>1
    <3> QED
      BY <1>1, <3>1, <3>2 DEF Spots
  <2>3. ASSUME NEW m \in Spots(t, x) PROVE m + k \in Spots(j, x)
    <3>1. m \in 1 .. Len(t) /\ t[m] = x
      BY <1>2 DEF Spots
    <3>2. m + k \in DOMAIN j
      BY <1>1, <3>1
    <3> QED
      BY <1>1, <3>1, <3>2 DEF Spots
  <2> QED
    BY <2>1, <2>2, <2>3 DEF Shifted
<1>5. Spots(s, x) \cap R = {}
  BY <1>1, <1>2 DEF Shifted
<1>6. IsFiniteSet(R) /\ Cardinality(R) = Cardinality(Spots(t, x))
  <2>1. Spots(t, x) \in SUBSET Int /\ k \in Int
    BY <1>1, <1>2
  <2> QED
    BY <1>2, <2>1, ShiftedCount
<1> HIDE DEF R, k
<1>7. Cardinality(Spots(j, x)) = Cardinality(Spots(s, x)) + Cardinality(Spots(t, x))
  BY <1>2, <1>4, <1>5, <1>6, DisjointCount
<1> QED
  BY <1>1, <1>7, CountIsFinite DEF j

\* The lines of a piece are those of the text there.
SpotsWithin(xs, i, j, x) == {k \in i + 1 .. j : xs[k] = x}

LEMMA CountPiece ==
    ASSUME NEW xs \in Seq(Line), NEW i \in Nat, NEW j \in Nat, i <= j, j <= Len(xs), NEW x,
           NEW S, S = SpotsWithin(xs, i, j, x)
    PROVE  IsFiniteSet(S) /\ Cardinality(S) = LineCount(SubSeq(xs, i + 1, j), x)
<1> DEFINE p == SubSeq(xs, i + 1, j)
<1>1. /\ p \in Seq(Line) /\ Len(p) = j - i
      /\ \A m \in 1 .. j - i : p[m] = xs[m + i]
  <2>1. p \in Seq(Line)
    BY PieceOfLines
  <2> QED
    BY <2>1
<1> HIDE DEF p
<1>2. Spots(p, x) \in SUBSET Int /\ IsFiniteSet(Spots(p, x))
  BY CountIsFinite, <1>1
<1>3. S = Shifted(Spots(p, x), i)
  <2>1. ASSUME NEW k \in S PROVE k - i \in Spots(p, x) /\ k = (k - i) + i
    <3>1. k - i \in 1 .. j - i /\ (k - i) + i = k /\ xs[k] = x
      BY DEF SpotsWithin
    <3>2. DOMAIN p = 1 .. j - i
      BY <1>1
    <3> QED
      BY <1>1, <3>1, <3>2 DEF Spots
  <2>2. ASSUME NEW m \in Spots(p, x) PROVE m + i \in S
    <3>1. m \in 1 .. j - i /\ p[m] = x
      BY <1>1 DEF Spots
    <3>2. m + i \in i + 1 .. j
      BY <3>1
    <3> QED
      BY <1>1, <3>1, <3>2 DEF SpotsWithin
  <2> QED
    BY <2>1, <2>2 DEF Shifted
<1>4. IsFiniteSet(S) /\ Cardinality(S) = Cardinality(Spots(p, x))
  <2>1. i \in Int
    OBVIOUS
  <2> QED
    BY <1>2, <1>3, <2>1, ShiftedCount
<1> QED
  BY <1>1, <1>4, CountIsFinite DEF p

-----------------------------------------------------------------------------
\* An edit of one side, and how many lines x it adds to those it takes away.
IsEditOf(e, xs) == /\ e.from \in 0 .. Len(xs) /\ e.to \in 0 .. Len(xs) /\ e.from <= e.to
                   /\ e.lines \in Seq(Line)

Gain(xs, e, x) == LineCount(e.lines, x) - LineCount(SubSeq(xs, e.from + 1, e.to), x)

LEMMA EditsOfText ==
    ASSUME NEW xs \in Seq(Line), NEW ys \in Seq(Line), NEW e \in computeEdits(xs, ys)
    PROVE  IsEditOf(e, xs)
<1> DEFINE a == Anchors(xs, ys)
<1>1. PICK k \in 1 .. Len(a) - 1 : e = Gap(xs, ys, k)
  BY EditsAreGaps
<1>2. e.lines = SubSeq(ys, a[k][2] + 1, a[k + 1][2] - 1)
  BY <1>1 DEF Gap
<1>3. InOrder(a, xs, ys)
  BY AnchorsInOrder
<1> HIDE DEF a
<1>4. a[k][2] \in 0 .. Len(ys) /\ a[k + 1][2] \in 1 .. Len(ys) + 1
  BY <1>3, AnchorBounds
<1> DEFINE i == a[k][2]
           j == a[k + 1][2]
<1>5. i \in 0 .. Len(ys) /\ j \in 1 .. Len(ys) + 1 /\ e.lines = SubSeq(ys, i + 1, j - 1)
  BY <1>2, <1>4
<1> HIDE DEF i, j
<1>6. i + 1 \in Nat /\ j - 1 \in Nat /\ i + 1 >= 1 /\ j - 1 <= Len(ys)
  BY <1>5
<1>7. e.lines \in Seq(Line)
  BY <1>5, <1>6, PieceOfLines
<1> QED
  BY <1>7, EditsAreRanges DEF Ranges, IsEditOf

\* A merge under way, and how many lines x it has written beyond those it has passed.
Stands(xs, acc) ==
    /\ acc = [result |-> "Merged", pos |-> acc.pos, lines |-> acc.lines]
    /\ acc.pos \in 0 .. Len(xs) /\ acc.lines \in Seq(Line)

Balance(xs, acc, x) == LineCount(acc.lines, x) - LineCount(SubSeq(xs, 1, acc.pos), x)

LEMMA CountIsNat ==
    ASSUME NEW xs \in Seq(Line), NEW x, NEW i \in 0 .. Len(xs), NEW j \in 0 .. Len(xs), i <= j
    PROVE  /\ SubSeq(xs, i + 1, j) \in Seq(Line)
           /\ LineCount(SubSeq(xs, i + 1, j), x) \in Nat
           /\ LineCount(SubSeq(xs, 1, j), x)
                 = LineCount(SubSeq(xs, 1, i), x) + LineCount(SubSeq(xs, i + 1, j), x)
<1>1. SubSeq(xs, i + 1, j) \in Seq(Line) /\ SubSeq(xs, 1, i) \in Seq(Line)
  <2>1. i + 1 \in Nat /\ j \in Nat /\ i + 1 >= 1 /\ j <= Len(xs)
    OBVIOUS
  <2>2. 1 \in Nat /\ i \in Nat /\ 1 >= 1 /\ i <= Len(xs)
    OBVIOUS
  <2> QED
    BY <2>1, <2>2, PieceOfLines
<1>2. SubSeq(xs, 1, j) = SubSeq(xs, 1, i) \o SubSeq(xs, i + 1, j)
  <2>1. 1 \in 1 .. Len(xs) + 1 /\ i \in 1 - 1 .. Len(xs) /\ j \in i .. Len(xs)
    OBVIOUS
  <2> QED
    BY <2>1, ConcatAdjacentSubSeq
<1> DEFINE u == SubSeq(xs, 1, i)
           v == SubSeq(xs, i + 1, j)
<1>3. u \in Seq(Line) /\ v \in Seq(Line) /\ SubSeq(xs, 1, j) = u \o v
  BY <1>1, <1>2
<1> HIDE DEF u, v
<1>4. LineCount(u \o v, x) = LineCount(u, x) + LineCount(v, x) /\ LineCount(v, x) \in Nat
  BY <1>3, CountJoined, CountIsFinite
<1> QED
  BY <1>3, <1>4 DEF u, v

LEMMA EditGains ==
    ASSUME NEW xs \in Seq(Line), NEW x, NEW acc, Stands(xs, acc),
           NEW e, IsEditOf(e, xs), NEW n, n = e.from, acc.pos <= n,
           NEW new, new = Emit(xs, acc, n, e)
    PROVE  /\ Stands(xs, new)
           /\ Balance(xs, new, x) = Balance(xs, acc, x) + Gain(xs, e, x)
<1>0. new = [result |-> "Merged", pos |-> e.to,
             lines |-> (acc.lines \o SubSeq(xs, acc.pos + 1, n)) \o e.lines]
  <2>1. acc = [result |-> "Merged", pos |-> acc.pos, lines |-> acc.lines]
    BY DEF Stands
  <2>2. acc.result = "Merged"
    BY <2>1
  <2> QED
    BY <2>1, <2>2 DEF Emit
<1> DEFINE p == acc.pos
           s == acc.lines
           to == e.to
           t == e.lines
           mid == SubSeq(xs, p + 1, n)
<1>1. /\ p \in 0 .. Len(xs) /\ n \in 0 .. Len(xs) /\ to \in 0 .. Len(xs) /\ Len(xs) \in Nat
      /\ p <= n /\ n <= to /\ s \in Seq(Line) /\ t \in Seq(Line)
      /\ acc = [result |-> "Merged", pos |-> p, lines |-> s]
  BY DEF Stands, IsEditOf
<1>2. new = [result |-> "Merged", pos |-> to, lines |-> (s \o mid) \o t]
  BY <1>0
<1>3. e.from = n /\ Gain(xs, e, x) = LineCount(t, x) - LineCount(SubSeq(xs, n + 1, to), x)
  BY DEF Gain
<1>4. Balance(xs, acc, x) = LineCount(s, x) - LineCount(SubSeq(xs, 1, p), x)
  BY DEF Balance
<1> HIDE DEF p, s, to, t
<1>5. /\ mid \in Seq(Line) /\ LineCount(mid, x) \in Nat
      /\ LineCount(SubSeq(xs, 1, n), x) = LineCount(SubSeq(xs, 1, p), x) + LineCount(mid, x)
      /\ LineCount(SubSeq(xs, n + 1, to), x) \in Nat
      /\ LineCount(SubSeq(xs, 1, to), x)
            = LineCount(SubSeq(xs, 1, n), x) + LineCount(SubSeq(xs, n + 1, to), x)
  BY <1>1, CountIsNat
<1>6. LineCount(SubSeq(xs, 1, p), x) \in Nat
  <2>1. 1 \in Nat /\ p \in Nat /\ 1 >= 1 /\ p <= Len(xs)
    BY <1>1
  <2> QED
    BY <2>1, PieceOfLines, CountIsFinite
<1> HIDE DEF mid
<1>7. /\ s \o mid \in Seq(Line) /\ (s \o mid) \o t \in Seq(Line)
      /\ LineCount(s, x) \in Nat /\ LineCount(t, x) \in Nat
      /\ LineCount((s \o mid) \o t, x) = (LineCount(s, x) + LineCount(mid, x)) + LineCount(t, x)
  <2>1. s \o mid \in Seq(Line)
    BY <1>1, <1>5
  <2>2. (s \o mid) \o t \in Seq(Line)
    BY <1>1, <2>1
  <2>3. LineCount(s \o mid, x) = LineCount(s, x) + LineCount(mid, x)
    BY <1>1, <1>5, CountJoined
  <2>4. LineCount((s \o mid) \o t, x) = LineCount(s \o mid, x) + LineCount(t, x)
    BY <1>1, <2>1, CountJoined
  <2>5. LineCount(s, x) \in Nat /\ LineCount(t, x) \in Nat
    BY <1>1, CountIsFinite
  <2> QED
    BY <2>1, <2>2, <2>3, <2>4, <2>5
<1> DEFINE w == (s \o mid) \o t
<1>8. w \in Seq(Line) /\ LineCount(w, x) = (LineCount(s, x) + LineCount(mid, x)) + LineCount(t, x)
      /\ new = [result |-> "Merged", pos |-> to, lines |-> w]
  BY <1>2, <1>7
<1> HIDE DEF w
<1>9. new.pos = to /\ new.lines = w
  BY <1>8
<1>10. Balance(xs, new, x) = LineCount(w, x) - LineCount(SubSeq(xs, 1, to), x)
  BY <1>9 DEF Balance
<1>11. Balance(xs, new, x) = Balance(xs, acc, x) + Gain(xs, e, x)
  <2>1. \A a, b, c, d, u \in Nat :
           ((a + c) + b) - ((d + c) + u) = (a - d) + (b - u)
    OBVIOUS
  <2> QED
    BY <1>3, <1>4, <1>5, <1>6, <1>7, <1>8, <1>10, <2>1
<1>12. Stands(xs, new)
  BY <1>1, <1>8, <1>9 DEF Stands
<1> QED
  BY <1>11, <1>12

\* A step that ends without a conflict and a panic applies the one edit that starts there.
MergeStep(xs, edits, acc, n, new) ==
    /\ acc.result = "Merged"
    /\ \/ Here(edits, n) = {} /\ new = acc
       \/ \E e \in edits : /\ Here(edits, n) = {e} /\ acc.pos <= n
                           /\ new = Emit(xs, acc, n, e)

LEMMA StepOfMerge ==
    ASSUME NEW xs \in Seq(Line), NEW edits, Sides(edits, xs), NEW n, NEW acc, IsAcc(acc),
           NEW new, new = Stepped(xs, edits, acc, n), new.result = "Merged", n \in Nat
    PROVE  MergeStep(xs, edits, acc, n, new)
<1>1. CASE ~\E e \in edits : e.from = n
  BY <1>1 DEF Stepped, Here, MergeStep
<1>2. ASSUME NEW e \in edits, e.from = n PROVE MergeStep(xs, edits, acc, n, new)
  <2>1. new = ApplyEdits(xs, edits, acc, n)
    BY <1>2 DEF Stepped
  <2>2. acc.result # "Panic" /\ ~(n < acc.pos)
    <3>1. ~(acc.result = "Panic" \/ n < acc.pos)
      <4>1. acc.result = "Panic" \/ n < acc.pos => new.result = "Panic"
        BY <2>1, AppliedLate
      <4> QED
        BY <4>1
    <3> QED
      BY <3>1
  <2>3. PICK f \in edits : f.from = n /\ Here(edits, n) = {e, f}
    <3>1. Sides(edits, xs) /\ e \in edits /\ e.from = n
      BY <1>2
    <3> QED
      BY <3>1, EditsHere DEF Here
  <2>4. e = f
    <3> SUFFICES ASSUME e # f PROVE FALSE
      OBVIOUS
    <3>1. Cardinality(Here(edits, n)) > 1
      <4>1. Cardinality({e, f}) = 2
        BY CardinalityOfTwo, Zenon
      <4> QED
        BY <2>3, <4>1
    <3>2. new = [acc EXCEPT !.pos = Max({g.to : g \in Here(edits, n)}), !.result = "HasConflict"]
      BY <2>1, <2>2, <3>1 DEF ApplyEdits, Here
    <3>3. new.result = "HasConflict"
      BY <3>2 DEF IsAcc
    <3> QED
      BY <3>3
  <2>5. Here(edits, n) = {e}
    BY <2>3, <2>4
  <2>6. ~(Cardinality(Here(edits, n)) > 1) /\ (CHOOSE g \in Here(edits, n) : TRUE) = e
    <3>1. Cardinality({e}) = 1
      BY FS_Singleton
    <3> QED
      BY <2>5, <3>1
  <2>7. new = Emit(xs, acc, n, e)
    BY <2>1, <2>2, <2>6 DEF ApplyEdits, Here
  <2>8. acc.result = "Merged"
    <3>1. new = [acc EXCEPT !.pos = e.to,
                            !.lines = acc.lines \o SubSeq(xs, acc.pos + 1, n) \o e.lines]
      BY <2>7 DEF Emit
    <3> DEFINE w == acc.lines \o SubSeq(xs, acc.pos + 1, n) \o e.lines
    <3> HIDE DEF w
    <3>2. new = [acc EXCEPT !.pos = e.to, !.lines = w]
      BY <3>1 DEF w
    <3>3. acc = [result |-> acc.result, pos |-> acc.pos, lines |-> acc.lines]
      BY DEF IsAcc
    <3>4. new.result = acc.result
      BY <3>2, <3>3
    <3> QED
      BY <3>4
  <2>9. acc.pos <= n
    BY <2>2 DEF IsAcc
  <2> QED
    BY <2>5, <2>7, <2>8, <2>9 DEF MergeStep
<1> QED
  BY <1>1, <1>2

LEMMA MergeSteps ==
    ASSUME NEW xs \in Seq(Line), NEW edits, Sides(edits, xs), NEW f, Over(xs, edits, f),
           f[Len(xs) + 1].result = "Merged"
    PROVE  \A n \in 0 .. Len(xs) : MergeStep(xs, edits, f[n], n, f[n + 1])
<1> DEFINE end == Len(xs) + 1
           T == {k \in 0 .. end : f[end - k].result # "Merged"}
<1>1. end \in Nat /\ Len(xs) \in Nat /\ Len(xs) = end - 1 /\ f[end].result = "Merged"
  OBVIOUS
<1>2. \A n \in 0 .. end : IsAcc(f[n])
  BY ReachedAll DEF Reached
<1>3. ASSUME NEW n \in 0 .. Len(xs), f[n + 1].result = "Merged"
      PROVE  MergeStep(xs, edits, f[n], n, f[n + 1])
  <2>1. n \in 0 .. end /\ n + 1 \in 1 .. Len(xs) + 1 /\ (n + 1) - 1 = n /\ n \in Nat
    OBVIOUS
  <2>2. f[n + 1] = Stepped(xs, edits, f[(n + 1) - 1], (n + 1) - 1)
    BY <2>1, OverStepped
  <2> DEFINE acc == f[n]
             new == f[n + 1]
  <2>3. IsAcc(acc) /\ new = Stepped(xs, edits, acc, n) /\ new.result = "Merged"
    BY <1>2, <1>3, <2>1, <2>2
  <2> HIDE DEF acc, new
  <2>4. MergeStep(xs, edits, acc, n, new)
    BY <2>1, <2>3, StepOfMerge
  <2> QED
    BY <2>4 DEF acc, new
<1> HIDE DEF end
<1>4. T = {}
  <2>1. SUFFICES ASSUME T # {} PROVE FALSE
    OBVIOUS
  <2>2. T \in SUBSET Nat
    BY <1>1
  <2>3. PICK k \in T : \A i \in T : k <= i
    BY <2>1, <2>2, LeastNatural
  <2>4. k \in 0 .. end /\ f[end - k].result # "Merged"
    OBVIOUS
  <2>5. k # 0
    BY <1>1, <2>4
  <2>6. /\ k - 1 \in 0 .. end /\ ~(k <= k - 1) /\ end - k \in 0 .. Len(xs)
        /\ end - (k - 1) = (end - k) + 1
    BY <1>1, <2>4, <2>5
  <2>7. f[end - (k - 1)].result = "Merged"
    <3>1. k - 1 \notin T
      <4> HIDE DEF T
      <4> QED
        BY <2>3, <2>6
    <3> QED
      BY <2>6, <3>1
  <2>8. f[end - k].result = "Merged"
    BY <1>3, <2>6, <2>7 DEF MergeStep
  <2> QED
    BY <2>4, <2>8
<1>5. ASSUME NEW n \in 0 .. Len(xs) PROVE f[n + 1].result = "Merged"
  <2>1. end - (n + 1) \in 0 .. end /\ end - (end - (n + 1)) = n + 1
    BY <1>1
  <2>2. f[end - (end - (n + 1))].result = "Merged"
    BY <1>4, <2>1
  <2> QED
    BY <2>1, <2>2
<1> QED
  BY <1>3, <1>5

\* A merge that succeeds, from line to line: it stands where its edits have brought it.
LEMMA MergeStands ==
    ASSUME NEW xs \in Seq(Line), NEW edits, Sides(edits, xs), \A e \in edits : IsEditOf(e, xs),
           NEW f, Over(xs, edits, f), f[Len(xs) + 1].result = "Merged"
    PROVE  \A n \in 0 .. Len(xs) + 1 : Stands(xs, f[n])
<1> DEFINE T == {n \in 0 .. Len(xs) + 1 : ~Stands(xs, f[n])}
<1>1. Len(xs) \in Nat
  OBVIOUS
<1>2. SUFFICES ASSUME T # {} PROVE FALSE
  OBVIOUS
<1>3. T \in SUBSET Nat
  BY <1>1
<1>4. PICK n \in T : \A i \in T : n <= i
  BY <1>2, <1>3, LeastNatural
<1>5. n \in 0 .. Len(xs) + 1 /\ ~Stands(xs, f[n])
  OBVIOUS
<1>6. CASE n = 0
  <2>1. f[0] = Start
    BY <1>1 DEF Over
  <2>2. Stands(xs, Start)
    BY <1>1 DEF Stands, Start
  <2> QED
    BY <1>5, <1>6, <2>1, <2>2
<1>7. CASE n # 0
  <2>1. /\ n - 1 \in 0 .. Len(xs) /\ n - 1 \in 0 .. Len(xs) + 1 /\ ~(n <= n - 1)
        /\ (n - 1) + 1 = n
    BY <1>1, <1>5, <1>7
  <2>2. Stands(xs, f[n - 1])
    <3>1. n - 1 \notin T
      <4> HIDE DEF T
      <4> QED
        BY <1>4, <2>1
    <3> QED
      BY <2>1, <3>1
  <2> DEFINE m == n - 1
             acc == f[m]
             new == f[n]
  <2>3. MergeStep(xs, edits, acc, m, new) /\ Stands(xs, acc)
    <3>1. MergeStep(xs, edits, f[n - 1], n - 1, f[(n - 1) + 1])
      BY <2>1, MergeSteps
    <3> QED
      BY <2>1, <2>2, <3>1
  <2> HIDE DEF m, acc, new
  <2>4. Stands(xs, new)
    <3>1. CASE Here(edits, m) = {} /\ new = acc
      BY <2>3, <3>1
    <3>2. ASSUME NEW e \in edits, Here(edits, m) = {e}, acc.pos <= m, new = Emit(xs, acc, m, e)
          PROVE  Stands(xs, new)
      <4>1. m = e.from
        BY <3>2 DEF Here
      <4> QED
        BY <2>3, <3>2, <4>1, EditGains
    <3> QED
      BY <2>3, <3>1, <3>2 DEF MergeStep
  <2> QED
    BY <1>5, <2>4 DEF new
<1> QED
  BY <1>6, <1>7

-----------------------------------------------------------------------------
\* What edits take away and bring, of lines x.
Replaced(xs, S, x) == {i \in UNION {e.from + 1 .. e.to : e \in S} : xs[i] = x}
Inserted(S, x) == {p \in UNION {{e} \X DOMAIN e.lines : e \in S} : p[1].lines[p[2]] = x}

LEMMA LinesOfEdit ==
    ASSUME NEW xs \in Seq(Line), NEW x, NEW e, IsEditOf(e, xs)
    PROVE  /\ IsFiniteSet(Replaced(xs, {e}, x)) /\ IsFiniteSet(Inserted({e}, x))
           /\ Cardinality(Replaced(xs, {e}, x)) = LineCount(SubSeq(xs, e.from + 1, e.to), x)
           /\ Cardinality(Inserted({e}, x)) = LineCount(e.lines, x)
<1>1. Replaced(xs, {e}, x) = {k \in e.from + 1 .. e.to : xs[k] = x}
  BY DEF Replaced
<1>2. e.from \in Nat /\ e.to \in Nat /\ e.from <= e.to /\ e.to <= Len(xs)
  BY DEF IsEditOf
<1>3. /\ IsFiniteSet(Replaced(xs, {e}, x))
      /\ Cardinality(Replaced(xs, {e}, x)) = LineCount(SubSeq(xs, e.from + 1, e.to), x)
  <2> DEFINE R == Replaced(xs, {e}, x)
             i == e.from
             j == e.to
  <2>1. /\ i \in Nat /\ j \in Nat /\ i <= j /\ j <= Len(xs)
        /\ R = SpotsWithin(xs, i, j, x)
    BY <1>1, <1>2 DEF SpotsWithin
  <2> HIDE DEF R, i, j
  <2>2. IsFiniteSet(R) /\ Cardinality(R) = LineCount(SubSeq(xs, i + 1, j), x)
    BY <2>1, CountPiece
  <2> QED
    BY <2>2 DEF R, i, j
<1> DEFINE S == Spots(e.lines, x)
           T == Inserted({e}, x)
           pair == [i \in S |-> <<e, i>>]
<1>4. T = {<<e, i>> : i \in S}
  <2>1. UNION {{d} \X DOMAIN d.lines : d \in {e}} = {e} \X DOMAIN e.lines
    OBVIOUS
  <2>2. T = {p \in {e} \X DOMAIN e.lines : p[1].lines[p[2]] = x}
    BY <2>1 DEF Inserted
  <2>3. ASSUME NEW i \in S PROVE <<e, i>> \in T
    BY <2>2 DEF Spots
  <2>4. ASSUME NEW p \in T PROVE p \in {<<e, i>> : i \in S}
    <3>1. p \in {e} \X DOMAIN e.lines /\ p[1].lines[p[2]] = x
      BY <2>2
    <3>2. PICK i \in DOMAIN e.lines : p = <<e, i>>
      BY <3>1
    <3>3. i \in S
      BY <3>1, <3>2 DEF Spots
    <3> QED
      BY <3>2, <3>3
  <2> HIDE DEF S, T
  <2> QED
    BY <2>3, <2>4
<1>5. pair \in [S -> T] /\ \A i \in S : pair[i] = <<e, i>>
  BY <1>4
<1>6. IsFiniteSet(S) /\ LineCount(e.lines, x) = Cardinality(S)
  BY CountIsFinite DEF IsEditOf
<1> HIDE DEF S, T, pair
<1>7. (\A i, j \in S : pair[i] = pair[j] => i = j) /\ (\A t \in T : \E i \in S : pair[i] = t)
  BY <1>4, <1>5
<1>8. pair \in Bijection(S, T)
  BY <1>5, <1>7 DEF Bijection, Injection, Surjection, IsInjective
<1>9. IsFiniteSet(T) /\ Cardinality(T) = Cardinality(S)
  BY <1>6, <1>8, FS_Bijection DEF ExistsBijection
<1> QED
  BY <1>3, <1>6, <1>9 DEF T

\* One edit more, after those.
LEMMA EditMore ==
    ASSUME NEW xs \in Seq(Line), NEW x, NEW S, NEW e, IsEditOf(e, xs), e \notin S,
           \A d \in S : IsEditOf(d, xs) /\ d.to <= e.from,
           IsFiniteSet(Replaced(xs, S, x)), IsFiniteSet(Inserted(S, x))
    PROVE  /\ IsFiniteSet(Replaced(xs, S \cup {e}, x)) /\ IsFiniteSet(Inserted(S \cup {e}, x))
           /\ Cardinality(Inserted(S \cup {e}, x)) - Cardinality(Replaced(xs, S \cup {e}, x))
                = Cardinality(Inserted(S, x)) - Cardinality(Replaced(xs, S, x)) + Gain(xs, e, x)
<1>1. Replaced(xs, S \cup {e}, x) = Replaced(xs, S, x) \cup Replaced(xs, {e}, x)
  BY DEF Replaced
<1>2. Inserted(S \cup {e}, x) = Inserted(S, x) \cup Inserted({e}, x)
  BY DEF Inserted
<1>3. Replaced(xs, S, x) \cap Replaced(xs, {e}, x) = {}
  <2> SUFFICES ASSUME NEW i \in Replaced(xs, S, x), i \in Replaced(xs, {e}, x) PROVE FALSE
    OBVIOUS
  <2>1. PICK d \in S : i \in d.from + 1 .. d.to
    BY DEF Replaced
  <2>2. i \in e.from + 1 .. e.to
    BY DEF Replaced
  <2>3. d.to <= e.from /\ d.to \in Nat /\ d.from \in Nat /\ e.from \in Nat /\ e.to \in Nat
    BY DEF IsEditOf
  <2> QED
    BY <2>1, <2>2, <2>3
<1>4. Inserted(S, x) \cap Inserted({e}, x) = {}
  <2> SUFFICES ASSUME NEW p \in Inserted(S, x), p \in Inserted({e}, x) PROVE FALSE
    OBVIOUS
  <2>1. PICK d \in S : p \in {d} \X DOMAIN d.lines
    BY DEF Inserted
  <2>2. p \in {e} \X DOMAIN e.lines
    BY DEF Inserted
  <2>3. p[1] = d /\ p[1] = e
    BY <2>1, <2>2
  <2> QED
    BY <2>3
<1>5. /\ IsFiniteSet(Replaced(xs, {e}, x)) /\ IsFiniteSet(Inserted({e}, x))
      /\ Gain(xs, e, x) = Cardinality(Inserted({e}, x)) - Cardinality(Replaced(xs, {e}, x))
  BY LinesOfEdit DEF Gain
<1> DEFINE a == Inserted(S, x)
           b == Inserted({e}, x)
           c == Replaced(xs, S, x)
           d == Replaced(xs, {e}, x)
<1>6. /\ IsFiniteSet(a) /\ IsFiniteSet(b) /\ IsFiniteSet(c) /\ IsFiniteSet(d)
      /\ a \cap b = {} /\ c \cap d = {}
      /\ Gain(xs, e, x) = Cardinality(b) - Cardinality(d)
      /\ Inserted(S \cup {e}, x) = a \cup b /\ Replaced(xs, S \cup {e}, x) = c \cup d
  BY <1>1, <1>2, <1>3, <1>4, <1>5
<1> HIDE DEF a, b, c, d
<1>7. /\ IsFiniteSet(a \cup b) /\ Cardinality(a \cup b) = Cardinality(a) + Cardinality(b)
      /\ Cardinality(a) \in Nat /\ Cardinality(b) \in Nat
  BY <1>6, DisjointCount
<1>8. /\ IsFiniteSet(c \cup d) /\ Cardinality(c \cup d) = Cardinality(c) + Cardinality(d)
      /\ Cardinality(c) \in Nat /\ Cardinality(d) \in Nat
  BY <1>6, DisjointCount
<1>9. Cardinality(a \cup b) - Cardinality(c \cup d)
        = Cardinality(a) - Cardinality(c) + Gain(xs, e, x)
  BY <1>6, <1>7, <1>8
<1> QED
  BY <1>6, <1>7, <1>8, <1>9 DEF a, c

LEMMA BalanceIsInt ==
    ASSUME NEW xs \in Seq(Line), NEW x, NEW acc, Stands(xs, acc)
    PROVE  Balance(xs, acc, x) \in Int
<1>1. acc.lines \in Seq(Line) /\ 1 \in Nat /\ acc.pos \in Nat /\ 1 >= 1 /\ acc.pos <= Len(xs)
  BY DEF Stands
<1>2. SubSeq(xs, 1, acc.pos) \in Seq(Line)
  BY <1>1, PieceOfLines
<1>3. LineCount(SubSeq(xs, 1, acc.pos), x) \in Nat /\ LineCount(acc.lines, x) \in Nat
  BY <1>1, <1>2, CountIsFinite
<1> QED
  BY <1>3 DEF Balance

LEMMA GainIsInt ==
    ASSUME NEW xs \in Seq(Line), NEW x, NEW e, IsEditOf(e, xs)
    PROVE  Gain(xs, e, x) \in Int
<1>1. LineCount(e.lines, x) \in Nat
  BY CountIsFinite DEF IsEditOf
<1>2. LineCount(SubSeq(xs, e.from + 1, e.to), x) \in Nat
  BY CountIsNat DEF IsEditOf
<1> QED
  BY <1>1, <1>2 DEF Gain

\* A step keeps the balance, or adds what its one edit gains.
Gained(xs, edits, acc, n, new, x) ==
    \/ Here(edits, n) = {} /\ Balance(xs, new, x) = Balance(xs, acc, x)
    \/ \E e \in edits : /\ Here(edits, n) = {e} /\ acc.pos <= n
                        /\ Balance(xs, new, x) = Balance(xs, acc, x) + Gain(xs, e, x)

LEMMA StepGains ==
    ASSUME NEW xs \in Seq(Line), NEW x, NEW edits, \A e \in edits : IsEditOf(e, xs),
           NEW acc, Stands(xs, acc), NEW n, NEW new, MergeStep(xs, edits, acc, n, new)
    PROVE  Gained(xs, edits, acc, n, new, x)
<1>1. CASE Here(edits, n) = {} /\ new = acc
  BY <1>1 DEF Gained
<1>2. ASSUME NEW e \in edits, Here(edits, n) = {e}, acc.pos <= n, new = Emit(xs, acc, n, e)
      PROVE  Gained(xs, edits, acc, n, new, x)
  <2>1. n = e.from
    BY <1>2 DEF Here
  <2>2. Balance(xs, new, x) = Balance(xs, acc, x) + Gain(xs, e, x)
    BY <1>2, <2>1, EditGains
  <2> QED
    BY <1>2, <2>2 DEF Gained
<1> QED
  BY <1>1, <1>2 DEF MergeStep

-----------------------------------------------------------------------------
\* Before line n, three merges a, b and c of the one side's edits, the other's and both:
\* c has the lines that a and b add, those of the edits S they share once.
Tallied(xs, S, a, b, c, x) ==
    /\ IsFiniteSet(Replaced(xs, S, x)) /\ IsFiniteSet(Inserted(S, x))
    /\ Balance(xs, c, x) + (Cardinality(Inserted(S, x)) - Cardinality(Replaced(xs, S, x)))
          = Balance(xs, a, x) + Balance(xs, b, x)

Before(edits, n) == {e \in edits : e.from < n}

LEMMA TalliedNext ==
    ASSUME NEW xs \in Seq(Line), NEW x, NEW es, NEW fs,
           \A e \in es : IsEditOf(e, xs), \A e \in fs : IsEditOf(e, xs),
           NEW n \in 0 .. Len(xs),
           NEW a, NEW b, NEW c, Stands(xs, a), Stands(xs, b), Stands(xs, c),
           NEW a2, NEW b2, NEW c2, Stands(xs, a2), Stands(xs, b2), Stands(xs, c2),
           Gained(xs, es, a, n, a2, x), Gained(xs, fs, b, n, b2, x),
           Gained(xs, es \cup fs, c, n, c2, x),
           \A d \in Before(es, n) : d.to <= a.pos,
           Tallied(xs, Before(es \cap fs, n), a, b, c, x)
    PROVE  Tallied(xs, Before(es \cap fs, n + 1), a2, b2, c2, x)
<1> DEFINE S == Before(es \cap fs, n)
           S2 == Before(es \cap fs, n + 1)
<1>1. S2 = S \cup (Here(es, n) \cap Here(fs, n)) /\ Here(es \cup fs, n) = Here(es, n) \cup Here(fs, n)
  BY DEF Before, Here, IsEditOf
<1>2. /\ Balance(xs, a, x) \in Int /\ Balance(xs, b, x) \in Int /\ Balance(xs, c, x) \in Int
      /\ Balance(xs, a2, x) \in Int /\ Balance(xs, b2, x) \in Int /\ Balance(xs, c2, x) \in Int
  BY BalanceIsInt
<1>3. \A e \in es \cup fs : Gain(xs, e, x) \in Int
  BY GainIsInt
<1>4. /\ IsFiniteSet(Replaced(xs, S, x)) /\ IsFiniteSet(Inserted(S, x))
      /\ Cardinality(Replaced(xs, S, x)) \in Nat /\ Cardinality(Inserted(S, x)) \in Nat
      /\ Balance(xs, c, x) + (Cardinality(Inserted(S, x)) - Cardinality(Replaced(xs, S, x)))
            = Balance(xs, a, x) + Balance(xs, b, x)
  BY FS_CardinalityType DEF Tallied
<1> DEFINE k == Cardinality(Inserted(S, x)) - Cardinality(Replaced(xs, S, x))
           pa == Balance(xs, a, x)
           pb == Balance(xs, b, x)
           pc == Balance(xs, c, x)
           qa == Balance(xs, a2, x)
           qb == Balance(xs, b2, x)
           qc == Balance(xs, c2, x)
<1>4a. /\ k \in Int /\ pa \in Int /\ pb \in Int /\ pc \in Int /\ qa \in Int /\ qb \in Int
       /\ qc \in Int /\ pc + k = pa + pb
  BY <1>2, <1>4
<1>5. \A d \in S : d \in es /\ IsEditOf(d, xs) /\ d.to <= a.pos /\ d.from < n
  BY DEF Before
<1> HIDE DEF S, S2
<1>6. CASE Here(es, n) = {}
  <2>1. S2 = S /\ Balance(xs, a2, x) = Balance(xs, a, x)
    BY <1>1, <1>6 DEF Gained
  <2>2. Here(es \cup fs, n) = Here(fs, n)
    BY <1>1, <1>6
  <2>3. \/ Balance(xs, b2, x) = Balance(xs, b, x) /\ Balance(xs, c2, x) = Balance(xs, c, x)
        \/ \E e \in fs : /\ Balance(xs, b2, x) = Balance(xs, b, x) + Gain(xs, e, x)
                         /\ Balance(xs, c2, x) = Balance(xs, c, x) + Gain(xs, e, x)
    BY <2>2 DEF Gained
  <2>4. qc + k = qa + qb
    <3>1. qa = pa /\ ((qb = pb /\ qc = pc) \/ \E d \in Int : qb = pb + d /\ qc = pc + d)
      BY <1>3, <2>1, <2>3
    <3> HIDE DEF k, pa, pb, pc, qa, qb, qc
    <3> QED
      BY <1>4a, <3>1
  <2> QED
    BY <1>4, <2>1, <2>4 DEF Tallied, S2
<1>7. CASE Here(fs, n) = {}
  <2>1. S2 = S /\ Balance(xs, b2, x) = Balance(xs, b, x)
    BY <1>1, <1>7 DEF Gained
  <2>2. Here(es \cup fs, n) = Here(es, n)
    BY <1>1, <1>7
  <2>3. \/ Balance(xs, a2, x) = Balance(xs, a, x) /\ Balance(xs, c2, x) = Balance(xs, c, x)
        \/ \E e \in es : /\ Balance(xs, a2, x) = Balance(xs, a, x) + Gain(xs, e, x)
                         /\ Balance(xs, c2, x) = Balance(xs, c, x) + Gain(xs, e, x)
    BY <2>2 DEF Gained
  <2>4. qc + k = qa + qb
    <3>1. qb = pb /\ ((qa = pa /\ qc = pc) \/ \E d \in Int : qa = pa + d /\ qc = pc + d)
      BY <1>3, <2>1, <2>3
    <3> HIDE DEF k, pa, pb, pc, qa, qb, qc
    <3> QED
      BY <1>4a, <3>1
  <2> QED
    BY <1>4, <2>1, <2>4 DEF Tallied, S2
<1>8. CASE Here(es, n) # {} /\ Here(fs, n) # {}
  <2>1. PICK e \in es : /\ Here(es, n) = {e} /\ a.pos <= n
                        /\ Balance(xs, a2, x) = Balance(xs, a, x) + Gain(xs, e, x)
    BY <1>8 DEF Gained
  <2>2. PICK f \in fs : /\ Here(fs, n) = {f}
                        /\ Balance(xs, b2, x) = Balance(xs, b, x) + Gain(xs, f, x)
    BY <1>8 DEF Gained
  <2>3. PICK g \in es \cup fs : /\ Here(es \cup fs, n) = {g}
                                /\ Balance(xs, c2, x) = Balance(xs, c, x) + Gain(xs, g, x)
    BY <1>1, <1>8 DEF Gained
  <2>4. f = e /\ g = e
    <3>1. {g} = {e} \cup {f}
      BY <1>1, <2>1, <2>2, <2>3
    <3>2. e \in {g} /\ f \in {g}
      BY <3>1, Zenon
    <3> QED
      BY <3>2
  <2>5. S2 = S \cup {e} /\ e.from = n /\ IsEditOf(e, xs)
    BY <1>1, <2>1, <2>2, <2>4 DEF Here
  <2>6. e \notin S
    BY <1>5, <2>5
  <2>7. \A d \in S : IsEditOf(d, xs) /\ d.to <= e.from
    BY <1>5, <2>1, <2>5 DEF IsEditOf, Stands
  <2>8. /\ IsFiniteSet(Replaced(xs, S2, x)) /\ IsFiniteSet(Inserted(S2, x))
        /\ Cardinality(Inserted(S2, x)) - Cardinality(Replaced(xs, S2, x))
              = Cardinality(Inserted(S, x)) - Cardinality(Replaced(xs, S, x)) + Gain(xs, e, x)
    BY <1>4, <2>5, <2>6, <2>7, EditMore
  <2> DEFINE k2 == Cardinality(Inserted(S2, x)) - Cardinality(Replaced(xs, S2, x))
             d == Gain(xs, e, x)
  <2>9. qc + k2 = qa + qb
    <3>1. d \in Int /\ qa = pa + d /\ qb = pb + d /\ qc = pc + d /\ k2 = k + d
      BY <1>3, <2>1, <2>2, <2>3, <2>4, <2>8
    <3> HIDE DEF k, k2, d, pa, pb, pc, qa, qb, qc
    <3> QED
      BY <1>4a, <3>1
  <2> QED
    BY <2>8, <2>9 DEF Tallied, S2
<1> QED
  BY <1>6, <1>7, <1>8

\* Before every line of the base the tally is right.
LEMMA TalliedAll ==
    ASSUME NEW xs \in Seq(Line), NEW x, NEW es, NEW fs, Ranges(es, xs), Ranges(fs, xs),
           \A e \in es : IsEditOf(e, xs), \A e \in fs : IsEditOf(e, xs),
           NEW us, us = es \cup fs,
           NEW f, Over(xs, es, f), f[Len(xs) + 1].result = "Merged",
           NEW g, Over(xs, fs, g), g[Len(xs) + 1].result = "Merged",
           NEW h, Over(xs, us, h), h[Len(xs) + 1].result = "Merged"
    PROVE  \A n \in 0 .. Len(xs) + 1 : Tallied(xs, Before(es \cap fs, n), f[n], g[n], h[n], x)
<1> DEFINE T == {n \in 0 .. Len(xs) + 1 :
                    ~Tallied(xs, Before(es \cap fs, n), f[n], g[n], h[n], x)}
<1>1. Len(xs) \in Nat
  OBVIOUS
<1>2. Sides(es, xs) /\ Sides(fs, xs) /\ Sides(us, xs) /\ \A e \in us : IsEditOf(e, xs)
  <2>1. es = es \cup es /\ fs = fs \cup fs
    OBVIOUS
  <2> QED
    BY <2>1, EditsOfSides
<1>3. \A n \in 0 .. Len(xs) + 1 : Stands(xs, f[n]) /\ Stands(xs, g[n]) /\ Stands(xs, h[n])
  BY <1>2, MergeStands
<1>4. SUFFICES ASSUME T # {} PROVE FALSE
  OBVIOUS
<1>5. T \in SUBSET Nat
  BY <1>1
<1>6. PICK n \in T : \A i \in T : n <= i
  BY <1>4, <1>5, LeastNatural
<1>7. n \in 0 .. Len(xs) + 1 /\ ~Tallied(xs, Before(es \cap fs, n), f[n], g[n], h[n], x)
  OBVIOUS
<1>8. CASE n = 0
  <2>1. f[0] = Start /\ g[0] = Start /\ h[0] = Start
    BY <1>1 DEF Over
  <2>2. Before(es \cap fs, 0) = {}
    BY DEF Before, Ranges
  <2>3. Replaced(xs, {}, x) = {} /\ Inserted({}, x) = {}
    BY DEF Replaced, Inserted
  <2>4. Balance(xs, Start, x) = 0
    <3>1. SubSeq(xs, 1, 0) = <<>>
      BY <1>1, SubSeqEmpty
    <3>2. Balance(xs, Start, x) = LineCount(<<>>, x) - LineCount(<<>>, x)
      BY <3>1 DEF Balance, Start
    <3>3. LineCount(<<>>, x) \in Nat
      <4>1. <<>> \in Seq(Line)
        OBVIOUS
      <4> QED
        BY <4>1, CountIsFinite
    <3> QED
      BY <3>2, <3>3
  <2>5. IsFiniteSet({}) /\ Cardinality({}) = 0
    BY FS_EmptySet
  <2>6. Tallied(xs, {}, Start, Start, Start, x)
    <3>1. /\ IsFiniteSet(Replaced(xs, {}, x)) /\ IsFiniteSet(Inserted({}, x))
          /\ Cardinality(Replaced(xs, {}, x)) = 0 /\ Cardinality(Inserted({}, x)) = 0
      BY <2>3, <2>5
    <3> DEFINE p == Cardinality(Replaced(xs, {}, x))
               q == Cardinality(Inserted({}, x))
               z == Balance(xs, Start, x)
    <3>2. z + (q - p) = z + z
      <4>1. p = 0 /\ q = 0 /\ z = 0
        BY <2>4, <3>1
      <4> HIDE DEF p, q, z
      <4> QED
        BY <4>1
    <3> QED
      BY <3>1, <3>2 DEF Tallied
  <2> QED
    BY <1>7, <1>8, <2>1, <2>2, <2>6
<1>9. CASE n # 0
  <2> DEFINE m == n - 1
  <2>1. m \in 0 .. Len(xs) /\ m \in 0 .. Len(xs) + 1 /\ ~(n <= m) /\ m + 1 = n
    BY <1>1, <1>7, <1>9
  <2>2. Tallied(xs, Before(es \cap fs, m), f[m], g[m], h[m], x)
    <3>1. m \notin T
      <4> HIDE DEF T, m
      <4> QED
        BY <1>6, <2>1
    <3> HIDE DEF m
    <3> QED
      BY <2>1, <3>1
  <2> HIDE DEF m
  <2> DEFINE a == f[m]
             b == g[m]
             c == h[m]
             a2 == f[n]
             b2 == g[n]
             c2 == h[n]
  <2>3. /\ MergeStep(xs, es, f[m], m, f[m + 1]) /\ MergeStep(xs, fs, g[m], m, g[m + 1])
        /\ MergeStep(xs, us, h[m], m, h[m + 1])
    BY <1>2, <2>1, MergeSteps
  <2>4. /\ MergeStep(xs, es, a, m, a2) /\ MergeStep(xs, fs, b, m, b2) /\ MergeStep(xs, us, c, m, c2)
        /\ Stands(xs, a) /\ Stands(xs, b) /\ Stands(xs, c)
        /\ Stands(xs, a2) /\ Stands(xs, b2) /\ Stands(xs, c2)
    BY <1>3, <1>7, <2>1, <2>3
  <2>5. \A d \in Before(es, m) : d.to <= a.pos
    <3>1. Reached(es, f[m], m)
      BY <1>2, <2>1, ReachedAll
    <3>2. a.result = "Merged"
      BY <2>4 DEF MergeStep
    <3> QED
      BY <3>1, <3>2 DEF Reached, Before
  <2>6. Tallied(xs, Before(es \cap fs, m), a, b, c, x)
    BY <2>2
  <2> HIDE DEF a, b, c, a2, b2, c2
  <2>7. /\ Gained(xs, es, a, m, a2, x) /\ Gained(xs, fs, b, m, b2, x)
        /\ Gained(xs, us, c, m, c2, x)
    BY <1>2, <2>4, StepGains
  <2>8. Tallied(xs, Before(es \cap fs, m + 1), a2, b2, c2, x)
    BY <2>1, <2>4, <2>5, <2>6, <2>7, TalliedNext
  <2> QED
    BY <1>7, <2>1, <2>8 DEF a2, b2, c2
<1> QED
  BY <1>8, <1>9

\* The whole merge: the balance at the end, and the base's own lines.
LEMMA MergeCounted ==
    ASSUME NEW xs \in Seq(Line), NEW x, NEW acc, Stands(xs, acc),
           NEW out, out = acc.lines \o SubSeq(xs, acc.pos + 1, Len(xs))
    PROVE  LineCount(out, x) = Balance(xs, acc, x) + LineCount(xs, x)
<1> DEFINE p == acc.pos
           s == acc.lines
           t == SubSeq(xs, p + 1, Len(xs))
<1>1. p \in 0 .. Len(xs) /\ Len(xs) \in 0 .. Len(xs) /\ p <= Len(xs) /\ s \in Seq(Line)
  BY DEF Stands
<1>2. Balance(xs, acc, x) = LineCount(s, x) - LineCount(SubSeq(xs, 1, p), x) /\ out = s \o t
  BY DEF Balance
<1> HIDE DEF p, s
<1>3. /\ t \in Seq(Line) /\ LineCount(t, x) \in Nat
      /\ LineCount(SubSeq(xs, 1, Len(xs)), x) = LineCount(SubSeq(xs, 1, p), x) + LineCount(t, x)
  BY <1>1, CountIsNat
<1>4. SubSeq(xs, 1, Len(xs)) = xs
  OBVIOUS
<1> HIDE DEF t
<1>5. LineCount(out, x) = LineCount(s, x) + LineCount(t, x) /\ LineCount(s, x) \in Nat
  <2>1. LineCount(s \o t, x) = LineCount(s, x) + LineCount(t, x)
    BY <1>1, <1>3, CountJoined
  <2>2. LineCount(s, x) \in Nat
    BY <1>1, CountIsFinite
  <2> QED
    BY <1>2, <2>1, <2>2
<1>6. LineCount(SubSeq(xs, 1, p), x) \in Nat
  <2>1. 1 \in Nat /\ p \in Nat /\ 1 >= 1 /\ p <= Len(xs)
    BY <1>1
  <2> QED
    BY <2>1, PieceOfLines, CountIsFinite
<1>7. LineCount(xs, x) = LineCount(SubSeq(xs, 1, p), x) + LineCount(t, x)
  BY <1>3, <1>4
<1> DEFINE u == LineCount(SubSeq(xs, 1, p), x)
           v == LineCount(s, x)
           w == LineCount(t, x)
<1>8. /\ u \in Nat /\ v \in Nat /\ w \in Nat /\ LineCount(xs, x) = u + w
      /\ LineCount(out, x) = v + w /\ Balance(xs, acc, x) = v - u
  BY <1>2, <1>3, <1>5, <1>6, <1>7
<1> HIDE DEF u, v, w
<1> QED
  BY <1>8

\* A merge that succeeds, and the walk over the base that makes it.
LEMMA WholeMerge ==
    ASSUME NEW xs \in Seq(Line), NEW edits, NEW ys,
           ApplyAll(xs, edits) = [result |-> "Merged", file |-> ys]
    PROVE  \E f : /\ Over(xs, edits, f) /\ f[Len(xs) + 1].result = "Merged"
                  /\ ys = f[Len(xs) + 1].lines
                             \o SubSeq(xs, f[Len(xs) + 1].pos + 1, Len(xs))
<1>1. PICK f : /\ Over(xs, edits, f)
               /\ ApplyAll(xs, edits) =
                     [result |-> f[Len(xs) + 1].result,
                      file   |-> f[Len(xs) + 1].lines
                                    \o SubSeq(xs, f[Len(xs) + 1].pos + 1, Len(xs))]
  BY OverExists
<1> DEFINE r == f[Len(xs) + 1].result
           t == f[Len(xs) + 1].lines \o SubSeq(xs, f[Len(xs) + 1].pos + 1, Len(xs))
<1>2. [result |-> r, file |-> t] = [result |-> "Merged", file |-> ys]
  BY <1>1
<1>3. r = "Merged" /\ t = ys
  <2> HIDE DEF r, t
  <2>1. [result |-> r, file |-> t].result = "Merged" /\ [result |-> r, file |-> t].file = ys
    BY <1>2
  <2> QED
    BY <2>1
<1> QED
  BY <1>1, <1>3

\* What three whole merges count: the two sides' own texts and their merge.
LEMMA SidesAddUp ==
    ASSUME NEW xs \in Seq(Line), NEW ys \in Seq(Line), NEW zs \in Seq(Line), NEW x,
           NEW es, Ranges(es, xs), \A e \in es : IsEditOf(e, xs),
           ApplyAll(xs, es) = [result |-> "Merged", file |-> ys],
           NEW fs, Ranges(fs, xs), \A e \in fs : IsEditOf(e, xs),
           ApplyAll(xs, fs) = [result |-> "Merged", file |-> zs],
           NEW out, ApplyAll(xs, es \cup fs) = [result |-> "Merged", file |-> out]
    PROVE  LineCount(out, x) + LineCount(xs, x) + Cardinality(Inserted(es \cap fs, x))
              = LineCount(ys, x) + LineCount(zs, x) + Cardinality(Replaced(xs, es \cap fs, x))
<1> DEFINE us == es \cup fs
           end == Len(xs) + 1
<1>1. /\ Ranges(es, xs) /\ Ranges(fs, xs)
      /\ (\A e \in es : IsEditOf(e, xs)) /\ (\A e \in fs : IsEditOf(e, xs))
  OBVIOUS
<1>2. /\ ApplyAll(xs, es) = [result |-> "Merged", file |-> ys]
      /\ ApplyAll(xs, fs) = [result |-> "Merged", file |-> zs]
      /\ ApplyAll(xs, us) = [result |-> "Merged", file |-> out]
  OBVIOUS
<1>3. PICK f : /\ Over(xs, es, f) /\ f[Len(xs) + 1].result = "Merged"
               /\ ys = f[Len(xs) + 1].lines
                          \o SubSeq(xs, f[Len(xs) + 1].pos + 1, Len(xs))
  BY <1>2, WholeMerge
<1>4. PICK g : /\ Over(xs, fs, g) /\ g[Len(xs) + 1].result = "Merged"
               /\ zs = g[Len(xs) + 1].lines
                          \o SubSeq(xs, g[Len(xs) + 1].pos + 1, Len(xs))
  BY <1>2, WholeMerge
<1>5. PICK h : /\ Over(xs, us, h) /\ h[Len(xs) + 1].result = "Merged"
               /\ out = h[Len(xs) + 1].lines
                          \o SubSeq(xs, h[Len(xs) + 1].pos + 1, Len(xs))
  BY <1>2, WholeMerge
<1> DEFINE a == f[end]
           b == g[end]
           c == h[end]
<1>6. a.result = "Merged" /\ ys = a.lines \o SubSeq(xs, a.pos + 1, Len(xs))
  BY <1>3
<1>7. b.result = "Merged" /\ zs = b.lines \o SubSeq(xs, b.pos + 1, Len(xs))
  BY <1>4
<1>8. c.result = "Merged" /\ out = c.lines \o SubSeq(xs, c.pos + 1, Len(xs))
  BY <1>5
<1>9. end \in 0 .. Len(xs) + 1 /\ Len(xs) \in Nat
  OBVIOUS
<1>10. Stands(xs, a) /\ Stands(xs, b) /\ Stands(xs, c)
  <2>1. Sides(es, xs) /\ Sides(fs, xs) /\ Sides(us, xs) /\ \A e \in us : IsEditOf(e, xs)
    <3>1. es = es \cup es /\ fs = fs \cup fs
      OBVIOUS
    <3> QED
      BY <1>1, <3>1, EditsOfSides
  <2> HIDE DEF us
  <2> QED
    <3>1. \A n \in 0 .. Len(xs) + 1 : Stands(xs, f[n])
      BY <1>1, <1>3, <2>1, MergeStands
    <3>2. \A n \in 0 .. Len(xs) + 1 : Stands(xs, g[n])
      BY <1>1, <1>4, <2>1, MergeStands
    <3>3. \A n \in 0 .. Len(xs) + 1 : Stands(xs, h[n])
      BY <1>5, <2>1, MergeStands
    <3> QED
      BY <1>9, <3>1, <3>2, <3>3
<1>11. Tallied(xs, Before(es \cap fs, end), a, b, c, x)
  <2>1. us = es \cup fs /\ f[Len(xs) + 1].result = "Merged" /\ g[Len(xs) + 1].result = "Merged"
        /\ h[Len(xs) + 1].result = "Merged"
    BY <1>3, <1>4, <1>5
  <2> HIDE DEF us
  <2>2. \A n \in 0 .. Len(xs) + 1 : Tallied(xs, Before(es \cap fs, n), f[n], g[n], h[n], x)
    BY <1>1, <1>3, <1>4, <1>5, <2>1, TalliedAll
  <2> QED
    BY <1>9, <2>2
<1>12. Before(es \cap fs, end) = es \cap fs
  BY <1>1, <1>9 DEF Before, Ranges
<1> DEFINE S == es \cap fs
<1>13. Tallied(xs, S, a, b, c, x)
  BY <1>11, <1>12
<1> HIDE DEF a, b, c, S, end, us
<1>14. /\ LineCount(ys, x) = Balance(xs, a, x) + LineCount(xs, x)
       /\ LineCount(zs, x) = Balance(xs, b, x) + LineCount(xs, x)
       /\ LineCount(out, x) = Balance(xs, c, x) + LineCount(xs, x)
  BY <1>6, <1>7, <1>8, <1>10, MergeCounted
<1> DEFINE p == Balance(xs, a, x)
           q == Balance(xs, b, x)
           r == Balance(xs, c, x)
           k == LineCount(xs, x)
           i == Cardinality(Inserted(S, x))
           d == Cardinality(Replaced(xs, S, x))
<1>15. p \in Int /\ q \in Int /\ r \in Int
  BY <1>10, BalanceIsInt
<1>16. k \in Nat
  BY CountIsFinite
<1>17. i \in Nat /\ d \in Nat /\ r + (i - d) = p + q
  BY <1>13, FS_CardinalityType DEF Tallied
<1>18. /\ LineCount(ys, x) = p + k /\ LineCount(zs, x) = q + k /\ LineCount(out, x) = r + k
  BY <1>14
<1>19. LineCount(out, x) + k + i = LineCount(ys, x) + LineCount(zs, x) + d
  <2> HIDE DEF p, q, r, k, i, d
  <2> QED
    BY <1>15, <1>16, <1>17, <1>18
<1> QED
  BY <1>19 DEF S

\* A clean merge of lines has each line as often as the two sides' changes add up to, the
\* changes they share counted once, for texts of any length.
THEOREM LinesAllCounted == Spec => []LinesAddUp
<1>1. Called => LinesAddUp
  <2> SUFFICES ASSUME Called, Merged("text") PROVE LinesAddUp
    BY DEF LinesAddUp
  <2>1. base \in Seq(Line) /\ local \in Seq(Line) /\ remote \in Seq(Line)
    BY FilesAssumption DEF Called, Contents, Merged
  <2> DEFINE es == computeEdits(base, local)
             fs == computeEdits(base, remote)
             shared == es \cap fs
             replaced == UNION {e.from + 1 .. e.to : e \in shared}
             inserted == UNION {{e} \X DOMAIN e.lines : e \in shared}
  <2>2. ApplyAll(base, es \cup fs) = [result |-> "Merged", file |-> outcome.file]
    <3>1. outcome = ApplyAll(base, es \cup fs) /\ outcome.result = "Merged"
      BY DEF Called, MergeBy, merge3Lines, Merged
    <3>2. outcome = [result |-> outcome.result, file |-> outcome.file]
      <4> HIDE DEF es, fs
      <4> QED
        BY <3>1 DEF ApplyAll
    <3> QED
      BY <3>1, <3>2
  <2>3. ASSUME NEW x
        PROVE  LineCount(outcome.file, x) + LineCount(base, x)
                  + Cardinality({p \in inserted : p[1].lines[p[2]] = x})
                = LineCount(local, x) + LineCount(remote, x)
                  + Cardinality({i \in replaced : base[i] = x})
    <3>1. LineCount(outcome.file, x) + LineCount(base, x) + Cardinality(Inserted(shared, x))
            = LineCount(local, x) + LineCount(remote, x) + Cardinality(Replaced(base, shared, x))
      <4>1. /\ Ranges(es, base) /\ (\A e \in es : IsEditOf(e, base))
            /\ Ranges(fs, base) /\ (\A e \in fs : IsEditOf(e, base))
            /\ ApplyAll(base, es) = [result |-> "Merged", file |-> local]
            /\ ApplyAll(base, fs) = [result |-> "Merged", file |-> remote]
        BY <2>1, EditsAreRanges, EditsOfText, SideMerges
      <4> DEFINE out == outcome.file
      <4> HIDE DEF es, fs
      <4>2. ApplyAll(base, es \cup fs) = [result |-> "Merged", file |-> out]
        BY <2>2
      <4> HIDE DEF out
      <4>3. LineCount(out, x) + LineCount(base, x) + Cardinality(Inserted(es \cap fs, x))
              = LineCount(local, x) + LineCount(remote, x) + Cardinality(Replaced(base, es \cap fs, x))
        BY <2>1, <4>1, <4>2, SidesAddUp
      <4> QED
        BY <4>3 DEF out
    <3>2. /\ Inserted(shared, x) = {p \in inserted : p[1].lines[p[2]] = x}
          /\ Replaced(base, shared, x) = {i \in replaced : base[i] = x}
      BY DEF Inserted, Replaced
    <3> QED
      BY <3>1, <3>2
  <2> QED
    BY <2>3 DEF LinesAddUp
<1> QED
  BY <1>1, OutcomeIsMerge, PTL

-----------------------------------------------------------------------------
(***************************************************************************)
(* CSV.  Only goes over a sequence and takes what is at the places.        *)
(***************************************************************************)
Walk(s, places, f) ==
    f = [n \in 0 .. Len(s) |->
            IF n = 0 THEN <<>>
            ELSE IF n \in places THEN Append(f[n - 1], s[n])
            ELSE f[n - 1]]

LEMMA WalkExists ==
    ASSUME NEW s, NEW places, Len(s) \in Nat
    PROVE  \E f : Walk(s, places, f) /\ Only(s, places) = f[Len(s)]
<1> DEFINE Step(g, n) == IF n = 0 THEN <<>>
                         ELSE IF n \in places THEN Append(g[n - 1], s[n])
                         ELSE g[n - 1]
           Upto(n, g) == g = [i \in 0 .. n |-> Step(g, i)]
           T == {n \in Nat : ~\E g : Upto(n, g)}
<1>1. T = {}
  <2>1. SUFFICES ASSUME T # {} PROVE FALSE
    OBVIOUS
  <2>2. PICK n \in T : \A i \in T : n <= i
    BY <2>1, LeastNatural
  <2>3. n \in Nat /\ ~\E g : Upto(n, g)
    OBVIOUS
  <2>4. CASE n = 0
    <3>1. Upto(0, [i \in 0 .. 0 |-> <<>>])
      OBVIOUS
    <3> QED
      BY <2>3, <2>4, <3>1
  <2>5. CASE n # 0
    <3>1. n - 1 \in Nat /\ n - 1 \notin T
      <4>1. n - 1 \in Nat /\ ~(n <= n - 1)
        BY <2>3, <2>5
      <4> HIDE DEF T
      <4> QED
        BY <2>2, <4>1
    <3>2. PICK g : Upto(n - 1, g)
      <4> HIDE DEF Upto
      <4> QED
        BY <3>1
    <3> DEFINE h == [i \in 0 .. n |-> IF i = n THEN Step(g, n) ELSE g[i]]
    <3>3. ASSUME NEW i \in 0 .. n PROVE h[i] = Step(h, i)
      <4>1. i # 0 => h[i - 1] = g[i - 1]
        BY <2>3
      <4>2. Step(h, i) = Step(g, i)
        BY <4>1
      <4>3. i # n => g[i] = Step(g, i)
        <5>1. i # n => i \in 0 .. n - 1
          BY <2>3
        <5> HIDE DEF Step
        <5> QED
          BY <3>2, <5>1
      <4> HIDE DEF Step
      <4> QED
        BY <4>2, <4>3
    <3>4. Upto(n, h)
      <4> HIDE DEF Step
      <4> QED
        BY <3>3
    <3> QED
      BY <2>3, <3>4
  <2> QED
    BY <2>4, <2>5
<1>2. PICK f : Upto(Len(s), f)
  <2> HIDE DEF Upto
  <2> QED
    BY <1>1
<1>3. \E g : Walk(s, places, g)
  BY <1>2 DEF Walk
<1> QED
  BY <1>3 DEF Only, Walk

\* What the walk has after n: what s has at the places, each once if s has it once there.
Drawn(s, places, n, w) ==
    /\ \A x : (\E i \in DOMAIN w : w[i] = x) <=> (\E i \in places \cap (1 .. n) : s[i] = x)
    /\ (\A i, j \in places \cap DOMAIN s : s[i] = s[j] => i = j) => IsInjective(w)
    /\ n >= 1 /\ 1 \in places => Len(w) >= 1 /\ w[1] = s[1]

LEMMA DrawnMore ==
    ASSUME NEW X, NEW s \in Seq(X), NEW places, NEW n \in 1 .. Len(s), NEW w \in Seq(X),
           Drawn(s, places, n - 1, w)
    PROVE  /\ n \in places => /\ Append(w, s[n]) \in Seq(X)
                              /\ Drawn(s, places, n, Append(w, s[n]))
           /\ n \notin places => Drawn(s, places, n, w)
<1>0. /\ s[n] \in X /\ n \in Nat /\ n >= 1 /\ n \in DOMAIN s
      /\ 1 .. n = (1 .. n - 1) \cup {n}
  OBVIOUS
<1>1. CASE n \notin places
  <2>1. places \cap (1 .. n) = places \cap (1 .. n - 1)
    BY <1>0, <1>1
  <2>2. n >= 1 /\ 1 \in places => n - 1 >= 1
    BY <1>0, <1>1
  <2> QED
    BY <1>1, <2>1, <2>2 DEF Drawn
<1>2. CASE n \in places
  <2> DEFINE v == Append(w, s[n])
  <2>1. /\ v \in Seq(X) /\ DOMAIN w = 1 .. Len(w) /\ DOMAIN v = 1 .. Len(w) + 1
        /\ Len(v) = Len(w) + 1 /\ Len(w) \in Nat
        /\ \A i \in 1 .. Len(w) : v[i] = w[i]
        /\ v[Len(w) + 1] = s[n]
    BY <1>0
  <2> HIDE DEF v
  <2>2. DOMAIN v = DOMAIN w \cup {Len(w) + 1} /\ Len(w) + 1 \notin DOMAIN w
    BY <2>1
  <2>3. ASSUME NEW x
        PROVE  (\E i \in DOMAIN v : v[i] = x) <=> (\E i \in places \cap (1 .. n) : s[i] = x)
    <3>1. (\E i \in DOMAIN v : v[i] = x) <=> (\E i \in DOMAIN w : w[i] = x) \/ s[n] = x
      BY <2>1, <2>2
    <3>2. (\E i \in places \cap (1 .. n) : s[i] = x)
             <=> (\E i \in places \cap (1 .. n - 1) : s[i] = x) \/ s[n] = x
      BY <1>0, <1>2
    <3> QED
      BY <3>1, <3>2 DEF Drawn
  <2>4. ASSUME \A i, j \in places \cap DOMAIN s : s[i] = s[j] => i = j PROVE IsInjective(v)
    <3>1. IsInjective(w)
      BY <2>4 DEF Drawn
    <3>2. \A i \in DOMAIN w : w[i] # s[n]
      <4>1. SUFFICES ASSUME \E i \in DOMAIN w : w[i] = s[n] PROVE FALSE
        OBVIOUS
      <4>2. PICK i \in places \cap (1 .. n - 1) : s[i] = s[n]
        BY <4>1 DEF Drawn
      <4>3. i \in DOMAIN s /\ i # n
        BY <1>0
      <4> QED
        BY <1>0, <1>2, <2>4, <4>2, <4>3
    <3> QED
      BY <2>1, <2>2, <3>1, <3>2 DEF IsInjective
  <2>5. ASSUME 1 \in places PROVE Len(v) >= 1 /\ v[1] = s[1]
    <3>1. CASE n = 1
      <4>1. DOMAIN w = {}
        <5>1. \A x : ~\E i \in DOMAIN w : w[i] = x
          BY <3>1 DEF Drawn
        <5> QED
          BY <5>1
      <4>2. Len(w) = 0
        BY <2>1, <4>1
      <4> QED
        BY <2>1, <3>1, <4>2
    <3>2. CASE n # 1
      <4>1. Len(w) >= 1 /\ w[1] = s[1]
        BY <1>0, <2>5, <3>2 DEF Drawn
      <4> QED
        BY <2>1, <4>1
    <3> QED
      BY <3>1, <3>2
  <2>6. Drawn(s, places, n, v)
    BY <2>3, <2>4, <2>5 DEF Drawn
  <2> QED
    BY <1>2, <2>1, <2>6 DEF v
<1> QED
  BY <1>1, <1>2

LEMMA OnlyTakes ==
    ASSUME NEW X, NEW s \in Seq(X), NEW places
    PROVE  Only(s, places) \in Seq(X) /\ Drawn(s, places, Len(s), Only(s, places))
<1>1. PICK f : Walk(s, places, f) /\ Only(s, places) = f[Len(s)]
  BY WalkExists
<1> DEFINE Good(n) == f[n] \in Seq(X) /\ Drawn(s, places, n, f[n])
           T == {n \in Nat : n <= Len(s) /\ ~Good(n)}
<1>2. \A n \in 0 .. Len(s) :
         f[n] = IF n = 0 THEN <<>>
                ELSE IF n \in places THEN Append(f[n - 1], s[n])
                ELSE f[n - 1]
  BY <1>1 DEF Walk
<1>3. Good(0)
  <2>1. f[0] = <<>>
    <3>1. 0 \in 0 .. Len(s)
      OBVIOUS
    <3> QED
      BY <1>2, <3>1
  <2>2. places \cap (1 .. 0) = {}
    OBVIOUS
  <2>3. Drawn(s, places, 0, <<>>)
    BY <2>2 DEF Drawn, IsInjective
  <2> QED
    BY <2>1, <2>3
<1>4. T = {}
  <2>1. SUFFICES ASSUME T # {} PROVE FALSE
    OBVIOUS
  <2>2. PICK n \in T : \A i \in T : n <= i
    BY <2>1, LeastNatural
  <2>3. n \in Nat /\ n <= Len(s) /\ ~Good(n)
    OBVIOUS
  <2>4. n # 0
    BY <1>3, <2>3
  <2>5. n \in 1 .. Len(s) /\ n \in 0 .. Len(s) /\ n - 1 \in Nat /\ ~(n <= n - 1) /\ n - 1 <= Len(s)
    BY <2>3, <2>4
  <2>6. Good(n - 1)
    <3> HIDE DEF Good
    <3>1. n - 1 \notin T
      <4> HIDE DEF T
      <4> QED
        BY <2>2, <2>5
    <3> QED
      BY <2>5, <3>1
  <2>7. f[n] = IF n \in places THEN Append(f[n - 1], s[n]) ELSE f[n - 1]
    BY <1>2, <2>4, <2>5
  <2>8. Good(n)
    BY <2>5, <2>6, <2>7, DrawnMore
  <2> QED
    BY <2>3, <2>8
<1>5. Good(Len(s))
  <2> HIDE DEF Good
  <2>1. Len(s) \in Nat /\ Len(s) <= Len(s)
    OBVIOUS
  <2> QED
    BY <1>4, <2>1
<1> QED
  BY <1>1, <1>5

\* The elements of both, once if the first has them once; the first comes first.
LEMMA JoinedHas ==
    ASSUME NEW X, NEW s \in Seq(X), NEW t \in Seq(X)
    PROVE  /\ Joined(s, t) \in Seq(X)
           /\ ToSet(Joined(s, t)) = ToSet(s) \cup ToSet(t)
           /\ IsInjective(s) => IsInjective(Joined(s, t))
           /\ s # <<>> => Joined(s, t) # <<>> /\ Joined(s, t)[1] = s[1]
<1> DEFINE new == {n \in DOMAIN t : t[n] \notin ToSet(s) /\ \A i \in 1 .. n - 1 : t[i] # t[n]}
           o == Only(t, new)
           j == s \o o
<1>1. Joined(s, t) = j
  BY DEF Joined
<1>2. o \in Seq(X) /\ Drawn(t, new, Len(t), o)
  BY OnlyTakes
<1>3. \A x : x \in ToSet(o) <=> \E i \in new : t[i] = x
  <2>1. new \cap (1 .. Len(t)) = new
    OBVIOUS
  <2> HIDE DEF new
  <2> QED
    BY <1>2, <2>1 DEF Drawn, ToSet
<1>4. \A i \in new : i \in DOMAIN t /\ i \in Nat /\ i >= 1 /\ t[i] \notin ToSet(s)
  OBVIOUS
<1>5. \A i, k \in new : t[i] = t[k] => i = k
  <2> SUFFICES ASSUME NEW i \in new, NEW k \in new, t[i] = t[k], i # k PROVE FALSE
    OBVIOUS
  <2>1. i < k \/ k < i
    BY <1>4
  <2>2. i < k => i \in 1 .. k - 1
    BY <1>4
  <2>3. k < i => k \in 1 .. i - 1
    BY <1>4
  <2> QED
    BY <2>1, <2>2, <2>3
<1>6. IsInjective(o)
  <2> HIDE DEF new
  <2> QED
    BY <1>2, <1>5 DEF Drawn
<1>7. ASSUME NEW x \in ToSet(t), x \notin ToSet(s) PROVE x \in ToSet(o)
  <2> DEFINE T == {i \in DOMAIN t : t[i] = x}
  <2>1. T # {} /\ T \in SUBSET Nat
    BY DEF ToSet
  <2> HIDE DEF T
  <2>2. PICK n \in T : \A i \in T : n <= i
    BY <2>1, LeastNatural
  <2> USE DEF T
  <2>3. n \in DOMAIN t /\ t[n] = x
    OBVIOUS
  <2>4. \A i \in 1 .. n - 1 : t[i] # x
    <3> SUFFICES ASSUME NEW i \in 1 .. n - 1, t[i] = x PROVE FALSE
      OBVIOUS
    <3>1. i \in DOMAIN t /\ ~(n <= i)
      BY <2>3
    <3> QED
      BY <2>2, <3>1
  <2>5. n \in new
    BY <1>7, <2>3, <2>4
  <2> HIDE DEF new, T
  <2> QED
    BY <1>3, <2>3, <2>5
<1> HIDE DEF new, o
<1>8. /\ j \in Seq(X) /\ Len(j) = Len(s) + Len(o) /\ Len(s) \in Nat /\ Len(o) \in Nat
      /\ DOMAIN s = 1 .. Len(s) /\ DOMAIN o = 1 .. Len(o) /\ DOMAIN j = 1 .. Len(s) + Len(o)
      /\ \A i \in 1 .. Len(s) : j[i] = s[i]
      /\ \A i \in 1 .. Len(o) : j[Len(s) + i] = o[i]
  BY <1>2
<1> HIDE DEF j
<1>9. \A i \in DOMAIN j : i \in DOMAIN s \/ \E k \in DOMAIN o : i = Len(s) + k
  <2> SUFFICES ASSUME NEW i \in DOMAIN j, i \notin DOMAIN s
               PROVE  \E k \in DOMAIN o : i = Len(s) + k
    OBVIOUS
  <2>1. i - Len(s) \in 1 .. Len(o) /\ i = Len(s) + (i - Len(s))
    BY <1>8
  <2> QED
    BY <1>8, <2>1
<1>10. /\ \A i \in DOMAIN s : i \in DOMAIN j
       /\ \A k \in DOMAIN o : Len(s) + k \in DOMAIN j
  BY <1>8
<1>11. ToSet(j) = ToSet(s) \cup ToSet(o)
  BY <1>8, <1>9, <1>10 DEF ToSet
<1>12. ToSet(o) \subseteq ToSet(t) /\ ToSet(o) \cap ToSet(s) = {}
  BY <1>3, <1>4 DEF ToSet
<1>13. ToSet(j) = ToSet(s) \cup ToSet(t)
  BY <1>7, <1>11, <1>12
<1>14. ASSUME IsInjective(s) PROVE IsInjective(j)
  <2> SUFFICES ASSUME NEW i \in DOMAIN j, NEW k \in DOMAIN j, j[i] = j[k] PROVE i = k
    BY DEF IsInjective
  <2>1. \A x \in DOMAIN s, y \in DOMAIN o : s[x] # o[y]
    BY <1>12 DEF ToSet
  <2>2. CASE i \in DOMAIN s /\ k \in DOMAIN s
    BY <1>8, <1>14, <2>2 DEF IsInjective
  <2>3. CASE i \in DOMAIN s /\ k \notin DOMAIN s
    BY <1>8, <1>9, <2>1, <2>3
  <2>4. CASE i \notin DOMAIN s /\ k \in DOMAIN s
    BY <1>8, <1>9, <2>1, <2>4
  <2>5. CASE i \notin DOMAIN s /\ k \notin DOMAIN s
    <3>1. PICK x \in DOMAIN o : i = Len(s) + x
      BY <1>9, <2>5
    <3>2. PICK y \in DOMAIN o : k = Len(s) + y
      BY <1>9, <2>5
    <3>3. o[x] = o[y]
      BY <1>8, <3>1, <3>2
    <3> QED
      BY <1>6, <3>1, <3>2, <3>3 DEF IsInjective
  <2> QED
    BY <2>2, <2>3, <2>4, <2>5
<1>15. ASSUME s # <<>> PROVE j # <<>> /\ j[1] = s[1]
  <2>1. Len(s) >= 1
    BY <1>15, <1>8
  <2>2. 1 \in 1 .. Len(s) /\ Len(j) # 0
    BY <1>8, <2>1
  <2> QED
    BY <1>8, <2>2
<1> QED
  BY <1>1, <1>8, <1>13, <1>14, <1>15

LEMMA FirstOfHeader ==
    ASSUME NEW X, NEW b \in Seq(X), b # <<>>
    PROVE  Joined(<<>>, b) # <<>> /\ Joined(<<>>, b)[1] = b[1]
<1> DEFINE new == {n \in DOMAIN b : b[n] \notin ToSet(<<>>) /\ \A i \in 1 .. n - 1 : b[i] # b[n]}
           o == Only(b, new)
<1>1. 1 \in DOMAIN b /\ Len(b) \in Nat /\ Len(b) >= 1
  OBVIOUS
<1>2. 1 \in new
  BY <1>1 DEF ToSet
<1>3. o \in Seq(X) /\ Drawn(b, new, Len(b), o)
  BY OnlyTakes
<1>4. Joined(<<>>, b) = <<>> \o o
  BY DEF Joined
<1> HIDE DEF new, o
<1>5. Len(o) >= 1 /\ o[1] = b[1]
  BY <1>1, <1>2, <1>3 DEF Drawn
<1>6. <<>> \o o = o /\ o # <<>>
  BY <1>3, <1>5
<1> QED
  BY <1>4, <1>5, <1>6

LEMMA HeaderHas ==
    ASSUME NEW X, NEW b \in Seq(X), NEW l \in Seq(X), NEW r \in Seq(X), b # <<>>
    PROVE  /\ mergeHeaders(b, l, r) \in Seq(X) /\ IsInjective(mergeHeaders(b, l, r))
           /\ mergeHeaders(b, l, r) # <<>> /\ mergeHeaders(b, l, r)[1] = b[1]
           /\ ToSet(b) \subseteq ToSet(mergeHeaders(b, l, r))
<1> DEFINE e == <<>>
           h == Joined(e, b)
           i == Joined(h, l)
<1>1. h # <<>> /\ h[1] = b[1]
  BY FirstOfHeader
<1>2. e \in Seq(X) /\ IsInjective(e)
  BY DEF IsInjective
<1> HIDE DEF e
<1>3. h \in Seq(X) /\ IsInjective(h) /\ ToSet(b) \subseteq ToSet(h)
  BY <1>2, JoinedHas
<1> HIDE DEF h
<1>4. /\ i \in Seq(X) /\ IsInjective(i) /\ i # <<>> /\ i[1] = b[1]
      /\ ToSet(b) \subseteq ToSet(i)
  BY <1>1, <1>3, JoinedHas
<1> HIDE DEF i
<1>5. /\ Joined(i, r) \in Seq(X) /\ IsInjective(Joined(i, r))
      /\ Joined(i, r) # <<>> /\ Joined(i, r)[1] = b[1]
      /\ ToSet(b) \subseteq ToSet(Joined(i, r))
  BY <1>4, JoinedHas
<1> QED
  BY <1>5 DEF mergeHeaders, i, h, e

\* The keys of a file are fields; what is under a key of a file with one row per key.
LEMMA KeysOfTable ==
    ASSUME NEW t \in CsvFile
    PROVE  /\ RowKeys(t) \in Seq(Field)
           /\ \A key : HasRow(t, key) <=> key \in ToSet(RowKeys(t))
<1>1. /\ t.header \in Seq(Field) /\ t.rows \in Seq(Seq(Field))
      /\ \A i \in DOMAIN t.rows : t.header # <<>> /\ Len(t.rows[i]) = Len(t.header)
  BY FilesAssumption
<1>2. ASSUME NEW i \in DOMAIN t.rows PROVE t.rows[i][1] \in Field
  <2>1. t.rows[i] \in Seq(Field) /\ Len(t.rows[i]) >= 1
    BY <1>1
  <2> QED
    BY <2>1
<1>3. /\ DOMAIN t.rows = 1 .. Len(t.rows) /\ Len(t.rows) \in Nat
  BY <1>1
<1>4. RowKeys(t) \in Seq(Field) /\ DOMAIN RowKeys(t) = 1 .. Len(t.rows)
  BY <1>2, <1>3 DEF RowKeys
<1>5. Len(RowKeys(t)) = Len(t.rows)
  BY <1>3, <1>4
<1>6. \A key : HasRow(t, key) <=> key \in ToSet(RowKeys(t))
  BY <1>4, <1>5 DEF HasRow, Contains, ToSet
<1> QED
  BY <1>4, <1>6

LEMMA RowUnderKey ==
    ASSUME NEW t, NEW i \in DOMAIN t.rows, OneRowPerKey(t), DOMAIN t.rows \subseteq Nat
    PROVE  RowOf(t, t.rows[i][1]) = t.rows[i]
<1> DEFINE S == {j \in DOMAIN t.rows : t.rows[j][1] = t.rows[i][1]}
<1>1. \A j \in DOMAIN t.rows : t.rows[j][1] = t.rows[i][1] => j = i
  BY DEF OneRowPerKey, RowKeys, IsInjective
<1>2. S = {i} /\ i \in Nat
  BY <1>1
<1>3. Max({i}) = i
  BY <1>2 DEF Max
<1> QED
  BY <1>2, <1>3 DEF RowOf

\* Under the name of the key column is the key.
LEMMA KeyInCell ==
    ASSUME NEW t \in CsvFile, NEW key, NEW col, OneRowPerKey(t), KeyedBy(t, col), HasRow(t, key)
    PROVE  Cell(t, key, col) = key
<1>1. PICK i \in DOMAIN t.rows : t.rows[i][1] = key
  BY KeysOfTable DEF ToSet, RowKeys
<1>2. /\ DOMAIN t.rows \subseteq Nat /\ t.header # <<>> /\ t.header \in Seq(Field)
      /\ t.rows \in Seq(Seq(Field))
  BY FilesAssumption
<1>3. RowOf(t, key) = t.rows[i]
  BY <1>1, <1>2, RowUnderKey
<1>4. {c \in DOMAIN t.header : t.header[c] = col} = {1}
  BY <1>2 DEF KeyedBy
<1>5. Max({1}) = 1
  BY DEF Max
<1>6. Contains(t.header, col)
  <2>1. 1 \in DOMAIN t.header /\ t.header[1] = col
    BY <1>4
  <2>2. DOMAIN t.header = 1 .. Len(t.header)
    BY <1>2
  <2> QED
    BY <2>1, <2>2 DEF Contains
<1> QED
  BY <1>1, <1>3, <1>4, <1>5, <1>6 DEF Cell

LEMMA KeyInMergedCell ==
    ASSUME NEW b \in CsvFile, NEW l \in CsvFile, NEW r \in CsvFile, NEW key, NEW col,
           \A t \in {b, l, r} : OneRowPerKey(t) /\ KeyedBy(t, col),
           ~RowDeleted(b, l, r, key), HasRow(b, key) \/ HasRow(l, key) \/ HasRow(r, key)
    PROVE  MergedCell(b, l, r, key, col) = key
<1>1. \A t \in {b, l, r} : /\ HasRow(t, key) => Cell(t, key, col) = key
                           /\ ~HasRow(t, key) => Cell(t, key, col) = Blank
  BY KeyInCell DEF Cell
<1>2. HasRow(l, key) \/ HasRow(r, key)
  BY DEF RowDeleted
<1> HIDE DEF HasRow, Cell
<1> QED
  BY <1>1, <1>2 DEF MergedCell, CellChanged

-----------------------------------------------------------------------------
\* The table that a merge makes of its header and keys, its rows and its cells.
TableOf(t, b, l, r, header, keys) ==
    /\ t.header = header /\ DOMAIN t.rows = DOMAIN keys
    /\ \A i \in DOMAIN keys : \A c \in DOMAIN header :
          t.rows[i][c] = MergedCell(b, l, r, keys[i], header[c])
    /\ \A i \in DOMAIN keys : MergedCell(b, l, r, keys[i], header[1]) = keys[i]

LEMMA AssembledTable ==
    ASSUME NEW X, NEW header \in Seq(X), NEW keys \in Seq(X), NEW b, NEW l, NEW r, NEW t,
           header # <<>>, IsInjective(header), IsInjective(keys),
           TableOf(t, b, l, r, header, keys)
    PROVE  /\ OneRowPerKey(t)
           /\ \A key : HasRow(t, key) <=> key \in ToSet(keys)
           /\ \A key \in ToSet(keys), col \in ToSet(header) :
                 Cell(t, key, col) = MergedCell(b, l, r, key, col)
<1> USE DEF TableOf
<1>0. /\ DOMAIN header = 1 .. Len(header) /\ Len(header) \in Nat /\ 1 \in DOMAIN header
      /\ DOMAIN keys = 1 .. Len(keys) /\ Len(keys) \in Nat
  OBVIOUS
<1>2. \A i \in DOMAIN keys : t.rows[i][1] = keys[i]
  BY <1>0
<1>3. RowKeys(t) = keys
  BY <1>2 DEF RowKeys
<1>4. OneRowPerKey(t)
  BY <1>3 DEF OneRowPerKey
<1>5. \A key : HasRow(t, key) <=> key \in ToSet(keys)
  BY <1>0, <1>3 DEF HasRow, Contains, ToSet
<1>6. ASSUME NEW key \in ToSet(keys), NEW col \in ToSet(header)
      PROVE  Cell(t, key, col) = MergedCell(b, l, r, key, col)
  <2>1. PICK i \in DOMAIN keys : keys[i] = key
    BY DEF ToSet
  <2>2. PICK c \in DOMAIN header : header[c] = col
    BY DEF ToSet
  <2>3. RowOf(t, key) = t.rows[i]
    <3>1. DOMAIN keys \subseteq Nat
      BY <1>0
    <3>2. i \in DOMAIN t.rows /\ DOMAIN t.rows \subseteq Nat /\ t.rows[i][1] = key
      BY <1>2, <2>1, <3>1
    <3> QED
      BY <1>4, <3>2, RowUnderKey
  <2>4. {d \in DOMAIN t.header : t.header[d] = col} = {c}
    BY <2>2 DEF IsInjective
  <2>5. Max({c}) = c
    <3>1. c \in Nat
      BY <1>0
    <3> QED
      BY <3>1 DEF Max
  <2>6. Contains(t.header, col)
    BY <1>0, <2>2 DEF Contains
  <2> QED
    BY <1>5, <2>1, <2>2, <2>3, <2>4, <2>5, <2>6 DEF Cell
<1> QED
  BY <1>4, <1>5, <1>6

TableKeys(b, l, r) == ToSet(RowKeys(b)) \cup ToSet(RowKeys(l)) \cup ToSet(RowKeys(r))

\* A clean merge: its rows are those not deleted, none in conflict, its cells the merged.
LEMMA CsvMerges ==
    ASSUME NEW b \in CsvFile, NEW l \in CsvFile, NEW r \in CsvFile, NEW t, b.header # <<>>,
           \A s \in {b, l, r} : OneRowPerKey(s) /\ KeyedBy(s, b.header[1]),
           CsvMerge(b, l, r).result = "Merged", t = CsvMerge(b, l, r).file
    PROVE  /\ OneRowPerKey(t)
           /\ \A key : HasRow(t, key) <=> key \in TableKeys(b, l, r) /\ ~RowDeleted(b, l, r, key)
           /\ \A key \in TableKeys(b, l, r) : ~RowConflict(b, l, r, key)
           /\ \A key : \A col \in ToSet(t.header) : HasRow(t, key) =>
                 /\ ~CellConflict(b, l, r, key, col)
                 /\ Cell(t, key, col) = MergedCell(b, l, r, key, col)
<1> DEFINE header == mergeHeaders(b.header, l.header, r.header)
           first == Joined(RowKeys(b), RowKeys(l))
           keys == Joined(first, RowKeys(r))
           places == {i \in DOMAIN keys : ~RowDeleted(b, l, r, keys[i])}
           kept == Only(keys, places)
           conflict == \/ \E key \in ToSet(keys) : RowConflict(b, l, r, key)
                       \/ \E key \in ToSet(kept), col \in ToSet(header) :
                              CellConflict(b, l, r, key, col)
           table == Table(header, [i \in DOMAIN kept |->
                                     [c \in DOMAIN header |->
                                         MergedCell(b, l, r, kept[i], header[c])]])
<1>1. CsvMerge(b, l, r) = IF conflict THEN Conflict ELSE Clean(table)
  BY DEF CsvMerge
<1>2. b.header \in Seq(Field) /\ l.header \in Seq(Field) /\ r.header \in Seq(Field)
  BY FilesAssumption
<1>3. header \in Seq(Field) /\ IsInjective(header) /\ header # <<>> /\ header[1] = b.header[1]
  BY <1>2, HeaderHas
<1>4. /\ first \in Seq(Field) /\ IsInjective(first)
      /\ ToSet(first) = ToSet(RowKeys(b)) \cup ToSet(RowKeys(l))
  <2>1. RowKeys(b) \in Seq(Field) /\ RowKeys(l) \in Seq(Field) /\ IsInjective(RowKeys(b))
    BY KeysOfTable DEF OneRowPerKey
  <2> QED
    BY <2>1, JoinedHas
<1> HIDE DEF first
<1>5. keys \in Seq(Field) /\ IsInjective(keys) /\ ToSet(keys) = TableKeys(b, l, r)
  <2>1. RowKeys(r) \in Seq(Field)
    BY KeysOfTable
  <2> QED
    BY <1>4, <2>1, JoinedHas DEF TableKeys
<1> HIDE DEF header, keys
<1>6. kept \in Seq(Field) /\ Drawn(keys, places, Len(keys), kept)
  BY <1>5, OnlyTakes
<1>7. \A key : key \in ToSet(kept) <=> key \in TableKeys(b, l, r) /\ ~RowDeleted(b, l, r, key)
  <2>1. places \cap (1 .. Len(keys)) = places
    BY <1>5
  <2>2. \A key : (\E i \in DOMAIN kept : kept[i] = key) <=> \E i \in places : keys[i] = key
    <3> HIDE DEF places, kept
    <3> QED
      BY <1>6, <2>1 DEF Drawn
  <2>3. \A key : key \in ToSet(kept) <=> \E i \in places : keys[i] = key
    <3> HIDE DEF places, kept
    <3> QED
      BY <2>2 DEF ToSet
  <2> HIDE DEF kept
  <2> QED
    BY <1>5, <2>3 DEF ToSet
<1>8. IsInjective(kept)
  <2>1. \A i, j \in places \cap DOMAIN keys : keys[i] = keys[j] => i = j
    BY <1>5 DEF IsInjective
  <2> HIDE DEF places, kept
  <2> QED
    BY <1>6, <2>1 DEF Drawn
<1> HIDE DEF places, kept
<1>9. ASSUME NEW i \in DOMAIN kept
      PROVE  MergedCell(b, l, r, kept[i], header[1]) = kept[i]
  <2>1. kept[i] \in ToSet(kept)
    BY DEF ToSet
  <2>2. kept[i] \in TableKeys(b, l, r) /\ ~RowDeleted(b, l, r, kept[i])
    BY <1>7, <2>1
  <2>3. HasRow(b, kept[i]) \/ HasRow(l, kept[i]) \/ HasRow(r, kept[i])
    BY <2>2, KeysOfTable DEF TableKeys
  <2> QED
    BY <1>3, <2>2, <2>3, KeyInMergedCell
<1>10. ~conflict /\ t = table
  <2> HIDE DEF conflict, table
  <2> QED
    BY <1>1 DEF Conflict, Clean
<1>11. t.header = header /\ TableOf(t, b, l, r, header, kept)
  BY <1>9, <1>10 DEF Table, TableOf
<1>12. /\ OneRowPerKey(t) /\ \A key : HasRow(t, key) <=> key \in ToSet(kept)
       /\ \A key \in ToSet(kept), col \in ToSet(header) :
             Cell(t, key, col) = MergedCell(b, l, r, key, col)
  BY <1>3, <1>6, <1>8, <1>11, AssembledTable
<1>13. \A key \in TableKeys(b, l, r) : ~RowConflict(b, l, r, key)
  BY <1>5, <1>10
<1>14. \A key \in ToSet(kept), col \in ToSet(header) : ~CellConflict(b, l, r, key, col)
  BY <1>10
<1> QED
  BY <1>7, <1>11, <1>12, <1>13, <1>14

\* Clean merges of CSV files keep the rows and cells that merging each by itself gives,
\* for tables of any size; nothing that was changed in a row goes with it.
THEOREM CsvMergedByCell == Spec => []CsvCellsMerged
<1>1. ASSUME Called, Merged("csv"), base.header # <<>>,
             \A t \in {base, local, remote} : OneRowPerKey(t) /\ KeyedBy(t, base.header[1])
      PROVE  /\ OneRowPerKey(outcome.file)
             /\ \A key \in TableKeys(base, local, remote) :
                   /\ HasRow(outcome.file, key) <=>
                          ThreeWay(HasRow(base, key), HasRow(local, key), HasRow(remote, key))
                   /\ HasRow(outcome.file, key) =>
                          \A col \in ToSet(outcome.file.header) :
                             LET b == Cell(base, key, col)
                                 l == IF HasRow(local, key) THEN Cell(local, key, col) ELSE b
                                 r == IF HasRow(remote, key) THEN Cell(remote, key, col) ELSE b
                             IN  /\ ~Diverge(b, l, r)
                                 /\ Cell(outcome.file, key, col) = ThreeWay(b, l, r)
                   /\ HasRow(base, key) /\ ~HasRow(outcome.file, key) =>
                          \A s \in {local, remote} : HasRow(s, key) =>
                              \A col \in ToSet(base.header) :
                                  Cell(s, key, col) = Cell(base, key, col)
  <2>1. base \in CsvFile /\ local \in CsvFile /\ remote \in CsvFile
    BY <1>1 DEF Called, Contents, Merged
  <2>2. outcome = CsvMerge(base, local, remote) /\ outcome.result = "Merged"
    BY <1>1 DEF Called, MergeBy, Merged
  <2> DEFINE t == outcome.file
  <2>3. /\ OneRowPerKey(t)
        /\ \A key : HasRow(t, key) <=> key \in TableKeys(base, local, remote)
                                         /\ ~RowDeleted(base, local, remote, key)
        /\ \A key \in TableKeys(base, local, remote) : ~RowConflict(base, local, remote, key)
        /\ \A key : \A col \in ToSet(t.header) : HasRow(t, key) =>
              /\ ~CellConflict(base, local, remote, key, col)
              /\ Cell(t, key, col) = MergedCell(base, local, remote, key, col)
    BY <1>1, <2>1, <2>2, CsvMerges
  <2> HIDE DEF t
  <2> SUFFICES ASSUME NEW key \in TableKeys(base, local, remote)
               PROVE  /\ HasRow(t, key) <=>
                             ThreeWay(HasRow(base, key), HasRow(local, key), HasRow(remote, key))
                      /\ HasRow(t, key) =>
                             \A col \in ToSet(t.header) :
                                LET b == Cell(base, key, col)
                                    l == IF HasRow(local, key) THEN Cell(local, key, col) ELSE b
                                    r == IF HasRow(remote, key) THEN Cell(remote, key, col) ELSE b
                                IN  /\ ~Diverge(b, l, r)
                                    /\ Cell(t, key, col) = ThreeWay(b, l, r)
                      /\ HasRow(base, key) /\ ~HasRow(t, key) =>
                             \A s \in {local, remote} : HasRow(s, key) =>
                                 \A col \in ToSet(base.header) :
                                     Cell(s, key, col) = Cell(base, key, col)
    BY <2>3 DEF t
  <2>4. HasRow(base, key) \/ HasRow(local, key) \/ HasRow(remote, key)
    BY <2>1, KeysOfTable DEF TableKeys
  <2>5. HasRow(t, key) <=>
            ThreeWay(HasRow(base, key), HasRow(local, key), HasRow(remote, key))
    <3>1. HasRow(t, key) <=> ~RowDeleted(base, local, remote, key)
      BY <2>3
    <3>2. ASSUME NEW x \in BOOLEAN, NEW y \in BOOLEAN, NEW z \in BOOLEAN, x \/ y \/ z
          PROVE  ~((~y /\ ~z) \/ (x /\ ~(y /\ z))) <=> ThreeWay(x, y, z)
      BY <3>2 DEF ThreeWay
    <3>3. \A s : HasRow(s, key) \in BOOLEAN
      BY DEF HasRow, Contains
    <3>4. ~RowDeleted(base, local, remote, key)
            <=> ThreeWay(HasRow(base, key), HasRow(local, key), HasRow(remote, key))
      BY <2>4, <3>2, <3>3 DEF RowDeleted
    <3> QED
      BY <3>1, <3>4
  <2>6. ASSUME HasRow(t, key), NEW col \in ToSet(t.header), NEW b, NEW l, NEW r,
               b = Cell(base, key, col),
               l = IF HasRow(local, key) THEN Cell(local, key, col) ELSE b,
               r = IF HasRow(remote, key) THEN Cell(remote, key, col) ELSE b
        PROVE  ~Diverge(b, l, r) /\ Cell(t, key, col) = ThreeWay(b, l, r)
    <3>1. /\ ~CellConflict(base, local, remote, key, col)
          /\ Cell(t, key, col) = MergedCell(base, local, remote, key, col)
      BY <2>3, <2>6
    <3>2. /\ CellChanged(base, local, key, col) <=> l # b
          /\ CellChanged(base, remote, key, col) <=> r # b
          /\ CellChanged(base, local, key, col) => Cell(local, key, col) = l
          /\ CellChanged(base, remote, key, col) => Cell(remote, key, col) = r
      BY <2>6 DEF CellChanged
    <3>3. ~Diverge(b, l, r)
      BY <3>1, <3>2 DEF CellConflict, Diverge
    <3>4. MergedCell(base, local, remote, key, col) = ThreeWay(b, l, r)
      BY <2>6, <3>2 DEF MergedCell, ThreeWay
    <3> QED
      BY <3>1, <3>3, <3>4
  <2>7. ASSUME HasRow(base, key), ~HasRow(t, key), NEW s \in {local, remote}, HasRow(s, key),
               NEW col \in ToSet(base.header)
        PROVE  Cell(s, key, col) = Cell(base, key, col)
    <3>1. ~(HasRow(local, key) /\ HasRow(remote, key))
      BY <2>3, <2>7 DEF RowDeleted
    <3>2. rowsEqual(base, s, key)
      BY <2>3, <2>7, <3>1 DEF RowConflict
    <3> QED
      BY <3>2 DEF rowsEqual
  <2> QED
    BY <2>5, <2>6, <2>7
<1>2. Called => CsvCellsMerged
  BY <1>1 DEF CsvCellsMerged, TableKeys
<1> QED
  BY <1>2, OutcomeIsMerge, PTL
=============================================================================
