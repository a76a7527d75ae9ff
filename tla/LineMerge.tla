------------------------------ MODULE LineMerge ------------------------------
(***************************************************************************)
(* The three-way merge of text files, internal/merge/text.go: a file is    *)
(* the sequence of its lines, without the newline that ends the last.      *)
(***************************************************************************)
EXTENDS Naturals, FiniteSets, SequencesExt

(***************************************************************************)
(* lcsIndices: index pairs of a longest common subsequence, read off the   *)
(* table of lengths from its far corner.                                   *)
(***************************************************************************)
lcsLengths(xs, ys) ==
    LET dp[p \in (0 .. Len(xs)) \X (0 .. Len(ys))] ==
            LET i == p[1]
                j == p[2]
            IN  IF i = 0 \/ j = 0 THEN 0
                ELSE IF xs[i] = ys[j] THEN dp[<<i - 1, j - 1>>] + 1
                ELSE Max({dp[<<i - 1, j>>], dp[<<i, j - 1>>]})
    IN  dp

lcsIndices(xs, ys) ==
    LET dp == lcsLengths(xs, ys)
        back[p \in (0 .. Len(xs)) \X (0 .. Len(ys))] ==
            LET i == p[1]
                j == p[2]
            IN  IF i = 0 \/ j = 0 THEN <<>>
                ELSE IF xs[i] = ys[j] THEN Append(back[<<i - 1, j - 1>>], p)
                ELSE IF dp[<<i - 1, j>>] > dp[<<i, j - 1>>] THEN back[<<i - 1, j>>]
                ELSE back[<<i, j - 1>>]
    IN  back[<<Len(xs), Len(ys)>>]

(***************************************************************************)
(* computeEdits: what lies between two matches in a row.  An edit replaces *)
(* the base's lines from + 1 .. to; it inserts when from = to.             *)
(***************************************************************************)
\* Mutant: what comes after the last match is forgotten.
AnchorsNoEnd(base, changed) == <<<<0, 0>>>> \o lcsIndices(base, changed)

Anchors(base, changed) ==
    <<<<0, 0>>>> \o lcsIndices(base, changed) \o <<<<Len(base) + 1, Len(changed) + 1>>>>

computeEdits(base, changed) ==
    LET anchors == Anchors(base, changed)
        gap(k) == [from  |-> anchors[k][1],
                   to    |-> anchors[k + 1][1] - 1,
                   lines |-> SubSeq(changed, anchors[k][2] + 1, anchors[k + 1][2] - 1)]
    IN  {e \in {gap(k) : k \in 1 .. Len(anchors) - 1} : e.from < e.to \/ e.lines # <<>>}

(***************************************************************************)
(* merge3Lines: both sides' edits in the order of the lines where they     *)
(* start.  At most one edit of each side starts at a line, and equal ones  *)
(* coincide.  When an edit starts before the end of the last one, the      *)
(* slice base[pos:emitTo] has its bounds reversed and the program panics.  *)
(***************************************************************************)
Emit(base, acc, start, e) ==
    [acc EXCEPT !.pos = e.to, !.lines = @ \o SubSeq(base, acc.pos + 1, start) \o e.lines]

\* Mutant: an edit that starts inside the last one is applied after it.
ApplyLate(base, edits, acc, start) ==
    LET here == {e \in edits : e.from = start}
    IN  IF Cardinality(here) > 1
        THEN [acc EXCEPT !.pos = Max({e.to : e \in here}), !.result = "HasConflict"]
        ELSE Emit(base, acc, start, CHOOSE e \in here : TRUE)

\* Mutant: where both sides edit, one of them has its way.
ApplyEither(base, edits, acc, start) ==
    IF acc.result = "Panic" \/ start < acc.pos
    THEN [acc EXCEPT !.result = "Panic"]
    ELSE Emit(base, acc, start, CHOOSE e \in edits : e.from = start)

ApplyEdits(base, edits, acc, start) ==
    LET here == {e \in edits : e.from = start}
    IN  IF acc.result = "Panic" \/ start < acc.pos
        THEN [acc EXCEPT !.result = "Panic"]
        ELSE IF Cardinality(here) > 1
        THEN [acc EXCEPT !.pos = Max({e.to : e \in here}), !.result = "HasConflict"]
        ELSE Emit(base, acc, start, CHOOSE e \in here : TRUE)

\* The merge before each line of the base, with the edits that start before it.
ApplyAll(base, edits) ==
    LET before[n \in 0 .. Len(base) + 1] ==
            IF n = 0 THEN [result |-> "Merged", pos |-> 0, lines |-> <<>>]
            ELSE IF \E e \in edits : e.from = n - 1
            THEN ApplyEdits(base, edits, before[n - 1], n - 1)
            ELSE before[n - 1]
        done == before[Len(base) + 1]
    IN  [result |-> done.result,
         file   |-> done.lines \o SubSeq(base, done.pos + 1, Len(base))]

merge3Lines(base, a, b) == ApplyAll(base, computeEdits(base, a) \cup computeEdits(base, b))
=============================================================================
