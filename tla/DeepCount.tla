------------------------------ MODULE DeepCount ------------------------------
(***************************************************************************)
(* ai_advisor/deep_count.py, count_at_deviation: the automatic count of a  *)
(* whole pivot series, and analyst_tools.coverage_of, the measure of how   *)
(* much of the chart a set of structures labels.  A placed structure is    *)
(* [structure, from, to, legs, score] with from and to positions of        *)
(* pivots; the time of a pivot is its `at`.                                *)
(***************************************************************************)
EXTENDS WaveRules, FiniteSets, SequencesExt

\* _CANDIDATES, in the order they are tried.
CandidateOrder == <<"impulse", "contracting", "expanding", "triangle", "zigzag", "flat">>
LegsWanted(structure) == IF structure \in Structures THEN 5 ELSE LegsOf(structure)

\* _legs: consecutive pivots; every wave ends where the next one begins.
Consecutive(i, n) == [k \in 1..n + 1 |-> i + k - 1]
DirectionAt(ps, i) == -ps[i].kind

\* _try: n waves from pivot i fit into the series and the rules accept them.
Fits(ps, i, structure, n) ==
    /\ i + n <= Len(ps)
    /\ LET p == Consecutive(i, n)
           cutoff == Last(ps).confirmed
       IN  IF structure \in Structures
           THEN MotiveAccepted(ps, p, DirectionAt(ps, i), structure, cutoff)
           ELSE CorrectionAccepted(ps, p, structure, cutoff)

LabelsFor(structure) == IF structure \in Structures THEN Motive ELSE Abc \o <<"D", "E">>
WavesFrom(ps, i, structure, n) == Waves(Points(ps, Consecutive(i, n)), LabelsFor(structure), n)

\* _STRUCTURE_WEIGHT, _FIB_WEIGHT and _FLATNESS_WEIGHT, in thousandths.
Weight == [impulse |-> 2200, contracting |-> 1900, expanding |-> 1800,
           zigzag |-> 1000, triangle |-> 900, flat |-> 700]
Travelled(ws) == Length(ws[1]) + Length(ws[2]) + Length(ws[3])   \* of a flat
Flatness(ws) ==
    LET net == Abs(Last(ws).end - ws[1].start)
    IN  200 - (200 * Least(net, Travelled(ws))) \div Travelled(ws)

\* Faulty variant: proportion weighs as much as the rules.
ScoreByProportion(structure, ws) == Weight[structure] + 3 * FibScore(ws)

\* _score_candidate
Score(structure, ws) ==
    Weight[structure] + FibScore(ws) \div 2
    + (IF structure = "flat" /\ Travelled(ws) > 0 THEN Flatness(ws) ELSE 0)

\* What the rules accept at pivot i, with its score; ties go to the first.
LegalAt(ps, i) ==
    {[structure |-> CandidateOrder[c], from |-> i, to |-> i + LegsWanted(CandidateOrder[c]),
      score |-> Score(CandidateOrder[c], WavesFrom(ps, i, CandidateOrder[c], LegsWanted(CandidateOrder[c]))),
      rank |-> c]
     : c \in {c \in 1..6 : Fits(ps, i, CandidateOrder[c], LegsWanted(CandidateOrder[c]))}}
Beats(s, t) == s.score > t.score \/ (s.score = t.score /\ s.rank < t.rank)
BestAt(ps, i) == CHOOSE s \in LegalAt(ps, i) : \A t \in LegalAt(ps, i) \ {s} : Beats(s, t)

\* The walk of count_at_deviation: what is placed from pivot i on, and where it ends.
NothingFrom(i) == [placed |-> <<>>, end |-> i]
WalkFrom(ps) ==
    LET walk[i \in 1..Len(ps)] ==
        IF i + 3 > Len(ps) THEN NothingFrom(i)
        ELSE IF LegalAt(ps, i) = {} THEN walk[i + 1]
        ELSE LET best == BestAt(ps, i)
                 rest == walk[best.to]
             IN  [placed |-> <<best>> \o rest.placed, end |-> rest.end]
    IN  walk

\* _fit_tail: the incomplete motive wave that runs up to now, longest first.
FittedTail(ps, i) ==
    LET lengths == {n \in 1..4 : \E t \in {"impulse", "contracting"} : Fits(ps, i, t, n)}
        longest == CHOOSE n \in lengths : \A m \in lengths : m <= n
    IN  IF lengths = {} THEN <<>>
        ELSE <<[structure |-> IF Fits(ps, i, "impulse", longest) THEN "impulse" ELSE "contracting",
                from |-> i, to |-> i + longest]>>

CountOf(ps, minPivots) ==
    LET walked == WalkFrom(ps)[1]
    IN  IF Len(ps) < minPivots THEN [placed |-> <<>>, developing |-> <<>>]
        ELSE [placed |-> walked.placed, developing |-> FittedTail(ps, walked.end)]
-----------------------------------------------------------------------------
(* coverage_of: spans are <<start, end>> in time, in any order and number. *)

\* Faulty variant: of two spans that overlap the later one ends the stretch.
MergeByLast(merged, s) ==
    IF merged # <<>> /\ s[1] <= Last(merged)[2]
    THEN Append(Front(merged), <<Last(merged)[1], s[2]>>)
    ELSE Append(merged, s)

\* Sorted by start, then by end, and merged where they touch.
Earlier(s, t) == s[1] < t[1] \/ (s[1] = t[1] /\ s[2] < t[2])
SortedSpans(spans) ==
    [k \in 1..Cardinality(spans) |->
        CHOOSE s \in spans : Cardinality({t \in spans : Earlier(t, s)}) = k - 1]
MergeSpan(merged, s) ==
    IF merged # <<>> /\ s[1] <= Last(merged)[2]
    THEN Append(Front(merged), <<Last(merged)[1], IF s[2] > Last(merged)[2] THEN s[2] ELSE Last(merged)[2]>>)
    ELSE Append(merged, s)

MergedSpans(spans) ==
    LET sorted == SortedSpans(spans)
        merged[n \in 0..Len(sorted)] ==
            IF n = 0 THEN <<>> ELSE MergeSpan(merged[n - 1], sorted[n])
    IN  merged[Len(sorted)]
Covered(spans) ==
    LET merged == MergedSpans(spans)
        sum[n \in 0..Len(merged)] ==
            IF n = 0 THEN 0 ELSE sum[n - 1] + (merged[n][2] - merged[n][1])
    IN  sum[Len(merged)]

\* The stretches between merged spans that are wider than a twentieth of the chart.
Gaps(spans, first, last) ==
    LET merged == MergedSpans(spans)
        edges == <<<<first, first>>>> \o merged \o <<<<last, last>>>>
    IN  {<<edges[k][2], edges[k + 1][1]>> : k \in
            {k \in 1..Len(edges) - 1 : 20 * (edges[k + 1][1] - edges[k][2]) > last - first}}
=============================================================================
