------------------------------ MODULE WaveRules ------------------------------
(***************************************************************************)
(* elliott_engine/: rules_impulse.py, rules_diagonal.py,                   *)
(* rules_correction.py, build_candidate_waves and the scores of            *)
(* scenario.py, and external_count.py, as operators on sequences of        *)
(* pivots.  A pivot is [at, price, kind, confirmed] with kind 1 for a HIGH *)
(* and -1 for a LOW; a direction is 1 (UP) or -1 (DOWN), so that every     *)
(* rule is written once and mirrored by multiplying with the direction.    *)
(***************************************************************************)
EXTENDS Integers, Sequences

Structures == {"impulse", "contracting", "expanding"}
Motive == <<"1", "2", "3", "4", "5">>
Abc == <<"A", "B", "C">>
Canonical == Motive \o Abc

Abs(n) == IF n < 0 THEN -n ELSE n
Least(a, b) == IF a <= b THEN a ELSE b

\* _make_wave
MakeWave(label, start, end) ==
    [label |-> label, from |-> start.at, to |-> end.at,
     start |-> start.price, end |-> end.price]
Length(w) == Abs(w.end - w.start)
-----------------------------------------------------------------------------
(* The hard rules.                                                         *)

\* check_wave2_rule
Wave2Holds(ws, d) == d * ws[2].end > d * ws[1].start

\* check_wave3_not_shortest: min keeps the first of equal lengths.
Wave3Holds(ws) ==
    Len(ws) < 5 \/ Length(ws[3]) >= Length(ws[1]) \/ Length(ws[3]) > Length(ws[5])

\* check_wave4_overlap: the near end of wave 4 against the far end of wave 1.
Near(w, d) == IF d * w.start <= d * w.end THEN w.start ELSE w.end
Far(w, d) == IF d * w.start <= d * w.end THEN w.end ELSE w.start
Wave4Holds(ws, d) == d * Near(ws[4], d) > d * Far(ws[1], d)

ImpulseHolds(ws, d) == Wave2Holds(ws, d) /\ Wave3Holds(ws) /\ Wave4Holds(ws, d)

\* check_diagonal_shape
Shrinks(ws) == Length(ws[3]) < Length(ws[1]) /\ (Len(ws) < 5 \/ Length(ws[5]) < Length(ws[3]))
Grows(ws) == Length(ws[3]) > Length(ws[1]) /\ (Len(ws) < 5 \/ Length(ws[5]) > Length(ws[3]))

DiagonalHolds(ws, d, structure) ==
    Wave2Holds(ws, d) /\ (IF structure = "expanding" THEN Grows(ws) ELSE Shrinks(ws))

\* Faulty variant: a failed impulse is kept as a diagonal.
RulesRescued(ws, d, structure) == ImpulseHolds(ws, d) \/ DiagonalHolds(ws, d, "contracting")

RulesHold(ws, d, structure) ==
    IF structure = "impulse" THEN ImpulseHolds(ws, d) ELSE DiagonalHolds(ws, d, structure)
-----------------------------------------------------------------------------
(* build_candidate_waves: waves are added until a rule breaks; the rules   *)
(* are asked at the fourth and at the fifth wave, and A-B-C follows only a *)
(* motive that has passed them.                                            *)

Waves(points, labels, n) == [i \in 1..n |-> MakeWave(labels[i], points[i], points[i + 1])]

\* Faulty variant: the fifth wave is not held to the rules.
BuildToFour(points, d, labels, structure) ==
    LET n == Least(Len(points) - 1, Len(labels))
        broken == n >= 4 /\ ~RulesHold(Waves(points, labels, 4), d, structure)
    IN  [waves |-> Waves(points, labels, IF broken THEN 4 ELSE n), broken |-> broken]

Build(points, d, labels, structure) ==
    LET n == Least(Len(points) - 1, Len(labels))
        breaksAt(k) == n >= k /\ ~RulesHold(Waves(points, labels, k), d, structure)
        last == IF breaksAt(4) THEN 4 ELSE IF breaksAt(5) THEN 5 ELSE n
    IN  [waves |-> Waves(points, labels, last), broken |-> breaksAt(4) \/ breaksAt(5)]

\* _retrace_fraction of a flat, as a length.
BackOfA(a, b) == Abs(b.end - a.end)
-----------------------------------------------------------------------------
(* score_fibonacci and _weighted_score, in thousandths, rounded down.      *)

Wave2Ratios == {382, 500, 618, 786, 886}
Wave4Ratios == {236, 382, 500}

\* nearest_ratio_score: how close the retracement of `leg` by `back` is to a ratio.
Closest(leg, back, ratios) ==
    LET off(r) == Abs(1000 * Length(back) - r * Length(leg))
    IN  off(CHOOSE r \in ratios : \A q \in ratios : off(r) <= off(q))
Tolerance == 60
NearestRatioScore(leg, back, ratios) ==
    IF Length(leg) = 0 \/ Closest(leg, back, ratios) >= Tolerance * Length(leg) THEN 0
    ELSE 1000 - (1000 * Closest(leg, back, ratios)) \div (Tolerance * Length(leg))

\* Waves 2 and 4 are looked up by their labels; a correction has none.
FibScore(ws) ==
    LET two == NearestRatioScore(ws[1], ws[2], Wave2Ratios)
        four == NearestRatioScore(ws[3], ws[4], Wave4Ratios)
    IN  IF Len(ws) < 2 \/ ws[1].label # "1" THEN 500
        ELSE IF Len(ws) < 4 THEN two ELSE (two + four) \div 2

Validity(ws) == Least(1000, 500 + 100 * Len(ws))

\* The other scores are never set (set_external_scores has no caller): 0.5 each.
Probability(ws) == 300 * Validity(ws) + 150 * FibScore(ws) + 550 * 500
-----------------------------------------------------------------------------
(* external_count.py: a count proposed by a model, as positions of pivots. *)

LegsOf(structure) == IF structure = "triangle" THEN 5 ELSE 3

\* _structural_checks of a continuous count (positions p[1] < p[2] < ...).
StructurallySound(pivots, p, cutoff) ==
    /\ \A i \in DOMAIN p : p[i] \in DOMAIN pivots /\ pivots[p[i]].confirmed <= cutoff
    /\ \A i \in 1..Len(p) - 1 : p[i] < p[i + 1] /\ pivots[p[i]].kind # pivots[p[i + 1]].kind

Points(pivots, p) == [i \in DOMAIN p |-> pivots[p[i]]]

\* validate_external_count; a result is valid when no rule is broken.
MotiveAccepted(pivots, p, d, structure, cutoff) ==
    /\ Len(p) - 1 \in 1..Len(Canonical)
    /\ StructurallySound(pivots, p, cutoff) /\ pivots[p[1]].kind = -d
    /\ ~Build(Points(pivots, p), d, Canonical, structure).broken

\* _check_zigzag, _check_flat, _check_triangle.  d is the direction of wave A.
ZigzagHolds(ws, d) == d * ws[2].end >= d * ws[1].start /\ d * ws[3].end > d * ws[1].end
FlatHolds(ws) == Length(ws[1]) > 0 /\ 1000 * BackOfA(ws[1], ws[2]) >= 618 * Length(ws[1])
TriangleHolds(ws) ==
    /\ \A i \in 1..5 : Length(ws[i]) > 0
    /\ \/ \A i \in 1..3 : Length(ws[i + 2]) < Length(ws[i])
       \/ \A i \in 1..3 : Length(ws[i + 2]) > Length(ws[i])
PatternHolds(ws, d, structure) ==
    CASE structure = "zigzag" -> ZigzagHolds(ws, d)
      [] structure = "flat" -> FlatHolds(ws)
      [] structure = "triangle" -> TriangleHolds(ws)

\* validate_external_structure of a correction: complete, and its pattern holds.
CorrectionAccepted(pivots, p, structure, cutoff) ==
    /\ Len(p) - 1 = LegsOf(structure)
    /\ StructurallySound(pivots, p, cutoff)
    /\ LET ws == Waves(Points(pivots, p), Abc \o <<"D", "E">>, LegsOf(structure))
       IN  PatternHolds(ws, -pivots[p[1]].kind, structure)
=============================================================================
