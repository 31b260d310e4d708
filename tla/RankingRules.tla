----------------------------- MODULE RankingRules -----------------------------
(***************************************************************************)
(* Scoring, qualification and diagnostics of one frame's cross-section     *)
(* (app/ranking). Symbols are numbers in alphabetical order. features is   *)
(* [feature -> [symbol -> value or None]]; a candidate is [id, direction,  *)
(* terms], a term [feature, transform, weight]; a qualification is [id,    *)
(* candidate, direction, completeness, conditions], a condition [id,       *)
(* feature, measure, bound, limit]. Scores are fixed-point: Points for 1.  *)
(***************************************************************************)
EXTENDS FeatureRules

CONSTANTS
    MinCrossSection,  \* instruments a ranking needs: 50 in the code
    TopK,             \* the top of the board: 10 in the code
    Points

ASSUME RankingAssumption ==
    MinCrossSection \in Nat \ {0} /\ TopK \in Nat \ {0} /\ Points \in Nat \ {0}

TermFeatures(candidate) == {candidate.terms[i].feature : i \in DOMAIN candidate.terms}

-----------------------------------------------------------------------------
(* Scoring.                                                                *)

EligibleIndices(features, required) ==
    LET all == UNION {DOMAIN features[f] : f \in required}
    IN  {s \in all : \A f \in required : features[f][s] # None}

\* Twice the median of what v takes on S.
TwiceMedian(v, S) ==
    LET by == SetToSortSeq(S, LAMBDA a, b :
                    v[a] < v[b] \/ (v[a] = v[b] /\ a < b))
        n == Len(by)
    IN  v[by[(n + 1) \div 2]] + v[by[n \div 2 + 1]]

Percentile(v, s) ==
    (Points * Cardinality({u \in DOMAIN v : v[u] <= v[s]}))
        \div Cardinality(DOMAIN v)

\* The distance to the median over 1.4826 MADs; 1.349 is 2 / 1.4826.
RobustZ(v) ==
    LET middle == TwiceMedian(v, DOMAIN v)
        off == [s \in DOMAIN v |-> IF 2 * v[s] < middle THEN middle - 2 * v[s]
                                   ELSE 2 * v[s] - middle]
        spread == TwiceMedian(off, DOMAIN v)       \* four times the MAD
    IN  [s \in DOMAIN v |->
            IF spread = 0 THEN 0
            ELSE (1349 * Points * (2 * v[s] - middle)) \div (1000 * spread)]

Transform(name, v) ==
    CASE name = "identity" -> [s \in DOMAIN v |-> Points * v[s]]
      [] name = "cs_percentile" -> [s \in DOMAIN v |-> Percentile(v, s)]
      [] OTHER -> RobustZ(v)

\* A score is the sum of its terms' contributions.
Scores(candidate, S, features) ==
    LET Part(i) == LET t == candidate.terms[i]
                       v == Transform(t.transform, [s \in S |-> features[t.feature][s]])
                   IN  [s \in S |-> t.weight * v[s]]
    IN  [s \in S |-> LET of(i) == Part(i)[s]
                     IN  MapThenSumSet(of, DOMAIN candidate.terms)]

\* Score descending, ties by symbol.
Order(scores) ==
    SetToSortSeq(DOMAIN scores, LAMBDA a, b :
        \/ scores[a] > scores[b]
        \/ scores[a] = scores[b] /\ a < b)

-----------------------------------------------------------------------------
(* Diagnostics.                                                            *)

\* How far the top stands from the rest, and how crowded it is.
Separation(scores, order) ==
    LET top == scores[order[1]]
        spread == top - scores[order[Len(order)]]
    IN  [lead |-> IF Len(order) < 2 THEN None ELSE top - scores[order[2]],
         spread |-> spread,
         nearTop |-> Cardinality({s \in DOMAIN scores :
                                    10 * (top - scores[s]) <= spread})]

Top(order) == {order[i] : i \in 1 .. Len(order)} \ {order[i] : i \in TopK + 1 .. Len(order)}
RankIn(order, s) == CHOOSE i \in DOMAIN order : order[i] = s

\* Spearman's rho over the instruments ranked in both, as a fraction.
RankCorrelation(current, previous) ==
    LET common == Range(current) \cap Range(previous)
        m == Cardinality(common)
        In(s) == s \in common
        now == SelectSeq(current, In)
        before == SelectSeq(previous, In)
        square(s) == (RankIn(now, s) - RankIn(before, s))
                        * (RankIn(now, s) - RankIn(before, s))
        span == m * (m * m - 1)
    IN  IF m < 3 THEN None
        ELSE <<span - 6 * MapThenSumSet(square, common), span>>

Stability(current, previous) ==
    [overlap |-> Cardinality(Top(current) \cap Top(previous)),
     entered |-> Top(current) \ Top(previous),
     left |-> Top(previous) \ Top(current),
     moved |-> [s \in Top(current) |->
                    IF s \in Range(previous)
                    THEN RankIn(previous, s) - RankIn(current, s) ELSE None],
     correlation |-> RankCorrelation(current, previous)]

-----------------------------------------------------------------------------
(* Qualification.                                                          *)

Passes(condition, observed) ==
    IF condition.bound = "at_most" THEN observed <= condition.limit
    ELSE observed >= condition.limit

\* The value a condition looks at; a percentile is over the ranked
\* instruments that have a value.
Observed(condition, ranked, features, s) ==
    LET known == condition.feature \in DOMAIN features
        v == [u \in ranked |-> IF known THEN features[condition.feature][u] ELSE None]
        finite == {u \in ranked : v[u] # None}
    IN  IF v[s] = None THEN None
        ELSE IF condition.measure = "value" THEN v[s]
        ELSE Percentile([u \in finite |-> v[u]], s)

\* A missing input fails its condition, as "missing".
Outcome(condition, ranked, features, s) ==
    LET seen == Observed(condition, ranked, features, s)
    IN  IF seen = None THEN "missing"
        ELSE IF Passes(condition, seen) THEN "passed" ELSE "failed"

Evaluate(spec, ranked, features) ==
    [s \in ranked |-> [i \in DOMAIN spec.conditions |->
                          Outcome(spec.conditions[i], ranked, features, s)]]

Qualified(checks) == \A i \in DOMAIN checks : checks[i] = "passed"
=============================================================================
