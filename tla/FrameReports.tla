----------------------------- MODULE FrameReports -----------------------------
(***************************************************************************)
(* What four reads say of the same frames: the missed frames of MARKET,    *)
(* Sniffer's unanalyzed count, and the coverage and the recent continuity  *)
(* of the research data health.                                            *)
(*                                                                         *)
(* rows is [boundary -> row], for the boundaries with a header: a row is   *)
(* [status, expected, available, analysis], analysis being None, "v1" or   *)
(* "v2". Boundaries and now are instants of the clock.                     *)
(***************************************************************************)
EXTENDS Integers, FiniteSets, FiniteSetsExt, Sequences

CONSTANTS
    BaseDuration, DecisionDelay, None,
    Allowance,   \* a frame should have finalized this long after its boundary
    RecentWindow,\* how far back the recent reads look: 24 hours
    SlotsPerDay

FloorToBoundary(t) == (t \div BaseDuration) * BaseDuration
CeilToBoundary(t) == FloorToBoundary(t + BaseDuration - 1)
LastDue(now) == FloorToBoundary(now - Allowance)
Grid(from, to) == {t \in from .. to : t % BaseDuration = 0}
\* A mutant that forgets the decision time.
AnalysisDueAtOnce(now) == now - Allowance

\* Until when a finalized frame may wait for its analysis.
AnalysisDue(now) == now - DecisionDelay - Allowance

\* Boundaries of the last day that have no frame at all.
MissedFrames(rows, now) ==
    IF DOMAIN rows = {} THEN [expected |-> 0, missed |-> 0]
    ELSE LET first == Min(DOMAIN rows)
             start == Max({now - RecentWindow, first})
             expected == Grid(CeilToBoundary(start), LastDue(now))
         IN  [expected |-> Cardinality(expected),
              missed |-> Cardinality(expected \ DOMAIN rows)]

Finalized(row) == row.status # "building"

\* Sniffer's status: finalized frames with members and no result.
UnanalyzedFrames(rows, since, until) ==
    {t \in DOMAIN rows : /\ since <= t /\ t <= until
                         /\ Finalized(rows[t])
                         /\ rows[t].available > 0
                         /\ rows[t].analysis = None}

SlotClass(rows, t) ==
    IF t \notin DOMAIN rows THEN "missing"
    ELSE IF ~Finalized(rows[t]) THEN "building"
    ELSE IF rows[t].available >= rows[t].expected THEN "complete" ELSE "partial"

\* Unknown: older than the oldest results kept.
AnalysisClass(rows, t, resultsFrom) ==
    IF SlotClass(rows, t) \notin {"complete", "partial"} \/ rows[t].available = 0
    THEN "none"
    ELSE IF rows[t].analysis # None THEN "analyzed"
    ELSE IF resultsFrom = None \/ t < resultsFrom THEN "analysis_unknown"
    ELSE "unanalyzed"

\* Maximal runs of slots that are all covered, or all not.
Intervals(slots, covered) ==
    {r \in slots \X slots :
        /\ r[1] <= r[2]
        /\ \A t \in slots : r[1] <= t /\ t <= r[2] => (t \in covered) = (r[1] \in covered)
        /\ \A t \in slots : t \in {r[1] - BaseDuration, r[2] + BaseDuration}
                                => (t \in covered) # (r[1] \in covered)}

\* The coverage of the grid since the first frame, by day and in total.
FrameCoverage(rows, now, resultsFrom) ==
    LET due == {t \in DOMAIN rows : t <= LastDue(now)}
        slots == IF due = {} THEN {} ELSE Grid(Min(due), LastDue(now))
        class == [t \in slots |-> SlotClass(rows, t)]
        kind == [t \in slots |-> AnalysisClass(rows, t, resultsFrom)]
        covered == {t \in slots : class[t] \in {"complete", "partial"}}
        day(t) == t \div (SlotsPerDay * BaseDuration)
        Count(S, f, value) == Cardinality({t \in S : f[t] = value})
        Sum(S) == [expected |-> Cardinality(S),
                   finalized |-> Cardinality(S \cap covered),
                   missing |-> Count(S, class, "missing"),
                   building |-> Count(S, class, "building"),
                   analyzed |-> Count(S, kind, "analyzed"),
                   unanalyzed |-> Count(S, kind, "unanalyzed"),
                   unknown |-> Count(S, kind, "analysis_unknown")]
    IN  [total |-> Sum(slots),
         daily |-> [d \in {day(t) : t \in slots} |-> Sum({t \in slots : day(t) = d})],
         intervals |-> Intervals(slots, covered)]

\* The last day's collection and analysis; a frame still inside its normal
\* analysis window is pending.
RecentContinuity(rows, now) ==
    LET start == Max({CeilToBoundary(now - RecentWindow), Min(DOMAIN rows)})
        slots == Grid(start, LastDue(now))
        finalized == {t \in slots \cap DOMAIN rows : Finalized(rows[t])}
        members == {t \in finalized : rows[t].available > 0}
        analyzed == {t \in members : rows[t].analysis # None}
        pending == {t \in members \ analyzed : t > AnalysisDue(now)}
    IN  [expected |-> Cardinality(slots),
         missing |-> Cardinality(slots \ finalized),
         building |-> Cardinality((slots \cap DOMAIN rows) \ finalized),
         analyzed |-> Cardinality(analyzed),
         pending |-> Cardinality(pending),
         eligible |-> Cardinality(members \ pending)]
=============================================================================
