---------------------------- MODULE MCLiveRankings ----------------------------
(***************************************************************************)
(* LiveRankings for TLC: three instruments, two frames, windows of two     *)
(* price changes, a board whose top is two.                                *)
(***************************************************************************)
EXTENDS LiveRankings

\* The trend differs by instrument, and so does the volume. Instrument 1 is
\* listed at 2, so it has no whole window at frame 3; instrument 2 has no
\* candle at 4.
Gap == <<1, 4, 7>>
Bar(s, t) == [high |-> 10 + s * t, low |-> 9, close |-> 10 + ((s * t) % 4),
                 volume |-> 1 + ((s + t) % 3)]

MCSymbols == 1 .. 3
MCMarkets ==
    [s \in MCSymbols |->
        [candles |-> [t \in (1 .. 5) \ {Gap[s]} |-> Bar(s, t)],
         oi |-> [t \in 2 .. 5 |-> [value |-> 10 + s * t,
                                   stored |-> IF s = 1 THEN BaseDuration * t + 4 ELSE None]],
         funding |-> [t \in {1, 4} |-> [value |-> s - 2, stored |-> None]]]]

Term(feature, transform, weight) ==
    [feature |-> feature, transform |-> transform, weight |-> weight]
Candidate(id, direction, terms) == [id |-> id, direction |-> direction, terms |-> terms]
Condition(id, feature, measure, bound, limit) ==
    [id |-> id, feature |-> feature, measure |-> measure, bound |-> bound, limit |-> limit]
Qualification(id, candidate, direction, conditions) ==
    [id |-> id, candidate |-> candidate, direction |-> direction, completeness |-> 60,
     conditions |-> conditions]

MCConfigured == [d \in {"long", "short"} |-> [candidate |-> d, qualification |-> d]]

MCCandidates ==
    "momentum" :> Candidate("long", "long", <<Term("return", "cs_percentile", 1),
                                 Term("relative_volume", "cs_percentile", 1)>>)
    @@ "trend" :> Candidate("long", "long", <<Term("rsi", "robust_z", 1),
                                 Term("volatility", "robust_z", 0 - 1)>>)
    @@ "reversal" :> Candidate("short", "short", <<Term("return", "cs_percentile", 0 - 1)>>)

MCQualifications ==
    "strong" :> Qualification("long", "long", "long",
                    <<Condition("top", "return", "percentile", "at_least", 60)>>)
    @@ "weak" :> Qualification("short", "short", "short",
                    <<Condition("low", "return", "percentile", "at_most", 40),
                      Condition("oi", "oi_change", "value", "at_least", 0)>>)
    @@ "crowded" :> Qualification("short", "short", "short",
                    <<Condition("funding", "funding_rate_current", "value", "at_least", 0)>>)

\* Then with another Long candidate, another Short qualification and no Short
\* candidate.
MCFiles ==
    <<[long |-> [candidate |-> "momentum", qualification |-> "strong"],
       short |-> [candidate |-> "reversal", qualification |-> "weak"]],
      [long |-> [candidate |-> "trend", qualification |-> "strong"],
       short |-> [candidate |-> None, qualification |-> "crowded"]]>>
=============================================================================
