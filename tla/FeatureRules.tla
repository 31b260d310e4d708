----------------------------- MODULE FeatureRules -----------------------------
(***************************************************************************)
(* The measurements of one frame (app/features): returns, RSI, volatility, *)
(* relative volume, open interest change and funding, of one instrument.   *)
(*                                                                         *)
(* Instants are boundaries of the base timeframe. candles is a partial     *)
(* function from the boundary a candle closes at to [high, low, close,     *)
(* volume]; a series (open interest, funding) is one from the instant      *)
(* observed to [value, stored]. Values are fixed-point, Unit standing for  *)
(* 1; None is "unavailable", never a substitute.                           *)
(***************************************************************************)
EXTENDS Integers, Sequences, FiniteSetsExt, SequencesExt

CONSTANTS
    Period,       \* price changes in a window: 14 in the code
    Lookback,     \* of the returns, the OI changes: one hour, in boundaries
    AvgWindow,    \* of the funding mean: 24 hours, in boundaries
    Unit,         \* fixed-point 1
    BaseDuration, \* of the clock, between two boundaries
    DecisionDelay,
    None

ASSUME WindowAssumption ==
    /\ Period \in Nat \ {0} /\ Lookback \in Nat \ {0} /\ Unit \in Nat \ {0}
    /\ BaseDuration \in Nat \ {0} /\ DecisionDelay \in Nat

DecisionTime(frame) == BaseDuration * frame + DecisionDelay

RequiredCloses == Period + 1

Minus(a, b) == IF a < b THEN 0 ELSE a - b
Magnitude(x) == IF x < 0 THEN 0 - x ELSE x
Total(f(_), S) == MapThenSumSet(f, S)

-----------------------------------------------------------------------------
(* Candle windows.                                                         *)

\* What one range read returns: the candles there are in the bars up to the
\* anchor, oldest first.
FetchWindow(candles, anchor, d) ==
    SetToSortSeq({t \in DOMAIN candles : /\ t <= anchor
                                         /\ t >= anchor - d * (RequiredCloses - 1)
                                         /\ (anchor - t) % d = 0}, <)

ExpectedWindow(anchor, d) ==
    [i \in 1 .. RequiredCloses |-> anchor - d * (RequiredCloses - i)]

\* The verified window, or none at all: a gap or a short history is never
\* bridged or shortened.
VerifiedWindow(candles, anchor, d) ==
    LET found == FetchWindow(candles, anchor, d)
    IN  IF found = ExpectedWindow(anchor, d)
        THEN [i \in DOMAIN found |-> candles[found[i]]] ELSE <<>>

\* Cutler's RSI: plain means over the window's changes.
Rsi(w) ==
    LET gain(i) == Minus(w[i + 1].close, w[i].close)
        loss(i) == Minus(w[i].close, w[i + 1].close)
        gains == Total(gain, 1 .. Period)
        losses == Total(loss, 1 .. Period)
    IN  IF gains = 0 /\ losses = 0 THEN 50 * Unit
        ELSE IF losses = 0 THEN 100 * Unit
        ELSE 100 * Unit - (100 * Unit * losses) \div (gains + losses)

TrueRange(previous, current) ==
    Max({current.high - current.low, Magnitude(current.high - previous.close),
         Magnitude(current.low - previous.close)})

\* Period times the mean true range.
Atr(w) == LET range(i) == TrueRange(w[i], w[i + 1]) IN Total(range, 1 .. Period)

\* The newest volume over the mean of the ones before it.
RelativeVolume(w) ==
    LET volume(i) == w[i].volume
        baseline == Total(volume, 1 .. Period)
    IN  IF baseline <= 0 THEN None
        ELSE (Unit * Period * w[Len(w)].volume) \div baseline

\* A member without a whole window has no value.
RsiFeature(candles, anchor) ==
    LET w == VerifiedWindow(candles, anchor, 1)
    IN  IF w = <<>> THEN None ELSE Rsi(w)

VolatilityFeature(candles, anchor) ==
    LET w == VerifiedWindow(candles, anchor, 1)
    IN  IF w = <<>> \/ candles[anchor].close <= 0 THEN None
        ELSE (Unit * Atr(w)) \div (Period * candles[anchor].close)

RelativeVolumeFeature(candles, anchor) ==
    LET w == VerifiedWindow(candles, anchor, 1)
    IN  IF w = <<>> THEN None ELSE RelativeVolume(w)

\* Against the candle exactly one lookback before the frame's own.
Return(candles, anchor) ==
    LET past == anchor - Lookback
    IN  IF past \notin DOMAIN candles \/ candles[past].close <= 0 THEN None
        ELSE (Unit * candles[anchor].close) \div candles[past].close - Unit

-----------------------------------------------------------------------------
(* Series: bounded by the instant observed and by the instant stored, which *)
(* rows from before it was recorded do not have.                           *)

UsableBy(series, frame, from, to) ==
    {t \in DOMAIN series :
        /\ from <= t /\ t <= to
        /\ series[t].stored # None => series[t].stored <= DecisionTime(frame)}

OiChange(series, frame) ==
    LET usable == UsableBy(series, frame, 0, frame)
        previous == Max(usable) - Lookback
    IN  IF \/ usable = {}
           \/ UsableBy(series, frame, previous, previous) = {}
           \/ series[previous].value <= 0 THEN None
        ELSE (Unit * series[Max(usable)].value) \div series[previous].value - Unit

FundingCurrent(series, frame) ==
    LET usable == UsableBy(series, frame, 0, frame)
    IN  IF usable = {} THEN None ELSE Unit * series[Max(usable)].value

FundingAvg(series, frame) ==
    LET usable == UsableBy(series, frame, frame - AvgWindow, frame)
        rate(t) == series[t].value
    IN  IF usable = {} THEN None
        ELSE (Unit * Total(rate, usable)) \div Cardinality(usable)

-----------------------------------------------------------------------------
Features == {"return", "oi_change", "rsi", "volatility", "relative_volume",
             "funding_rate_current", "funding_rate_avg"}

\* Every feature of one member of a frame. The engine's shared reads return
\* what a read of each feature's own would.
Measure(market, frame) ==
    [f \in Features |->
        CASE f = "return" -> Return(market.candles, frame)
          [] f = "oi_change" -> OiChange(market.oi, frame)
          [] f = "rsi" -> RsiFeature(market.candles, frame)
          [] f = "volatility" -> VolatilityFeature(market.candles, frame)
          [] f = "relative_volume" -> RelativeVolumeFeature(market.candles, frame)
          [] f = "funding_rate_current" -> FundingCurrent(market.funding, frame)
          [] OTHER -> FundingAvg(market.funding, frame)]
=============================================================================
