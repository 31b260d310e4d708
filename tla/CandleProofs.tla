----------------------------- MODULE CandleProofs -----------------------------
(***************************************************************************)
(* The candles of one instrument, in two parts.                             *)
(*                                                                         *)
(* Two ingestions may overlap in any way: no partial aggregate is stored,   *)
(* and no complete window is left without one. As long as they do not       *)
(* overlap, the aggregates also follow every correction.                    *)
(*                                                                         *)
(* Both frontiers of the history reconciler only move over ground that is   *)
(* stored, whatever the collector stores meanwhile, the exchange withholds, *)
(* and wherever a call or the process fails.                                *)
(***************************************************************************)
EXTENDS CandleHistory, MCCandleIngestion, FiniteSetTheorems, WellFoundedInduction, TLAPS

(* floor_to_boundary and _ceil_to_boundary: a batch touches every aligned   *)
(* window it has a slot of.                                                 *)

LEMMA Quotient ==
  ASSUME NEW d \in Nat \ {0}, NEW s \in Nat
  PROVE  s % d \in 0..d - 1 /\ s \div d \in Nat /\ s = d * (s \div d) + (s % d)
OBVIOUS

LEMMA MultiplesApart ==
  ASSUME NEW d \in Nat \ {0}, NEW p \in Nat, NEW q \in Nat, d * p < d * q + d
  PROVE  d * p <= d * q
<1>1. p <= q
  OBVIOUS
<1> QED BY <1>1

LEMMA WindowIsTouched ==
  ASSUME NEW d \in Nat \ {0}, NEW x \in Nat, x % d = 0,
         NEW s \in Nat, x <= s, s < x + d,
         NEW lo \in Nat, NEW hi \in Nat, lo <= s, s <= hi
  PROVE  Floor(lo, d) <= x /\ x < Ceil(hi + 1, d)
<1>1. x = d * (x \div d) /\ x \div d \in Nat
  BY Quotient
<1>2. Floor(lo, d) = d * (lo \div d) /\ lo \div d \in Nat /\ Floor(lo, d) <= lo
  <2>1. /\ lo % d \in 0..d - 1 /\ lo \div d \in Nat
        /\ lo = d * (lo \div d) + (lo % d)
    BY Quotient
  <2>2. d * (lo \div d) \in Nat
    BY <2>1
  <2> QED BY <2>1, <2>2 DEF Floor
<1>3. d * (lo \div d) < d * (x \div d) + d
  BY <1>1, <1>2
<1>4. d * (lo \div d) <= d * (x \div d)
  BY <1>1, <1>2, <1>3, MultiplesApart
<1>5. hi + 1 <= Ceil(hi + 1, d)
  <2>1. hi + 1 \in Nat
    OBVIOUS
  <2>2. (hi + 1) % d \in 0..d - 1
    BY <2>1, Quotient
  <2> QED BY <2>2 DEF Ceil, Floor
<1>6. Ceil(hi + 1, d) \in Int
  <2>1. hi + 1 \in Nat
    OBVIOUS
  <2>2. (hi + 1) % d \in 0..d - 1
    BY <2>1, Quotient
  <2> QED BY <2>2 DEF Ceil, Floor
<1> QED BY <1>1, <1>2, <1>4, <1>5, <1>6

-----------------------------------------------------------------------------
LEMMA WindowFacts ==
  ASSUME NEW w \in Windows
  PROVE  /\ w.length \in Nat \ {0, 1} /\ w.length \in Durations
         /\ w.start \in Slots /\ w.start \in Nat
         /\ w.start % w.length = 0
         /\ w.start \in Span(w)
         /\ Span(w) \subseteq Slots
<1>1. /\ w.length \in Nat \ {0, 1} /\ w.length \in Durations
      /\ w.start \in 0..NumSlots - 1
      /\ w.start % w.length = 0 /\ w.start + w.length <= NumSlots
  BY IngestionAssumption DEF Windows, Slots
<1> QED BY <1>1, IngestionAssumption DEF Span, Slots

LEMMA IngestTypeInit == Init => TypeOK
<1> SUFFICES ASSUME Init PROVE TypeOK
  OBVIOUS
<1> USE IngestionAssumption DEF Init
<1>1. base \in [Slots -> Versions \cup {0}]
  OBVIOUS
<1>2. derived \in [Windows -> Aggregates \cup {Absent}]
  OBVIOUS
<1>3. touched \in [Writers -> [from : Slots, until : 0..NumSlots]]
  BY DEF Slots
<1>4. \A a \in Writers : DOMAIN found[a] = {}
  OBVIOUS
<1> QED BY <1>1, <1>2, <1>3, <1>4 DEF TypeOK

LEMMA IngestTypeStep == TypeOK /\ [Next]_ingestVars => TypeOK'
<1> SUFFICES ASSUME TypeOK, [Next]_ingestVars PROVE TypeOK'
  OBVIOUS
<1> USE DEF TypeOK
<1>1. ASSUME NEW a \in Writers, NEW batch \in Batches(a), IngestBase(a, batch)
      PROVE  TypeOK'
  <2>1. batch \in [DOMAIN batch -> Versions] /\ DOMAIN batch \subseteq Slots
    BY DEF Batches
  <2>2. base' \in [Slots -> Versions \cup {0}]
    BY <1>1, <2>1 DEF IngestBase
  <2>3. touched' \in [Writers -> [from : Slots, until : 0..NumSlots]]
    BY <1>1, <2>1, IngestionAssumption DEF IngestBase, Slots
  <2> QED BY <1>1, <2>2, <2>3 DEF IngestBase
<1>2. ASSUME NEW a \in Writers, ReadWindows(a)
      PROVE  TypeOK'
  <2>1. PICK d \in todo[a] :
          found' = [found EXCEPT ![a] =
                      [w \in {x \in TouchedWindows(a, d) : Complete(x)} |-> Aggregate(w)]]
          /\ todo' = [todo EXCEPT ![a] = @ \ {d}]
    BY <1>2 DEF ReadWindows
  <2>2. \A w \in Windows : Complete(w) => Aggregate(w) \in [Span(w) -> Versions]
    BY WindowFacts DEF Complete, Aggregate
  <2>3. TouchedWindows(a, d) \subseteq Windows
    BY DEF TouchedWindows
  <2>4. \A b \in Writers : DOMAIN found'[b] \subseteq Windows
    BY <2>1, <2>3
  <2>5. \A b \in Writers : \A w \in DOMAIN found'[b] : found'[b][w] \in [Span(w) -> Versions]
    BY <2>1, <2>2, <2>3
  <2> QED BY <1>2, <2>1, <2>4, <2>5 DEF ReadWindows, candles
<1>3. ASSUME NEW a \in Writers, StoreWindows(a)
      PROVE  TypeOK'
  <2>1. \A w \in DOMAIN found[a] : found[a][w] \in Aggregates
    BY DEF Aggregates
  <2>2. derived' \in [Windows -> Aggregates \cup {Absent}]
    BY <1>3, <2>1 DEF StoreWindows
  <2>3. touched' \in [Writers -> [from : Slots, until : 0..NumSlots]]
    BY <1>3, IngestionAssumption DEF StoreWindows, Slots
  <2>4. \A b \in Writers : DOMAIN found'[b] \subseteq DOMAIN found[b]
    BY <1>3 DEF StoreWindows
  <2>5. \A b \in Writers : \A w \in DOMAIN found'[b] : found'[b][w] = found[b][w]
    BY <1>3 DEF StoreWindows
  <2>6. \A b \in Writers : \A w \in DOMAIN found'[b] : found'[b][w] \in [Span(w) -> Versions]
    BY <2>4, <2>5
  <2>7. step' \in [Writers -> {"idle", "read", "store"}]
    BY <1>3 DEF StoreWindows
  <2> QED BY <1>3, <2>2, <2>3, <2>4, <2>6, <2>7 DEF StoreWindows
<1>4. ASSUME NEW a \in Writers, Abandon(a)
      PROVE  TypeOK'
  <2>1. touched' \in [Writers -> [from : Slots, until : 0..NumSlots]]
    BY <1>4, IngestionAssumption DEF Abandon, Slots
  <2>2. \A b \in Writers : DOMAIN found'[b] \subseteq DOMAIN found[b]
    BY <1>4 DEF Abandon
  <2>3. \A b \in Writers : \A w \in DOMAIN found'[b] : found'[b][w] = found[b][w]
    BY <1>4 DEF Abandon
  <2>4. \A b \in Writers : \A w \in DOMAIN found'[b] : found'[b][w] \in [Span(w) -> Versions]
    BY <2>2, <2>3
  <2>5. failures' \in 0..MaxFailures
    BY <1>4, IngestionAssumption DEF Abandon
  <2> QED BY <1>4, <2>1, <2>2, <2>4, <2>5 DEF Abandon, candles
<1>5. CASE UNCHANGED ingestVars
  BY <1>5 DEF ingestVars, candles, jobs
<1> QED BY <1>1, <1>2, <1>3, <1>4, <1>5 DEF Next, Derive

(* The type invariant: every reachable state is well typed.                 *)
THEOREM IngestionTypeCorrect == Spec => []TypeOK
BY IngestTypeInit, IngestTypeStep, PTL DEF Spec

-----------------------------------------------------------------------------
(* Non-empty aggregates differ from Absent.                                *)
LEMMA AggregateNotAbsent ==
  ASSUME NEW w \in Windows, NEW g \in [Span(w) -> Versions]
  PROVE  g # Absent
<1>1. w.start \in DOMAIN g
  BY WindowFacts
<1>2. DOMAIN Absent = {}
  BY DEF Absent
<1> QED BY <1>1, <1>2

(* What is stored of a slot stays stored.                                  *)
LEMMA SlotStaysStored ==
  ASSUME TypeOK, [Next]_ingestVars, NEW s \in Slots, base[s] # 0
  PROVE  base'[s] # 0
<1>1. ASSUME NEW a \in Writers, NEW batch \in Batches(a), IngestBase(a, batch)
      PROVE  base'[s] # 0
  <2>1. batch \in [DOMAIN batch -> Versions]
    BY DEF Batches
  <2> QED BY <1>1, <2>1, IngestionAssumption DEF IngestBase
<1> QED BY <1>1 DEF Next, Derive, ReadWindows, StoreWindows, Abandon, candles, ingestVars

LEMMA BaseOnlyGrows ==
  ASSUME TypeOK, [Next]_ingestVars, NEW w \in Windows, Complete(w)
  PROVE  Complete(w)'
BY SlotStaysStored, WindowFacts DEF Complete, Span

(* A batch makes every window it has a slot of pending for its writer.      *)
LEMMA ReplacedIsPending ==
  ASSUME TypeOK, NEW a \in Writers, NEW batch \in Batches(a), IngestBase(a, batch),
         NEW w \in Windows, NEW s \in Span(w), s \in DOMAIN batch
  PROVE  Pending(a, w)'
<1>1. batch \in [DOMAIN batch -> Versions] /\ DOMAIN batch \subseteq Slots
  BY DEF Batches
<1>2. PICK lo \in DOMAIN batch, hi \in DOMAIN batch :
        /\ lo <= s /\ s <= hi
        /\ touched' = [touched EXCEPT ![a] = [from |-> lo, until |-> hi + 1]]
  BY DEF IngestBase
<1>3. touched'[a].from = lo /\ touched'[a].until = hi + 1
  BY <1>2 DEF TypeOK
<1>4. w.length \in todo'[a]
  BY WindowFacts DEF IngestBase, TypeOK
<1>5. /\ s \in Nat /\ lo \in Nat /\ hi \in Nat
      /\ w.start <= s /\ s < w.start + w.length
  BY <1>1, <1>2, WindowFacts DEF Slots, Span
<1>6. Floor(lo, w.length) <= w.start /\ w.start < Ceil(hi + 1, w.length)
  BY <1>2, <1>5, WindowFacts, WindowIsTouched
<1>7. w \in TouchedWindows(a, w.length)'
  BY <1>3, <1>6 DEF TouchedWindows
<1> QED BY <1>4, <1>7 DEF Pending

(* A step that completes a window makes it pending for its writer.          *)
LEMMA CompletedIsPending ==
  ASSUME TypeOK, NEW a \in Writers, NEW batch \in Batches(a), IngestBase(a, batch),
         NEW w \in Windows, ~Complete(w), Complete(w)'
  PROVE  Pending(a, w)'
<1>1. PICK s \in Span(w) : base[s] = 0
  BY DEF Complete
<1>2. s \in DOMAIN batch
  BY <1>1, WindowFacts DEF IngestBase, Complete, Span
<1> QED BY <1>2, ReplacedIsPending

LEMMA HeldStep == TypeOK /\ Held /\ [Next]_ingestVars => Held'
<1> SUFFICES ASSUME TypeOK, Held, [Next]_ingestVars PROVE Held'
  OBVIOUS
<1>1. \A w \in Windows : Complete(w) => Complete(w)'
  BY BaseOnlyGrows
<1>2. \A a \in Writers : DOMAIN found[a] \subseteq Windows
  BY DEF TypeOK
<1> USE DEF Held, OnlyCompleteWindows, ReadHoldsNothing
<1>3. ASSUME NEW a \in Writers, NEW batch \in Batches(a), IngestBase(a, batch)
      PROVE  Held'
  <2>1. derived' = derived /\ found' = found
    BY <1>3 DEF IngestBase
  <2>2. \A b \in Writers : step'[b] = "idle" => todo'[b] = {}
    BY <1>3 DEF IngestBase, TypeOK
  <2>3. \A b \in Writers : step'[b] # "store" => found[b] = <<>>
    BY <1>3 DEF IngestBase, TypeOK
  <2> QED BY <1>1, <1>2, <2>1, <2>2, <2>3
<1>4. ASSUME NEW a \in Writers, ReadWindows(a)
      PROVE  Held'
  <2>1. PICK d \in todo[a] :
          /\ todo' = [todo EXCEPT ![a] = @ \ {d}]
          /\ found' = [found EXCEPT ![a] =
                        [w \in {x \in TouchedWindows(a, d) : Complete(x)} |-> Aggregate(w)]]
    BY <1>4 DEF ReadWindows
  <2>2. base' = base /\ derived' = derived
    BY <1>4 DEF ReadWindows, candles
  <2>3. \A b \in Writers : \A w \in DOMAIN found'[b] : Complete(w)
    BY <2>1 DEF TypeOK
  <2>4. \A b \in Writers : b # a => found'[b] = found[b] /\ todo'[b] = todo[b]
                                    /\ step'[b] = step[b]
    BY <1>4, <2>1 DEF ReadWindows, TypeOK
  <2>5. step'[a] = "store"
    BY <1>4 DEF ReadWindows, TypeOK
  <2>6. \A b \in Writers : /\ step'[b] # "store" => found'[b] = <<>>
                           /\ step'[b] = "idle" => todo'[b] = {}
    BY <2>4, <2>5
  <2>7. \A b \in Writers : \A w \in DOMAIN found'[b] : Complete(w)'
    BY <2>2, <2>3 DEF Complete
  <2>8. OnlyCompleteWindows'
    BY <1>1, <2>2
  <2>9. ReadHoldsNothing'
    BY <2>6
  <2> QED BY <2>6, <2>7, <2>8, <2>9 DEF Held
<1>5. ASSUME NEW a \in Writers, StoreWindows(a)
      PROVE  Held'
  <2>1. base' = base
    BY <1>5 DEF StoreWindows
  <2>2. \A w \in Windows : derived'[w] # Absent => Complete(w)
    BY <1>5 DEF StoreWindows
  <2>3. \A b \in Writers : b # a => found'[b] = found[b] /\ todo'[b] = todo[b]
                                    /\ step'[b] = step[b]
    BY <1>5 DEF StoreWindows, TypeOK
  <2>4. found'[a] = <<>> /\ todo'[a] = todo[a]
    <3>1. found' = [found EXCEPT ![a] = <<>>]
      BY <1>5 DEF StoreWindows
    <3> QED BY <1>5, <3>1 DEF StoreWindows, TypeOK
  <2>5. step'[a] = "idle" => todo[a] = {}
    BY <1>5 DEF StoreWindows, TypeOK
  <2>6. DOMAIN found'[a] = {}
    BY <2>4
  <2>7. \A b \in Writers : /\ step'[b] # "store" => found'[b] = <<>>
                           /\ step'[b] = "idle" => todo'[b] = {}
    BY <2>3, <2>4, <2>5
  <2>8. \A b \in Writers : \A w \in DOMAIN found'[b] : Complete(w)
    BY <2>3, <2>6
  <2>9. \A b \in Writers : \A w \in DOMAIN found'[b] : Complete(w)'
    BY <2>1, <2>8 DEF Complete
  <2>10. OnlyCompleteWindows'
    BY <1>1, <2>2
  <2>11. ReadHoldsNothing'
    BY <2>7
  <2> QED BY <2>7, <2>9, <2>10, <2>11 DEF Held
<1>6. ASSUME NEW a \in Writers, Abandon(a)
      PROVE  Held'
  <2>1. base' = base /\ derived' = derived
    BY <1>6 DEF Abandon, candles
  <2>2. \A b \in Writers : b # a => found'[b] = found[b] /\ todo'[b] = todo[b]
                                    /\ step'[b] = step[b]
    BY <1>6 DEF Abandon, TypeOK
  <2>3. found'[a] = <<>> /\ todo'[a] = {}
    BY <1>6 DEF Abandon, TypeOK
  <2>4. DOMAIN found'[a] = {}
    BY <2>3
  <2>5. \A b \in Writers : /\ step'[b] # "store" => found'[b] = <<>>
                           /\ step'[b] = "idle" => todo'[b] = {}
    BY <2>2, <2>3
  <2>6. \A b \in Writers : \A w \in DOMAIN found'[b] : Complete(w)
    BY <2>2, <2>4
  <2>7. \A b \in Writers : \A w \in DOMAIN found'[b] : Complete(w)'
    BY <2>1, <2>6 DEF Complete
  <2>8. OnlyCompleteWindows'
    BY <1>1, <2>1
  <2>9. ReadHoldsNothing'
    BY <2>5
  <2> QED BY <2>5, <2>7, <2>8, <2>9 DEF Held
<1>7. CASE UNCHANGED ingestVars
  BY <1>7 DEF ingestVars, candles, jobs, Complete
<1> QED BY <1>3, <1>4, <1>5, <1>6, <1>7 DEF Next, Derive

LEMMA NothingLostStep == TypeOK /\ Held /\ NothingLost /\ [Next]_ingestVars => NothingLost'
<1> SUFFICES ASSUME TypeOK, Held, NothingLost, [Next]_ingestVars, failures' = 0,
                    NEW w \in Windows, Complete(w)', derived'[w] = Absent
             PROVE  \E a \in Writers : Pending(a, w)'
  BY DEF NothingLost
<1>1. ASSUME failures = 0, Complete(w), derived[w] = Absent
      PROVE  \E a \in Writers : Pending(a, w)
  BY <1>1 DEF NothingLost
<1>2. ASSUME NEW a \in Writers, NEW batch \in Batches(a), IngestBase(a, batch)
      PROVE  \E b \in Writers : Pending(b, w)'
  <2>1. CASE ~Complete(w)
    BY <1>2, <2>1, CompletedIsPending
  <2>2. CASE Complete(w)
    <3>1. failures = 0 /\ derived[w] = Absent
      BY <1>2 DEF IngestBase
    <3>2. PICK b \in Writers : Pending(b, w)
      BY <1>1, <2>2, <3>1
    <3>3. b # a
      <4>1. step[a] = "idle" /\ found[a] = <<>> /\ todo[a] = {}
        BY <1>2 DEF Held, ReadHoldsNothing, IngestBase
      <4>2. DOMAIN found[a] = {}
        BY <4>1
      <4> QED BY <3>2, <4>1, <4>2 DEF Pending
    <3>4. found'[b] = found[b] /\ todo'[b] = todo[b] /\ touched'[b] = touched[b]
      BY <1>2, <3>3 DEF IngestBase, TypeOK
    <3> QED BY <3>2, <3>4 DEF Pending, TouchedWindows
  <2> QED BY <2>1, <2>2
<1>3. ASSUME NEW a \in Writers, ReadWindows(a)
      PROVE  \E b \in Writers : Pending(b, w)'
  <2>1. PICK d \in todo[a] :
          /\ todo' = [todo EXCEPT ![a] = @ \ {d}]
          /\ found' = [found EXCEPT ![a] =
                        [x \in {y \in TouchedWindows(a, d) : Complete(y)} |-> Aggregate(x)]]
    BY <1>3 DEF ReadWindows
  <2>2. base' = base /\ derived' = derived /\ failures' = failures /\ touched' = touched
    BY <1>3 DEF ReadWindows, candles
  <2>3. Complete(w)
    BY <2>2 DEF Complete
  <2>4. PICK b \in Writers : Pending(b, w)
    BY <1>1, <2>2, <2>3
  <2>5. CASE b # a
    <3>1. found'[b] = found[b] /\ todo'[b] = todo[b]
      BY <2>1, <2>5 DEF TypeOK
    <3> QED BY <2>2, <2>4, <3>1 DEF Pending, TouchedWindows
  <2>6. CASE b = a
    <3>1. w \in DOMAIN found'[a] \/ (w.length \in todo'[a] /\ w \in TouchedWindows(a, w.length))
      <4>1. w \notin DOMAIN found[a]
        BY <1>3, <2>1 DEF ReadWindows, TypeOK, Held, ReadHoldsNothing
      <4>2. w.length \in todo[a] /\ w \in TouchedWindows(a, w.length)
        BY <2>4, <2>6, <4>1 DEF Pending
      <4>3. CASE w.length = d
        BY <2>1, <2>3, <4>2, <4>3 DEF TypeOK
      <4>4. CASE w.length # d
        BY <2>1, <4>2, <4>4 DEF TypeOK
      <4> QED BY <4>3, <4>4
    <3> QED BY <2>2, <3>1 DEF Pending, TouchedWindows
  <2> QED BY <2>5, <2>6
<1>4. ASSUME NEW a \in Writers, StoreWindows(a)
      PROVE  \E b \in Writers : Pending(b, w)'
  <2>1. base' = base /\ failures' = failures /\ todo' = todo
    BY <1>4 DEF StoreWindows
  <2>2. w \notin DOMAIN found[a]
    BY <1>4, AggregateNotAbsent DEF StoreWindows, TypeOK
  <2>3. derived[w] = Absent
    BY <1>4, <2>2 DEF StoreWindows
  <2>4. Complete(w)
    BY <2>1 DEF Complete
  <2>5. PICK b \in Writers : Pending(b, w)
    BY <1>1, <2>1, <2>3, <2>4
  <2>6. CASE b # a
    <3>1. found'[b] = found[b] /\ touched'[b] = touched[b]
      BY <1>4, <2>6 DEF StoreWindows, TypeOK
    <3> QED BY <2>1, <2>5, <3>1 DEF Pending, TouchedWindows
  <2>7. CASE b = a
    <3>1. w.length \in todo[a] /\ w \in TouchedWindows(a, w.length)
      BY <2>2, <2>5, <2>7 DEF Pending
    <3>2. touched'[a] = touched[a]
      BY <1>4, <3>1 DEF StoreWindows
    <3> QED BY <2>1, <3>1, <3>2 DEF Pending, TouchedWindows
  <2> QED BY <2>6, <2>7
<1>5. ASSUME NEW a \in Writers, Abandon(a)
      PROVE  FALSE
  BY <1>5, IngestionAssumption DEF Abandon, TypeOK
<1>6. CASE UNCHANGED ingestVars
  BY <1>1, <1>6 DEF ingestVars, candles, jobs, Complete, Pending, TouchedWindows
<1> QED BY <1>2, <1>3, <1>4, <1>5, <1>6 DEF Next, Derive

LEMMA IngestInvariant == Spec => [](TypeOK /\ IngestInv)
<1>1. Init => IngestInv
  <2> SUFFICES ASSUME Init PROVE IngestInv
    OBVIOUS
  <2>1. \A w \in Windows : ~Complete(w) /\ derived[w] = Absent
    BY WindowFacts DEF Init, Complete
  <2>2. \A a \in Writers : found[a] = <<>> /\ todo[a] = {} /\ DOMAIN found[a] = {}
    BY DEF Init
  <2> QED BY <2>1, <2>2 DEF Init, IngestInv, Held, OnlyCompleteWindows, NothingLost,
                            ReadHoldsNothing
<1>2. TypeOK /\ IngestInv /\ [Next]_ingestVars => IngestInv'
  BY HeldStep, NothingLostStep DEF IngestInv
<1> QED BY <1>1, <1>2, IngestionTypeCorrect, PTL DEF Spec

(* A derived candle is stored only once every one of its constituents is,   *)
(* for any number of slots, timeframes, versions and failures.              *)
THEOREM NoPartialAggregate == Spec => []OnlyCompleteWindows
<1>1. IngestInv => OnlyCompleteWindows
  BY DEF IngestInv, Held
<1> QED BY <1>1, IngestInvariant, PTL

(* Once both callers have returned, and neither was abandoned, every window *)
(* whose constituents are stored has its derived candle.                    *)
THEOREM NoWindowLeftBehind == Spec => []CompleteWindowsStored
<1>1. IngestInv => CompleteWindowsStored
  <2> SUFFICES ASSUME IngestInv, Quiet, failures = 0,
                      NEW w \in Windows, Complete(w), derived[w] = Absent
               PROVE  FALSE
    BY DEF CompleteWindowsStored
  <2>1. PICK a \in Writers : Pending(a, w)
    BY DEF IngestInv, NothingLost
  <2>2. found[a] = <<>> /\ todo[a] = {}
    BY DEF IngestInv, Held, ReadHoldsNothing, Quiet
  <2>3. DOMAIN found[a] = {}
    BY <2>2
  <2> QED BY <2>1, <2>2, <2>3 DEF Pending
<1> QED BY <1>1, IngestInvariant, PTL

-----------------------------------------------------------------------------
(* Ingestions that do not overlap.                                          *)

LEMMA FollowedIsSpec == FollowedSpec => Spec
<1>1. FollowedInit => Init
  BY DEF FollowedInit
<1>2. [FollowedNext]_<<ingestVars, overlapped>> => [Next]_ingestVars
  BY DEF FollowedNext
<1> QED BY <1>1, <1>2, PTL DEF FollowedSpec, Spec

(* Whoever holds nothing and has nothing to do has no window pending.       *)
LEMMA IdleHasNonePending ==
  ASSUME Held, NEW a \in Writers, step[a] = "idle", NEW w
  PROVE  ~Pending(a, w) /\ w \notin DOMAIN found[a]
<1>1. found[a] = <<>> /\ todo[a] = {}
  BY DEF Held, ReadHoldsNothing
<1>2. DOMAIN found[a] = {}
  BY <1>1
<1> QED BY <1>1, <1>2 DEF Pending

LEMMA UntouchedIsUnchanged ==
  ASSUME TypeOK, NEW a \in Writers, NEW batch \in Batches(a), IngestBase(a, batch),
         NEW w \in Windows, \A s \in Span(w) : s \notin DOMAIN batch
  PROVE  /\ \A s \in Span(w) : base'[s] = base[s]
         /\ Complete(w)' = Complete(w)
         /\ Aggregate(w)' = Aggregate(w)
<1>1. \A s \in Span(w) : base'[s] = base[s]
  BY WindowFacts DEF IngestBase
<1> QED BY <1>1 DEF Complete, Aggregate, Span

LEMMA SameBaseSameAggregates ==
  ASSUME base' = base
  PROVE  \A w \in Windows : Complete(w)' = Complete(w) /\ Aggregate(w)' = Aggregate(w)
BY DEF Complete, Aggregate, Span

LEMMA FollowedInvInit == FollowedInit => FollowedInv
<1> SUFFICES ASSUME Init PROVE AloneInv
  BY DEF FollowedInit, FollowedInv
<1>1. \A w \in Windows : ~Complete(w)
  BY WindowFacts DEF Init, Complete
<1>2. \A a \in Writers : step[a] = "idle" /\ found[a] = <<>> /\ DOMAIN found[a] = {}
  BY DEF Init
<1> QED BY <1>1, <1>2
        DEF AloneInv, OneAtATime, FoundIsFresh, StaleIsPending, TouchedIsOnTheWay

(* An ingestion that begins while no other is under way.                    *)
LEMMA AloneBegins ==
  ASSUME TypeOK, Held, AloneInv, NEW a \in Writers, NEW batch \in Batches(a),
         IngestBase(a, batch), \A b \in Writers : step[b] = "idle"
  PROVE  AloneInv'
<1>1. /\ derived' = derived /\ found' = found /\ failures' = failures
      /\ \A b \in Writers : DOMAIN found[b] = {}
  BY IdleHasNonePending DEF IngestBase, TypeOK
<1>2. \A b \in Writers : b # a => step'[b] = "idle"
  BY DEF IngestBase, TypeOK
<1>3. todo'[a] = Durations
  BY DEF IngestBase, TypeOK
<1>4. OneAtATime'
  BY <1>2 DEF OneAtATime
<1>5. FoundIsFresh'
  BY <1>1 DEF FoundIsFresh
<1>6. StaleIsPending'
  <2> SUFFICES ASSUME failures = 0, NEW w \in Windows, Complete(w)',
                      derived[w] # Aggregate(w)'
               PROVE  Pending(a, w)'
    BY <1>1 DEF StaleIsPending
  <2>1. CASE \E s \in Span(w) : s \in DOMAIN batch
    BY <2>1, ReplacedIsPending
  <2>2. CASE \A s \in Span(w) : s \notin DOMAIN batch
    <3>1. Complete(w) /\ derived[w] # Aggregate(w)
      BY <2>2, UntouchedIsUnchanged
    <3>2. PICK b \in Writers : Pending(b, w)
      BY <3>1 DEF AloneInv, StaleIsPending
    <3> QED BY <3>2, IdleHasNonePending
  <2> QED BY <2>1, <2>2
<1>7. TouchedIsOnTheWay'
  BY <1>2, <1>3, WindowFacts DEF TouchedIsOnTheWay
<1> QED BY <1>4, <1>5, <1>6, <1>7 DEF AloneInv

(* A read of the finest timeframe left.                                     *)
LEMMA AloneReads ==
  ASSUME TypeOK, Held, AloneInv, NEW a \in Writers, ReadWindows(a)
  PROVE  AloneInv'
<1>1. PICK d \in todo[a] :
        /\ todo' = [todo EXCEPT ![a] = @ \ {d}]
        /\ found' = [found EXCEPT ![a] =
                      [w \in {x \in TouchedWindows(a, d) : Complete(x)} |-> Aggregate(w)]]
  BY DEF ReadWindows
<1>2. /\ base' = base /\ derived' = derived /\ touched' = touched /\ failures' = failures
      /\ \A w \in Windows : Complete(w)' = Complete(w) /\ Aggregate(w)' = Aggregate(w)
  BY SameBaseSameAggregates DEF ReadWindows, candles
<1>3. /\ \A w \in DOMAIN found'[a] : found'[a][w] = Aggregate(w)
      /\ \A w \in TouchedWindows(a, d) : Complete(w) => w \in DOMAIN found'[a]
      /\ \A e : e \in todo[a] /\ e # d => e \in todo'[a]
  BY <1>1 DEF TypeOK
<1>4. \A b \in Writers : b # a => found'[b] = found[b] /\ todo'[b] = todo[b]
                                  /\ step'[b] = step[b]
  BY <1>1 DEF ReadWindows, TypeOK
<1>5. step[a] = "read" /\ DOMAIN found[a] = {}
  <2>1. found[a] = <<>> /\ step[a] = "read"
    BY DEF ReadWindows, Held, ReadHoldsNothing
  <2> QED BY <2>1
<1>6. \A b \in Writers : b # a => step[b] = "idle"
  BY <1>5 DEF AloneInv, OneAtATime
<1>7. \A b \in Writers : b # a => step'[b] = "idle"
  BY <1>4, <1>6
<1>8. OneAtATime'
  BY <1>7 DEF OneAtATime
<1>9. \A b \in Writers : DOMAIN found'[b] \subseteq Windows
  BY <1>1, <1>4 DEF TypeOK, TouchedWindows
<1>10. FoundIsFresh'
  <2>1. \A b \in Writers : \A w \in DOMAIN found'[b] : found'[b][w] = Aggregate(w)
    BY <1>3, <1>4 DEF AloneInv, FoundIsFresh
  <2> QED BY <1>2, <1>9, <2>1 DEF FoundIsFresh
<1>11. \A w \in Windows : Complete(w) /\ Pending(a, w) => Pending(a, w)'
  <2> SUFFICES ASSUME NEW w \in Windows, Complete(w), Pending(a, w)
               PROVE  w \in DOMAIN found'[a]
                      \/ (w.length \in todo'[a] /\ w \in TouchedWindows(a, w.length))
    BY <1>2 DEF Pending, TouchedWindows
  <2>1. w.length \in todo[a] /\ w \in TouchedWindows(a, w.length)
    BY <1>5 DEF Pending
  <2> QED BY <1>3, <2>1
<1>12. StaleIsPending'
  <2> SUFFICES ASSUME failures = 0, NEW w \in Windows, Complete(w),
                      derived[w] # Aggregate(w)
               PROVE  \E b \in Writers : Pending(b, w)'
    BY <1>2 DEF StaleIsPending
  <2>1. PICK b \in Writers : Pending(b, w)
    BY DEF AloneInv, StaleIsPending
  <2>2. b = a
    BY <1>6, <2>1, IdleHasNonePending
  <2> QED BY <1>11, <2>1, <2>2
<1>13. TouchedIsOnTheWay'
  <2> SUFFICES ASSUME NEW w \in Windows, w \in TouchedWindows(a, w.length), Complete(w)
               PROVE  w.length \in todo'[a] \/ w \in DOMAIN found'[a]
                      \/ derived[w] = Aggregate(w)
    BY <1>2, <1>7 DEF TouchedIsOnTheWay, TouchedWindows
  <2>1. w.length \in todo[a] \/ derived[w] = Aggregate(w)
    BY <1>5 DEF AloneInv, TouchedIsOnTheWay
  <2> QED BY <1>3, <2>1
<1> QED BY <1>8, <1>10, <1>12, <1>13 DEF AloneInv

(* The commit of a timeframe: what was found is what is stored.             *)
LEMMA AloneStores ==
  ASSUME TypeOK, Held, AloneInv, NEW a \in Writers, StoreWindows(a)
  PROVE  AloneInv'
<1>1. /\ base' = base /\ todo' = todo /\ failures' = failures
      /\ \A w \in Windows : Complete(w)' = Complete(w) /\ Aggregate(w)' = Aggregate(w)
  BY SameBaseSameAggregates DEF StoreWindows
<1>2. \A w \in Windows : /\ w \in DOMAIN found[a] => derived'[w] = Aggregate(w)
                         /\ w \notin DOMAIN found[a] => derived'[w] = derived[w]
  BY DEF StoreWindows, AloneInv, FoundIsFresh
<1>3. DOMAIN found'[a] = {}
  <2>1. found'[a] = <<>>
    BY DEF StoreWindows, TypeOK
  <2> QED BY <2>1
<1>4. \A b \in Writers : b # a => found'[b] = found[b] /\ step'[b] = step[b]
  BY DEF StoreWindows, TypeOK
<1>5. \A b \in Writers : b # a => step[b] = "idle"
  BY DEF AloneInv, OneAtATime, StoreWindows
<1>6. \A b \in Writers : b # a => step'[b] = "idle" /\ DOMAIN found'[b] = {}
  BY <1>4, <1>5, IdleHasNonePending
<1>7. OneAtATime'
  BY <1>6 DEF OneAtATime
<1>8. FoundIsFresh'
  BY <1>3, <1>6 DEF FoundIsFresh
<1>9. step'[a] # "idle" => touched' = touched
  BY DEF StoreWindows, TypeOK
<1>10. todo[a] # {} => touched' = touched
  BY DEF StoreWindows
<1>11. StaleIsPending'
  <2> SUFFICES ASSUME failures = 0, NEW w \in Windows, Complete(w),
                      derived'[w] # Aggregate(w)
               PROVE  Pending(a, w)'
    BY <1>1 DEF StaleIsPending
  <2>1. w \notin DOMAIN found[a] /\ derived[w] # Aggregate(w)
    BY <1>2
  <2>2. PICK b \in Writers : Pending(b, w)
    BY <2>1 DEF AloneInv, StaleIsPending
  <2>3. Pending(a, w)
    BY <1>5, <2>2, IdleHasNonePending
  <2>4. w.length \in todo[a] /\ w \in TouchedWindows(a, w.length)
    BY <2>1, <2>3 DEF Pending
  <2> QED BY <1>1, <1>10, <2>4 DEF Pending, TouchedWindows
<1>12. TouchedIsOnTheWay'
  <2> SUFFICES ASSUME step'[a] # "idle", NEW w \in Windows,
                      w \in TouchedWindows(a, w.length), Complete(w)
               PROVE  w.length \in todo[a] \/ derived'[w] = Aggregate(w)
    BY <1>1, <1>6, <1>9 DEF TouchedIsOnTheWay, TouchedWindows
  <2>1. w.length \in todo[a] \/ w \in DOMAIN found[a] \/ derived[w] = Aggregate(w)
    BY DEF AloneInv, TouchedIsOnTheWay, StoreWindows
  <2> QED BY <1>2, <2>1
<1> QED BY <1>7, <1>8, <1>11, <1>12 DEF AloneInv

(* An ingestion that is abandoned leaves what it had not stored to the next  *)
(* one that touches it.                                                     *)
LEMMA AloneAbandons ==
  ASSUME TypeOK, Held, AloneInv, NEW a \in Writers, Abandon(a)
  PROVE  AloneInv'
<1>1. failures' # 0
  BY IngestionAssumption DEF Abandon, TypeOK
<1>2. DOMAIN found'[a] = {} /\ step'[a] = "idle"
  <2>1. found'[a] = <<>> /\ step'[a] = "idle"
    BY DEF Abandon, TypeOK
  <2> QED BY <2>1
<1>3. \A b \in Writers : b # a => found'[b] = found[b] /\ step'[b] = step[b]
  BY DEF Abandon, TypeOK
<1>4. \A b \in Writers : b # a => step[b] = "idle"
  BY DEF AloneInv, OneAtATime, Abandon
<1>5. \A b \in Writers : step'[b] = "idle" /\ DOMAIN found'[b] = {}
  BY <1>2, <1>3, <1>4, IdleHasNonePending
<1> QED BY <1>1, <1>5
        DEF AloneInv, OneAtATime, FoundIsFresh, StaleIsPending, TouchedIsOnTheWay

LEMMA FollowedInvStep ==
  TypeOK /\ Held /\ FollowedInv /\ [FollowedNext]_<<ingestVars, overlapped>> => FollowedInv'
<1> SUFFICES ASSUME TypeOK, Held, FollowedInv, [FollowedNext]_<<ingestVars, overlapped>>,
                    ~overlapped'
             PROVE  AloneInv'
  BY DEF FollowedInv
<1>1. AloneInv
  BY DEF FollowedInv, FollowedNext
<1>2. ASSUME NEW a \in Writers, NEW batch \in Batches(a), IngestBase(a, batch), FollowedNext
      PROVE  AloneInv'
  <2>1. step[a] = "idle" /\ step'[a] # "idle"
    BY <1>2 DEF IngestBase, TypeOK
  <2>2. \A b \in Writers : step[b] = "idle"
    BY <1>2, <2>1 DEF FollowedNext
  <2> QED BY <1>1, <1>2, <2>2, AloneBegins
<1>3. CASE UNCHANGED <<ingestVars, overlapped>>
  BY <1>1, <1>3 DEF ingestVars, candles, jobs, AloneInv, OneAtATime, FoundIsFresh,
                    StaleIsPending, TouchedIsOnTheWay, Pending, TouchedWindows,
                    Complete, Aggregate
<1> QED BY <1>1, <1>2, <1>3, AloneReads, AloneStores, AloneAbandons
        DEF FollowedNext, Next, Derive

LEMMA FollowedInvariant ==
  FollowedSpec => [](TypeOK /\ IngestInv /\ FollowedInv)
<1>1. IngestInv => Held
  BY DEF IngestInv
<1> QED BY <1>1, FollowedInvInit, FollowedInvStep, FollowedIsSpec, IngestInvariant,
             PTL DEF FollowedSpec

(* A derived candle is the aggregate of what is stored, also after a        *)
(* correction, as long as no two ingestions overlap: derivation is safe to  *)
(* call after a live candle, a page, a recovered gap or a correction alike.  *)
THEOREM CorrectionsReachAggregates == FollowedSpec => []CurrentUnlessOverlapped
<1>1. Held /\ FollowedInv => CurrentUnlessOverlapped
  <2> SUFFICES ASSUME Held, AloneInv, Quiet, failures = 0,
                      NEW w \in Windows, Complete(w), derived[w] # Aggregate(w)
               PROVE  FALSE
    BY DEF FollowedInv, CurrentUnlessOverlapped, DerivedIsCurrent
  <2>1. PICK a \in Writers : Pending(a, w)
    BY DEF AloneInv, StaleIsPending
  <2> QED BY <2>1, IdleHasNonePending DEF Quiet
<1> QED BY <1>1, FollowedInvariant, PTL DEF IngestInv

(* An ingestion that returns leaves every window it touched current, also   *)
(* those an abandoned one had left behind, unless ingestions overlapped.    *)
THEOREM ReturnLeavesCurrent == FollowedSpec => RederivesTouched
<1> DEFINE Rederived ==
      \A a \in Writers :
        (step[a] = "store" /\ step'[a] = "idle" /\ failures' = failures /\ ~overlapped) =>
          \A d \in Durations : \A w \in TouchedWindows(a, d) :
            Complete(w) => derived'[w] = Aggregate(w)
<1>1. TypeOK /\ FollowedInv /\ [Next]_ingestVars => [Rederived]_ingestVars
  <2> SUFFICES ASSUME TypeOK, AloneInv, Next,
                      NEW a \in Writers, step[a] = "store", step'[a] = "idle",
                      failures' = failures,
                      NEW d \in Durations, NEW w \in TouchedWindows(a, d), Complete(w)
               PROVE  derived'[w] = Aggregate(w)
    BY DEF FollowedInv
  <2>1. StoreWindows(a)
    <3>1. ASSUME NEW b \in Writers, NEW batch \in Batches(b), IngestBase(b, batch)
          PROVE  FALSE
      BY <3>1 DEF IngestBase, TypeOK
    <3>2. ASSUME NEW b \in Writers, ReadWindows(b)
          PROVE  FALSE
      BY <3>2 DEF ReadWindows, TypeOK
    <3>3. ASSUME NEW b \in Writers, Abandon(b)
          PROVE  FALSE
      BY <3>3 DEF Abandon, TypeOK
    <3>4. ASSUME NEW b \in Writers, StoreWindows(b)
          PROVE  b = a
      BY <3>4 DEF StoreWindows, TypeOK
    <3> QED BY <3>1, <3>2, <3>3, <3>4 DEF Next, Derive
  <2>2. todo[a] = {}
    BY <2>1 DEF StoreWindows, TypeOK
  <2>3. w \in Windows /\ w \in TouchedWindows(a, w.length)
    BY DEF TouchedWindows
  <2>4. w \in DOMAIN found[a] \/ derived[w] = Aggregate(w)
    BY <2>2, <2>3 DEF AloneInv, TouchedIsOnTheWay
  <2> QED BY <2>1, <2>3, <2>4 DEF StoreWindows, AloneInv, FoundIsFresh
<1> QED BY <1>1, FollowedIsSpec, FollowedInvariant, PTL DEF Spec, RederivesTouched

-----------------------------------------------------------------------------
(* The history of an instrument.                                            *)

(* Whole slots, and the least and the greatest of a set of them.            *)

Whole(t) == \E m \in Nat : t = 2 * m

LEMMA FloorTimeFacts ==
  ASSUME NEW t \in Nat
  PROVE  /\ FloorTime(t) \in Nat /\ Whole(FloorTime(t))
         /\ FloorTime(t) <= t /\ t < FloorTime(t) + 2
<1>1. t % 2 \in 0..1 /\ t \div 2 \in Nat /\ t = 2 * (t \div 2) + (t % 2)
  BY Quotient
<1> QED BY <1>1 DEF FloorTime, Whole

LEMMA Least ==
  ASSUME NEW T \in SUBSET Nat, T # {}
  PROVE  \E x \in T : \A y \in T : x <= y
<1> DEFINE R == OpToRel(<, Nat)
<1>1. IsWellFoundedOn(R, Nat)
  BY NatLessThanWellFounded
<1>2. \A x, y \in Nat : y < x => <<y, x>> \in R
  BY DEF OpToRel
<1> HIDE DEF R
<1>3. PICK x \in T : \A y \in T : ~(<<y, x>> \in R)
  BY <1>1, WFMin
<1>4. \A y \in T : x <= y
  <2> SUFFICES ASSUME NEW y \in T PROVE x <= y
    OBVIOUS
  <2>1. x \in Nat /\ y \in Nat
    OBVIOUS
  <2>2. ~(y < x)
    BY <1>2, <1>3, <2>1
  <2> QED BY <2>1, <2>2
<1> QED BY <1>4

LEMMA Greatest ==
  ASSUME NEW n \in Nat, NEW T \in SUBSET (0..n), T # {}
  PROVE  \E x \in T : \A y \in T : y <= x
<1> DEFINE M == {n - y : y \in T}
<1>1. M \in SUBSET Nat
  <2>1. \A y \in T : y \in 0..n /\ n - y \in Nat
    OBVIOUS
  <2> QED BY <2>1
<1>2. M # {}
  <2>1. PICK y \in T : TRUE
    OBVIOUS
  <2>2. n - y \in M
    OBVIOUS
  <2> QED BY <2>2
<1>3. PICK m \in M : \A z \in M : m <= z
  <2> HIDE DEF M
  <2> QED BY <1>1, <1>2, Least
<1>4. PICK x \in T : m = n - x
  BY <1>3
<1>5. ASSUME NEW y \in T PROVE y <= x
  <2>1. n - y \in M
    OBVIOUS
  <2>2. m <= n - y
    BY <2>1, <1>3
  <2>3. y \in 0..n /\ x \in 0..n
    OBVIOUS
  <2> QED BY <2>2, <2>3, <1>4
<1> QED BY <1>4, <1>5

LEMMA SlotFacts ==
  /\ Slots \in SUBSET Nat /\ IsFiniteSet(Slots)
  /\ NumSlots \in Nat \ {0} /\ Horizon \in Nat
  /\ Discovered \in Nat /\ Retention \in Nat /\ Discovered <= Horizon
  /\ \A s \in Slots : Open(s) \in Nat /\ Closes(s) \in Nat /\ Closes(s) = Open(s) + 2
                      /\ Closes(s) <= Horizon
<1>1. NumSlots \in Nat \ {0} /\ Horizon \in Nat
  BY IngestionAssumption DEF Horizon
<1>2. Discovered \in 0..Horizon /\ Retention \in 1..Discovered
  BY HistoryAssumption
<1>3. Discovered \in Nat /\ Discovered <= Horizon
  BY <1>1, <1>2
<1>4. Retention \in Nat
  BY <1>2, <1>3
<1>5. Slots \in SUBSET Nat /\ IsFiniteSet(Slots)
  BY <1>1, FS_Interval DEF Slots
<1> QED BY <1>1, <1>3, <1>4, <1>5 DEF Open, Closes, Horizon, Slots

-----------------------------------------------------------------------------
(* The kline endpoint. A page is an upper part of what it serves, is empty  *)
(* only if nothing is served, and holds all of a range no longer than it.   *)

LEMMA PageRows ==
  ASSUME NEW start, NEW end
  PROVE  LET rows == Answer(start, end) IN
         /\ DOMAIN rows \subseteq Served(start, end)
         /\ rows \in [DOMAIN rows -> {Forming, Final}]
         /\ \A s \in DOMAIN rows : rows[s] = IF Closed(s) THEN Final ELSE Forming
         /\ \A s \in Served(start, end) :
              Cardinality({u \in Served(start, end) : s < u}) < PageSize => s \in DOMAIN rows
         /\ \A s \in DOMAIN rows :
              Cardinality({u \in Served(start, end) : s < u}) < PageSize
BY DEF Answer

LEMMA ServedSubset ==
  ASSUME NEW start, NEW end
  PROVE  Served(start, end) \subseteq Slots
BY DEF Served

LEMMA PageIsNewest ==
  ASSUME NEW start, NEW end, NEW s \in Served(start, end),
         NEW u \in DOMAIN Answer(start, end), u <= s
  PROVE  s \in DOMAIN Answer(start, end)
<1> DEFINE S == Served(start, end)
           After(x) == {v \in S : x < v}
<1>1. S \subseteq Slots /\ u \in S
  BY ServedSubset, PageRows
<1>2. After(s) \subseteq After(u)
  <2> SUFFICES ASSUME NEW v \in S, s < v PROVE u < v
    OBVIOUS
  <2>1. u \in Nat /\ s \in Nat /\ v \in Nat
    BY <1>1, SlotFacts
  <2> QED BY <2>1
<1>3. IsFiniteSet(After(u)) /\ IsFiniteSet(After(s))
  BY <1>1, SlotFacts, FS_Subset
<1>4. Cardinality(After(s)) <= Cardinality(After(u))
  <2> HIDE DEF After
  <2> QED BY <1>2, <1>3, FS_Subset
<1>5. Cardinality(After(s)) \in Nat /\ Cardinality(After(u)) \in Nat
  <2> HIDE DEF After
  <2> QED BY <1>3, FS_CardinalityType
<1>6. Cardinality(After(u)) < PageSize
  BY PageRows
<1>7. Cardinality(After(s)) < PageSize
  <2> HIDE DEF After
  <2> QED BY <1>4, <1>5, <1>6, HistoryAssumption
<1> QED BY <1>7, PageRows

LEMMA PageEmptyIfNothingServed ==
  ASSUME NEW start, NEW end, NEW s \in Served(start, end)
  PROVE  DOMAIN Answer(start, end) # {}
<1> DEFINE S == Served(start, end)
<1>1. NumSlots - 1 \in Nat /\ S \in SUBSET (0..NumSlots - 1) /\ S # {}
  BY ServedSubset, SlotFacts DEF Slots
<1>2. PICK x \in S : \A y \in S : y <= x
  <2> HIDE DEF S
  <2> QED BY <1>1, Greatest
<1>3. {u \in S : x < u} = {}
  <2>1. \A y \in S : y \in 0..NumSlots - 1
    BY <1>1
  <2> HIDE DEF S
  <2>2. \A y \in S : ~(x < y)
    BY <1>1, <1>2, <2>1
  <2> QED BY <2>2
<1>4. Cardinality({u \in S : x < u}) < PageSize
  <2>1. 0 < PageSize
    BY HistoryAssumption
  <2> HIDE DEF S
  <2> QED BY <1>3, <2>1, FS_EmptySet
<1>5. x \in DOMAIN Answer(start, end)
  BY <1>2, <1>4, PageRows
<1> QED BY <1>5

LEMMA ChunkFitsPage ==
  ASSUME NEW start \in Nat, NEW end \in Nat, Whole(start), Whole(end),
         end <= start + 2 * PageSize, NEW s \in Served(start, end)
  PROVE  s \in DOMAIN Answer(start, end)
<1> DEFINE S == Served(start, end)
           After == {v \in S : s < v}
<1>1. PICK m \in Nat, k \in Nat : start = 2 * m /\ end = 2 * k
  BY DEF Whole
<1>2. \A v \in S : v \in Nat /\ m <= v /\ v < k
  <2> SUFFICES ASSUME NEW v \in S PROVE v \in Nat /\ m <= v /\ v < k
    OBVIOUS
  <2>1. v \in Slots /\ Open(v) < end /\ start < Closes(v)
    BY DEF Served
  <2>2. v \in Nat /\ 2 * v < end /\ start < 2 * v + 2
    BY <2>1, SlotFacts DEF Open, Closes
  <2> QED BY <1>1, <2>2
<1>3. k <= m + PageSize
  BY <1>1, HistoryAssumption
<1>4. After \subseteq s + 1..k - 1
  BY <1>2
<1>5. s \in Nat /\ m <= s /\ s < k
  BY <1>2
<1>6. s + 1 \in Int /\ k - 1 \in Int
  BY <1>5
<1>7. IsFiniteSet(s + 1..k - 1)
      /\ Cardinality(s + 1..k - 1) = IF s + 1 > k - 1 THEN 0 ELSE (k - 1) - (s + 1) + 1
  BY <1>6, FS_Interval
<1>8. Cardinality(s + 1..k - 1) < PageSize
  BY <1>3, <1>5, <1>7, HistoryAssumption
<1>9. Cardinality(After) <= Cardinality(s + 1..k - 1)
      /\ Cardinality(After) \in Nat /\ Cardinality(s + 1..k - 1) \in Nat
  <2> HIDE DEF After
  <2> QED BY <1>4, <1>7, FS_Subset, FS_CardinalityType
<1>10. Cardinality(After) < PageSize
  <2> HIDE DEF After
  <2> QED BY <1>8, <1>9, HistoryAssumption
<1> QED BY <1>10, PageRows

LEMMA NoRows ==
  ASSUME NEW rows, rows \in [DOMAIN rows -> {Forming, Final}]
  PROVE  rows = NoPage <=> DOMAIN rows = {}
BY DEF NoPage

LEMMA OldestRow ==
  ASSUME NEW rows, DOMAIN rows \subseteq Slots, DOMAIN rows # {}
  PROVE  /\ Oldest(rows) \in DOMAIN rows
         /\ \A u \in DOMAIN rows : Oldest(rows) <= u
<1>1. DOMAIN rows \in SUBSET Nat
  BY SlotFacts
<1>2. \E x \in DOMAIN rows : \A y \in DOMAIN rows : x <= y
  BY <1>1, Least
<1> QED BY <1>2 DEF Oldest

-----------------------------------------------------------------------------
(* The inductive invariant. A candle the exchange serves on time:           *)
Available == Slots \ (gaps \cup late)

Clock == /\ Discovered <= now
         /\ syncedFrom <= Discovered /\ Discovered <= syncedThrough /\ syncedThrough <= now
         /\ unindexed \subseteq late

FormingAtDiscovery(s) == Open(s) < Discovered /\ Discovered < Closes(s)

OneForming == /\ \A s \in Slots : base[s] = Forming => FormingAtDiscovery(s)
              /\ \A s \in DOMAIN page : page[s] = Forming => FormingAtDiscovery(s)

\* Each walk leaves nothing behind it.
PastStored ==
  \A s \in Available :
    syncedFrom <= Open(s) /\ Closes(s) <= Discovered => base[s] # 0
PresentStored ==
  \A s \in Available :
    /\ Discovered < Closes(s) /\ Closes(s) <= syncedThrough
    /\ RetentionFloor <= Open(s)
    => base[s] # 0

\* The page a bootstrap step holds is whole from its oldest row up to the
\* frontier; an empty one says the exchange has nothing down to the goal.
BootPageWhole ==
  at \in {"bootPage", "bootIngested"} =>
    /\ goal < syncedFrom
    /\ \A u \in DOMAIN page : Open(u) < syncedFrom /\ goal < Closes(u)
    /\ \A s \in Available :
         /\ Open(s) < syncedFrom /\ goal < Closes(s)
         /\ page = NoPage \/ \E u \in DOMAIN page : u <= s
         => s \in DOMAIN page
    /\ at = "bootIngested" =>
         /\ page # NoPage
         /\ \A s \in DOMAIN page : Closes(s) <= Discovered => base[s] # 0

InChunk(s) == chunk.start <= Open(s) /\ Closes(s) <= chunk.end

\* The chunk of a catch-up step begins where the watermark stands, or at the
\* retention floor, ends in the past, and fits one page.
ChunkWhole ==
  at \in {"page", "ingested", "retry"} =>
    /\ syncedThrough <= chunk.end /\ chunk.end <= now
    /\ Whole(chunk.start) /\ Whole(chunk.end)
    /\ chunk.end <= chunk.start + 2 * PageSize
    /\ \A s \in Slots : syncedThrough < Closes(s) /\ RetentionFloor <= Open(s)
                        => chunk.start <= Open(s)
    /\ \A s \in Available : InChunk(s) =>
         IF at = "page" THEN s \in DOMAIN page ELSE base[s] # 0

HistoryInv == /\ Clock /\ OneForming /\ PastStored /\ PresentStored
              /\ BootPageWhole /\ ChunkWhole

(* The instants a step computes from the clock and the watermarks.          *)
LEMMA TargetFacts ==
  ASSUME HistoryTypeOK, Clock
  PROVE  /\ now \in Nat /\ RetentionFloor \in Nat /\ RetentionFloor <= now
         /\ EffectiveTarget \in 0..Horizon /\ EffectiveTarget \in Nat
         /\ TargetEnd \in Nat /\ TargetEnd <= now
         /\ CatchupStart \in Nat /\ CatchupStart <= now /\ Whole(CatchupStart)
         /\ ChunkEnd \in Nat /\ ChunkEnd <= now /\ Whole(ChunkEnd)
         /\ ChunkEnd <= CatchupStart + 2 * PageSize
         /\ syncedThrough < TargetEnd => syncedThrough <= ChunkEnd
         /\ \A s \in Slots : syncedThrough < Closes(s) /\ RetentionFloor <= Open(s)
                             => CatchupStart <= Open(s)
<1>1. /\ Horizon \in Nat /\ Discovered \in Nat /\ Retention \in 1..Discovered
      /\ PageSize \in Nat \ {0} /\ Buffer \in 0..1 /\ Discovered <= Horizon
  BY SlotFacts, HistoryAssumption
<1>2. /\ now \in 0..Horizon /\ now \in Nat /\ Discovered <= now
      /\ syncedThrough \in Nat /\ syncedThrough <= now
  BY <1>1 DEF HistoryTypeOK, Clock
<1>3. RetentionFloor \in Nat /\ RetentionFloor <= now /\ now - Buffer \in Nat
  BY <1>1, <1>2 DEF RetentionFloor
<1>4. EffectiveTarget \in 0..Horizon /\ EffectiveTarget \in Nat
  BY <1>1, <1>2, <1>3 DEF EffectiveTarget, TargetStart
<1>5. TargetEnd \in Nat /\ TargetEnd <= now /\ Whole(TargetEnd)
  <2>1. TargetEnd <= now - Buffer /\ TargetEnd \in Nat /\ Whole(TargetEnd)
    BY <1>3, FloorTimeFacts DEF TargetEnd
  <2> QED BY <1>1, <1>2, <2>1
<1> DEFINE from == IF syncedThrough > RetentionFloor THEN syncedThrough ELSE RetentionFloor
<1>6. from \in Nat /\ from <= now /\ syncedThrough <= from /\ RetentionFloor <= from
      /\ from \in {syncedThrough, RetentionFloor}
  BY <1>2, <1>3
<1>7. /\ CatchupStart \in Nat /\ Whole(CatchupStart)
      /\ CatchupStart <= from /\ from < CatchupStart + 2
  <2> HIDE DEF from
  <2>1. CatchupStart = FloorTime(from)
    BY DEF CatchupStart, from
  <2> QED BY <1>6, <2>1, FloorTimeFacts
<1>8. CatchupStart <= now
  <2> HIDE DEF from
  <2> QED BY <1>2, <1>6, <1>7
<1>9. CatchupStart + 2 * PageSize \in Nat /\ Whole(CatchupStart + 2 * PageSize)
  <2>1. PICK m \in Nat : CatchupStart = 2 * m
    BY <1>7 DEF Whole
  <2>2. m + PageSize \in Nat /\ CatchupStart + 2 * PageSize = 2 * (m + PageSize)
    BY <1>1, <2>1
  <2> QED BY <2>2 DEF Whole
<1>10. /\ ChunkEnd \in Nat /\ ChunkEnd <= now /\ Whole(ChunkEnd)
       /\ ChunkEnd <= CatchupStart + 2 * PageSize
  BY <1>2, <1>5, <1>9 DEF ChunkEnd
<1>11. syncedThrough < TargetEnd => syncedThrough <= ChunkEnd
  <2> HIDE DEF from
  <2>1. syncedThrough <= CatchupStart + 2 * PageSize
    BY <1>1, <1>2, <1>6, <1>7
  <2> QED BY <1>2, <1>5, <2>1 DEF ChunkEnd
<1>12. ASSUME NEW s \in Slots, syncedThrough < Closes(s), RetentionFloor <= Open(s)
       PROVE  CatchupStart <= Open(s)
  <2> HIDE DEF from
  <2>1. s \in Nat /\ Open(s) = 2 * s /\ Closes(s) = 2 * s + 2
    BY SlotFacts DEF Open, Closes
  <2>2. from < 2 * s + 2
    BY <1>2, <1>3, <1>6, <1>12, <2>1
  <2>3. CatchupStart < 2 * s + 2
    BY <1>6, <1>7, <2>1, <2>2
  <2>4. PICK m \in Nat : CatchupStart = 2 * m
    BY <1>7 DEF Whole
  <2> QED BY <2>1, <2>3, <2>4
<1> QED BY <1>2, <1>3, <1>4, <1>5, <1>7, <1>8, <1>10, <1>11, <1>12

-----------------------------------------------------------------------------
(* What every step does to the candles and to the exchange.                 *)

LEMMA PageTyped ==
  ASSUME HistoryTypeOK
  PROVE  /\ DOMAIN page \subseteq Slots
         /\ page \in [DOMAIN page -> {Forming, Final}]
         /\ page = NoPage <=> DOMAIN page = {}
<1>1. PICK S \in SUBSET Slots : page \in [S -> {Forming, Final}]
  BY DEF HistoryTypeOK
<1> QED BY <1>1, NoRows

LEMMA ClosedRowsFacts ==
  ASSUME HistoryTypeOK
  PROVE  /\ ClosedRows(page) \in [DOMAIN ClosedRows(page) -> {Forming, Final}]
         /\ DOMAIN ClosedRows(page) = {s \in DOMAIN page : Closed(s)}
         /\ \A s \in DOMAIN ClosedRows(page) : ClosedRows(page)[s] = page[s]
         /\ ClosedRows(page) = NoPage <=> DOMAIN ClosedRows(page) = {}
<1>1. /\ ClosedRows(page) \in [DOMAIN ClosedRows(page) -> {Forming, Final}]
      /\ DOMAIN ClosedRows(page) = {s \in DOMAIN page : Closed(s)}
      /\ \A s \in DOMAIN ClosedRows(page) : ClosedRows(page)[s] = page[s]
  BY PageTyped DEF ClosedRows
<1> QED BY <1>1, NoRows

\* A push of the collector, and a page of the reconciler.
LEMMA PushBatch ==
  ASSUME HistoryTypeOK, feed # <<>>
  PROVE  [s \in {Head(feed)} |-> Final] \in Batches("live")
<1>1. Head(feed) \in Slots
  BY DEF HistoryTypeOK
<1>2. {Head(feed)} \in {T \in SUBSET Slots : T # {} /\ ("live" = "live" => Cardinality(T) = 1)}
  BY <1>1, FS_Singleton
<1>3. [s \in {Head(feed)} |-> Final] \in [{Head(feed)} -> Versions]
  BY HistoryAssumption DEF Final
<1> QED BY <1>2, <1>3 DEF Batches

LEMMA PageBatch ==
  ASSUME HistoryTypeOK, IngestBase("rest", ClosedRows(page))
  PROVE  ClosedRows(page) \in Batches("rest")
<1> DEFINE D == DOMAIN ClosedRows(page)
<1>1. D # {}
  BY DEF IngestBase
<1>2. D \in SUBSET Slots
  BY PageTyped, ClosedRowsFacts
<1>3. ClosedRows(page) \in [D -> Versions]
  BY ClosedRowsFacts, HistoryAssumption DEF Forming, Final
<1> HIDE DEF D
<1>4. D \in {T \in SUBSET Slots : T # {} /\ ("rest" = "live" => Cardinality(T) = 1)}
  BY <1>1, <1>2
<1> QED BY <1>3, <1>4 DEF Batches

LEMMA WriterSteps ==
  ASSUME HistoryTypeOK, [HistoryNext]_vars
  PROVE  [Next]_ingestVars \/ Crash
<1>1. "live" \in Writers /\ "rest" \in Writers
  BY HistoryAssumption
<1>2. ASSUME HandlePush PROVE Next
  BY <1>1, <1>2, PushBatch DEF HandlePush, Next
<1>3. ASSUME BootstrapPage \/ CatchupPage PROVE [Next]_ingestVars
  BY <1>1, <1>3, PageBatch DEF BootstrapPage, CatchupPage, Next
<1>4. ASSUME DeriveLive \/ DeriveRest \/ LiveFails \/ RestFails PROVE Next
  BY <1>1, <1>4 DEF DeriveLive, DeriveRest, LiveFails, RestFails, Next
<1>5. ASSUME Tick \/ Index \/ Restart \/ ApiFails PROVE UNCHANGED ingestVars
  BY <1>5 DEF Tick, Index, Restart, ApiFails
<1>6. ASSUME BootstrapComplete \/ BootstrapAsk \/ BootstrapFloor \/ BootstrapAdvance
      PROVE  UNCHANGED ingestVars
  BY <1>6 DEF BootstrapComplete, BootstrapAsk, BootstrapFloor, BootstrapAdvance
<1>7. ASSUME \/ CatchupIdle \/ CatchupStored \/ CatchupAsk
             \/ CatchupAdvance \/ CatchupRetry \/ AskAgain
      PROVE  UNCHANGED ingestVars
  BY <1>7 DEF CatchupIdle, CatchupStored, CatchupAsk, CatchupAdvance, CatchupRetry, AskAgain
<1>8. CASE UNCHANGED vars
  BY <1>8 DEF vars
<1> QED BY <1>2, <1>3, <1>4, <1>5, <1>6, <1>7, <1>8
        DEF HistoryNext, Live, Reconcile, Bootstrap, Catchup

LEMMA CandlesStep ==
  ASSUME HistoryTypeOK, [HistoryNext]_vars
  PROVE  TypeOK' /\ \A s \in Slots : base[s] # 0 => base'[s] # 0
<1>1. TypeOK
  BY DEF HistoryTypeOK
<1>2. CASE [Next]_ingestVars
  BY <1>1, <1>2, IngestTypeStep, SlotStaysStored
<1>3. CASE Crash
  <2>1. /\ base' = base /\ derived' = derived
        /\ failures' \in 0..MaxFailures
    BY <1>1, <1>3, IngestionAssumption DEF Crash, candles, TypeOK
  <2>2. /\ step' \in [Writers -> {"idle", "read", "store"}]
        /\ todo' \in [Writers -> SUBSET Durations]
    BY <1>3 DEF Crash
  <2>3. touched' \in [Writers -> [from : Slots, until : 0..NumSlots]]
    BY <1>3, IngestionAssumption DEF Crash, Slots
  <2>4. DOMAIN found' = Writers /\ \A a \in Writers : DOMAIN found'[a] = {}
    BY <1>3 DEF Crash
  <2> QED BY <1>1, <2>1, <2>2, <2>3, <2>4 DEF TypeOK
<1> QED BY <1>2, <1>3, WriterSteps

LEMMA ExchangeStep ==
  ASSUME HistoryTypeOK, Clock, [HistoryNext]_vars
  PROVE  /\ now' \in 0..Horizon /\ now <= now' /\ gaps' = gaps
         /\ late \subseteq late' /\ late' \subseteq Slots
         /\ unindexed' \subseteq late'
         /\ feed' \in Seq(Slots)
<1> USE DEF HistoryTypeOK, Clock
<1>1. CASE Tick
  <2>1. now' = now + 1 /\ now' \in 0..Horizon /\ now <= now' /\ gaps' = gaps
    BY <1>1, SlotFacts DEF Tick
  <2>2. CASE \E s \in Slots \ gaps : Closes(s) = now'
    <3>1. PICK s \in Slots : Closes(s) = now'
      BY <2>2
    <3>2. (now' \div 2) - 1 = s
      <4>1. s \in Nat /\ now' = 2 * (s + 1)
        BY <3>1, SlotFacts DEF Closes
      <4>2. now' \in Nat /\ now' % 2 \in 0..1 /\ now' \div 2 \in Nat
            /\ now' = 2 * (now' \div 2) + (now' % 2)
        BY <4>1, Quotient
      <4> QED BY <4>1, <4>2
    <3>3. feed' \in {feed, Append(feed, s)}
      BY <1>1, <2>2, <3>2 DEF Tick
    <3>4. feed' \in Seq(Slots)
      BY <3>1, <3>3
    <3>5. \/ unindexed' = unindexed /\ late' = late
          \/ late' = late \cup {s} /\ unindexed' = unindexed \cup {s}
      BY <1>1, <2>2, <3>2 DEF Tick
    <3> QED BY <2>1, <3>1, <3>4, <3>5
  <2>3. CASE ~\E s \in Slots \ gaps : Closes(s) = now'
    BY <1>1, <2>1, <2>3 DEF Tick
  <2> QED BY <2>2, <2>3
<1>2. CASE Index
  BY <1>2, SlotFacts DEF Index
<1>3. CASE HandlePush
  BY <1>3, SlotFacts DEF HandlePush, exchange
<1>4. CASE LiveFails \/ Crash
  <2>1. feed' = <<>> /\ now' = now /\ exchange' = exchange
    BY <1>4 DEF LiveFails, Crash
  <2> QED BY <2>1, SlotFacts DEF exchange
<1>5. CASE now' = now /\ exchange' = exchange /\ feed' = feed
  BY <1>5, SlotFacts DEF exchange
<1>6. ASSUME ~Tick, ~Index, ~HandlePush, ~LiveFails, ~Crash
      PROVE  now' = now /\ exchange' = exchange /\ feed' = feed
  <2>1. ASSUME DeriveLive \/ DeriveRest \/ RestFails \/ Restart \/ ApiFails
        PROVE  now' = now /\ exchange' = exchange /\ feed' = feed
    BY <2>1 DEF DeriveLive, DeriveRest, RestFails, Restart, ApiFails
  <2>2. ASSUME Bootstrap PROVE now' = now /\ exchange' = exchange /\ feed' = feed
    BY <2>2 DEF Bootstrap, BootstrapComplete, BootstrapAsk, BootstrapFloor, BootstrapPage,
                BootstrapAdvance
  <2>3. ASSUME Catchup PROVE now' = now /\ exchange' = exchange /\ feed' = feed
    BY <2>3 DEF Catchup, CatchupIdle, CatchupStored, CatchupAsk, CatchupPage,
                CatchupAdvance, CatchupRetry, AskAgain
  <2> QED BY <1>6, <2>1, <2>2, <2>3 DEF HistoryNext, Live, Reconcile, vars
<1> QED BY <1>1, <1>2, <1>3, <1>4, <1>5, <1>6

-----------------------------------------------------------------------------
(* Which steps move the reconciler, and which its watermarks.               *)

\* What goes on around the reconciler: the exchange, the collector, and the
\* derivations of its own ingestion.
Around == \/ Tick \/ Index \/ HandlePush \/ DeriveLive \/ DeriveRest
          \/ LiveFails \/ Restart \/ UNCHANGED vars

\* The round, or the step of it, ends with the watermarks where they were.
StepEnds == \/ BootstrapComplete \/ CatchupIdle \/ RestFails \/ Crash
            \/ ApiFails /\ at # "retry"

PassesChunk == CatchupAdvance \/ (ApiFails /\ at = "retry")

Moves == \/ BootstrapAsk \/ BootstrapFloor \/ BootstrapPage \/ BootstrapAdvance
         \/ CatchupStored \/ CatchupAsk \/ CatchupPage \/ CatchupRetry \/ AskAgain
         \/ PassesChunk

LEMMA StepKinds ==
  ASSUME [HistoryNext]_vars
  PROVE  Around \/ StepEnds \/ Moves
BY DEF HistoryNext, Live, Reconcile, Bootstrap, Catchup, Around, StepEnds, Moves, PassesChunk

LEMMA AroundLeaves ==
  ASSUME Around
  PROVE  /\ at' = at /\ page' = page /\ goal' = goal /\ chunk' = chunk /\ retried' = retried
         /\ syncedFrom' = syncedFrom /\ syncedThrough' = syncedThrough
         /\ apiErrors' = apiErrors /\ (up' = up \/ up' = TRUE)
BY DEF Around, Tick, Index, HandlePush, DeriveLive, DeriveRest, LiveFails, Restart,
       vars, locals, watermarks

LEMMA StepEndsLeaves ==
  ASSUME StepEnds
  PROVE  /\ at' \in {"bootstrap", "catchup"}
         /\ page' = page \/ page' = NoPage
         /\ goal' \in {goal, 0} /\ chunk' \in {chunk, NoChunk} /\ retried' \in {retried, FALSE}
         /\ syncedFrom' = syncedFrom /\ syncedThrough' = syncedThrough
         /\ apiErrors' = apiErrors \/ (apiErrors < MaxApiErrors /\ apiErrors' = apiErrors + 1)
         /\ up' \in {up, FALSE}
<1>1. CASE BootstrapComplete \/ CatchupIdle
  BY <1>1 DEF BootstrapComplete, CatchupIdle, locals, watermarks
<1>2. CASE RestFails \/ Crash
  BY <1>2 DEF RestFails, Crash, NewRound, watermarks
<1>3. CASE ApiFails /\ at # "retry"
  BY <1>3 DEF ApiFails, locals, watermarks
<1> QED BY <1>1, <1>2, <1>3 DEF StepEnds

LEMMA PassesChunkMoves ==
  ASSUME PassesChunk
  PROVE  /\ at \in {"ingested", "retry"} /\ at' = "bootstrap" /\ up' = up
         /\ at = "retry" \/ step["rest"] = "idle"
         /\ syncedThrough' = chunk.end /\ syncedFrom' = syncedFrom
         /\ page' = page /\ goal' = goal /\ chunk' = NoChunk /\ retried' = FALSE
         /\ apiErrors' = apiErrors \/ (apiErrors < MaxApiErrors /\ apiErrors' = apiErrors + 1)
         /\ UNCHANGED <<base, gaps, late>> /\ now' = now
<1>1. CASE CatchupAdvance
  BY <1>1 DEF CatchupAdvance, PassChunk, ingestVars, candles, exchange
<1>2. CASE ApiFails /\ at = "retry"
  BY <1>2 DEF ApiFails, PassChunk, ingestVars, candles, exchange
<1> QED BY <1>1, <1>2 DEF PassesChunk

(* The type invariant is preserved by every step that keeps the frontier    *)
(* over the rows of the page.                                               *)
LEMMA HistoryTypeStep ==
  ASSUME HistoryTypeOK, HistoryInv, [HistoryNext]_vars
  PROVE  HistoryTypeOK'
<1> DEFINE Reconciler ==
             /\ apiErrors \in 0..MaxApiErrors /\ up \in BOOLEAN
             /\ syncedFrom \in 0..Horizon /\ syncedThrough \in 0..Horizon
             /\ at \in {"bootstrap", "bootPage", "bootIngested", "catchup", "page",
                        "ingested", "retry"}
             /\ \E S \in SUBSET Slots : page \in [S -> {Forming, Final}]
             /\ goal \in 0..Horizon /\ chunk \in [start : 0..Horizon, end : 0..Horizon]
             /\ retried \in BOOLEAN
<1>1. Reconciler
  BY DEF HistoryTypeOK
<1>2. Horizon \in Nat /\ now \in 0..Horizon /\ MaxApiErrors \in Nat
  BY SlotFacts, HistoryAssumption DEF HistoryTypeOK
<1>3. 0 \in 0..Horizon /\ NoChunk \in [start : 0..Horizon, end : 0..Horizon]
  BY <1>2 DEF NoChunk
<1>4. \E S \in SUBSET Slots : NoPage \in [S -> {Forming, Final}]
  <2>1. NoPage \in [{} -> {Forming, Final}]
    BY DEF NoPage
  <2> QED BY <2>1
<1>5. \A start, end : \E S \in SUBSET Slots : Answer(start, end) \in [S -> {Forming, Final}]
  BY PageRows, ServedSubset
<1>6. Reconciler'
  <2>1. CASE Around
    BY <1>1, <2>1, AroundLeaves
  <2>2. CASE StepEnds
    <3>1. apiErrors' \in 0..MaxApiErrors
      BY <1>1, <1>2, <2>2, StepEndsLeaves
    <3>2. \E S \in SUBSET Slots : page' \in [S -> {Forming, Final}]
      BY <1>1, <1>4, <2>2, StepEndsLeaves
    <3>3. goal' \in 0..Horizon /\ chunk' \in [start : 0..Horizon, end : 0..Horizon]
      BY <1>1, <1>3, <2>2, StepEndsLeaves
    <3>4. up' \in BOOLEAN /\ retried' \in BOOLEAN
      BY <1>1, <2>2, StepEndsLeaves
    <3> QED BY <1>1, <2>2, <3>1, <3>2, <3>3, <3>4, StepEndsLeaves
  <2>3. CASE PassesChunk
    <3>1. chunk.end \in 0..Horizon
      BY <1>1
    <3>2. apiErrors' \in 0..MaxApiErrors
      BY <1>1, <1>2, <2>3, PassesChunkMoves
    <3> QED BY <1>1, <1>3, <2>3, <3>1, <3>2, PassesChunkMoves
  <2>4. CASE BootstrapAsk
    <3>1. EffectiveTarget \in 0..Horizon
      BY TargetFacts DEF HistoryInv
    <3> QED BY <1>1, <1>5, <2>4, <3>1 DEF BootstrapAsk, watermarks
  <2>5. CASE BootstrapFloor
    BY <1>1, <2>5 DEF BootstrapFloor, locals
  <2>6. CASE BootstrapPage
    BY <1>1, <2>6 DEF BootstrapPage, watermarks, locals
  <2>7. CASE BootstrapAdvance
    <3>1. DOMAIN page # {} /\ DOMAIN page \subseteq Slots
      BY <2>7, PageTyped DEF BootstrapAdvance, HistoryInv, BootPageWhole
    <3>2. Open(Oldest(page)) \in 0..Horizon
      <4>1. Oldest(page) \in Slots
        BY <3>1, OldestRow
      <4>2. \A s \in Slots : Open(s) \in 0..Horizon
        BY SlotFacts
      <4> QED BY <4>1, <4>2
    <3> QED BY <1>1, <1>4, <2>7, <3>2 DEF BootstrapAdvance
  <2>8. CASE CatchupStored
    <3>1. ChunkEnd \in 0..Horizon
      BY <1>2, TargetFacts DEF HistoryInv
    <3> QED BY <1>1, <2>8, <3>1 DEF CatchupStored, locals
  <2>9. CASE CatchupAsk
    <3>1. CatchupStart \in 0..Horizon /\ ChunkEnd \in 0..Horizon
      BY <1>2, TargetFacts DEF HistoryInv
    <3> QED BY <1>1, <1>5, <2>9, <3>1 DEF CatchupAsk, watermarks
  <2>10. CASE CatchupPage
    BY <1>1, <1>4, <2>10 DEF CatchupPage, watermarks
  <2>11. CASE CatchupRetry
    BY <1>1, <2>11 DEF CatchupRetry, watermarks
  <2>12. CASE AskAgain
    BY <1>1, <1>5, <2>12 DEF AskAgain, watermarks
  <2> QED BY <2>1, <2>2, <2>3, <2>4, <2>5, <2>6, <2>7, <2>8, <2>9, <2>10, <2>11, <2>12,
             StepKinds DEF Moves
<1>7. /\ TypeOK' /\ now' \in 0..Horizon /\ gaps' \subseteq Slots /\ unindexed' \subseteq Slots
      /\ late' \subseteq Slots /\ feed' \in Seq(Slots)
  BY CandlesStep, ExchangeStep DEF HistoryTypeOK, HistoryInv
<1> QED BY <1>6, <1>7 DEF HistoryTypeOK

-----------------------------------------------------------------------------
(* The conjuncts of the invariant, each against the steps that disturb it.  *)

LEMMA AvailableShrinks ==
  ASSUME HistoryTypeOK, Clock, [HistoryNext]_vars
  PROVE  Available' \subseteq Available /\ Available' \subseteq Slots
BY ExchangeStep DEF Available

\* What REST holds of a candle of the past it serves on time.
LEMMA AvailableIsServed ==
  ASSUME HistoryTypeOK, Clock, NEW start, NEW end,
         NEW s \in Available, Open(s) < end, start < Closes(s), Open(s) <= now
  PROVE  s \in Served(start, end)
BY DEF Clock, Available, Served

\* The oldest row of a bootstrap page lies before the frontier.
LEMMA AdvanceMovesBack ==
  ASSUME HistoryTypeOK, HistoryInv, BootstrapAdvance
  PROVE  /\ Oldest(page) \in DOMAIN page /\ \A u \in DOMAIN page : Oldest(page) <= u
         /\ syncedFrom' = Open(Oldest(page)) /\ syncedFrom' < syncedFrom
<1>1. DOMAIN page # {} /\ DOMAIN page \subseteq Slots
  BY PageTyped DEF BootstrapAdvance, HistoryInv, BootPageWhole
<1>2. Oldest(page) \in DOMAIN page /\ \A u \in DOMAIN page : Oldest(page) <= u
  BY <1>1, OldestRow
<1> QED BY <1>2 DEF BootstrapAdvance, HistoryInv, BootPageWhole

LEMMA FrontiersStep ==
  ASSUME HistoryTypeOK, HistoryInv, [HistoryNext]_vars
  PROVE  syncedFrom' <= syncedFrom /\ syncedThrough <= syncedThrough' /\ syncedThrough' <= now'
<1>1. /\ Horizon \in Nat /\ syncedFrom \in 0..Horizon /\ syncedThrough \in 0..Horizon
      /\ now \in 0..Horizon /\ now' \in 0..Horizon /\ now <= now' /\ syncedThrough <= now
  BY ExchangeStep, SlotFacts DEF HistoryTypeOK, HistoryInv, Clock
<1>2. CASE Around
  BY <1>1, <1>2, AroundLeaves
<1>3. CASE StepEnds
  BY <1>1, <1>3, StepEndsLeaves
<1>4. CASE PassesChunk
  <2>1. syncedThrough <= chunk.end /\ chunk.end <= now
    BY <1>4, PassesChunkMoves DEF HistoryInv, ChunkWhole
  <2> QED BY <1>1, <1>4, <2>1, PassesChunkMoves
<1>5. CASE BootstrapFloor
  <2>1. goal < syncedFrom /\ goal \in 0..Horizon
    BY <1>5 DEF BootstrapFloor, HistoryInv, BootPageWhole, HistoryTypeOK
  <2> QED BY <1>1, <1>5, <2>1 DEF BootstrapFloor
<1>6. CASE BootstrapAdvance
  <2>1. syncedFrom' < syncedFrom
    BY <1>6, AdvanceMovesBack
  <2>2. syncedFrom' \in 0..Horizon
    BY HistoryTypeStep DEF HistoryTypeOK
  <2> QED BY <1>1, <1>6, <2>1, <2>2 DEF BootstrapAdvance
<1>7. CASE CatchupStored
  <2>1. syncedThrough < TargetEnd /\ syncedThrough' = ChunkEnd
    BY <1>1, <1>7, TargetFacts DEF CatchupStored, NothingToCatchUp, HistoryInv
  <2> QED BY <1>1, <1>7, <2>1, TargetFacts DEF CatchupStored, HistoryInv
<1>8. CASE \/ BootstrapAsk \/ BootstrapPage
           \/ CatchupAsk \/ CatchupPage \/ CatchupRetry \/ AskAgain
  BY <1>1, <1>8 DEF BootstrapAsk, BootstrapPage, CatchupAsk, CatchupPage, CatchupRetry,
                    AskAgain, watermarks
<1> QED BY <1>2, <1>3, <1>4, <1>5, <1>6, <1>7, <1>8, StepKinds DEF Moves

LEMMA ClockStep ==
  ASSUME HistoryTypeOK, HistoryInv, [HistoryNext]_vars
  PROVE  Clock'
<1>1. /\ Horizon \in Nat /\ Discovered \in Nat
      /\ syncedFrom \in 0..Horizon /\ syncedThrough \in 0..Horizon /\ now \in 0..Horizon
      /\ syncedFrom' \in 0..Horizon /\ syncedThrough' \in 0..Horizon /\ now' \in 0..Horizon
  BY HistoryTypeStep, SlotFacts DEF HistoryTypeOK
<1> QED BY <1>1, FrontiersStep, ExchangeStep DEF HistoryInv, Clock

(* The rows of a page are final, but for the candle forming at discovery.   *)
LEMMA OneFormingStep ==
  ASSUME HistoryTypeOK, HistoryInv, [HistoryNext]_vars
  PROVE  OneForming'
<1>1. ASSUME NEW s \in Slots, base'[s] = Forming
      PROVE  FormingAtDiscovery(s)
  <2>1. CASE base'[s] = base[s]
    BY <1>1, <2>1 DEF HistoryInv, OneForming
  <2>2. CASE HandlePush
    BY <1>1, <2>2 DEF HandlePush, IngestBase, HistoryInv, OneForming, Forming, Final
  <2>3. CASE BootstrapPage \/ CatchupPage
    <3>1. \/ base' = base
          \/ IngestBase("rest", ClosedRows(page))
      BY <2>3 DEF BootstrapPage, CatchupPage, ingestVars, candles
    <3>2. CASE s \in DOMAIN ClosedRows(page) /\ IngestBase("rest", ClosedRows(page))
      <4>1. page[s] = Forming /\ s \in DOMAIN page
        BY <1>1, <3>2, ClosedRowsFacts DEF IngestBase
      <4> QED BY <4>1 DEF HistoryInv, OneForming
    <3>3. CASE s \notin DOMAIN ClosedRows(page) /\ IngestBase("rest", ClosedRows(page))
      BY <1>1, <3>3 DEF IngestBase, HistoryInv, OneForming
    <3> QED BY <1>1, <3>1, <3>2, <3>3 DEF HistoryInv, OneForming
  <2>4. ASSUME ~HandlePush, ~BootstrapPage, ~CatchupPage
        PROVE  base' = base
    <3>1. CASE Around
      BY <2>4, <3>1 DEF Around, Tick, Index, DeriveLive, DeriveRest, Derive, ReadWindows,
                        StoreWindows, LiveFails, Abandon, Restart, vars, ingestVars, candles
    <3>2. CASE StepEnds
      BY <3>2 DEF StepEnds, BootstrapComplete, CatchupIdle, RestFails, Abandon, Crash, ApiFails,
                  ingestVars, candles
    <3>3. CASE Moves
      BY <2>4, <3>3 DEF Moves, PassesChunk, BootstrapAsk, BootstrapFloor, BootstrapAdvance,
                        CatchupStored, CatchupAsk, CatchupRetry, AskAgain, CatchupAdvance,
                        ApiFails, ingestVars, candles
    <3> QED BY <3>1, <3>2, <3>3, StepKinds
  <2> QED BY <2>1, <2>2, <2>3, <2>4
<1>2. ASSUME NEW s \in DOMAIN page', page'[s] = Forming
      PROVE  FormingAtDiscovery(s)
  <2>1. CASE page' = page
    BY <1>2, <2>1 DEF HistoryInv, OneForming
  <2>2. CASE page' = NoPage
    BY <1>2, <2>2, SlotFacts DEF NoPage
  <2>3. CASE BootstrapAsk
    <3>1. s \in Slots /\ Open(s) < syncedFrom /\ ~Closed(s)
      BY <1>2, <2>3, PageRows DEF BootstrapAsk, Served, Forming, Final
    <3>2. /\ Discovered \in Nat /\ syncedFrom \in 0..Horizon /\ Horizon \in Nat
          /\ now \in 0..Horizon /\ Discovered <= now /\ syncedFrom <= Discovered
          /\ Open(s) \in Nat /\ Closes(s) \in Nat
      BY <3>1, SlotFacts DEF HistoryTypeOK, HistoryInv, Clock
    <3> QED BY <3>1, <3>2 DEF Closed, FormingAtDiscovery
  <2>4. CASE CatchupAsk \/ AskAgain
    <3>1. PICK start \in Nat, end \in Nat :
            page' = Answer(start, end) /\ end <= now /\ Whole(end)
      BY <2>4, TargetFacts, SlotFacts
         DEF CatchupAsk, AskAgain, HistoryInv, ChunkWhole, HistoryTypeOK
    <3>2. s \in Slots /\ Open(s) < end /\ ~Closed(s)
      BY <1>2, <3>1, PageRows DEF Served, Forming, Final
    <3>3. PICK m \in Nat : end = 2 * m
      BY <3>1 DEF Whole
    <3>4. Closes(s) <= end
      BY <3>2, <3>3, SlotFacts DEF Open, Closes
    <3>5. now \in Nat /\ Closes(s) \in Nat
      BY <3>2, SlotFacts DEF HistoryTypeOK
    <3> QED BY <3>1, <3>2, <3>4, <3>5 DEF Closed
  <2>5. CASE Moves /\ ~BootstrapAsk /\ ~CatchupAsk /\ ~AskAgain
    BY <2>1, <2>2, <2>5, PassesChunkMoves
       DEF Moves, BootstrapFloor, BootstrapPage, BootstrapAdvance, CatchupStored,
           CatchupPage, CatchupRetry, locals
  <2> QED BY <2>1, <2>2, <2>3, <2>4, <2>5, StepKinds, AroundLeaves, StepEndsLeaves
<1> QED BY <1>1, <1>2 DEF OneForming, FormingAtDiscovery

LEMMA PastStoredStep ==
  ASSUME HistoryTypeOK, HistoryInv, [HistoryNext]_vars
  PROVE  PastStored'
<1> SUFFICES ASSUME NEW s \in Available', syncedFrom' <= Open(s), Closes(s) <= Discovered
             PROVE  base'[s] # 0
  BY DEF PastStored, Open, Closes
<1>1. /\ s \in Available /\ s \in Slots
      /\ Open(s) \in Nat /\ Closes(s) \in Nat /\ Closes(s) = Open(s) + 2
  BY AvailableShrinks, SlotFacts DEF HistoryInv
<1>2. /\ Horizon \in Nat /\ Discovered \in Nat /\ now \in 0..Horizon /\ Discovered <= now
      /\ syncedFrom \in 0..Horizon /\ syncedFrom <= Discovered
  BY SlotFacts DEF HistoryTypeOK, HistoryInv, Clock
<1>3. CASE syncedFrom <= Open(s)
  <2>1. base[s] # 0
    BY <1>1, <1>3 DEF HistoryInv, PastStored
  <2> QED BY <1>1, <2>1, CandlesStep
<1>4. CASE BootstrapFloor /\ Open(s) < syncedFrom
  <2>1. goal \in 0..Horizon /\ goal <= Open(s) /\ at = "bootPage" /\ page = NoPage
    BY <1>4 DEF BootstrapFloor, HistoryTypeOK
  <2>2. goal < Closes(s)
    BY <1>1, <1>2, <2>1
  <2>3. s \in DOMAIN page
    BY <1>1, <1>4, <2>1, <2>2 DEF HistoryInv, BootPageWhole
  <2> QED BY <2>1, <2>3, PageTyped
<1>5. CASE BootstrapAdvance /\ Open(s) < syncedFrom
  <2>1. Oldest(page) \in DOMAIN page /\ syncedFrom' = Open(Oldest(page))
    BY <1>5, AdvanceMovesBack
  <2>2. Oldest(page) \in Slots /\ at = "bootIngested"
    BY <1>5, <2>1, PageTyped DEF BootstrapAdvance
  <2>3. Oldest(page) <= s
    <3>1. Oldest(page) \in Nat /\ s \in Nat
      BY <1>1, <2>2, SlotFacts
    <3> QED BY <2>1, <3>1 DEF Open
  <2>4. goal < Closes(Oldest(page))
    BY <2>1, <2>2 DEF HistoryInv, BootPageWhole
  <2>5. goal < Closes(s)
    <3>1. Oldest(page) \in Nat /\ s \in Nat /\ goal \in 0..Horizon
      BY <1>1, <2>2, SlotFacts DEF HistoryTypeOK
    <3> QED BY <1>2, <2>3, <2>4, <3>1 DEF Closes
  <2>6. s \in DOMAIN page
    BY <1>1, <1>5, <2>1, <2>2, <2>3, <2>5 DEF HistoryInv, BootPageWhole
  <2>7. base[s] # 0
    BY <2>2, <2>6 DEF HistoryInv, BootPageWhole
  <2> QED BY <1>1, <2>7, CandlesStep
<1>6. ASSUME ~BootstrapFloor, ~BootstrapAdvance PROVE syncedFrom' = syncedFrom
  BY <1>6, StepKinds, AroundLeaves, StepEndsLeaves, PassesChunkMoves
     DEF Moves, BootstrapAsk, BootstrapPage, CatchupStored, CatchupAsk, CatchupPage,
         CatchupRetry, AskAgain, watermarks
<1>7. Open(s) < syncedFrom \/ syncedFrom <= Open(s)
  BY <1>1, <1>2
<1> QED BY <1>3, <1>4, <1>5, <1>6, <1>7

LEMMA PresentStoredStep ==
  ASSUME HistoryTypeOK, HistoryInv, [HistoryNext]_vars
  PROVE  PresentStored'
<1> SUFFICES ASSUME NEW s \in Available', Discovered < Closes(s),
                    Closes(s) <= syncedThrough', RetentionFloor' <= Open(s)
             PROVE  base'[s] # 0
  BY DEF PresentStored, Open, Closes
<1>1. /\ s \in Available /\ s \in Slots
      /\ Open(s) \in Nat /\ Closes(s) \in Nat /\ Closes(s) = Open(s) + 2
  BY AvailableShrinks, SlotFacts DEF HistoryInv
<1>2. /\ Horizon \in Nat /\ syncedThrough \in 0..Horizon
      /\ now \in 0..Horizon /\ now' \in 0..Horizon /\ now <= now' /\ Retention \in Nat
  BY ExchangeStep, SlotFacts DEF HistoryTypeOK, HistoryInv
<1>3. RetentionFloor <= Open(s)
  BY <1>1, <1>2 DEF RetentionFloor
<1>4. CASE Closes(s) <= syncedThrough
  <2>1. base[s] # 0
    BY <1>1, <1>3, <1>4 DEF HistoryInv, PresentStored
  <2> QED BY <1>1, <2>1, CandlesStep
<1>5. CASE PassesChunk /\ syncedThrough < Closes(s)
  <2>1. at \in {"ingested", "retry"} /\ syncedThrough' = chunk.end
    BY <1>5, PassesChunkMoves
  <2>2. InChunk(s)
    BY <1>1, <1>3, <1>5, <2>1 DEF HistoryInv, ChunkWhole, InChunk
  <2>3. base[s] # 0
    BY <1>1, <2>1, <2>2 DEF HistoryInv, ChunkWhole
  <2> QED BY <1>1, <2>3, CandlesStep
<1>6. CASE CatchupStored /\ syncedThrough < Closes(s)
  <2>1. Stored(CatchupStart, ChunkEnd) /\ syncedThrough' = ChunkEnd
    BY <1>6 DEF CatchupStored
  <2>2. CatchupStart <= Open(s)
    BY <1>1, <1>3, <1>6, TargetFacts DEF HistoryInv
  <2>3. base[s] # 0
    BY <1>1, <2>1, <2>2 DEF Stored
  <2> QED BY <1>1, <2>3, CandlesStep
<1>7. ASSUME ~PassesChunk, ~CatchupStored PROVE syncedThrough' = syncedThrough
  BY <1>7, StepKinds, AroundLeaves, StepEndsLeaves
     DEF Moves, BootstrapAsk, BootstrapFloor, BootstrapPage, BootstrapAdvance, CatchupAsk,
         CatchupPage, CatchupRetry, AskAgain, watermarks
<1>8. syncedThrough < Closes(s) \/ Closes(s) <= syncedThrough
  BY <1>1, <1>2
<1> QED BY <1>4, <1>5, <1>6, <1>7, <1>8

LEMMA BootPageWholeStep ==
  ASSUME HistoryTypeOK, HistoryInv, [HistoryNext]_vars
  PROVE  BootPageWhole'
<1> SUFFICES ASSUME at' \in {"bootPage", "bootIngested"} PROVE BootPageWhole'
  BY DEF BootPageWhole
<1>1. /\ Available' \subseteq Available /\ Available' \subseteq Slots
      /\ DOMAIN page \subseteq Slots
      /\ \A s \in Slots : base[s] # 0 => base'[s] # 0
  BY AvailableShrinks, CandlesStep, PageTyped DEF HistoryInv
<1>2. CASE Around
  <2>1. at' = at /\ page' = page /\ goal' = goal /\ syncedFrom' = syncedFrom
    BY <1>2, AroundLeaves
  <2> QED BY <1>1, <2>1 DEF HistoryInv, BootPageWhole, Open, Closes
<1>3. CASE BootstrapAsk
  <2>1. /\ at' = "bootPage" /\ goal' = EffectiveTarget /\ syncedFrom' = syncedFrom
        /\ page' = Answer(EffectiveTarget, syncedFrom)
        /\ now' = now
    BY <1>3 DEF BootstrapAsk, watermarks
  <2>2. goal' < syncedFrom'
    <3>1. EffectiveTarget \in Nat /\ syncedFrom \in 0..Horizon /\ Horizon \in Nat
      BY TargetFacts, SlotFacts DEF HistoryInv, HistoryTypeOK
    <3> QED BY <1>3, <2>1, <3>1 DEF BootstrapAsk
  <2>3. \A u \in DOMAIN page' : Open(u) < syncedFrom' /\ goal' < Closes(u)
    BY <2>1, PageRows DEF Served
  <2>4. ASSUME NEW s \in Available', Open(s) < syncedFrom', goal' < Closes(s),
               page' = NoPage \/ \E u \in DOMAIN page' : u <= s
        PROVE  s \in DOMAIN page'
    <3>1. s \in Available /\ Open(s) <= now
      <4>1. /\ Horizon \in Nat /\ Discovered \in Nat /\ now \in 0..Horizon /\ Discovered <= now
            /\ syncedFrom \in 0..Horizon /\ syncedFrom <= Discovered
            /\ s \in Available /\ Open(s) \in Nat
        BY <1>1, SlotFacts DEF HistoryTypeOK, HistoryInv, Clock
      <4> QED BY <2>1, <2>4, <4>1
    <3>2. s \in Served(EffectiveTarget, syncedFrom)
      BY <2>1, <2>4, <3>1, AvailableIsServed DEF HistoryInv
    <3>3. DOMAIN page' # {}
      BY <2>1, <3>2, PageEmptyIfNothingServed
    <3>4. page' # NoPage
      BY <3>3 DEF NoPage
    <3> QED BY <2>1, <2>4, <3>2, <3>4, PageIsNewest
  <2> QED BY <2>1, <2>2, <2>3, <2>4 DEF BootPageWhole, Open, Closes
<1>4. CASE BootstrapPage
  <2>1. /\ at = "bootPage" /\ at' = "bootIngested" /\ page # NoPage
        /\ page' = page /\ goal' = goal /\ syncedFrom' = syncedFrom
    BY <1>4 DEF BootstrapPage, watermarks, locals
  <2>2. ASSUME NEW s \in DOMAIN page, Closes(s) <= Discovered
        PROVE  base'[s] # 0
    <3>1. Closed(s) /\ s \in Slots
      <4>1. /\ Horizon \in Nat /\ Discovered \in Nat /\ now \in 0..Horizon /\ Discovered <= now
            /\ s \in Slots /\ Closes(s) \in Nat
        BY <1>1, SlotFacts DEF HistoryTypeOK, HistoryInv, Clock
      <4> QED BY <2>2, <4>1 DEF Closed
    <3>2. s \in DOMAIN ClosedRows(page)
      BY <3>1, ClosedRowsFacts
    <3>3. IngestBase("rest", ClosedRows(page))
      BY <1>4, <3>2, ClosedRowsFacts DEF BootstrapPage
    <3>4. base'[s] = page[s]
      BY <3>1, <3>2, <3>3, ClosedRowsFacts DEF IngestBase
    <3> QED BY <3>4, PageTyped DEF Forming, Final
  <2> QED BY <1>1, <2>1, <2>2 DEF HistoryInv, BootPageWhole, Open, Closes
<1>5. CASE StepEnds
  BY <1>5, StepEndsLeaves
<1>6. CASE Moves /\ ~BootstrapAsk /\ ~BootstrapPage
  BY <1>6, PassesChunkMoves
     DEF Moves, BootstrapFloor, BootstrapAdvance, CatchupStored, CatchupAsk, CatchupPage,
         CatchupRetry, AskAgain
<1> QED BY <1>2, <1>3, <1>4, <1>5, <1>6, StepKinds

\* What a request of the chunk [start, end) brings.
LEMMA ChunkAnswered ==
  ASSUME HistoryTypeOK, Clock, NEW start \in Nat, NEW end \in Nat, Whole(start), Whole(end),
         end <= start + 2 * PageSize, end <= now,
         NEW s \in Available, start <= Open(s), Closes(s) <= end
  PROVE  s \in DOMAIN Answer(start, end)
<1>1. s \in Slots /\ now \in Nat /\ Open(s) \in Nat /\ Closes(s) = Open(s) + 2
  BY SlotFacts DEF Available, HistoryTypeOK
<1>2. Open(s) < end /\ start < Closes(s) /\ Open(s) <= now
  BY <1>1
<1>3. s \in Served(start, end)
  BY <1>2, AvailableIsServed
<1> QED BY <1>3, ChunkFitsPage

LEMMA ChunkWholeStep ==
  ASSUME HistoryTypeOK, HistoryInv, [HistoryNext]_vars
  PROVE  ChunkWhole'
<1> SUFFICES ASSUME at' \in {"page", "ingested", "retry"} PROVE ChunkWhole'
  BY DEF ChunkWhole
<1>1. /\ Available' \subseteq Available /\ Available' \subseteq Slots
      /\ \A s \in Slots : base[s] # 0 => base'[s] # 0
      /\ DOMAIN page \subseteq Slots
  BY AvailableShrinks, CandlesStep, PageTyped DEF HistoryInv
<1>2. /\ Horizon \in Nat /\ now \in 0..Horizon /\ now' \in 0..Horizon /\ now <= now'
      /\ Retention \in Nat /\ chunk.end \in Nat /\ chunk.start \in Nat
      /\ \A s \in Slots : Open(s) \in Nat /\ Closes(s) \in Nat
  BY ExchangeStep, SlotFacts DEF HistoryTypeOK, HistoryInv
<1>3. \A s \in Slots : RetentionFloor' <= Open(s) => RetentionFloor <= Open(s)
  BY <1>2 DEF RetentionFloor
<1>4. ASSUME at \in {"page", "ingested", "retry"}, chunk' = chunk, syncedThrough' = syncedThrough,
             \A s \in Available' : InChunk(s) =>
                IF at' = "page" THEN s \in DOMAIN page' ELSE base'[s] # 0
      PROVE  ChunkWhole'
  <2>1. chunk.end <= now'
    BY <1>2, <1>4 DEF HistoryInv, ChunkWhole
  <2>2. \A s \in Slots : syncedThrough < Closes(s) /\ RetentionFloor' <= Open(s)
                         => chunk.start <= Open(s)
    BY <1>3, <1>4 DEF HistoryInv, ChunkWhole
  <2>3. /\ syncedThrough <= chunk.end /\ Whole(chunk.start) /\ Whole(chunk.end)
        /\ chunk.end <= chunk.start + 2 * PageSize
    BY <1>4 DEF HistoryInv, ChunkWhole
  <2> QED BY <1>4, <2>1, <2>2, <2>3 DEF ChunkWhole, InChunk, Open, Closes, Whole
<1>5. CASE Around
  <2>1. at' = at /\ page' = page /\ chunk' = chunk /\ syncedThrough' = syncedThrough
    BY <1>5, AroundLeaves
  <2>2. \A s \in Available' : InChunk(s) =>
           IF at' = "page" THEN s \in DOMAIN page' ELSE base'[s] # 0
    BY <1>1, <2>1 DEF HistoryInv, ChunkWhole
  <2> QED BY <1>4, <2>1, <2>2
<1>6. CASE CatchupAsk
  <2>1. /\ at' = "page" /\ now' = now /\ syncedThrough' = syncedThrough
        /\ chunk' = [start |-> CatchupStart, end |-> ChunkEnd]
        /\ page' = Answer(CatchupStart, ChunkEnd)
        /\ syncedThrough < TargetEnd
    <3>1. TargetEnd \in Nat /\ syncedThrough \in 0..Horizon
      BY TargetFacts DEF HistoryInv, HistoryTypeOK
    <3> QED BY <1>2, <1>6, <3>1 DEF CatchupAsk, NothingToCatchUp, watermarks
  <2>2. /\ CatchupStart \in Nat /\ ChunkEnd \in Nat /\ ChunkEnd <= now
        /\ Whole(CatchupStart) /\ Whole(ChunkEnd)
        /\ ChunkEnd <= CatchupStart + 2 * PageSize /\ syncedThrough <= ChunkEnd
        /\ \A s \in Slots : syncedThrough < Closes(s) /\ RetentionFloor <= Open(s)
                            => CatchupStart <= Open(s)
    BY <2>1, TargetFacts DEF HistoryInv
  <2>3. \A s \in Available' : CatchupStart <= Open(s) /\ Closes(s) <= ChunkEnd
                              => s \in DOMAIN page'
    BY <1>1, <2>1, <2>2, ChunkAnswered DEF HistoryInv
  <2>4. chunk'.start = CatchupStart /\ chunk'.end = ChunkEnd
    BY <2>1
  <2> HIDE DEF CatchupStart, ChunkEnd
  <2> QED BY <1>3, <2>1, <2>2, <2>3, <2>4 DEF ChunkWhole, InChunk, Open, Closes, Whole
<1>7. CASE AskAgain
  <2>1. /\ at = "retry" /\ at' = "page" /\ page' = Answer(chunk.start, chunk.end)
        /\ chunk' = chunk /\ syncedThrough' = syncedThrough
    BY <1>7 DEF AskAgain, watermarks
  <2>2. \A s \in Available' : InChunk(s) => s \in DOMAIN page'
    BY <1>1, <1>2, <2>1, ChunkAnswered DEF HistoryInv, ChunkWhole, InChunk
  <2> QED BY <1>4, <2>1, <2>2
<1>8. CASE CatchupPage
  <2>1. at = "page" /\ at' = "ingested" /\ chunk' = chunk /\ syncedThrough' = syncedThrough
    BY <1>8 DEF CatchupPage, watermarks
  <2>2. ASSUME NEW s \in Available', InChunk(s) PROVE base'[s] # 0
    <3>1. s \in DOMAIN page /\ s \in Slots
      BY <1>1, <2>1, <2>2 DEF HistoryInv, ChunkWhole
    <3>2. Closed(s)
      <4>1. Closes(s) <= chunk.end /\ chunk.end <= now
        BY <2>1, <2>2 DEF HistoryInv, ChunkWhole, InChunk
      <4> QED BY <1>2, <3>1, <4>1 DEF Closed
    <3>3. s \in DOMAIN ClosedRows(page)
      BY <3>1, <3>2, ClosedRowsFacts
    <3>4. IngestBase("rest", ClosedRows(page))
      BY <1>8, <3>3, ClosedRowsFacts DEF CatchupPage
    <3>5. base'[s] = page[s]
      BY <3>1, <3>3, <3>4, ClosedRowsFacts DEF IngestBase
    <3> QED BY <3>1, <3>5, PageTyped DEF Forming, Final
  <2> QED BY <1>4, <2>1, <2>2
<1>9. CASE CatchupRetry
  <2>1. at = "ingested" /\ at' = "retry" /\ chunk' = chunk /\ syncedThrough' = syncedThrough
    BY <1>9 DEF CatchupRetry, watermarks
  <2>2. \A s \in Available' : InChunk(s) => base'[s] # 0
    BY <1>1, <2>1 DEF HistoryInv, ChunkWhole
  <2> QED BY <1>4, <2>1, <2>2
<1>10. CASE StepEnds
  BY <1>10, StepEndsLeaves
<1>11. CASE /\ Moves
            /\ ~CatchupAsk /\ ~AskAgain /\ ~CatchupPage /\ ~CatchupRetry
  BY <1>11, PassesChunkMoves
     DEF Moves, BootstrapAsk, BootstrapFloor, BootstrapPage, BootstrapAdvance, CatchupStored
<1> QED BY <1>5, <1>6, <1>7, <1>8, <1>9, <1>10, <1>11, StepKinds

-----------------------------------------------------------------------------
LEMMA HistoryStarts == HistoryInit => HistoryTypeOK /\ HistoryInv
<1> SUFFICES ASSUME HistoryInit PROVE HistoryTypeOK /\ HistoryInv
  OBVIOUS
<1>1. /\ Horizon \in Nat /\ Discovered \in Nat /\ Discovered \in 0..Horizon
      /\ MaxApiErrors \in Nat /\ 0 \in 0..Horizon
  BY SlotFacts, HistoryAssumption
<1>2. TypeOK /\ \A s \in Slots : base[s] = 0
  BY IngestTypeInit DEF HistoryInit, Init
<1>3. NoPage \in [{} -> {Forming, Final}] /\ DOMAIN NoPage = {}
  BY DEF NoPage
<1>4. <<>> \in Seq(Slots)
  OBVIOUS
<1>5. HistoryTypeOK
  <2>1. NoChunk \in [start : 0..Horizon, end : 0..Horizon]
    BY <1>1 DEF NoChunk
  <2>2. \E S \in SUBSET Slots : page \in [S -> {Forming, Final}]
    BY <1>3 DEF HistoryInit
  <2>3. gaps \subseteq Slots /\ 0 \in 0..MaxApiErrors
    BY <1>1 DEF HistoryInit
  <2> QED BY <1>1, <1>2, <1>4, <2>1, <2>2, <2>3 DEF HistoryInit, HistoryTypeOK
<1>6. Clock /\ BootPageWhole /\ ChunkWhole
  BY <1>1 DEF HistoryInit, Clock, BootPageWhole, ChunkWhole
<1>7. OneForming
  BY <1>2, <1>3 DEF HistoryInit, OneForming, Forming
<1>8. PastStored /\ PresentStored
  <2>1. \A s \in Available : s \in Slots /\ Open(s) \in Nat /\ Closes(s) = Open(s) + 2
    BY SlotFacts DEF Available
  <2> QED BY <1>1, <2>1 DEF HistoryInit, PastStored, PresentStored
<1> QED BY <1>5, <1>6, <1>7, <1>8 DEF HistoryInv

LEMMA HistoryInvariant == HistorySpec => [](HistoryTypeOK /\ HistoryInv)
<1>1. HistoryTypeOK /\ HistoryInv /\ [HistoryNext]_vars => (HistoryTypeOK /\ HistoryInv)'
  BY HistoryTypeStep, ClockStep, OneFormingStep, PastStoredStep, PresentStoredStep,
     BootPageWholeStep, ChunkWholeStep DEF HistoryInv
<1> QED BY <1>1, HistoryStarts, PTL DEF HistorySpec

(* The type invariant of the history reconciler and the live collector.     *)
THEOREM HistoryTypeCorrect == HistorySpec => []HistoryTypeOK
BY HistoryInvariant, PTL

(* Between the persisted watermarks nothing is missing that REST serves on  *)
(* time: the bootstrap and catch-up steps move a frontier only over ground  *)
(* that is stored, whichever pushes are lost, calls fail or rounds are cut  *)
(* short, for any page size, retention and moment of discovery.             *)
THEOREM NothingMissed == HistorySpec => []NoSilentGap
<1>1. HistoryTypeOK /\ HistoryInv => NoSilentGap
  <2> SUFFICES ASSUME HistoryTypeOK, HistoryInv, NEW s \in Available, syncedFrom <= Open(s),
                      Closes(s) <= syncedThrough, RetentionFloor <= Open(s)
               PROVE  base[s] # 0
    BY DEF NoSilentGap, Available
  <2>1. Closes(s) \in Nat /\ Discovered \in Nat
    BY SlotFacts DEF Available
  <2>2. CASE Closes(s) <= Discovered
    BY <2>2 DEF HistoryInv, PastStored
  <2>3. CASE Discovered < Closes(s)
    BY <2>3 DEF HistoryInv, PresentStored
  <2> QED BY <2>1, <2>2, <2>3
<1> QED BY <1>1, HistoryInvariant, PTL

(* _closed_candles: of all the candles ever stored only the one that was    *)
(* forming when the instrument was discovered can be an unfinished one.     *)
THEOREM FormingNeverStored == HistorySpec => []OnlyDiscoveryCandleForming
<1>1. HistoryInv => OnlyDiscoveryCandleForming
  BY DEF HistoryInv, OneForming, FormingAtDiscovery, OnlyDiscoveryCandleForming
<1> QED BY <1>1, HistoryInvariant, PTL

(* history_synced_from and history_synced_through only move outwards: no    *)
(* step, failure or restart gives up ground that was reconciled.            *)
THEOREM FrontiersExtend == HistorySpec => WatermarksOnlyExtend
<1>1. HistoryTypeOK /\ HistoryInv /\ [HistoryNext]_vars
      => [syncedFrom' <= syncedFrom /\ syncedThrough <= syncedThrough']_vars
  BY FrontiersStep
<1> QED BY <1>1, HistoryInvariant, PTL DEF HistorySpec, WatermarksOnlyExtend

(* Under its real callers, whose process may die at any step, ingestion     *)
(* keeps its promise: a derived candle has all of its constituents.         *)
THEOREM CallersKeepAggregatesWhole == HistorySpec => []OnlyCompleteWindows
<1>1. HistoryInit => Held
  <2> SUFFICES ASSUME HistoryInit PROVE Held
    OBVIOUS
  <2>1. \A w \in Windows : derived[w] = Absent
    BY DEF HistoryInit, Init
  <2>2. \A a \in Writers : found[a] = <<>> /\ todo[a] = {} /\ DOMAIN found[a] = {}
    BY DEF HistoryInit, Init
  <2> QED BY <2>1, <2>2 DEF Held, OnlyCompleteWindows, ReadHoldsNothing
<1>2. HistoryTypeOK /\ Held /\ [HistoryNext]_vars => Held'
  <2> SUFFICES ASSUME HistoryTypeOK, Held, [HistoryNext]_vars PROVE Held'
    OBVIOUS
  <2>1. CASE [Next]_ingestVars
    BY <2>1, HeldStep DEF HistoryTypeOK
  <2>2. CASE Crash
    <3>1. base' = base /\ derived' = derived
      BY <2>2 DEF Crash, candles
    <3>2. \A a \in Writers : found'[a] = <<>> /\ todo'[a] = {} /\ DOMAIN found'[a] = {}
      BY <2>2 DEF Crash
    <3>3. OnlyCompleteWindows'
      BY <3>1 DEF Held, OnlyCompleteWindows, Complete
    <3> QED BY <3>2, <3>3 DEF Held, ReadHoldsNothing
  <2> QED BY <2>1, <2>2, WriterSteps
<1>3. Held => OnlyCompleteWindows
  BY DEF Held
<1> QED BY <1>1, <1>2, <1>3, HistoryTypeCorrect, PTL DEF HistorySpec
=============================================================================
