--------------------------- MODULE CandleIngestion ---------------------------
(***************************************************************************)
(* Ingestion of one instrument's closed 5-minute candles, and the           *)
(* derivation of the coarser ones. The live sink and the history            *)
(* reconciler call it concurrently for the same instrument, each on a       *)
(* database session of its own: one commit for the batch, then for each     *)
(* derived timeframe a read of the touched windows and a commit of the      *)
(* complete ones.                                                          *)
(*                                                                         *)
(* Slots number the 5-minute intervals. A candle is a version of its slot  *)
(* (the exchange may correct one); a derived candle is the function of      *)
(* versions it was aggregated from, so two aggregates are equal when their  *)
(* constituents are.                                                       *)
(***************************************************************************)
EXTENDS Integers, FiniteSets

CONSTANTS NumSlots,      \* bound on the timeline
          Durations,     \* lengths of the derived timeframes, in slots
          Versions,      \* versions a candle may have
          Writers,       \* which of the callers run: "live", "rest"
          MaxFailures    \* bound on interrupted ingestions

ASSUME IngestionAssumption ==
  /\ NumSlots \in Nat \ {0}
  /\ Durations \subseteq Nat \ {0, 1} /\ IsFiniteSet(Durations)
  /\ Versions \subseteq Nat \ {0}
  /\ Writers \subseteq {"live", "rest"}
  /\ MaxFailures \in Nat

VARIABLES
  base,       \* base[s]: the stored version of slot s, 0 if none
  derived,    \* derived[w]: the stored aggregate of window w, or Absent
  step,       \* what each writer does next
  touched,    \* ... the slots [from, until) its batch touched
  todo,       \* ... the timeframes it has still to derive
  found,      \* ... the aggregates it is about to store
  failures

candles    == <<base, derived>>
jobs       == <<step, touched, todo, found>>
ingestVars == <<candles, jobs, failures>>

Slots   == 0..NumSlots - 1
Absent  == <<>>
Windows == {w \in [length : Durations, start : Slots] :
              w.start % w.length = 0 /\ w.start + w.length <= NumSlots}
Span(w) == w.start..w.start + w.length - 1

Complete(w)  == \A s \in Span(w) : base[s] # 0
Aggregate(w) == [s \in Span(w) |-> base[s]]

\* floor_to_boundary and _ceil_to_boundary, in slots.
Floor(s, d) == s - (s % d)
Ceil(s, d)  == IF s % d = 0 THEN s ELSE Floor(s, d) + d

\* Mutant of TouchedWindows: only the windows that start inside the batch.
StartedWindows(a, d) ==
  {w \in Windows : /\ w.length = d
                   /\ touched[a].from <= w.start
                   /\ w.start < Ceil(touched[a].until, d)}

\* The windows of duration d whose constituents derive_higher_timeframes reads.
TouchedWindows(a, d) ==
  {w \in Windows : /\ w.length = d
                   /\ Floor(touched[a].from, d) <= w.start
                   /\ w.start < Ceil(touched[a].until, d)}

Init ==
  /\ base = [s \in Slots |-> 0]
  /\ derived = [w \in Windows |-> Absent]
  /\ step = [a \in Writers |-> "idle"]
  /\ touched = [a \in Writers |-> [from |-> 0, until |-> 0]]
  /\ todo = [a \in Writers |-> {}]
  /\ found = [a \in Writers |-> <<>>]
  /\ failures = 0

\* ingest_base_candles up to its first commit: the batch replaces what is
\* stored for its slots. The touched range spans the whole batch.
IngestBase(a, batch) ==
  /\ step[a] = "idle"
  /\ base' = [s \in Slots |-> IF s \in DOMAIN batch THEN batch[s] ELSE base[s]]
  /\ \E lo, hi \in DOMAIN batch :
       /\ \A s \in DOMAIN batch : lo <= s /\ s <= hi
       /\ touched' = [touched EXCEPT ![a] = [from |-> lo, until |-> hi + 1]]
  /\ todo' = [todo EXCEPT ![a] = Durations]
  /\ step' = [step EXCEPT ![a] = "read"]
  /\ UNCHANGED <<derived, found, failures>>

\* Mutant of ReadWindows: windows are not checked for completeness.
ReadAnyWindows(a) ==
  /\ step[a] = "read"
  /\ \E d \in todo[a] :
       /\ \A e \in todo[a] : d <= e
       /\ todo' = [todo EXCEPT ![a] = @ \ {d}]
       /\ found' = [found EXCEPT ![a] = [w \in TouchedWindows(a, d) |-> Aggregate(w)]]
  /\ step' = [step EXCEPT ![a] = "store"]
  /\ UNCHANGED <<candles, touched, failures>>

\* One read for the finest timeframe left: its complete windows are aggregated.
ReadWindows(a) ==
  /\ step[a] = "read"
  /\ \E d \in todo[a] :
       /\ \A e \in todo[a] : d <= e
       /\ todo' = [todo EXCEPT ![a] = @ \ {d}]
       /\ found' = [found EXCEPT ![a] =
                      [w \in {x \in TouchedWindows(a, d) : Complete(x)} |-> Aggregate(w)]]
  /\ step' = [step EXCEPT ![a] = "store"]
  /\ UNCHANGED <<candles, touched, failures>>

\* Mutant of StoreWindows: an aggregate already stored is kept.
StoreNewWindows(a) ==
  /\ step[a] = "store"
  /\ derived' = [w \in Windows |->
                   IF w \in DOMAIN found[a] /\ derived[w] = Absent
                   THEN found[a][w] ELSE derived[w]]
  /\ found' = [found EXCEPT ![a] = <<>>]
  /\ IF todo[a] # {}
     THEN step' = [step EXCEPT ![a] = "read"] /\ UNCHANGED touched
     ELSE /\ step' = [step EXCEPT ![a] = "idle"]
          /\ touched' = [touched EXCEPT ![a] = [from |-> 0, until |-> 0]]
  /\ UNCHANGED <<base, todo, failures>>

\* ... and upserted in one commit; after the last timeframe it returns.
StoreWindows(a) ==
  /\ step[a] = "store"
  /\ derived' = [w \in Windows |->
                   IF w \in DOMAIN found[a] THEN found[a][w] ELSE derived[w]]
  /\ found' = [found EXCEPT ![a] = <<>>]
  /\ IF todo[a] # {}
     THEN step' = [step EXCEPT ![a] = "read"] /\ UNCHANGED touched
     ELSE /\ step' = [step EXCEPT ![a] = "idle"]
          /\ touched' = [touched EXCEPT ![a] = [from |-> 0, until |-> 0]]
  /\ UNCHANGED <<base, todo, failures>>

\* An exception, or the death of the process, abandons an ingestion: what it
\* committed stays. The death of the process does this to every writer.
Abandon(a) ==
  /\ step[a] # "idle"
  /\ failures < MaxFailures
  /\ failures' = failures + 1
  /\ step' = [step EXCEPT ![a] = "idle"]
  /\ touched' = [touched EXCEPT ![a] = [from |-> 0, until |-> 0]]
  /\ todo' = [todo EXCEPT ![a] = {}]
  /\ found' = [found EXCEPT ![a] = <<>>]
  /\ UNCHANGED candles

Derive(a) == ReadWindows(a) \/ StoreWindows(a)

\* The sink passes one confirmed candle, the reconciler a page of them.
Batches(a) == UNION {[S -> Versions] : S \in
                {T \in SUBSET Slots : T # {} /\ (a = "live" => Cardinality(T) = 1)}}

Next == \E a \in Writers : \/ \E batch \in Batches(a) : IngestBase(a, batch)
                           \/ Derive(a)
                           \/ Abandon(a)

Spec == Init /\ [][Next]_ingestVars
-----------------------------------------------------------------------------
(* Properties                                                              *)

Aggregates == UNION {[Span(w) -> Versions] : w \in Windows}

TypeOK ==
  /\ base \in [Slots -> Versions \cup {0}]
  /\ derived \in [Windows -> Aggregates \cup {Absent}]
  /\ step \in [Writers -> {"idle", "read", "store"}]
  /\ touched \in [Writers -> [from : Slots, until : 0..NumSlots]]
  /\ todo \in [Writers -> SUBSET Durations]
  /\ DOMAIN found = Writers
  /\ \A a \in Writers : DOMAIN found[a] \subseteq Windows
  /\ \A a \in Writers : \A w \in DOMAIN found[a] : found[a][w] \in [Span(w) -> Versions]
  /\ failures \in 0..MaxFailures

\* No partial aggregate: "a derived candle is persisted only once every one
\* of its constituent 5m candles exists in storage".
OnlyCompleteWindows == \A w \in Windows : derived[w] # Absent => Complete(w)

Quiet == \A a \in Writers : step[a] = "idle"

\* However two ingestions that split a window overlap, one of them derives
\* it: once both have returned, every complete window is stored. (An
\* abandoned one leaves it to the next ingestion that touches the window.)
CompleteWindowsStored ==
  Quiet /\ failures = 0 => \A w \in Windows : Complete(w) => derived[w] # Absent

\* A derived candle is the aggregate of what is stored: derivation is "safe
\* to call after a live candle, a bootstrap page, a recovered gap, or a
\* correction alike - overlapping WebSocket/REST delivery of the same data
\* is harmless".
DerivedIsCurrent ==
  Quiet /\ failures = 0 =>
    \A w \in Windows : Complete(w) => derived[w] = Aggregate(w)

-----------------------------------------------------------------------------
(* Why the race is harmless: while nothing was abandoned, a complete window *)
(* that is not stored is on the way of some writer.                        *)

Pending(a, w) == \/ w \in DOMAIN found[a]
                 \/ w.length \in todo[a] /\ w \in TouchedWindows(a, w.length)

\* A writer about to read has stored what it found before.
ReadHoldsNothing == \A a \in Writers : step[a] # "store" => found[a] = <<>>

Held == /\ OnlyCompleteWindows
        /\ ReadHoldsNothing
        /\ \A a \in Writers : /\ \A w \in DOMAIN found[a] : Complete(w)
                              /\ step[a] = "idle" => todo[a] = {}

NothingLost ==
  failures = 0 =>
    \A w \in Windows :
      Complete(w) /\ derived[w] = Absent => \E a \in Writers : Pending(a, w)

IngestInv == Held /\ NothingLost
=============================================================================
