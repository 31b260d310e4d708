-------------------------- MODULE ObservationSeries --------------------------
(***************************************************************************)
(* The stored series of one instrument (open interest or funding rate):    *)
(* the reconciler that polls the exchange once per boundary, the one-off   *)
(* repair of old gaps, pruning, and what a frame may read of it under the  *)
(* temporal contract.                                                      *)
(*                                                                         *)
(* An instant is a number. The observation b is made at BucketTime(b);     *)
(* frame b is measured at Decision(b), between the two halves of its       *)
(* interval in which the clock can stand.                                  *)
(***************************************************************************)
EXTENDS Integers, FiniteSets, FiniteSetsExt, TLC

CONSTANTS Kinds,           \* "oi", "funding"
          LastBucket,      \* bound: the exchange publishes 0 .. LastBucket
          StartBucket,     \* where the clock stands at first
          Warmup, Retain,  \* in buckets
          PageSize,        \* entries of one answer
          Window,          \* buckets of one catch-up window
          WindowsPerRound,
          HoleChoices,     \* gaps the exchange itself may have
          OldRows,         \* what an older deployment may have stored
          MaxDisturbances  \* bound: failures, crashes, delistings,
                           \* corrections and repairs together

ASSUME SeriesAssumption ==
    /\ Kinds \subseteq {"oi", "funding"}
    /\ {LastBucket, StartBucket, MaxDisturbances} \subseteq Nat
    /\ OldRows \subseteq SUBSET (0 .. StartBucket - 1)
    /\ {PageSize, Window, WindowsPerRound, Warmup, Retain} \subseteq Nat \ {0}
    /\ HoleChoices \subseteq SUBSET (0 .. LastBucket)
    /\ Retain > Warmup         \* main.py refuses less than one day more
    /\ StartBucket \in Warmup .. LastBucket

VARIABLES kind,
          clock, listed, holes,           \* the exchange: listed[b] is 0 or
                                          \* the version of its value
          active,                         \* instruments.is_active
          rows, synced,                   \* the database
          pc, boundary, retrying, batch,  \* the reconciler and its locals
          since, until, windows,
          repair, todo, fixed,            \* the repair script
          seen,                           \* what live measurements saw
          legacyGaps, truncated,
          disturbances

exchange == <<clock, listed, holes, active>>
reconciler == <<pc, boundary, retrying, batch, since, until, windows>>
script == <<repair, todo, fixed>>
history == <<seen, legacyGaps>>
vars == <<kind, exchange, rows, synced, reconciler, script, history,
          truncated, disturbances>>

Buckets == 0 .. LastBucket
BucketTime(b) == 4 * b
Decision(T) == 4 * T + 2                            \* decision_time
FloorToBoundary(t) == t - (t % 4)
None == 0 - 1
Legacy == 0 - 1                                     \* ingested_at IS NULL
NoRow == [value |-> 0, ingested |-> 0]
Row == [value : 1 .. 2, ingested : Nat \cup {Legacy}]

Stored == {b \in Buckets : rows[b] # NoRow}
Newest == BucketTime(Max(Stored))         \* fetch_latest_observed_at_...
Listed == {b \in Buckets : listed[b] > 0}
TargetStart == clock - 4 * Warmup

\* Mutant of Upsert: a changed value keeps the first instant.
UpsertKeepsInstant(new) ==
    [b \in Buckets |->
        IF b \notin DOMAIN new THEN rows[b]
        ELSE IF rows[b] # NoRow
        THEN [rows[b] EXCEPT !.value = new[b].value]
        ELSE new[b]]

(***************************************************************************)
(* upsert_many: the instant of a value stored before is kept, a changed    *)
(* value is available from now on.                                         *)
(***************************************************************************)
Upsert(new) ==
    [b \in Buckets |->
        IF b \notin DOMAIN new THEN rows[b]
        ELSE IF rows[b].value = new[b].value THEN rows[b]
        ELSE new[b]]

ToRows(buckets) == [b \in buckets |-> [value |-> listed[b], ingested |-> clock]]

\* One answer of the exchange: the newest entries of the range.
NewestPage(buckets) ==
    {b \in buckets : Cardinality({c \in buckets : c > b}) < PageSize}

(***************************************************************************)
(* Reads of a frame, live at its decision time or in a replay later.       *)
(***************************************************************************)
Available(b, T) == rows[b].ingested = Legacy \/ rows[b].ingested <= Decision(T)
Usable(T) == {b \in Stored : b <= T /\ Available(b, T)}
ReadLatest(T, recent) ==
    LET first == {b \in Usable(T) : b >= T - recent}
    IN IF first # {} THEN {Max(first)}
       ELSE IF Usable(T) # {} THEN {Max(Usable(T))} ELSE {}
ReadExact(T, ago) == Usable(T) \cap {T - ago}
ReadSince(T, ago) == {b \in Usable(T) : b >= T - ago}
Reads(T) == ReadLatest(T, 1) \cup ReadExact(T, 1) \cup ReadSince(T, 2)
Versions(buckets) == {<<b, rows[b].value>> : b \in buckets}

-----------------------------------------------------------------------------
(***************************************************************************)
(* A fresh instrument, or a deployment with rows from before ingested_at   *)
(* was recorded, possibly with gaps the former catch-up sealed in.         *)
(***************************************************************************)
InitialRows(buckets) ==
    [b \in Buckets |-> IF b \in buckets
                       THEN [value |-> 1, ingested |-> Legacy] ELSE NoRow]

Init ==
    /\ kind \in Kinds
    /\ clock = BucketTime(StartBucket) + 1
    /\ holes \in HoleChoices
    /\ listed = [b \in Buckets |->
                    IF b < StartBucket /\ b \notin holes THEN 1 ELSE 0]
    /\ active = TRUE
    /\ \E old \in OldRows :
        /\ old \subseteq Listed
        /\ rows = InitialRows(old)
        /\ synced = IF old = {} THEN None ELSE BucketTime(Min(old))
        /\ legacyGaps = IF old = {} THEN {} ELSE (Min(old) .. Max(old)) \ old
    /\ pc = "started" /\ boundary = None /\ retrying = FALSE
    /\ batch = <<>> /\ since = None /\ until = None /\ windows = 0
    /\ repair = "off" /\ todo = {} /\ fixed = <<>>
    /\ seen = [b \in Buckets |-> {}]
    /\ truncated = FALSE
    /\ disturbances = 0

Disturb ==
    /\ disturbances < MaxDisturbances
    /\ disturbances' = disturbances + 1

-----------------------------------------------------------------------------
(* The exchange and the clock. A bucket is published, in order, before the *)
(* next one is due: 10 to 20 seconds after its instant.                    *)

Publish(b) ==
    /\ listed[b] = 0 /\ b \notin holes /\ BucketTime(b) <= clock
    /\ \A c \in Buckets : c < b => listed[c] > 0 \/ c \in holes
    /\ listed' = [listed EXCEPT ![b] = 1]
    /\ UNCHANGED <<kind, clock, holes, active, rows, synced, reconciler, script,
                   history, truncated, disturbances>>

Correct(b) ==
    /\ Disturb
    /\ listed[b] = 1
    /\ listed' = [listed EXCEPT ![b] = 2]
    /\ UNCHANGED <<kind, clock, holes, active, rows, synced, reconciler, script,
                   history, truncated>>

Frame == clock \div 4

\* Rows stamped but not committed yet.
OnTheWay == {<<b, batch[b].value>> : b \in DOMAIN batch}
            \cup {<<b, fixed[b].value>> : b \in DOMAIN fixed}

\* The clock moves on; passing the decision time of a frame, its live
\* measurement reads what is stored then.
Tick ==
    /\ clock < BucketTime(LastBucket) + 3
    /\ clock % 4 = 3 => Frame \in Listed \cup holes
    /\ clock' = clock + 2
    /\ seen' = IF clock % 4 = 1
               THEN [seen EXCEPT ![Frame] = Versions(Usable(Frame)) \cup OnTheWay]
               ELSE seen
    /\ UNCHANGED <<kind, listed, holes, active, rows, synced, reconciler,
                   script, legacyGaps, truncated, disturbances>>

\* The universe reconciliation removes the instrument, or finds it again.
SetActive ==
    /\ active' = ~active
    /\ IF active THEN Disturb ELSE UNCHANGED disturbances
    /\ UNCHANGED <<kind, clock, listed, holes, rows, synced, reconciler, script,
                   history, truncated>>

-----------------------------------------------------------------------------
(* The reconciler: _run_loop, _poll_once, _process_instrument.             *)

Environment == <<kind, exchange, script, history, disturbances>>

\* The first round follows the start at once and has no boundary to retry.
StartRound ==
    /\ pc \in {"started", "idle"}
    /\ pc' = IF active THEN "bootstrap" ELSE "prune"
    /\ boundary' = IF pc = "started" \/ kind = "funding" THEN None
                   ELSE FloorToBoundary(clock)
    /\ retrying' = FALSE
    /\ UNCHANGED <<Environment, rows, synced, batch, since, until, windows,
                   truncated>>

AfterInstrument == IF retrying THEN "idle" ELSE "prune"
EndInstrument ==
    /\ pc' = AfterInstrument
    /\ since' = None /\ until' = None /\ windows' = 0

BootstrapEnough == synced # None /\ synced <= TargetStart
BootstrapRange ==
    {b \in Listed : /\ BucketTime(b) >= TargetStart
                    /\ BucketTime(b) < (IF synced = None THEN clock ELSE synced)}

BootstrapSkip ==
    /\ pc = "bootstrap" /\ BootstrapEnough
    /\ pc' = "catchup"
    /\ UNCHANGED <<Environment, rows, synced, boundary, retrying, batch, since,
                   until, windows, truncated>>

\* An empty answer is taken as the natural floor of the series.
BootstrapFloor ==
    /\ pc = "bootstrap" /\ ~BootstrapEnough /\ BootstrapRange = {}
    /\ synced' = TargetStart
    /\ pc' = "catchup"
    /\ UNCHANGED <<Environment, rows, boundary, retrying, batch, since, until,
                   windows, truncated>>

BootstrapFetch ==
    /\ pc = "bootstrap" /\ ~BootstrapEnough /\ BootstrapRange # {}
    /\ batch' = ToRows(NewestPage(BootstrapRange))
    /\ pc' = "seed"
    /\ UNCHANGED <<Environment, rows, synced, boundary, retrying, since, until,
                   windows, truncated>>

\* The rows and the watermark are two commits.
BootstrapStore ==
    /\ pc = "seed" /\ batch # <<>>
    /\ rows' = Upsert(batch)
    /\ since' = BucketTime(Min(DOMAIN batch))
    /\ batch' = <<>>
    /\ UNCHANGED <<Environment, synced, pc, boundary, retrying, until, windows,
                   truncated>>

BootstrapMark ==
    /\ pc = "seed" /\ batch = <<>>
    /\ synced' = since
    /\ pc' = "catchup" /\ since' = None
    /\ UNCHANGED <<Environment, rows, boundary, retrying, batch, until, windows,
                   truncated>>

CatchupRead ==
    /\ pc = "catchup"
    /\ IF Stored = {}
       THEN EndInstrument
       ELSE pc' = "fetch" /\ since' = Newest /\ until' = clock /\ windows' = 0
    /\ UNCHANGED <<Environment, rows, synced, boundary, retrying, batch,
                   truncated>>

WindowEnd == IF kind = "oi" THEN Min({until, since + 4 * Window}) ELSE until

CatchupRange ==
    {b \in Listed : BucketTime(b) > since /\ BucketTime(b) <= WindowEnd}

CatchupPage ==
    IF kind = "oi" THEN CatchupRange ELSE NewestPage(CatchupRange)

\* Where the walk goes after a window: funding asks once.
NextWindow(from) ==
    IF kind = "oi" /\ WindowEnd < until /\ windows + 1 < WindowsPerRound
    THEN /\ pc' = "fetch" /\ since' = from /\ windows' = windows + 1
         /\ UNCHANGED until
    ELSE EndInstrument

\* Mutant of CatchupEmpty: the first empty window ends the walk.
CatchupEmptyStops ==
    /\ pc = "fetch" /\ batch = <<>> /\ CatchupPage = {}
    /\ EndInstrument
    /\ UNCHANGED <<Environment, rows, synced, boundary, retrying, batch,
                   truncated>>

CatchupEmpty ==
    /\ pc = "fetch" /\ batch = <<>> /\ CatchupPage = {}
    /\ NextWindow(WindowEnd)
    /\ UNCHANGED <<Environment, rows, synced, boundary, retrying, batch,
                   truncated>>

CatchupFetch ==
    /\ pc = "fetch" /\ batch = <<>> /\ CatchupPage # {}
    /\ batch' = ToRows(CatchupPage)
    /\ truncated' = (truncated \/ (kind = "funding" /\ CatchupPage # CatchupRange))
    /\ UNCHANGED <<Environment, rows, synced, pc, boundary, retrying, since,
                   until, windows>>

CatchupStore ==
    /\ pc = "fetch" /\ batch # <<>>
    /\ rows' = Upsert(batch)
    /\ batch' = <<>>
    /\ NextWindow(BucketTime(Max(DOMAIN batch)))
    /\ UNCHANGED <<Environment, synced, boundary, retrying, truncated>>

\* delete_before, for every instrument, active or not.
Prune ==
    /\ pc = "prune"
    /\ rows' = [b \in Buckets |->
                  IF BucketTime(b) < clock - 4 * Retain THEN NoRow ELSE rows[b]]
    /\ pc' = IF boundary # None THEN "check" ELSE "idle"
    /\ UNCHANGED <<Environment, synced, boundary, retrying, batch, since, until,
                   windows, truncated>>

\* _retry_missing_bucket
RetryBucket ==
    /\ pc = "check"
    /\ IF active /\ Stored # {} /\ Newest < boundary
       THEN pc' = "bootstrap" /\ retrying' = TRUE
       ELSE pc' = "idle" /\ retrying' = FALSE
    /\ boundary' = None
    /\ UNCHANGED <<Environment, rows, synced, batch, since, until,
                   windows, truncated>>

ClearLocals ==
    /\ boundary' = None /\ retrying' = FALSE /\ batch' = <<>>
    /\ since' = None /\ until' = None /\ windows' = 0

\* Mutant of RequestFails: a window whose request failed counts as empty.
RequestFailsPasses ==
    /\ pc \in {"bootstrap", "fetch"} /\ batch = <<>>
    /\ Disturb
    /\ IF pc = "fetch" THEN NextWindow(WindowEnd)
       ELSE pc' = "catchup" /\ UNCHANGED <<since, until, windows>>
    /\ UNCHANGED <<kind, exchange, rows, synced, batch, boundary, retrying,
                   script, history, truncated>>

\* A request fails: a failed bootstrap still goes on to the catch-up. Any
\* other exception ends the round of this instrument; outside of it, the
\* exception ends the task of the loop.
RequestFails ==
    /\ pc \in {"bootstrap", "fetch"} /\ batch = <<>>
    /\ Disturb
    /\ IF pc = "fetch" THEN EndInstrument
       ELSE pc' = "catchup" /\ UNCHANGED <<since, until, windows>>
    /\ UNCHANGED <<kind, exchange, rows, synced, batch, boundary, retrying,
                   script, history, truncated>>

StorageFails ==
    /\ pc \notin {"dead", "down"}
    /\ Disturb
    /\ IF pc \in {"bootstrap", "seed", "catchup", "fetch"}
       THEN EndInstrument /\ batch' = <<>> /\ UNCHANGED <<boundary, retrying>>
       ELSE pc' = "dead" /\ ClearLocals
    /\ UNCHANGED <<kind, exchange, rows, synced, script, history, truncated>>

Crash ==
    /\ pc # "down" /\ Disturb
    /\ pc' = "down"
    /\ ClearLocals
    /\ UNCHANGED <<kind, exchange, rows, synced, script, history, truncated>>

Restart ==
    /\ pc = "down"
    /\ pc' = "started"
    /\ UNCHANGED <<Environment, rows, synced, boundary, retrying, batch, since,
                   until, windows, truncated>>

-----------------------------------------------------------------------------
(* The repair script, a process of its own beside the reconciler.          *)

Gaps == {g \in Stored \X Stored :
            /\ g[1] + 1 < g[2]
            /\ \A b \in Stored : b <= g[1] \/ b >= g[2]}

\* _windows: chronological chunks of a gap, as sets of buckets
GapWindows(g) ==
    {{b \in g[1] + 1 .. g[2] - 1 : (b - g[1] - 1) \div Window = i} :
        i \in 0 .. (g[2] - g[1] - 2) \div Window}

RepairStart ==
    /\ repair = "off" /\ Disturb
    /\ kind = "oi" /\ active
    /\ todo' = UNION {GapWindows(g) : g \in Gaps}
    /\ repair' = "on"
    /\ UNCHANGED <<kind, exchange, rows, synced, reconciler, fixed, history,
                   truncated>>

\* The earliest window left. An empty one, like a failed request, is reported
\* and passed over.
RepairFetch ==
    /\ repair = "on" /\ fixed = <<>>
    /\ \E w \in todo :
        /\ \A v \in todo : Min(w) <= Min(v)
        /\ todo' = todo \ {w}
        /\ \/ /\ fixed' = ToRows(w \cap Listed)
              /\ UNCHANGED disturbances
           \/ /\ Disturb
              /\ UNCHANGED fixed
    /\ UNCHANGED <<kind, exchange, rows, synced, reconciler, repair, history,
                   truncated>>

RepairStore ==
    /\ fixed # <<>>
    /\ rows' = Upsert(fixed)
    /\ fixed' = <<>>
    /\ UNCHANGED <<kind, exchange, synced, reconciler, repair, todo, history,
                   truncated, disturbances>>

RepairEnd ==
    /\ repair = "on" /\ todo = {} /\ fixed = <<>>
    /\ repair' = "off"
    /\ UNCHANGED <<kind, exchange, rows, synced, reconciler, todo, fixed,
                   history, truncated, disturbances>>

-----------------------------------------------------------------------------
Round == \/ StartRound \/ BootstrapSkip \/ BootstrapFloor \/ BootstrapFetch
         \/ BootstrapStore \/ BootstrapMark \/ CatchupRead \/ CatchupEmpty
         \/ CatchupFetch \/ CatchupStore \/ Prune \/ RetryBucket

Repair == RepairStart \/ RepairFetch \/ RepairStore \/ RepairEnd

Next == \/ Round \/ Repair \/ Restart
        \/ RequestFails \/ StorageFails \/ Crash
        \/ Tick \/ SetActive
        \/ \E b \in Buckets : Publish(b) \/ Correct(b)

(***************************************************************************)
(* The loop's own task goes on round after round, and the process is       *)
(* restarted when it ends.                                                 *)
(***************************************************************************)
Fairness == WF_vars(Round) /\ WF_vars(Restart)

Spec == Init /\ [][Next]_vars /\ Fairness
-----------------------------------------------------------------------------
(* The values of the variables: what is stored, where the loop stands and  *)
(* what it holds in memory.                                                *)
SeriesTypeOK ==
    /\ kind \in Kinds /\ holes \in HoleChoices /\ active \in BOOLEAN
    /\ clock \in Nat /\ listed \in [Buckets -> 0 .. 2]
    /\ rows \in [Buckets -> Row \cup {NoRow}]
    /\ synced \in Int
    /\ pc \in {"started", "idle", "bootstrap", "seed", "catchup", "fetch",
              "prune", "check", "dead", "down"}
    /\ boundary \in Int /\ retrying \in BOOLEAN
    /\ \E buckets \in SUBSET Buckets : batch \in [buckets -> Row]
    /\ \E buckets \in SUBSET Buckets : fixed \in [buckets -> Row]
    /\ \A b \in DOMAIN batch \cup DOMAIN fixed : listed[b] > 0
    /\ since \in Int /\ until \in Int /\ windows \in 0 .. WindowsPerRound
    /\ repair \in {"on", "off"} /\ todo \subseteq SUBSET Buckets
    /\ seen \in [Buckets -> SUBSET (Buckets \X (1 .. 2))]
    /\ legacyGaps \subseteq Buckets /\ truncated \in BOOLEAN
    /\ disturbances \in 0 .. MaxDisturbances

(***************************************************************************)
(* Whatever the watermark and the newest row enclose is stored, up to what *)
(* pruning took, the gaps that were there before, and what one full page   *)
(* of funding left behind: a failed request, a crash between two commits   *)
(* or a walk over several windows seals no gap in.                         *)
(***************************************************************************)
SeriesComplete ==
    \A b \in Listed \ legacyGaps :
        /\ Stored # {} /\ BucketTime(b) < Newest /\ ~truncated
        /\ synced # None /\ BucketTime(b) >= synced
        /\ BucketTime(b) >= clock - 4 * Retain
        => b \in Stored

(***************************************************************************)
(* A frame replayed after the fact reads no value that its live            *)
(* measurement could not have read, though values are corrected, gaps      *)
(* repaired and rows fetched again. Excepted are rows that were stamped    *)
(* before the decision time and committed after it.                        *)
(***************************************************************************)
ReplaySeesLess ==
    \A T \in StartBucket .. LastBucket : clock > Decision(T) =>
        Versions(Reads(T)) \subseteq seen[T]

\* instruments.first_seen_at
FirstSeen == BucketTime(StartBucket)

\* _watermark_readiness: what consumers of the watermark conclude from it.
Readiness ==
    IF synced = None THEN "discovered"
    ELSE IF synced <= TargetStart THEN "ready"
    ELSE IF synced < FirstSeen THEN "backfilling" ELSE "discovered"

\* Gaps on the exchange that one round can walk over.
ShortHoles == Cardinality(holes) < Window * WindowsPerRound

(***************************************************************************)
(* Once the clock stands still the series reaches back to the warm-up and  *)
(* up to the newest listed entry, whatever failed before, unless the       *)
(* instrument was delisted, the loop's task ended, nothing was ever stored *)
(* or the exchange has a gap longer than a round walks.                    *)
(***************************************************************************)
SeriesCatchesUp ==
    <>[](\/ ~active \/ pc = "dead" \/ Stored = {} \/ ~ShortHoles
         \/ (Readiness = "ready" /\ Max(Stored) = Max(Listed)))
=============================================================================
