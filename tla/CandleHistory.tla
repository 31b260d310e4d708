---------------------------- MODULE CandleHistory ----------------------------
(***************************************************************************)
(* The history of one instrument: the HistoryReconciler walks its persisted *)
(* watermarks back to the retention floor and forward to the present, one   *)
(* REST page at a time, while the live collector stores what the WebSocket  *)
(* pushes. Both write through CandleIngestion.                              *)
(*                                                                         *)
(* Time runs in units of half a base candle, so that an instant can lie     *)
(* inside one: slot s is open over [2s, 2s+2). Instruments do not share     *)
(* state, so one stands for all.                                            *)
(***************************************************************************)
EXTENDS CandleIngestion, Sequences

CONSTANTS Discovered,   \* instant the instrument's row was inserted
          Retention,    \* market_history_retention_days, in units
          PageSize,     \* most candles a REST page holds
          Buffer,       \* catchup_buffer_minutes: less than a candle
          MaxGaps,      \* bound on the intervals the exchange has no candle for
          MaxLate,    \* bound on candles REST serves late
          MaxApiErrors  \* bound on failed REST calls

Open(s)   == 2 * s
Closes(s) == 2 * s + 2
Horizon   == 2 * NumSlots

ASSUME HistoryAssumption ==
  /\ Discovered \in 0..Horizon
  /\ Retention \in 1..Discovered
  /\ PageSize \in Nat \ {0}
  /\ Buffer \in 0..1
  /\ MaxGaps \in Nat /\ MaxLate \in Nat /\ MaxApiErrors \in Nat
  /\ Writers = {"live", "rest"} /\ Versions = {1, 2}

VARIABLES
  now,
  gaps,         \* slots without trades, for which the exchange has no candle
  unindexed,    \* closed slots the REST endpoint does not serve yet
  late,         \* ... and those it ever served late
  apiErrors,
  up,           \* the process runs and the instrument is active
  feed,         \* candles pushed on the WebSocket and not yet handled
  syncedFrom, syncedThrough,   \* the persisted watermarks
  at,           \* where the reconciler is in its round over the instrument
  page,         \* the REST answer it awaits or ingests: slot -> version
  goal,         \* effective_target_start of the bootstrap step
  chunk,        \* [catchup_start, chunk_end) of the catch-up step
  retried       \* the chunk was asked for a second time

exchange   == <<gaps, unindexed, late>>
watermarks == <<syncedFrom, syncedThrough>>
locals     == <<page, goal, chunk, retried>>
vars       == <<ingestVars, now, exchange, apiErrors, up, feed, watermarks, at, locals>>

\* What a row of the exchange says of a slot: still forming, or final.
Forming == 1
Final   == 2

Closed(s) == Closes(s) <= now

TargetStart == Discovered - Retention
RetentionFloor == now - Retention
EffectiveTarget == IF TargetStart > RetentionFloor THEN TargetStart ELSE RetentionFloor

\* The kline endpoint: every candle overlapping [start, end) it has, also the
\* one still forming, newest first and at most a page of them.
Served(start, end) ==
  {s \in Slots : /\ Open(s) < end /\ start < Closes(s) /\ Open(s) <= now
                 /\ s \notin gaps \cup unindexed}
Answer(start, end) ==
  LET newest == {s \in Served(start, end) :
                   Cardinality({u \in Served(start, end) : s < u}) < PageSize}
  IN  [s \in newest |-> IF Closed(s) THEN Final ELSE Forming]

Oldest(rows) == CHOOSE s \in DOMAIN rows : \A u \in DOMAIN rows : s <= u

\* _closed_candles: the clock is read after the answer has arrived.
ClosedRows(rows) == [s \in {u \in DOMAIN rows : Closed(u)} |-> rows[s]]

\* _chunk_complete, over whole slots.
Stored(start, end) == \A s \in Slots : start <= Open(s) /\ Closes(s) <= end => base[s] # 0

FloorTime(t) == 2 * (t \div 2)

\* Mutant of TargetEnd: the end of the candle still forming.
TargetEndAhead == FloorTime(now) + 2

TargetEnd    == FloorTime(now - Buffer)
CatchupStart == FloorTime(IF syncedThrough > RetentionFloor
                          THEN syncedThrough ELSE RetentionFloor)
ChunkEnd     == IF TargetEnd < CatchupStart + 2 * PageSize
                THEN TargetEnd ELSE CatchupStart + 2 * PageSize

NoPage  == <<>>
NoChunk == [start |-> 0, end |-> 0]

\* reconcile_universe inserts the row with both watermarks at that instant.
HistoryInit ==
  /\ Init
  /\ now = Discovered
  /\ gaps \in {g \in SUBSET Slots : Cardinality(g) <= MaxGaps}
  /\ unindexed = {} /\ late = {} /\ apiErrors = 0
  /\ up = TRUE /\ feed = <<>>
  /\ syncedFrom = Discovered /\ syncedThrough = Discovered
  /\ at = "bootstrap" /\ page = NoPage /\ goal = 0 /\ chunk = NoChunk /\ retried = FALSE

-----------------------------------------------------------------------------
(* The exchange                                                            *)

\* The clock moves half a candle. When one closes, its confirmed push may be
\* lost with the connection, and REST may not serve it yet.
Tick ==
  /\ now < Horizon
  /\ now' = now + 1
  /\ IF \E s \in Slots \ gaps : Closes(s) = now'
     THEN LET s == (now' \div 2) - 1 IN
          /\ feed' \in IF up THEN {feed, Append(feed, s)} ELSE {feed}
          /\ \/ UNCHANGED <<unindexed, late>>
             \/ /\ Cardinality(late) < MaxLate
                /\ late' = late \cup {s}
                /\ unindexed' = unindexed \cup {s}
     ELSE UNCHANGED <<feed, unindexed, late>>
  /\ UNCHANGED <<ingestVars, gaps, apiErrors, up, watermarks, at, locals>>

Index ==
  \E s \in unindexed :
    /\ unindexed' = unindexed \ {s}
    /\ UNCHANGED <<ingestVars, now, gaps, late, apiErrors, up, feed, watermarks, at, locals>>

-----------------------------------------------------------------------------
(* The live collector                                                      *)

\* One connection handles its messages one at a time, in order.
HandlePush ==
  /\ up /\ feed # <<>>
  /\ IngestBase("live", [s \in {Head(feed)} |-> Final])
  /\ feed' = Tail(feed)
  /\ UNCHANGED <<now, exchange, apiErrors, up, watermarks, at, locals>>

DeriveLive ==
  /\ Derive("live")
  /\ UNCHANGED <<now, exchange, apiErrors, up, feed, watermarks, at, locals>>

\* An exception in the sink ends the connection: what it had buffered is
\* lost, and a new one is opened after a delay.
LiveFails ==
  /\ Abandon("live")
  /\ feed' = <<>>
  /\ UNCHANGED <<now, exchange, apiErrors, up, watermarks, at, locals>>

-----------------------------------------------------------------------------
(* The reconciler's round over the instrument: _bootstrap_step             *)

BootstrapComplete ==
  /\ up /\ at = "bootstrap"
  /\ syncedFrom <= EffectiveTarget
  /\ at' = "catchup"
  /\ UNCHANGED <<ingestVars, now, exchange, apiErrors, up, feed, watermarks, locals>>

\* The request, answered by the exchange at this instant.
BootstrapAsk ==
  /\ up /\ at = "bootstrap"
  /\ syncedFrom > EffectiveTarget
  /\ goal' = EffectiveTarget
  /\ page' = Answer(EffectiveTarget, syncedFrom)
  /\ at' = "bootPage"
  /\ UNCHANGED <<ingestVars, now, exchange, apiErrors, up, feed, watermarks,
                 chunk, retried>>

\* Mutants of BootstrapFloor: an empty page leaves the frontier; the floor is
\* computed again after the answer.
BootstrapFloorLate ==
  /\ up /\ at = "bootPage" /\ page = NoPage
  /\ syncedFrom' = EffectiveTarget
  /\ at' = "catchup"
  /\ UNCHANGED <<ingestVars, now, exchange, apiErrors, up, feed, syncedThrough, locals>>
BootstrapFloorKept ==
  /\ up /\ at = "bootPage" /\ page = NoPage
  /\ at' = "catchup"
  /\ UNCHANGED <<ingestVars, now, exchange, apiErrors, up, feed, watermarks, locals>>

\* Nothing left: the floor is accepted as the true start of history.
BootstrapFloor ==
  /\ up /\ at = "bootPage" /\ page = NoPage
  /\ syncedFrom' = goal
  /\ at' = "catchup"
  /\ UNCHANGED <<ingestVars, now, exchange, apiErrors, up, feed, syncedThrough, locals>>

BootstrapPage ==
  /\ up /\ at = "bootPage" /\ page # NoPage
  /\ IF ClosedRows(page) = NoPage
     THEN UNCHANGED ingestVars
     ELSE IngestBase("rest", ClosedRows(page))
  /\ at' = "bootIngested"
  /\ UNCHANGED <<now, exchange, apiErrors, up, feed, watermarks, locals>>

\* The watermark moves to the oldest row of the page, in a commit of its own.
\* The ingestion has expired the instrument's attributes, so the catch-up
\* step's first read of them may raise, which ends the round.
BootstrapAdvance ==
  /\ up /\ at = "bootIngested" /\ step["rest"] = "idle"
  /\ syncedFrom' = Open(Oldest(page))
  /\ page' = NoPage
  /\ at' \in {"catchup", "bootstrap"}
  /\ UNCHANGED <<ingestVars, now, exchange, apiErrors, up, feed, syncedThrough,
                 goal, chunk, retried>>

-----------------------------------------------------------------------------
(* _catchup_step                                                           *)

NothingToCatchUp == syncedThrough >= TargetEnd \/ ChunkEnd <= CatchupStart

CatchupIdle ==
  /\ up /\ at = "catchup"
  /\ NothingToCatchUp
  /\ at' = "bootstrap"
  /\ UNCHANGED <<ingestVars, now, exchange, apiErrors, up, feed, watermarks, locals>>

\* The cheap path: the collector has already filled the chunk.
CatchupStored ==
  /\ up /\ at = "catchup"
  /\ ~NothingToCatchUp /\ Stored(CatchupStart, ChunkEnd)
  /\ syncedThrough' = ChunkEnd
  /\ at' = "bootstrap"
  /\ UNCHANGED <<ingestVars, now, exchange, apiErrors, up, feed, syncedFrom, locals>>

CatchupAsk ==
  /\ up /\ at = "catchup"
  /\ ~NothingToCatchUp /\ ~Stored(CatchupStart, ChunkEnd)
  /\ chunk' = [start |-> CatchupStart, end |-> ChunkEnd]
  /\ page' = Answer(CatchupStart, ChunkEnd)
  /\ at' = "page"
  /\ UNCHANGED <<ingestVars, now, exchange, apiErrors, up, feed, watermarks, goal, retried>>

CatchupPage ==
  /\ up /\ at = "page"
  /\ IF ClosedRows(page) = NoPage
     THEN UNCHANGED ingestVars
     ELSE IngestBase("rest", ClosedRows(page))
  /\ page' = NoPage
  /\ at' = "ingested"
  /\ UNCHANGED <<now, exchange, apiErrors, up, feed, watermarks, goal, chunk, retried>>

\* Mutants of PassChunk: past everything up to the present; only when nothing
\* is missing.
PassToTheEnd ==
  /\ syncedThrough' = TargetEnd
  /\ chunk' = NoChunk /\ retried' = FALSE
  /\ at' = "bootstrap"
PassIfStored ==
  /\ syncedThrough' = IF Stored(chunk.start, chunk.end) THEN chunk.end ELSE syncedThrough
  /\ chunk' = NoChunk /\ retried' = FALSE
  /\ at' = "bootstrap"

\* The step ends by moving the watermark past the chunk, whatever it holds.
PassChunk ==
  /\ syncedThrough' = chunk.end
  /\ chunk' = NoChunk /\ retried' = FALSE
  /\ at' = "bootstrap"

CatchupAdvance ==
  /\ up /\ at = "ingested" /\ step["rest"] = "idle"
  /\ retried \/ Stored(chunk.start, chunk.end)
  /\ PassChunk
  /\ UNCHANGED <<ingestVars, now, exchange, apiErrors, up, feed, syncedFrom, page, goal>>

\* A chunk still incomplete is asked for once more, after a delay.
CatchupRetry ==
  /\ up /\ at = "ingested" /\ step["rest"] = "idle"
  /\ ~retried /\ ~Stored(chunk.start, chunk.end)
  /\ retried' = TRUE
  /\ at' = "retry"
  /\ UNCHANGED <<ingestVars, now, exchange, apiErrors, up, feed, watermarks,
                 page, goal, chunk>>

AskAgain ==
  /\ up /\ at = "retry"
  /\ page' = Answer(chunk.start, chunk.end)
  /\ at' = "page"
  /\ UNCHANGED <<ingestVars, now, exchange, apiErrors, up, feed, watermarks,
                 goal, chunk, retried>>

DeriveRest ==
  /\ Derive("rest")
  /\ UNCHANGED <<now, exchange, apiErrors, up, feed, watermarks, at, locals>>

-----------------------------------------------------------------------------
(* Failures                                                                *)

\* A REST call fails: the bootstrap step leaves its frontier, the catch-up
\* step its chunk, for the next round; the result of the retry is not looked at.
ApiFails ==
  /\ up /\ apiErrors < MaxApiErrors
  /\ apiErrors' = apiErrors + 1
  /\ \/ /\ at = "bootstrap" /\ syncedFrom > EffectiveTarget
        /\ at' = "catchup"
        /\ UNCHANGED <<watermarks, locals>>
     \/ /\ at = "catchup" /\ ~NothingToCatchUp /\ ~Stored(CatchupStart, ChunkEnd)
        /\ at' = "bootstrap"
        /\ UNCHANGED <<watermarks, locals>>
     \/ /\ at = "retry"
        /\ PassChunk
        /\ UNCHANGED <<syncedFrom, page, goal>>
  /\ UNCHANGED <<ingestVars, now, exchange, up, feed>>

NewRound ==
  /\ at' = "bootstrap"
  /\ page' = NoPage /\ goal' = 0 /\ chunk' = NoChunk /\ retried' = FALSE

\* _process_instrument logs an exception and leaves the rest to the next round.
RestFails ==
  /\ Abandon("rest")
  /\ NewRound
  /\ UNCHANGED <<now, exchange, apiErrors, up, feed, watermarks>>

\* The process dies; it has to be restarted. An instrument that leaves the
\* universe and returns is in the same position.
Crash ==
  /\ up /\ failures < MaxFailures
  /\ failures' = failures + 1
  /\ up' = FALSE
  /\ feed' = <<>>
  /\ step' = [a \in Writers |-> "idle"]
  /\ touched' = [a \in Writers |-> [from |-> 0, until |-> 0]]
  /\ todo' = [a \in Writers |-> {}]
  /\ found' = [a \in Writers |-> <<>>]
  /\ NewRound
  /\ UNCHANGED <<candles, now, exchange, apiErrors, watermarks>>

Restart ==
  /\ ~up
  /\ up' = TRUE
  /\ UNCHANGED <<ingestVars, now, exchange, apiErrors, feed, watermarks, at, locals>>

-----------------------------------------------------------------------------
Live == HandlePush \/ DeriveLive
Bootstrap == \/ BootstrapComplete \/ BootstrapAsk \/ BootstrapFloor
             \/ BootstrapPage \/ BootstrapAdvance
Catchup == \/ CatchupIdle \/ CatchupStored \/ CatchupAsk \/ CatchupPage
           \/ CatchupAdvance \/ CatchupRetry \/ AskAgain
Reconcile == Bootstrap \/ Catchup \/ DeriveRest

HistoryNext == \/ Tick \/ Index \/ Live \/ Reconcile \/ Restart
               \/ LiveFails \/ RestFails \/ ApiFails \/ Crash

HistorySpec == HistoryInit /\ [][HistoryNext]_vars

\* The reconciler's loop runs rounds for as long as the process lives, and a
\* process that dies is restarted. Nothing is assumed of the pushes.
HistoryFairness == WF_vars(Reconcile) /\ WF_vars(Restart)
FairHistorySpec == HistorySpec /\ HistoryFairness
-----------------------------------------------------------------------------
(* Properties                                                              *)

HistoryTypeOK ==
  /\ TypeOK
  /\ now \in 0..Horizon /\ gaps \subseteq Slots /\ unindexed \subseteq Slots
  /\ late \subseteq Slots /\ apiErrors \in 0..MaxApiErrors
  /\ up \in BOOLEAN /\ feed \in Seq(Slots)
  /\ syncedFrom \in 0..Horizon /\ syncedThrough \in 0..Horizon
  /\ at \in {"bootstrap", "bootPage", "bootIngested", "catchup", "page", "ingested", "retry"}
  /\ \E S \in SUBSET Slots : page \in [S -> {Forming, Final}]
  /\ goal \in 0..Horizon /\ chunk \in [start : 0..Horizon, end : 0..Horizon]
  /\ retried \in BOOLEAN

\* Between the watermarks nothing is missing that REST serves: whatever the
\* collector lost, whichever calls failed and wherever the process died,
\* every candle of the retention window inside [syncedFrom, syncedThrough)
\* that the exchange has is stored. (Candles it served late are excepted.)
NoSilentGap ==
  \A s \in Slots \ (gaps \cup late) :
    /\ syncedFrom <= Open(s) /\ Closes(s) <= syncedThrough
    /\ RetentionFloor <= Open(s)
    => base[s] # 0

\* The frontiers only move outwards: reconciled ground is never given up.
WatermarksOnlyExtend ==
  [][syncedFrom' <= syncedFrom /\ syncedThrough <= syncedThrough']_vars

\* A forming candle "must never be persisted as if it were" final: at most
\* the one that was forming at discovery ever is.
OnlyDiscoveryCandleForming ==
  \A s \in Slots : base[s] = Forming => Open(s) < Discovered /\ Discovered < Closes(s)

\* Both walks end: the present is reached, however many candles the exchange
\* never had ("a truly-absent candle can't stall this instrument's catch-up
\* forever"), and so is the floor.
CatchesUp == <>[](syncedThrough >= TargetEnd)
BootstrapEnds == <>[](syncedFrom <= EffectiveTarget)
=============================================================================
