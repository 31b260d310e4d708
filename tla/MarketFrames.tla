---------------------------- MODULE MarketFrames ----------------------------
(***************************************************************************)
(* The path of one 5-minute observation through the api process and its    *)
(* database: the FrameSynchronizer opens a market_frames row and finalizes *)
(* it, the Sniffer analyses the finalized frame (live, or at startup for    *)
(* the frames an earlier process left unanalysed), and the RankingPublisher *)
(* captures the ranking served for the newest analysed frame.              *)
(*                                                                         *)
(* The database survives a crash of the process; everything else is lost.  *)
(* Times are boundary numbers: `now' is the latest 5-minute boundary the   *)
(* wall clock has reached. Two actors of the same event loop interleave at *)
(* their awaits: the frame loop (which awaits the live analysis inline)    *)
(* and the background startup recovery.                                    *)
(***************************************************************************)
EXTENDS Integers, FiniteSets

CONSTANTS Instruments,     \* instrument ids
          MaxBoundary,     \* bound on the clock
          Lookback,        \* RECOVERY_LOOKBACK, in boundaries
          RecoveryLimit,   \* RECOVERY_LIMIT, in frames
          MaxCrashes,      \* bound on process deaths
          MaxErrors,       \* bound on exceptions raised by the storage
          MaxStepBacks     \* bound on wall-clock corrections backwards

ASSUME BoundsAssumption == /\ MaxBoundary \in Nat \ {0}
                           /\ Lookback \in Nat
                           /\ RecoveryLimit \in Nat
                           /\ MaxCrashes \in Nat
                           /\ MaxErrors \in Nat
                           /\ MaxStepBacks \in Nat

VARIABLES
  \* the world
  now,          \* latest boundary the wall clock has reached
  stamp,        \* latest timestamp the code took (analyzed_at, published_at)
  active,       \* instruments with is_active set
  priced,       \* instruments with a closed 5m, 15m and 1h candle stored
  crashes, errors, stepBacks,
  \* market_frames and market_frame_members
  status, expected, available, members,
  \* sniffer_results: when the stored results of a frame were measured, by whom
  analyzedAt, analysis,
  \* ranking_snapshots
  snapshots,
  \* FrameSynchronizer
  proc, loop, target,
  last,         \* _last_scheduled, which is also the frame_time being built
  \* Sniffer: startup recovery, and one analysis per actor
  recovery, until, missing,
  pc, subject, taken, ranked

world     == <<now, stamp, active, priced>>
budgets   == <<crashes, errors, stepBacks>>
frameRows == <<status, expected, available, members>>
results   == <<analyzedAt, analysis>>
loopVars  == <<proc, loop, target, last>>
recVars   == <<recovery, until, missing>>
workVars  == <<pc, subject, taken, ranked>>
vars      == <<world, budgets, frameRows, results, snapshots, loopVars,
               recVars, workVars>>

Boundaries == 1..MaxBoundary
Actors     == {"live", "recovery"}
Terminal   == {"complete", "partial"}

Analysed(f) == analyzedAt[f] # 0

\* Mutant of IsNewest: the frame read is not compared with the newest one.
IsNewestUnchecked(f) == Analysed(f)

\* latest_marker: the newest frame with any stored result.
IsNewest(f) == Analysed(f) /\ \A g \in Boundaries : Analysed(g) => g <= f

Init ==
  /\ now = 1 /\ stamp = 0 /\ active = {} /\ priced = {}
  /\ crashes = 0 /\ errors = 0 /\ stepBacks = 0
  /\ status = [f \in Boundaries |-> "absent"]
  /\ expected = [f \in Boundaries |-> {}]
  /\ available = [f \in Boundaries |-> {}]
  /\ members = [f \in Boundaries |-> {}]
  /\ analyzedAt = [f \in Boundaries |-> 0]
  /\ analysis = [f \in Boundaries |-> "none"]
  /\ snapshots = {}
  /\ proc = "down" /\ loop = "pick" /\ target = 0 /\ last = 0
  /\ recovery = "off" /\ until = 0 /\ missing = {}
  /\ pc = [a \in Actors |-> "idle"]
  /\ subject = [a \in Actors |-> 0]
  /\ taken = [a \in Actors |-> 0]
  /\ ranked = [a \in Actors |-> 0]

-----------------------------------------------------------------------------
(* The world                                                               *)

Tick ==
  /\ now < MaxBoundary
  /\ now' = now + 1
  /\ UNCHANGED <<stamp, active, priced, budgets, frameRows, results,
                 snapshots, loopVars, recVars, workVars>>

\* The host's clock is corrected backwards across a boundary: what the code
\* stamps with it may from then on repeat or lie before what it stamped.
StepBack ==
  /\ now > 1
  /\ stepBacks < MaxStepBacks
  /\ now' = now - 1
  /\ stamp' \in 0..stamp
  /\ stepBacks' = stepBacks + 1
  /\ UNCHANGED <<active, priced, crashes, errors, frameRows, results,
                 snapshots, loopVars, recVars, workVars>>

\* One pass of the universe reconciliation: what was discovered becomes the
\* active set, everything else is deactivated, never deleted.
ReconcileUniverse ==
  \E discovered \in SUBSET Instruments :
    /\ discovered # active
    /\ active' = discovered
    /\ UNCHANGED <<now, stamp, priced, budgets, frameRows, results,
                   snapshots, loopVars, recVars, workVars>>

\* Ingestion stores the candle that completes an instrument's gating
\* timeframes. The latest closed candle may be arbitrarily old, so an
\* instrument that has one in every gating timeframe keeps one.
StoreCandles ==
  \E i \in Instruments \ priced :
    /\ priced' = priced \cup {i}
    /\ UNCHANGED <<now, stamp, active, budgets, frameRows, results,
                   snapshots, loopVars, recVars, workVars>>

\* The process dies, or is stopped: shutdown cancels the tasks at an await,
\* so it persists nothing a death at that await would not have.
Crash ==
  /\ proc # "down"
  /\ crashes < MaxCrashes
  /\ crashes' = crashes + 1
  /\ proc' = "down"
  /\ loop' = "pick" /\ target' = 0 /\ last' = 0
  /\ recovery' = "off" /\ until' = 0 /\ missing' = {}
  /\ pc' = [a \in Actors |-> "idle"]
  /\ subject' = [a \in Actors |-> 0]
  /\ taken' = [a \in Actors |-> 0]
  /\ ranked' = [a \in Actors |-> 0]
  /\ UNCHANGED <<world, errors, stepBacks, frameRows, results, snapshots>>

\* An exception raised by the storage inside one awaited call.
Error ==
  /\ errors < MaxErrors
  /\ errors' = errors + 1
  /\ UNCHANGED <<crashes, stepBacks>>

-----------------------------------------------------------------------------
(* FrameRepository                                                         *)

\* create_building: INSERT ... ON CONFLICT DO NOTHING with the snapshot of
\* the active universe.
CreateBuilding(f) ==
  IF status[f] = "absent"
  THEN /\ status' = [status EXCEPT ![f] = "building"]
       /\ expected' = [expected EXCEPT ![f] = active]
       /\ UNCHANGED <<available, members>>
  ELSE UNCHANGED frameRows

\* Mutant of MemberRows: today's universe, not the row's snapshot.
MemberRowsOfNow(f) == active \cap priced

\* The member rows _finalize_frame builds: the instruments of the snapshot
\* with a legal candle in every gating timeframe.
MemberRows(f) == expected[f] \cap priced

\* Mutant of Finalize: the UPDATE without its WHERE status = 'building'.
FinalizeUnguarded(f) ==
  /\ members' = [members EXCEPT ![f] = @ \cup MemberRows(f)]
  /\ available' = [available EXCEPT ![f] = MemberRows(f)]
  /\ status' = [status EXCEPT ![f] =
        IF MemberRows(f) = expected[f] THEN "complete" ELSE "partial"]
  /\ UNCHANGED expected

\* finalize, in one transaction. The member rows are inserted (existing ones
\* kept) before the status is looked at. available_instruments is kept as
\* the set the code takes the size of: it is a subset of the expected ids,
\* so the comparison of the sizes is the equality of the sets.
Finalize(f) ==
  /\ members' = [members EXCEPT ![f] = @ \cup MemberRows(f)]
  /\ IF status[f] = "building"
     THEN /\ available' = [available EXCEPT ![f] = MemberRows(f)]
          /\ status' = [status EXCEPT ![f] =
                IF MemberRows(f) = expected[f] THEN "complete" ELSE "partial"]
     ELSE UNCHANGED <<available, status>>
  /\ UNCHANGED expected

-----------------------------------------------------------------------------
(* FrameSynchronizer                                                       *)

Start ==
  /\ proc = "down"
  /\ proc' = "resolving"
  /\ UNCHANGED <<world, budgets, frameRows, results, snapshots, loop,
                 target, last, recVars, workVars>>

\* Mutant of ResolveInterrupted: nothing is resolved at startup.
ResolveNothing ==
  /\ proc = "resolving"
  /\ proc' = "running" /\ recovery' = "query" /\ until' = now
  /\ UNCHANGED <<world, budgets, frameRows, results, snapshots, loop, target,
                 last, missing, workVars>>

\* _resolve_interrupted_build: find_building().first() names no order, so
\* any one BUILDING row is finalized, without the hook. start() then creates
\* the loop's task and the lifespan calls start_recovery, which fixes the end
\* of its window: nothing is awaited in between, so no other task runs.
ResolveInterrupted ==
  /\ proc = "resolving"
  /\ IF \E f \in Boundaries : status[f] = "building"
     THEN \E f \in Boundaries : status[f] = "building" /\ Finalize(f)
     ELSE UNCHANGED frameRows
  /\ proc' = "running"
  /\ recovery' = "query"
  /\ until' = now
  /\ UNCHANGED <<world, budgets, results, snapshots, loop, target, last,
                 missing, workVars>>

\* An exception there fails the application's startup.
StartupFails ==
  /\ proc = "resolving"
  /\ Error
  /\ proc' = "down"
  /\ UNCHANGED <<world, frameRows, results, snapshots, loop, target,
                 last, recVars, workVars>>

\* _sleep_until_next_boundary, on entry.
PickTarget ==
  /\ proc = "running" /\ loop = "pick"
  /\ target' = IF last # 0 /\ now + 1 <= last THEN last + 1 ELSE now + 1
  /\ loop' = "wait"
  /\ UNCHANGED <<world, budgets, frameRows, results, snapshots, proc,
                 last, recVars, workVars>>

\* Mutant of ReachBoundary: wakes a boundary early and opens its target.
ReachEarly ==
  /\ proc = "running" /\ loop = "wait"
  /\ last' = target
  /\ loop' = "create"
  /\ UNCHANGED <<world, budgets, frameRows, results, snapshots, proc, target,
                 recVars, workVars>>

\* It returns the latest boundary reached; the ones slept through are skipped.
ReachBoundary ==
  /\ proc = "running" /\ loop = "wait"
  /\ now >= target
  /\ last' = now
  /\ loop' = "create"
  /\ UNCHANGED <<world, budgets, frameRows, results, snapshots, proc, target,
                 recVars, workVars>>

\* _build_frame up to the grace period.
OpenFrame ==
  /\ proc = "running" /\ loop = "create"
  /\ CreateBuilding(last)
  /\ loop' = "grace"
  /\ UNCHANGED <<world, budgets, results, snapshots, proc, target,
                 last, recVars, workVars>>

\* _finalize_frame after the grace period. The hook, and so the live
\* analysis, runs inside the loop and only if this call finalized the row.
FinalizeFrame ==
  /\ proc = "running" /\ loop = "grace"
  /\ Finalize(last)
  /\ IF status[last] = "building"
     THEN /\ loop' = "hook"
          /\ pc' = [pc EXCEPT !["live"] = "measure"]
          /\ subject' = [subject EXCEPT !["live"] = last]
     ELSE /\ loop' = "pick"
          /\ UNCHANGED <<pc, subject>>
  /\ UNCHANGED <<world, budgets, results, snapshots, proc, target,
                 last, recVars, taken, ranked>>

\* _run_loop logs an exception of the build and goes on to the next
\* boundary: a row already inserted stays BUILDING.
BuildFails ==
  /\ proc = "running" /\ loop \in {"create", "grace"}
  /\ Error
  /\ loop' = "pick"
  /\ UNCHANGED <<world, frameRows, results, snapshots, proc, target,
                 last, recVars, workVars>>

HookReturns ==
  /\ proc = "running" /\ loop = "hook" /\ pc["live"] = "idle"
  /\ loop' = "pick"
  /\ UNCHANGED <<world, budgets, frameRows, results, snapshots, proc,
                 target, last, recVars, workVars>>

-----------------------------------------------------------------------------
(* Sniffer: startup recovery                                               *)

\* Mutants of Unanalysed: the window ends at the time of the query, not of
\* the start; the window leaves out its last boundary.
UnanalysedUpToNow ==
  {f \in Boundaries : /\ now - Lookback <= f /\ f <= now
                      /\ status[f] \in Terminal
                      /\ available[f] # {}
                      /\ ~Analysed(f)}
UnanalysedBeforeStart ==
  {f \in Boundaries : /\ until - Lookback <= f /\ f < until
                      /\ status[f] \in Terminal
                      /\ available[f] # {}
                      /\ ~Analysed(f)}

\* _unanalyzed: finalized frames of the window with members and no result.
Unanalysed ==
  {f \in Boundaries : /\ until - Lookback <= f /\ f <= until
                      /\ status[f] \in Terminal
                      /\ available[f] # {}
                      /\ ~Analysed(f)}

\* ... the oldest RecoveryLimit of them.
FindUnanalysed ==
  /\ proc = "running" /\ recovery = "query"
  /\ recovery' = "run"
  /\ missing' = {f \in Unanalysed :
                   Cardinality({g \in Unanalysed : g < f}) < RecoveryLimit}
  /\ UNCHANGED <<world, budgets, frameRows, results, snapshots, loopVars,
                 until, workVars>>

FindFails ==
  /\ proc = "running" /\ recovery = "query"
  /\ Error
  /\ recovery' = "run"
  /\ UNCHANGED <<world, frameRows, results, snapshots, loopVars, until,
                 missing, workVars>>

\* The frames of the list are analysed one at a time, oldest first.
RecoverNext ==
  /\ proc = "running" /\ recovery = "run" /\ pc["recovery"] = "idle"
  /\ \E f \in missing :
       /\ \A g \in missing : f <= g
       /\ missing' = missing \ {f}
       /\ pc' = [pc EXCEPT !["recovery"] = "measure"]
       /\ subject' = [subject EXCEPT !["recovery"] = f]
  /\ UNCHANGED <<world, budgets, frameRows, results, snapshots, loopVars,
                 recovery, until, taken, ranked>>

-----------------------------------------------------------------------------
(* Sniffer.analyze_frame and RankingPublisher.publish, for either actor    *)

GoTo(a, label) == pc' = [pc EXCEPT ![a] = label]
Stamp(a) == /\ stamp' = stamp + 1
            /\ taken' = [taken EXCEPT ![a] = stamp + 1]
Return(a) == /\ GoTo(a, "idle")
             /\ subject' = [subject EXCEPT ![a] = 0]
             /\ taken' = [taken EXCEPT ![a] = 0]
             /\ ranked' = [ranked EXCEPT ![a] = 0]

\* Read the frame and measure it: analyzed_at is read here. A frame that is
\* not finalized is skipped.
Measure(a) ==
  /\ pc[a] = "measure"
  /\ IF status[subject[a]] \in Terminal
     THEN Stamp(a) /\ GoTo(a, "save") /\ UNCHANGED <<subject, ranked>>
     ELSE Return(a) /\ UNCHANGED stamp
  /\ UNCHANGED <<now, active, priced, budgets, frameRows, results, snapshots,
                 loopVars, recVars>>

\* Mutant of SaveResult: a result is stored for a frame without members.
SaveAlways(a) ==
  /\ pc[a] = "save"
  /\ analyzedAt' = [analyzedAt EXCEPT ![subject[a]] = taken[a]]
  /\ analysis' = [analysis EXCEPT ![subject[a]] = a]
  /\ GoTo(a, "publish")
  /\ UNCHANGED <<world, budgets, frameRows, snapshots, loopVars, recVars,
                 subject, taken, ranked>>

\* save_result: one commit, replacing the frame's earlier results. No
\* member, no row.
SaveResult(a) ==
  /\ pc[a] = "save"
  /\ IF members[subject[a]] # {}
     THEN /\ analyzedAt' = [analyzedAt EXCEPT ![subject[a]] = taken[a]]
          /\ analysis' = [analysis EXCEPT ![subject[a]] = a]
     ELSE UNCHANGED results
  /\ GoTo(a, "publish")
  /\ UNCHANGED <<world, budgets, frameRows, snapshots, loopVars, recVars,
                 subject, taken, ranked>>

\* publish: published_at is read first.
BeginPublish(a) ==
  /\ pc[a] = "publish"
  /\ Stamp(a)
  /\ GoTo(a, "marker")
  /\ UNCHANGED <<now, active, priced, budgets, frameRows, results, snapshots,
                 loopVars, recVars, subject, ranked>>

\* latest_marker must name this frame.
CheckMarker(a) ==
  /\ pc[a] = "marker"
  /\ IF IsNewest(subject[a])
     THEN GoTo(a, "rank") /\ UNCHANGED <<subject, taken, ranked>>
     ELSE Return(a)
  /\ UNCHANGED <<world, budgets, frameRows, results, snapshots, loopVars,
                 recVars>>

\* live_rankings reads the newest frame again; its results are the payload.
Rank(a) ==
  /\ pc[a] = "rank"
  /\ IF IsNewest(subject[a])
     THEN /\ ranked' = [ranked EXCEPT ![a] = analyzedAt[subject[a]]]
          /\ GoTo(a, "insert")
          /\ UNCHANGED <<subject, taken>>
     ELSE Return(a)
  /\ UNCHANGED <<world, budgets, frameRows, results, snapshots, loopVars,
                 recVars>>

\* _insert: ON CONFLICT (frame_time, analyzed_at, spec_key) DO NOTHING. The
\* specs are fixed while the process runs, so spec_key is left out.
InsertSnapshot(a) ==
  /\ pc[a] = "insert"
  /\ snapshots' =
       IF \E s \in snapshots : s.frame = subject[a] /\ s.analyzed = ranked[a]
       THEN snapshots
       ELSE snapshots \cup {[frame |-> subject[a], analyzed |-> ranked[a],
                             published |-> taken[a]]}
  /\ Return(a)
  /\ UNCHANGED <<world, budgets, frameRows, results, loopVars, recVars>>

\* Both callers swallow an exception: the frame is not retried by this process.
AnalysisFails(a) ==
  /\ pc[a] # "idle"
  /\ Error
  /\ Return(a)
  /\ UNCHANGED <<world, frameRows, results, snapshots, loopVars, recVars>>

Analyse(a) == \/ Measure(a) \/ SaveResult(a) \/ BeginPublish(a)
              \/ CheckMarker(a) \/ Rank(a) \/ InsertSnapshot(a)
-----------------------------------------------------------------------------
World == Tick \/ StepBack \/ ReconcileUniverse \/ StoreCandles
Fault == \/ Crash \/ StartupFails \/ BuildFails \/ FindFails
         \/ \E a \in Actors : AnalysisFails(a)
FrameLoop == PickTarget \/ ReachBoundary \/ OpenFrame \/ FinalizeFrame \/ HookReturns
Recover == FindUnanalysed \/ RecoverNext

Next == \/ World \/ Fault \/ Start \/ ResolveInterrupted
        \/ FrameLoop \/ Recover \/ \E a \in Actors : Analyse(a)

Spec == Init /\ [][Next]_vars

\* The container is restarted after a crash, and the event loop runs every
\* ready task: each thread of control that can step eventually does. Nothing
\* is assumed of the clock, the exchange, crashes or exceptions.
Fairness == /\ WF_vars(Start) /\ WF_vars(ResolveInterrupted)
            /\ WF_vars(FrameLoop) /\ WF_vars(Recover)
            /\ \A a \in Actors : WF_vars(Analyse(a))
FairSpec == Spec /\ Fairness
-----------------------------------------------------------------------------
(* Properties                                                              *)

Snapshots == [frame : Boundaries, analyzed : Nat, published : Nat]

WorldType ==
  /\ now \in Boundaries /\ stamp \in Nat
  /\ active \in SUBSET Instruments /\ priced \in SUBSET Instruments
  /\ crashes \in 0..MaxCrashes /\ errors \in 0..MaxErrors
  /\ stepBacks \in 0..MaxStepBacks
RowsType ==
  /\ status \in [Boundaries -> Terminal \cup {"absent", "building"}]
  /\ expected \in [Boundaries -> SUBSET Instruments]
  /\ available \in [Boundaries -> SUBSET Instruments]
  /\ members \in [Boundaries -> SUBSET Instruments]
ResultsType ==
  /\ analyzedAt \in [Boundaries -> Nat]
  /\ analysis \in [Boundaries -> Actors \cup {"none"}]
  /\ snapshots \subseteq Snapshots
LoopType ==
  /\ proc \in {"down", "resolving", "running"}
  /\ loop \in {"pick", "wait", "create", "grace", "hook"}
  /\ target \in 0..MaxBoundary + 1 /\ last \in 0..MaxBoundary
  /\ loop \in {"create", "grace", "hook"} => last # 0
  /\ recovery \in {"off", "query", "run"}
  /\ until \in 0..MaxBoundary /\ missing \in SUBSET Boundaries
WorkType ==
  /\ pc \in [Actors -> {"idle", "measure", "save", "publish", "marker",
                        "rank", "insert"}]
  /\ subject \in [Actors -> 0..MaxBoundary]
  /\ \A a \in Actors : pc[a] # "idle" => subject[a] # 0
  /\ taken \in [Actors -> Nat] /\ ranked \in [Actors -> Nat]
TypeOK == WorldType /\ RowsType /\ ResultsType /\ LoopType /\ WorkType

\* With a clock that never steps back (MaxStepBacks = 0), the frames are a
\* log of write-once observations in time order: across crashes, restarts,
\* late finalizations and a changing universe a row is opened only for the
\* present, and a finalized one never changes, not even by a second finalize.
Log == INSTANCE ObservationLog WITH universe <- expected, seen <- members
ImplementsLog == Log!Spec

\* The ranking history is in order: if a later frame was published, it was
\* published after every earlier one. It is what the re-read of the newest
\* frame in publish is for, with the recovery analysing old frames beside
\* the live loop. published_at is the wall clock's reading, so it is promised
\* while that clock has not been set back.
InOrder == \A s, t \in snapshots : s.frame < t.frame => s.published < t.published
PublishedInOrder == stepBacks = 0 => InOrder

\* What was published is what the Sniffer stored: a finalized frame with
\* members, by the analysis still stored for it, measured before publication.
PublishedWasAnalysed ==
  \A s \in snapshots :
    /\ status[s.frame] \in Terminal
    /\ members[s.frame] # {}
    /\ 0 < s.analyzed
    /\ stepBacks = 0 => /\ s.analyzed < s.published
                        /\ s.analyzed = analyzedAt[s.frame]

\* No frame is ever measured twice: the frames of the startup recovery and
\* the frames the live hook analyses are disjoint ("only frames already
\* finalized when it starts are considered"), so stored results and their
\* live/recovery label are never rewritten.
AnalysedOnce ==
  [][\A f \in Boundaries :
       stepBacks' = 0 /\ Analysed(f) => /\ analyzedAt'[f] = analyzedAt[f]
                                        /\ analysis'[f] = analysis[f]]_vars

\* Once the frame synchronizer has started, no row of an earlier process is
\* BUILDING: "finalize it now rather than leaving it ambiguous forever".
StartupLeavesNothingBuilding ==
  proc = "running" /\ last = 0 => \A f \in Boundaries : status[f] # "building"

\* It holds while no storage call fails.
StartupResolves == errors = 0 => StartupLeavesNothingBuilding

\* The row of a finalized frame is frozen, whatever the clock does: "leaves
\* the already-terminal frame exactly as it was" (FrameRepository.finalize).
\* Its member rows are not: a second finalize of the boundary commits those
\* that have become ingestible since.
TerminalRowFrozen ==
  [][\A f \in Boundaries : status[f] \in Terminal =>
       /\ status'[f] = status[f] /\ expected'[f] = expected[f]
       /\ available'[f] = available[f] /\ members[f] \subseteq members'[f]]_vars

\* Without storage failures every opened frame is finalized, and every
\* finalized frame with members is analysed, by the live hook or, after a
\* crash at any point, by the recovery of a later start.
EveryFrameSettles ==
  \A f \in Boundaries : status[f] = "building" ~> status[f] \in Terminal
EveryFrameAnalysed ==
  \A f \in Boundaries :
    status[f] \in Terminal /\ available[f] # {} ~> Analysed(f)

-----------------------------------------------------------------------------
(* Why publications are in order: what each actor holds between its awaits *)

Publishing(a) == pc[a] \in {"marker", "rank", "insert"}

\* The recovery only ever holds finalized frames that had data ...
Recoverable(f) == status[f] \in Terminal /\ available[f] # {}
HeldWork ==
  /\ pc["recovery"] # "idle" => Recoverable(subject["recovery"])
  /\ \A a \in Actors : pc[a] \notin {"idle", "measure"} =>
                          status[subject[a]] \in Terminal
HeldFrames ==
  /\ \A f \in Boundaries : available[f] \subseteq members[f]
  /\ \A f \in missing : Recoverable(f)
  /\ HeldWork

\* ... so a frame being published has its results stored, or (live, without
\* members) never will; and what is captured has them.
HeldResults ==
  /\ \A a \in Actors : pc[a] = "publish" \/ Publishing(a) =>
       \/ Analysed(subject[a])
       \/ a = "live" /\ available[subject[a]] = {}
  /\ \A a \in Actors : pc[a] = "insert" => Analysed(subject[a])
  /\ \A s \in snapshots : Analysed(s.frame)

HeldStamps ==
  /\ \A a \in Actors : pc[a] = "save" => taken[a] > 0
  /\ stepBacks = 0 => /\ \A a \in Actors : taken[a] <= stamp
                      /\ \A s \in snapshots : s.published <= stamp

\* An actor past the re-read of the newest frame has its place in the
\* history: every publication of a later analysed frame, stored or under
\* way, was begun after it.
Places ==
  /\ InOrder
  /\ \A s \in snapshots, a \in Actors :
       Publishing(a) /\ Analysed(subject[a]) /\ s.frame < subject[a] =>
         s.published < taken[a]
  /\ \A s \in snapshots, b \in Actors :
       pc[b] = "insert" /\ subject[b] < s.frame => taken[b] < s.published
  /\ \A a, b \in Actors :
       /\ pc[b] = "insert" /\ Publishing(a) /\ Analysed(subject[a])
       /\ subject[b] < subject[a]
       => taken[b] < taken[a]
PlacesInOrder == stepBacks = 0 => Places

OrderInv == HeldFrames /\ HeldResults /\ HeldStamps /\ PlacesInOrder

-----------------------------------------------------------------------------
(* Why the frames are a log, when the clock never steps back               *)

Opened(f) == status[f] # "absent"

LogInv ==
  /\ stepBacks = 0
  /\ \A f \in Boundaries : Opened(f) => f <= now
  /\ \A f \in Boundaries : status[f] \notin Terminal => members[f] = {}
  /\ last <= now
  /\ proc # "running" => loop = "pick"
  /\ loop = "wait" => \A f \in Boundaries : Opened(f) => f < target
  /\ loop = "create" => \A f \in Boundaries : Opened(f) => f < last
  /\ loop = "grace" => status[last] = "building"
=============================================================================
