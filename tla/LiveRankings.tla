----------------------------- MODULE LiveRankings -----------------------------
(***************************************************************************)
(* The live Long and Short rankings (app/services/live_rankings.py) and    *)
(* the snapshots published of them (app/services/ranking_snapshots.py).    *)
(*                                                                         *)
(* Tasks of one event loop share a small cache of computed rankings:       *)
(* requests, and the publishers that follow the live analysis and the      *)
(* startup recovery of Sniffer. A task runs alone up to its next await.    *)
(* Under them Sniffer stores, and may store again, the results of frames;  *)
(* the operator replaces committed spec files; a reader pages through the  *)
(* published history. A behaviour is one process from its start.           *)
(***************************************************************************)
EXTENDS RankingRules

CONSTANTS
    Symbols, FirstFrame, LastFrame,
    Markets,        \* [Symbols -> [candles, oi, funding]]
    Allowance,      \* a frame finalizes this long after its boundary
    RecentWindow, SlotsPerDay,
    Requests,       \* concurrent requests of the endpoint
    Candidates, Qualifications,   \* [digest -> contents of a spec file]
    Configured,     \* [Directions -> [candidate, qualification]]: the ids
    Files,          \* <<[Directions -> [candidate, qualification]]>>: the digests
                    \* the files may come to have; the first are there at start
    CacheSize, PageSize,
    MaxClock, MaxEdits, MaxAnalyses, MaxReaders,
    MaxCalls   \* bounds; calls are requests and walks of the history

Directions == {"long", "short"}
Frames == FirstFrame .. LastFrame
Publishers == {"live", "recovery"}
Jobs == Requests \cup Publishers

ASSUME LiveAssumption ==
    /\ FirstFrame \in Nat /\ LastFrame \in Nat /\ FirstFrame <= LastFrame
    /\ IsFiniteSet(Symbols)
    /\ Allowance \in Nat /\ RecentWindow \in Nat
    /\ Requests \cap {"live", "recovery"} = {}
    /\ Len(Files) \in Nat \ {0} /\ DOMAIN Files = 1 .. Len(Files)
    /\ CacheSize \in Nat \ {0} /\ PageSize \in Nat \ {0}
    /\ None \notin Int
    /\ None \notin [frame : Frames, at : Nat, analysis : Publishers]

R == INSTANCE FrameReports

VARIABLES
    clock,
    frames,       \* [Frames -> header]: status, members, finalizedAt
    results,      \* [Frames -> None or [frame, at, analysis]]
    files,        \* [Directions -> [candidate, qualification]]: digests, None
                  \* for a file that is not there
    cache,        \* <<[key, content]>>, oldest first
    snapshots,    \* <<row>>: the id of a row is its place
    jobs,         \* [Jobs -> [pc, ...]]
    recovery,     \* [looked, todo, since]: the startup recovery
    walk,         \* [pc, items, owed]: a reader of the history
    bounds,       \* [edits, analyses, requests, walks]
    seen,         \* [Requests -> what was current while it ran] (history)
    held          \* <<files>>: what the files have been (history)

vars == <<clock, frames, results, files, cache, snapshots, jobs,
          recovery, walk, bounds, seen, held>>

NoFrame == [status |-> "none", members |-> {}, finalizedAt |-> 0]

\* The members of S in an order that nowhere goes against a relation.
Listed(S, before) ==
    CHOOSE e \in [1 .. Cardinality(S) -> S] :
        /\ IsInjective(e)
        /\ \A i, j \in DOMAIN e : i < j => <<e[j], e[i]>> \notin before

Idle == [pc |-> "idle", own |-> None, now |-> 0, marker |-> None, stale |-> FALSE,
         key |-> None, result |-> None, content |-> None]
NoWalk == [pc |-> "idle", items |-> <<>>, owed |-> {}]
NothingSeen == [newest |-> 0, results |-> {}, files |-> {}]

FinalizedFrames == {f \in Frames : frames[f].status \in {"complete", "partial"}}
Analyzed == {f \in Frames : results[f] # None}

\* Every frame header with its provenance (frame_health_rows).
Rows == [t \in {BaseDuration * f : f \in {g \in Frames : frames[g].status # "none"}} |->
            LET f == t \div BaseDuration
            IN  [status |-> frames[f].status, expected |-> Cardinality(Symbols),
                 available |-> Cardinality(frames[f].members),
                 analysis |-> IF results[f] = None THEN None ELSE "v2"]]

-----------------------------------------------------------------------------
(* The ranking of one analyzed frame.                                      *)

\* The features of a frame's members, which are those whose candle was there.
Members(f) == {s \in Symbols : f \in DOMAIN Markets[s].candles}
Measured == [f \in Frames |-> [x \in Features |->
                [s \in Members(f) |-> Measure(Markets[s], f)[x]]]]

\* The configured spec, never a substitute.
Load(specs, digest, id) ==
    IF digest \in DOMAIN specs /\ specs[digest].id = id THEN digest ELSE None

RankDirection(d, digest, values) ==
    LET model == Load(Candidates, digest, Configured[d].candidate)
        candidate == Candidates[model]
        known == /\ model # None
                 /\ candidate.direction = d
                 /\ TermFeatures(candidate) \subseteq DOMAIN values
        eligible == IF known THEN EligibleIndices(values, TermFeatures(candidate))
                    ELSE {}
        scores == Scores(candidate, eligible, values)
        none == [available |-> FALSE, model |-> model, order |-> <<>>,
                 separation |-> None, stability |-> None, qualification |-> None]
    IN  IF Cardinality(eligible) < MinCrossSection THEN none
        ELSE [none EXCEPT !.available = TRUE, !.order = Order(scores),
                          !.separation = Separation(scores, Order(scores))]

\* Results carry how they were made since contract v2.
ContractVersion(result) == IF result.analysis # None THEN 2 ELSE 1

\* Against the frame one boundary earlier, ranked by the same candidate.
StabilityOf(ranking, result, previous) ==
    LET candidate == Candidates[ranking.model]
        values == Measured[previous.frame]
        eligible == EligibleIndices(values, TermFeatures(candidate))
    IN  IF \/ ~ranking.available \/ previous = None
           \/ ContractVersion(previous) # ContractVersion(result) THEN None
        ELSE IF Cardinality(eligible) < MinCrossSection THEN None
        ELSE Stability(ranking.order, Order(Scores(candidate, eligible, values)))

\* The conditions of the direction's spec over the ranked universe.
Qualify(d, digest, ranking, values) ==
    LET found == Load(Qualifications, digest, Configured[d].qualification)
        spec == Qualifications[found]
        checks == Evaluate(spec, Range(ranking.order), values)
        unusable == [status |-> "unavailable", spec |-> found, truffles |-> {}]
    IN  IF found = None \/ ~ranking.available THEN unusable
        ELSE IF \/ spec.direction # d
                \/ spec.candidate # Candidates[ranking.model].id THEN unusable
        ELSE [unusable EXCEPT !.status = "evaluated",
                !.truffles = {s \in Range(ranking.order) : Qualified(checks[s])}]

Completeness(f) == (Points * Cardinality(frames[f].members)) \div Cardinality(Symbols)

\* The frame conditions depend on the clock, so they are never cached.
Gate(qualification, stale, completeness) ==
    IF \/ qualification.status = "unavailable"
       \/ ~stale /\ completeness >= Qualifications[qualification.spec].completeness
    THEN qualification
    ELSE [qualification EXCEPT !.status = "withheld", !.truffles = {}]

Respond(content, stale, completeness) ==
    [content EXCEPT !.ranking = [d \in Directions |->
        [content.ranking[d] EXCEPT !.qualification = Gate(@, stale, completeness)]]]

\* The next frame should have finalized, or has and is not analyzed.
Stale(f, newest, now) ==
    \/ newest > f /\ now > frames[newest].finalizedAt + Allowance
    \/ now > BaseDuration * (f + 1) + Allowance

\* A mutant of the key that ignores the spec files.
KeyOfFrame(marker) == <<marker, Configured>>

\* Everything a computed ranking is kept under.
Key(marker) == <<marker, files>>

Cached(key) == {i \in DOMAIN cache : cache[i].key = key}

\* Full: the oldest entry goes.
Put(key, content) ==
    LET kept == IF Len(cache) >= CacheSize THEN Tail(cache) ELSE cache
        same == {i \in DOMAIN kept : kept[i].key = key}
    IN  IF same = {} THEN Append(kept, [key |-> key, content |-> content])
        ELSE [kept EXCEPT ![Min(same)].content = content]

Marker == LET f == Max(Analyzed)
          IN  <<f, results[f].at, results[f].analysis>>

-----------------------------------------------------------------------------
(* Published rows.                                                         *)

SpecKey(payload) ==
    [d \in Directions |-> <<payload.ranking[d].model,
                            payload.ranking[d].qualification.spec>>]

\* A publication is one frame, one analysis of it, one set of specs.
SamePublication(row, payload) ==
    /\ row.payload.frame = payload.frame
    /\ row.payload.at = payload.at
    /\ SpecKey(row.payload) = SpecKey(payload)

\* INSERT ... ON CONFLICT DO NOTHING.
InsertRow(payload, publishedAt) ==
    IF \E i \in DOMAIN snapshots : SamePublication(snapshots[i], payload)
    THEN snapshots
    ELSE Append(snapshots, [payload |-> payload, publishedAt |-> publishedAt])

\* A mutant that drops the tie-break.
OlderByInstant(i, j) == snapshots[i].publishedAt < snapshots[j].publishedAt

\* The keyset order of the history: published_at, then id.
Older(i, j) ==
    \/ snapshots[i].publishedAt < snapshots[j].publishedAt
    \/ snapshots[i].publishedAt = snapshots[j].publishedAt /\ i < j


\* One page, newest first, strictly older than the last item of the one
\* before.
HistoryPage(before) ==
    LET rows == {i \in DOMAIN snapshots : before # None => Older(i, before)}
        sorted == Listed(rows, {x \in rows \X rows : Older(x[2], x[1])})
        page == SubSeq(sorted, 1, Min({PageSize, Len(sorted)}))
    IN  [items |-> page, more |-> Len(sorted) > PageSize]

\* The snapshot published just before.
Neighbour(i) ==
    LET older == {j \in DOMAIN snapshots : Older(j, i)}
    IN  IF older = {} THEN None
        ELSE CHOOSE j \in older : \A k \in older \ {j} : Older(k, j)

-----------------------------------------------------------------------------
\* The process starts when the boundary of the second frame passes, whose
\* header may be there; the first was finalized, and its analysis lost.
Init ==
    /\ clock = BaseDuration * (FirstFrame + 1)
    /\ \E second \in {"none", "building"} :
        frames = [f \in Frames |->
            CASE f = FirstFrame -> [status |-> "complete", members |-> Members(FirstFrame),
                                    finalizedAt |-> BaseDuration * FirstFrame]
              [] f = FirstFrame + 1 -> [NoFrame EXCEPT !.status = second]
              [] OTHER -> NoFrame]
    /\ results = [f \in Frames |-> None]
    /\ files = Files[1]
    /\ cache = <<>>
    /\ snapshots = <<>>
    /\ jobs = [j \in Jobs |-> Idle]
    /\ recovery = [looked |-> FALSE, todo |-> <<>>, since |-> clock]
    /\ walk = NoWalk
    /\ bounds = [edits |-> 0, analyses |-> 0, requests |-> 0, walks |-> 0]
    /\ seen = [r \in Requests |-> NothingSeen]
    /\ held = <<files>>

Market == <<frames, files>>

\* What running requests may yet read: of the frame that was the newest when
\* they began, or of a newer one.
Witness(stored, contents) ==
    seen' = [r \in Requests |->
                IF jobs[r].pc \in {"idle", "done"} THEN seen[r]
                ELSE [seen[r] EXCEPT
                        !.results = @ \cup {x \in stored : x.frame >= seen[r].newest},
                        !.files = @ \cup contents]]

Goto(j, pc) == jobs' = [jobs EXCEPT ![j].pc = pc]
Stop(j) == jobs' = [jobs EXCEPT ![j] = Idle]

-----------------------------------------------------------------------------
(* Around the rankings.                                                    *)

Tick ==
    /\ clock < MaxClock
    /\ clock' = clock + 1
    /\ UNCHANGED <<Market, results, cache, snapshots, jobs, recovery, walk,
                   bounds, seen, held>>

\* A boundary passes; the header of its frame is saved.
Build(f) ==
    /\ jobs["live"].pc = "idle"
    /\ clock \in BaseDuration * f .. BaseDuration * (f + 1) - 1
    /\ frames[f].status = "none"
    /\ frames' = [frames EXCEPT ![f].status = "building"]
    /\ UNCHANGED <<clock, files, results, cache, snapshots, jobs,
                   recovery, walk, bounds, seen, held>>

\* The frame is finalized with the members whose candle is there, and the
\* hook is called.
Finalize(f) ==
    LET members == Members(f)
    IN  /\ jobs["live"].pc = "idle"
        /\ frames[f].status = "building"
        /\ frames' = [frames EXCEPT ![f] =
                [status |-> IF members = Symbols THEN "complete" ELSE "partial",
                 members |-> members, finalizedAt |-> clock]]
        /\ jobs' = [jobs EXCEPT !["live"] = [Idle EXCEPT !.pc = "analyze", !.own = f]]
        /\ UNCHANGED <<clock, files, results, cache, snapshots,
                       recovery, walk, bounds, seen, held>>

\* Once, after the start: the finalized frames of the last day that lost
\* their analysis, oldest first.
RecoveryLooks ==
    /\ ~recovery.looked
    /\ LET lost == R!UnanalyzedFrames(Rows, recovery.since - RecentWindow, recovery.since)
       IN  recovery' = [recovery EXCEPT !.looked = TRUE,
                            !.todo = Listed({t \div BaseDuration : t \in lost},
                                            {x \in Frames \X Frames : x[1] < x[2]})]
    /\ UNCHANGED <<clock, Market, results, cache, snapshots, jobs, walk, bounds,
                   seen, held>>

RecoveryTakes ==
    /\ recovery.todo # <<>> /\ jobs["recovery"].pc = "idle"
    /\ recovery' = [recovery EXCEPT !.todo = Tail(@)]
    /\ jobs' = [jobs EXCEPT !["recovery"] =
                    [Idle EXCEPT !.pc = "analyze", !.own = Head(recovery.todo)]]
    /\ UNCHANGED <<clock, Market, results, cache, snapshots, walk, bounds, seen,
                   held>>

\* Measured at the decision time or later, of the frame's members only, and
\* stored over any result there is. A frame without members stores none.
Analyze(p) ==
    LET f == jobs[p].own
        result == [frame |-> f, at |-> bounds.analyses + 1, analysis |-> p]
    IN  /\ jobs[p].pc = "analyze"
        /\ clock >= DecisionTime(f)
        /\ bounds.analyses < MaxAnalyses
        /\ bounds' = [bounds EXCEPT !.analyses = @ + 1]
        /\ IF frames[f].members = {} THEN UNCHANGED <<results, seen>>
           ELSE /\ results' = [results EXCEPT ![f] = result]
                /\ Witness({result}, {})
        /\ Goto(p, "publish")
        /\ UNCHANGED <<clock, Market, cache, snapshots, recovery, walk, held>>

\* An analysis or an insert of a publisher that raises is logged,
\* and not tried again.
Fails(p) ==
    /\ jobs[p].pc \in {"analyze", "insert"}
    /\ Stop(p)
    /\ UNCHANGED <<clock, Market, results, cache, snapshots, recovery, walk,
                   bounds, seen, held>>

\* The operator commits another set of spec files.
Edit(contents) ==
    /\ bounds.edits < MaxEdits
    /\ contents # files
    /\ files' = contents
    /\ held' = Append(held, contents)
    /\ bounds' = [bounds EXCEPT !.edits = @ + 1]
    /\ Witness({}, {contents})
    /\ UNCHANGED <<clock, frames, results, cache, snapshots, jobs,
                   recovery, walk>>

-----------------------------------------------------------------------------
(* live_rankings, for a request or for a publisher: one step per await.    *)

\* Jobs on their way through live_rankings.
Readers == {j \in Jobs : jobs[j].pc \in {"marker", "frames", "load", "long", "short", "insert"}}

\* A request reads the clock and the marker.
Begin(r) ==
    /\ jobs[r].pc = "idle"
    /\ bounds.requests + bounds.walks < MaxCalls /\ Cardinality(Readers) < MaxReaders
    /\ bounds' = [bounds EXCEPT !.requests = @ + 1]
    /\ jobs' = [jobs EXCEPT ![r] =
            IF Analyzed = {} THEN Idle
            ELSE [Idle EXCEPT !.pc = "frames", !.now = clock, !.marker = Marker]]
    /\ LET newest == IF Analyzed = {} THEN 0 ELSE Max(Analyzed)
       IN  seen' = [seen EXCEPT ![r] = [newest |-> newest, files |-> {files},
                        results |-> {results[f] : f \in Analyzed \cap {newest}}]]
    /\ UNCHANGED <<clock, Market, results, cache, snapshots, recovery, walk, held>>

\* The response is sent.
Deliver(r) ==
    /\ jobs[r].pc = "done"
    /\ Stop(r)
    /\ seen' = [seen EXCEPT ![r] = NothingSeen]
    /\ UNCHANGED <<clock, Market, results, cache, snapshots, recovery, walk,
                   bounds, held>>

\* publish: only the frame now served live is captured.
PublishCheck(p) ==
    /\ jobs[p].pc = "publish" /\ Cardinality(Readers) < MaxReaders
    /\ IF Analyzed # {} /\ Max(Analyzed) = jobs[p].own
       THEN jobs' = [jobs EXCEPT ![p].pc = "marker", ![p].now = clock]
       ELSE Stop(p)
    /\ UNCHANGED <<clock, Market, results, cache, snapshots, recovery, walk,
                   bounds, seen, held>>

\* Its live_rankings reads the marker again.
ReadMarker(p) ==
    /\ jobs[p].pc = "marker"
    /\ jobs' = [jobs EXCEPT ![p].pc = "frames", ![p].marker = Marker]
    /\ UNCHANGED <<clock, Market, results, cache, snapshots, recovery, walk,
                   bounds, seen, held>>

\* The content is there: answer the request, or go on to the insert if it
\* is still the publisher's frame.
Finish(j, stale, content) ==
    LET answer == Respond(content, stale, Completeness(content.frame))
    IN  jobs' = [jobs EXCEPT ![j] =
            CASE j \in Requests ->
                    [Idle EXCEPT !.pc = "done", !.now = jobs[j].now, !.content = answer]
              [] j \in Publishers /\ jobs[j].own = content.frame ->
                    [Idle EXCEPT !.pc = "insert", !.own = jobs[j].own,
                                 !.now = jobs[j].now, !.content = answer]
              [] OTHER -> Idle]

\* The two frame reads; the marker's frame does not change between them.
ReadFrames(j) ==
    LET f == jobs[j].marker[1]
        stale == Stale(f, Max(FinalizedFrames), jobs[j].now)
        key == Key(jobs[j].marker)
    IN  /\ jobs[j].pc = "frames"
        /\ IF Cached(key) # {}
           THEN Finish(j, stale, cache[Min(Cached(key))].content)
           ELSE jobs' = [jobs EXCEPT ![j].pc = "load", ![j].stale = stale, ![j].key = key]
        /\ UNCHANGED <<clock, Market, results, cache, snapshots, recovery, walk,
                       bounds, seen, held>>

\* The frame's results, and the Long ranking by the candidate file as it is.
LoadResults(j) ==
    LET result == results[jobs[j].marker[1]]
        long == RankDirection("long", files["long"].candidate, Measured[result.frame])
    IN  /\ jobs[j].pc = "load"
        /\ jobs' = [jobs EXCEPT ![j].pc = "long", ![j].result = result,
                                ![j].content =
                [frame |-> result.frame, at |-> result.at, analysis |-> result.analysis,
                 ranking |-> [d \in {"long"} |-> long]]]
        /\ UNCHANGED <<clock, Market, results, cache, snapshots, recovery, walk,
                       bounds, seen, held>>

\* The ranking of a direction, now that the frame before it is read.
Complete(d, ranking, result) ==
    LET previous == IF result.frame - 1 \in Frames THEN results[result.frame - 1] ELSE None
    IN  [ranking EXCEPT !.stability = StabilityOf(ranking, result, previous),
                        !.qualification =
                            Qualify(d, files[d].qualification, ranking, Measured[result.frame])]

\* The frame before it is read for Long, which is completed; then Short is
\* ranked, by the files there are now. For a ranking that is not available
\* nothing is read: its step is one the scheduler takes at once.
ReadLong(j) ==
    LET result == jobs[j].result
        long == jobs[j].content.ranking["long"]
        short == RankDirection("short", files["short"].candidate, Measured[result.frame])
    IN  /\ jobs[j].pc = "long"
        /\ jobs' = [jobs EXCEPT ![j].pc = "short", ![j].content.ranking =
                [long |-> Complete("long", long, result), short |-> short]]
        /\ UNCHANGED <<clock, Market, results, cache, snapshots, recovery, walk,
                       bounds, seen, held>>

\* The frame before it is read again for Short, which is completed; the
\* content is kept and answered.
ReadShort(j) ==
    LET content == [jobs[j].content EXCEPT
            !.ranking["short"] = Complete("short", @, jobs[j].result)]
    IN  /\ jobs[j].pc = "short"
        /\ cache' = Put(jobs[j].key, content)
        /\ Finish(j, jobs[j].stale, content)
        /\ UNCHANGED <<clock, Market, results, snapshots, recovery, walk, bounds,
                       seen, held>>

Insert(p) ==
    /\ jobs[p].pc = "insert"
    /\ snapshots' = InsertRow(jobs[p].content, jobs[p].now)
    /\ Stop(p)
    /\ UNCHANGED <<clock, Market, results, cache, recovery, walk, bounds, seen,
                   held>>

-----------------------------------------------------------------------------
(* A reader of the published history.                                      *)

StartWalk ==
    /\ bounds.requests + bounds.walks < MaxCalls
    /\ walk.pc # "reading" /\ snapshots # <<>>
    /\ walk' = [pc |-> "reading", items |-> <<>>, owed |-> DOMAIN snapshots]
    /\ bounds' = [bounds EXCEPT !.walks = @ + 1]
    /\ UNCHANGED <<clock, Market, results, cache, snapshots, jobs, recovery,
                   seen, held>>

NextPage ==
    LET page == HistoryPage(IF walk.items = <<>> THEN None ELSE Last(walk.items))
    IN  /\ walk.pc = "reading"
        /\ walk' = [walk EXCEPT !.items = @ \o page.items,
                                !.pc = IF page.more THEN "reading" ELSE "done"]
        /\ UNCHANGED <<clock, Market, results, cache, snapshots, jobs, recovery,
                       bounds, seen, held>>

\* The previous snapshot of a detail page.
PreviousSnapshot ==
    /\ walk.pc = "reading" /\ walk.items # <<>>
    /\ Neighbour(Last(walk.items)) # None
    /\ walk' = [walk EXCEPT !.items = Append(@, Neighbour(Last(walk.items)))]
    /\ UNCHANGED <<clock, Market, results, cache, snapshots, jobs, recovery,
                   bounds, seen, held>>

-----------------------------------------------------------------------------
Next ==
    \/ Tick
    \/ \E f \in Frames : Build(f) \/ Finalize(f)
    \/ RecoveryLooks \/ RecoveryTakes
    \/ \E p \in Publishers : Analyze(p) \/ Fails(p) \/ PublishCheck(p)
                             \/ ReadMarker(p) \/ Insert(p)
    \/ \E i \in DOMAIN Files : Edit(Files[i])
    \/ \E r \in Requests : Begin(r) \/ Deliver(r)
    \/ \E j \in Jobs :
        ReadFrames(j) \/ LoadResults(j) \/ ReadLong(j) \/ ReadShort(j)
    \/ StartWalk \/ NextPage \/ PreviousSnapshot

Spec == Init /\ [][Next]_vars

-----------------------------------------------------------------------------
Reverted == ~IsInjective(held)

\* What the files' contents say of one direction of an analysis.
Fresh(d, candidate, qualification, result) ==
    LET ranking == RankDirection(d, candidate, Measured[result.frame])
    IN  [ranking EXCEPT !.qualification = Qualify(d, qualification, ranking, Measured[result.frame])]

\* The next frame was not due yet, and this one has enough members.
MayQualify(answer, now, spec) ==
    /\ now <= BaseDuration * (answer.frame + 1) + Allowance
    /\ Completeness(answer.frame) >= Qualifications[spec].completeness

AnswerIsCurrent(r) ==
    LET answer == jobs[r].content
    IN  \E result \in seen[r].results :
            /\ answer.frame = result.frame /\ answer.at = result.at
            /\ \A d \in Directions :
                \E c, q \in seen[r].files :
                    LET shown == answer.ranking[d]
                        fresh == Fresh(d, c[d].candidate, q[d].qualification, result)
                    IN  /\ shown.order = fresh.order
                        /\ shown.model = fresh.model
                        /\ shown.qualification.spec = fresh.qualification.spec
                        /\ shown.qualification.truffles # {} =>
                            /\ shown.qualification = fresh.qualification
                            /\ MayQualify(answer, jobs[r].now, fresh.qualification.spec)

\* An answer is of a frame that was the newest analyzed one at some moment of
\* the request, and of an analysis of it stored by its end. The order of each
\* direction is that of a candidate file, and its Truffles those of a
\* qualification file, that were there while it ran; Truffles are shown only
\* while the next frame is not due. A kept content must not outlive the
\* analysis or the files it was made from (live_rankings, _SNAPSHOTS), nor its
\* Truffles the frame. Unless files went back to earlier contents.
ServedCurrent ==
    [][\A r \in Requests :
        jobs[r].pc = "done" /\ jobs'[r].pc = "idle" /\ ~Reverted => AnswerIsCurrent(r)]_jobs

\* A reader who pages through the published history, or steps back from one
\* snapshot to the one before, sees each snapshot once, newest first, and at
\* the end every one that was there when it started, however many are
\* published meanwhile (history_page, _neighbour).
WalkIsExact ==
    /\ \A i \in 1 .. Len(walk.items) - 1 :
        /\ walk.items[i] # walk.items[i + 1]
        /\ snapshots[walk.items[i]].publishedAt >= snapshots[walk.items[i + 1]].publishedAt
    /\ IsInjective(walk.items)
    /\ walk.pc = "done" => walk.owed \subseteq Range(walk.items)

\* Four reads count the same frames by different queries and agree: a slot
\* the last day misses is one MARKET calls missed or one still building;
\* Sniffer's unanalyzed frames are the eligible ones without a result; the
\* days add up to the total, whatever they count; and the intervals part the
\* grid (missed_frames, count_unanalyzed_frames, recent_continuity,
\* frame_coverage).
ReportsAgree ==
    LET now == clock
        missed == R!MissedFrames(Rows, now)
        recent == R!RecentContinuity(Rows, now)
        unanalyzed == R!UnanalyzedFrames(Rows, now - RecentWindow, now - DecisionDelay - Allowance)
        coverage == R!FrameCoverage(Rows, now,
                        IF Analyzed = {} THEN None ELSE BaseDuration * Min(Analyzed))
        Days(count) == SumFunction([d \in DOMAIN coverage.daily |-> coverage.daily[d][count]])
        lengths == [i \in coverage.intervals |-> (i[2] - i[1]) \div BaseDuration + 1]
    IN  /\ missed.expected = recent.expected
        /\ recent.missing = missed.missed + recent.building
        /\ Cardinality(unanalyzed) = recent.eligible - recent.analyzed
        /\ \A count \in DOMAIN coverage.total : Days(count) = coverage.total[count]
        /\ SumFunction(lengths) = coverage.total.expected
=============================================================================
