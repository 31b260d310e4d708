# Market Truffler in TLA+

Market Truffler is a FastAPI process (`src/apps/api`) over PostgreSQL that
collects perpetual-futures market data from Bybit, freezes it every five
minutes into a *market frame*, measures and ranks the instruments of each
frame, and keeps research shards, reservations and a knowledge ledger in a
directory tree beside the database. A second process, the research worker,
writes shards and backups. The Next.js front end only renders what the API
answers. Paths below are relative to `src/apps/api/app/`.

This directory holds models of the parts of it where order, interleaving,
crashes and retries decide whether the data can be trusted.

## Inventory

| Component | State it keeps | Operations | Interacts through |
|---|---|---|---|
| Frame synchronizer (`services/frame_synchronizer.py`, `repositories/frame_repository.py`) | `market_frames`, `market_frame_members`; `_last_scheduled` in memory | open a BUILDING row at a boundary, wait the grace period, finalize; resolve an interrupted build at startup | reads instruments and candles, awaits the Sniffer's hook |
| Sniffer (`services/sniffer.py`, `repositories/sniffer_repository.py`) | `sniffer_results` | analyse a frame live, recover unanalysed frames at startup | reads frames and candles, awaits the publisher |
| Ranking publisher, live rankings (`services/ranking_snapshots.py`, `services/live_rankings.py`) | `ranking_snapshots`; `_SNAPSHOTS` cache | capture the ranking of the newest frame, serve it | reads results |
| Universe (`services/market_universe.py`, `repositories/instrument_repository.py`) | `instruments` (`is_active`) | reconcile with what was discovered | called hourly by the history reconciler |
| Candle ingestion and aggregation (`services/candle_ingestion.py`, `candle_aggregation.py`, `live_candle_sink.py`) | `candles` | upsert closed 5m candles, derive 15m/1h/4h/24h | called by the collector and the reconciler, concurrently |
| History reconciler (`services/history_reconciler.py`) | per-instrument watermarks, in the database | bootstrap backwards, catch up forwards | REST client, ingestion |
| Live collector (`services/market_collector.py`, `integrations/bybit/ws_client.py`) | subscriptions, connection | reconnect, pass on confirmed candles | ingestion |
| Open interest and funding reconcilers (`services/open_interest_reconciler.py`, `funding_rate_reconciler.py`) | series rows with `ingested_at`, watermarks | poll, bootstrap, catch up, repair one bucket, prune | REST client |
| Partition retention (`services/partition_manager.py`, `partition_maintenance.py`) | monthly partitions of candles and members | create ahead, drop the expired ones no frame refers to | locks, the reconciler's hourly pass |
| Shard generation (`research/continuity.py`, `research/dataset.py`) | generation lock, state file, temporary directories, published shards | one pass: decide each day, generate in a child process, publish by rename | file system, database reads |
| Backup (`research/backup.py`) | backup tree, status file | copy, verify, recovery test | shards |
| Reservations, prospective evaluation (`research/reservations.py`, `research/prospective.py`) | event directories | reserve, grant, register, evaluate once | shards |
| Knowledge ledger (`research/knowledge.py`, `model_knowledge.py`) | numbered revision files | append a revision | campaigns |
| Runs, campaigns, alerts (`research/runs.py`, `campaign.py`, `research_alerts.py`) | run directories, alert states | write once; open, acknowledge, resolve | the worker |
| Features (`features/`), scoring (`ranking/`) | none | pure functions of a frame's rows | Sniffer, live rankings |
| Research computations (`research/truffle_evaluation.py`, `comparison.py`, ...) | none | pure functions of shards | the research commands |
| Status and explorer reads (`services/research_data_health.py`, ...), authentication | none | - | everything, read-only |

What makes each of them correct, and what is hard:

* **Frames**: at most one row per boundary, opened only for the present, frozen
  once finalized, over the universe of the instant it was opened, whatever
  crashes between two commits. Hard: restarts, clock corrections, failed calls.
* **Sniffer and publisher**: every frame with data is analysed once; the history
  of published rankings is in time order. Hard: the recovery and the live loop
  interleave at every await.
* **Candles**: a derived candle is the aggregate of its base candles. Hard: two
  ingestions of one instrument overlap, corrections, a crash between two commits.
* **Reconcilers**: no gap is passed over silently; a permanently failing call
  must not stop the series for good. Hard: watermarks against retention.
* **Retention**: no candle a stored frame refers to is dropped. Hard: the check
  and the drop against a frame being finalized.
* **Shards**: a published shard is never replaced, by one worker at a time.
  Hard: a lock that another process takes while a pass runs.
* **Series**: nothing between watermark and newest row is missing, and a replay
  reads what its live measurement could have read. Hard: corrections, repairs,
  several commits in a round.
* **Prospective evaluation and ledgers**: a reserved outcome is read only by a
  started evaluation, and what a ledger calls independent was a first look.
  Hard: two evaluators, a crash between `started` and `completed`, a check and a
  read with a registration between them.
* **Live rankings**: an answer is of the newest analysed frame and of the files
  that are there. Hard: a shared cache filled across awaits.
* **Backup**: what is called protected is a whole copy. Hard: decay between two
  verifications, a volume that comes and goes.

## How the models are laid out

`tlc -config <run>.cfg <module>` checks a run, `tlapm <module>.tla` a proof
module. `PROJECT.json` maps every definition to the lines it models, and lists
the runs, the theorems, the hazards and the disagreements found.

| Module | Models | Built on |
|---|---|---|
| `MarketFrames` | frame synchronizer, Sniffer, ranking publisher over their four tables | |
| `ObservationLog` | what the frame tables promise their readers: a write-once log in time order | |
| `MarketFramesProofs` | theorems | `MarketFrames` |
| `CandleIngestion` | upsert of base candles, derivation of the coarser ones, two concurrent callers | |
| `MCCandleIngestion` | one history variable (whether two ingestions overlapped); `FollowedSpec` is without TLC's bound | `CandleIngestion` |
| `CandleHistory` | reconciler, live collector and exchange of one instrument | `CandleIngestion` |
| `CandleProofs` | theorems | `MCCandleIngestion`, `CandleHistory` |
| `ShardGeneration` | passes of the research workers, their children, the lock, the directory | |
| `ShardArchive` | what the data directory promises its readers | |
| `ShardGenerationProofs` | theorems | `ShardGeneration` |
| `ObservationSeries` | open interest or funding of one instrument: reconciler, repair script, and what a frame may read | |
| `ObservationSeriesProofs` | theorems | `ObservationSeries` |
| `PartitionRetention` | maintenance of the monthly partitions beside frames and research reads | |
| `PartitionRetentionProofs` | theorems | `PartitionRetention` |
| `EvidenceRules` | what recorded runs justify: ledger rules v1 and v2, model knowledge | |
| `ProspectiveEvaluation` | reservations, registrations, exposure log, evaluations, research commands, both ledgers | `EvidenceRules` |
| `AttemptLog` | what exposure logs and run records promise together: attempts that start and end once | |
| `MCProspective` | the registrations offered to TLC, and what their data may show | `ProspectiveEvaluation` |
| `ProspectiveProofs` | theorems | `ProspectiveEvaluation` |
| `FeatureRules` | the features of one instrument at a decision time | |
| `RankingRules` | scores, order, separation, stability, qualification of a cross-section | `FeatureRules` |
| `FrameReports` | four reads that count the same frames | |
| `LiveRankings` | the shared cache of rankings, requests, publishers, the published history | `RankingRules`, `FrameReports` |
| `MCLiveRankings` | a market of three instruments and the spec files | `LiveRankings` |
| `LiveRankingsProofs` | theorems | `LiveRankings` |
| `ResearchAlerts` | the conditions a worker's pass derives | |
| `ResearchBackup` | backup, verification, recovery test, restore, beside what breaks | `ResearchAlerts` |
| `ResearchBackupProofs` | theorems | `ResearchBackup` |

In every module one action is one piece of the code between two points where
another actor can run: an `await`, a commit, or a system call. What is lost
with the process and what survives it are separate variables, and a crash
resets exactly the first. Operators named in a comment "Mutant of X" are
plausible mistakes in X: with the mistake, the property named in
`PROJECT.json` fails, which shows that the run can see it.

### MarketFrames

The database is `status`, `expected`, `available`, `members` (the frame row
and its member rows, per boundary), `analyzedAt`, `analysis` (stored results)
and `snapshots`. The process is `proc`, `loop`, `target`, `last` (the frame
loop; `last` is `_last_scheduled`), `recovery`, `until`, `missing` (startup
recovery) and, per actor, `pc`, `subject`, `taken`, `ranked` (one analysis and
publication under way). The actors are the frame loop, which awaits the live
analysis inline, and the startup recovery, a task beside it. Times are boundary
numbers. A candle's numbers do not matter here; whether an instrument has the
closed candles a member needs is `priced`. What the code stamps with
`datetime.now(UTC)` is `stamp`, a count of readings in order; a clock set back
(`StepBack`) moves it back as far as it likes, so that later readings repeat
earlier ones or lie before them.

The frames are shown to implement `ObservationLog` by a refinement mapping
(universe <- `expected`, seen <- `members`).

### CandleIngestion and CandleHistory

Slots number the 5-minute intervals; a stored candle is a version of its slot,
and an aggregate is the function of the versions it was built from, so equality
of aggregates is equality of constituents. `step`, `touched`, `todo`, `found`
are the locals of the two callers. The commit of the batch, the read of the
windows of a timeframe and the commit of its aggregates are separate actions,
because each runs in a step of its own on its own session.

`CandleHistory` extends it with time in half candles, an exchange that may
have no candle for an interval (`gaps`) or serve one late (`unindexed`), the
feed of confirmed pushes, the two persisted watermarks and the place `at` of
the reconciler in its round. Instruments share no state, so one stands for all.
`BootstrapAdvance` leaves open whether the catch-up of the same round still
sees fresh attributes after the commit of the watermark or ends the round with
an error: both are steps of the model.

### ShardGeneration

`shard`, `place` and `whole` are the data directory: a directory is a number,
separate from its name and from its content, since `rmtree` works through an
open descriptor while a rename changes the name. `owner` is the database
session that holds the advisory lock. Each worker has its pass (`pc`,
`counted`, `due`, `day`, `ending`), its sweep of temporary directories
(`sweep`, `opened`) and its child process (`child`, `dir`). Where a day stands
before its decision is the environment's `stage`: waiting (to mature, for the
readiness gate), ready, or gone (its candles have expired or were never
collected, `continuity.py:602-605`; nothing brings them back). A time of next
retry is membership in `resting`. The child dies with its worker, as the container's
other process. Decisions of a pass are one step; so are the two saves of
`state.json` that end an interrupted pass.

### ObservationSeries

One module stands for both reconcilers: `kind` is chosen at the start and
decides where they differ (pages and windows, what an empty answer means, who
repairs). An instant is a number; the observation `b` is made at
`BucketTime(b)` and frame `b` is measured at `Decision(b)` (`DECISION_DELAY`),
so the clock can stand before, at and after either. `rows` is the table with
each row's `ingested_at` (0 - 1 for the NULL of an older deployment), `synced`
the watermark, `pc`, `since`, `until`, `windows`, `batch`, `retrying` the locals
of a round, `repair`, `todo`, `fixed` those of
`scripts/repair_open_interest_gaps.py`. `seen` records what the live
measurement of each frame could read, `legacyGaps` and `truncated` what was
missing before or what one full funding page left behind: they are history
variables, read by properties only. Statements between two commits are
separate actions; a request and what is done with its answer are too.

### PartitionRetention

The clock counts months; `part` holds the partitions of two tables and `refs`
the months of stored members and the candles they refer to. Table locks are
modelled as PostgreSQL serves them: a session shares the lock of what it has
read until its transaction ends (`reader`, `held`), creating or dropping needs
it exclusively (`excl`), and a request that waits (`want`) holds up later ones
until `lock_timeout` gives up. `pc`, `at`, `left`, `month`, `doomed` are the
place of a pass; `required` tells the startup's from the deferrable one.
`refresher` is the loop that discovers the universe every hour and requests a
pass with it; an error of the database ends it (`RefreshFails`), and only a
restart brings it back.

### ProspectiveEvaluation and EvidenceRules

Days are numbers; the shard of a day reads the first hours of the next (the
horizon of its labels), and the four hours of embargo are one whole day, as
`_embargo_days` rounds them. `regs`, `log`, `runs`, `ledger`, `models` are the
registrations, exposure logs, run records and latest revisions on disk; `job`
is an evaluator's place among its steps (`authorized`, `started`, the reads, the
run records, `completed` or `failed`), `study` a research command between
`check_access` and the read it allows. An event takes its number and is written
in two steps, because two evaluators can be between them. What the statistics
find (`Findings`) is chosen for each claim among reports for and against it
(`Reports`), the same for the same data since the resampling is seeded; a period
with days missing has too little of it. A research comparison finds the claim
supported, so that it can disagree with an evaluation. `looks`, `fresh`,
`overlapped` are history.
The logs of all registrations and the run records together are shown to
implement `AttemptLog` by a refinement mapping: per attempt, the types of its
events, the runs recorded under it and the runs its events name.
`EvidenceRules` translates the verdict-to-status rules as operators over sets of
runs.

### LiveRankings, RankingRules, FeatureRules, FrameReports

Features and scores are fixed-point functions of a small unit over a market of
three instruments with gaps. A task runs alone up to its next `await`, so the
actions of `live_rankings` end where it awaits: after the frame is read, after
the results are loaded, and after each of the two reads of the previous frame's
results (`ReadLong`, `ReadShort`: one per side, `live_rankings.py:343-354, 403`,
with the other tasks in between). `cache` is
`_SNAPSHOTS` in order of insertion; its key is what `Key` lists. `jobs` are
requests and the two publishers; `Edit` replaces the committed spec files.
`Listed` is `ORDER BY` over an order given as a set of pairs. `seen` and `held`
are history: what was current while a request ran, what the files have been. A
call is a request or the start of a walk; `MaxCalls` bounds both together.
`walk` is a reader of the history. `FrameReports` holds the day's counts of
`collection_continuity`, Sniffer's status, `recent_continuity` and
`frame_coverage` as four operators over one set of frame headers.

### ResearchBackup and ResearchAlerts

Item 1 is a registration, which carries no hash of its own (run records are the
same); the others are shards, whose manifest does. Content is `intact`,
`rotten` (damaged in the data directory), `garbled` (its manifest can no longer
be parsed: not an integrity error for a backup, `backup.py:121, 250-253`, and
no pass builds its status, `continuity.py:889`), `bare` (a registration's
directory without the registration: unreadable, so everything is reserved) or
`decayed` (damaged in a copy), and a copy is its files with the content its
`BACKUP_CHECKSUMS.json` was written from. `volume` and `shadow` are what lies at the destination path while it is
mounted and what was written under the mount point while it was not. Time is
counted in passes and every stored instant by its age. The worker and an
operator's command share the generation lock; the recovery test and the
verification run outside it, as in the code. `since` is history.

## What the runs show

| Run | Bounds | Shows |
|---|---|---|
| `market_frames` | 1 instrument, 3 boundaries, 2 crashes, full recovery | the write-once log, no second analysis; liveness |
| `market_frames_faults` | 1 instrument, 3 boundaries, 2 crashes, 2 storage errors, 1 clock step back, recovery of 1 frame out of the last 2 boundaries | rankings in order until the clock is set back, published frames were analysed, startup resolution, frozen rows |
| `candle_ingestion` | 4 slots, windows of 2 and 4, corrections, 2 writers, 1 abandoned ingestion | no partial aggregate, nothing left behind, current unless overlapped |
| `candle_history` | 4 slots, pages of 1, 1 gap, 1 late candle, 1 failed request, 1 crash or failed ingestion | no silent gap, watermarks only extend, both walks end |
| `shard_generation` | 2 days, 2 workers, 4 directories, 2 failures, stops, crashes or lost sources | refinement of `ShardArchive` (whole shards, written once), remembered failures |
| `shard_generation_loss` | 2 days (one always fails), 2 workers, 1 lost session, 1 failure or lost source | no late publication; liveness |
| `observation_series` | 5 buckets, warm-up 2, retention 3, pages and windows of 1, 2 windows per round, 3 sets of gaps, 2 sets of old rows, 2 disturbances | nothing inside the watermarks missing, replay sees no more than live, the series catches up |
| `partition_retention` | 2 tables, 3 months, retention of 1, 1 frame, 1 retry, 1 failed statement, failed refresh or crash | no member refers to a dropped candle, only what is past retention is dropped, frames never wait for good, the retained window is restored |
| `prospective` | 3 registrations (validation and holdout; a revision of it; a Truffle's), evidence for or against the shared claim and the policy, 6 days, 2 evaluators, 2 attempts, 1 crash, 1 research command | reserved outcomes unread, independent means first, ledgers backed by the log, refinement of `AttemptLog` |
| `live_rankings` | 3 instruments, 2 frames, top of 2, cache of 1, 1 request or walk of the history, 1 change of files, 2 analyses, pages of 1 | answers current, history walked exactly, four reports agree |
| `research_backup` | 3 items (registration, a shard to come, an expired one), re-verified every 2 passes, 1 verification a pass, 1 fault, 1 command | verified was whole, damage does not spread, protected or reported in the end |

Why these bounds are enough to be of use. Three boundaries are the fewest with
an older frame under recovery, a newer one being analysed and one being opened;
one instrument, priced or not, makes a frame whole or empty, and what tells
several apart (partial frames) matters to no order here and is left to the
proofs. Four slots with windows of two and four give a window of windows, a
batch that ends inside one, and two callers that split one. Pages of one candle
make every chunk span more than one request, with the floor and the present
each one step away. Two workers are all who ever contend: a third meets a lock
that is held. Four directories are two more than live at a time, so that none
is reused while another still refers to it. `MCCandleIngestion` explores
corrections only until two ingestions overlap.

Five buckets with a warm-up of two give a series to seed, to extend backwards
over several pages and to catch up over more windows than a round walks, with
gaps at its old end and in its middle; two disturbances are a failure during
the repair of an earlier one. Three months with a retention of one make a month
expire while a frame that refers to it is being finalized, and the next month
due. Six days hold a validation, its embargo, a holdout and a second and third
registration of the holdout's period; two evaluators and two attempts are a
repeat and a concurrent pair. Evidence that may differ between two runs is what
makes runs of one id disagree and a ledger refuse. A research command reads the
holdout's day or the day before a partition, whose labels reach into it. A
cache of one entry makes every second key evict the other; two frames are the
least with a previous one for stability, and with gaps chosen so that one
instrument has no whole window in the first and another no candle in the
second. A request and a walk only read, so each of them is explored beside the
publishers and not beside the other. Three items are the kinds that differ: no
hash of its own, still generated, gone for good if lost. One fault is enough,
as what repairs it runs in later passes without another.

The type definitions `HistoryTypeOK`, `SeriesTypeOK` and `ProspectiveTypeOK` say
what the variables hold, as do `RetentionTypeOK` and the `TypeOK` of
`CandleIngestion` and `ShardGeneration`. They are proved and are in no run.

One run ends in a violation: **`prospective_holdout`**. Once the validation of
a registration has its run records, the evaluation of its holdout appends
`started`, reads the reserved labels and raises, because the experiment id
`<registration>--<comparison>` (`research/prospective.py:780`,
`truffle_evaluation.py:874`) omits the role while the definition hashed for it
includes it, and one id bears one definition (`runs.py:58-65`). The attempt is
recorded as failed, counts as exposure and cannot be repeated: the holdout is
spent. `docs/TRUFFLE_EVALUATION.md:105-107` schedules exactly that order.

### Remarks on the code met while modelling

No run is spent on these; each is a behaviour the models have, or a place they
take as the code has it.

* *Frames.* A finalize that raised and a later crash leave two BUILDING rows;
  startup resolves the first that `find_building` returns
  (`frame_synchronizer.py:147`; `StartupResolves` is stated for runs without a
  storage error). A second finalize of a boundary, after a clock correction,
  commits member rows before it looks at the status (`frame_repository.py:113`):
  `TerminalRowFrozen` is about the row. `published_at` and `analyzed_at` are
  readings of the wall clock (`ranking_snapshots.py:197`, `sniffer.py:112`):
  after it was set back a newer frame can be recorded as published before an
  older one, so `PublishedInOrder` is promised until then. A result committed just before a crash
  has no ranking captured, and nothing retries the capture.
* *Candles.* An aggregate computed before a correction can be stored after it
  when two ingestions overlap (`candle_aggregation.py:93`), and stays until the
  window is touched again. When the retry of a chunk fails the watermark still
  passes it (`history_reconciler.py:401`). The candle forming at discovery can
  close between the exchange's answer and the read of the clock
  (`history_reconciler.py:322`), and its forming values are stored.
* *Shards.* A session that ends between the child's lock check and its rename
  (`dataset.py:471`) lets the next holder's sweep empty the directory while it
  is being renamed. The sweep in `finally` (`continuity.py:713`) also runs after
  the lock was lost; that costs a retry (`EveryDayPreserved`).
* *Series.* A series whose bootstrap finds nothing marks its floor reached
  (`open_interest_reconciler.py:316`, `funding_rate_reconciler.py:236`), and
  `_catchup_step` then returns for want of a row ("next round's bootstrap seeds
  it", line 355), so entries listed later are never fetched: `SeriesCatchesUp`
  excepts a series without rows. A gap on the exchange longer than a round
  walks makes every round scan the same empty stretch. A full page of funding,
  newest first, can seal a gap of more than 200 settlements. An exception in
  `list_active` or `delete_before` ends the loop's task. A row stamped before a
  decision time and committed after it is visible to a replay only.
* *Retention.* A request for maintenance comes with the hourly discovery of
  the universe, so none comes while the exchange refuses to answer it. The loop
  that discovers it catches nothing but that refusal
  (`history_reconciler.py:174-207`): one error of the database, in the
  reconciliation or in the hook for new symbols, ends its task. From then on no
  partition is created or dropped until the process restarts, and nothing
  notices; `MaintenanceSettles` has that it lives as a premise.
* *Rankings.* The key digests the files before an `await` and loads them after
  it; files that change there and back can leave the wrong content under a
  digest (`ServedCurrent` excepts files that go back). The stability kept with
  a ranking is of the previous frame's results as they were.
* *Prospective evaluation.* Two evaluators of one holdout can both pass the
  check and evaluate it twice. Two overlapping registrations deny each other's
  evaluation through `check_access`. A validation repeated after late shards may
  disagree with the first, and `derive_ledger` then refuses. A crash between a
  run's record and `completed` leaves a run that no ledger accepts.
  `model_knowledge.sync` writes revisions without verifying the runs; only
  `--verify` does. Under rules v1, to which v2 falls back, a retrospective
  validation can still yield `independently_supported`.
* *Backup.* The destination is checked once, at the start: a volume unmounted
  during the pass has its items written under the mount point and reported as
  protected until the next mounted pass. After two passes without the volume
  the date of the last success is gone (`backup.py:218`), and the alert says
  that no verified backup exists. Items that vanished from the data directory
  vanish from the report. A registration or run damaged before its first backup
  is copied as it is. A shard whose `manifest.json` no longer parses makes
  `build_status` raise in every pass, outside any `try` (`continuity.py:889`):
  until somebody removes it no alert is raised or resolved, neither for it nor
  for anything else. `ProtectedOrReported` is about what follows once every
  manifest parses.

## Fairness

* `MarketFrames`: weak fairness of the tasks the process itself schedules
  (start, startup resolution, frame loop, recovery, each analysis under way).
  Nothing is assumed of the clock beyond what the loop waits for, nor of
  crashes. The restart is docker compose's `restart: unless-stopped`.
* `CandleHistory`: weak fairness of the reconciler's rounds and of the restart.
  Nothing is assumed of pushes. Not covered: `list_active` is awaited outside
  any `try`, so that its exception ends the loop's task while the process
  lives on (listed as a hazard).
* `ShardGeneration`: weak fairness of each worker (its pass or its child) and
  of time (days mature, back-offs end). A worker that finds the lock held is
  simply not enabled; which of them makes progress does not matter.
* `ObservationSeries`: weak fairness of the loop's rounds and of the restart
  (`restart: unless-stopped`). Nothing of the exchange, the clock, the repair
  script or the retirement of an instrument.
* `PartitionRetention`: weak fairness of the maintenance task, of the restart
  and of the hourly refresh while its loop lives (the loop's end is a step of
  the model, and nothing is assumed to prevent it); strong fairness of the frame builder, for
  PostgreSQL serves its lock queue in order, so a builder behind a request that
  gave up is next. Nothing is assumed of research reads: `MaintenanceSettles`
  has their end as a premise, `FramesNotBlocked` has not.
* `ResearchBackup`: weak fairness of the worker's loop, which starts a pass an
  interval after the last whatever that one did, and of an operator's command
  that was begun. Nothing is assumed of mounting: that the volume stays mounted
  and that every manifest parses are premises of `ProtectedOrReported`.
* `ProspectiveEvaluation` and `LiveRankings` state safety only; the commands of
  the first are the operator's, the second answers requests.

## What is proved

| Theorem | Statement | Assumption beside those on the constants |
|---|---|---|
| `MarketFramesProofs!TypeCorrect` | `Spec => []TypeOK` | |
| `MarketFramesProofs!PublicationOrder` | `Spec => []PublishedInOrder` | |
| `MarketFramesProofs!FramesAreALog` | `Spec => ImplementsLog` | `MaxStepBacks = 0` |
| `MarketFramesProofs!FinalizedRowsFrozen` | `Spec => TerminalRowFrozen` | |
| `MarketFramesProofs!StartupSettlesRows` | `Spec => []StartupResolves` | |
| `MarketFramesProofs!FramesAnalysedOnce` | `Spec => AnalysedOnce` | |
| `MarketFramesProofs!PublicationsWereAnalysed` | `Spec => []PublishedWasAnalysed` | |
| `CandleProofs!IngestionTypeCorrect` | `Spec => []TypeOK` | |
| `CandleProofs!NoPartialAggregate` | `Spec => []OnlyCompleteWindows` | |
| `CandleProofs!NoWindowLeftBehind` | `Spec => []CompleteWindowsStored` | |
| `CandleProofs!CorrectionsReachAggregates` | `FollowedSpec => []CurrentUnlessOverlapped` | |
| `CandleProofs!ReturnLeavesCurrent` | `FollowedSpec => RederivesTouched` | |
| `CandleProofs!HistoryTypeCorrect` | `HistorySpec => []HistoryTypeOK` | |
| `CandleProofs!NothingMissed` | `HistorySpec => []NoSilentGap` | |
| `CandleProofs!FormingNeverStored` | `HistorySpec => []OnlyDiscoveryCandleForming` | |
| `CandleProofs!FrontiersExtend` | `HistorySpec => WatermarksOnlyExtend` | |
| `CandleProofs!CallersKeepAggregatesWhole` | `HistorySpec => []OnlyCompleteWindows` | |
| `ShardGenerationProofs!GenerationTypeCorrect` | `Spec => []TypeOK` | |
| `ShardGenerationProofs!GenerationIsAnArchive` | `Spec => ImplementsArchive` | `MaxLosses = 0` |
| `ShardGenerationProofs!FailuresAreRemembered` | `Spec => FailuresRemembered` | `MaxLosses = 0` |
| `ShardGenerationProofs!NothingPublishedLate` | `Spec => NoLatePublication` | |
| `ObservationSeriesProofs!SeriesTypeCorrect` | `Spec => []SeriesTypeOK` | |
| `ObservationSeriesProofs!ReplaysAreHonest` | `Spec => []ReplaySeesLess` | |
| `ObservationSeriesProofs!SeriesHasNoHole` | `Spec => []SeriesComplete` | |
| `PartitionRetentionProofs!RetentionTypeCorrect` | `Spec => []RetentionTypeOK` | |
| `PartitionRetentionProofs!RetentionIsSafe` | `Spec => []NoDanglingReference` | |
| `PartitionRetentionProofs!OnlyExpiredDropped` | `Spec => DropsOnlyExpired` | |
| `ProspectiveProofs!ProspectiveTypeCorrect` | `Spec => []ProspectiveTypeOK` | |
| `ProspectiveProofs!ReservedStaysUnread` | `Spec => ReservedUnread` | |
| `ProspectiveProofs!IndependenceIsFirstLook` | `Spec => []IndependentIsFirst` | |
| `ProspectiveProofs!LedgerIsBacked` | `Spec => []LedgerBacked` | |
| `ProspectiveProofs!AttemptLogIsKept` | `Spec => KeepsAttemptLog` | |
| `LiveRankingsProofs!AnswersAreCurrent` | `Spec => ServedCurrent` | |
| `LiveRankingsProofs!ReadersMissNothing` | `Spec => []WalkIsExact` | |
| `LiveRankingsProofs!ReadsAgree` | `Spec => []ReportsAgree` | |
| `ResearchBackupProofs!DamageStaysWhereItIs` | `Spec => []DamageDoesNotSpread` | |
| `ResearchBackupProofs!ReportsVouchForCopies` | `Spec => []VerifiedWasWhole` | |

They hold for every value of the constants that the named ASSUMEs allow: any
number of instruments, boundaries, slots, days, workers and faults. Properties
that except something (an overlap, a clock set back, files that go back) carry
the exception in their own definition, and the theorem needs no other.

What the assumptions ask is what the code guarantees of its inputs:
`ProspectiveAssumption` that a registration has a validation or a validation and
a holdout, whose days are numbers, at least one claim (`min_length=1`) and an id
of its own (a directory that exists is refused); `LiveAssumption` that there are
finitely many instruments and at least one boundary, that the cache and a page hold at least one entry,
and that `None` is neither a number nor a result. Spec files, features, scores
and verdicts are left entirely open there: no proof looks into them.

* **Publication order.** That snapshots are ordered is not inductive: what
  keeps it so is that each actor re-reads the newest analysed frame between
  taking its time and inserting. `OrderInv` says what an actor holds at each of
  its awaits (`HeldFrames`, `HeldResults`, `HeldStamps`) and, past the re-read,
  its place among the stored and the pending publications (`PlacesInOrder`).
  The latter compares recorded times, so it holds until the clock is set back;
  what the others say does not depend on the clock.
* **The log.** `LogInv` says that no row lies ahead of the clock, that a row
  not yet finalized has no members, and where the loop is between the choice of
  a boundary and its row. It is false once the clock steps back, and so is the
  claim.
* **Frames and their results.** `OneBuilding` says that, while no storage call
  failed, the row left BUILDING is the one the loop is waiting for, so a startup
  that resolves one resolves all. `OnceInv` parts the frames between the two
  actors: the recovery keeps to those finalized before it began, the loop to
  later ones, and what either is about to measure has no result (`Unmeasured`).
  `Carried` says what a publication holds between its awaits and that what it
  left in the table is still the stored analysis.
* **Windows.** `IngestInv` says that a complete window that is not stored is on
  the way of some writer: found, or still to be read and inside its touched
  range (`NothingLost`), given that what a writer holds is complete (`Held`).
* **Corrections.** `AloneInv` holds until two ingestions overlap: what the one
  under way has read is still what is stored (`FoundIsFresh`), a window that is
  not current is on its way (`StaleIsPending`), and each window touched is to be
  read, read, or current (`TouchedIsOnTheWay`), which also covers what an
  abandoned ingestion left. An overlap can break each of them, and both properties.
* **History.** `HistoryInv` says that all the exchange serves on time is stored
  between each watermark and the instant of discovery (`PastStored`,
  `PresentStored`), and what makes the next move of a watermark keep that: a page
  the bootstrap holds is whole down from its frontier (`BootPageWhole`), a chunk
  begins where the watermark or the retention floor stands and fits one page
  (`ChunkWhole`). The page is ingested, and the watermark committed, in later
  steps, with the clock, the collector and failures between.
* **Late publication.** `LateInv` says that, once a session has ended under a
  generator past its lock check, its directory is still among what the new owner
  is to sweep (`ToBeSwept`). No limit on lost sessions is needed.
* **Shards.** `ArchiveInv` says that a worker in a pass owns the lock, so all
  others are idle (`LockInv`); that only a worker waiting has a child, and what
  the child has written by its place (`ChildInv`); that what the sweep empties
  bears a temporary name (`SweepInv`); and that a shard is whole (`ShardInv`).
  Its first conjunct is false once a session ends under a worker, and so is the
  theorem.
* **Records.** `RecordInv` says that a pass which has loaded its copy of the
  failures (`Loaded`) has the newest one, up to days that have a shard by now
  (`UpToDate`), and that a child exits well only with its shard there. It rests
  on `ArchiveInv`: while one pass has the lock nobody else saves.
* **Replays.** `SeenInv` says of each decision time that the versions usable then,
  and those stamped before it that a round or the repair holds uncommitted, were
  seen live (`SeenAt`).
* **Series.** `CoverInv` says that what lies between the watermark and the newest
  row is stored or under repair (`Enclosed`), what a seed or a walk over windows
  has behind it (`SeedFetched`, `SeedStored`, `WalkBehind`), that no bucket is
  published any more before the watermark (`WatermarkPassed`), and that the row
  beneath a repair stays or expires with it (`RepairBelow`). The walk crosses
  several commits, at each of which a crash, the repair, or the retention may
  come in.
* **Retention.** `RetentionInv` says that a frame holds the candles' table from
  the read of its candle on, so that candle stays (`FrameHolds`); that the
  maintenance has no table somebody else holds (`LocksExclude`); and that what
  it is about to drop was found unreferenced under both locks, which it has
  until it commits (`DoomedUnreferenced`). That no
  stored frame dangles is not inductive alone: what the locks protect is also
  what a frame has read and not yet written. That only expired months are
  dropped is a claim about a step, and its invariant is another (`ExpiryInv`):
  only a deferrable pass of a running process retires (`PassPlaced`), and what
  a pass has listed, picked or doomed lies before the cutoff of its beginning
  (`Listed`), which waits for locks can only leave further behind. The lists
  are never carried from one operation to the next.
* **Backup.** `BackupInv` says that a copy may decay but its checksums stay those
  it was made with (`CopiesHold`), and what a process holds between a check and
  the rename that rests on it (`HoldsChecked`): hashes of a source that matched
  its manifest, hashes of a whole copy, bytes compared with those again. A copy
  that agrees with its checksums has therefore not decayed.
* **Reports.** `VouchInv` says that the report a process has under way vouches for
  no more than was whole at the age it will be given when it is stored, counting
  the passes begun since (`Vouches`). The report on disk alone is not enough:
  the command's is written from a copy read before other passes.
* **Prospective evaluation.** `ProspectiveInv` ties each evaluator's place to the
  events on disk (`JobsPlaced`, `JobsNumbered`, `JobsStarted`), says that a reserved
  day is read only by a job past `started` (`ReadsAllowed`, `LooksAccounted`), that
  who recorded an independent run was first to start on days no look had reached
  (`Apart`, `FirstToStart`, `JobsFirst`, `RunsFirst`), and that the revisions cite
  runs that exist. The check of a command and its read are steps apart: what
  stays true between them is the second part of `ReadsAllowed`, and that a
  registration made meanwhile cannot reserve a day gone by (`DaysPast`).
* **Attempts.** `AttemptsInv` adds what an attempt under way has on disk: the
  events before the one its job writes next, no run named yet, exactly the runs
  its job holds (`AttemptsKept`), and that runs are numbered without a gap
  (`RunsKept`). An event that loses the race for its number changes nothing, and
  its job ends, so the mapped step is none; every other event is the
  authorization, start or end of its own attempt, because attempts are numbered
  apart (`JobsNumbered`). Nothing is asked of an attempt whose job was killed: no
  other job has its number.
* **Pages.** `WalkInv` says that what a reader has had descends in the keyset order,
  and that each row it is still owed is older than the last item it had, so the
  next page, which starts right below that item, cannot skip one. Rows published
  meanwhile can have an older instant (a publisher takes its time before its
  reads), so the order of ids is not enough.
* **Answers.** `LiveInv` has four parts. `BaseOK`: the frames, results and files as
  they change (a result only by a later analysis, a finalized frame not at all).
  `CacheOK`: an entry's content is of the frame of its key and of its analysis or
  a later one, and is made from the current files if the key is theirs and no
  files came back. `AllJobsOK`: the same of what a task holds between its
  awaits. `RequestsOK`: a running request has seen the files there are and every
  analysis it could still be given, be it from the cache or from another task's
  content under way. This last set (`Contents`) is what makes it inductive: an
  entry filled by one task answers another.
* **Counts.** `ReportsAgree` is about one state, so what its proof needs of the
  run is the shape of the rows (`RowsAreOK`); the rest is counting. Each sum counts
  a finite set by its parts: a boundary lies in one day and, on the grid, in one
  interval (`InOneInterval`, `RunLength`). That such a sum is the count
  (`CountedByPart`) takes an induction over the recursive function that sums; it
  is made by the least set of parts on which the sum would be wrong, since one
  part less would be wrong too.

Only model-checked: liveness (`EveryFrameSettles`, `EveryFrameAnalysed`,
`CatchesUp`, `BootstrapEnds`, `EveryDayPreserved`, `SeriesCatchesUp`,
`FramesNotBlocked`, `MaintenanceSettles`, `ProtectedOrReported`), which needs
fairness and ENABLED and is out of the prover's reach; and what the folds of
`FeatureRules` and `RankingRules` compute, for which no theorem needs more than
that they have a value. Every invariant and action property of a passing run is
proved.

## What is not modelled

* Statistics: the returns, folds, bootstraps and comparisons of the research
  commands (`research/truffle_evaluation.py`, `comparison.py`,
  `forward_returns.py`, `ranking.py` and the like) are pure numerical
  computations by one process over immutable inputs; what matters of them here
  is a verdict, which the models choose for the data a claim is run on. Their lifecycle (registration,
  reservation, exposure, run record) is modelled.
* Floating point: features and scores are fixed-point, so rounding and
  overflow of IEEE arithmetic are not covered; ties, gaps and `None` are.
* Reads that project rows and files as they are (explorer, vitals, historical
  coverage, host status), authentication (stateless signed cookies over one
  table), the front end.
* In the modelled parts: subscription batches, back-off and pings of the
  WebSocket client; the content of a shard and of its manifest; the
  acknowledgement and the history of alerts; the files of a ledger revision and
  two derivers that race for its number (a POSIX rename replaces the first's
  file, `research/knowledge.py:484-508`); the wording and the delays of retries;
  SQLite, on which the tests run without partitions or advisory locks.
* A crash between the commit of base candles and the derivation leaves the
  derived candle missing until the window is touched again. `NoWindowLeftBehind`
  excepts it, `RederivesTouched` shows the repair by the next ingestion.
* The session's identity map may serve older attribute values within one
  derivation; what that can lead to is the overlap the model already has.

## Plan

Done: frames, candles, shards, series, retention, prospective evaluation with
its ledgers, live rankings with features and reports, backup with its alerts.
Next, in this order:

1. That a reader of one page and a detail page (`_neighbour`) agree on the order.
2. An abstract specification worth stating: a set that only grows for the backup.
3. The revision files of the ledger and two derivers; the alert life cycle with
   acknowledgements; WebSocket reconnects.
