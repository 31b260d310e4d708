------------------------- MODULE PartitionRetention -------------------------
(***************************************************************************)
(* Monthly partitions of the frame members and the candles: created ahead, *)
(* dropped once they are past retention, by a background task whose every  *)
(* wait for a table lock is bounded, beside frames being built and slow    *)
(* research reads. (The Sniffer results are the third table; nothing       *)
(* refers to them, and they are maintained as the members are.)            *)
(*                                                                         *)
(* The clock counts months. A session shares the lock of the tables it has *)
(* read or written until its transaction ends; creating or dropping a      *)
(* partition needs the lock of the parent exclusively, and a request that  *)
(* waits for it holds up every later request.                              *)
(***************************************************************************)
EXTENDS Integers, Sequences, FiniteSets, FiniteSetsExt

CONSTANTS StartClock, MaxClock,     \* bound: months
          Retention,                \* in months, at least
          MaxFrames,                \* bound
          MaxRetries,
          MaxFaults                 \* bound: failed statements, crashes

ASSUME RetentionAssumption ==
    /\ {StartClock, MaxClock, Retention, MaxFrames, MaxRetries, MaxFaults} \subseteq Nat
    /\ Retention \in 1 .. StartClock /\ StartClock <= MaxClock

VARIABLES clock,
          part,                     \* table -> months with a partition
          refs,                     \* stored members: <<frame, candle>> months
          reader,                   \* table a research read holds, or "none"
          held,                     \* tables the frame builder holds
          excl, want,               \* locks of the maintenance, and its wait
          frame, candle,            \* the frame being built: months, or None
          phase,                    \* of the process
          requested, retries,       \* the background task of the maintenance
          refresher,                \* the loop that requests it still runs
          pc, at, asOf, left, month, doomed, required, deferred, failed,
          frames, faults

database == <<part, refs>>
builder == <<frame, candle, frames>>
task == <<requested, retries, refresher>>
pass == <<pc, at, asOf, left, month, doomed, required, deferred, failed>>
shared == <<reader, held>>
vars == <<clock, database, shared, excl, want, builder, phase, task, pass, faults>>

Tables == <<"members", "candles">>                  \* _PARTITIONED_TABLES
TableSet == {"members", "candles"}
None == 0 - 1

CutoffMonth(t) == t - Retention
RetainedMonths(t) == CutoffMonth(t) .. t + 1

Init ==
    /\ clock = StartClock
    /\ part = [t \in TableSet |-> {0, StartClock}]
    /\ refs = {}
    /\ reader = "none" /\ held = {} /\ excl = {} /\ want = "none"
    /\ frame = None /\ candle = None
    /\ phase = "starting"
    /\ requested = FALSE /\ retries = 0 /\ refresher = FALSE
    /\ pc = "off" /\ at = 0 /\ asOf = StartClock /\ left = {} /\ month = None
    /\ doomed = {} /\ required = FALSE /\ deferred = FALSE /\ failed = FALSE
    /\ frames = 0 /\ faults = 0

-----------------------------------------------------------------------------
(* Locks.                                                                  *)

CanShare(t) == t \notin excl /\ want # t
CanLock(t) == reader # t /\ t \notin held

\* _has_candle_references, as a statement of its own sees it
Referenced(m) == \E r \in refs : r[2] = m

-----------------------------------------------------------------------------
(* A frame is finalized in one transaction: it reads the latest candle of  *)
(* an instrument, of whatever month, and stores a member that refers to it.*)

ReadCandles ==
    /\ phase = "running" /\ frame = None /\ frames < MaxFrames
    /\ CanShare("candles")
    /\ \E f \in {clock - 1, clock} :
       \E c \in {m \in part["candles"] : m <= f} :
            frame' = f /\ candle' = c
    /\ frames' = frames + 1
    /\ held' = {"candles"}
    /\ UNCHANGED <<clock, reader, database, excl, want, phase, task, pass, faults>>

EndFrame ==
    /\ frame' = None /\ candle' = None
    /\ held' = {}
    /\ UNCHANGED <<clock, reader, part, excl, want, frames, phase, task, pass>>

InsertMember ==
    /\ frame # None /\ "members" \notin held
    /\ CanShare("members")
    /\ IF frame \in part["members"]
       THEN /\ held' = held \cup {"members"}
            /\ UNCHANGED <<clock, reader, database, excl, want, builder, phase, task,
                           pass, faults>>
       ELSE EndFrame /\ UNCHANGED <<refs, faults>>   \* no partition of relation

CommitFrame ==
    /\ frame # None /\ "members" \in held
    /\ refs' = refs \cup {<<frame, candle>>}
    /\ EndFrame
    /\ UNCHANGED faults

\* A research read, for as long as it takes.
ReadTable(t) ==
    /\ reader = "none" /\ CanShare(t)
    /\ reader' = t
    /\ UNCHANGED <<clock, database, held, excl, want, builder, phase, task,
                   pass, faults>>

EndRead ==
    /\ reader # "none" /\ reader' = "none"
    /\ UNCHANGED <<clock, database, held, excl, want, builder, phase, task,
                   pass, faults>>

-----------------------------------------------------------------------------
(* A pass of the maintenance: for each table create, then retire. Required *)
(* passes, at startup, only create the current month.                      *)

Table == Tables[at]
\* Mutant of ToCreate: nothing is created ahead.
ToCreateNow(t, now, req) == {now} \ part[t]

ToCreate(t, now, req) ==
    (IF req THEN {now} ELSE RetainedMonths(now)) \ part[t]
\* Mutant of ToRetire: the month the cutoff lies in is taken for expired.
ToRetireEarly(t, now) == {m \in part[t] : m <= CutoffMonth(now)}
ToRetire(t, now) == {m \in part[t] : m < CutoffMonth(now)}

BeginPass(req) ==
    /\ pc = "off"
    /\ pc' = "create" /\ at' = 1 /\ asOf' = clock /\ required' = req
    /\ left' = ToCreate(Tables[1], clock, req)
    /\ month' = None /\ doomed' = {} /\ deferred' = FALSE /\ failed' = FALSE
    /\ UNCHANGED <<clock, database, shared, excl, want, builder, phase, task, faults>>

EnsureRequired == phase = "starting" /\ BeginPass(TRUE)
Maintain == phase = "running" /\ requested /\ BeginPass(FALSE)

NextOperation ==
    /\ month' = None /\ doomed' = {} /\ excl' = {} /\ want' = "none"
    /\ IF pc = "create" /\ ~required
       THEN pc' = "retire" /\ left' = ToRetire(Table, asOf) /\ UNCHANGED at
       ELSE IF at < Len(Tables)
       THEN /\ pc' = "create" /\ at' = at + 1
            /\ left' = ToCreate(Tables[at + 1], asOf, required)
       ELSE pc' = "end" /\ left' = {} /\ UNCHANGED at

\* The lock the operation at hand needs next.
Needs ==
    IF pc \notin {"create", "retire"} \/ left = {} THEN "none"
    ELSE IF pc = "create" \/ Table # "candles"
    THEN IF Table \in excl THEN "none" ELSE Table
    ELSE IF month = None THEN "none"
    ELSE IF "candles" \notin excl THEN "candles"
    ELSE IF "members" \notin excl THEN "members" ELSE "none"

Lock ==
    /\ Needs # "none" /\ CanLock(Needs)
    /\ excl' = excl \cup {Needs} /\ want' = "none"
    /\ UNCHANGED <<clock, database, shared, builder, phase, task, pass,
                   faults>>

Wait ==
    /\ Needs # "none" /\ ~CanLock(Needs) /\ want = "none"
    /\ want' = Needs
    /\ UNCHANGED <<clock, database, shared, excl, builder, phase, task, pass, faults>>

\* Mutant of LockTimeout: lock_timeout is not set, only deadlocks are broken.
LockNeverTimesOut ==
    /\ want \in held /\ excl # {}
    /\ deferred' = TRUE
    /\ NextOperation
    /\ UNCHANGED <<clock, database, shared, builder, phase, task, asOf, required,
                   failed, faults>>

\* lock_timeout, or the deadlock the server breaks: the transaction is
\* rolled back and the operation deferred.
LockTimeout ==
    /\ want # "none" /\ ~CanLock(want)
    /\ deferred' = TRUE
    /\ NextOperation
    /\ UNCHANGED <<clock, database, shared, builder, phase, task, asOf, required,
                   failed, faults>>

\* Each month in a transaction of its own.
CreatePartition ==
    /\ pc = "create" /\ left # {} /\ Table \in excl
    /\ part' = [part EXCEPT ![Table] = @ \cup {Min(left)}]
    /\ left' = left \ {Min(left)}
    /\ excl' = {}
    /\ UNCHANGED <<clock, refs, shared, want, builder, phase, task, pc, at, asOf,
                   month, doomed, required, deferred, failed, faults>>

DropTables(t, months) ==
    /\ part' = [part EXCEPT ![t] = @ \ months]
    /\ refs' = IF t = "members" THEN {r \in refs : r[1] \notin months} ELSE refs

RetireTable ==
    /\ pc = "retire" /\ Table # "candles" /\ left # {} /\ Table \in excl
    /\ DropTables(Table, left)
    /\ NextOperation
    /\ UNCHANGED <<clock, shared, builder, phase, task, asOf, required, deferred,
                   failed, faults>>

\* A month of candles is checked before the locks are taken ...
Precheck ==
    /\ pc = "retire" /\ Table = "candles" /\ month = None /\ left # {}
    /\ IF Referenced(Min(left))
       THEN left' = left \ {Min(left)} /\ UNCHANGED month
       ELSE month' = Min(left) /\ UNCHANGED left
    /\ UNCHANGED <<clock, database, shared, excl, want, builder, phase, task, pc,
                   at, asOf, doomed, required, deferred, failed, faults>>

\* Mutant of Recheck: the month is dropped on the strength of the first check.
RecheckNothing ==
    /\ month # None /\ {"candles", "members"} \subseteq excl
    /\ doomed' = doomed \cup {month}
    /\ left' = left \ {month} /\ month' = None
    /\ UNCHANGED <<clock, database, shared, excl, want, builder, phase, task, pc,
                   at, asOf, required, deferred, failed, faults>>

\* ... and again under them.
Recheck ==
    /\ month # None /\ {"candles", "members"} \subseteq excl
    /\ doomed' = IF Referenced(month) THEN doomed ELSE doomed \cup {month}
    /\ left' = left \ {month} /\ month' = None
    /\ UNCHANGED <<clock, database, shared, excl, want, builder, phase, task, pc,
                   at, asOf, required, deferred, failed, faults>>

\* The end of an operation: its drops are committed, its locks released.
CommitOperation ==
    /\ pc \in {"create", "retire"} /\ left = {} /\ month = None
    /\ DropTables(Table, doomed)
    /\ NextOperation
    /\ UNCHANGED <<clock, shared, builder, phase, task, asOf, required, deferred,
                   failed, faults>>

\* ensure_required tries again until nothing is deferred and fails startup
\* on any other error, and the loop that refreshes the universe starts with
\* the process; the deferrable work is retried a few times and then left to
\* that loop's next refresh.
EndPass ==
    /\ pc = "end" /\ pc' = "off" /\ at' = 0
    /\ IF required
       THEN /\ phase' = IF failed THEN "down"
                        ELSE IF deferred THEN "starting" ELSE "running"
            /\ refresher' = ~(failed \/ deferred)
            /\ UNCHANGED <<requested, retries>>
       ELSE /\ requested' = (deferred /\ retries < MaxRetries)
            /\ retries' = IF deferred /\ retries < MaxRetries
                          THEN retries + 1 ELSE 0
            /\ UNCHANGED <<phase, refresher>>
    /\ required' = FALSE /\ deferred' = FALSE /\ failed' = FALSE
    /\ asOf' = StartClock
    /\ UNCHANGED <<clock, database, shared, excl, want, builder, left, month,
                   doomed, faults>>

\* A refresh of the universe, when the exchange answers it. (request() does
\* nothing while the task it started earlier has not ended.)
Refresh ==
    /\ refresher /\ ~requested
    /\ requested' = TRUE
    /\ UNCHANGED <<clock, database, shared, excl, want, builder, phase, retries,
                   refresher, pass, faults>>

-----------------------------------------------------------------------------
(* Faults.                                                                 *)

\* A statement of the pass fails for another reason than contention.
StatementFails ==
    /\ pc \in {"create", "retire"} /\ want = "none"
    /\ faults < MaxFaults /\ faults' = faults + 1
    /\ failed' = TRUE
    /\ NextOperation
    /\ UNCHANGED <<clock, database, shared, builder, phase, task, asOf, required,
                   deferred>>

\* The loop catches the exchange's errors only: one of the database, before
\* the maintenance is requested, or one of the hook for new instruments,
\* after it, ends the loop for as long as the process lives.
RefreshFails ==
    /\ refresher
    /\ faults < MaxFaults /\ faults' = faults + 1
    /\ refresher' = FALSE
    /\ requested' \in {requested, TRUE}
    /\ UNCHANGED <<clock, database, shared, excl, want, builder, phase, retries, pass>>

FrameFails ==
    /\ frame # None
    /\ faults < MaxFaults /\ faults' = faults + 1
    /\ EndFrame
    /\ UNCHANGED refs

Crash ==
    /\ phase # "down"
    /\ faults < MaxFaults /\ faults' = faults + 1
    /\ phase' = "down"
    /\ frame' = None /\ candle' = None
    /\ held' = {}
    /\ excl' = {} /\ want' = "none"
    /\ requested' = FALSE /\ retries' = 0 /\ refresher' = FALSE
    /\ pc' = "off" /\ at' = 0 /\ asOf' = StartClock /\ left' = {} /\ month' = None
    /\ doomed' = {} /\ required' = FALSE /\ deferred' = FALSE /\ failed' = FALSE
    /\ UNCHANGED <<clock, database, reader, frames>>

Restart ==
    /\ phase = "down" /\ phase' = "starting"
    /\ UNCHANGED <<clock, database, shared, excl, want, builder, task, pass, faults>>

Tick ==
    /\ clock < MaxClock /\ clock' = clock + 1
    /\ UNCHANGED <<database, shared, excl, want, builder, phase, task, pass, faults>>

-----------------------------------------------------------------------------
Maintenance ==
    \/ EnsureRequired \/ Maintain \/ Lock \/ Wait \/ LockTimeout
    \/ CreatePartition \/ RetireTable \/ Precheck \/ Recheck \/ CommitOperation
    \/ EndPass

Builder == InsertMember \/ CommitFrame

Next == \/ Maintenance \/ Builder \/ ReadCandles \/ EndRead
        \/ \E t \in TableSet : ReadTable(t)
        \/ Refresh \/ Restart \/ Tick
        \/ StatementFails \/ RefreshFails \/ FrameFails \/ Crash

\* The tasks of the process go on, the loop of the refresh until it fails,
\* and the server's lock queue is served in order: a builder behind a wait
\* that gave up is next. Nothing is assumed of research reads.
Fairness ==
    /\ WF_vars(Maintenance) /\ SF_vars(Builder)
    /\ WF_vars(Refresh) /\ WF_vars(Restart)

Spec == Init /\ [][Next]_vars /\ Fairness

-----------------------------------------------------------------------------
(* The values of the variables: no month lies before the first or further  *)
(* ahead than a pass creates.                                              *)

Months == 0 .. MaxClock + 1

StoreTyped ==
    /\ clock \in StartClock .. MaxClock
    /\ part \in [TableSet -> SUBSET Months] /\ refs \subseteq Months \X Months
    /\ faults \in 0 .. MaxFaults

LocksTyped ==
    /\ reader \in TableSet \cup {"none"} /\ want \in TableSet \cup {"none"}
    /\ held \subseteq TableSet /\ excl \subseteq TableSet

TasksTyped ==
    /\ \/ frame = None /\ candle = None
       \/ frame \in Months /\ candle \in Months
    /\ frames \in 0 .. MaxFrames
    /\ phase \in {"starting", "running", "down"}
    /\ retries \in 0 .. MaxRetries

PassTyped ==
    /\ pc \in {"off", "create", "retire", "end"} /\ at \in 0 .. Len(Tables)
    /\ asOf \in StartClock .. MaxClock
    /\ left \subseteq Months /\ month \in Months \cup {None} /\ doomed \subseteq Months

FlagsTyped ==
    /\ requested \in BOOLEAN /\ refresher \in BOOLEAN /\ required \in BOOLEAN
    /\ deferred \in BOOLEAN /\ failed \in BOOLEAN

RetentionTypeOK ==
    StoreTyped /\ LocksTyped /\ TasksTyped /\ PassTyped /\ FlagsTyped

(***************************************************************************)
(* No stored frame refers to a candle of a dropped month, however stale    *)
(* the candle and whatever is being built while retention runs.            *)
(***************************************************************************)
NoDanglingReference == \A r \in refs : r[2] \in part["candles"]

(***************************************************************************)
(* A partition is dropped, and a member row lost, only by a deferrable     *)
(* pass and only when its whole month is past retention at that moment:    *)
(* what a pass listed before it waited for locks, and what a failed or     *)
(* deferred operation left over, never costs a month that is kept          *)
(* (drop_expired_partitions: "a partition that might still hold retained   *)
(* data is never touched").                                                *)
(***************************************************************************)
DropsOnlyExpired ==
    [][/\ \A t \in TableSet : \A m \in part[t] \ part'[t] :
             phase = "running" /\ m < CutoffMonth(clock)
       /\ \A r \in refs \ refs' : r[1] \notin part'["members"]]_vars

(***************************************************************************)
(* A frame being finalized goes on although a research read holds a table  *)
(* forever: a wait for the exclusive lock gives up and lets it pass.       *)
(***************************************************************************)
FramesNotBlocked == (frame # None) ~> (frame = None)

Settled ==
    /\ phase = "running"
    /\ \A t \in TableSet : RetainedMonths(clock) \subseteq part[t]
    /\ \A t \in TableSet : \A m \in part[t] :
          m >= CutoffMonth(clock) \/ (t = "candles" /\ Referenced(m))

(***************************************************************************)
(* Once research reads end, the retained window exists, and what is past   *)
(* it is gone unless a frame refers to it, after whatever was deferred,    *)
(* failed or crashed: as long as the loop that requests the maintenance    *)
(* outlives its last failure, which a restart of the process alone brings  *)
(* about.                                                                  *)
(***************************************************************************)
LoopAlive == phase = "running" => refresher
MaintenanceSettles == <>[](reader = "none" /\ LoopAlive) => <>[]Settled
=============================================================================
