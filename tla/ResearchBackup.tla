--------------------------- MODULE ResearchBackup ---------------------------
(***************************************************************************)
(* The protection of immutable research records: the backup at the end of   *)
(* a worker's pass, the scheduled verification and the recovery test after  *)
(* it, the alerts the pass ends with, and an operator who backs up,         *)
(* restores or tests beside it. Bytes rot, the disk is lost, the volume is  *)
(* unmounted at any time (what is then written under its mount point lands  *)
(* in a directory of the container), processes die and sessions end.        *)
(*                                                                         *)
(* Item 1 is a registration, which carries no hash of its own; the others   *)
(* are shards, whose manifest does. The items are numbered in the order     *)
(* they are discovered. Time is counted in passes, and every stored instant *)
(* by its age, up to the largest age that is told apart.                    *)
(***************************************************************************)
EXTENDS FiniteSetsExt, ResearchAlerts

CONSTANTS NumItems,
          Expired,          \* shards that can no longer be generated again
          Reverify,         \* REVERIFY_INTERVAL, in passes
          Interval,         \* the verification interval, in passes
          RecoveryInterval, \* the recovery test's, in passes
          BackupOverdue,    \* BACKUP_OVERDUE, in passes
          MaxPerPass,       \* verifications of a pass
          MaxBytes,         \* FULL_RECOVERY_MAX_BYTES; every item has one byte
          LongestJob,       \* bound on the passes that begin before, and during, an operator's backup
          MaxFaults,        \* bound on what breaks
          MaxSessions       \* bound on what the operator does

Items        == 1..NumItems
Registration == 1
Shards       == Items \ {Registration}
Processes    == {"worker", "operator"}

\* As written; rotten at the source; a shard whose manifest no longer parses; the
\* registration's directory without the registration; decayed in a copy.
Contents == {"intact", "rotten", "garbled", "bare", "decayed"}

ASSUME BackupAssumption ==
  /\ NumItems \in Nat \ {0} /\ Expired \subseteq Shards
  /\ {Reverify, Interval, RecoveryInterval, MaxPerPass, MaxBytes} \subseteq Nat \ {0}
  /\ {BackupOverdue, LongestJob, MaxFaults, MaxSessions} \subseteq Nat

NoCopy   == [files |-> "absent", sums |-> "absent"]
NoRecord == [result |-> "none", age |-> 0]
NoReport == [checked |-> FALSE, error |-> FALSE, success |-> Never,
             verified |-> [i \in Items |-> Never], files |-> [i \in Items |-> "absent"],
             errors |-> [i \in Items |-> "none"]]
Untested == [status |-> "none", age |-> 0]
NoJob    == [next |-> 1, now |-> 0, all |-> FALSE, report |-> NoReport, hashes |-> "absent",
             tmp |-> NoCopy, names |-> {}, bad |-> FALSE]

VARIABLES
  source,    \* the items' content in the data directory
  failing,   \* state.json: shards whose last generation failed
  report,    \* continuity/backup.json
  recovery,  \* continuity/recovery_test.json
  records,   \* continuity/verification.json
  alerts,    \* continuity/alerts.json: the active ones
  volume,    \* the copies on the volume: their files, and BACKUP_CHECKSUMS.json
  shadow,    \* copies written under the mount point while it was unmounted
  mounted,
  lock,      \* whose session holds the generation lock, or "none"
  pc, job,   \* where a process is, and what it works with
  lockLost,  \* the worker's pass found its lock gone
  since,     \* passes since the copy seen at the destination was last whole
  faults, sessions

dataDir  == <<source, failing, report, recovery, records, alerts>>
copies   == <<volume, shadow, mounted>>
procs    == <<pc, job, lockLost>>
bounds   == <<faults, sessions>>
vars     == <<dataDir, copies, lock, procs, since, bounds>>

Older(age, passes, most) ==
  IF age = Never THEN Never ELSE IF age + passes > most THEN most ELSE age + passes
OldestRecord     == 2 * Interval + 1
OldestTest       == 3 * RecoveryInterval + 1

Present     == {i \in Items : source[i] \notin {"absent", "bare"}}
Seen(i)     == IF mounted THEN volume[i] ELSE shadow[i]
Whole(copy) == copy # NoCopy /\ copy.files = copy.sums

\* A dataset's bytes against its own manifest.
Matches(i, content) == i \in Shards => content = "intact"

Protected(r) == {i \in Items : r.verified[i] # Never}

-----------------------------------------------------------------------------
(* Steps of a job                                                          *)

Goto(p, at)   == pc' = [pc EXCEPT ![p] = at]
Work(p, next) == job' = [job EXCEPT ![p] = next]
Release(p)    == lock' = IF lock = p THEN "none" ELSE lock

\* What follows a worker's job within its pass; an operator's command ends.
Then(p, at) ==
  /\ Goto(p, IF p = "worker" THEN at ELSE "idle")
  /\ Work(p, NoJob)

\* A data directory that was never backed up, or a new disk beside a volume
\* that outlived the old one.
Init ==
  /\ LET old == [i \in Items |-> IF i \in Expired \cup {Registration} THEN "intact" ELSE "absent"] IN
     \/ source = old /\ volume = [i \in Items |-> NoCopy]
     \/ /\ source = [i \in Items |-> "absent"]
        /\ volume = [i \in Items |-> [files |-> old[i], sums |-> old[i]]]
  /\ failing = {} /\ report = NoReport /\ recovery = Untested
  /\ records = [i \in Items |-> NoRecord] /\ alerts = {}
  /\ shadow = [i \in Items |-> NoCopy] /\ mounted = TRUE
  /\ lock = "none"
  /\ pc = [p \in Processes |-> "idle"] /\ job = [p \in Processes |-> NoJob]
  /\ lockLost = FALSE
  /\ since = [i \in Items |-> IF Whole(volume[i]) THEN 0 ELSE Reverify]
  /\ faults = 0 /\ sessions = 0

\* A report's ages after a number of passes.
Aged(r, passes) == [r EXCEPT !.verified = [i \in Items |-> Older(@[i], passes, Reverify)],
                             !.success = Older(@, passes, BackupOverdue + 1)]

\* An interval later, the next pass begins; without the lock it generates and
\* backs up nothing, and goes on to the rest.
BeginPass ==
  /\ pc["worker"] = "idle"
  /\ report' = Aged(report, 1)
  /\ recovery' = IF recovery = Untested THEN recovery
                                        ELSE [recovery EXCEPT !.age = Older(@, 1, OldestTest)]
  /\ records' = [i \in Items |-> IF records[i] = NoRecord THEN NoRecord
                                  ELSE [records[i] EXCEPT !.age = Older(@, 1, OldestRecord)]]
  /\ IF pc["operator"] = "idle"
     THEN UNCHANGED job
     ELSE /\ job["operator"].now < LongestJob
          /\ Work("operator", [job["operator"] EXCEPT !.now = @ + 1])
  /\ lockLost' = FALSE
  /\ IF lock = "none"
     THEN lock' = "worker" /\ Goto("worker", "generate")
     ELSE lock' = lock /\ Goto("worker", "verify")
  /\ UNCHANGED <<source, failing, alerts, copies, bounds>>

\* The lock's session has ended: nothing more of the pass is done under it.
LosesLock ==
  /\ pc["worker"] \in {"generate", "backup"} /\ lock # "worker"
  /\ lockLost' = TRUE
  /\ Then("worker", "verify")
  /\ UNCHANGED <<dataDir, copies, lock, bounds>>

DueDays(from) == {i \in Shards \ Expired : i >= from /\ source[i] = "absent"}

\* One day's generation (ShardGeneration models it), published or failed.
GenerateDay ==
  /\ pc["worker"] = "generate" /\ lock = "worker"
  /\ \E published \in BOOLEAN :
       LET due == DueDays(job["worker"].next) IN
       /\ due # {}
       /\ source' = [source EXCEPT ![Min(due)] = IF published THEN "intact" ELSE @]
       /\ failing' = IF published THEN failing \ {Min(due)} ELSE failing \cup {Min(due)}
       /\ Work("worker", [job["worker"] EXCEPT !.next = Min(due) + 1])
  /\ UNCHANGED <<report, recovery, records, alerts, copies, lock, pc, lockLost, bounds>>

Generated ==
  /\ pc["worker"] = "generate" /\ DueDays(job["worker"].next) = {}
  /\ Then("worker", "backup")
  /\ UNCHANGED <<dataDir, copies, lock, lockLost, bounds>>

-----------------------------------------------------------------------------
(* run_backup                                                              *)

\* The ages in a job's report count from its start. It begins with the last one's
\* items, each replaced when its turn comes; a success is carried only with items.
NextReport ==
  [report EXCEPT !.checked = TRUE, !.error = FALSE, !.errors = NoReport.errors,
                 !.success = IF Protected(report) = {} THEN Never ELSE @]

\* A destination without its marker: the report says so and holds no items.
StartBackup(p) ==
  /\ pc[p] = "backup" /\ (p = "worker" => lock = "worker")
  /\ IF mounted
     THEN /\ Work(p, [job[p] EXCEPT !.report = NextReport, !.now = 0])
          /\ Goto(p, "item")
          /\ UNCHANGED <<report, lock>>
     ELSE /\ report' = [NoReport EXCEPT !.checked = TRUE, !.error = TRUE,
                                        !.success = NextReport.success]
          /\ Then(p, "verify")
          /\ Release(p)
  /\ UNCHANGED <<source, failing, recovery, records, alerts, copies, lockLost, bounds>>

Remaining(p) == {i \in Present : i >= job[p].next}

\* Items that were not discovered leave the report.
Forget(r, from, upto) ==
  [r EXCEPT !.verified = [i \in Items |-> IF i \in from..upto THEN Never ELSE @[i]],
            !.files = [i \in Items |-> IF i \in from..upto THEN "absent" ELSE @[i]]]

Reaches(p, i) == Forget(job[p].report, job[p].next, i - 1)

Verified(p, i, files) ==
  /\ Work(p, [job[p] EXCEPT !.next = i + 1, !.hashes = "absent", !.tmp = NoCopy,
                !.report = [Reaches(p, i) EXCEPT !.verified[i] = 0, !.files[i] = files]])
  /\ Goto(p, "item")

Failed(p, i, kind) ==
  /\ Work(p, [job[p] EXCEPT !.next = i + 1, !.hashes = "absent", !.tmp = NoCopy,
                !.report = [Forget(job[p].report, job[p].next, i) EXCEPT !.errors[i] = kind]])
  /\ Goto(p, "item")

\* Mutant of KeepsPrior: a protected copy is taken for verified anew.
KeepsPriorAnew(p, i) ==
  LET r == Reaches(p, i) IN
  Work(p, [job[p] EXCEPT !.next = i + 1, !.report = [r EXCEPT !.verified[i] = 0]])

KeepsPrior(p, i) == Work(p, [job[p] EXCEPT !.next = i + 1, !.report = Reaches(p, i)])

Recent(p, i) ==
  /\ job[p].report.verified[i] # Never /\ ~job[p].all
  /\ Seen(i) # NoCopy
  /\ job[p].report.verified[i] < Reverify

SkipItem(p) ==
  /\ pc[p] = "item" /\ Remaining(p) # {}
  /\ LET i == Min(Remaining(p)) IN Recent(p, i) /\ KeepsPrior(p, i)
  /\ UNCHANGED <<dataDir, copies, lock, pc, lockLost, bounds>>

SourceMatches(i) == Matches(i, source[i])

\* A manifest that cannot be parsed is an error, but none of integrity.
CheckSource(p) ==
  /\ pc[p] = "item" /\ Remaining(p) # {}
  /\ LET i == Min(Remaining(p)) IN
     /\ ~Recent(p, i)
     /\ IF SourceMatches(i)
        THEN /\ Work(p, [job[p] EXCEPT !.next = i, !.hashes = source[i],
                                       !.report = Reaches(p, i)])
             /\ Goto(p, "hashed")
        ELSE Failed(p, i, IF source[i] = "garbled" THEN "other" ELSE "integrity")
  /\ UNCHANGED <<dataDir, copies, lock, lockLost, bounds>>

\* Mutant of VerifyCopy: the checksums written with the copy are compared with
\* the source's, the copy itself is not read.
VerifyChecksums(copy, expected) == copy # NoCopy /\ copy.sums = expected

VerifyCopy(copy, expected) == Whole(copy) /\ copy.files = expected

\* A copy that exists is checked, never overwritten.
CheckCopy(p) ==
  /\ pc[p] = "hashed"
  /\ LET i == job[p].next IN
     /\ Seen(i) # NoCopy
     /\ IF VerifyCopy(Seen(i), job[p].hashes)
        THEN Verified(p, i, job[p].hashes)
        ELSE Failed(p, i, "integrity")
  /\ UNCHANGED <<dataDir, copies, lock, lockLost, bounds>>

CopyItem(p) ==
  /\ pc[p] = "hashed"
  /\ LET i == job[p].next IN
     /\ Seen(i) = NoCopy
     /\ IF i \notin Present
        THEN Failed(p, i, "other")
        ELSE /\ Work(p, [job[p] EXCEPT
                           !.tmp = [files |-> source[i], sums |-> job[p].hashes, on |-> mounted]])
             /\ Goto(p, "copied")
  /\ UNCHANGED <<dataDir, copies, lock, lockLost, bounds>>

Tmp(p) == IF job[p].tmp.on = mounted THEN [files |-> job[p].tmp.files, sums |-> job[p].tmp.sums]
                                     ELSE NoCopy

\* The temporary copy verified and renamed, unless the target appeared.
PublishCopy(p) ==
  /\ pc[p] = "copied"
  /\ LET i == job[p].next IN
     IF VerifyCopy(Tmp(p), job[p].hashes) /\ Seen(i) = NoCopy
     THEN /\ IF mounted THEN volume' = [volume EXCEPT ![i] = Tmp(p)] /\ UNCHANGED shadow
                        ELSE shadow' = [shadow EXCEPT ![i] = Tmp(p)] /\ UNCHANGED volume
          /\ Verified(p, i, job[p].hashes)
     ELSE /\ Failed(p, i, "integrity")
          /\ UNCHANGED <<volume, shadow>>
  /\ UNCHANGED <<dataDir, mounted, lock, lockLost, bounds>>

EndBackup(p) ==
  /\ pc[p] = "item" /\ Remaining(p) = {}
  /\ LET done == Forget(job[p].report, job[p].next, NumItems) IN
     report' = Aged([done EXCEPT !.success =
                       IF \A i \in Items : done.errors[i] = "none" THEN 0 ELSE @], job[p].now)
  /\ Then(p, "verify")
  /\ Release(p)
  /\ UNCHANGED <<source, failing, recovery, records, alerts, copies, lockLost, bounds>>

-----------------------------------------------------------------------------
(* The rest of a pass: verification, recovery test, report                 *)

\* Until every registered evaluation has completed, its days are reserved; a
\* registration that cannot be read reserves everything.
Restricted == source[Registration] # "absent"

VerifyDataset(i) ==
  IF source[i] # "intact" THEN "failed" ELSE IF Restricted THEN "restricted" ELSE "verified"

Dropped    == [i \in Items |-> IF i \in Present THEN records[i] ELSE NoRecord]
DueDatasets ==
  {i \in Shards \cap Present : records[i] = NoRecord \/ records[i].age >= Interval}

\* Least recently checked first, never checked before all, then by name.
Before(i, j) ==
  LET rank(k) == IF records[k] = NoRecord THEN OldestRecord + 1 ELSE records[k].age IN
  rank(i) > rank(j) \/ (rank(i) = rank(j) /\ i < j)

FirstDue == CHOOSE i \in DueDatasets : \A j \in DueDatasets \ {i} : Before(i, j)

RunVerification ==
  /\ pc["worker"] = "verify"
  /\ IF DueDatasets # {} /\ job["worker"].next <= MaxPerPass
     THEN /\ records' = [Dropped EXCEPT ![FirstDue] =
                           [result |-> VerifyDataset(FirstDue), age |-> 0]]
          /\ Work("worker", [job["worker"] EXCEPT !.next = @ + 1])
          /\ UNCHANGED pc
     ELSE /\ records' = Dropped
          /\ Goto("worker", "test") /\ Work("worker", NoJob)
  /\ UNCHANGED <<source, failing, report, recovery, alerts, copies, lock, lockLost, bounds>>

RecoveryDue == recovery.status # "passed" \/ recovery.age >= RecoveryInterval

NotDue ==
  /\ pc["worker"] = "test" /\ ~RecoveryDue
  /\ Goto("worker", "status")
  /\ UNCHANGED <<dataDir, copies, lock, job, lockLost, bounds>>

Size(S) == Cardinality({i \in S : Seen(i) # NoCopy})

\* Above the bound: the evaluations, then others by name while they fit.
Chosen(names) ==
  IF Size(names) <= MaxBytes THEN names
  ELSE {i \in names : \/ i = Registration \/ Size({i}) = 0
                       \/ Size({j \in names : j <= i}) <= MaxBytes}

StartRecoveryTest(p) ==
  /\ pc[p] = "test" /\ (p = "worker" => RecoveryDue)
  /\ IF mounted /\ Protected(report) # {}
     THEN /\ Work(p, [job[p] EXCEPT !.report = report, !.names = Chosen(Protected(report))])
          /\ Goto(p, "testing")
          /\ UNCHANGED recovery
     ELSE /\ recovery' = [status |-> "unavailable", age |-> 0]
          /\ Then(p, "status")
  /\ UNCHANGED <<source, failing, report, records, alerts, copies, lock, lockLost, bounds>>

TestItem(p) ==
  /\ pc[p] = "testing" /\ job[p].names # {}
  /\ LET i == Min(job[p].names)
         restored == VerifyCopy(Seen(i), job[p].report.files[i]) /\ Matches(i, Seen(i).files)
     IN Work(p, [job[p] EXCEPT !.names = @ \ {i}, !.bad = @ \/ ~restored])
  /\ UNCHANGED <<dataDir, copies, lock, pc, lockLost, bounds>>

EndRecoveryTest(p) ==
  /\ pc[p] = "testing" /\ job[p].names = {}
  /\ recovery' = [status |-> IF job[p].bad THEN "failed" ELSE "passed", age |-> 0]
  /\ Then(p, "status")
  /\ UNCHANGED <<source, failing, report, records, alerts, copies, lock, lockLost, bounds>>

Unparsable == \E i \in Shards : source[i] = "garbled"

\* build_status reads every manifest and raises on such a one: the pass ends,
\* and the alerts stay as they were.
StatusFails ==
  /\ pc["worker"] = "status" /\ Unparsable
  /\ Goto("worker", "idle") /\ Work("worker", NoJob)
  /\ UNCHANGED <<dataDir, copies, lock, lockLost, bounds>>

\* An alert is active from now on if its condition holds, and no longer if not.
WriteStatus ==
  /\ pc["worker"] = "status" /\ ~Unparsable
  /\ alerts' =
       DeriveAlerts(source[Registration],
                    {i \in Shards : records[i].result = "failed" /\ i \in Present},
                    Expired \ Present, failing \ Present,
                    {i \in Shards \cap Present :
                       records[i] # NoRecord /\ records[i].age > 2 * Interval})
         \cup DeriveBackupAlerts(report, Present \ Protected(report), recovery,
                                 BackupOverdue, RecoveryInterval)
         \cup DeriveWorkerAlerts(lockLost)
  /\ Goto("worker", "idle") /\ Work("worker", NoJob)
  /\ UNCHANGED <<source, failing, report, recovery, records, copies, lock, lockLost, bounds>>

-----------------------------------------------------------------------------
(* The operator's commands                                                 *)

Command(at, next) ==
  /\ pc["operator"] = "idle" /\ sessions < MaxSessions
  /\ sessions' = sessions + 1
  /\ Goto("operator", at)
  /\ Work("operator", next)
  /\ UNCHANGED <<dataDir, copies, lockLost, faults>>

Locked == lock = "none" /\ lock' = "operator"

OperatorBackup ==
  /\ Locked
  /\ \E all \in BOOLEAN : Command("backup", [NoJob EXCEPT !.all = all])

OperatorTest == Command("test", NoJob) /\ UNCHANGED lock

OperatorRestore ==
  /\ Locked
  /\ \E i \in Items : Command("restore", [NoJob EXCEPT !.next = i])

Quit == Then("operator", "idle") /\ Release("operator")

\* Nothing that exists is replaced, and only a copy that verifies is used.
RestoreVerify ==
  /\ pc["operator"] = "restore"
  /\ LET i == job["operator"].next IN
     IF i \notin Present /\ Whole(Seen(i))
     THEN /\ Work("operator", [job["operator"] EXCEPT !.hashes = Seen(i).files])
          /\ Goto("operator", "restoring")
          /\ UNCHANGED lock
     ELSE Quit
  /\ UNCHANGED <<dataDir, copies, lockLost, bounds>>

\* Mutant of Unchanged: what was copied is not compared with what was verified.
CopiedSomething(copy, hashes) == copy # NoCopy

Unchanged(copy, hashes) == copy.files = hashes

\* The parent directory, which of the registration is its own, is made first.
RestoreCopy ==
  /\ pc["operator"] = "restoring"
  /\ LET i == job["operator"].next IN
     /\ source' = [source EXCEPT ![i] = IF i = Registration /\ @ = "absent" THEN "bare" ELSE @]
     /\ IF Unchanged(Seen(i), job["operator"].hashes) /\ Matches(i, Seen(i).files)
        THEN /\ Work("operator", [job["operator"] EXCEPT !.tmp = Seen(i)])
             /\ Goto("operator", "restored")
             /\ UNCHANGED lock
        ELSE Quit
  /\ UNCHANGED <<failing, report, recovery, records, alerts, copies, lockLost, bounds>>

\* The rename fails over a directory that is there, or without the temporary one.
RestorePublish ==
  /\ pc["operator"] = "restored"
  /\ LET i == job["operator"].next IN
     source' = [source EXCEPT ![i] = IF i \in Present THEN @ ELSE job["operator"].tmp.files]
  /\ Quit
  /\ UNCHANGED <<failing, report, recovery, records, alerts, copies, lockLost, bounds>>

\* "for a human to resolve": what failed its check is moved away, a registration
\* with its directory or out of it.
RemoveDamaged ==
  /\ sessions < MaxSessions /\ sessions' = sessions + 1
  /\ \E i \in Items :
       \/ /\ source[i] \in {"rotten", "garbled"}
          /\ \E left \in IF i = Registration THEN {"absent", "bare"} ELSE {"absent"} :
               source' = [source EXCEPT ![i] = left]
          /\ UNCHANGED volume
       \/ mounted /\ volume[i].files # volume[i].sums /\ volume' = [volume EXCEPT ![i] = NoCopy]
          /\ UNCHANGED source
  /\ UNCHANGED <<failing, report, recovery, records, alerts, shadow, mounted, lock, procs, faults>>

-----------------------------------------------------------------------------
(* What breaks                                                             *)

Breaks == faults < MaxFaults /\ faults' = faults + 1 /\ UNCHANGED sessions

SourceRots ==
  /\ Breaks
  /\ \E i \in Present :
       \E rot \in IF i \in Shards THEN {"rotten", "garbled"} ELSE {"rotten"} :
         source' = [source EXCEPT ![i] = rot]
  /\ UNCHANGED <<failing, report, recovery, records, alerts, copies, lock, procs>>

CopyRots ==
  /\ Breaks
  /\ \E i \in Items : volume[i] # NoCopy /\ volume' = [volume EXCEPT ![i].files = "decayed"]
  /\ UNCHANGED <<dataDir, shadow, mounted, lock, procs>>

\* The disk goes, with the worker's own files and what was being restored.
LoseDisk ==
  /\ Breaks
  /\ source' = [i \in Items |-> "absent"] /\ failing' = {} /\ alerts' = {}
  /\ report' = NoReport /\ recovery' = Untested /\ records' = [i \in Items |-> NoRecord]
  /\ job' = [job EXCEPT !["operator"].tmp =
               IF pc["operator"] = "restored" THEN NoCopy ELSE @]
  /\ UNCHANGED <<copies, lock, pc, lockLost>>

Unmount == Breaks /\ mounted /\ mounted' = FALSE /\ UNCHANGED <<dataDir, volume, shadow, lock, procs>>
Mount   == ~mounted /\ mounted' = TRUE /\ UNCHANGED <<dataDir, volume, shadow, lock, procs, bounds>>

SessionEnds ==
  /\ Breaks /\ lock # "none" /\ lock' = "none"
  /\ UNCHANGED <<dataDir, copies, procs>>

\* A process dies, or its pass ends with an exception: no status is written.
Dies(p) ==
  /\ Breaks /\ pc[p] # "idle"
  /\ Goto(p, "idle") /\ Work(p, NoJob) /\ Release(p)
  /\ UNCHANGED <<dataDir, copies, lockLost>>

-----------------------------------------------------------------------------
Job(p) ==
  \/ StartBackup(p) \/ SkipItem(p) \/ CheckSource(p) \/ CheckCopy(p) \/ CopyItem(p)
  \/ PublishCopy(p) \/ EndBackup(p)
  \/ StartRecoveryTest(p) \/ TestItem(p) \/ EndRecoveryTest(p)

Worker ==
  BeginPass \/ LosesLock \/ GenerateDay \/ Generated \/ Job("worker")
    \/ RunVerification \/ NotDue \/ StatusFails
    \/ WriteStatus

Operator == Job("operator") \/ RestoreVerify \/ RestoreCopy \/ RestorePublish

Commands == OperatorBackup \/ OperatorTest \/ OperatorRestore \/ RemoveDamaged

Environment ==
  SourceRots \/ CopyRots \/ LoseDisk \/ Unmount \/ Mount \/ SessionEnds \/ \E p \in Processes : Dies(p)

\* How long ago each copy was last whole, for VerifiedWasWhole.
Witness ==
  since' = [i \in Items |->
    IF Whole(Seen(i))' THEN 0
    ELSE IF pc["worker"] = "idle" /\ pc'["worker"] # "idle" THEN Older(since[i], 1, Reverify)
    ELSE since[i]]

Next == (Worker \/ Operator \/ Commands \/ Environment) /\ Witness

\* The loop starts a pass an interval after the last, whatever that one did; an
\* operator's command runs to its end.
Fairness == WF_vars(Worker /\ Witness) /\ WF_vars(Operator /\ Witness)

Spec == Init /\ [][Next]_vars /\ Fairness

-----------------------------------------------------------------------------
(* An item the report lists as verified an age ago was, at that age or     *)
(* later, a whole copy at the destination: a report never vouches for a    *)
(* copy longer than the copy was checked, whichever of two processes wrote *)
(* it and whatever happened while the items were gone through              *)
(* (run_backup, verify_copy).                                              *)
VerifiedWasWhole == \A i \in Protected(report) : since[i] <= report.verified[i]

(* Damage does not spread: bytes that decayed in a copy never come back    *)
(* into the data directory through a restore, and a shard that does not    *)
(* match its manifest never becomes a copy (_check_source, _copy_item,     *)
(* restore_item).                                                          *)
DamageDoesNotSpread ==
  \A i \in Items :
    /\ source[i] # "decayed"
    /\ i \in Shards => {volume[i].sums, shadow[i].sums} \cap {"rotten", "garbled"} = {}

Active   == {a.condition : a \in alerts}
Alerted(i) == report.errors[i] = "integrity" /\ "backup_integrity_failed" \in Active
Healthy  == mounted /\ \A i \in Items : source[i] = "intact"
                                        /\ volume[i].files = volume[i].sums
                                        /\ volume[i].files \in {"absent", "intact"}

(* Once the volume stays mounted and every manifest can be parsed, every   *)
(* item that stays in the data directory ends up, for good, protected by a *)
(* whole copy of what is there or named by an integrity alert; and once    *)
(* nothing is damaged, no alert stays active. While a manifest cannot be   *)
(* parsed no pass gets as far as its alerts (run_backup, run_verification, *)
(* recovery_test, derive_backup_alerts, update_alerts, _dataset_entries).  *)
ProtectedOrReported ==
  /\ <>[](mounted /\ ~Unparsable) =>
       <>[](\A i \in Present :
              \/ i \in Protected(report) /\ Whole(volume[i]) /\ volume[i].files = source[i]
              \/ Alerted(i))
  /\ <>[]Healthy => <>[](alerts = {})
=============================================================================
