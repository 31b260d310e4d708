------------------------ MODULE ResearchBackupProofs ------------------------
(***************************************************************************)
(* Damage does not spread between the data directory and its copies, and a *)
(* report vouches for no copy longer than it was checked: for any number   *)
(* of items, intervals, commands and faults.                               *)
(***************************************************************************)
EXTENDS ResearchBackup, TLAPS

Originals == {"absent", "bare", "intact", "rotten", "garbled"}

\* What an item's own manifest lets pass.
Good(i, content) == content \in Originals /\ (i \in Shards => content \notin {"rotten", "garbled"})

(* A copy may decay, its checksums stay those it was made with.            *)
CopiesHold(store) ==
    /\ store = [i \in Items |-> store[i]]
    /\ \A i \in Items : /\ store[i] = [files |-> store[i].files, sums |-> store[i].sums]
                        /\ Good(i, store[i].sums)

SourcesHold == source = [i \in Items |-> source[i]] /\ \A i \in Items : source[i] \in Originals

(* What a process holds between a check and the rename that rests on it:   *)
(* the hashes of a source that matched its manifest, those of a copy that  *)
(* verified, the bytes copied from it.                                     *)
HoldsChecked(p) ==
    /\ pc[p] \in {"hashed", "copied"} /\ job[p].next \in Items => Good(job[p].next, job[p].hashes)
    /\ pc[p] = "restoring" /\ job[p].next \in Items => job[p].hashes \in Originals
    /\ pc[p] = "restored" /\ job[p].next \in Items => job[p].tmp.files \in Originals

Fields == {"next", "now", "all", "report", "hashes", "tmp", "names", "bad"}

JobShape(j) == j = [f \in Fields |-> j[f]]

ProcessesHold ==
    /\ pc = [p \in Processes |-> pc[p]] /\ job = [p \in Processes |-> job[p]]
    /\ \A p \in Processes : JobShape(job[p]) /\ HoldsChecked(p)

BackupInv == SourcesHold /\ CopiesHold(volume) /\ CopiesHold(shadow) /\ ProcessesHold

-----------------------------------------------------------------------------
LEMMA NoJobShape == JobShape(NoJob)
BY DEF JobShape, Fields, NoJob

LEMMA BackupInit == Init => BackupInv
<1> SUFFICES ASSUME Init PROVE BackupInv
  OBVIOUS
<1>1. ProcessesHold
  <2>1. pc = [p \in Processes |-> "idle"] /\ job = [p \in Processes |-> NoJob]
    BY DEF Init
  <2> QED BY <2>1, NoJobShape DEF ProcessesHold, HoldsChecked
<1>2. SourcesHold
  BY DEF Init, SourcesHold, Originals
<1>3. CopiesHold(shadow)
  BY DEF Init, CopiesHold, Good, Originals, NoCopy
<1>4. CopiesHold(volume)
  BY DEF Init, CopiesHold, Good, Originals, NoCopy
<1> QED BY <1>1, <1>2, <1>3, <1>4 DEF BackupInv

(* A copy that verifies against what is good is good itself.               *)
LEMMA VerifiedIsGood ==
  ASSUME NEW i \in Items, NEW copy, NEW hashes, Good(i, hashes), VerifyCopy(copy, hashes)
  PROVE  copy.files = hashes /\ Good(i, copy.sums)
BY DEF VerifyCopy, Whole, Good

LEMMA SeenHolds ==
  ASSUME BackupInv, NEW i \in Items
  PROVE  Seen(i) = [files |-> Seen(i).files, sums |-> Seen(i).sums] /\ Good(i, Seen(i).sums)
BY DEF BackupInv, CopiesHold, Seen

(* A process that starts afresh, ends, or goes on to a place where it has  *)
(* checked nothing holds nothing.                                          *)
LEMMA GoesOn ==
  ASSUME BackupInv, NEW p \in Processes, NEW at, NEW next, Goto(p, at), Work(p, next),
         JobShape(next), at \notin {"hashed", "copied", "restoring", "restored"}
  PROVE  ProcessesHold'
BY DEF BackupInv, ProcessesHold, Goto, Work, HoldsChecked, JobShape

LEMMA Ends ==
  ASSUME BackupInv, NEW p \in Processes, NEW at, Then(p, at),
         at \notin {"hashed", "copied", "restoring", "restored"}
  PROVE  ProcessesHold'
<1>1. CASE p = "worker"
  BY <1>1, GoesOn, NoJobShape DEF Then
<1>2. CASE p # "worker"
  BY <1>2, GoesOn, NoJobShape DEF Then
<1> QED BY <1>1, <1>2

LEMMA UnchangedProcesses == ASSUME BackupInv, UNCHANGED <<pc, job>> PROVE ProcessesHold'
BY DEF BackupInv, ProcessesHold, HoldsChecked, JobShape

LEMMA UnchangedCopies ==
  ASSUME BackupInv, UNCHANGED <<volume, shadow>>
  PROVE  CopiesHold(volume)' /\ CopiesHold(shadow)'
BY DEF BackupInv, CopiesHold, Good

LEMMA UnchangedSource == ASSUME BackupInv, source' = source PROVE SourcesHold'
BY DEF BackupInv, SourcesHold

(* A process that goes on with what it holds, at the same item.            *)
LEMMA Keeps ==
  ASSUME BackupInv, NEW p \in Processes, NEW next, Work(p, next), pc' = pc, JobShape(next),
         next.next = job[p].next, next.hashes = job[p].hashes, next.tmp = job[p].tmp
  PROVE  ProcessesHold'
BY DEF BackupInv, ProcessesHold, Work, HoldsChecked, JobShape

(* An item that is verified, or fails, leaves nothing held.                *)
LEMMA ItemEnds ==
  ASSUME BackupInv, NEW p \in Processes, NEW i, NEW files, NEW kind,
         Verified(p, i, files) \/ Failed(p, i, kind)
  PROVE  ProcessesHold'
<1>1. JobShape(job[p])
  BY DEF BackupInv, ProcessesHold
<1>2. CASE Verified(p, i, files)
  <2> DEFINE next == [job[p] EXCEPT !.next = i + 1, !.hashes = "absent", !.tmp = NoCopy,
                        !.report = [Reaches(p, i) EXCEPT !.verified[i] = 0, !.files[i] = files]]
  <2>1. JobShape(next)
    BY <1>1 DEF JobShape, Fields
  <2>2. Work(p, next) /\ Goto(p, "item")
    BY <1>2 DEF Verified
  <2> HIDE DEF next
  <2> QED BY <2>1, <2>2, GoesOn
<1>3. CASE Failed(p, i, kind)
  <2> DEFINE next == [job[p] EXCEPT !.next = i + 1, !.hashes = "absent", !.tmp = NoCopy,
                !.report = [Forget(job[p].report, job[p].next, i) EXCEPT !.errors[i] = kind]]
  <2>1. JobShape(next)
    BY <1>1 DEF JobShape, Fields
  <2>2. Work(p, next) /\ Goto(p, "item")
    BY <1>3 DEF Failed
  <2> HIDE DEF next
  <2> QED BY <2>1, <2>2, GoesOn
<1> QED BY <1>2, <1>3

-----------------------------------------------------------------------------
(* The steps of a backup and of a recovery test, by either process.        *)
LEMMA JobStep ==
  ASSUME BackupInv, NEW p \in Processes, Job(p)
  PROVE  BackupInv'
<1>1. JobShape(job[p]) /\ HoldsChecked(p)
  BY DEF BackupInv, ProcessesHold
<1>2. CASE ~PublishCopy(p)
  <2>1. SourcesHold' /\ CopiesHold(volume)' /\ CopiesHold(shadow)'
    BY <1>2, UnchangedSource, UnchangedCopies
       DEF Job, StartBackup, SkipItem, CheckSource, CheckCopy, CopyItem, EndBackup,
           StartRecoveryTest, TestItem, EndRecoveryTest, dataDir, copies
  <2>2. ProcessesHold'
    <3>1. CASE StartBackup(p)
      <4>1. JobShape([job[p] EXCEPT !.report = NextReport, !.now = 0])
        BY <1>1 DEF JobShape, Fields
      <4> QED BY <3>1, <4>1, GoesOn, Ends DEF StartBackup
    <3>2. CASE SkipItem(p)
      <4>1. pc[p] = "item" /\ pc' = pc
        BY <3>2 DEF SkipItem
      <4>2. PICK i : Work(p, [job[p] EXCEPT !.next = i + 1, !.report = Reaches(p, i)])
        BY <3>2 DEF SkipItem, KeepsPrior
      <4>3. JobShape([job[p] EXCEPT !.next = i + 1, !.report = Reaches(p, i)])
        BY <1>1 DEF JobShape, Fields
      <4>4. Goto(p, "item")
        BY <4>1 DEF Goto, BackupInv, ProcessesHold
      <4> QED BY <4>2, <4>3, <4>4, GoesOn
    <3>3. CASE CheckSource(p)
      <4> DEFINE i == Min(Remaining(p))
                 next == [job[p] EXCEPT !.next = i, !.hashes = source[i], !.report = Reaches(p, i)]
      <4>1. CASE ~SourceMatches(i)
        BY <3>3, <4>1, ItemEnds DEF CheckSource
      <4>2. CASE SourceMatches(i)
        <5>1. Work(p, next) /\ Goto(p, "hashed")
          BY <3>3, <4>2 DEF CheckSource
        <5>2. JobShape(next) /\ next.next = i /\ next.hashes = source[i]
          BY <1>1 DEF JobShape, Fields
        <5>3. i \in Items => Good(i, source[i])
          BY <4>2 DEF BackupInv, SourcesHold, SourceMatches, Matches, Good, Originals
        <5> HIDE DEF i, next
        <5> QED BY <5>1, <5>2, <5>3 DEF BackupInv, ProcessesHold, Work, Goto, HoldsChecked, JobShape
      <4> QED BY <4>1, <4>2
    <3>4. CASE CheckCopy(p)
      BY <3>4, ItemEnds DEF CheckCopy
    <3>5. CASE CopyItem(p)
      <4> DEFINE tmp == [files |-> source[job[p].next], sums |-> job[p].hashes, on |-> mounted]
                 next == [job[p] EXCEPT !.tmp = tmp]
      <4>1. CASE job[p].next \notin Present
        BY <3>5, <4>1, ItemEnds DEF CopyItem
      <4>2. CASE job[p].next \in Present
        <5>1. pc[p] = "hashed" /\ Work(p, next) /\ Goto(p, "copied")
          BY <3>5, <4>2 DEF CopyItem
        <5>2. JobShape(next) /\ next.next = job[p].next /\ next.hashes = job[p].hashes
          BY <1>1 DEF JobShape, Fields
        <5> HIDE DEF next
        <5> QED BY <5>1, <5>2 DEF BackupInv, ProcessesHold, Work, Goto, HoldsChecked, JobShape
      <4> QED BY <4>1, <4>2
    <3>6. CASE EndBackup(p) \/ EndRecoveryTest(p)
      BY <3>6, Ends DEF EndBackup, EndRecoveryTest
    <3>7. CASE StartRecoveryTest(p)
      <4>1. JobShape([job[p] EXCEPT !.report = report, !.names = Chosen(Protected(report))])
        BY <1>1 DEF JobShape, Fields
      <4> QED BY <3>7, <4>1, GoesOn, Ends DEF StartRecoveryTest
    <3>8. CASE TestItem(p)
      <4>1. PICK names, bad : Work(p, [job[p] EXCEPT !.names = names, !.bad = bad]) /\ pc' = pc
        BY <3>8 DEF TestItem
      <4> DEFINE next == [job[p] EXCEPT !.names = names, !.bad = bad]
      <4>2. /\ JobShape(next)
            /\ next.next = job[p].next /\ next.hashes = job[p].hashes /\ next.tmp = job[p].tmp
        BY <1>1 DEF JobShape, Fields
      <4> HIDE DEF next
      <4> QED BY <4>1, <4>2, Keeps DEF next
    <3> QED BY <1>2, <3>1, <3>2, <3>3, <3>4, <3>5, <3>6, <3>7, <3>8 DEF Job
  <2> QED BY <2>1, <2>2 DEF BackupInv
<1>3. CASE PublishCopy(p)
  <2> DEFINE i == job[p].next
  <2>1. ProcessesHold' /\ SourcesHold'
    BY <1>3, ItemEnds, UnchangedSource DEF PublishCopy, dataDir
  <2>2. CASE ~VerifyCopy(Tmp(p), job[p].hashes)
    BY <1>3, <2>1, <2>2, UnchangedCopies DEF PublishCopy, BackupInv
  <2>3. CASE VerifyCopy(Tmp(p), job[p].hashes)
    <3>1. Tmp(p) = [files |-> Tmp(p).files, sums |-> Tmp(p).sums]
      BY <2>3 DEF VerifyCopy, Whole, Tmp
    <3>2. i \in Items => Good(i, Tmp(p).sums)
      BY <1>1, <1>3, <2>3, VerifiedIsGood DEF PublishCopy, HoldsChecked
    <3>3. \/ UNCHANGED <<volume, shadow>>
          \/ volume' = [volume EXCEPT ![i] = Tmp(p)] /\ shadow' = shadow
          \/ shadow' = [shadow EXCEPT ![i] = Tmp(p)] /\ volume' = volume
      BY <1>3 DEF PublishCopy
    <3> HIDE DEF i
    <3>4. CopiesHold(volume)' /\ CopiesHold(shadow)'
      BY <3>1, <3>2, <3>3 DEF BackupInv, CopiesHold, Good
    <3> QED BY <2>1, <3>4 DEF BackupInv
  <2> QED BY <2>2, <2>3
<1> QED BY <1>2, <1>3

(* The steps of an operator's restore. The bytes taken are those a whole   *)
(* copy had when it was verified, and a whole copy has not decayed.        *)
LEMMA RestoreStep ==
  ASSUME BackupInv, RestoreVerify \/ RestoreCopy \/ RestorePublish
  PROVE  BackupInv'
<1> DEFINE op == "operator"
           i  == job[op].next
<1>1. op \in Processes /\ JobShape(job[op]) /\ HoldsChecked(op)
  BY DEF BackupInv, ProcessesHold, Processes
<1>2. CopiesHold(volume)' /\ CopiesHold(shadow)'
  BY UnchangedCopies DEF RestoreVerify, RestoreCopy, RestorePublish, copies
<1>3. ASSUME Quit PROVE ProcessesHold'
  BY <1>1, <1>3, Ends DEF Quit
<1>4. CASE RestoreVerify
  <2>1. SourcesHold'
    BY <1>4, UnchangedSource DEF RestoreVerify, dataDir
  <2>2. CASE ~(i \notin Present /\ Whole(Seen(i)))
    BY <1>2, <1>3, <1>4, <2>1, <2>2 DEF RestoreVerify, BackupInv
  <2>3. CASE i \notin Present /\ Whole(Seen(i))
    <3> DEFINE next == [job[op] EXCEPT !.hashes = Seen(i).files]
    <3>1. Work(op, next) /\ Goto(op, "restoring")
      BY <1>4, <2>3 DEF RestoreVerify
    <3>2. JobShape(next) /\ next.next = i /\ next.hashes = Seen(i).files
      BY <1>1 DEF JobShape, Fields
    <3>3. i \in Items => Seen(i).files \in Originals
      BY <2>3, SeenHolds DEF Whole, Good
    <3> HIDE DEF next
    <3>4. ProcessesHold'
      BY <1>1, <3>1, <3>2, <3>3 DEF BackupInv, ProcessesHold, Work, Goto, HoldsChecked, JobShape
    <3> QED BY <1>2, <2>1, <3>4 DEF BackupInv
  <2> QED BY <2>2, <2>3
<1>5. CASE RestoreCopy
  <2>1. SourcesHold'
    BY <1>5 DEF RestoreCopy, BackupInv, SourcesHold, Originals
  <2>2. CASE ~(Unchanged(Seen(i), job[op].hashes) /\ Matches(i, Seen(i).files))
    BY <1>2, <1>3, <1>5, <2>1, <2>2 DEF RestoreCopy, BackupInv
  <2>3. CASE Unchanged(Seen(i), job[op].hashes) /\ Matches(i, Seen(i).files)
    <3> DEFINE next == [job[op] EXCEPT !.tmp = Seen(i)]
    <3>1. Work(op, next) /\ Goto(op, "restored")
      BY <1>5, <2>3 DEF RestoreCopy
    <3>2. JobShape(next) /\ next.next = i /\ next.tmp = Seen(i)
      BY <1>1 DEF JobShape, Fields
    <3>3. i \in Items => Seen(i).files \in Originals
      BY <1>1, <1>5, <2>3 DEF RestoreCopy, HoldsChecked, Unchanged
    <3> HIDE DEF next
    <3>4. ProcessesHold'
      BY <1>1, <3>1, <3>2, <3>3 DEF BackupInv, ProcessesHold, Work, Goto, HoldsChecked, JobShape
    <3> QED BY <1>2, <2>1, <3>4 DEF BackupInv
  <2> QED BY <2>2, <2>3
<1>6. CASE RestorePublish
  <2>1. i \in Items => job[op].tmp.files \in Originals
    BY <1>1, <1>6 DEF RestorePublish, HoldsChecked
  <2>2. source' = [source EXCEPT ![i] = IF i \in Present THEN @ ELSE job[op].tmp.files]
    BY <1>6 DEF RestorePublish
  <2> HIDE DEF i
  <2>3. SourcesHold'
    BY <2>1, <2>2 DEF BackupInv, SourcesHold
  <2>4. ProcessesHold'
    BY <1>3, <1>6 DEF RestorePublish
  <2> QED BY <1>2, <2>3, <2>4 DEF BackupInv
<1> QED BY <1>4, <1>5, <1>6

(* The rest of a worker's pass moves no bytes but a shard just generated.  *)
LEMMA WorkerStep ==
  ASSUME BackupInv,
         BeginPass \/ LosesLock \/ GenerateDay \/ Generated \/ RunVerification \/ NotDue
           \/ StatusFails \/ WriteStatus
  PROVE  BackupInv'
<1> DEFINE w == "worker"
           more == DueDatasets # {} /\ job["worker"].next <= MaxPerPass
<1>1. /\ w \in Processes /\ "operator" \in Processes /\ w # "operator"
      /\ JobShape(job[w]) /\ JobShape(job["operator"])
  BY DEF BackupInv, ProcessesHold, Processes
<1>2. CopiesHold(volume)' /\ CopiesHold(shadow)'
  BY UnchangedCopies DEF BeginPass, LosesLock, GenerateDay, Generated, RunVerification, NotDue,
                         StatusFails, WriteStatus, dataDir, copies
<1>3. SourcesHold'
  <2>1. CASE GenerateDay
    BY <2>1 DEF GenerateDay, BackupInv, SourcesHold, Originals
  <2> QED BY <2>1, UnchangedSource DEF BeginPass, LosesLock, Generated, RunVerification, NotDue,
                                       StatusFails, WriteStatus, dataDir
<1>4. ProcessesHold'
  <2>1. CASE BeginPass
    <3>1. \E now : job' = job \/ Work("operator", [job["operator"] EXCEPT !.now = now])
      BY <2>1 DEF BeginPass
    <3>2. PICK now : job' = job \/ Work("operator", [job["operator"] EXCEPT !.now = now])
      BY <3>1
    <3> DEFINE next == [job["operator"] EXCEPT !.now = now]
    <3>3. /\ JobShape(next)
          /\ next.next = job["operator"].next /\ next.hashes = job["operator"].hashes
          /\ next.tmp = job["operator"].tmp
      BY <1>1 DEF JobShape, Fields
    <3>4. job' = job \/ Work("operator", next)
      BY <3>2
    <3>5. Goto(w, "generate") \/ Goto(w, "verify")
      BY <2>1 DEF BeginPass
    <3> HIDE DEF next
    <3> QED BY <1>1, <3>3, <3>4, <3>5 DEF BackupInv, ProcessesHold, Work, Goto, HoldsChecked, JobShape
  <2>2. CASE LosesLock \/ Generated
    BY <1>1, <2>2, Ends DEF LosesLock, Generated
  <2>3. CASE StatusFails \/ WriteStatus
    BY <1>1, <2>3, GoesOn, NoJobShape DEF StatusFails, WriteStatus
  <2>4. CASE GenerateDay \/ (RunVerification /\ more)
    <3>1. \E n : Work(w, [job[w] EXCEPT !.next = n])
      <4>1. CASE GenerateDay
        BY <4>1 DEF GenerateDay
      <4>2. CASE RunVerification /\ more
        BY <4>2 DEF RunVerification
      <4> QED BY <2>4, <4>1, <4>2
    <3>2. PICK n : Work(w, [job[w] EXCEPT !.next = n])
      BY <3>1
    <3>3. JobShape([job[w] EXCEPT !.next = n])
      BY <1>1 DEF JobShape, Fields
    <3>4. pc' = pc /\ pc[w] \in {"generate", "verify"}
      BY <2>4 DEF GenerateDay, RunVerification
    <3>5. Goto(w, pc[w])
      BY <3>4 DEF Goto, BackupInv, ProcessesHold
    <3> QED BY <1>1, <3>2, <3>3, <3>4, <3>5, GoesOn
  <2>5. CASE RunVerification /\ ~more
    BY <1>1, <2>5, GoesOn, NoJobShape DEF RunVerification
  <2>6. CASE NotDue
    <3>1. Goto(w, "status") /\ Work(w, job[w])
      BY <2>6 DEF NotDue, Work, BackupInv, ProcessesHold
    <3> QED BY <1>1, <3>1, GoesOn
  <2> QED BY <2>1, <2>2, <2>3, <2>4, <2>5, <2>6
<1> QED BY <1>2, <1>3, <1>4 DEF BackupInv

LEMMA CommandBegins ==
  ASSUME BackupInv, NEW at \in {"backup", "test", "restore"}, NEW next, Command(at, next), JobShape(next)
  PROVE  BackupInv'
<1>1. ProcessesHold'
  BY GoesOn DEF Command, Processes
<1> QED BY <1>1, UnchangedSource, UnchangedCopies DEF Command, BackupInv, dataDir, copies

(* A command begins with a fresh job; what is removed leaves nothing.      *)
LEMMA CommandStep ==
  ASSUME BackupInv, Commands
  PROVE  BackupInv'
<1>1. CASE OperatorBackup \/ OperatorTest \/ OperatorRestore
  <2>1. CASE OperatorBackup
    <3>1. PICK all \in BOOLEAN : Command("backup", [NoJob EXCEPT !.all = all])
      BY <2>1 DEF OperatorBackup
    <3>2. JobShape([NoJob EXCEPT !.all = all])
      BY NoJobShape DEF JobShape, Fields
    <3> QED BY <3>1, <3>2, CommandBegins
  <2>2. CASE OperatorTest
    BY <2>2, NoJobShape, CommandBegins DEF OperatorTest
  <2>3. CASE OperatorRestore
    <3>1. PICK i \in Items : Command("restore", [NoJob EXCEPT !.next = i])
      BY <2>3 DEF OperatorRestore
    <3>2. JobShape([NoJob EXCEPT !.next = i])
      BY NoJobShape DEF JobShape, Fields
    <3> QED BY <3>1, <3>2, CommandBegins
  <2> QED BY <1>1, <2>1, <2>2, <2>3
<1>2. CASE RemoveDamaged
  <2>1. ProcessesHold' /\ CopiesHold(shadow)'
    BY <1>2, UnchangedProcesses DEF RemoveDamaged, procs, BackupInv, CopiesHold, Good
  <2>2. SourcesHold'
    BY <1>2 DEF RemoveDamaged, BackupInv, SourcesHold, Originals
  <2>3. CopiesHold(volume)'
    BY <1>2 DEF RemoveDamaged, BackupInv, CopiesHold, Good, Originals, NoCopy
  <2> QED BY <2>1, <2>2, <2>3 DEF BackupInv
<1> QED BY <1>1, <1>2 DEF Commands

(* What breaks spoils bytes where they lie, never the checksums.           *)
LEMMA EnvironmentStep ==
  ASSUME BackupInv, Environment
  PROVE  BackupInv'
<1>1. CASE SourceRots
  <2>1. SourcesHold'
    BY <1>1 DEF SourceRots, BackupInv, SourcesHold, Originals
  <2> QED BY <1>1, <2>1, UnchangedProcesses, UnchangedCopies DEF SourceRots, BackupInv, copies, procs
<1>2. CASE CopyRots
  <2>1. CopiesHold(volume)' /\ CopiesHold(shadow)'
    BY <1>2 DEF CopyRots, BackupInv, CopiesHold, Good
  <2> QED BY <1>2, <2>1, UnchangedProcesses, UnchangedSource DEF CopyRots, BackupInv, dataDir, procs
<1>3. CASE LoseDisk
  <2>1. SourcesHold'
    BY <1>3 DEF LoseDisk, SourcesHold, Originals
  <2>2. ProcessesHold'
    <3> DEFINE op == "operator"
               tmp == IF pc[op] = "restored" THEN NoCopy ELSE job[op].tmp
               next == [job[op] EXCEPT !.tmp = tmp]
    <3>1. op \in Processes /\ JobShape(job[op])
      BY DEF BackupInv, ProcessesHold, Processes
    <3>2. JobShape(next) /\ next.next = job[op].next /\ next.hashes = job[op].hashes /\ next.tmp = tmp
      BY <3>1 DEF JobShape, Fields
    <3>3. Work(op, next) /\ pc' = pc
      BY <1>3 DEF LoseDisk, Work
    <3>4. pc[op] = "restored" => tmp.files \in Originals
      BY DEF NoCopy, Originals
    <3> HIDE DEF next, tmp
    <3> QED BY <3>1, <3>2, <3>3, <3>4 DEF BackupInv, ProcessesHold, Work, HoldsChecked, JobShape
  <2> QED BY <1>3, <2>1, <2>2, UnchangedCopies DEF LoseDisk, BackupInv, copies
<1>4. CASE Unmount \/ Mount \/ SessionEnds
  BY <1>4, UnchangedProcesses, UnchangedSource, UnchangedCopies
     DEF Unmount, Mount, SessionEnds, BackupInv, dataDir, copies, procs
<1>5. CASE \E p \in Processes : Dies(p)
  <2>1. ProcessesHold'
    BY <1>5, GoesOn, NoJobShape DEF Dies
  <2> QED BY <1>5, <2>1, UnchangedSource, UnchangedCopies DEF Dies, BackupInv, dataDir, copies
<1> QED BY <1>1, <1>2, <1>3, <1>4, <1>5 DEF Environment

LEMMA BackupStep ==
  ASSUME BackupInv, [Next]_vars
  PROVE  BackupInv'
<1>1. CASE Worker \/ Operator
  BY <1>1, JobStep, WorkerStep, RestoreStep DEF Worker, Operator, Processes
<1>2. CASE Commands \/ Environment
  BY <1>2, CommandStep, EnvironmentStep
<1>3. CASE UNCHANGED vars
  BY <1>3, UnchangedProcesses, UnchangedSource, UnchangedCopies
     DEF BackupInv, vars, dataDir, copies, procs
<1> QED BY <1>1, <1>2, <1>3 DEF Next

(* Bytes that decayed in a copy never come back through a restore, and a   *)
(* shard that does not match its manifest never becomes a copy: what a job *)
(* uses was verified whole, and is compared again where it was read twice  *)
(* (_check_source, _copy_item, restore_item).                              *)
THEOREM DamageStaysWhereItIs == Spec => []DamageDoesNotSpread
<1>1. BackupInv => DamageDoesNotSpread
  BY DEF BackupInv, SourcesHold, CopiesHold, Good, Originals, DamageDoesNotSpread
<1> QED BY BackupInit, BackupStep, <1>1, PTL DEF Spec

-----------------------------------------------------------------------------
(* A report never vouches for a copy longer than it was checked.           *)

Ages == {Never} \cup 0..Reverify

ReportFields == {"checked", "error", "success", "verified", "files", "errors"}

ReportShape(r) ==
    /\ r = [f \in ReportFields |-> r[f]]
    /\ r.verified = [i \in Items |-> r.verified[i]]

(* What r lists as verified was whole at that age or later, now passes     *)
(* having begun since r was begun.                                         *)
Vouches(r, now, at) ==
    /\ ReportShape(r)
    /\ \A i \in Items : /\ r.verified[i] \in Ages
                        /\ r.verified[i] # Never => at[i] <= Older(r.verified[i], now, Reverify)

Backing(p) == pc[p] \in {"item", "hashed", "copied"}

(* The report under way vouches for no more than the one that is stored:   *)
(* its ages are those of its start, and are counted on when it is stored.  *)
VouchInv ==
    /\ \A i \in Items : since[i] \in 0..Reverify
    /\ Vouches(report, 0, since)
    /\ \A p \in Processes : /\ job[p].now \in Nat
                            /\ Backing(p) => Vouches(job[p].report, job[p].now, since)

LEMMA BackupTypes == Reverify \in Nat /\ Never \in Int /\ Never < 0
BY BackupAssumption DEF Never

LEMMA VouchesLater ==
  ASSUME NEW r, NEW now \in Nat, NEW at, NEW later, Vouches(r, now, at),
         \A i \in Items : at[i] \in Nat /\ later[i] \in Nat /\ later[i] <= at[i]
  PROVE  Vouches(r, now, later)
BY BackupTypes DEF Vouches, Ages, Older

(* A pass ages what was whole by one, and what is stored by one.           *)
LEMMA VouchesOlder ==
  ASSUME NEW r, NEW now \in Nat, NEW at, NEW later, Vouches(r, now, at),
         \A i \in Items : /\ at[i] \in Nat /\ later[i] \in Nat
                          /\ later[i] <= Older(at[i], 1, Reverify)
  PROVE  Vouches(r, now + 1, later)
BY BackupTypes DEF Vouches, Ages, Older

LEMMA VouchesAged ==
  ASSUME NEW r, NEW now \in Nat, NEW at, Vouches(r, now, at), \A i \in Items : at[i] \in Nat
  PROVE  Vouches(Aged(r, now), 0, at)
<1> DEFINE aged == [i \in Items |-> Older(r.verified[i], now, Reverify)]
<1>1. Aged(r, now) = [r EXCEPT !.verified = aged, !.success = Older(@, now, BackupOverdue + 1)]
  BY DEF Aged
<1>2. ReportShape(Aged(r, now)) /\ Aged(r, now).verified = aged
  BY <1>1 DEF Vouches, ReportShape, ReportFields
<1>3. ASSUME NEW i \in Items
      PROVE  /\ aged[i] \in Ages
             /\ aged[i] # Never => at[i] <= Older(aged[i], 0, Reverify)
  BY <1>3, BackupTypes DEF Vouches, Ages, Older
<1> HIDE DEF aged
<1> QED BY <1>2, <1>3 DEF Vouches

LEMMA VouchesForgotten ==
  ASSUME NEW r, NEW now \in Nat, NEW at, NEW from, NEW upto, Vouches(r, now, at)
  PROVE  Vouches(Forget(r, from, upto), now, at)
<1> DEFINE left == [i \in Items |-> IF i \in from..upto THEN Never ELSE r.verified[i]]
<1>1. /\ ReportShape(Forget(r, from, upto))
      /\ Forget(r, from, upto).verified = left
  BY DEF Vouches, ReportShape, ReportFields, Forget
<1>2. ASSUME NEW i \in Items PROVE left[i] = Never \/ left[i] = r.verified[i]
  OBVIOUS
<1> HIDE DEF left
<1> QED BY <1>1, <1>2 DEF Vouches, Ages

(* The witness: what is whole counts from now, and only a pass ages.       *)
PassBegins == pc["worker"] = "idle" /\ pc'["worker"] # "idle"

LEMMA SinceStep ==
  ASSUME VouchInv, Witness, NEW i \in Items
  PROVE  /\ since[i] \in Nat /\ since'[i] \in 0..Reverify
         /\ Whole(Seen(i))' => since'[i] = 0
         /\ since'[i] <= Older(since[i], 1, Reverify)
         /\ ~PassBegins => since'[i] <= since[i]
<1>1. since'[i] = IF Whole(Seen(i))' THEN 0
                  ELSE IF PassBegins THEN Older(since[i], 1, Reverify) ELSE since[i]
  BY DEF Witness, PassBegins
<1>2. since[i] \in 0..Reverify
  BY DEF VouchInv
<1> QED BY <1>1, <1>2, BackupTypes DEF Older

(* Outside a pass's beginning, a report that is left alone vouches on.     *)
LEMMA ReportLeft ==
  ASSUME VouchInv, Witness, ~PassBegins, NEW r, NEW now \in Nat, Vouches(r, now, since)
  PROVE  Vouches(r, now, since')
<1>1. \A i \in Items : since[i] \in Nat /\ since'[i] \in Nat /\ since'[i] <= since[i]
  BY SinceStep, BackupTypes
<1> QED BY <1>1, VouchesLater

LEMMA ProcessLeft ==
  ASSUME VouchInv, Witness, ~PassBegins, NEW p \in Processes,
         pc'[p] = pc[p], job'[p].now = job[p].now, job'[p].report = job[p].report
  PROVE  job'[p].now \in Nat /\ (Backing(p)' => Vouches(job'[p].report, job'[p].now, since'))
<1>1. Backing(p)' => Backing(p)
  BY DEF Backing
<1> QED BY <1>1, ReportLeft DEF VouchInv

LEMMA ReportsStay ==
  ASSUME VouchInv, Witness, UNCHANGED <<report, pc, job>>
  PROVE  VouchInv'
<1>1. ~PassBegins
  BY DEF PassBegins
<1>2. \A i \in Items : since'[i] \in 0..Reverify
  BY SinceStep
<1>3. Vouches(report', 0, since')
  BY <1>1, ReportLeft DEF VouchInv
<1>4. ASSUME NEW p \in Processes
      PROVE  job'[p].now \in Nat /\ (Backing(p)' => Vouches(job'[p].report, job'[p].now, since'))
  BY <1>1, ProcessLeft
<1> QED BY <1>2, <1>3, <1>4 DEF VouchInv

(* One process steps and the others do not: what has to be shown of it.    *)
LEMMA OneSteps ==
  ASSUME VouchInv, Witness, ~PassBegins, NEW p \in Processes,
         \A q \in Processes \ {p} : pc'[q] = pc[q] /\ job'[q] = job[q],
         Vouches(report', 0, since'), job'[p].now \in Nat,
         Backing(p)' => Vouches(job'[p].report, job'[p].now, since')
  PROVE  VouchInv'
<1>1. \A i \in Items : since'[i] \in 0..Reverify
  BY SinceStep
<1>2. ASSUME NEW q \in Processes
      PROVE  job'[q].now \in Nat /\ (Backing(q)' => Vouches(job'[q].report, job'[q].now, since'))
  BY <1>2, ProcessLeft
<1> QED BY <1>1, <1>2 DEF VouchInv

LEMMA Moves ==
  ASSUME BackupInv, NEW p \in Processes, NEW at, NEW next, Goto(p, at), Work(p, next)
  PROVE  /\ pc'[p] = at /\ job'[p] = next
         /\ \A q \in Processes \ {p} : pc'[q] = pc[q] /\ job'[q] = job[q]
BY DEF BackupInv, ProcessesHold, Goto, Work

LEMMA Works ==
  ASSUME BackupInv, NEW p \in Processes, NEW next, pc' = pc, Work(p, next)
  PROVE  /\ pc'[p] = pc[p] /\ job'[p] = next
         /\ \A q \in Processes \ {p} : pc'[q] = pc[q] /\ job'[q] = job[q]
BY DEF BackupInv, ProcessesHold, Work

LEMMA NoPass ==
  ASSUME NEW p \in Processes, pc[p] # "idle" \/ pc'[p] = "idle" \/ p = "operator",
         \A q \in Processes \ {p} : pc'[q] = pc[q]
  PROVE  ~PassBegins
BY DEF PassBegins, Processes

(* A process that goes on to where it backs nothing up.                    *)
LEMMA VouchesElsewhere ==
  ASSUME BackupInv, VouchInv, Witness, NEW p \in Processes, NEW at, NEW next,
         pc[p] # "idle" \/ at = "idle" \/ p = "operator",
         Goto(p, at), Work(p, next), next.now \in Nat,
         at \notin {"item", "hashed", "copied"}, report' = report \/ Vouches(report', 0, since)
  PROVE  VouchInv'
<1>1. /\ pc'[p] = at /\ job'[p] = next
      /\ \A q \in Processes \ {p} : pc'[q] = pc[q] /\ job'[q] = job[q]
  BY Moves
<1>2. ~PassBegins
  BY <1>1, NoPass
<1>3. Vouches(report', 0, since')
  BY <1>2, ReportLeft DEF VouchInv
<1> QED BY <1>1, <1>2, <1>3, OneSteps DEF Backing

LEMMA VouchesThen ==
  ASSUME BackupInv, VouchInv, Witness, NEW p \in Processes, NEW at, pc[p] # "idle", Then(p, at),
         at \notin {"item", "hashed", "copied"}, report' = report \/ Vouches(report', 0, since)
  PROVE  VouchInv'
<1>1. NoJob.now \in Nat
  BY DEF NoJob
<1>2. CASE p = "worker"
  BY <1>1, <1>2, VouchesElsewhere DEF Then
<1>3. CASE p # "worker"
  BY <1>1, <1>3, VouchesElsewhere DEF Then
<1> QED BY <1>2, <1>3

(* A process that goes on with a backup.                                   *)
LEMMA VouchesOn ==
  ASSUME BackupInv, VouchInv, Witness, NEW p \in Processes, pc[p] # "idle",
         NEW at, NEW next, Goto(p, at), Work(p, next), next.now \in Nat,
         Vouches(next.report, next.now, since'), report' = report
  PROVE  VouchInv'
<1>1. /\ pc'[p] = at /\ job'[p] = next
      /\ \A q \in Processes \ {p} : pc'[q] = pc[q] /\ job'[q] = job[q]
  BY Moves
<1>2. ~PassBegins
  BY <1>1, NoPass
<1>3. Vouches(report', 0, since')
  BY <1>2, ReportLeft DEF VouchInv
<1> QED BY <1>1, <1>2, <1>3, OneSteps

LEMMA ItemFails ==
  ASSUME BackupInv, VouchInv, Witness, NEW p \in Processes, Backing(p), NEW i, NEW kind,
         Failed(p, i, kind), report' = report
  PROVE  VouchInv'
<1> DEFINE forgot == Forget(job[p].report, job[p].next, i)
           failed == [forgot EXCEPT !.errors[i] = kind]
           next == [job[p] EXCEPT !.next = i + 1, !.hashes = "absent", !.tmp = NoCopy,
                      !.report = failed]
<1>1. JobShape(job[p]) /\ job[p].now \in Nat /\ Vouches(job[p].report, job[p].now, since)
  BY DEF BackupInv, ProcessesHold, VouchInv
<1>2. Goto(p, "item") /\ Work(p, next)
  BY DEF Failed
<1>3. next.now = job[p].now /\ next.report = failed
  BY <1>1 DEF JobShape, Fields
<1>4. Vouches(forgot, job[p].now, since)
  BY <1>1, VouchesForgotten
<1> HIDE DEF forgot
<1>5. Vouches(failed, job[p].now, since)
  BY <1>4 DEF Vouches, ReportShape, ReportFields
<1>6. ~PassBegins
  BY <1>2, Moves, NoPass DEF Backing
<1>7. Vouches(failed, job[p].now, since')
  BY <1>1, <1>5, <1>6, ReportLeft
<1> HIDE DEF next, failed
<1> QED BY <1>1, <1>2, <1>3, <1>7, VouchesOn DEF Backing

(* What is verified now is whole now.                                      *)
LEMMA ItemVerified ==
  ASSUME BackupInv, VouchInv, Witness, NEW p \in Processes, Backing(p), NEW i, NEW files,
         Verified(p, i, files), report' = report, i \in Items => Whole(Seen(i))'
  PROVE  VouchInv'
<1> DEFINE reached == Forget(job[p].report, job[p].next, i - 1)
           done == [reached EXCEPT !.verified[i] = 0, !.files[i] = files]
           next == [job[p] EXCEPT !.next = i + 1, !.hashes = "absent", !.tmp = NoCopy,
                      !.report = done]
<1>1. JobShape(job[p]) /\ job[p].now \in Nat /\ Vouches(job[p].report, job[p].now, since)
  BY DEF BackupInv, ProcessesHold, VouchInv
<1>2. Goto(p, "item") /\ Work(p, next)
  BY DEF Verified, Reaches
<1>3. next.now = job[p].now /\ next.report = done
  BY <1>1 DEF JobShape, Fields
<1>4. ~PassBegins
  BY <1>2, Moves, NoPass DEF Backing
<1>5. Vouches(reached, job[p].now, since')
  BY <1>1, <1>4, VouchesForgotten, ReportLeft
<1>6. i \in Items => since'[i] = 0
  BY SinceStep
<1> HIDE DEF reached
<1>7. Vouches(done, job[p].now, since')
  <2>1. ReportShape(done)
    BY <1>5 DEF Vouches, ReportShape, ReportFields
  <2>2. ASSUME NEW k \in Items
        PROVE  done.verified[k] = IF k = i THEN 0 ELSE reached.verified[k]
    BY <1>5 DEF Vouches, ReportShape, ReportFields
  <2>3. 0 \in Ages /\ 0 # Never /\ 0 <= Older(0, job[p].now, Reverify)
    BY <1>1, BackupTypes DEF Ages, Older
  <2> HIDE DEF done
  <2> QED BY <1>5, <1>6, <2>1, <2>2, <2>3 DEF Vouches
<1> HIDE DEF next, done
<1> QED BY <1>1, <1>2, <1>3, <1>7, VouchesOn DEF Backing

LEMMA NextReportVouches ==
  ASSUME VouchInv
  PROVE  Vouches(NextReport, 0, since)
BY DEF VouchInv, Vouches, ReportShape, ReportFields, NextReport

LEMMA NoReportVouches == ASSUME NEW at PROVE Vouches(NoReport, 0, at)
BY DEF NoReport, Vouches, ReportShape, ReportFields, Ages

LEMMA JobVouches ==
  ASSUME BackupInv, VouchInv, Witness, NEW p \in Processes, Job(p)
  PROVE  VouchInv'
<1>1. JobShape(job[p]) /\ job[p].now \in Nat
  BY DEF BackupInv, ProcessesHold, VouchInv
<1>2. CASE StartBackup(p)
  <2>1. CASE mounted
    <3> DEFINE next == [job[p] EXCEPT !.report = NextReport, !.now = 0]
    <3>1. Work(p, next) /\ Goto(p, "item") /\ report' = report /\ pc[p] = "backup"
      BY <1>2, <2>1 DEF StartBackup
    <3>2. next.now = 0 /\ next.report = NextReport
      BY <1>1 DEF JobShape, Fields
    <3>3. ~PassBegins
      BY <3>1, Moves, NoPass
    <3>4. Vouches(NextReport, 0, since')
      BY <3>3, NextReportVouches, ReportLeft
    <3> HIDE DEF next
    <3> QED BY <3>1, <3>2, <3>4, VouchesOn
  <2>2. CASE ~mounted
    <3> DEFINE failed == [NoReport EXCEPT !.checked = TRUE, !.error = TRUE, !.success = NextReport.success]
    <3>1. report' = failed /\ Then(p, "verify") /\ pc[p] = "backup"
      BY <1>2, <2>2 DEF StartBackup
    <3>2. Vouches(failed, 0, since)
      BY NoReportVouches DEF Vouches, ReportShape, ReportFields
    <3> HIDE DEF failed
    <3> QED BY <3>1, <3>2, VouchesThen
  <2> QED BY <2>1, <2>2
<1>3. CASE SkipItem(p) \/ CheckSource(p)
  <2> DEFINE i == Min(Remaining(p))
             reached == Forget(job[p].report, job[p].next, i - 1)
  <2>1. pc[p] = "item" /\ Backing(p) /\ report' = report
    BY <1>3 DEF SkipItem, CheckSource, Backing, dataDir
  <2>2. Vouches(reached, job[p].now, since)
    BY <1>1, <2>1, VouchesForgotten DEF VouchInv
  <2>3. CASE CheckSource(p) /\ ~SourceMatches(i)
    BY <2>1, <2>3, ItemFails DEF CheckSource
  <2>4. CASE SkipItem(p) \/ SourceMatches(i)
    <3>1. \E at, next : /\ Goto(p, at) /\ Work(p, next)
                        /\ next.now = job[p].now /\ next.report = reached
      <4>1. CASE SkipItem(p)
        <5>1. Goto(p, "item")
          BY <2>1, <4>1 DEF SkipItem, Goto, BackupInv, ProcessesHold
        <5> DEFINE next == [job[p] EXCEPT !.next = i + 1, !.report = reached]
        <5>2. Work(p, next)
          BY <4>1 DEF SkipItem, KeepsPrior, Reaches
        <5>3. next.now = job[p].now /\ next.report = reached
          BY <1>1 DEF JobShape, Fields
        <5> HIDE DEF next, reached
        <5> QED BY <5>1, <5>2, <5>3
      <4>2. CASE CheckSource(p) /\ SourceMatches(i)
        <5> DEFINE next == [job[p] EXCEPT !.next = i, !.hashes = source[i], !.report = reached]
        <5>1. Work(p, next) /\ Goto(p, "hashed")
          BY <4>2 DEF CheckSource, Reaches
        <5>2. next.now = job[p].now /\ next.report = reached
          BY <1>1 DEF JobShape, Fields
        <5> HIDE DEF next, reached
        <5> QED BY <5>1, <5>2
      <4> HIDE DEF i, reached
      <4> QED BY <1>3, <2>4, <4>1, <4>2
    <3>2. PICK at, next : /\ Goto(p, at) /\ Work(p, next)
                          /\ next.now = job[p].now /\ next.report = reached
      BY <3>1
    <3>3. ~PassBegins
      BY <2>1, <3>2, Moves, NoPass
    <3>4. Vouches(reached, job[p].now, since')
      BY <1>1, <2>2, <3>3, ReportLeft
    <3> HIDE DEF reached
    <3> QED BY <1>1, <2>1, <3>2, <3>4, VouchesOn
  <2> HIDE DEF i
  <2> QED BY <1>3, <2>3, <2>4
<1>4. CASE CheckCopy(p)
  <2>1. Backing(p) /\ report' = report
    BY <1>4 DEF CheckCopy, Backing, dataDir
  <2>2. CASE VerifyCopy(Seen(job[p].next), job[p].hashes)
    <3>1. Verified(p, job[p].next, job[p].hashes)
      BY <1>4, <2>2 DEF CheckCopy
    <3>2. Whole(Seen(job[p].next)) /\ UNCHANGED copies
      BY <1>4, <2>2 DEF CheckCopy, VerifyCopy
    <3>3. UNCHANGED <<volume, shadow, mounted>>
      BY <3>2 DEF copies
    <3>4. job[p].next \in Items => \A i \in Items : i = job[p].next => Whole(Seen(i))'
      BY <3>2, <3>3 DEF Whole, Seen
    <3> QED BY <2>1, <3>1, <3>4, ItemVerified
  <2>3. CASE ~VerifyCopy(Seen(job[p].next), job[p].hashes)
    BY <1>4, <2>1, <2>3, ItemFails DEF CheckCopy
  <2> QED BY <2>2, <2>3
<1>5. CASE CopyItem(p)
  <2>1. pc[p] = "hashed" /\ Backing(p) /\ report' = report
    BY <1>5 DEF CopyItem, Backing, dataDir
  <2>2. CASE job[p].next \notin Present
    BY <1>5, <2>1, <2>2, ItemFails DEF CopyItem
  <2>3. CASE job[p].next \in Present
    <3> DEFINE tmp == [files |-> source[job[p].next], sums |-> job[p].hashes, on |-> mounted]
               next == [job[p] EXCEPT !.tmp = tmp]
    <3>1. Work(p, next) /\ Goto(p, "copied")
      BY <1>5, <2>3 DEF CopyItem
    <3>2. next.now = job[p].now /\ next.report = job[p].report
      BY <1>1 DEF JobShape, Fields
    <3> HIDE DEF next
    <3>3. ~PassBegins
      BY <2>1, <3>1, Moves, NoPass
    <3>4. Vouches(job[p].report, job[p].now, since')
      BY <1>1, <2>1, <3>3, ReportLeft DEF VouchInv
    <3> QED BY <1>1, <2>1, <3>1, <3>2, <3>4, VouchesOn
  <2> QED BY <2>2, <2>3
<1>6. CASE PublishCopy(p)
  <2> DEFINE i == job[p].next
  <2>1. Backing(p) /\ report' = report /\ mounted' = mounted
    BY <1>6 DEF PublishCopy, Backing, dataDir
  <2>2. CASE ~(VerifyCopy(Tmp(p), job[p].hashes) /\ Seen(i) = NoCopy)
    BY <1>6, <2>1, <2>2, ItemFails DEF PublishCopy
  <2>3. CASE VerifyCopy(Tmp(p), job[p].hashes) /\ Seen(i) = NoCopy
    <3>1. Verified(p, i, job[p].hashes)
      BY <1>6, <2>3 DEF PublishCopy
    <3>2. ASSUME NEW k \in Items, k = i PROVE Whole(Seen(k))'
      <4>1. Seen(k)' = Tmp(p)
        BY <1>6, <2>1, <2>3, <3>2 DEF PublishCopy, Seen, BackupInv, CopiesHold
      <4>2. Whole(Tmp(p))
        BY <2>3 DEF VerifyCopy
      <4> QED BY <4>1, <4>2 DEF Whole
    <3> QED BY <2>1, <3>1, <3>2, ItemVerified
  <2> QED BY <2>2, <2>3
<1>7. CASE EndBackup(p)
  <2> DEFINE done == Forget(job[p].report, job[p].next, NumItems)
             success == IF \A i \in Items : done.errors[i] = "none" THEN 0 ELSE done.success
             ended == [done EXCEPT !.success = success]
  <2>1. /\ pc[p] = "item" /\ Backing(p) /\ Then(p, "verify")
        /\ report' = Aged(ended, job[p].now)
    BY <1>7 DEF EndBackup, Backing
  <2>2. Vouches(done, job[p].now, since)
    BY <1>1, <2>1, VouchesForgotten DEF VouchInv
  <2> HIDE DEF done
  <2>3. Vouches(ended, job[p].now, since)
    BY <2>2 DEF Vouches, ReportShape, ReportFields
  <2>4. \A i \in Items : since[i] \in Nat
    BY SinceStep
  <2> HIDE DEF ended
  <2>5. Vouches(report', 0, since)
    BY <1>1, <2>1, <2>3, <2>4, VouchesAged
  <2> QED BY <2>1, <2>5, VouchesThen
<1>8. CASE StartRecoveryTest(p)
  <2> DEFINE next == [job[p] EXCEPT !.report = report, !.names = Chosen(Protected(report))]
  <2>1. pc[p] = "test" /\ report' = report
    BY <1>8 DEF StartRecoveryTest
  <2>2. (Work(p, next) /\ Goto(p, "testing")) \/ Then(p, "status")
    BY <1>8 DEF StartRecoveryTest
  <2>3. next.now = job[p].now
    BY <1>1 DEF JobShape, Fields
  <2> HIDE DEF next
  <2> QED BY <1>1, <2>1, <2>2, <2>3, VouchesElsewhere, VouchesThen
<1>9. CASE TestItem(p)
  <2>1. PICK names, bad : Work(p, [job[p] EXCEPT !.names = names, !.bad = bad])
    BY <1>9 DEF TestItem
  <2> DEFINE next == [job[p] EXCEPT !.names = names, !.bad = bad]
  <2>2. next.now = job[p].now
    BY <1>1 DEF JobShape, Fields
  <2>3. pc[p] = "testing" /\ report' = report /\ Goto(p, "testing")
    BY <1>9 DEF TestItem, dataDir, Goto, BackupInv, ProcessesHold
  <2> HIDE DEF next
  <2>4. Work(p, next)
    BY <2>1 DEF next
  <2> QED BY <1>1, <2>2, <2>3, <2>4, VouchesElsewhere
<1>10. CASE EndRecoveryTest(p)
  BY <1>10, VouchesThen DEF EndRecoveryTest
<1> QED
  BY <1>2, <1>3, <1>4, <1>5, <1>6, <1>7, <1>8, <1>9, <1>10 DEF Job

(* The rest of a worker's pass; its beginning is what ages reports.        *)
LEMMA WorkerVouches ==
  ASSUME BackupInv, VouchInv, Witness,
         BeginPass \/ LosesLock \/ GenerateDay \/ Generated \/ RunVerification \/ NotDue
           \/ StatusFails \/ WriteStatus
  PROVE  VouchInv'
<1> DEFINE w == "worker"
           op == "operator"
<1>1. /\ w \in Processes /\ op \in Processes /\ JobShape(job[w]) /\ JobShape(job[op])
      /\ job[w].now \in Nat /\ job[op].now \in Nat /\ NoJob.now \in Nat
  BY DEF BackupInv, ProcessesHold, VouchInv, Processes, NoJob
<1>2. CASE LosesLock \/ Generated
  BY <1>1, <1>2, VouchesThen DEF LosesLock, Generated, dataDir
<1>3. CASE GenerateDay \/ RunVerification
  <2>1. report' = report /\ pc[w] \in {"generate", "verify"}
    BY <1>3 DEF GenerateDay, RunVerification
  <2>2. \/ \E n : pc' = pc /\ Work(w, [job[w] EXCEPT !.next = n])
        \/ Goto(w, "test") /\ Work(w, NoJob)
    BY <1>3 DEF GenerateDay, RunVerification
  <2>3. CASE Goto(w, "test") /\ Work(w, NoJob)
    BY <1>1, <2>1, <2>3, VouchesElsewhere
  <2>4. ASSUME NEW n, pc' = pc, Work(w, [job[w] EXCEPT !.next = n]) PROVE VouchInv'
    <3> DEFINE next == [job[w] EXCEPT !.next = n]
    <3>1. next.now = job[w].now
      BY <1>1 DEF JobShape, Fields
    <3>2. Goto(w, pc[w])
      BY <2>4 DEF Goto, BackupInv, ProcessesHold
    <3> HIDE DEF next
    <3>3. Work(w, next)
      BY <2>4 DEF next
    <3> QED BY <1>1, <2>1, <3>1, <3>2, <3>3, VouchesElsewhere
  <2> QED BY <2>2, <2>3, <2>4
<1>4. CASE NotDue \/ StatusFails \/ WriteStatus
  <2>1. /\ report' = report /\ pc[w] \in {"test", "status"}
        /\ \/ Goto(w, "status") /\ Work(w, job[w])
           \/ Goto(w, "idle") /\ Work(w, NoJob)
    BY <1>4 DEF NotDue, StatusFails, WriteStatus, dataDir, Work, BackupInv, ProcessesHold
  <2> QED BY <1>1, <2>1, VouchesElsewhere
<1>5. CASE BeginPass
  <2>1. \A i \in Items : /\ since[i] \in Nat /\ since'[i] \in Nat /\ since'[i] \in 0..Reverify
                         /\ since'[i] <= Older(since[i], 1, Reverify)
    BY SinceStep, BackupTypes
  <2>2. Vouches(report', 0, since')
    <3>1. Vouches(report, 1, since')
      BY <2>1, VouchesOlder DEF VouchInv
    <3> QED BY <1>5, <2>1, <3>1, VouchesAged DEF BeginPass
  <2>3. ASSUME NEW p \in Processes
        PROVE  job'[p].now \in Nat /\ (Backing(p)' => Vouches(job'[p].report, job'[p].now, since'))
    <3>1. Backing(p)' => p = op /\ pc'[op] = pc[op] /\ Backing(op)
      BY <1>1, <1>5 DEF BeginPass, Goto, Backing, Processes, BackupInv, ProcessesHold
    <3> DEFINE next == [job[op] EXCEPT !.now = @ + 1]
    <3>2. next.now = job[op].now + 1 /\ next.report = job[op].report
      BY <1>1 DEF JobShape, Fields
    <3>3. IF pc[op] = "idle" THEN job' = job ELSE Work(op, next)
      BY <1>5 DEF BeginPass
    <3> HIDE DEF next
    <3>4. job'[p].now \in Nat
      BY <1>1, <3>2, <3>3 DEF Work, BackupInv, ProcessesHold, VouchInv
    <3>5. Backing(op) => job'[op].report = job[op].report /\ job'[op].now = job[op].now + 1
      BY <1>1, <3>2, <3>3 DEF Work, BackupInv, ProcessesHold, Backing
    <3>6. Backing(op) => Vouches(job[op].report, job[op].now + 1, since')
      BY <1>1, <2>1, VouchesOlder DEF VouchInv
    <3> QED BY <3>1, <3>4, <3>5, <3>6
  <2> QED BY <2>1, <2>2, <2>3 DEF VouchInv
<1> QED BY <1>2, <1>3, <1>4, <1>5

LEMMA OperatorVouches ==
  ASSUME BackupInv, VouchInv, Witness,
         RestoreVerify \/ RestoreCopy \/ RestorePublish \/ Commands
  PROVE  VouchInv'
<1> DEFINE op == "operator"
<1>1. /\ op \in Processes /\ JobShape(job[op]) /\ job[op].now \in Nat
      /\ JobShape(NoJob) /\ NoJob.now = 0
  BY NoJobShape DEF BackupInv, ProcessesHold, VouchInv, Processes, NoJob
<1>2. CASE RestoreVerify \/ RestoreCopy \/ RestorePublish
  <2>1. report' = report /\ pc[op] \in {"restore", "restoring", "restored"}
    BY <1>2 DEF RestoreVerify, RestoreCopy, RestorePublish, dataDir
  <2>2. CASE Quit
    BY <1>1, <2>1, <2>2, VouchesThen DEF Quit
  <2>3. CASE ~Quit
    <3>1. CASE RestoreVerify
      <4> DEFINE next == [job[op] EXCEPT !.hashes = Seen(job[op].next).files]
      <4>1. Work(op, next) /\ Goto(op, "restoring")
        BY <2>3, <3>1 DEF RestoreVerify
      <4>2. next.now = job[op].now
        BY <1>1 DEF JobShape, Fields
      <4> HIDE DEF next
      <4> QED BY <1>1, <2>1, <4>1, <4>2, VouchesElsewhere
    <3>2. CASE RestoreCopy
      <4> DEFINE next == [job[op] EXCEPT !.tmp = Seen(job[op].next)]
      <4>1. Work(op, next) /\ Goto(op, "restored")
        BY <2>3, <3>2 DEF RestoreCopy
      <4>2. next.now = job[op].now
        BY <1>1 DEF JobShape, Fields
      <4> HIDE DEF next
      <4> QED BY <1>1, <2>1, <4>1, <4>2, VouchesElsewhere
    <3> QED BY <1>2, <2>3, <3>1, <3>2 DEF RestorePublish
  <2> QED BY <2>2, <2>3
<1>3. ASSUME NEW at \in {"backup", "test", "restore"}, NEW next, Command(at, next), next.now \in Nat
      PROVE  VouchInv'
  BY <1>1, <1>3, VouchesElsewhere DEF Command, dataDir
<1>4. CASE OperatorBackup
  <2>1. PICK all \in BOOLEAN : Command("backup", [NoJob EXCEPT !.all = all])
    BY <1>4 DEF OperatorBackup
  <2> DEFINE next == [NoJob EXCEPT !.all = all]
  <2>2. next.now = 0 /\ 0 \in Nat
    BY <1>1 DEF JobShape, Fields
  <2> HIDE DEF next
  <2>3. Command("backup", next)
    BY <2>1 DEF next
  <2> QED BY <1>3, <2>2, <2>3
<1>5. CASE OperatorTest
  BY <1>1, <1>3, <1>5 DEF OperatorTest
<1>6. CASE OperatorRestore
  <2>1. PICK i \in Items : Command("restore", [NoJob EXCEPT !.next = i])
    BY <1>6 DEF OperatorRestore
  <2> DEFINE next == [NoJob EXCEPT !.next = i]
  <2>2. next.now = 0 /\ 0 \in Nat
    BY <1>1 DEF JobShape, Fields
  <2> HIDE DEF next
  <2>3. Command("restore", next)
    BY <2>1 DEF next
  <2> QED BY <1>3, <2>2, <2>3
<1>7. CASE RemoveDamaged
  <2>1. report' = report /\ UNCHANGED <<pc, job>>
    BY <1>7 DEF RemoveDamaged, procs
  <2> QED BY <2>1, ReportsStay
<1> QED BY <1>2, <1>4, <1>5, <1>6, <1>7 DEF Commands

LEMMA EnvironmentVouches ==
  ASSUME BackupInv, VouchInv, Witness, Environment
  PROVE  VouchInv'
<1> DEFINE op == "operator"
<1>1. op \in Processes /\ JobShape(job[op]) /\ job[op].now \in Nat
  BY DEF BackupInv, ProcessesHold, VouchInv, Processes
<1>2. CASE \E p \in Processes : Dies(p)
  <2>1. PICK p \in Processes : Dies(p)
    BY <1>2
  <2>2. pc[p] # "idle" /\ Goto(p, "idle") /\ Work(p, NoJob) /\ report' = report /\ NoJob.now \in Nat
    BY <2>1 DEF Dies, dataDir, NoJob
  <2> QED BY <2>2, VouchesElsewhere
<1>3. CASE SourceRots \/ CopyRots \/ Unmount \/ Mount \/ SessionEnds
  <2>1. report' = report /\ UNCHANGED <<pc, job>>
    BY <1>3 DEF SourceRots, CopyRots, Unmount, Mount, SessionEnds, procs, dataDir
  <2> QED BY <2>1, ReportsStay
<1>4. CASE LoseDisk
  <2> DEFINE tmp == IF pc[op] = "restored" THEN NoCopy ELSE job[op].tmp
             next == [job[op] EXCEPT !.tmp = tmp]
  <2>1. pc' = pc /\ report' = NoReport /\ Work(op, next)
    BY <1>4 DEF LoseDisk, Work
  <2>2. next.now = job[op].now /\ next.report = job[op].report
    BY <1>1 DEF JobShape, Fields
  <2> HIDE DEF next
  <2>3. /\ pc'[op] = pc[op] /\ job'[op] = next
        /\ \A q \in Processes \ {op} : pc'[q] = pc[q] /\ job'[q] = job[q]
    BY <1>1, <2>1, Works
  <2>4. ~PassBegins
    BY <2>1 DEF PassBegins
  <2> QED BY <1>1, <2>1, <2>2, <2>3, <2>4, NoReportVouches, OneSteps, ProcessLeft
<1> QED BY <1>2, <1>3, <1>4 DEF Environment

LEMMA VouchStep ==
  ASSUME BackupInv, VouchInv, [Next]_vars
  PROVE  VouchInv'
<1>1. CASE (Worker \/ Operator) /\ Witness
  BY <1>1, JobVouches, WorkerVouches, OperatorVouches DEF Worker, Operator, Processes
<1>2. CASE (Commands \/ Environment) /\ Witness
  BY <1>2, OperatorVouches, EnvironmentVouches
<1>3. CASE UNCHANGED vars
  <2>1. UNCHANGED <<report, pc, job, since>>
    BY <1>3 DEF vars, dataDir, procs
  <2> QED BY <2>1 DEF VouchInv, Backing
<1> QED BY <1>1, <1>2, <1>3 DEF Next

(* Whatever a report lists as verified an age ago was a whole copy at the  *)
(* destination at that age or later: whichever of two processes wrote the  *)
(* report, however many passes began while it went through the items, and  *)
(* whatever rotted, was lost, unmounted or restored meanwhile.             *)
THEOREM ReportsVouchForCopies == Spec => []VerifiedWasWhole
<1>1. Init => VouchInv
  <2> SUFFICES ASSUME Init PROVE VouchInv
    OBVIOUS
  <2>1. \A i \in Items : since[i] \in 0..Reverify
    BY BackupTypes DEF Init
  <2>2. report = NoReport /\ \A p \in Processes : job[p] = NoJob /\ ~Backing(p)
    BY DEF Init, Backing
  <2> QED BY <2>1, <2>2, NoReportVouches DEF VouchInv, NoJob
<1>2. VouchInv => VerifiedWasWhole
  BY BackupTypes DEF VouchInv, Vouches, Ages, Older, VerifiedWasWhole, Protected
<1> QED BY BackupInit, BackupStep, <1>1, <1>2, VouchStep, PTL DEF Spec
=============================================================================
