------------------------ MODULE ProspectiveEvaluation ------------------------
(***************************************************************************)
(* Prospective evaluation: reserving future UTC days for a registration,   *)
(* its exposure log, the evaluation that reads the reserved outcomes, the  *)
(* research commands that must not, and the knowledge ledger derived from  *)
(* the runs.  Covers app.research.reservations, prospective,               *)
(* truffle_evaluation (lifecycle), runs and the ledger's derivation.       *)
(*                                                                         *)
(* Days are numbers; the shard of day d also reads the first hours of day  *)
(* d + 1 (its labels' horizon), and the embargo of four hours is rounded   *)
(* up to a whole day, as the code does.                                    *)
(***************************************************************************)
EXTENDS EvidenceRules, Sequences, SequencesExt

CONSTANTS
    Proposals,   \* registrations: [id, kind, claims, supersedes, parts],
                 \* parts a function from the roles to [from, to]
    Reports,     \* claim -> what the data of a whole period may show of it
    Evaluators,  \* evaluation commands that may run at the same time
    LastDay,     \* bound: the last day of the model
    ShardDays,   \* bound: the days that have data
    MaxAttempts, \* bound: evaluations begun
    MaxCrashes,  \* bound: evaluation processes killed
    MaxStudies,  \* bound: research commands run
    StudyDays    \* bound: the days whose outcomes they read

EmbargoDays == 1
ReadyAfter == 2   \* days after which missing shards no longer block
None == "none"

ASSUME ProspectiveAssumption ==
    /\ LastDay \in Nat /\ MaxAttempts \in Nat /\ MaxCrashes \in Nat
    /\ MaxStudies \in Nat /\ ShardDays \cup StudyDays \subseteq 0..LastDay
    /\ \A p \in Proposals : \A claim \in Range(p.claims) :
          Reports[claim] \subseteq
              [verdict : {"positive_evidence", "negative_evidence", "inconclusive",
                          "insufficient_data"},
               adjusted : {<<>>} \cup (Int \X Int)]
    /\ \A p \in Proposals :
          /\ p.kind \in {"campaign", "truffle"}
          /\ DOMAIN p.parts \in {{"validation"}, {"validation", "holdout"}}
          /\ \A role \in DOMAIN p.parts : p.parts[role] \in [from : Nat, to : Nat]
          /\ p.claims \in Seq(Range(p.claims)) /\ p.claims # <<>>
          /\ \A q \in Proposals : q.id = p.id => q = p   \* a directory's name

VARIABLES
    clock,     \* today
    shards,    \* the days whose shard the continuity worker has published
    regs,      \* registered id -> the shards that existed then
    log,       \* registered id -> its exposure events, in order
    runs,      \* run records
    ledger,    \* the latest knowledge revision
    models,    \* the latest model knowledge revisions
    job,       \* evaluator -> its evaluation
    study,     \* a research command between its check and its read
    looks,     \* history: [day, by], the outcome labels read so far
    fresh,     \* history: attempts started before anybody looked
    overlapped, \* history: two evaluations of one period ran together
    attempts, crashes, studies

vars == <<clock, shards, regs, log, runs, ledger, models, job, study, looks,
          fresh, overlapped, attempts, crashes, studies>>
evaluation == <<log, runs, job, looks, fresh, overlapped, attempts, crashes>>

Registered == DOMAIN regs
Proposal(id) == CHOOSE p \in Proposals : p.id = id
Roles(id) == DOMAIN Proposal(id).parts
Part(id, role) == Proposal(id).parts[role]
DaysOf(p) == p.from..(p.to - 1)
Claims(id) == Range(Proposal(id).claims)
Idle == [pc |-> "idle"]
NoStudy == [kind |-> "none"]
NoRun == [kind |-> "none"]
Policies == UNION {Range(p.claims) : p \in {x \in Proposals : x.kind = "truffle"}}
Claimed == UNION {Range(p.claims) : p \in {x \in Proposals : x.kind = "campaign"}}

Overlap(p, q) == p.from < q.to /\ q.from < p.to
\* The outcome window of a day's dataset reaches into the partition.
Touches(day, p) == day < p.to /\ p.from <= day + 1

-----------------------------------------------------------------------------
(* The exposure log *)

Attempts(id, role) == {e.attempt : e \in {x \in Range(log[id]) : x.role = role}}
TypesOf(id, a) == {e.type : e \in {x \in Range(log[id]) : x.attempt = a}}
Outcome(id, a) ==
    LET types == TypesOf(id, a)
    IN  CASE "completed" \in types -> "completed"
          [] "completed" \notin types /\ "failed" \in types ->
                 IF "started" \in types THEN "failed" ELSE "failed_before_exposure"
          [] OTHER ->
                 IF "started" \in types THEN "exposure_uncertain"
                 ELSE "authorized_only"

\* Mutant of Exposed: an attempt that never reported back is not exposure.
ExposedReported(id, role) ==
    \E a \in Attempts(id, role) : Outcome(id, a) \in {"completed", "failed"}
Exposed(id, role) ==
    \E a \in Attempts(id, role) :
        Outcome(id, a) \notin {"authorized_only", "failed_before_exposure"}

Completed(id, role) ==
    \E a \in Attempts(id, role) : Outcome(id, a) = "completed"

\* Partitions whose evaluation has not completed.
Reserved ==
    UNION {{<<id, role>> : role \in {r \in Roles(id) : ~Completed(id, r)}} :
           id \in Registered}

Granted(j) ==
    /\ "started" \in TypesOf(j.reg, j.attempt)
    /\ TypesOf(j.reg, j.attempt) \cap {"completed", "failed"} = {}

\* check_access: no dataset may reach into reserved data, except the one of
\* a live grant.
MayRead(days, grants) ==
    \A d \in days : \A r \in Reserved :
        Touches(d, Part(r[1], r[2])) => r \in grants

-----------------------------------------------------------------------------
(* Registration *)

\* Mutant of EarliestStart: without the embargo.
EarliestStartToday(day) == day
EarliestStart(day) == day + EmbargoDays

PartitionProblems(p) ==
    LET v == p.parts["validation"]
    IN  \/ v.from < EarliestStart(clock)
        \/ \E role \in DOMAIN p.parts : p.parts[role].to <= p.parts[role].from
        \/ /\ "holdout" \in DOMAIN p.parts
           /\ p.parts["holdout"].from - v.to < EmbargoDays

\* Truffle registrations keep the embargo from every other registration.
ReservationConflicts(p) ==
    \E role \in DOMAIN p.parts, id \in Registered : \E other \in Roles(id) :
        /\ p.parts[role].from < Part(id, other).to + EmbargoDays
        /\ Part(id, other).from < p.parts[role].to + EmbargoDays

Register(p) ==
    /\ p.id \notin Registered
    /\ p.kind = "truffle" => ~ReservationConflicts(p)
    /\ ~PartitionProblems(p)
    /\ p.supersedes # None => p.supersedes \in Registered
    /\ \A d \in shards, role \in DOMAIN p.parts : ~Touches(d, p.parts[role])
    /\ regs' = [id \in Registered \cup {p.id} |->
                    IF id = p.id THEN shards ELSE regs[id]]
    /\ log' = [id \in Registered \cup {p.id} |->
                   IF id = p.id THEN <<>> ELSE log[id]]
    /\ UNCHANGED <<clock, shards, runs, ledger, models, job, study, looks, fresh,
                   overlapped, attempts, crashes, studies>>

-----------------------------------------------------------------------------
(* Evaluation *)

Eligible(id, role) ==
    LET p == Part(id, role)
    IN  \/ Attempts(id, role) # {}
        \/ clock >= p.to + (IF DaysOf(p) \subseteq shards THEN 0 ELSE ReadyAfter)

Present(id, role) == DaysOf(Part(id, role)) \cap shards

\* The registrations connected through supersedes.
Lineage(id) ==
    LET links == {p \in Proposals : p.id \in Registered /\ p.kind = "campaign"
                                        /\ p.supersedes # None}
        Closed(S) == /\ id \in S
                     /\ \A p \in links : p.id \in S <=> p.supersedes \in S
    IN  {x \in Registered : \A S \in SUBSET Registered : Closed(S) => x \in S}

Related(id, other) ==
    other # id /\ (Claims(id) \cap Claims(other) # {} \/ other \in Lineage(id))

\* A shard that existed at registration proves nothing about what was seen.
Class(id, role, days, related) ==
    CASE Exposed(id, role) -> "repeat_exposure"
      [] ~Exposed(id, role) /\ related -> "claim_previously_exposed"
      [] OTHER -> IF days \cap regs[id] # {} \/ days = {} THEN "undetermined"
                  ELSE "independent_prospective"

\* Periods of other registrations that were exposed and overlap this one.
Overlapping(id, role) ==
    {o \in Registered \ {id} : \E other \in Roles(o) :
        Overlap(Part(o, other), Part(id, role)) /\ Exposed(o, other)}

Independence(id, role, days) ==
    Class(id, role, days, \E o \in Overlapping(id, role) :
              Proposal(o).kind = "campaign" /\ Related(id, o))
TruffleIndependence(id, role, days) == Class(id, role, days, FALSE)

HoldoutFree(id) == ~Exposed(id, "holdout") /\ Overlapping(id, "holdout") = {}

\* The evaluation's own state from here on; its class is decided by what is
\* on disk now.
Evaluation(id, role, days, class) ==
    [pc |-> "number", reg |-> id, role |-> role, days |-> days,
     attempt |-> attempts + 1, event |-> "authorized", seq |-> 0,
     class |-> class, claims |-> Proposal(id).claims, done |-> {}]

Start(w, id, role, class) ==
    /\ job[w] = Idle /\ attempts < MaxAttempts
    /\ Eligible(id, role)
    /\ role = "holdout" => HoldoutFree(id)
    /\ Present(id, role) # {}
    /\ attempts' = attempts + 1
    /\ job' = [job EXCEPT ![w] =
           Evaluation(id, role, Present(id, role), class)]
    /\ overlapped' = (overlapped \/ \E x \in Evaluators \ {w} :
           job[x] # Idle /\ Overlap(Part(job[x].reg, job[x].role), Part(id, role)))
    /\ UNCHANGED <<clock, shards, regs, log, runs, ledger, models, study, looks,
                   fresh, crashes, studies>>

\* evaluate and evaluate_truffles; a repeated validation is the operator's
\* --acknowledge-prior-exposure.
Begin(w, id, role) ==
    /\ Proposal(id).kind = "campaign"
    /\ Start(w, id, role,
             Independence(id, role, Present(id, role)))

BeginTruffles(w, id, role) ==
    /\ Proposal(id).kind = "truffle"
    /\ Start(w, id, role,
             TruffleIndependence(id, role, Present(id, role)))

\* append_event takes the next free number ...
TakeNumber(w) ==
    /\ job[w].pc = "number"
    /\ job' = [job EXCEPT ![w].pc = "append",
                          ![w].seq = Len(log[job[w].reg]) + 1]
    /\ UNCHANGED <<clock, shards, regs, log, runs, ledger, models, study, looks, fresh,
                   overlapped, attempts, crashes, studies>>

\* What the evaluation does after its event is on disk.
AfterEvent(j) ==
    CASE j.event = "authorized" -> [j EXCEPT !.pc = "number", !.event = "started"]
      [] j.event = "started" -> [j EXCEPT !.pc = "check"]
      [] OTHER -> Idle

\* Nobody who is not another claim's evaluation has seen the period.
Unseen(id, role) ==
    \A l \in looks : l.day \in DaysOf(Part(id, role)) =>
        l.by \notin {"research", id} /\ ~Related(id, l.by)

\* Mutant of AppendEvent: the number's directory is replaced, not created.
AppendEventOver(w) ==
    LET j == job[w]
        event == [type |-> j.event, attempt |-> j.attempt, role |-> j.role,
                  class |-> j.class, runs |-> j.done]
    IN  /\ j.pc = "append"
        /\ log' = [log EXCEPT ![j.reg] = IF j.seq = Len(@) + 1 THEN Append(@, event)
                                         ELSE [@ EXCEPT ![j.seq] = event]]
        /\ job' = [job EXCEPT ![w] = AfterEvent(j)]
        /\ UNCHANGED <<clock, shards, regs, runs, ledger, models, study, looks, fresh,
                       overlapped, attempts, crashes, studies>>

\* ... and creates it exclusively: when another writer took it, the rename
\* fails and the command ends.
AppendEvent(w) ==
    LET j == job[w]
        event == [type |-> j.event, attempt |-> j.attempt, role |-> j.role,
                  class |-> j.class, runs |-> j.done]
    IN  /\ j.pc = "append"
        /\ IF j.seq = Len(log[j.reg]) + 1
           THEN /\ log' = [log EXCEPT ![j.reg] = Append(@, event)]
                /\ job' = [job EXCEPT ![w] = AfterEvent(j)]
                /\ fresh' = IF j.event = "started" /\ Unseen(j.reg, j.role)
                            THEN fresh \cup {j.attempt} ELSE fresh
           ELSE job' = [job EXCEPT ![w] = Idle] /\ UNCHANGED <<log, fresh>>
        /\ UNCHANGED <<clock, shards, regs, runs, ledger, models, study, looks,
                       overlapped, attempts, crashes, studies>>

\* Before each claim's load the guard is checked; a refusal is a failure.
CheckAccess(w) ==
    LET j == job[w]
        grants == IF Granted(j) THEN {<<j.reg, j.role>>} ELSE {}
    IN  /\ j.pc = "check"
        /\ job' = [job EXCEPT ![w] =
               IF MayRead(j.days, grants) THEN [j EXCEPT !.pc = "read"]
               ELSE [j EXCEPT !.pc = "number", !.event = "failed"]]
        /\ UNCHANGED <<clock, shards, regs, log, runs, ledger, models, study, looks,
                       fresh, overlapped, attempts, crashes, studies>>

ReadLabels(w) ==
    LET j == job[w]
    IN  /\ j.pc = "read"
        /\ looks' = looks \cup {[day |-> d, by |-> j.reg] : d \in j.days}
        /\ job' = [job EXCEPT ![w].pc = "record"]
        /\ UNCHANGED <<clock, shards, regs, log, runs, ledger, models, study, fresh,
                       overlapped, attempts, crashes, studies>>

\* An experiment id keeps one definition; the definition names the role,
\* the id does not.
SameDefinition(id, role, claim) ==
    \A r \in runs : r.id = <<id, claim>> => r.segment = role

\* What the evaluation of a claim may find: a verdict and the adjusted interval
\* of a Truffle's claim. A period with days missing has too few of them.
TooFewDays == [verdict |-> "insufficient_data", adjusted |-> <<>>]
Findings(j) == IF DaysOf(Part(j.reg, j.role)) \subseteq j.days
               THEN Reports[Head(j.claims)] ELSE {TooFewDays}

Run(j, found) ==
    [id |-> <<j.reg, Head(j.claims)>>, at |-> Cardinality(runs) + 1,
     kind |-> "prospective", segment |-> j.role, verdict |-> found.verdict,
     reuse |-> FALSE, independence |-> j.class, attempt |-> j.attempt,
     days |-> j.days]

TruffleRun(j, found) ==
    [Run(j, found) EXCEPT !.kind = "truffles",
                          !.verdict = Decide(found.verdict, found.adjusted)]

\* The resampling is seeded by the definition: the same data shows the same.
SameOfSameData(run) ==
    \A r \in runs : r.id = run.id /\ r.days = run.days => r.verdict = run.verdict

\* The claim's run is written, and the next claim or the outcome event
\* follows.
Record(w) ==
    LET j == job[w]
        rest == Tail(j.claims)
    IN  /\ j.pc = "record"
        /\ IF SameDefinition(j.reg, j.role, Head(j.claims))
           THEN \E found \in Findings(j) :
                LET run == IF Proposal(j.reg).kind = "campaign" THEN Run(j, found)
                           ELSE TruffleRun(j, found)
                IN  /\ SameOfSameData(run) /\ runs' = runs \cup {run}
                    /\ job' = [job EXCEPT ![w] =
                           [j EXCEPT !.claims = rest, !.done = @ \cup {run.at},
                                     !.pc = IF rest = <<>> THEN "number" ELSE "check",
                                     !.event = IF rest = <<>> THEN "completed" ELSE @]]
           ELSE /\ job' = [job EXCEPT ![w] =
                       [j EXCEPT !.pc = "number", !.event = "failed"]]
                /\ UNCHANGED runs
        /\ UNCHANGED <<clock, shards, regs, log, ledger, models, study, looks,
                       fresh, overlapped, attempts, crashes, studies>>

Crash(w) ==
    /\ job[w] # Idle /\ crashes < MaxCrashes
    /\ crashes' = crashes + 1
    /\ job' = [job EXCEPT ![w] = Idle]
    /\ UNCHANGED <<clock, shards, regs, log, runs, ledger, models, study, looks, fresh,
                   overlapped, attempts, studies>>

-----------------------------------------------------------------------------
(* Time, the continuity worker and the ordinary research commands          *)

Tick ==
    /\ clock < LastDay
    /\ clock' = clock + 1
    /\ UNCHANGED <<shards, regs, ledger, models, study, studies, evaluation>>

\* The worker preserves a day once its outcomes are known, or any time later.
Preserve(d) ==
    /\ d \notin shards /\ d < clock
    /\ shards' = shards \cup {d}
    /\ UNCHANGED <<clock, regs, ledger, models, study, studies, evaluation>>

\* Earlier validation runs that looked at the day.
ValidationReuse(day) ==
    \E r \in runs : r.segment = "validation" /\ r.kind # "truffles" /\ day \in r.days

\* The record of a campaign's comparison, but for its number.
StudyRun(day, claim, segment) ==
    [id |-> <<"study", claim>>, at |-> 0, kind |-> "comparison",
     segment |-> segment, verdict |-> "positive_evidence",
     reuse |-> ValidationReuse(day), independence |-> None, attempt |-> 0,
     days |-> {day}]

\* A campaign's comparison loads a shard; its history is read first.
StudyLoad(day, claim, segment) ==
    /\ study = NoStudy /\ studies < MaxStudies
    /\ day \in shards /\ MayRead({day}, {})
    /\ study' = [kind |-> "load", day |-> day, run |-> StudyRun(day, claim, segment)]
    /\ studies' = studies + 1
    /\ UNCHANGED <<clock, shards, regs, ledger, models, evaluation>>

\* A dataset of its own is generated over a past day: hours of work on the
\* outcomes follow the check.
StudyGenerate(day) ==
    /\ study = NoStudy /\ studies < MaxStudies
    /\ day < clock /\ MayRead({day}, {})
    /\ study' = [kind |-> "generate", day |-> day, run |-> NoRun]
    /\ studies' = studies + 1
    /\ UNCHANGED <<clock, shards, regs, ledger, models, evaluation>>

\* The outcomes are read, and the comparison's run is written.
StudyRead ==
    /\ study # NoStudy
    /\ looks' = looks \cup {[day |-> study.day, by |-> "research"]}
    /\ runs' = runs \cup {[study.run EXCEPT !.at = Cardinality(runs) + 1] :
                              r \in {study.run} \ {NoRun}}
    /\ study' = NoStudy
    /\ UNCHANGED <<clock, shards, regs, log, ledger, models, job, fresh,
                   overlapped, attempts, crashes, studies>>

-----------------------------------------------------------------------------
(* The knowledge ledger *)

CampaignRuns(claim) ==
    {r \in runs : r.id[2] = claim /\ r.kind \in {"prospective", "comparison"}}

\* Mutant of VerifyRun: a run needs no completed event behind it.
VerifyRunTrusting(r) == r.kind = "prospective" => r.id[1] \in Registered
VerifyRun(r) ==
    r.kind = "prospective" => \E e \in Range(log[r.id[1]]) :
        /\ e.type = "completed" /\ e.attempt = r.attempt
        /\ r.at \in e.runs /\ e.class = r.independence

Evidence(claim) ==
    CollectEvidence(CampaignRuns(claim), {<<"study", claim>>}, None, 2)
Entry(claim) == [status |-> KnowledgeStatus("positive", Evidence(claim), 2),
                 cited |-> CampaignRuns(claim)]
DeriveLedger == [c \in Claimed |-> Entry(c)]

\* A revision's statuses follow from exactly the runs it cites, and those
\* verify and agree.
VerifyRevision(revision) ==
    \A c \in Claimed :
        LET cited == CollectEvidence(revision[c].cited, {<<"study", c>>}, None, 2)
        IN  /\ \A r \in revision[c].cited : VerifyRun(r)
            /\ RepeatConflicts(cited) = {}
            /\ revision[c].status = KnowledgeStatus("positive", cited, 2)

\* A revision is written only when something changed.
AppendRevision(derived) == derived # ledger /\ ledger' = derived

\* --derive: refused when repeated runs disagree or the result does not
\* verify.
Derive ==
    /\ \A c \in Claimed : RepeatConflicts(Evidence(c)) = {}
    /\ VerifyRevision(DeriveLedger)
    /\ AppendRevision(DeriveLedger)
    /\ UNCHANGED <<clock, shards, regs, models, study, studies, evaluation>>

\* What a Truffle run is evidence of.
PolicyEntry(r) ==
    [class |-> IF r.independence = "independent_prospective"
               THEN IF r.segment = "holdout" THEN "protected_holdout"
                    ELSE "prospective_validation"
               ELSE "prospective_reused",
     decision |-> r.verdict, via |-> FALSE]

\* Model knowledge of a policy: its registrations and evaluation runs.
PolicyEvidence(policy) ==
    {[class |-> "prospective_registration", decision |-> None, via |-> FALSE] :
         p \in {x \in Proposals : x.kind = "truffle" /\ x.id \in Registered
                                     /\ policy \in Range(x.claims)}}
    \cup
    {PolicyEntry(r) : r \in {x \in runs : x.kind = "truffles" /\ x.id[2] = policy}}

\* The ranking model links its policies' evidence.
ModelEvidence ==
    {[e EXCEPT !.via = TRUE] : e \in UNION {PolicyEvidence(p) : p \in Policies}}

DeriveModels ==
    [policies |-> [p \in Policies |->
                       DeriveStatus("qualification_policy", PolicyEvidence(p))],
     ranking |-> DeriveStatus("ranking_model", ModelEvidence)]

\* Appends a revision when something changed; the exposure log is consulted
\* only by --verify.
SyncModels ==
    /\ DeriveModels # models
    /\ models' = DeriveModels
    /\ UNCHANGED <<clock, shards, regs, ledger, study, studies, evaluation>>

-----------------------------------------------------------------------------
Init ==
    /\ clock = 0 /\ shards = {} /\ regs = <<>> /\ log = <<>>
    /\ runs = {} /\ models = DeriveModels
    /\ ledger = DeriveLedger
    /\ job = [w \in Evaluators |-> Idle] /\ study = NoStudy
    /\ looks = {} /\ fresh = {} /\ overlapped = FALSE
    /\ attempts = 0 /\ crashes = 0 /\ studies = 0

Step(w) ==
    \/ \E id \in Registered : \E role \in Roles(id) :
           Begin(w, id, role) \/ BeginTruffles(w, id, role)
    \/ TakeNumber(w) \/ AppendEvent(w)
    \/ CheckAccess(w) \/ ReadLabels(w) \/ Record(w) \/ Crash(w)

Next ==
    \/ Tick
    \/ \E d \in ShardDays : Preserve(d)
    \/ \E p \in Proposals : Register(p)
    \/ \E w \in Evaluators : Step(w)
    \/ \E d \in StudyDays, c \in Claimed, segment \in {"development", "validation"} :
           StudyLoad(d, c, segment)
    \/ \E d \in StudyDays : StudyGenerate(d)
    \/ StudyRead
    \/ Derive
    \/ SyncModels

Spec == Init /\ [][Next]_vars

-----------------------------------------------------------------------------
(* The values of the variables: what is on disk, and where each command    *)
(* stands.                                                                 *)

Ids == {p.id : p \in Proposals}
AllClaims == UNION {Range(p.claims) : p \in Proposals}
RoleNames == {"validation", "holdout"}
Classes == {"repeat_exposure", "claim_previously_exposed", "undetermined",
            "independent_prospective"}
Days == 0..LastDay
EventTypes == {"authorized", "started", "completed", "failed"}

Event == [type : EventTypes, attempt : 1..MaxAttempts, role : RoleNames,
          class : Classes, runs : SUBSET Nat]
EvaluationJob ==
    [pc : {"number", "append", "check", "read", "record"}, reg : Ids,
     role : RoleNames, days : SUBSET Days, attempt : 1..MaxAttempts,
     event : EventTypes, seq : Nat, class : Classes, claims : Seq(AllClaims),
     done : SUBSET Nat]
RunRecord ==
    [id : (Ids \cup {"study"}) \X AllClaims, at : Nat,
     kind : {"prospective", "truffles", "comparison"},
     segment : RoleNames \cup {"development"},
     verdict : {"positive_evidence", "negative_evidence", "insufficient_data",
                "insufficient_evidence", "inconclusive", "consistent_with_improvement",
                "inconsistent_with_improvement"},
     reuse : BOOLEAN, independence : Classes \cup {None},
     attempt : 0..MaxAttempts, days : SUBSET Days]

ProspectiveTypeOK ==
    /\ clock \in Days /\ shards \subseteq ShardDays
    /\ Registered \subseteq Ids
    /\ regs \in [Registered -> SUBSET ShardDays]
    /\ log \in [Registered -> Seq(Event)]
    /\ runs \subseteq RunRecord /\ IsFiniteSet(runs)
    /\ ledger \in [Claimed -> [status : [knowledge : KnowledgeNames,
                                         validation : ValidationNames],
                               cited : SUBSET RunRecord]]
    /\ models \in [policies : [Policies -> ModelNames], ranking : ModelNames]
    /\ job \in [Evaluators -> EvaluationJob \cup {Idle}]
    /\ study \in {NoStudy} \cup [kind : {"load", "generate"}, day : Days,
                                  run : RunRecord \cup {NoRun}]
    /\ looks \subseteq [day : Days, by : Ids \cup {"research"}]
    /\ fresh \subseteq 1..MaxAttempts /\ overlapped \in BOOLEAN
    /\ attempts \in 0..MaxAttempts /\ crashes \in 0..MaxCrashes
    /\ studies \in 0..MaxStudies

\* The outcomes of a reserved partition are read only by an evaluation of
\* that partition whose `started` event is on disk and that has not ended:
\* the guard of load_datasets, check_generation_window, the registration's
\* unseen-data checks and the exposure log together, across every gap
\* between a check and the read it allows.
ReservedUnread ==
    [][\A l \in looks' \ looks, id \in Registered : \A role \in Roles(id) :
          Touches(l.day, Part(id, role)) /\ ~Completed(id, role) =>
              \E w \in Evaluators :
                  /\ job[w].pc = "read" /\ l.by = id
                  /\ job[w].reg = id /\ job[w].role = role
                  /\ "started" \in TypesOf(id, job[w].attempt)]_vars

\* A run recorded as independent was the first look at its period by the
\* claim, its lineage or any research command, unless two evaluations of
\* that period ran at the same time; model knowledge that a policy is
\* supported rests on such a run.
IndependentIsFirst ==
    LET first == {r \in runs : r.independence = "independent_prospective"
                                  /\ (r.attempt \in fresh \/ overlapped)}
    IN  /\ \A r \in runs : r.independence = "independent_prospective" => r \in first
        /\ \A p \in Policies :
              models.policies[p] = "supported_by_prospective_evidence" =>
                  \E r \in first : r.id[2] = p

\* What the ledger states is backed by the exposure log: every run it cites
\* belongs to a completed attempt that names it with the class the run
\* claims, and prospective validation rests on an independent one.
LedgerBacked ==
    \A c \in Claimed :
        /\ \A r \in {x \in ledger[c].cited : x.kind = "prospective"} :
              \E i \in DOMAIN log[r.id[1]] :
                  LET e == log[r.id[1]][i]
                  IN  e.type = "completed" /\ r.at \in e.runs
                      /\ e.class = r.independence
                      /\ \E k \in 1..i : log[r.id[1]][k].type = "started"
                                     /\ log[r.id[1]][k].attempt = r.attempt
        /\ ledger[c].status.validation = "prospectively_validated" =>
              overlapped \/ \E r \in ledger[c].cited : r.attempt \in fresh

\* prospective.py: the holdout is a later partition, evaluated at most once;
\* a completed validation does not keep it from being evaluated at all.
HoldoutAfterValidation ==
    \A id \in Registered :
        Completed(id, "validation") =>
            \A a \in Attempts(id, "holdout") : Outcome(id, a) # "failed"

-----------------------------------------------------------------------------
(* The exposure log and the run records, as one log of attempts.           *)

TypesWritten(a) == UNION {TypesOf(id, a) : id \in Registered}
RunsNamed(a) == UNION {UNION {e.runs : e \in {x \in Range(log[id]) : x.attempt = a}} :
                       id \in Registered}
RunsRecorded(a) == {r.at : r \in {x \in runs : x.attempt = a}}

Logged == [a \in 1..MaxAttempts |-> TypesWritten(a)]
Gathered == [a \in 1..MaxAttempts |-> RunsRecorded(a)]
Reported == [a \in 1..MaxAttempts |-> RunsNamed(a)]

A == INSTANCE AttemptLog WITH events <- Logged, evidence <- Gathered,
                              named <- Reported, records <- Cardinality(runs)

\* Evaluations that race for the numbers of one log, are killed, or fail
\* between their steps, leave the log of attempts that the readers of a
\* result rely on: authorized, started, ended once with exactly the runs
\* recorded in between (append_event, evaluate, evaluate_truffles).
KeepsAttemptLog == A!Spec
=============================================================================
