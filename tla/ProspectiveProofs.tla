-------------------------- MODULE ProspectiveProofs --------------------------
(***************************************************************************)
(* Four promises of prospective evaluation: reserved outcomes are read     *)
(* only by a started evaluation of them; a run recorded as independent was *)
(* the first look at its period; what the ledgers state of it is backed by *)
(* the exposure log; and that log, with the run records, is a log of       *)
(* attempts that start and end once.                                       *)
(***************************************************************************)
EXTENDS ProspectiveEvaluation, FiniteSetTheorems, TLAPS

-----------------------------------------------------------------------------
(* Registrations, events and what the log says.                            *)

LEMMA AppendFacts ==
    ASSUME NEW S, NEW s \in Seq(S), NEW e
    PROVE  /\ Append(s, e) \in Seq(S \cup {e}) /\ Len(Append(s, e)) = Len(s) + 1
           /\ Len(s) \in Nat /\ DOMAIN s = 1..Len(s)
           /\ DOMAIN Append(s, e) = 1..(Len(s) + 1)
           /\ \A i \in DOMAIN s : Append(s, e)[i] = s[i]
           /\ Append(s, e)[Len(s) + 1] = e
OBVIOUS

LEMMA AppendRange ==
    ASSUME NEW S, NEW s \in Seq(S), NEW e
    PROVE  Range(Append(s, e)) = Range(s) \cup {e}
<1>1. ASSUME NEW x
      PROVE  x \in Range(Append(s, e)) <=> x \in Range(s) \cup {e}
  <2>1. x \in Range(Append(s, e)) <=> \E i \in 1..(Len(s) + 1) : Append(s, e)[i] = x
    BY AppendFacts DEF Range
  <2>2. x \in Range(s) <=> \E i \in 1..Len(s) : s[i] = x
    BY AppendFacts DEF Range
  <2>3. \A i \in 1..(Len(s) + 1) : i \in 1..Len(s) \/ i = Len(s) + 1
    BY AppendFacts
  <2>4. \A i \in 1..Len(s) : i \in 1..(Len(s) + 1)
    BY AppendFacts
  <2>5. Len(s) + 1 \in 1..(Len(s) + 1)
    BY AppendFacts
  <2> QED BY AppendFacts, <2>1, <2>2, <2>3, <2>4, <2>5
<1> QED BY <1>1

LEMMA ProposalFacts ==
    /\ \A p \in Proposals : p.id \in Ids /\ Proposal(p.id) = p
    /\ \A id \in Ids : Proposal(id) \in Proposals /\ Proposal(id).id = id
    /\ \A id \in Ids : /\ Proposal(id).kind \in {"campaign", "truffle"}
                       /\ Proposal(id).claims \in Seq(AllClaims) /\ Proposal(id).claims # <<>>
                       /\ Roles(id) \subseteq RoleNames
                       /\ \A role \in Roles(id) : Part(id, role) \in [from : Nat, to : Nat]
<1>1. ASSUME NEW p \in Proposals
      PROVE  p.id \in Ids /\ Proposal(p.id) = p
  <2>1. \A q \in Proposals : q.id = p.id => q = p
    BY ProspectiveAssumption
  <2> QED BY <2>1 DEF Proposal, Ids
<1>2. ASSUME NEW id \in Ids
      PROVE  Proposal(id) \in Proposals /\ Proposal(id).id = id
  BY DEF Proposal, Ids
<1>3. ASSUME NEW id \in Ids
      PROVE  /\ Proposal(id).kind \in {"campaign", "truffle"}
             /\ Proposal(id).claims \in Seq(AllClaims) /\ Proposal(id).claims # <<>>
             /\ Roles(id) \subseteq RoleNames
             /\ \A role \in Roles(id) : Part(id, role) \in [from : Nat, to : Nat]
  <2>1. Proposal(id) \in Proposals
    BY <1>2
  <2>2. /\ Proposal(id).kind \in {"campaign", "truffle"}
        /\ DOMAIN Proposal(id).parts \in {{"validation"}, {"validation", "holdout"}}
        /\ \A role \in DOMAIN Proposal(id).parts : Proposal(id).parts[role] \in [from : Nat, to : Nat]
        /\ Proposal(id).claims \in Seq(Range(Proposal(id).claims)) /\ Proposal(id).claims # <<>>
    BY <2>1, ProspectiveAssumption
  <2>3. Range(Proposal(id).claims) \subseteq AllClaims
    BY <2>1 DEF AllClaims
  <2>4. Proposal(id).claims \in Seq(AllClaims)
    BY <2>2, <2>3
  <2> QED BY <2>2, <2>4 DEF Roles, Part, RoleNames
<1> QED BY <1>1, <1>2, <1>3

LEMMA Constants ==
    /\ LastDay \in Nat /\ MaxAttempts \in Nat /\ MaxCrashes \in Nat /\ MaxStudies \in Nat
    /\ ShardDays \subseteq Days /\ StudyDays \subseteq Days /\ Claimed \subseteq AllClaims /\ Policies \subseteq AllClaims
BY ProspectiveAssumption DEF Days, Claimed, Policies, AllClaims

LEMMA EventFacts ==
    ASSUME ProspectiveTypeOK, NEW id \in Registered
    PROVE  /\ id \in Ids /\ log[id] \in Seq(Event) /\ Len(log[id]) \in Nat
           /\ Range(log[id]) \subseteq Event
           /\ \A i \in DOMAIN log[id] : log[id][i] \in Range(log[id]) /\ i \in 1..Len(log[id])
           /\ \A e \in Range(log[id]) : \E i \in DOMAIN log[id] : log[id][i] = e
<1>1. id \in Ids /\ log[id] \in Seq(Event)
  BY DEF ProspectiveTypeOK
<1> QED BY <1>1 DEF Range

(* The record of a job, and a job that is none.                             *)
LEMMA JobFacts ==
    ASSUME ProspectiveTypeOK, NEW w \in Evaluators
    PROVE  /\ job[w] # Idle <=> job[w].pc # "idle"
           /\ job[w] # Idle => job[w] \in EvaluationJob
           /\ job[w].pc \in {"number", "append", "check", "read", "record"} => job[w] \in EvaluationJob
<1>1. job[w] \in EvaluationJob \cup {Idle}
  BY DEF ProspectiveTypeOK
<1>2. job[w] \in EvaluationJob => job[w].pc \in {"number", "append", "check", "read", "record"}
  BY DEF EvaluationJob
<1>3. Idle.pc = "idle"
  BY DEF Idle
<1> QED BY <1>1, <1>2, <1>3

-----------------------------------------------------------------------------
(* The statuses that the rules can yield.                                   *)

LEMMA ClassifyType ==
    ASSUME NEW dev, NEW val
    PROVE  Classify("positive", dev, val) \in KnowledgeNames
<1>1. \A d, e, o, un : Against("positive", d, e, o, un) \in {e, o}
  BY DEF Against, Expected
<1> QED BY <1>1 DEF Classify, KnowledgeNames

LEMMA KnowledgeStatusType ==
    ASSUME NEW evidence
    PROVE  KnowledgeStatus("positive", evidence, 2)
             \in [knowledge : KnowledgeNames, validation : ValidationNames]
<1>1. \A d, e, o, un : Against("positive", d, e, o, un) \in {e, o}
  BY DEF Against, Expected
<1>2. ClassifyV2("positive", evidence) \in KnowledgeNames
  BY <1>1, ClassifyType DEF ClassifyV2, KnowledgeNames
<1>3. ValidationStatusV2(evidence) \in ValidationNames
  BY DEF ValidationStatusV2, ValidationStatus, ValidationNames
<1> QED BY <1>2, <1>3 DEF KnowledgeStatus

LEMMA ModelStatusType ==
    ASSUME NEW kind, NEW evidence
    PROVE  DeriveStatus(kind, evidence) \in ModelNames
<1> DEFINE statuses == IF kind # "qualification_policy" THEN {}
                       ELSE {DecisionStatus(e.decision) : e \in
                             {x \in evidence : ~x.via /\ x.class \in Independent}}
<1>1. statuses \subseteq ModelNames
  BY DEF DecisionStatus, ModelNames
<1>2. Cardinality({}) = 0
  BY FS_EmptySet
<1>3. DeriveStatus(kind, evidence) =
        IF statuses = {}
        THEN IF \E e \in evidence : e.class = "prospective_registration"
             THEN "registered_for_prospective_evaluation" ELSE "experimental"
        ELSE IF {"supported_by_prospective_evidence",
                 "contradicted_by_prospective_evidence"} \subseteq statuses
        THEN "conflicting_prospective_evidence"
        ELSE IF Cardinality(statuses) = 1 THEN CHOOSE s \in statuses : TRUE
        ELSE IF "insufficient_prospective_evidence" \in statuses
        THEN "insufficient_prospective_evidence"
        ELSE "inconclusive_prospective_evidence"
  BY DEF DeriveStatus
<1> HIDE DEF statuses
<1>4. statuses # {} => (CHOOSE s \in statuses : TRUE) \in ModelNames
  BY <1>1
<1> QED BY <1>3, <1>4 DEF ModelNames

-----------------------------------------------------------------------------
(* How the job of an evaluator moves.                                       *)

\* A job is of a registered partition, and has claims left until it completes.
JobsPlaced ==
    \A w \in Evaluators : job[w] # Idle =>
        /\ job[w].reg \in Registered /\ job[w].role \in Roles(job[w].reg)
        /\ job[w].pc \in {"check", "read", "record"} => job[w].event = "started"
        /\ job[w].event # "completed" => job[w].claims # <<>>

Writes(w) == AppendEvent(w) /\ job[w].seq = Len(log[job[w].reg]) + 1
NewEvent(w) == [type |-> job[w].event, attempt |-> job[w].attempt, role |-> job[w].role,
                class |-> job[w].class, runs |-> job[w].done]
Grants(w) == IF Granted(job[w]) THEN {<<job[w].reg, job[w].role>>} ELSE {}

Launches(w) ==
    /\ job[w] = Idle
    /\ \E id \in Registered : \E role \in Roles(id) : \E class \in Classes :
         /\ Start(w, id, role, class)
         /\ job'[w] = Evaluation(id, role, Present(id, role), class)
         /\ class = "independent_prospective" => ~Exposed(id, role)

SameTask(w) ==
    /\ job'[w].reg = job[w].reg /\ job'[w].role = job[w].role /\ job'[w].days = job[w].days
    /\ job'[w].attempt = job[w].attempt /\ job'[w].class = job[w].class

Advances(w) ==
    \/ /\ TakeNumber(w) /\ job[w].pc = "number" /\ job'[w].pc = "append"
       /\ job'[w].event = job[w].event /\ job'[w].claims = job[w].claims
    \/ /\ Writes(w) /\ job[w].pc = "append" /\ job'[w].claims = job[w].claims
       /\ job'[w].event = "started"
       /\ \/ job[w].event = "authorized" /\ job'[w].pc = "number"
          \/ job[w].event = "started" /\ job'[w].pc = "check"
    \/ /\ CheckAccess(w) /\ job[w].pc = "check" /\ job'[w].claims = job[w].claims
       /\ \/ /\ job'[w].pc = "read" /\ job'[w].event = job[w].event
             /\ MayRead(job[w].days, Grants(w))
          \/ job'[w].pc = "number" /\ job'[w].event = "failed"
    \/ /\ ReadLabels(w) /\ job[w].pc = "read" /\ job'[w].pc = "record"
       /\ job'[w].event = job[w].event /\ job'[w].claims = job[w].claims
    \/ /\ Record(w) /\ job[w].pc = "record"
       /\ \/ /\ job'[w].claims = <<>> /\ job'[w].pc = "number" /\ job'[w].event = "completed"
          \/ /\ job'[w].claims # <<>> /\ job'[w].pc = "check" /\ job'[w].event = job[w].event
          \/ /\ job'[w].claims = job[w].claims /\ job'[w].pc = "number"
             /\ job'[w].event = "failed"

LEMMA PresentFacts ==
    ASSUME ProspectiveTypeOK, NEW id, NEW role
    PROVE  Present(id, role) \subseteq shards /\ Present(id, role) \in SUBSET Days
BY Constants DEF Present, ProspectiveTypeOK

LEMMA ClassFacts ==
    ASSUME NEW id, NEW role, NEW days, NEW related
    PROVE  /\ Class(id, role, days, related) \in Classes
           /\ Class(id, role, days, related) = "independent_prospective" => ~Exposed(id, role)
BY DEF Class, Classes

LEMMA StartFacts ==
    ASSUME ProspectiveTypeOK, NEW w \in Evaluators, NEW id \in Registered, NEW role \in Roles(id),
           NEW class \in Classes, Start(w, id, role, class)
    PROVE  /\ job[w] = Idle /\ attempts' = attempts + 1 /\ attempts' \in 1..MaxAttempts
           /\ job' = [job EXCEPT ![w] = Evaluation(id, role, Present(id, role), class)]
           /\ job'[w] = Evaluation(id, role, Present(id, role), class)
           /\ Evaluation(id, role, Present(id, role), class) \in EvaluationJob
           /\ Proposal(id).claims # <<>>
<1>1. /\ job[w] = Idle /\ attempts' = attempts + 1 /\ attempts < MaxAttempts
      /\ job' = [job EXCEPT ![w] = Evaluation(id, role, Present(id, role), class)]
  BY DEF Start
<1>2. attempts \in Nat /\ MaxAttempts \in Nat
  BY Constants DEF ProspectiveTypeOK
<1>3. attempts + 1 \in 1..MaxAttempts
  BY <1>1, <1>2
<1>4. id \in Ids /\ role \in RoleNames /\ Proposal(id).claims \in Seq(AllClaims)
      /\ Proposal(id).claims # <<>>
  BY ProposalFacts DEF ProspectiveTypeOK
<1>5. Evaluation(id, role, Present(id, role), class) \in EvaluationJob
  BY <1>3, <1>4, PresentFacts DEF Evaluation, EvaluationJob, EventTypes
<1> QED BY <1>1, <1>3, <1>4, <1>5 DEF ProspectiveTypeOK

LEMMA LaunchFacts ==
    ASSUME ProspectiveTypeOK, NEW w \in Evaluators, NEW id \in Registered, NEW role \in Roles(id),
           Begin(w, id, role) \/ BeginTruffles(w, id, role)
    PROVE  Launches(w)
<1>1. PICK class \in Classes : /\ Start(w, id, role, class)
                               /\ class = "independent_prospective" => ~Exposed(id, role)
  <2>1. CASE Begin(w, id, role)
    BY <2>1, ClassFacts DEF Begin, Independence
  <2>2. CASE BeginTruffles(w, id, role)
    BY <2>2, ClassFacts DEF BeginTruffles, TruffleIndependence
  <2> QED BY <2>1, <2>2
<1> QED BY <1>1, StartFacts DEF Launches

LEMMA JobMoves ==
    ASSUME ProspectiveTypeOK, JobsPlaced, NEW w \in Evaluators, Step(w)
    PROVE  /\ \A x \in Evaluators \ {w} : job'[x] = job[x]
           /\ job' \in [Evaluators -> EvaluationJob \cup {Idle}]
           /\ \/ job[w] # Idle /\ job'[w] = Idle
              \/ Launches(w) /\ job'[w] \in EvaluationJob
              \/ job[w] # Idle /\ job'[w] \in EvaluationJob /\ SameTask(w) /\ Advances(w)
<1>0. job \in [Evaluators -> EvaluationJob \cup {Idle}]
  BY DEF ProspectiveTypeOK
<1>1. ASSUME NEW j \in EvaluationJob, job' = [job EXCEPT ![w] = j]
      PROVE  /\ \A x \in Evaluators \ {w} : job'[x] = job[x] /\ job'[w] = j
             /\ job' \in [Evaluators -> EvaluationJob \cup {Idle}] /\ job'[w] = j
  BY <1>0, <1>1
<1>2. CASE \E id \in Registered : \E role \in Roles(id) :
             Begin(w, id, role) \/ BeginTruffles(w, id, role)
  <2>1. Launches(w)
    BY <1>2, LaunchFacts
  <2>2. PICK id \in Registered : \E role \in Roles(id) : \E class \in Classes :
           Start(w, id, role, class)
    BY <2>1 DEF Launches
  <2>3. PICK role \in Roles(id), class \in Classes : Start(w, id, role, class)
    BY <2>2
  <2> QED BY <1>1, <2>1, <2>3, StartFacts
<1>3. CASE TakeNumber(w)
  <2> DEFINE j == [job[w] EXCEPT !.pc = "append", !.seq = Len(log[job[w].reg]) + 1]
  <2>1. job[w].pc = "number" /\ job' = [job EXCEPT ![w] = j]
    BY <1>3 DEF TakeNumber
  <2>2. job[w] # Idle /\ job[w] \in EvaluationJob /\ job[w].reg \in Registered
    BY <2>1, JobFacts DEF JobsPlaced
  <2>3. Len(log[job[w].reg]) + 1 \in Nat
    BY <2>2, EventFacts
  <2>4. j \in EvaluationJob /\ j.pc = "append" /\ j.event = job[w].event /\ j.claims = job[w].claims
        /\ j.reg = job[w].reg /\ j.role = job[w].role /\ j.days = job[w].days
        /\ j.attempt = job[w].attempt /\ j.class = job[w].class
    BY <2>2, <2>3 DEF EvaluationJob
  <2> HIDE DEF j
  <2> QED BY <1>1, <1>3, <2>1, <2>2, <2>4 DEF SameTask, Advances
<1>4. CASE AppendEvent(w)
  <2>1. /\ job[w].pc = "append" /\ job[w] # Idle /\ job[w] \in EvaluationJob
        /\ job' = [job EXCEPT ![w] = IF Writes(w) THEN AfterEvent(job[w]) ELSE Idle]
    BY <1>4, JobFacts DEF AppendEvent, Writes
  <2>2. CASE ~Writes(w)
    BY <1>0, <2>1, <2>2
  <2>3. CASE Writes(w) /\ job[w].event = "authorized"
    <3> DEFINE j == [job[w] EXCEPT !.pc = "number", !.event = "started"]
    <3>1. job' = [job EXCEPT ![w] = j]
      BY <2>1, <2>3 DEF AfterEvent
    <3>2. j \in EvaluationJob /\ j.pc = "number" /\ j.event = "started" /\ j.claims = job[w].claims
          /\ j.reg = job[w].reg /\ j.role = job[w].role /\ j.days = job[w].days
          /\ j.attempt = job[w].attempt /\ j.class = job[w].class
      BY <2>1 DEF EvaluationJob, EventTypes
    <3> HIDE DEF j
    <3> QED BY <1>1, <2>1, <2>3, <3>1, <3>2 DEF SameTask, Advances
  <2>4. CASE Writes(w) /\ job[w].event = "started"
    <3> DEFINE j == [job[w] EXCEPT !.pc = "check"]
    <3>1. job' = [job EXCEPT ![w] = j]
      BY <2>1, <2>4 DEF AfterEvent
    <3>2. j \in EvaluationJob /\ j.pc = "check" /\ j.event = "started" /\ j.claims = job[w].claims
          /\ j.reg = job[w].reg /\ j.role = job[w].role /\ j.days = job[w].days
          /\ j.attempt = job[w].attempt /\ j.class = job[w].class
      BY <2>1, <2>4 DEF EvaluationJob
    <3> HIDE DEF j
    <3> QED BY <1>1, <2>1, <2>4, <3>1, <3>2 DEF SameTask, Advances
  <2>5. CASE Writes(w) /\ job[w].event \notin {"authorized", "started"}
    <3>1. job' = [job EXCEPT ![w] = Idle]
      BY <2>1, <2>5 DEF AfterEvent
    <3> QED BY <1>0, <2>1, <3>1
  <2> QED BY <2>2, <2>3, <2>4, <2>5
<1>5. CASE CheckAccess(w)
  <2>1. job[w].pc = "check" /\ job[w] # Idle /\ job[w] \in EvaluationJob
    BY <1>5, JobFacts DEF CheckAccess
  <2>2. CASE MayRead(job[w].days, Grants(w))
    <3> DEFINE j == [job[w] EXCEPT !.pc = "read"]
    <3>1. job' = [job EXCEPT ![w] = j]
      BY <1>5, <2>2 DEF CheckAccess, Grants
    <3>2. j \in EvaluationJob /\ j.pc = "read" /\ j.event = job[w].event /\ j.claims = job[w].claims
          /\ j.reg = job[w].reg /\ j.role = job[w].role /\ j.days = job[w].days
          /\ j.attempt = job[w].attempt /\ j.class = job[w].class
      BY <2>1 DEF EvaluationJob
    <3> HIDE DEF j
    <3> QED BY <1>1, <1>5, <2>1, <2>2, <3>1, <3>2 DEF SameTask, Advances
  <2>3. CASE ~MayRead(job[w].days, Grants(w))
    <3> DEFINE j == [job[w] EXCEPT !.pc = "number", !.event = "failed"]
    <3>1. job' = [job EXCEPT ![w] = j]
      BY <1>5, <2>3 DEF CheckAccess, Grants
    <3>2. j \in EvaluationJob /\ j.pc = "number" /\ j.event = "failed" /\ j.claims = job[w].claims
          /\ j.reg = job[w].reg /\ j.role = job[w].role /\ j.days = job[w].days
          /\ j.attempt = job[w].attempt /\ j.class = job[w].class
      BY <2>1 DEF EvaluationJob, EventTypes
    <3> HIDE DEF j
    <3> QED BY <1>1, <1>5, <2>1, <3>1, <3>2 DEF SameTask, Advances
  <2> QED BY <2>2, <2>3
<1>6. CASE ReadLabels(w)
  <2> DEFINE j == [job[w] EXCEPT !.pc = "record"]
  <2>1. job[w].pc = "read" /\ job[w] # Idle /\ job[w] \in EvaluationJob
        /\ job' = [job EXCEPT ![w] = j]
    BY <1>6, JobFacts DEF ReadLabels
  <2>2. j \in EvaluationJob /\ j.pc = "record" /\ j.event = job[w].event /\ j.claims = job[w].claims
        /\ j.reg = job[w].reg /\ j.role = job[w].role /\ j.days = job[w].days
        /\ j.attempt = job[w].attempt /\ j.class = job[w].class
    BY <2>1 DEF EvaluationJob
  <2> HIDE DEF j
  <2> QED BY <1>1, <1>6, <2>1, <2>2 DEF SameTask, Advances
<1>7. CASE Record(w)
  <2> DEFINE rest == Tail(job[w].claims)
             at == Cardinality(runs) + 1
  <2>1. /\ job[w].pc = "record" /\ job[w] # Idle /\ job[w] \in EvaluationJob
        /\ job[w].event = "started" /\ job[w].claims # <<>>
    BY <1>7, JobFacts DEF Record, JobsPlaced
  <2>2. rest \in Seq(AllClaims)
    BY <2>1 DEF EvaluationJob
  <2>3. at \in Nat
    BY FS_CardinalityType DEF ProspectiveTypeOK
  <2>4. \A found : Run(job[w], found).at = at /\ TruffleRun(job[w], found).at = at
    BY DEF Run, TruffleRun
  <2>5. CASE SameDefinition(job[w].reg, job[w].role, Head(job[w].claims))
    <3> DEFINE j == [job[w] EXCEPT !.claims = rest, !.done = @ \cup {at},
                                   !.pc = IF rest = <<>> THEN "number" ELSE "check",
                                   !.event = IF rest = <<>> THEN "completed" ELSE @]
    <3>1. job' = [job EXCEPT ![w] = j]
      BY <1>7, <2>4, <2>5 DEF Record
    <3>2. /\ j \in EvaluationJob /\ j.claims = rest
          /\ j.reg = job[w].reg /\ j.role = job[w].role /\ j.days = job[w].days
          /\ j.attempt = job[w].attempt /\ j.class = job[w].class
          /\ \/ rest = <<>> /\ j.pc = "number" /\ j.event = "completed"
             \/ rest # <<>> /\ j.pc = "check" /\ j.event = job[w].event
      <4> HIDE DEF rest, at
      <4> QED BY <2>1, <2>2, <2>3 DEF EvaluationJob, EventTypes
    <3> HIDE DEF j, rest
    <3> QED BY <1>1, <1>7, <2>1, <3>1, <3>2 DEF SameTask, Advances
  <2>6. CASE ~SameDefinition(job[w].reg, job[w].role, Head(job[w].claims))
    <3> DEFINE j == [job[w] EXCEPT !.pc = "number", !.event = "failed"]
    <3>1. job' = [job EXCEPT ![w] = j]
      BY <1>7, <2>6 DEF Record
    <3>2. j \in EvaluationJob /\ j.pc = "number" /\ j.event = "failed" /\ j.claims = job[w].claims
          /\ j.reg = job[w].reg /\ j.role = job[w].role /\ j.days = job[w].days
          /\ j.attempt = job[w].attempt /\ j.class = job[w].class
      BY <2>1 DEF EvaluationJob, EventTypes
    <3> HIDE DEF j
    <3> QED BY <1>1, <1>7, <2>1, <3>1, <3>2 DEF SameTask, Advances
  <2> QED BY <2>5, <2>6
<1>8. CASE Crash(w)
  <2>1. job[w] # Idle /\ job' = [job EXCEPT ![w] = Idle]
    BY <1>8 DEF Crash
  <2> QED BY <1>0, <2>1
<1> QED BY <1>2, <1>3, <1>4, <1>5, <1>6, <1>7, <1>8 DEF Step

-----------------------------------------------------------------------------
(* Which steps change what.                                                 *)

Registering == \E p \in Proposals : Register(p)
Studying == \/ \E d \in StudyDays, c \in Claimed, segment \in {"development", "validation"} :
                   StudyLoad(d, c, segment)
            \/ \E d \in StudyDays : StudyGenerate(d)

LEMMA StepLeaves ==
    ASSUME ProspectiveTypeOK, NEW w \in Evaluators, Step(w)
    PROVE  /\ clock' = clock /\ shards' = shards /\ regs' = regs /\ ledger' = ledger
           /\ models' = models /\ study' = study /\ studies' = studies
           /\ log' = log \/ (Writes(w) /\ log' = [log EXCEPT ![job[w].reg] = Append(@, NewEvent(w))])
           /\ runs' = runs \/ Record(w)
           /\ looks' = looks \/ ReadLabels(w)
           /\ fresh' = fresh \/ (Writes(w) /\ fresh' = fresh \cup {job[w].attempt})
           /\ (overlapped' = overlapped /\ attempts' = attempts) \/ Launches(w)
           /\ crashes' = crashes \/ (crashes < MaxCrashes /\ crashes' = crashes + 1)
<1>1. CASE \E id \in Registered : \E role \in Roles(id) :
             Begin(w, id, role) \/ BeginTruffles(w, id, role)
  <2>1. Launches(w)
    BY <1>1, LaunchFacts
  <2>2. PICK id \in Registered : \E role \in Roles(id) : \E class \in Classes :
           Start(w, id, role, class)
    BY <2>1 DEF Launches
  <2> QED BY <2>1, <2>2 DEF Start
<1>2. CASE TakeNumber(w) \/ CheckAccess(w) \/ ReadLabels(w) \/ Record(w) \/ Crash(w)
  BY <1>2 DEF TakeNumber, CheckAccess, ReadLabels, Record, Crash
<1>3. CASE AppendEvent(w)
  <2>1. CASE Writes(w)
    BY <1>3, <2>1 DEF AppendEvent, Writes, NewEvent
  <2>2. CASE ~Writes(w)
    BY <1>3, <2>2 DEF AppendEvent, Writes
  <2> QED BY <2>1, <2>2
<1> QED BY <1>1, <1>2, <1>3 DEF Step

Aside == \/ Tick \/ \E d \in ShardDays : Preserve(d)
         \/ Studying \/ StudyRead \/ Derive \/ SyncModels \/ UNCHANGED vars

LEMMA AsideLeaves ==
    ASSUME Aside
    PROVE  /\ regs' = regs /\ log' = log /\ job' = job /\ fresh' = fresh
           /\ overlapped' = overlapped /\ attempts' = attempts /\ crashes' = crashes
           /\ Tick \/ clock' = clock
           /\ (\E d \in ShardDays : Preserve(d)) \/ shards' = shards
           /\ Studying \/ StudyRead \/ study' = study
           /\ Studying \/ studies' = studies
           /\ StudyRead \/ (runs' = runs /\ looks' = looks)
           /\ Derive \/ ledger' = ledger
           /\ SyncModels \/ models' = models
<1>1. CASE Tick
  BY <1>1 DEF Tick, evaluation
<1>2. CASE \E d \in ShardDays : Preserve(d)
  BY <1>2 DEF Preserve, evaluation
<1>3. CASE Studying
  BY <1>3 DEF Studying, StudyLoad, StudyGenerate, evaluation
<1>4. CASE StudyRead
  BY <1>4 DEF StudyRead
<1>5. CASE Derive \/ SyncModels
  BY <1>5 DEF Derive, SyncModels, evaluation
<1>6. CASE UNCHANGED vars
  BY <1>6 DEF vars
<1> QED BY <1>1, <1>2, <1>3, <1>4, <1>5, <1>6 DEF Aside

LEMMA RegisteringLeaves ==
    ASSUME Registering
    PROVE  /\ clock' = clock /\ shards' = shards /\ runs' = runs /\ ledger' = ledger
           /\ models' = models /\ job' = job /\ study' = study /\ looks' = looks
           /\ fresh' = fresh /\ overlapped' = overlapped /\ attempts' = attempts
           /\ crashes' = crashes /\ studies' = studies
BY DEF Registering, Register

LEMMA ThreeKinds ==
    ASSUME [Next]_vars
    PROVE  (\E w \in Evaluators : Step(w)) \/ Registering \/ Aside
BY DEF Next, Registering, Studying, Aside

LEMMA RegisterFacts ==
    ASSUME ProspectiveTypeOK, NEW p \in Proposals, Register(p)
    PROVE  /\ p.id \in Ids /\ p.id \notin Registered /\ Proposal(p.id) = p
           /\ Registered' = Registered \cup {p.id} /\ DOMAIN log' = Registered'
           /\ \A id \in Registered : regs'[id] = regs[id] /\ log'[id] = log[id]
           /\ regs'[p.id] = shards /\ log'[p.id] = <<>> /\ Range(log'[p.id]) = {}
           /\ \A role \in Roles(p.id) : /\ clock < Part(p.id, role).from
                                        /\ Part(p.id, role).from < Part(p.id, role).to
<1>1. p.id \in Ids /\ Proposal(p.id) = p
  BY ProposalFacts
<1>2. /\ p.id \notin Registered
      /\ regs' = [id \in Registered \cup {p.id} |-> IF id = p.id THEN shards ELSE regs[id]]
      /\ log' = [id \in Registered \cup {p.id} |-> IF id = p.id THEN <<>> ELSE log[id]]
      /\ ~PartitionProblems(p)
  BY DEF Register
<1>3. ASSUME NEW role \in Roles(p.id)
      PROVE  clock < Part(p.id, role).from /\ Part(p.id, role).from < Part(p.id, role).to
  <2> DEFINE v == p.parts["validation"]
             part == p.parts[role]
  <2>1. /\ role \in DOMAIN p.parts /\ part = Part(p.id, role)
        /\ DOMAIN p.parts \in {{"validation"}, {"validation", "holdout"}}
    BY <1>1, ProspectiveAssumption DEF Roles, Part
  <2>2. v \in [from : Nat, to : Nat] /\ part \in [from : Nat, to : Nat] /\ clock \in Nat
    BY <2>1, ProspectiveAssumption DEF ProspectiveTypeOK, Days
  <2>3. /\ ~(v.from < clock + 1) /\ ~(part.to <= part.from) /\ ~(v.to <= v.from)
        /\ role = "holdout" => ~(part.from - v.to < 1)
    BY <1>2, <2>1 DEF PartitionProblems, EarliestStart, EmbargoDays
  <2>4. role = "validation" \/ role = "holdout"
    BY <2>1
  <2> HIDE DEF v, part
  <2>5. role = "validation" => part = v
    BY DEF v, part
  <2>6. clock < part.from
    BY <2>2, <2>3, <2>4, <2>5
  <2>7. part.from < part.to
    BY <2>2, <2>3
  <2> QED BY <2>1, <2>6, <2>7
<1>4. Registered' = Registered \cup {p.id} /\ DOMAIN log' = Registered'
  <2>1. DOMAIN regs' = Registered \cup {p.id} /\ DOMAIN log' = Registered \cup {p.id}
    BY <1>2
  <2> QED BY <2>1 DEF Registered
<1>5. \A id \in Registered : regs'[id] = regs[id] /\ log'[id] = log[id]
  BY <1>2
<1>6. regs'[p.id] = shards /\ log'[p.id] = <<>>
  BY <1>2
<1>7. Range(log'[p.id]) = {}
  BY <1>6 DEF Range
<1> QED BY <1>1, <1>2, <1>3, <1>4, <1>5, <1>6, <1>7

(* An event is appended to the log of the evaluator's registration.         *)
LEMMA WriteFacts ==
    ASSUME ProspectiveTypeOK, JobsPlaced, NEW w \in Evaluators, Writes(w)
    PROVE  /\ job[w] # Idle /\ job[w] \in EvaluationJob /\ job[w].reg \in Registered
           /\ job[w].pc = "append"
           /\ NewEvent(w) \in Event
           /\ log' = [log EXCEPT ![job[w].reg] = Append(@, NewEvent(w))]
           /\ log'[job[w].reg] = Append(log[job[w].reg], NewEvent(w))
           /\ Range(log'[job[w].reg]) = Range(log[job[w].reg]) \cup {NewEvent(w)}
           /\ \A id \in Registered \ {job[w].reg} : log'[id] = log[id]
           /\ regs' = regs
<1>1. job[w].pc = "append" /\ job[w] # Idle /\ job[w] \in EvaluationJob /\ job[w].reg \in Registered
  BY JobFacts DEF Writes, AppendEvent, JobsPlaced
<1>2. log' = [log EXCEPT ![job[w].reg] = Append(@, NewEvent(w))] /\ regs' = regs
  BY DEF Writes, AppendEvent, NewEvent
<1>3. NewEvent(w) \in Event
  BY <1>1 DEF NewEvent, EvaluationJob, Event
<1>4. log[job[w].reg] \in Seq(Event)
  BY <1>1, EventFacts
<1>5. log'[job[w].reg] = Append(log[job[w].reg], NewEvent(w))
  BY <1>1, <1>2 DEF ProspectiveTypeOK
<1>6. Range(log'[job[w].reg]) = Range(log[job[w].reg]) \cup {NewEvent(w)}
  BY <1>4, <1>5, AppendRange
<1>7. \A id \in Registered \ {job[w].reg} : log'[id] = log[id]
  BY <1>2 DEF ProspectiveTypeOK
<1> QED BY <1>1, <1>2, <1>3, <1>5, <1>6, <1>7

-----------------------------------------------------------------------------
(* Type correctness.                                                        *)

LEMMA RunTypes ==
    ASSUME ProspectiveTypeOK, NEW j \in EvaluationJob, j.claims # <<>>, NEW found \in Findings(j)
    PROVE  /\ Run(j, found) \in RunRecord /\ TruffleRun(j, found) \in RunRecord
           /\ Run(j, found).kind = "prospective" /\ TruffleRun(j, found).kind = "truffles"
           /\ Run(j, found).id[1] = j.reg /\ TruffleRun(j, found).id[1] = j.reg
           /\ Run(j, found).attempt = j.attempt /\ TruffleRun(j, found).attempt = j.attempt
           /\ Run(j, found).independence = j.class
           /\ TruffleRun(j, found).independence = j.class
           /\ Run(j, found).at = Cardinality(runs) + 1
           /\ TruffleRun(j, found).at = Cardinality(runs) + 1
<1>1. Cardinality(runs) + 1 \in Nat
  BY FS_CardinalityType DEF ProspectiveTypeOK
<1>2. Head(j.claims) \in AllClaims
  BY DEF EvaluationJob
<1>3. found.verdict \in {"positive_evidence", "negative_evidence", "inconclusive",
                        "insufficient_data"}
  <2>1. PICK p \in Proposals : Head(j.claims) \in Range(p.claims)
    BY <1>2 DEF AllClaims
  <2>2. Reports[Head(j.claims)] \subseteq
            [verdict : {"positive_evidence", "negative_evidence", "inconclusive",
                        "insufficient_data"},
             adjusted : {<<>>} \cup (Int \X Int)]
    BY <2>1, ProspectiveAssumption
  <2> QED BY <2>2 DEF Findings, TooFewDays
<1>4. Run(j, found) \in RunRecord
  BY <1>1, <1>2, <1>3 DEF Run, RunRecord, EvaluationJob
<1>5. Decide(found.verdict, found.adjusted) \in
        {"insufficient_evidence", "inconclusive", "consistent_with_improvement",
         "inconsistent_with_improvement"}
  BY DEF Decide
<1>6. TruffleRun(j, found) \in RunRecord
  <2>1. Run(j, found) \in RunRecord
    BY <1>4
  <2> HIDE DEF Run
  <2> QED BY <1>5, <2>1 DEF TruffleRun, RunRecord
<1>7. /\ Run(j, found).kind = "prospective" /\ Run(j, found).id[1] = j.reg
      /\ Run(j, found).attempt = j.attempt /\ Run(j, found).independence = j.class
      /\ Run(j, found).at = Cardinality(runs) + 1
  BY DEF Run
<1>8. /\ TruffleRun(j, found).kind = "truffles"
      /\ TruffleRun(j, found).id = Run(j, found).id
      /\ TruffleRun(j, found).attempt = Run(j, found).attempt
      /\ TruffleRun(j, found).independence = Run(j, found).independence
      /\ TruffleRun(j, found).at = Run(j, found).at
  BY <1>4 DEF TruffleRun, RunRecord
<1> QED BY <1>4, <1>6, <1>7, <1>8

\* What a step adds to the runs.
LEMMA RunsMove ==
    ASSUME ProspectiveTypeOK, JobsPlaced, [Next]_vars
    PROVE  \/ runs' = runs
           \/ \E w \in Evaluators, run \in RunRecord :
                /\ Step(w) /\ job[w] # Idle /\ job[w].pc = "record" /\ runs' = runs \cup {run}
                /\ run.id[1] = job[w].reg /\ run.attempt = job[w].attempt
                /\ run.independence = job[w].class /\ run.at = Cardinality(runs) + 1
           \/ \E run \in RunRecord :
                /\ StudyRead /\ runs' = runs \cup {run}
                /\ run.kind = study.run.kind /\ run.independence = study.run.independence
                /\ run.attempt = study.run.attempt /\ run.at = Cardinality(runs) + 1
                /\ study.run \in RunRecord
<1>1. CASE \E w \in Evaluators : Step(w)
  <2>1. PICK w \in Evaluators : Step(w)
    BY <1>1
  <2>2. CASE Record(w)
    <3>1. /\ job[w].pc = "record" /\ job[w] # Idle /\ job[w] \in EvaluationJob
          /\ job[w].claims # <<>>
      BY <2>2, JobFacts DEF Record, JobsPlaced
    <3>2. runs' = runs \/ \E found \in Findings(job[w]) :
              runs' = runs \cup {Run(job[w], found)} \/ runs' = runs \cup {TruffleRun(job[w], found)}
      BY <2>2 DEF Record
    <3>3. CASE \E found \in Findings(job[w]) :
              runs' = runs \cup {Run(job[w], found)} \/ runs' = runs \cup {TruffleRun(job[w], found)}
      <4>1. PICK found \in Findings(job[w]) :
              runs' = runs \cup {Run(job[w], found)} \/ runs' = runs \cup {TruffleRun(job[w], found)}
        BY <3>3
      <4> QED BY <2>1, <3>1, <4>1, RunTypes
    <3> QED BY <3>2, <3>3
  <2> QED BY <2>1, <2>2, StepLeaves
<1>2. CASE StudyRead
  <2>1. study \in [kind : {"load", "generate"}, day : Days, run : RunRecord \cup {NoRun}]
    BY <1>2 DEF StudyRead, ProspectiveTypeOK
  <2>2. CASE study.run = NoRun
    <3>1. {study.run} \ {NoRun} = {}
      BY <2>2
    <3> QED BY <1>2, <3>1 DEF StudyRead
  <2>3. CASE study.run # NoRun
    <3> DEFINE run == [study.run EXCEPT !.at = Cardinality(runs) + 1]
    <3>1. {study.run} \ {NoRun} = {study.run} /\ study.run \in RunRecord
      BY <2>1, <2>3
    <3>2. runs' = runs \cup {run}
      BY <1>2, <3>1 DEF StudyRead
    <3>3. Cardinality(runs) + 1 \in Nat
      BY FS_CardinalityType DEF ProspectiveTypeOK
    <3>4. /\ run \in RunRecord /\ run.kind = study.run.kind
          /\ run.independence = study.run.independence
          /\ run.attempt = study.run.attempt /\ run.at = Cardinality(runs) + 1
      BY <3>1, <3>3 DEF RunRecord
    <3> QED BY <1>2, <3>1, <3>2, <3>4
  <2> QED BY <2>2, <2>3
<1> QED BY <1>1, <1>2, ThreeKinds, AsideLeaves, RegisteringLeaves

LEMMA StudyingFacts ==
    ASSUME ProspectiveTypeOK, Studying
    PROVE  /\ study' \in [kind : {"load", "generate"}, day : Days, run : RunRecord \cup {NoRun}]
           /\ MayRead({study'.day}, {})
           /\ study'.day \in shards \/ study'.day < clock
           /\ study'.run # NoRun => /\ study'.run.kind = "comparison"
                                    /\ study'.run.independence = None
                                    /\ study'.run.attempt = 0
           /\ studies < MaxStudies /\ studies' = studies + 1
<1>1. CASE \E d \in StudyDays, c \in Claimed, segment \in {"development", "validation"} :
              StudyLoad(d, c, segment)
  <2>1. PICK d \in StudyDays, c \in Claimed, segment \in {"development", "validation"} :
           StudyLoad(d, c, segment)
    BY <1>1
  <2>2. /\ study' = [kind |-> "load", day |-> d, run |-> StudyRun(d, c, segment)]
        /\ MayRead({d}, {}) /\ d \in shards /\ studies < MaxStudies /\ studies' = studies + 1
    BY <2>1 DEF StudyLoad
  <2>3. d \in Days /\ c \in AllClaims
    BY Constants
  <2>4. ValidationReuse(d) \in BOOLEAN
    BY DEF ValidationReuse
  <2>5. /\ StudyRun(d, c, segment) \in RunRecord
        /\ StudyRun(d, c, segment).kind = "comparison" /\ StudyRun(d, c, segment).independence = None
        /\ StudyRun(d, c, segment).attempt = 0
    <3> HIDE DEF ValidationReuse
    <3>1. 0 \in 0..MaxAttempts /\ 0 \in Nat
      BY Constants
    <3> QED BY <2>3, <2>4, <3>1 DEF StudyRun, RunRecord, RoleNames
  <2> HIDE DEF StudyRun
  <2> QED BY <2>2, <2>3, <2>5
<1>2. CASE \E d \in StudyDays : StudyGenerate(d)
  <2>1. PICK d \in StudyDays : StudyGenerate(d)
    BY <1>2
  <2>2. /\ study' = [kind |-> "generate", day |-> d, run |-> NoRun]
        /\ MayRead({d}, {}) /\ d < clock /\ studies < MaxStudies /\ studies' = studies + 1
    BY <2>1 DEF StudyGenerate
  <2> QED BY <2>2, Constants DEF Days
<1> QED BY <1>1, <1>2 DEF Studying

LEMMA CitedTypes ==
    ASSUME ProspectiveTypeOK
    PROVE  /\ DeriveLedger \in [Claimed -> [status : [knowledge : KnowledgeNames,
                                                      validation : ValidationNames],
                                            cited : SUBSET RunRecord]]
           /\ DeriveModels \in [policies : [Policies -> ModelNames], ranking : ModelNames]
<1>1. ASSUME NEW c \in Claimed
      PROVE  Entry(c) \in [status : [knowledge : KnowledgeNames, validation : ValidationNames],
                           cited : SUBSET RunRecord]
  <2>1. CampaignRuns(c) \in SUBSET RunRecord
    BY DEF CampaignRuns, ProspectiveTypeOK
  <2> HIDE DEF CampaignRuns
  <2> QED BY <2>1, KnowledgeStatusType DEF Entry
<1>2. DeriveLedger \in [Claimed -> [status : [knowledge : KnowledgeNames,
                                              validation : ValidationNames],
                                    cited : SUBSET RunRecord]]
  <2> HIDE DEF Entry
  <2> QED BY <1>1 DEF DeriveLedger
<1>3. DeriveModels \in [policies : [Policies -> ModelNames], ranking : ModelNames]
  BY ModelStatusType DEF DeriveModels
<1> QED BY <1>2, <1>3

LEMMA InitNothing ==
    ASSUME Init
    PROVE  Registered = {} /\ DOMAIN log = {} /\ runs = {}
BY DEF Init, Registered

LEMMA ProspectiveTypeInit == Init => ProspectiveTypeOK /\ JobsPlaced
<1> SUFFICES ASSUME Init PROVE ProspectiveTypeOK /\ JobsPlaced
  OBVIOUS
<1>1. Registered = {} /\ regs \in [Registered -> SUBSET ShardDays] /\ log \in [Registered -> Seq(Event)]
  <2>1. \A S : <<>> \in [{} -> S]
    <3>1. ASSUME NEW S
          PROVE  <<>> = [x \in {} |-> {}]
      OBVIOUS
    <3> QED BY <3>1
  <2> QED BY <2>1, InitNothing DEF Init
<1>2. runs \subseteq RunRecord /\ IsFiniteSet(runs)
  BY FS_EmptySet DEF Init
<1>3. ledger = DeriveLedger /\ models = DeriveModels
  BY DEF Init
<1>4. ledger \in [Claimed -> [status : [knowledge : KnowledgeNames,
                                         validation : ValidationNames],
                               cited : SUBSET RunRecord]]
  <2>1. ASSUME NEW c \in Claimed
        PROVE  Entry(c) \in [status : [knowledge : KnowledgeNames, validation : ValidationNames],
                             cited : SUBSET RunRecord]
    <3>1. CampaignRuns(c) \in SUBSET RunRecord
      BY <1>2 DEF CampaignRuns
    <3> HIDE DEF CampaignRuns
    <3> QED BY <3>1, KnowledgeStatusType DEF Entry
  <2> HIDE DEF Entry
  <2> QED BY <1>3, <2>1 DEF DeriveLedger
<1>5. models \in [policies : [Policies -> ModelNames], ranking : ModelNames]
  BY <1>3, ModelStatusType DEF DeriveModels
<1>6. /\ clock \in Days /\ attempts \in 0..MaxAttempts /\ crashes \in 0..MaxCrashes
      /\ studies \in 0..MaxStudies
  BY Constants DEF Init, Days
<1>7. /\ shards \subseteq ShardDays /\ job \in [Evaluators -> EvaluationJob \cup {Idle}]
      /\ looks \subseteq [day : Days, by : Ids \cup {"research"}]
      /\ fresh \subseteq 1..MaxAttempts /\ overlapped \in BOOLEAN /\ study = NoStudy
      /\ \A w \in Evaluators : job[w] = Idle
  BY DEF Init
<1> QED BY <1>1, <1>2, <1>4, <1>5, <1>6, <1>7 DEF ProspectiveTypeOK, JobsPlaced

LEMMA DiskTypeStep ==
    ASSUME ProspectiveTypeOK, JobsPlaced, [Next]_vars
    PROVE  /\ clock' \in Days /\ shards' \subseteq ShardDays /\ Registered' \subseteq Ids
           /\ Registered \subseteq Registered'
           /\ regs' \in [Registered' -> SUBSET ShardDays] /\ log' \in [Registered' -> Seq(Event)]
<1>1. /\ clock \in Days /\ shards \subseteq ShardDays /\ Registered \subseteq Ids
      /\ regs \in [Registered -> SUBSET ShardDays] /\ log \in [Registered -> Seq(Event)]
  BY DEF ProspectiveTypeOK
<1>2. CASE regs' = regs /\ log' = log
  <2>1. clock' \in Days
    <3>1. CASE Tick
      BY <1>1, <3>1, Constants DEF Tick, Days
    <3> QED BY <1>1, <3>1, ThreeKinds, StepLeaves, RegisteringLeaves, AsideLeaves
  <2>2. shards' \subseteq ShardDays
    <3>1. CASE \E d \in ShardDays : Preserve(d)
      BY <1>1, <3>1 DEF Preserve
    <3> QED BY <1>1, <3>1, ThreeKinds, StepLeaves, RegisteringLeaves, AsideLeaves
  <2> QED BY <1>1, <1>2, <2>1, <2>2 DEF Registered
<1>3. CASE \E w \in Evaluators : Writes(w) /\ Step(w)
  <2>1. PICK w \in Evaluators : Writes(w) /\ Step(w)
    BY <1>3
  <2>2. /\ clock' = clock /\ shards' = shards /\ regs' = regs /\ Registered' = Registered
        /\ log' = [log EXCEPT ![job[w].reg] = Append(@, NewEvent(w))]
        /\ job[w].reg \in Registered /\ NewEvent(w) \in Event
    BY <2>1, StepLeaves, WriteFacts DEF Registered
  <2>3. Append(log[job[w].reg], NewEvent(w)) \in Seq(Event)
    BY <1>1, <2>2
  <2> QED BY <1>1, <2>2, <2>3
<1>4. CASE Registering
  <2>1. PICK p \in Proposals : Register(p)
    BY <1>4 DEF Registering
  <2>2. /\ clock' = clock /\ shards' = shards
        /\ regs' = [id \in Registered \cup {p.id} |-> IF id = p.id THEN shards ELSE regs[id]]
        /\ log' = [id \in Registered \cup {p.id} |-> IF id = p.id THEN <<>> ELSE log[id]]
    BY <2>1 DEF Register
  <2>3. Registered' = Registered \cup {p.id} /\ p.id \in Ids
    BY <2>1, RegisterFacts
  <2>4. <<>> \in Seq(Event)
    OBVIOUS
  <2> QED BY <1>1, <2>2, <2>3, <2>4
<1> QED BY <1>2, <1>3, <1>4, ThreeKinds, StepLeaves, AsideLeaves

LEMMA ProspectiveTypeStep ==
    ASSUME ProspectiveTypeOK, JobsPlaced, [Next]_vars
    PROVE  ProspectiveTypeOK' /\ JobsPlaced'
<1>1. runs' \subseteq RunRecord /\ IsFiniteSet(runs')
  <2>1. runs \subseteq RunRecord /\ IsFiniteSet(runs)
    BY DEF ProspectiveTypeOK
  <2>2. \A run \in RunRecord : runs' = runs \cup {run} => runs' \subseteq RunRecord /\ IsFiniteSet(runs')
    BY <2>1, FS_AddElement
  <2> QED BY <2>1, <2>2, RunsMove
<1>2. ledger' \in [Claimed -> [status : [knowledge : KnowledgeNames,
                                         validation : ValidationNames],
                               cited : SUBSET RunRecord]]
  <2>1. CASE Derive
    BY <2>1, CitedTypes DEF Derive, AppendRevision
  <2> QED BY <2>1, ThreeKinds, StepLeaves, RegisteringLeaves, AsideLeaves DEF ProspectiveTypeOK
<1>3. models' \in [policies : [Policies -> ModelNames], ranking : ModelNames]
  <2>1. CASE SyncModels
    BY <2>1, CitedTypes DEF SyncModels
  <2> QED BY <2>1, ThreeKinds, StepLeaves, RegisteringLeaves, AsideLeaves DEF ProspectiveTypeOK
<1>4. job' \in [Evaluators -> EvaluationJob \cup {Idle}]
  BY ThreeKinds, JobMoves, RegisteringLeaves, AsideLeaves DEF ProspectiveTypeOK
<1>5. study' \in {NoStudy} \cup [kind : {"load", "generate"}, day : Days, run : RunRecord \cup {NoRun}]
  <2>1. CASE StudyRead
    BY <2>1 DEF StudyRead
  <2> QED BY <2>1, StudyingFacts, ThreeKinds, StepLeaves, RegisteringLeaves, AsideLeaves
         DEF ProspectiveTypeOK
<1>6. looks' \subseteq [day : Days, by : Ids \cup {"research"}]
  <2>1. looks \subseteq [day : Days, by : Ids \cup {"research"}]
    BY DEF ProspectiveTypeOK
  <2>2. ASSUME NEW w \in Evaluators, ReadLabels(w)
        PROVE  looks' \subseteq [day : Days, by : Ids \cup {"research"}]
    <3>1. /\ looks' = looks \cup {[day |-> d, by |-> job[w].reg] : d \in job[w].days}
          /\ job[w] \in EvaluationJob
      BY <2>2, JobFacts DEF ReadLabels
    <3>2. job[w].days \subseteq Days /\ job[w].reg \in Ids
      BY <3>1 DEF EvaluationJob
    <3> QED BY <2>1, <3>1, <3>2
  <2>3. CASE StudyRead
    <3>1. study.day \in Days /\ looks' = looks \cup {[day |-> study.day, by |-> "research"]}
      BY <2>3 DEF StudyRead, ProspectiveTypeOK
    <3> QED BY <2>1, <3>1
  <2> QED BY <2>1, <2>2, <2>3, ThreeKinds, StepLeaves, RegisteringLeaves, AsideLeaves
<1>7. fresh' \subseteq 1..MaxAttempts
  <2>1. fresh \subseteq 1..MaxAttempts
    BY DEF ProspectiveTypeOK
  <2>2. ASSUME NEW w \in Evaluators, Writes(w), fresh' = fresh \cup {job[w].attempt}
        PROVE  fresh' \subseteq 1..MaxAttempts
    BY <2>1, <2>2, WriteFacts DEF EvaluationJob
  <2> QED BY <2>1, <2>2, ThreeKinds, StepLeaves, RegisteringLeaves, AsideLeaves
<1>8. overlapped' \in BOOLEAN /\ attempts' \in 0..MaxAttempts
  <2>1. overlapped \in BOOLEAN /\ attempts \in 0..MaxAttempts
    BY DEF ProspectiveTypeOK
  <2>2. ASSUME NEW w \in Evaluators, Launches(w)
        PROVE  overlapped' \in BOOLEAN /\ attempts' \in 0..MaxAttempts
    <3>1. PICK id \in Registered : \E role \in Roles(id) : \E class \in Classes :
             Start(w, id, role, class)
      BY <2>2 DEF Launches
    <3>2. PICK role \in Roles(id), class \in Classes : Start(w, id, role, class)
      BY <3>1
    <3>3. attempts' \in 1..MaxAttempts
      BY <3>2, StartFacts
    <3>4. overlapped' \in BOOLEAN
      BY <2>1, <3>2 DEF Start
    <3>5. 1..MaxAttempts \subseteq 0..MaxAttempts
      BY Constants
    <3> QED BY <3>3, <3>4, <3>5
  <2> QED BY <2>1, <2>2, ThreeKinds, StepLeaves, RegisteringLeaves, AsideLeaves
<1>9. crashes' \in 0..MaxCrashes /\ studies' \in 0..MaxStudies
  <2>1. crashes \in 0..MaxCrashes /\ studies \in 0..MaxStudies
    BY DEF ProspectiveTypeOK
  <2>2. crashes' = crashes \/ (crashes < MaxCrashes /\ crashes' = crashes + 1)
    BY ThreeKinds, StepLeaves, RegisteringLeaves, AsideLeaves
  <2>3. studies' = studies \/ (studies < MaxStudies /\ studies' = studies + 1)
    BY ThreeKinds, StepLeaves, RegisteringLeaves, AsideLeaves, StudyingFacts
  <2> QED BY <2>1, <2>2, <2>3, Constants
<1>10. JobsPlaced'
  <2> SUFFICES ASSUME NEW x \in Evaluators, job'[x] # Idle
               PROVE  /\ job'[x].reg \in Registered' /\ job'[x].role \in Roles(job'[x].reg)
                      /\ job'[x].pc \in {"check", "read", "record"} => job'[x].event = "started"
                      /\ job'[x].event # "completed" => job'[x].claims # <<>>
    BY DEF JobsPlaced
  <2>1. Registered \subseteq Registered'
    BY DiskTypeStep
  <2>2. CASE job'[x] = job[x]
    BY <2>1, <2>2 DEF JobsPlaced
  <2>3. CASE job'[x] # job[x]
    <3>1. PICK w \in Evaluators : Step(w)
      BY <2>3, ThreeKinds, RegisteringLeaves, AsideLeaves
    <3>2. x = w
      BY <2>3, <3>1, JobMoves
    <3>3. CASE Launches(x)
      <4>1. PICK id \in Registered : \E role \in Roles(id) : \E class \in Classes :
               Start(x, id, role, class)
        BY <3>3 DEF Launches
      <4>2. PICK role \in Roles(id), class \in Classes : Start(x, id, role, class)
        BY <4>1
      <4>3. job'[x] = Evaluation(id, role, Present(id, role), class) /\ Proposal(id).claims # <<>>
        BY <4>2, StartFacts
      <4>4. /\ job'[x].pc = "number" /\ job'[x].reg = id /\ job'[x].role = role
            /\ job'[x].claims # <<>>
        BY <4>3 DEF Evaluation
      <4> QED BY <2>1, <4>4
    <3>4. CASE job[x] # Idle /\ job'[x] \in EvaluationJob /\ SameTask(x) /\ Advances(x)
      <4>1. /\ job[x].reg \in Registered /\ job[x].role \in Roles(job[x].reg)
            /\ job[x].pc \in {"check", "read", "record"} => job[x].event = "started"
            /\ job[x].event # "completed" => job[x].claims # <<>>
        BY <3>4 DEF JobsPlaced
      <4>2. job'[x].reg \in Registered' /\ job'[x].role \in Roles(job'[x].reg)
        BY <2>1, <3>4, <4>1 DEF SameTask
      <4> QED BY <3>4, <4>1, <4>2 DEF Advances
    <3> QED BY <3>1, <3>2, <3>3, <3>4, JobMoves
  <2> QED BY <2>2, <2>3
<1> QED
  BY <1>1, <1>2, <1>3, <1>4, <1>5, <1>6, <1>7, <1>8, <1>9, <1>10, DiskTypeStep
     DEF ProspectiveTypeOK

(* The types of every variable: an evaluation's record, the exposure log's  *)
(* events, the runs and both ledgers, whatever order the commands run in.   *)
THEOREM ProspectiveTypeCorrect == Spec => []ProspectiveTypeOK
<1>1. Init => ProspectiveTypeOK /\ JobsPlaced
  BY ProspectiveTypeInit
<1>2. ProspectiveTypeOK /\ JobsPlaced /\ [Next]_vars => ProspectiveTypeOK' /\ JobsPlaced'
  BY ProspectiveTypeStep
<1> QED BY <1>1, <1>2, PTL DEF Spec

-----------------------------------------------------------------------------
(* How the log, the registrations and the jobs change together.             *)

AwaitsStart(j) == j.pc \in {"number", "append"} /\ j.event \in {"authorized", "started"}
StartedBy(id, a) == \E e \in Range(log[id]) : e.type = "started" /\ e.attempt = a
StartedFor(id, role) == \E e \in Range(log[id]) : e.type = "started" /\ e.role = role
CompletedFor(id, role) == \E e \in Range(log[id]) : e.type = "completed" /\ e.role = role
Busy == {w \in Evaluators : job[w] # Idle}

LEMMA OneMover ==
    ASSUME ProspectiveTypeOK, JobsPlaced, NEW w \in Evaluators, NEW x \in Evaluators,
           Step(w), Step(x)
    PROVE  w = x
<1> SUFFICES ASSUME w # x PROVE FALSE
  OBVIOUS
<1>1. job'[x] = job[x]
  BY JobMoves
<1>2. job'[x] \in EvaluationJob => job'[x] # Idle
  BY DEF EvaluationJob, Idle
<1>3. Advances(x) => job'[x].pc # job[x].pc
  BY DEF Advances
<1> QED BY <1>1, <1>2, <1>3, JobMoves DEF Launches

LEMMA JobChanges ==
    ASSUME ProspectiveTypeOK, JobsPlaced, [Next]_vars, NEW x \in Evaluators, job'[x] # Idle
    PROVE  \/ ~Step(x) /\ job'[x] = job[x]
           \/ Step(x) /\ Launches(x) /\ job'[x] \in EvaluationJob
           \/ Step(x) /\ job[x] # Idle /\ job'[x] \in EvaluationJob /\ SameTask(x) /\ Advances(x)
BY ThreeKinds, JobMoves, AsideLeaves, RegisteringLeaves

LEMMA LogMoves ==
    ASSUME ProspectiveTypeOK, JobsPlaced, [Next]_vars
    PROVE  /\ Registered \subseteq Registered'
           /\ \A id \in Registered :
                \/ log'[id] = log[id]
                \/ \E w \in Evaluators :
                     /\ Step(w) /\ Writes(w) /\ job[w].reg = id
                     /\ log'[id] = Append(log[id], NewEvent(w))
                     /\ Range(log'[id]) = Range(log[id]) \cup {NewEvent(w)}
           /\ \A id \in Registered' \ Registered :
                /\ Registering /\ id \in Ids /\ log'[id] = <<>> /\ Range(log'[id]) = {}
                /\ \A role \in Roles(id) : /\ clock < Part(id, role).from
                                           /\ Part(id, role).from < Part(id, role).to
<1>1. CASE regs' = regs /\ log' = log
  BY <1>1 DEF Registered
<1>2. CASE \E w \in Evaluators : Step(w) /\ Writes(w)
  <2>1. PICK w \in Evaluators : Step(w) /\ Writes(w)
    BY <1>2
  <2>2. Registered' = Registered
    BY <2>1, WriteFacts DEF Registered
  <2>3. /\ \A id \in Registered \ {job[w].reg} : log'[id] = log[id]
        /\ log'[job[w].reg] = Append(log[job[w].reg], NewEvent(w))
        /\ Range(log'[job[w].reg]) = Range(log[job[w].reg]) \cup {NewEvent(w)}
    BY <2>1, WriteFacts
  <2> QED BY <2>1, <2>2, <2>3
<1>3. CASE Registering
  <2>1. PICK p \in Proposals : Register(p)
    BY <1>3 DEF Registering
  <2>2. /\ p.id \in Ids /\ Registered' = Registered \cup {p.id}
        /\ \A id \in Registered : log'[id] = log[id]
        /\ log'[p.id] = <<>> /\ Range(log'[p.id]) = {}
        /\ \A role \in Roles(p.id) : /\ clock < Part(p.id, role).from
                                     /\ Part(p.id, role).from < Part(p.id, role).to
    BY <2>1, RegisterFacts
  <2> QED BY <1>3, <2>2
<1> QED BY <1>1, <1>2, <1>3, ThreeKinds, StepLeaves, AsideLeaves

\* Events are only ever added, by an evaluator that writes.
LEMMA LogGrows ==
    ASSUME ProspectiveTypeOK, JobsPlaced, [Next]_vars
    PROVE  /\ Registered \subseteq Registered'
           /\ \A id \in Registered : Range(log[id]) \subseteq Range(log'[id])
           /\ \A id \in Registered' : \A e \in Range(log'[id]) :
                id \in Registered /\
                (\/ e \in Range(log[id])
                 \/ \E w \in Evaluators : Step(w) /\ Writes(w) /\ job[w].reg = id /\ e = NewEvent(w))
<1>1. ASSUME NEW id \in Registered' \ Registered
      PROVE  Range(log'[id]) = {}
  BY LogMoves
<1>2. ASSUME NEW id \in Registered
      PROVE  /\ Range(log[id]) \subseteq Range(log'[id])
             /\ \A e \in Range(log'[id]) :
                  \/ e \in Range(log[id])
                  \/ \E w \in Evaluators : Step(w) /\ Writes(w) /\ job[w].reg = id /\ e = NewEvent(w)
  <2>1. CASE log'[id] = log[id]
    BY <2>1
  <2>2. ASSUME NEW w \in Evaluators, Step(w), Writes(w), job[w].reg = id,
               Range(log'[id]) = Range(log[id]) \cup {NewEvent(w)}
        PROVE  /\ Range(log[id]) \subseteq Range(log'[id])
               /\ \A e \in Range(log'[id]) :
                    \/ e \in Range(log[id])
                    \/ \E v \in Evaluators : Step(v) /\ Writes(v) /\ job[v].reg = id /\ e = NewEvent(v)
    BY <2>2
  <2> QED BY <2>1, <2>2, LogMoves
<1>3. Registered \subseteq Registered'
  BY LogMoves
<1> QED BY <1>1, <1>2, <1>3

-----------------------------------------------------------------------------
(* Registrations, days, attempts and the order of a job's events.           *)

\* A registered partition is not empty.
Registrations ==
    \A id \in Registered : \A role \in Roles(id) : Part(id, role).from < Part(id, role).to

\* Everything that is held, or was read, is of a day gone by.
DaysPast ==
    /\ \A d \in shards : d < clock
    /\ \A w \in Busy : \A d \in job[w].days : d < clock
    /\ study # NoStudy => study.day < clock
    /\ \A l \in looks : l.day < clock

\* A research command's run claims no independence, and is no attempt's.
StudyHeld ==
    study # NoStudy /\ study.run # NoRun =>
        /\ study.run.kind = "comparison" /\ study.run.independence = None
        /\ study.run.attempt = 0

\* An attempt's number is of one partition, and of one job.
EventsNumbered ==
    \A id \in Registered : \A e \in Range(log[id]) :
        /\ e.attempt <= attempts /\ e.role \in Roles(id)
        /\ \A other \in Registered : \A f \in Range(log[other]) :
              f.attempt = e.attempt => other = id /\ f.role = e.role
JobsNumbered ==
    \A w \in Busy :
        /\ job[w].attempt <= attempts
        /\ \A x \in Busy : job[x].attempt = job[w].attempt => x = w
        /\ \A id \in Registered : \A e \in Range(log[id]) :
              e.attempt = job[w].attempt => id = job[w].reg /\ e.role = job[w].role

\* A job is before its `started` event exactly while the log has none of it.
JobsStarted ==
    \A w \in Busy : AwaitsStart(job[w]) <=> ~StartedBy(job[w].reg, job[w].attempt)

StartedFirst ==
    \A id \in Registered : \A i \in DOMAIN log[id] : log[id][i].type = "completed" =>
        \E k \in 1..i : log[id][k].type = "started" /\ log[id][k].attempt = log[id][i].attempt

LEMMA RegistrationsStep ==
    ASSUME ProspectiveTypeOK, JobsPlaced, Registrations, [Next]_vars
    PROVE  Registrations'
BY LogMoves DEF Registrations

LEMMA DaysPastStep ==
    ASSUME ProspectiveTypeOK, JobsPlaced, DaysPast, [Next]_vars
    PROVE  DaysPast'
<1>1. /\ clock \in Nat /\ shards \subseteq Nat /\ clock' \in Nat
      /\ \A w \in Busy : job[w].days \subseteq Nat
      /\ study # NoStudy => study.day \in Nat
      /\ \A l \in looks : l.day \in Nat
  <2>1. Days \subseteq Nat
    BY DEF Days
  <2>2. \A w \in Busy : job[w].days \subseteq Nat
    BY <2>1, JobFacts DEF Busy, EvaluationJob
  <2>3. clock' \in Nat
    BY <2>1, DiskTypeStep
  <2> QED BY <2>1, <2>2, <2>3, Constants DEF ProspectiveTypeOK
<1>2. clock <= clock'
  BY <1>1, ThreeKinds, StepLeaves, RegisteringLeaves, AsideLeaves DEF Tick
<1>3. \A d \in Nat : d < clock => d < clock'
  BY <1>1, <1>2
<1>4. \A d \in shards' : d < clock'
  <2>1. CASE shards' = shards
    BY <1>1, <1>3, <2>1 DEF DaysPast
  <2>2. ASSUME NEW d \in ShardDays, Preserve(d)
        PROVE  \A x \in shards' : x < clock'
    BY <1>1, <1>3, <2>2 DEF DaysPast, Preserve
  <2> QED BY <2>1, <2>2, ThreeKinds, StepLeaves, RegisteringLeaves, AsideLeaves
<1>5. ASSUME NEW w \in Evaluators, job'[w] # Idle
      PROVE  \A d \in job'[w].days : d < clock'
  <2>1. CASE job[w] # Idle /\ job'[w].days = job[w].days
    BY <1>1, <1>3, <2>1 DEF DaysPast, Busy
  <2>2. CASE Step(w) /\ Launches(w)
    <3>1. PICK id \in Registered : \E role \in Roles(id) : \E class \in Classes :
             job'[w] = Evaluation(id, role, Present(id, role), class)
      BY <2>2 DEF Launches
    <3>2. PICK role \in Roles(id), class \in Classes :
             job'[w] = Evaluation(id, role, Present(id, role), class)
      BY <3>1
    <3>3. job'[w].days \subseteq shards
      BY <3>2, PresentFacts DEF Evaluation
    <3> QED BY <1>1, <1>3, <3>3 DEF DaysPast
  <2> QED BY <1>5, <2>1, <2>2, JobChanges DEF SameTask
<1>6. ASSUME study' # NoStudy
      PROVE  study'.day < clock'
  <2>1. CASE study' = study
    BY <1>1, <1>3, <1>6, <2>1 DEF DaysPast
  <2>2. CASE Studying
    <3>1. study'.day \in Nat
      BY <2>2, StudyingFacts DEF Days
    <3>2. study'.day < clock
      BY <2>2, StudyingFacts DEF DaysPast
    <3> QED BY <1>3, <3>1, <3>2
  <2>3. CASE StudyRead
    BY <1>6, <2>3 DEF StudyRead
  <2> QED BY <2>1, <2>2, <2>3, ThreeKinds, StepLeaves, RegisteringLeaves, AsideLeaves
<1>7. ASSUME NEW l \in looks'
      PROVE  l.day < clock'
  <2>1. CASE l \in looks
    BY <1>1, <1>3, <2>1 DEF DaysPast
  <2>2. ASSUME NEW w \in Evaluators, ReadLabels(w), l \notin looks
        PROVE  l.day < clock'
    <3>1. job[w].pc = "read" /\ looks' = looks \cup {[day |-> d, by |-> job[w].reg] : d \in job[w].days}
      BY <2>2 DEF ReadLabels
    <3>2. PICK d \in job[w].days : l = [day |-> d, by |-> job[w].reg]
      BY <2>2, <3>1
    <3>3. w \in Busy
      BY <3>1, JobFacts DEF Busy
    <3> QED BY <1>1, <1>3, <3>2, <3>3 DEF DaysPast
  <2>3. CASE StudyRead /\ l \notin looks
    <3>1. l.day = study.day /\ study # NoStudy
      BY <2>3 DEF StudyRead
    <3> QED BY <1>1, <1>3, <3>1 DEF DaysPast
  <2> QED BY <2>1, <2>2, <2>3, ThreeKinds, StepLeaves, RegisteringLeaves, AsideLeaves
<1> QED BY <1>4, <1>5, <1>6, <1>7 DEF DaysPast, Busy

LEMMA StudyHeldStep ==
    ASSUME ProspectiveTypeOK, JobsPlaced, StudyHeld, [Next]_vars
    PROVE  StudyHeld'
<1>1. CASE study' = study
  BY <1>1 DEF StudyHeld
<1>2. CASE Studying
  BY <1>2, StudyingFacts DEF StudyHeld
<1>3. CASE StudyRead
  BY <1>3 DEF StudyRead, StudyHeld
<1> QED BY <1>1, <1>2, <1>3, ThreeKinds, StepLeaves, RegisteringLeaves, AsideLeaves

LEMMA AttemptsGrow ==
    ASSUME ProspectiveTypeOK, JobsPlaced, [Next]_vars
    PROVE  /\ attempts \in Nat /\ attempts' \in Nat /\ attempts <= attempts'
           /\ \A w \in Evaluators : Step(w) /\ Launches(w) =>
                 /\ job'[w].attempt = attempts + 1 /\ attempts' = attempts + 1
                 /\ job'[w].pc = "number" /\ job'[w].event = "authorized"
<1>1. attempts \in Nat
  BY DEF ProspectiveTypeOK
<1>2. ASSUME NEW w \in Evaluators, Step(w), Launches(w)
      PROVE  /\ job'[w].attempt = attempts + 1 /\ attempts' = attempts + 1
             /\ job'[w].pc = "number" /\ job'[w].event = "authorized"
  <2>1. PICK id \in Registered : \E role \in Roles(id) : \E class \in Classes :
           Start(w, id, role, class)
    BY <1>2 DEF Launches
  <2>2. PICK role \in Roles(id), class \in Classes : Start(w, id, role, class)
    BY <2>1
  <2>3. attempts' = attempts + 1 /\ job'[w] = Evaluation(id, role, Present(id, role), class)
    BY <2>2, StartFacts
  <2> QED BY <2>3 DEF Evaluation
<1>3. attempts' = attempts \/ attempts' = attempts + 1
  BY <1>2, ThreeKinds, StepLeaves, RegisteringLeaves, AsideLeaves
<1> QED BY <1>1, <1>2, <1>3

LEMMA EventsNumberedStep ==
    ASSUME ProspectiveTypeOK, JobsPlaced, EventsNumbered, JobsNumbered, [Next]_vars
    PROVE  EventsNumbered'
<1>0. \A id \in Registered : \A e \in Range(log[id]) : e.attempt \in Nat
  BY EventFacts DEF Event
<1>1. ASSUME NEW w \in Evaluators, Step(w), Writes(w)
      PROVE  /\ w \in Busy /\ job[w].attempt \in Nat /\ NewEvent(w).attempt = job[w].attempt
             /\ NewEvent(w).role = job[w].role /\ job[w].role \in Roles(job[w].reg)
  <2>1. job[w] # Idle /\ job[w] \in EvaluationJob /\ w \in Busy
    BY <1>1, WriteFacts DEF Busy
  <2>2. job[w].attempt \in Nat
    BY <2>1 DEF EvaluationJob
  <2>3. job[w].role \in Roles(job[w].reg)
    BY <2>1 DEF JobsPlaced
  <2> QED BY <2>1, <2>2, <2>3 DEF NewEvent
<1>2. ASSUME NEW id \in Registered', NEW e \in Range(log'[id])
      PROVE  e.attempt <= attempts' /\ e.role \in Roles(id) /\ id \in Registered
  BY <1>0, <1>1, LogGrows, AttemptsGrow DEF EventsNumbered, JobsNumbered
<1>3. ASSUME NEW id \in Registered', NEW e \in Range(log'[id]),
             NEW other \in Registered', NEW f \in Range(log'[other]), f.attempt = e.attempt
      PROVE  other = id /\ f.role = e.role
  <2>1. CASE e \in Range(log[id]) /\ f \in Range(log[other])
    BY <1>2, <1>3, <2>1 DEF EventsNumbered
  <2>2. CASE e \in Range(log[id]) /\ f \notin Range(log[other])
    <3>1. PICK w \in Evaluators : Step(w) /\ Writes(w) /\ job[w].reg = other /\ f = NewEvent(w)
      BY <2>2, LogGrows
    <3> QED BY <1>1, <1>2, <1>3, <2>2, <3>1 DEF JobsNumbered
  <2>3. CASE e \notin Range(log[id]) /\ f \in Range(log[other])
    <3>1. PICK w \in Evaluators : Step(w) /\ Writes(w) /\ job[w].reg = id /\ e = NewEvent(w)
      BY <2>3, LogGrows
    <3> QED BY <1>1, <1>2, <1>3, <2>3, <3>1 DEF JobsNumbered
  <2>4. CASE e \notin Range(log[id]) /\ f \notin Range(log[other])
    <3>1. PICK w \in Evaluators : Step(w) /\ Writes(w) /\ job[w].reg = id /\ e = NewEvent(w)
      BY <2>4, LogGrows
    <3>2. PICK x \in Evaluators : Step(x) /\ Writes(x) /\ job[x].reg = other /\ f = NewEvent(x)
      BY <2>4, LogGrows
    <3>3. x = w
      BY <3>1, <3>2, OneMover
    <3> QED BY <3>1, <3>2, <3>3
  <2> QED BY <2>1, <2>2, <2>3, <2>4
<1> QED BY <1>2, <1>3 DEF EventsNumbered

LEMMA JobsNumberedStep ==
    ASSUME ProspectiveTypeOK, JobsPlaced, EventsNumbered, JobsNumbered, [Next]_vars
    PROVE  JobsNumbered'
<1>0. /\ \A id \in Registered : \A e \in Range(log[id]) : e.attempt \in Nat
      /\ \A w \in Busy : job[w].attempt \in Nat
  BY EventFacts, JobFacts DEF Event, Busy, EvaluationJob
\* An evaluator that works had its number before, or has just been given it.
<1>1. ASSUME NEW w \in Evaluators, job'[w] # Idle
      PROVE  \/ /\ w \in Busy /\ job'[w].attempt = job[w].attempt
                /\ job'[w].reg = job[w].reg /\ job'[w].role = job[w].role
             \/ /\ Step(w) /\ Launches(w) /\ job'[w].attempt = attempts + 1
                /\ attempts' = attempts + 1
  BY <1>1, JobChanges, AttemptsGrow DEF Busy, SameTask
<1>2. ASSUME NEW w \in Evaluators, job'[w] # Idle
      PROVE  job'[w].attempt <= attempts'
  BY <1>0, <1>1, <1>2, AttemptsGrow DEF JobsNumbered
<1>3. ASSUME NEW w \in Evaluators, job'[w] # Idle, NEW x \in Evaluators, job'[x] # Idle,
             job'[x].attempt = job'[w].attempt
      PROVE  x = w
  <2>1. CASE w \in Busy /\ job'[w].attempt = job[w].attempt /\ x \in Busy /\ job'[x].attempt = job[x].attempt
    BY <1>3, <2>1 DEF JobsNumbered
  <2>2. CASE Step(w) /\ Step(x)
    BY <2>2, OneMover
  <2>3. CASE w \in Busy /\ job'[w].attempt = job[w].attempt /\ job'[x].attempt = attempts + 1
    BY <1>0, <1>3, <2>3, AttemptsGrow DEF JobsNumbered
  <2>4. CASE x \in Busy /\ job'[x].attempt = job[x].attempt /\ job'[w].attempt = attempts + 1
    <3>1. job[x].attempt <= attempts /\ job[x].attempt \in Nat /\ attempts \in Nat
      BY <1>0, <2>4, AttemptsGrow DEF JobsNumbered
    <3>2. job[x].attempt = attempts + 1
      BY <1>3, <2>4
    <3> QED BY <3>1, <3>2
  <2>5. /\ \/ w \in Busy /\ job'[w].attempt = job[w].attempt
           \/ Step(w) /\ job'[w].attempt = attempts + 1
        /\ \/ x \in Busy /\ job'[x].attempt = job[x].attempt
           \/ Step(x) /\ job'[x].attempt = attempts + 1
    BY <1>1, <1>3
  <2> QED BY <2>1, <2>2, <2>3, <2>4, <2>5
<1>4. ASSUME NEW w \in Evaluators, job'[w] # Idle, NEW id \in Registered',
             NEW e \in Range(log'[id]), e.attempt = job'[w].attempt
      PROVE  id = job'[w].reg /\ e.role = job'[w].role
  <2>1. CASE id \in Registered /\ e \in Range(log[id])
    <3>1. e.attempt <= attempts /\ e.attempt \in Nat
      BY <1>0, <2>1 DEF EventsNumbered
    <3>2. e.attempt # attempts + 1
      BY <3>1, AttemptsGrow
    <3> QED BY <1>1, <1>4, <2>1, <3>2 DEF JobsNumbered
  <2>2. ASSUME NEW x \in Evaluators, Step(x), Writes(x), job[x].reg = id, e = NewEvent(x)
        PROVE  id = job'[w].reg /\ e.role = job'[w].role
    <3>1. x \in Busy /\ e.attempt = job[x].attempt /\ e.role = job[x].role
      BY <2>2, WriteFacts DEF NewEvent, Busy
    <3>2. job[x].attempt # attempts + 1
      BY <1>0, <3>1, AttemptsGrow DEF JobsNumbered
    <3>3. w \in Busy /\ job'[w].attempt = job[w].attempt
          /\ job'[w].reg = job[w].reg /\ job'[w].role = job[w].role
      BY <1>1, <1>4, <3>1, <3>2
    <3>4. x = w
      BY <1>4, <3>1, <3>3 DEF JobsNumbered
    <3> QED BY <2>2, <3>1, <3>3, <3>4
  <2> QED BY <2>1, <2>2, LogGrows
<1> QED BY <1>2, <1>3, <1>4 DEF JobsNumbered, Busy

LEMMA JobsStartedStep ==
    ASSUME ProspectiveTypeOK, JobsPlaced, EventsNumbered, JobsNumbered, JobsStarted, [Next]_vars
    PROVE  JobsStarted'
<1> SUFFICES ASSUME NEW w \in Evaluators, job'[w] # Idle
             PROVE  AwaitsStart(job'[w]) <=>
                      ~ \E e \in Range(log'[job'[w].reg]) :
                           e.type = "started" /\ e.attempt = job'[w].attempt
  BY DEF JobsStarted, Busy, StartedBy
<1>0. \A id \in Registered : \A e \in Range(log[id]) : e.attempt \in Nat /\ e.attempt # attempts + 1
  <2>1. \A id \in Registered : \A e \in Range(log[id]) : e.attempt \in Nat /\ e.attempt <= attempts
    BY EventFacts DEF Event, EventsNumbered
  <2> QED BY <2>1, AttemptsGrow
<1>1. CASE Step(w) /\ Launches(w)
  <2>1. /\ job'[w].attempt = attempts + 1 /\ job'[w].pc = "number"
        /\ job'[w].event = "authorized"
    BY <1>1, AttemptsGrow
  <2>2. ASSUME NEW e \in Range(log'[job'[w].reg]), e.attempt = attempts + 1, job'[w].reg \in Registered'
        PROVE  FALSE
    <3>1. PICK x \in Evaluators : Step(x) /\ Writes(x) /\ e = NewEvent(x)
      BY <1>0, <2>2, LogGrows
    <3>2. job[x] # Idle
      BY <3>1, WriteFacts
    <3> QED BY <1>1, <3>1, <3>2, OneMover DEF Launches
  <2>3. job'[w].reg \in Registered'
    BY ProspectiveTypeStep DEF JobsPlaced
  <2> QED BY <2>1, <2>2, <2>3 DEF AwaitsStart
<1>2. ASSUME job[w] # Idle, job'[w].reg = job[w].reg, job'[w].attempt = job[w].attempt
      PROVE  /\ job[w].reg \in Registered
             /\ \A e \in Range(log'[job'[w].reg]) : e.attempt = job'[w].attempt =>
                  \/ e \in Range(log[job[w].reg])
                  \/ Step(w) /\ Writes(w) /\ e = NewEvent(w)
  <2>1. job[w].reg \in Registered /\ w \in Busy
    BY <1>2 DEF JobsPlaced, Busy
  <2>2. ASSUME NEW e \in Range(log'[job'[w].reg]), e.attempt = job'[w].attempt,
               e \notin Range(log[job[w].reg])
        PROVE  Step(w) /\ Writes(w) /\ e = NewEvent(w)
    <3>1. PICK x \in Evaluators : Step(x) /\ Writes(x) /\ e = NewEvent(x)
      BY <1>2, <2>1, <2>2, LogGrows
    <3>2. x \in Busy /\ job[x].attempt = job[w].attempt
      BY <1>2, <2>2, <3>1, WriteFacts DEF NewEvent, Busy
    <3>3. x = w
      BY <2>1, <3>2 DEF JobsNumbered
    <3> QED BY <3>1, <3>3
  <2> QED BY <2>1, <2>2
<1>3. CASE ~Step(w) /\ job'[w] = job[w]
  <2>1. job[w] # Idle /\ w \in Busy
    BY <1>3 DEF Busy
  <2>2. AwaitsStart(job[w]) <=>
          ~ \E e \in Range(log[job[w].reg]) : e.type = "started" /\ e.attempt = job[w].attempt
    BY <2>1 DEF JobsStarted, StartedBy
  <2>3. Range(log[job[w].reg]) \subseteq Range(log'[job[w].reg])
    BY <1>2, <1>3, <2>1, LogGrows
  <2> QED BY <1>2, <1>3, <2>1, <2>2, <2>3
<1>4. CASE Step(w) /\ job[w] # Idle /\ job'[w] \in EvaluationJob /\ SameTask(w) /\ Advances(w)
  <2>1. /\ w \in Busy /\ job'[w].reg = job[w].reg /\ job'[w].attempt = job[w].attempt
        /\ job[w].reg \in Registered
    BY <1>2, <1>4 DEF Busy, SameTask
  <2>2. AwaitsStart(job[w]) <=>
          ~ \E e \in Range(log[job[w].reg]) : e.type = "started" /\ e.attempt = job[w].attempt
    BY <2>1 DEF JobsStarted, StartedBy
  <2>3. Range(log[job[w].reg]) \subseteq Range(log'[job[w].reg])
    BY <2>1, LogGrows
  <2>4. CASE ~Writes(w)
    <3>1. AwaitsStart(job'[w]) <=> AwaitsStart(job[w])
      BY <1>4, <2>4 DEF Advances, AwaitsStart, JobsPlaced
    <3> QED BY <1>2, <1>4, <2>1, <2>2, <2>3, <2>4, <3>1
  <2>5. CASE Writes(w)
    <3>1. /\ job[w].pc = "append" /\ NewEvent(w) \in Range(log'[job[w].reg])
          /\ NewEvent(w).type = job[w].event /\ NewEvent(w).attempt = job[w].attempt
      BY <2>5, WriteFacts DEF NewEvent
    <3>2. job'[w].event = "started"
          /\ \/ job[w].event = "authorized" /\ job'[w].pc = "number"
             \/ job[w].event = "started" /\ job'[w].pc = "check"
      BY <1>4, <3>1 DEF Advances
    <3>3. CASE job[w].event = "authorized" /\ job'[w].pc = "number"
      <4>1. AwaitsStart(job[w]) /\ AwaitsStart(job'[w])
        BY <3>1, <3>2, <3>3 DEF AwaitsStart
      <4> QED BY <1>2, <1>4, <2>1, <2>2, <3>1, <3>3, <4>1
    <3>4. CASE job[w].event = "started" /\ job'[w].pc = "check"
      <4>1. ~AwaitsStart(job'[w])
        BY <3>4 DEF AwaitsStart
      <4> QED BY <2>1, <3>1, <3>4, <4>1
    <3> QED BY <3>2, <3>3, <3>4
  <2> QED BY <2>4, <2>5
<1> QED BY <1>1, <1>3, <1>4, JobChanges

LEMMA StartedFirstStep ==
    ASSUME ProspectiveTypeOK, JobsPlaced, JobsStarted, StartedFirst, [Next]_vars
    PROVE  StartedFirst'
<1> SUFFICES ASSUME NEW id \in Registered', NEW i \in DOMAIN log'[id],
                    log'[id][i].type = "completed"
             PROVE  \E k \in 1..i : log'[id][k].type = "started"
                                    /\ log'[id][k].attempt = log'[id][i].attempt
  BY DEF StartedFirst
<1>1. id \in Registered
  <2>1. log'[id] = <<>> => FALSE
    OBVIOUS
  <2> QED BY <2>1, LogMoves
<1>2. log[id] \in Seq(Event) /\ Len(log[id]) \in Nat /\ DOMAIN log[id] = 1..Len(log[id])
  BY <1>1, EventFacts
<1>3. CASE log'[id] = log[id]
  BY <1>1, <1>3 DEF StartedFirst
<1>4. ASSUME NEW w \in Evaluators, Step(w), Writes(w), job[w].reg = id,
             log'[id] = Append(log[id], NewEvent(w))
      PROVE  \E k \in 1..i : log'[id][k].type = "started"
                             /\ log'[id][k].attempt = log'[id][i].attempt
  <2>1. /\ DOMAIN log'[id] = 1..(Len(log[id]) + 1)
        /\ \A k \in DOMAIN log[id] : log'[id][k] = log[id][k]
        /\ log'[id][Len(log[id]) + 1] = NewEvent(w)
    BY <1>2, <1>4, AppendFacts
  <2>2. CASE i \in DOMAIN log[id]
    <3>1. log[id][i].type = "completed"
      BY <2>1, <2>2
    <3>2. PICK k \in 1..i : log[id][k].type = "started" /\ log[id][k].attempt = log[id][i].attempt
      BY <1>1, <2>2, <3>1 DEF StartedFirst
    <3>3. k \in DOMAIN log[id]
      BY <1>2, <2>2
    <3> QED BY <2>1, <2>2, <3>2, <3>3
  <2>3. CASE i \notin DOMAIN log[id]
    <3>1. i = Len(log[id]) + 1
      BY <1>2, <2>1, <2>3
    <3>2. job[w].event = "completed" /\ log'[id][i].attempt = job[w].attempt
      BY <2>1, <3>1 DEF NewEvent
    <3>3. w \in Busy /\ ~AwaitsStart(job[w])
      BY <1>4, <3>2, WriteFacts DEF Busy, AwaitsStart
    <3>4. PICK e \in Range(log[id]) : e.type = "started" /\ e.attempt = job[w].attempt
      BY <1>4, <3>3 DEF JobsStarted, StartedBy
    <3>5. PICK k \in DOMAIN log[id] : log[id][k] = e
      BY <1>1, EventFacts
    <3>6. k \in 1..i
      BY <1>2, <3>1, <3>5
    <3> QED BY <2>1, <3>2, <3>4, <3>5, <3>6
  <2> QED BY <2>2, <2>3
<1> QED BY <1>1, <1>3, <1>4, LogMoves

-----------------------------------------------------------------------------
(* What the exposure log says of a partition.                               *)

\* A completed attempt has a completed event of its partition.
LEMMA CompletedMeans ==
    ASSUME ProspectiveTypeOK, EventsNumbered, NEW id \in Registered, NEW role, Completed(id, role)
    PROVE  CompletedFor(id, role)
<1>1. PICK a \in Attempts(id, role) : Outcome(id, a) = "completed"
  BY DEF Completed
<1>2. PICK e \in Range(log[id]) : e.role = role /\ e.attempt = a
  BY DEF Attempts
<1>3. "completed" \in TypesOf(id, a)
  BY <1>1 DEF Outcome
<1>4. PICK f \in Range(log[id]) : f.attempt = a /\ f.type = "completed"
  BY <1>3 DEF TypesOf
<1>5. f.role = e.role
  BY <1>2, <1>4 DEF EventsNumbered
<1> QED BY <1>2, <1>4, <1>5 DEF CompletedFor

LEMMA CompletedStarted ==
    ASSUME ProspectiveTypeOK, EventsNumbered, StartedFirst,
           NEW id \in Registered, NEW role, Completed(id, role)
    PROVE  StartedFor(id, role)
<1>1. PICK e \in Range(log[id]) : e.type = "completed" /\ e.role = role
  BY CompletedMeans DEF CompletedFor
<1>2. PICK i \in DOMAIN log[id] : log[id][i] = e
  BY EventFacts
<1>3. PICK k \in 1..i : log[id][k].type = "started" /\ log[id][k].attempt = e.attempt
  BY <1>1, <1>2 DEF StartedFirst
<1>4. k \in DOMAIN log[id] /\ log[id][k] \in Range(log[id])
  <2>1. log[id] \in Seq(Event) /\ Len(log[id]) \in Nat /\ i \in 1..Len(log[id])
    BY <1>2, EventFacts
  <2>2. k \in DOMAIN log[id]
    BY <2>1
  <2> QED BY <2>2, EventFacts
<1>5. log[id][k].role = e.role
  BY <1>3, <1>4 DEF EventsNumbered
<1> QED BY <1>1, <1>3, <1>4, <1>5 DEF StartedFor

\* A partition whose evaluation has started is exposed, whatever came of it.
LEMMA StartedExposes ==
    ASSUME NEW id, NEW role, StartedFor(id, role)
    PROVE  Exposed(id, role)
<1>1. PICK e \in Range(log[id]) : e.type = "started" /\ e.role = role
  BY DEF StartedFor
<1>2. e.attempt \in Attempts(id, role) /\ "started" \in TypesOf(id, e.attempt)
  BY <1>1 DEF Attempts, TypesOf
<1>3. Outcome(id, e.attempt) \notin {"authorized_only", "failed_before_exposure"}
  BY <1>2 DEF Outcome
<1> QED BY <1>2, <1>3 DEF Exposed

\* A completed partition stays completed.
LEMMA CompletedStays ==
    ASSUME ProspectiveTypeOK, JobsPlaced, [Next]_vars, NEW id \in Registered, NEW role,
           Completed(id, role)
    PROVE  Completed(id, role)'
<1>1. PICK a \in Attempts(id, role) : Outcome(id, a) = "completed"
  BY DEF Completed
<1>2. PICK e \in Range(log[id]) : e.role = role /\ e.attempt = a
  BY DEF Attempts
<1>3. "completed" \in TypesOf(id, a)
  BY <1>1 DEF Outcome
<1>4. PICK f \in Range(log[id]) : f.attempt = a /\ f.type = "completed"
  BY <1>3 DEF TypesOf
<1>5. e \in Range(log'[id]) /\ f \in Range(log'[id])
  BY <1>2, <1>4, LogGrows
<1>6. a \in Attempts(id, role)' /\ "completed" \in TypesOf(id, a)'
  BY <1>2, <1>4, <1>5 DEF Attempts, TypesOf
<1>7. Outcome(id, a)' = "completed"
  BY <1>6 DEF Outcome
<1> QED BY <1>6, <1>7 DEF Completed

LEMMA StartedStays ==
    ASSUME ProspectiveTypeOK, JobsPlaced, [Next]_vars, NEW id \in Registered, NEW role,
           StartedFor(id, role)
    PROVE  StartedFor(id, role)'
BY LogGrows DEF StartedFor

\* What is reserved was so before, or is registered now for later days.
LEMMA ReservedShrinks ==
    ASSUME ProspectiveTypeOK, JobsPlaced, [Next]_vars, NEW id \in Registered', NEW role \in Roles(id),
           ~Completed(id, role)'
    PROVE  \/ id \in Registered /\ ~Completed(id, role)
           \/ /\ id \notin Registered /\ Registering /\ Part(id, role).from \in Nat
              /\ clock < Part(id, role).from
<1>1. CASE id \in Registered
  <2>1. ~Completed(id, role)
    BY <1>1, CompletedStays
  <2> QED BY <1>1, <2>1
<1>2. CASE id \notin Registered
  <2>1. Registering /\ clock < Part(id, role).from /\ id \in Ids
    BY <1>2, LogMoves
  <2>2. Part(id, role).from \in Nat
    BY <2>1, ProposalFacts
  <2> QED BY <1>2, <2>1, <2>2
<1> QED BY <1>1, <1>2

-----------------------------------------------------------------------------
(* The guard's verdict holds until the outcomes are read.                   *)

\* Whoever is about to read touches only what has been completed, or what
\* the evaluation itself was granted.
ReadsAllowed ==
    /\ \A w \in Busy : job[w].pc = "read" =>
          \A d \in job[w].days : \A id \in Registered : \A role \in Roles(id) :
             Touches(d, Part(id, role)) /\ ~Completed(id, role)
                => id = job[w].reg /\ role = job[w].role
    /\ study # NoStudy =>
          \A id \in Registered : \A role \in Roles(id) :
             Touches(study.day, Part(id, role)) => Completed(id, role)

\* Nothing was read of a partition whose evaluation never started.
LooksAccounted ==
    \A l \in looks : \A id \in Registered : \A role \in Roles(id) :
        Touches(l.day, Part(id, role)) => StartedFor(id, role)

LEMMA MayReadMeans ==
    ASSUME NEW days, NEW grants, MayRead(days, grants), NEW d \in days,
           NEW id \in Registered, NEW role \in Roles(id),
           Touches(d, Part(id, role)), ~Completed(id, role)
    PROVE  <<id, role>> \in grants
<1>1. <<id, role>> \in Reserved
  BY DEF Reserved
<1> QED BY <1>1 DEF MayRead

\* A day gone by does not touch what is registered for later.
LEMMA PastUntouched ==
    ASSUME NEW d \in Nat, NEW p, p.from \in Nat, clock \in Nat, d < clock, clock < p.from
    PROVE  ~Touches(d, p)
BY DEF Touches

LEMMA ReadsAllowedStep ==
    ASSUME ProspectiveTypeOK, JobsPlaced, DaysPast, ReadsAllowed, [Next]_vars
    PROVE  ReadsAllowed'
<1>0. clock \in Nat /\ Days \subseteq Nat
  BY DEF ProspectiveTypeOK, Days
<1>1. ASSUME NEW w \in Evaluators, job'[w] # Idle, job'[w].pc = "read", NEW d \in job'[w].days,
             NEW id \in Registered', NEW role \in Roles(id),
             Touches(d, Part(id, role)), ~Completed(id, role)'
      PROVE  id = job'[w].reg /\ role = job'[w].role
  <2>1. /\ w \in Busy /\ job'[w].days = job[w].days /\ job'[w].reg = job[w].reg
        /\ job'[w].role = job[w].role
        /\ (job[w].pc = "read" \/ MayRead(job[w].days, Grants(w)))
    <3>1. CASE ~Step(w) /\ job'[w] = job[w]
      BY <1>1, <3>1 DEF Busy
    <3>2. CASE Step(w) /\ Launches(w)
      BY <1>1, <3>2, AttemptsGrow
    <3>3. CASE job[w] # Idle /\ SameTask(w) /\ Advances(w)
      BY <1>1, <3>3 DEF Busy, SameTask, Advances
    <3> QED BY <1>1, <3>1, <3>2, <3>3, JobChanges
  <2>2. d \in job[w].days /\ d \in Nat /\ d < clock
    BY <1>0, <1>1, <2>1, JobFacts DEF DaysPast, Busy, EvaluationJob
  <2>3. CASE id \in Registered /\ ~Completed(id, role)
    <3>1. CASE job[w].pc = "read"
      BY <1>1, <2>1, <2>2, <2>3, <3>1 DEF ReadsAllowed
    <3>2. CASE MayRead(job[w].days, Grants(w))
      <4>1. <<id, role>> \in Grants(w)
        BY <1>1, <2>2, <2>3, <3>2, MayReadMeans
      <4> QED BY <2>1, <4>1 DEF Grants
    <3> QED BY <2>1, <3>1, <3>2
  <2>4. CASE Part(id, role).from \in Nat /\ clock < Part(id, role).from
    BY <1>0, <1>1, <2>2, <2>4, PastUntouched
  <2> QED BY <1>1, <2>3, <2>4, ReservedShrinks
<1>2. ASSUME study' # NoStudy, NEW id \in Registered', NEW role \in Roles(id),
             Touches(study'.day, Part(id, role)), ~Completed(id, role)'
      PROVE  FALSE
  <2>1. study'.day \in Nat /\ study'.day < clock
        /\ ((study # NoStudy /\ study'.day = study.day) \/ MayRead({study'.day}, {}))
    <3>1. CASE study' = study
      BY <1>0, <1>2, <3>1 DEF DaysPast, ProspectiveTypeOK
    <3>2. CASE Studying
      BY <1>0, <3>2, StudyingFacts DEF DaysPast
    <3>3. CASE StudyRead
      BY <1>2, <3>3 DEF StudyRead
    <3> QED BY <3>1, <3>2, <3>3, ThreeKinds, StepLeaves, RegisteringLeaves, AsideLeaves
  <2>2. CASE id \in Registered /\ ~Completed(id, role)
    <3>1. CASE study # NoStudy /\ study'.day = study.day
      BY <1>2, <2>2, <3>1 DEF ReadsAllowed
    <3>2. CASE MayRead({study'.day}, {})
      <4>1. <<id, role>> \in {}
        BY <1>2, <2>2, <3>2, MayReadMeans
      <4> QED BY <4>1
    <3> QED BY <2>1, <3>1, <3>2
  <2>3. CASE Part(id, role).from \in Nat /\ clock < Part(id, role).from
    BY <1>0, <1>2, <2>1, <2>3, PastUntouched
  <2>4. \/ id \in Registered /\ ~Completed(id, role)
        \/ Part(id, role).from \in Nat /\ clock < Part(id, role).from
    BY <1>2, ReservedShrinks
  <2> QED BY <2>2, <2>3, <2>4
<1> QED BY <1>1, <1>2 DEF ReadsAllowed, Busy

\* What a step reads anew.
LEMMA NewLooks ==
    ASSUME ProspectiveTypeOK, JobsPlaced, [Next]_vars, NEW l \in looks' \ looks
    PROVE  \/ \E w \in Busy : /\ Step(w) /\ job[w].pc = "read" /\ l.day \in job[w].days
                              /\ l.by = job[w].reg /\ log' = log /\ regs' = regs
           \/ /\ study # NoStudy /\ l.day = study.day /\ l.by = "research"
              /\ log' = log /\ regs' = regs
<1>1. ASSUME NEW w \in Evaluators, Step(w), ReadLabels(w)
      PROVE  /\ w \in Busy /\ job[w].pc = "read" /\ l.day \in job[w].days
             /\ l.by = job[w].reg /\ log' = log /\ regs' = regs
  <2>1. job[w].pc = "read" /\ looks' = looks \cup {[day |-> d, by |-> job[w].reg] : d \in job[w].days}
        /\ log' = log /\ regs' = regs
    BY <1>1 DEF ReadLabels
  <2>2. PICK d \in job[w].days : l = [day |-> d, by |-> job[w].reg]
    BY <2>1
  <2> QED BY <2>1, <2>2, JobFacts DEF Busy
<1>2. CASE StudyRead
  BY <1>2 DEF StudyRead
<1> QED BY <1>1, <1>2, ThreeKinds, StepLeaves, RegisteringLeaves, AsideLeaves

LEMMA LooksAccountedStep ==
    ASSUME ProspectiveTypeOK, JobsPlaced, DaysPast, EventsNumbered, JobsNumbered, JobsStarted,
           StartedFirst, ReadsAllowed, LooksAccounted, [Next]_vars
    PROVE  LooksAccounted'
<1> SUFFICES ASSUME NEW l \in looks', NEW id \in Registered', NEW role \in Roles(id),
                    Touches(l.day, Part(id, role))
             PROVE  StartedFor(id, role)'
  BY DEF LooksAccounted
<1>0. clock \in Nat /\ Days \subseteq Nat
  BY DEF ProspectiveTypeOK, Days
<1>1. CASE id \notin Registered
  <2>1. clock < Part(id, role).from /\ id \in Ids /\ Registering
    BY <1>1, LogMoves
  <2>2. l \in looks
    BY <2>1, RegisteringLeaves
  <2>4. l.day \in Nat
    BY <1>0, <2>2 DEF ProspectiveTypeOK
  <2>5. l.day < clock
    BY <2>2 DEF DaysPast
  <2>3. Part(id, role).from \in Nat
    BY <2>1, ProposalFacts
  <2> QED BY <1>0, <2>1, <2>3, <2>4, <2>5, PastUntouched
<1>2. CASE id \in Registered /\ l \in looks
  BY <1>2, StartedStays DEF LooksAccounted
<1>3. CASE id \in Registered /\ Completed(id, role)
  BY <1>3, CompletedStarted, StartedStays
<1>4. CASE id \in Registered /\ l \notin looks /\ ~Completed(id, role)
  <2>1. CASE study # NoStudy /\ l.day = study.day
    BY <1>4, <2>1 DEF ReadsAllowed
  <2>2. ASSUME NEW w \in Busy, job[w].pc = "read", l.day \in job[w].days
        PROVE  StartedFor(id, role)
    <3>1. id = job[w].reg /\ role = job[w].role
      BY <1>4, <2>2 DEF ReadsAllowed
    <3>2. ~AwaitsStart(job[w])
      BY <2>2 DEF AwaitsStart
    <3>3. PICK e \in Range(log[id]) : e.type = "started" /\ e.attempt = job[w].attempt
      BY <3>1, <3>2 DEF JobsStarted, StartedBy
    <3>4. e.role = role
      BY <1>4, <3>1, <3>3 DEF JobsNumbered
    <3> QED BY <3>3, <3>4 DEF StartedFor
  <2> QED BY <1>4, <2>1, <2>2, NewLooks, StartedStays
<1> QED BY <1>1, <1>2, <1>3, <1>4

-----------------------------------------------------------------------------
(* The first look.                                                          *)

Independently(class) == class = "independent_prospective"

\* Unless two evaluations of a period overlapped: the periods in work are
\* apart, and whoever is about to start as independent is the first.
Apart ==
    ~overlapped => \A w, x \in Busy : w # x =>
        ~Overlap(Part(job[w].reg, job[w].role), Part(job[x].reg, job[x].role))
FirstToStart ==
    ~overlapped => \A w \in Busy :
        Independently(job[w].class) /\ AwaitsStart(job[w])
            => ~StartedFor(job[w].reg, job[w].role)
\* Whoever has started as independent, and every run recorded so, was first.
JobsFirst ==
    \A w \in Busy : Independently(job[w].class) /\ ~AwaitsStart(job[w])
        => job[w].attempt \in fresh \/ overlapped
RunsFirst ==
    \A r \in runs : Independently(r.independence) => r.attempt \in fresh \/ overlapped

\* A day of the period touches it.
LEMMA PeriodTouched ==
    ASSUME NEW p \in [from : Nat, to : Nat], NEW d \in Nat, d \in DaysOf(p)
    PROVE  Touches(d, p)
BY DEF DaysOf, Touches

LEMMA OverlappedGrows ==
    ASSUME ProspectiveTypeOK, JobsPlaced, [Next]_vars
    PROVE  /\ overlapped => overlapped'
           /\ fresh \subseteq fresh'
           /\ \A w \in Evaluators : Step(w) /\ Launches(w) => \A x \in Busy :
                 x # w /\ Overlap(Part(job[x].reg, job[x].role), Part(job'[w].reg, job'[w].role))
                    => overlapped'
<1>1. ASSUME NEW w \in Evaluators, Step(w), Launches(w)
      PROVE  /\ overlapped => overlapped'
             /\ \A x \in Busy :
                  x # w /\ Overlap(Part(job[x].reg, job[x].role), Part(job'[w].reg, job'[w].role))
                     => overlapped'
  <2>1. PICK id \in Registered : \E role \in Roles(id) : \E class \in Classes :
           Start(w, id, role, class)
    BY <1>1 DEF Launches
  <2>2. PICK role \in Roles(id), class \in Classes : Start(w, id, role, class)
    BY <2>1
  <2>3. job'[w] = Evaluation(id, role, Present(id, role), class)
    BY <2>2, StartFacts
  <2>4. job'[w].reg = id /\ job'[w].role = role
    BY <2>3 DEF Evaluation
  <2>5. overlapped' = (overlapped \/ \E x \in Evaluators \ {w} :
           job[x] # Idle /\ Overlap(Part(job[x].reg, job[x].role), Part(id, role)))
    BY <2>2 DEF Start
  <2> QED BY <2>4, <2>5 DEF Busy
<1>2. overlapped => overlapped'
  BY <1>1, ThreeKinds, StepLeaves, RegisteringLeaves, AsideLeaves
<1>3. fresh \subseteq fresh'
  BY ThreeKinds, StepLeaves, RegisteringLeaves, AsideLeaves
<1> QED BY <1>1, <1>2, <1>3

LEMMA OverlapSymmetric ==
    ASSUME NEW p, NEW q
    PROVE  Overlap(p, q) <=> Overlap(q, p)
BY DEF Overlap

LEMMA ApartStep ==
    ASSUME ProspectiveTypeOK, JobsPlaced, Apart, [Next]_vars
    PROVE  Apart'
<1> SUFFICES ASSUME ~overlapped', NEW w \in Evaluators, job'[w] # Idle,
                    NEW x \in Evaluators, job'[x] # Idle, w # x,
                    Overlap(Part(job'[w].reg, job'[w].role), Part(job'[x].reg, job'[x].role))
             PROVE  FALSE
  BY DEF Apart, Busy
<1>1. ASSUME NEW v \in Evaluators, job'[v] # Idle
      PROVE  \/ v \in Busy /\ job'[v].reg = job[v].reg /\ job'[v].role = job[v].role
             \/ Step(v) /\ Launches(v)
  BY <1>1, JobChanges DEF Busy, SameTask
<1>2. CASE Step(w) /\ Launches(w) /\ x \in Busy
  BY <1>1, <1>2, OverlappedGrows, OverlapSymmetric, OneMover DEF Launches, Busy
<1>3. CASE Step(x) /\ Launches(x) /\ w \in Busy
  BY <1>1, <1>3, OverlappedGrows, OverlapSymmetric, OneMover DEF Launches, Busy
<1>4. CASE Step(w) /\ Step(x)
  BY <1>4, OneMover
<1>5. CASE /\ w \in Busy /\ job'[w].reg = job[w].reg /\ job'[w].role = job[w].role
           /\ x \in Busy /\ job'[x].reg = job[x].reg /\ job'[x].role = job[x].role
  BY <1>5, OverlappedGrows DEF Apart
<1> QED BY <1>1, <1>2, <1>3, <1>4, <1>5

LEMMA FirstToStartStep ==
    ASSUME ProspectiveTypeOK, JobsPlaced, Registrations, Apart, FirstToStart, [Next]_vars
    PROVE  FirstToStart'
<1> SUFFICES ASSUME ~overlapped', NEW w \in Evaluators, job'[w] # Idle,
                    Independently(job'[w].class), AwaitsStart(job'[w]),
                    NEW e \in Range(log'[job'[w].reg]), e.type = "started", e.role = job'[w].role
             PROVE  FALSE
  BY DEF FirstToStart, StartedFor, Busy
<1>0. ~overlapped
  BY OverlappedGrows
<1>1. job'[w].reg \in Registered'
  BY ProspectiveTypeStep DEF JobsPlaced
\* The event is an old one, or written in this step by somebody.
<1>2. /\ job'[w].reg \in Registered
      /\ \/ e \in Range(log[job'[w].reg])
         \/ \E x \in Evaluators : /\ Step(x) /\ Writes(x) /\ job[x].reg = job'[w].reg
                                  /\ e = NewEvent(x)
  BY <1>1, LogGrows
<1>3. ASSUME e \in Range(log[job'[w].reg]), StartedFor(job'[w].reg, job'[w].role) => FALSE
      PROVE  FALSE
  BY <1>3 DEF StartedFor
<1>4. CASE Step(w) /\ Launches(w)
  <2>1. PICK id \in Registered : \E role \in Roles(id) : \E class \in Classes :
           /\ job'[w] = Evaluation(id, role, Present(id, role), class)
           /\ class = "independent_prospective" => ~Exposed(id, role)
    BY <1>4 DEF Launches
  <2>2. PICK role \in Roles(id), class \in Classes :
           /\ job'[w] = Evaluation(id, role, Present(id, role), class)
           /\ class = "independent_prospective" => ~Exposed(id, role)
    BY <2>1
  <2>3. job'[w].reg = id /\ job'[w].role = role /\ job'[w].class = class
    BY <2>2 DEF Evaluation
  <2>4. ~StartedFor(id, role)
    BY <2>2, <2>3, StartedExposes DEF Independently
  <2>5. ASSUME NEW x \in Evaluators, Step(x), Writes(x)
        PROVE  FALSE
    <3>1. x = w /\ job[x] # Idle
      BY <1>4, <2>5, OneMover, WriteFacts
    <3> QED BY <1>4, <3>1 DEF Launches
  <2> QED BY <1>2, <1>3, <2>3, <2>4, <2>5
<1>5. ASSUME w \in Busy, job'[w].reg = job[w].reg, job'[w].role = job[w].role,
             Independently(job[w].class), AwaitsStart(job[w]),
             Step(w) => ~(Writes(w) /\ job[w].event = "started")
      PROVE  FALSE
  <2>1. ~StartedFor(job[w].reg, job[w].role)
    BY <1>0, <1>5 DEF FirstToStart
  <2>2. PICK x \in Evaluators : /\ Step(x) /\ Writes(x) /\ job[x].reg = job'[w].reg
                                /\ e = NewEvent(x)
    BY <1>2, <1>3, <1>5, <2>1
  <2>3. x \in Busy /\ job[x].event = "started" /\ job[x].role = job[w].role
        /\ job[x].reg = job[w].reg
    BY <1>5, <2>2, WriteFacts DEF NewEvent, Busy
  <2>4. x # w
    BY <1>5, <2>2, <2>3
  <2>5. Part(job[w].reg, job[w].role).from < Part(job[w].reg, job[w].role).to
    BY <1>5 DEF Registrations, JobsPlaced, Busy
  <2>6. Overlap(Part(job[w].reg, job[w].role), Part(job[x].reg, job[x].role))
    BY <2>3, <2>5 DEF Overlap
  <2> QED BY <1>0, <1>5, <2>3, <2>4, <2>6 DEF Apart
<1>6. CASE ~Step(w) /\ job'[w] = job[w]
  BY <1>5, <1>6 DEF Busy
<1>7. CASE job[w] # Idle /\ SameTask(w) /\ Advances(w)
  <2>1. /\ w \in Busy /\ job'[w].reg = job[w].reg /\ job'[w].role = job[w].role
        /\ Independently(job[w].class)
    BY <1>7 DEF SameTask, Busy
  <2>2. AwaitsStart(job[w]) /\ ~(Writes(w) /\ job[w].event = "started")
    BY <1>7, WriteFacts DEF Advances, AwaitsStart
  <2> QED BY <1>5, <2>1, <2>2
<1> QED BY <1>4, <1>6, <1>7, JobChanges

\* The start of an independent evaluation is the first look, or two overlapped.
LEMMA StartIsFirst ==
    ASSUME ProspectiveTypeOK, JobsPlaced, DaysPast, LooksAccounted, FirstToStart,
           NEW w \in Evaluators, Writes(w), job[w].event = "started",
           Independently(job[w].class)
    PROVE  job[w].attempt \in fresh' \/ overlapped
<1>1. w \in Busy /\ AwaitsStart(job[w]) /\ job[w].reg \in Registered
      /\ job[w].role \in Roles(job[w].reg)
  BY WriteFacts DEF Busy, AwaitsStart, JobsPlaced
<1>2. CASE ~overlapped
  <2>1. ~StartedFor(job[w].reg, job[w].role)
    BY <1>1, <1>2 DEF FirstToStart
  <2>2. \A l \in looks : ~Touches(l.day, Part(job[w].reg, job[w].role))
    BY <1>1, <2>1 DEF LooksAccounted
  <2>3. Part(job[w].reg, job[w].role) \in [from : Nat, to : Nat]
    BY <1>1, ProposalFacts DEF ProspectiveTypeOK
  <2>4. \A l \in looks : l.day \in Nat
    BY DEF ProspectiveTypeOK, Days
  <2>5. Unseen(job[w].reg, job[w].role)
    BY <2>2, <2>3, <2>4, PeriodTouched DEF Unseen
  <2>6. fresh' = fresh \cup {job[w].attempt}
    BY <2>5 DEF Writes, AppendEvent
  <2> QED BY <2>6
<1> QED BY <1>2

LEMMA JobsFirstStep ==
    ASSUME ProspectiveTypeOK, JobsPlaced, DaysPast, LooksAccounted, FirstToStart, JobsFirst,
           [Next]_vars
    PROVE  JobsFirst'
<1> SUFFICES ASSUME NEW w \in Evaluators, job'[w] # Idle,
                    Independently(job'[w].class), ~AwaitsStart(job'[w])
             PROVE  job'[w].attempt \in fresh' \/ overlapped'
  BY DEF JobsFirst, Busy
<1>1. CASE Step(w) /\ Launches(w)
  BY <1>1, AttemptsGrow DEF AwaitsStart
<1>2. CASE job[w] # Idle /\ job'[w].attempt = job[w].attempt
           /\ Independently(job[w].class) /\ ~AwaitsStart(job[w])
  BY <1>2, OverlappedGrows DEF JobsFirst, Busy
<1>3. CASE ~Step(w) /\ job'[w] = job[w]
  BY <1>2, <1>3
<1>4. CASE job[w] # Idle /\ SameTask(w) /\ Advances(w)
  <2>1. job'[w].attempt = job[w].attempt /\ Independently(job[w].class)
    BY <1>4 DEF SameTask
  <2>2. CASE Writes(w) /\ job[w].event = "started"
    BY <2>1, <2>2, StartIsFirst, OverlappedGrows
  <2>3. CASE ~(Writes(w) /\ job[w].event = "started")
    <3>1. ~AwaitsStart(job[w])
      BY <1>4, <2>3 DEF Advances, AwaitsStart, JobsPlaced
    <3> QED BY <1>2, <1>4, <2>1, <3>1
  <2> QED BY <2>2, <2>3
<1> QED BY <1>1, <1>3, <1>4, JobChanges

LEMMA RunsFirstStep ==
    ASSUME ProspectiveTypeOK, JobsPlaced, StudyHeld, JobsFirst, RunsFirst, [Next]_vars
    PROVE  RunsFirst'
<1>1. CASE runs' = runs
  BY <1>1, OverlappedGrows DEF RunsFirst
<1>2. ASSUME NEW w \in Evaluators, NEW run \in RunRecord,
             job[w] # Idle, job[w].pc = "record", runs' = runs \cup {run},
             run.attempt = job[w].attempt, run.independence = job[w].class
      PROVE  RunsFirst'
  <2>1. w \in Busy /\ ~AwaitsStart(job[w])
    BY <1>2 DEF Busy, AwaitsStart
  <2>2. Independently(run.independence) => run.attempt \in fresh \/ overlapped
    BY <1>2, <2>1 DEF JobsFirst
  <2> QED BY <1>2, <2>2, OverlappedGrows DEF RunsFirst
<1>3. ASSUME NEW run \in RunRecord, StudyRead, runs' = runs \cup {run},
             run.independence = study.run.independence, study.run \in RunRecord
      PROVE  RunsFirst'
  <2>1. study # NoStudy /\ study.run # NoRun
    BY <1>3 DEF StudyRead, RunRecord, NoRun
  <2>2. ~Independently(run.independence)
    BY <1>3, <2>1 DEF StudyHeld, Independently, None
  <2> QED BY <1>3, <2>2, OverlappedGrows DEF RunsFirst
<1> QED BY <1>1, <1>2, <1>3, RunsMove

-----------------------------------------------------------------------------
(* What the two ledgers rest on.                                            *)

\* A prospective run is of a registration.
RunsPlaced == \A r \in runs : r.kind = "prospective" => r.id[1] \in Registered
\* The ledger cites runs there are, and a supported policy has its run.
Cites == \A c \in Claimed : ledger[c].cited \subseteq runs
Supported ==
    \A p \in Policies : models.policies[p] = "supported_by_prospective_evidence" =>
        \E r \in runs : Independently(r.independence) /\ r.id[2] = p

LEMMA RunsPlacedStep ==
    ASSUME ProspectiveTypeOK, JobsPlaced, StudyHeld, RunsPlaced, [Next]_vars
    PROVE  RunsPlaced'
<1>0. Registered \subseteq Registered'
  BY LogMoves
<1>1. CASE runs' = runs
  BY <1>0, <1>1 DEF RunsPlaced
<1>2. ASSUME NEW w \in Evaluators, NEW run \in RunRecord, job[w] # Idle,
             runs' = runs \cup {run}, run.id[1] = job[w].reg
      PROVE  RunsPlaced'
  BY <1>0, <1>2 DEF RunsPlaced, JobsPlaced
<1>3. ASSUME NEW run \in RunRecord, StudyRead, runs' = runs \cup {run},
             run.kind = study.run.kind, study.run \in RunRecord
      PROVE  RunsPlaced'
  <2>1. study # NoStudy /\ study.run # NoRun
    BY <1>3 DEF StudyRead, RunRecord, NoRun
  <2>2. run.kind # "prospective"
    BY <1>3, <2>1 DEF StudyHeld
  <2> QED BY <1>0, <1>3, <2>2 DEF RunsPlaced
<1> QED BY <1>1, <1>2, <1>3, RunsMove

LEMMA RunsGrow ==
    ASSUME ProspectiveTypeOK, JobsPlaced, [Next]_vars
    PROVE  runs \subseteq runs'
BY RunsMove

LEMMA DerivedCites == \A c \in Claimed : DeriveLedger[c] = Entry(c)
                                         /\ DeriveLedger[c].cited = CampaignRuns(c)
                                         /\ CampaignRuns(c) \subseteq runs
<1> SUFFICES ASSUME NEW c \in Claimed
             PROVE  /\ DeriveLedger[c] = Entry(c)
                    /\ DeriveLedger[c].cited = CampaignRuns(c) /\ CampaignRuns(c) \subseteq runs
  OBVIOUS
<1>1. DeriveLedger[c] = Entry(c)
  BY DEF DeriveLedger
<1>2. Entry(c).cited = CampaignRuns(c)
  BY DEF Entry
<1>3. CampaignRuns(c) \subseteq runs
  BY DEF CampaignRuns
<1> QED BY <1>1, <1>2, <1>3

LEMMA CitesStep ==
    ASSUME ProspectiveTypeOK, JobsPlaced, Cites, [Next]_vars
    PROVE  Cites'
<1>1. CASE ledger' = ledger
  BY <1>1, RunsGrow DEF Cites
<1>2. CASE Derive
  <2>1. ledger' = DeriveLedger
    BY <1>2 DEF Derive, AppendRevision
  <2> QED BY <2>1, DerivedCites, RunsGrow DEF Cites
<1> QED BY <1>1, <1>2, ThreeKinds, StepLeaves, RegisteringLeaves, AsideLeaves

\* A status `supported` comes from an entry of an independent class that
\* decided so.
LEMMA SupportedMeans ==
    ASSUME NEW evidence,
           DeriveStatus("qualification_policy", evidence) = "supported_by_prospective_evidence"
    PROVE  \E e \in evidence : e.class \in Independent
<1> DEFINE statuses == {DecisionStatus(e.decision) : e \in
                             {x \in evidence : ~x.via /\ x.class \in Independent}}
<1>1. DeriveStatus("qualification_policy", evidence) =
        IF statuses = {}
        THEN IF \E e \in evidence : e.class = "prospective_registration"
             THEN "registered_for_prospective_evaluation" ELSE "experimental"
        ELSE IF {"supported_by_prospective_evidence",
                 "contradicted_by_prospective_evidence"} \subseteq statuses
        THEN "conflicting_prospective_evidence"
        ELSE IF Cardinality(statuses) = 1 THEN CHOOSE s \in statuses : TRUE
        ELSE IF "insufficient_prospective_evidence" \in statuses
        THEN "insufficient_prospective_evidence"
        ELSE "inconclusive_prospective_evidence"
  BY DEF DeriveStatus
<1>2. statuses # {}
  <2> HIDE DEF statuses
  <2> QED BY <1>1
<1>3. PICK s \in statuses : TRUE
  BY <1>2
<1> QED BY <1>3

LEMMA SupportedStep ==
    ASSUME ProspectiveTypeOK, JobsPlaced, Supported, [Next]_vars
    PROVE  Supported'
<1>1. CASE models' = models
  BY <1>1, RunsGrow DEF Supported
<1>2. CASE SyncModels
  <2> SUFFICES ASSUME NEW p \in Policies,
                      models'.policies[p] = "supported_by_prospective_evidence"
               PROVE  \E r \in runs : Independently(r.independence) /\ r.id[2] = p
    BY RunsGrow DEF Supported
  <2>1. models' = DeriveModels
    BY <1>2 DEF SyncModels
  <2>2. models'.policies[p] = DeriveStatus("qualification_policy", PolicyEvidence(p))
    BY <2>1 DEF DeriveModels
  <2>3. PICK e \in PolicyEvidence(p) : e.class \in Independent
    BY <2>2, SupportedMeans
  <2>4. PICK r \in {x \in runs : x.kind = "truffles" /\ x.id[2] = p} : e = PolicyEntry(r)
    <3>1. e.class # "prospective_registration"
      BY <2>3 DEF Independent
    <3> QED BY <2>3, <3>1 DEF PolicyEvidence
  <2>5. Independently(r.independence)
    BY <2>3, <2>4 DEF PolicyEntry, Independent, Independently
  <2> QED BY <2>4, <2>5
<1> QED BY <1>1, <1>2, ThreeKinds, StepLeaves, RegisteringLeaves, AsideLeaves

\* `prospectively_validated` comes from an independent prospective run that is
\* cited.
LEMMA ValidatedMeans ==
    ASSUME NEW records, NEW primary,
           KnowledgeStatus("positive", CollectEvidence(records, primary, None, 2), 2).validation
             = "prospectively_validated"
    PROVE  \E r \in records : Independently(r.independence)
<1> DEFINE evidence == CollectEvidence(records, primary, None, 2)
<1>1. KnowledgeStatus("positive", evidence, 2).validation = ValidationStatusV2(evidence)
  <2> HIDE DEF evidence
  <2> QED BY DEF KnowledgeStatus
<1>2. ValidationStatusV2(evidence) = "prospectively_validated"
  BY <1>1
<1>3. IndependentOf(evidence) # {}
  <2> HIDE DEF evidence
  <2> QED BY <1>2 DEF ValidationStatusV2, ValidationStatus
<1>4. PICK e \in evidence : e.run.kind = "prospective" /\ e.class \in Independent
  <2> HIDE DEF evidence
  <2> QED BY <1>3 DEF IndependentOf, Prospective
<1>5. PICK r \in records : e.run = r /\ e.class = EvidenceClass(r)
  BY <1>4 DEF CollectEvidence
<1>6. Independently(r.independence)
  BY <1>4, <1>5 DEF EvidenceClass, Independent, Independently
<1> QED BY <1>6

\* The two parts of LedgerBacked, for one claim of a revision.
Backed(r) ==
    \E i \in DOMAIN log[r.id[1]] :
        LET e == log[r.id[1]][i]
        IN  e.type = "completed" /\ r.at \in e.runs /\ e.class = r.independence
            /\ \E k \in 1..i : log[r.id[1]][k].type = "started"
                           /\ log[r.id[1]][k].attempt = r.attempt

LEMMA VerifiedIsBacked ==
    ASSUME ProspectiveTypeOK, StartedFirst, NEW r, r.kind = "prospective",
           r.id[1] \in Registered, VerifyRun(r)
    PROVE  Backed(r)
<1>1. PICK e \in Range(log[r.id[1]]) : e.type = "completed" /\ e.attempt = r.attempt
                                       /\ r.at \in e.runs /\ e.class = r.independence
  BY DEF VerifyRun
<1>2. PICK i \in DOMAIN log[r.id[1]] : log[r.id[1]][i] = e
  BY EventFacts
<1>3. PICK k \in 1..i : log[r.id[1]][k].type = "started"
                        /\ log[r.id[1]][k].attempt = log[r.id[1]][i].attempt
  BY <1>1, <1>2 DEF StartedFirst
<1> QED BY <1>1, <1>2, <1>3 DEF Backed

LEMMA BackedStays ==
    ASSUME ProspectiveTypeOK, JobsPlaced, [Next]_vars, NEW r, r.id[1] \in Registered, Backed(r)
    PROVE  Backed(r)'
<1> DEFINE id == r.id[1]
<1>1. CASE log'[id] = log[id]
  BY <1>1 DEF Backed
<1>2. ASSUME NEW w \in Evaluators, log'[id] = Append(log[id], NewEvent(w))
      PROVE  Backed(r)'
  <2>1. log[id] \in Seq(Event) /\ Len(log[id]) \in Nat /\ DOMAIN log[id] = 1..Len(log[id])
    BY EventFacts
  <2>2. /\ DOMAIN log'[id] = 1..(Len(log[id]) + 1)
        /\ \A k \in DOMAIN log[id] : log'[id][k] = log[id][k]
    BY <1>2, <2>1, AppendFacts
  <2>3. PICK i \in DOMAIN log[id] :
          /\ log[id][i].type = "completed" /\ r.at \in log[id][i].runs
          /\ log[id][i].class = r.independence
          /\ \E k \in 1..i : log[id][k].type = "started" /\ log[id][k].attempt = r.attempt
    BY DEF Backed
  <2>4. PICK k \in 1..i : log[id][k].type = "started" /\ log[id][k].attempt = r.attempt
    BY <2>3
  <2>5. k \in DOMAIN log[id] /\ i \in DOMAIN log'[id]
    BY <2>1, <2>2, <2>3, <2>4
  <2>6. log'[id][i] = log[id][i] /\ log'[id][k] = log[id][k]
    BY <2>2, <2>3, <2>5
  <2> QED BY <2>3, <2>4, <2>5, <2>6 DEF Backed
<1> QED BY <1>1, <1>2, LogMoves

LEMMA LedgerBackedStep ==
    ASSUME ProspectiveTypeOK, JobsPlaced, StartedFirst, RunsFirst, RunsPlaced, Cites, LedgerBacked,
           [Next]_vars
    PROVE  LedgerBacked'
<1> SUFFICES ASSUME NEW c \in Claimed
             PROVE  /\ \A r \in {x \in ledger'[c].cited : x.kind = "prospective"} : Backed(r)'
                    /\ ledger'[c].status.validation = "prospectively_validated" =>
                          overlapped' \/ \E r \in ledger'[c].cited : r.attempt \in fresh'
  BY DEF LedgerBacked, Backed
<1>1. CASE ledger' = ledger
  <2>1. \A r \in {x \in ledger[c].cited : x.kind = "prospective"} :
          Backed(r) /\ r.id[1] \in Registered
    BY DEF LedgerBacked, Backed, Cites, RunsPlaced
  <2>2. ledger[c].status.validation = "prospectively_validated" =>
          overlapped \/ \E r \in ledger[c].cited : r.attempt \in fresh
    BY DEF LedgerBacked
  <2> QED BY <1>1, <2>1, <2>2, BackedStays, OverlappedGrows
<1>2. CASE Derive
  <2>1. ledger' = DeriveLedger /\ VerifyRevision(DeriveLedger)
    BY <1>2 DEF Derive, AppendRevision
  <2>2. ledger'[c] = Entry(c) /\ ledger'[c].cited = CampaignRuns(c) /\ CampaignRuns(c) \subseteq runs
    BY <2>1, DerivedCites
  <2>3. \A r \in CampaignRuns(c) : VerifyRun(r)
    BY <2>1, <2>2 DEF VerifyRevision
  <2>4. \A r \in {x \in ledger'[c].cited : x.kind = "prospective"} :
          r.id[1] \in Registered /\ Backed(r)
    BY <2>2, <2>3, VerifiedIsBacked DEF RunsPlaced
  <2>5. ASSUME ledger'[c].status.validation = "prospectively_validated"
        PROVE  overlapped \/ \E r \in ledger'[c].cited : r.attempt \in fresh
    <3>1. Entry(c).status = KnowledgeStatus("positive", Evidence(c), 2)
      BY DEF Entry
    <3>2. KnowledgeStatus("positive",
             CollectEvidence(CampaignRuns(c), {<<"study", c>>}, None, 2), 2).validation
             = "prospectively_validated"
      BY <2>2, <2>5, <3>1 DEF Evidence
    <3>3. PICK r \in CampaignRuns(c) : Independently(r.independence)
      BY <3>2, ValidatedMeans
    <3> QED BY <2>2, <3>3 DEF RunsFirst
  <2> QED BY <2>4, <2>5, BackedStays, OverlappedGrows
<1> QED BY <1>1, <1>2, ThreeKinds, StepLeaves, RegisteringLeaves, AsideLeaves

-----------------------------------------------------------------------------
(* The inductive invariant, and the theorems.                               *)

ProspectiveInv ==
    /\ ProspectiveTypeOK /\ JobsPlaced
    /\ Registrations /\ DaysPast /\ StudyHeld
    /\ EventsNumbered /\ JobsNumbered /\ JobsStarted /\ StartedFirst
    /\ ReadsAllowed /\ LooksAccounted
    /\ Apart /\ FirstToStart /\ JobsFirst /\ RunsFirst
    /\ RunsPlaced /\ Cites /\ Supported /\ LedgerBacked

LEMMA ProspectiveInit == Init => ProspectiveInv
<1> SUFFICES ASSUME Init PROVE ProspectiveInv
  OBVIOUS
<1>1. ProspectiveTypeOK /\ JobsPlaced
  BY ProspectiveTypeInit
<1>2. /\ Registered = {} /\ shards = {} /\ Busy = {} /\ study = NoStudy /\ looks = {} /\ runs = {}
  BY InitNothing DEF Init, Busy
<1>3. ledger = DeriveLedger /\ models = DeriveModels
  BY DEF Init
<1>4. \A c \in Claimed : ledger[c] = Entry(c) /\ ledger[c].cited = {}
  BY <1>2, <1>3, DerivedCites
<1>5. Registrations /\ DaysPast /\ StudyHeld /\ EventsNumbered /\ JobsNumbered /\ JobsStarted
      /\ StartedFirst /\ LooksAccounted /\ JobsFirst /\ RunsFirst /\ RunsPlaced /\ Apart
      /\ FirstToStart /\ ReadsAllowed
  BY <1>2 DEF Registrations, DaysPast, StudyHeld, EventsNumbered, JobsNumbered, JobsStarted,
              StartedFirst, LooksAccounted, JobsFirst, RunsFirst, RunsPlaced, Apart,
              FirstToStart, ReadsAllowed
<1>6. Cites
  BY <1>4 DEF Cites
<1>7. Supported
  <2> SUFFICES ASSUME NEW p \in Policies,
                      models.policies[p] = "supported_by_prospective_evidence"
               PROVE  FALSE
    BY DEF Supported
  <2>1. models.policies[p] = DeriveStatus("qualification_policy", PolicyEvidence(p))
    BY <1>3 DEF DeriveModels
  <2>2. PICK e \in PolicyEvidence(p) : e.class \in Independent
    BY <2>1, SupportedMeans
  <2> QED BY <1>2, <2>2 DEF PolicyEvidence, Independent
<1>8. LedgerBacked
  <2> SUFFICES ASSUME NEW c \in Claimed
               PROVE  ledger[c].status.validation # "prospectively_validated"
    BY <1>4 DEF LedgerBacked
  <2>1. ledger[c].status = KnowledgeStatus("positive", Evidence(c), 2)
    <3>1. ledger[c] = Entry(c)
      BY <1>4
    <3>2. Entry(c).status = KnowledgeStatus("positive", Evidence(c), 2)
      BY DEF Entry
    <3> QED BY <3>1, <3>2
  <2>2. CampaignRuns(c) = {}
    BY <1>2 DEF CampaignRuns
  <2> QED BY <2>1, <2>2, ValidatedMeans DEF Evidence
<1> QED BY <1>1, <1>5, <1>6, <1>7, <1>8 DEF ProspectiveInv

LEMMA ProspectiveStep == ProspectiveInv /\ [Next]_vars => ProspectiveInv'
<1> SUFFICES ASSUME ProspectiveInv, [Next]_vars PROVE ProspectiveInv'
  OBVIOUS
<1> USE DEF ProspectiveInv
<1>1. ProspectiveTypeOK' /\ JobsPlaced'
  BY ProspectiveTypeStep
<1>2. Registrations' /\ DaysPast' /\ StudyHeld'
  BY RegistrationsStep, DaysPastStep, StudyHeldStep
<1>3. EventsNumbered' /\ JobsNumbered' /\ JobsStarted' /\ StartedFirst'
  BY EventsNumberedStep, JobsNumberedStep, JobsStartedStep, StartedFirstStep
<1>4. ReadsAllowed' /\ LooksAccounted'
  BY ReadsAllowedStep, LooksAccountedStep
<1>5. Apart' /\ FirstToStart' /\ JobsFirst' /\ RunsFirst'
  BY ApartStep, FirstToStartStep, JobsFirstStep, RunsFirstStep
<1>6. RunsPlaced' /\ Cites' /\ Supported' /\ LedgerBacked'
  BY RunsPlacedStep, CitesStep, SupportedStep, LedgerBackedStep
<1> QED BY <1>1, <1>2, <1>3, <1>4, <1>5, <1>6

LEMMA ProspectiveInvariant == Spec => []ProspectiveInv
BY ProspectiveInit, ProspectiveStep, PTL DEF Spec

LEMMA ReadStep ==
    ASSUME ProspectiveInv, [Next]_vars, NEW l \in looks' \ looks,
           NEW id \in Registered, NEW role \in Roles(id),
           Touches(l.day, Part(id, role)), ~Completed(id, role)
    PROVE  \E w \in Evaluators :
             /\ job[w].pc = "read" /\ l.by = id
             /\ job[w].reg = id /\ job[w].role = role
             /\ "started" \in TypesOf(id, job[w].attempt)
<1> USE DEF ProspectiveInv
<1>1. PICK w \in Busy : job[w].pc = "read" /\ l.day \in job[w].days /\ l.by = job[w].reg
  BY NewLooks DEF ReadsAllowed
<1>2. id = job[w].reg /\ role = job[w].role
  BY <1>1 DEF ReadsAllowed
<1>3. ~AwaitsStart(job[w])
  BY <1>1 DEF AwaitsStart
<1>4. "started" \in TypesOf(id, job[w].attempt)
  BY <1>2, <1>3 DEF JobsStarted, StartedBy, TypesOf
<1> QED BY <1>1, <1>2, <1>4 DEF Busy

(* Reserved outcomes are read only by the evaluation of that partition, and *)
(* only once its `started` event is on disk: the check and the read are     *)
(* steps apart, and nothing that comes between them opens the partition.    *)
THEOREM ReservedStaysUnread == Spec => ReservedUnread
<1>1. ProspectiveInv /\ [Next]_vars =>
        [\A l \in looks' \ looks, id \in Registered : \A role \in Roles(id) :
          Touches(l.day, Part(id, role)) /\ ~Completed(id, role) =>
              \E w \in Evaluators :
                  /\ job[w].pc = "read" /\ l.by = id
                  /\ job[w].reg = id /\ job[w].role = role
                  /\ "started" \in TypesOf(id, job[w].attempt)]_vars
  BY ReadStep
<1> QED BY <1>1, ProspectiveInvariant, PTL DEF Spec, ReservedUnread

(* A run recorded as independent was the first look at its period, and a    *)
(* policy called supported rests on such a run.                             *)
THEOREM IndependenceIsFirstLook == Spec => []IndependentIsFirst
<1>1. ProspectiveInv => IndependentIsFirst
  BY DEF ProspectiveInv, RunsFirst, Supported, Independently, IndependentIsFirst
<1> QED BY <1>1, ProspectiveInvariant, PTL

(* What the campaign ledger states is backed by the exposure log.           *)
THEOREM LedgerIsBacked == Spec => []LedgerBacked
<1>1. ProspectiveInv => LedgerBacked
  BY DEF ProspectiveInv
<1> QED BY <1>1, ProspectiveInvariant, PTL

-----------------------------------------------------------------------------
(* The log of attempts: what is on disk of an attempt, and how a step adds  *)
(* to it.                                                                   *)

LEMMA TypesMeans ==
    ASSUME NEW a, NEW t
    PROVE  t \in TypesWritten(a) <=>
               \E id \in Registered : \E e \in Range(log[id]) : e.attempt = a /\ e.type = t
BY DEF TypesWritten, TypesOf

LEMMA NamedMeans ==
    ASSUME NEW a, NEW n
    PROVE  n \in RunsNamed(a) <=>
               \E id \in Registered : \E e \in Range(log[id]) : e.attempt = a /\ n \in e.runs
BY DEF RunsNamed

LEMMA RecordedMeans ==
    ASSUME NEW a, NEW n
    PROVE  n \in RunsRecorded(a) <=> \E r \in runs : r.attempt = a /\ r.at = n
BY DEF RunsRecorded

\* The attempts' part of a log is as it was.
SameLog == \A a : TypesWritten(a)' = TypesWritten(a) /\ RunsNamed(a)' = RunsNamed(a)

\* One event more, of one attempt.
OneEvent(w) ==
    \A a : /\ a # job[w].attempt =>
                  TypesWritten(a)' = TypesWritten(a) /\ RunsNamed(a)' = RunsNamed(a)
           /\ a = job[w].attempt =>
                  /\ TypesWritten(a)' = TypesWritten(a) \cup {job[w].event}
                  /\ RunsNamed(a)' = RunsNamed(a) \cup job[w].done

LEMMA EventsStay ==
    ASSUME ProspectiveTypeOK, JobsPlaced, [Next]_vars,
           \A w \in Evaluators : ~(Step(w) /\ Writes(w))
    PROVE  SameLog
<1> SUFFICES ASSUME NEW a
             PROVE  TypesWritten(a)' = TypesWritten(a) /\ RunsNamed(a)' = RunsNamed(a)
  BY DEF SameLog
<1>1. ASSUME NEW e
      PROVE  (\E id \in Registered' : e \in Range(log'[id])) <=> \E id \in Registered : e \in Range(log[id])
  BY LogGrows
<1>2. ASSUME NEW t
      PROVE  t \in TypesWritten(a)' <=> t \in TypesWritten(a)
  <2>1. t \in TypesWritten(a)' <=>
          \E id \in Registered' : \E e \in Range(log'[id]) : e.attempt = a /\ e.type = t
    BY DEF TypesWritten, TypesOf
  <2> QED BY <1>1, <2>1, TypesMeans
<1>3. ASSUME NEW n
      PROVE  n \in RunsNamed(a)' <=> n \in RunsNamed(a)
  <2>1. n \in RunsNamed(a)' <=>
          \E id \in Registered' : \E e \in Range(log'[id]) : e.attempt = a /\ n \in e.runs
    BY DEF RunsNamed
  <2> QED BY <1>1, <2>1, NamedMeans
<1> QED BY <1>2, <1>3

LEMMA EventAdded ==
    ASSUME ProspectiveTypeOK, JobsPlaced, [Next]_vars, NEW w \in Evaluators, Step(w), Writes(w)
    PROVE  OneEvent(w)
<1>0. /\ NewEvent(w).attempt = job[w].attempt /\ NewEvent(w).type = job[w].event
      /\ NewEvent(w).runs = job[w].done
  BY DEF NewEvent
<1>1. ASSUME NEW e
      PROVE  (\E id \in Registered' : e \in Range(log'[id])) <=>
               \/ \E id \in Registered : e \in Range(log[id])
               \/ e = NewEvent(w)
  <2>1. ASSUME NEW id \in Registered', e \in Range(log'[id])
        PROVE  (\E other \in Registered : e \in Range(log[other])) \/ e = NewEvent(w)
    BY <2>1, LogGrows, OneMover
  <2>2. job[w].reg \in Registered' /\ NewEvent(w) \in Range(log'[job[w].reg])
    BY WriteFacts, LogGrows
  <2>3. ASSUME NEW id \in Registered, e \in Range(log[id])
        PROVE  id \in Registered' /\ e \in Range(log'[id])
    BY <2>3, LogGrows
  <2> QED BY <2>1, <2>2, <2>3
<1>2. ASSUME NEW a, NEW t
      PROVE  t \in TypesWritten(a)' <=>
                t \in TypesWritten(a) \/ (a = job[w].attempt /\ t = job[w].event)
  <2>1. t \in TypesWritten(a)' <=>
          \E id \in Registered' : \E e \in Range(log'[id]) : e.attempt = a /\ e.type = t
    BY DEF TypesWritten, TypesOf
  <2>2. t \in TypesWritten(a)' <=>
          \/ \E id \in Registered : \E e \in Range(log[id]) : e.attempt = a /\ e.type = t
          \/ NewEvent(w).attempt = a /\ NewEvent(w).type = t
    BY ONLY <1>1, <2>1, Zenon
  <2> QED BY ONLY <1>0, <2>2, TypesMeans
<1>3. ASSUME NEW a, NEW n
      PROVE  n \in RunsNamed(a)' <=>
                n \in RunsNamed(a) \/ (a = job[w].attempt /\ n \in job[w].done)
  <2>1. n \in RunsNamed(a)' <=>
          \E id \in Registered' : \E e \in Range(log'[id]) : e.attempt = a /\ n \in e.runs
    BY DEF RunsNamed
  <2>2. n \in RunsNamed(a)' <=>
          \/ \E id \in Registered : \E e \in Range(log[id]) : e.attempt = a /\ n \in e.runs
          \/ NewEvent(w).attempt = a /\ n \in NewEvent(w).runs
    BY ONLY <1>1, <2>1, Zenon
  <2> QED BY ONLY <1>0, <2>2, NamedMeans
<1>4. ASSUME NEW a, a # job[w].attempt
      PROVE  TypesWritten(a)' = TypesWritten(a) /\ RunsNamed(a)' = RunsNamed(a)
  BY <1>2, <1>3, <1>4
<1>5. ASSUME NEW a, a = job[w].attempt
      PROVE  /\ TypesWritten(a)' = TypesWritten(a) \cup {job[w].event}
             /\ RunsNamed(a)' = RunsNamed(a) \cup job[w].done
  BY <1>2, <1>3, <1>5
<1> QED BY <1>4, <1>5 DEF OneEvent

\* One run more, of an attempt or of none.
OneRun(a, at) ==
    \A b : /\ b # a => RunsRecorded(b)' = RunsRecorded(b)
           /\ b = a => RunsRecorded(b)' = RunsRecorded(b) \cup {at}

LEMMA RunAdded ==
    ASSUME NEW run, runs' = runs \cup {run}
    PROVE  OneRun(run.attempt, run.at)
<1>1. ASSUME NEW b, NEW n
      PROVE  n \in RunsRecorded(b)' <=> n \in RunsRecorded(b) \/ (b = run.attempt /\ n = run.at)
  <2>1. n \in RunsRecorded(b)' <=> \E r \in runs' : r.attempt = b /\ r.at = n
    BY DEF RunsRecorded
  <2> QED BY <2>1, RecordedMeans
<1> QED BY <1>1 DEF OneRun

\* What an evaluation has recorded so far.
LEMMA DoneMoves ==
    ASSUME ProspectiveTypeOK, JobsPlaced, NEW w \in Evaluators, Step(w),
           job[w] # Idle, job'[w] # Idle
    PROVE  \/ /\ runs' = runs /\ job'[w].done = job[w].done
              /\ job'[w].event = "completed" => job[w].event = "completed"
           \/ /\ job[w].pc = "record"
              /\ job'[w].done = job[w].done \cup {Cardinality(runs) + 1}
              /\ \E found \in Findings(job[w]) : \/ runs' = runs \cup {Run(job[w], found)}
                                                \/ runs' = runs \cup {TruffleRun(job[w], found)}
<1>0. job \in [Evaluators -> EvaluationJob \cup {Idle}] /\ job[w] \in EvaluationJob
  BY JobFacts DEF ProspectiveTypeOK
<1>1. CASE \E id \in Registered : \E role \in Roles(id) :
             Begin(w, id, role) \/ BeginTruffles(w, id, role)
  BY <1>1, LaunchFacts DEF Launches
<1>2. CASE TakeNumber(w)
  <2>1. job' = [job EXCEPT ![w] = [job[w] EXCEPT !.pc = "append", !.seq = Len(log[job[w].reg]) + 1]]
        /\ runs' = runs
    BY <1>2 DEF TakeNumber
  <2>2. job'[w] = [job[w] EXCEPT !.pc = "append", !.seq = Len(log[job[w].reg]) + 1]
    BY <1>0, <2>1
  <2> QED BY <1>0, <2>1, <2>2 DEF EvaluationJob
<1>3. CASE AppendEvent(w)
  <2>1. runs' = runs /\ job' = [job EXCEPT ![w] = IF Writes(w) THEN AfterEvent(job[w]) ELSE Idle]
    BY <1>3 DEF AppendEvent, Writes
  <2>2. job'[w] = AfterEvent(job[w])
    BY <1>0, <2>1
  <2>3. CASE job[w].event = "authorized"
    <3>1. job'[w] = [job[w] EXCEPT !.pc = "number", !.event = "started"]
      BY <2>2, <2>3 DEF AfterEvent
    <3> QED BY <1>0, <2>1, <3>1 DEF EvaluationJob
  <2>4. CASE job[w].event = "started"
    <3>1. job'[w] = [job[w] EXCEPT !.pc = "check"]
      BY <2>2, <2>4 DEF AfterEvent
    <3> QED BY <1>0, <2>1, <3>1 DEF EvaluationJob
  <2>5. CASE job[w].event \notin {"authorized", "started"}
    BY <2>2, <2>5 DEF AfterEvent
  <2> QED BY <2>3, <2>4, <2>5
<1>4. CASE CheckAccess(w)
  <2>1. runs' = runs
    BY <1>4 DEF CheckAccess
  <2>2. CASE MayRead(job[w].days, Grants(w))
    <3>1. job' = [job EXCEPT ![w] = [job[w] EXCEPT !.pc = "read"]]
      BY <1>4, <2>2 DEF CheckAccess, Grants
    <3> QED BY <1>0, <2>1, <3>1 DEF EvaluationJob
  <2>3. CASE ~MayRead(job[w].days, Grants(w))
    <3>1. job' = [job EXCEPT ![w] = [job[w] EXCEPT !.pc = "number", !.event = "failed"]]
      BY <1>4, <2>3 DEF CheckAccess, Grants
    <3> QED BY <1>0, <2>1, <3>1 DEF EvaluationJob
  <2> QED BY <2>2, <2>3
<1>5. CASE ReadLabels(w)
  <2>1. runs' = runs /\ job' = [job EXCEPT ![w] = [job[w] EXCEPT !.pc = "record"]]
    BY <1>5 DEF ReadLabels
  <2> QED BY <1>0, <2>1 DEF EvaluationJob
<1>6. CASE Record(w)
  <2> DEFINE rest == Tail(job[w].claims)
             at == Cardinality(runs) + 1
  <2>1. job[w].pc = "record"
    BY <1>6 DEF Record
  <2>2. \A found : Run(job[w], found).at = at /\ TruffleRun(job[w], found).at = at
    BY DEF Run, TruffleRun
  <2>3. CASE SameDefinition(job[w].reg, job[w].role, Head(job[w].claims))
    <3>1. /\ job' = [job EXCEPT ![w] =
                [job[w] EXCEPT !.claims = rest, !.done = @ \cup {at},
                               !.pc = IF rest = <<>> THEN "number" ELSE "check",
                               !.event = IF rest = <<>> THEN "completed" ELSE @]]
          /\ \E found \in Findings(job[w]) : \/ runs' = runs \cup {Run(job[w], found)}
                                            \/ runs' = runs \cup {TruffleRun(job[w], found)}
      BY <1>6, <2>2, <2>3 DEF Record
    <3> HIDE DEF rest, at
    <3>2. job'[w].done = job[w].done \cup {at}
      BY <1>0, <3>1 DEF EvaluationJob
    <3> QED BY <2>1, <3>1, <3>2 DEF at
  <2>4. CASE ~SameDefinition(job[w].reg, job[w].role, Head(job[w].claims))
    <3>1. runs' = runs /\ job' = [job EXCEPT ![w] = [job[w] EXCEPT !.pc = "number", !.event = "failed"]]
      BY <1>6, <2>4 DEF Record
    <3> QED BY <1>0, <3>1 DEF EvaluationJob
  <2> QED BY <2>3, <2>4
<1>7. CASE Crash(w)
  <2>1. job'[w] = Idle
    BY <1>0, <1>7 DEF Crash
  <2> QED BY <2>1
<1> QED BY <1>1, <1>2, <1>3, <1>4, <1>5, <1>6, <1>7 DEF Step

\* The events an attempt has when its evaluation stands at j.
Before(j) ==
    IF j.pc \in {"number", "append"} /\ j.event = "authorized" THEN {}
    ELSE IF j.pc \in {"number", "append"} /\ j.event = "started" THEN {"authorized"}
    ELSE {"authorized", "started"}

\* The log and the runs of an attempt that is still being made are what its
\* evaluation stands for.
AttemptKept(w, a) ==
    job[w].attempt = a =>
        /\ TypesWritten(a) = Before(job[w])
        /\ RunsNamed(a) = {}
        /\ RunsRecorded(a) = job[w].done
        /\ Before(job[w]) # {"authorized", "started"} => job[w].done = {}
        /\ job[w].event = "completed" => job[w].done # {}
AttemptsKept == \A w \in Busy, a \in 1..MaxAttempts : AttemptKept(w, a)

\* Runs are numbered from one, and an attempt's number is handed out first.
RunsKept == \A r \in runs : r.attempt <= attempts /\ r.at <= Cardinality(runs)

LEMMA NewRun ==
    ASSUME ProspectiveTypeOK, RunsKept, NEW run, run.at = Cardinality(runs) + 1,
           runs' = runs \cup {run}
    PROVE  /\ run \notin runs /\ Cardinality(runs) \in Nat
           /\ Cardinality(runs)' = Cardinality(runs) + 1
<1>1. Cardinality(runs) \in Nat /\ IsFiniteSet(runs)
  BY FS_CardinalityType DEF ProspectiveTypeOK
<1>2. run \notin runs
  BY <1>1 DEF RunsKept
<1>3. Cardinality(runs \cup {run}) = Cardinality(runs) + 1
  BY <1>1, <1>2, FS_AddElement
<1> QED BY <1>1, <1>2, <1>3

LEMMA RunsKeptStep ==
    ASSUME ProspectiveTypeOK, JobsPlaced, StudyHeld, JobsNumbered, RunsKept, [Next]_vars
    PROVE  RunsKept'
<1>0. /\ attempts \in Nat /\ attempts' \in Nat /\ attempts <= attempts'
      /\ \A r \in runs : r.attempt \in Nat /\ r.at \in Nat
  BY AttemptsGrow DEF ProspectiveTypeOK, RunRecord
<1>1. CASE runs' = runs
  BY <1>0, <1>1 DEF RunsKept
<1>2. ASSUME NEW run \in RunRecord, runs' = runs \cup {run}, run.at = Cardinality(runs) + 1,
             run.attempt <= attempts
      PROVE  RunsKept'
  <2>1. Cardinality(runs) \in Nat /\ Cardinality(runs)' = Cardinality(runs) + 1
    BY <1>2, NewRun
  <2>2. run.attempt \in Nat
    BY DEF RunRecord
  <2> SUFFICES ASSUME NEW r \in runs' PROVE r.attempt <= attempts' /\ r.at <= Cardinality(runs)'
    BY DEF RunsKept
  <2>3. CASE r \in runs
    BY <1>0, <2>1, <2>3 DEF RunsKept
  <2>4. CASE r = run
    BY <1>0, <1>2, <2>1, <2>2, <2>4
  <2> QED BY <1>2, <2>3, <2>4
<1>3. ASSUME NEW run \in RunRecord, StudyRead, study.run \in RunRecord,
             run.attempt = study.run.attempt
      PROVE  run.attempt <= attempts
  <2>1. study # NoStudy /\ study.run # NoRun
    BY <1>3 DEF StudyRead, RunRecord, NoRun
  <2> QED BY <1>0, <1>3, <2>1 DEF StudyHeld
<1>4. ASSUME NEW w \in Evaluators, job[w] # Idle
      PROVE  job[w].attempt <= attempts
  BY <1>4 DEF JobsNumbered, Busy
<1> QED BY <1>1, <1>2, <1>3, <1>4, RunsMove

\* A step leaves the attempts alone that are not its evaluation's.
LEMMA Untouched ==
    ASSUME ProspectiveTypeOK, JobsPlaced, StudyHeld, [Next]_vars, NEW a \in Nat \ {0},
           \A w \in Busy : Step(w) => job[w].attempt # a
    PROVE  /\ TypesWritten(a)' = TypesWritten(a) /\ RunsNamed(a)' = RunsNamed(a)
           /\ RunsRecorded(a)' = RunsRecorded(a)
<1>1. TypesWritten(a)' = TypesWritten(a) /\ RunsNamed(a)' = RunsNamed(a)
  <2>1. CASE \A w \in Evaluators : ~(Step(w) /\ Writes(w))
    BY <2>1, EventsStay DEF SameLog
  <2>2. ASSUME NEW w \in Evaluators, Step(w), Writes(w)
        PROVE  TypesWritten(a)' = TypesWritten(a) /\ RunsNamed(a)' = RunsNamed(a)
    <3>1. OneEvent(w)
      BY <2>2, EventAdded
    <3>2. a # job[w].attempt
      BY <2>2, WriteFacts DEF Busy
    <3> QED BY <3>1, <3>2 DEF OneEvent
  <2> QED BY <2>1, <2>2
<1>2. CASE runs' = runs
  BY <1>1, <1>2 DEF RunsRecorded
<1>3. ASSUME NEW run, runs' = runs \cup {run}, run.attempt # a
      PROVE  RunsRecorded(a)' = RunsRecorded(a)
  <2>1. OneRun(run.attempt, run.at)
    BY <1>3, RunAdded
  <2> QED BY <1>3, <2>1 DEF OneRun
<1>4. ASSUME NEW run \in RunRecord, StudyRead, study.run \in RunRecord,
             run.attempt = study.run.attempt
      PROVE  run.attempt # a
  <2>1. study # NoStudy /\ study.run # NoRun
    BY <1>4 DEF StudyRead, RunRecord, NoRun
  <2> QED BY <1>4, <2>1 DEF StudyHeld
<1> QED BY <1>1, <1>2, <1>3, <1>4, RunsMove DEF Busy

LEMMA AttemptKeptStep ==
    ASSUME ProspectiveTypeOK, JobsPlaced, StudyHeld, EventsNumbered, JobsNumbered, RunsKept,
           AttemptsKept, [Next]_vars, NEW x \in Evaluators, job'[x] # Idle,
           NEW a \in 1..MaxAttempts, job'[x].attempt = a
    PROVE  /\ TypesWritten(a)' = Before(job'[x])
           /\ RunsNamed(a)' = {}
           /\ RunsRecorded(a)' = job'[x].done
           /\ Before(job'[x]) # {"authorized", "started"} => job'[x].done = {}
           /\ job'[x].event = "completed" => job'[x].done # {}
<1>0. /\ \A w \in Busy : job[w] \in EvaluationJob /\ job[w].attempt \in Nat
                         /\ job[w].attempt <= attempts
      /\ attempts \in Nat /\ a \in Nat \ {0}
  <2>1. \A w \in Busy : job[w] \in EvaluationJob
    BY JobFacts DEF Busy
  <2> QED BY <2>1, AttemptsGrow, Constants DEF EvaluationJob, JobsNumbered
<1>1. CASE ~Step(x) /\ job'[x] = job[x]
  <2>1. x \in Busy /\ job[x].attempt = a
    BY <1>1 DEF Busy
  <2>2. \A w \in Busy : Step(w) => job[w].attempt # a
    BY <1>1, <2>1 DEF JobsNumbered
  <2>3. /\ TypesWritten(a)' = TypesWritten(a) /\ RunsNamed(a)' = RunsNamed(a)
        /\ RunsRecorded(a)' = RunsRecorded(a)
    BY <1>0, <2>2, Untouched
  <2>4. AttemptKept(x, a)
    BY <2>1 DEF AttemptsKept
  <2> QED BY <1>1, <2>1, <2>3, <2>4 DEF AttemptKept
<1>2. CASE Step(x) /\ Launches(x)
  <2>1. a = attempts + 1 /\ job'[x].pc = "number" /\ job'[x].event = "authorized"
    BY <1>2, AttemptsGrow
  <2>2. job'[x].done = {}
    BY <1>2 DEF Launches, Evaluation
  <2>3. \A w \in Busy : Step(w) => job[w].attempt # a
    BY <1>0, <2>1
  <2>4. /\ \A id \in Registered : \A e \in Range(log[id]) : e.attempt # a
        /\ \A r \in runs : r.attempt # a
    <3>1. \A id \in Registered : \A e \in Range(log[id]) : e.attempt \in Nat /\ e.attempt <= attempts
      BY EventFacts DEF Event, EventsNumbered
    <3>2. \A r \in runs : r.attempt \in Nat /\ r.attempt <= attempts
      BY DEF RunsKept, ProspectiveTypeOK, RunRecord
    <3> QED BY <1>0, <2>1, <3>1, <3>2
  <2>5. TypesWritten(a) = {} /\ RunsNamed(a) = {} /\ RunsRecorded(a) = {}
    BY <2>4, TypesMeans, NamedMeans, RecordedMeans
  <2>6. TypesWritten(a)' = {} /\ RunsNamed(a)' = {} /\ RunsRecorded(a)' = {}
    BY <1>0, <2>3, <2>5, Untouched
  <2>7. Before(job'[x]) = {}
    BY <2>1 DEF Before
  <2> QED BY <2>1, <2>2, <2>6, <2>7
<1>3. CASE Step(x) /\ job[x] # Idle /\ SameTask(x) /\ Advances(x)
  <2>1. x \in Busy /\ job[x].attempt = a
    BY <1>3 DEF Busy, SameTask
  <2>2. AttemptKept(x, a)
    BY <2>1 DEF AttemptsKept
  <2>3. CASE Writes(x)
    <3>1. job[x].pc = "append" /\ job'[x].event = "started"
          /\ \/ job[x].event = "authorized" /\ job'[x].pc = "number"
             \/ job[x].event = "started" /\ job'[x].pc = "check"
      BY <1>3, <2>3, WriteFacts DEF Advances, TakeNumber, CheckAccess, ReadLabels, Record
    <3>2. runs' = runs /\ job'[x].done = job[x].done
      BY <1>3, <3>1, DoneMoves
    <3>3. RunsRecorded(a)' = RunsRecorded(a)
      BY <3>2 DEF RunsRecorded
    <3>4. /\ TypesWritten(a)' = TypesWritten(a) \cup {job[x].event}
          /\ RunsNamed(a)' = RunsNamed(a) \cup job[x].done
      BY <1>3, <2>1, <2>3, EventAdded DEF OneEvent
    <3>5. Before(job[x]) # {"authorized", "started"} /\ job[x].done = {}
      BY <2>1, <2>2, <3>1 DEF AttemptKept, Before
    <3>6. TypesWritten(a) = Before(job[x]) /\ RunsNamed(a) = {} /\ RunsRecorded(a) = job[x].done
      BY <2>1, <2>2 DEF AttemptKept
    <3>7. Before(job'[x]) = Before(job[x]) \cup {job[x].event}
      BY <3>1 DEF Before
    <3> QED BY <3>1, <3>2, <3>3, <3>4, <3>5, <3>6, <3>7
  <2>4. CASE ~Writes(x)
    <3>1. TypesWritten(a)' = TypesWritten(a) /\ RunsNamed(a)' = RunsNamed(a)
      BY <1>3, <2>4, OneMover, EventsStay DEF SameLog
    <3>2. Before(job'[x]) = Before(job[x])
      BY <1>3, <2>4 DEF Advances, Before
    <3>3. /\ TypesWritten(a) = Before(job[x]) /\ RunsNamed(a) = {} /\ RunsRecorded(a) = job[x].done
          /\ Before(job[x]) # {"authorized", "started"} => job[x].done = {}
          /\ job[x].event = "completed" => job[x].done # {}
      BY <2>1, <2>2 DEF AttemptKept
    <3>4. CASE runs' = runs /\ job'[x].done = job[x].done
               /\ (job'[x].event = "completed" => job[x].event = "completed")
      <4>1. RunsRecorded(a)' = RunsRecorded(a)
        BY <3>4 DEF RunsRecorded
      <4> QED BY <3>1, <3>2, <3>3, <3>4, <4>1
    <3>5. CASE /\ job[x].pc = "record" /\ job'[x].done = job[x].done \cup {Cardinality(runs) + 1}
               /\ \E found \in Findings(job[x]) :
                      runs' = runs \cup {Run(job[x], found)} \/ runs' = runs \cup {TruffleRun(job[x], found)}
      <4>1. job[x] \in EvaluationJob /\ job[x].claims # <<>>
        BY <1>0, <2>1, <3>5 DEF JobsPlaced, Busy
      <4>2. PICK run : /\ runs' = runs \cup {run} /\ run.attempt = a
                       /\ run.at = Cardinality(runs) + 1
        BY <2>1, <3>5, <4>1, RunTypes
      <4>3. RunsRecorded(a)' = RunsRecorded(a) \cup {Cardinality(runs) + 1}
        BY <4>2, RunAdded DEF OneRun
      <4>4. Before(job[x]) = {"authorized", "started"}
        BY <3>5 DEF Before
      <4> QED BY <3>1, <3>2, <3>3, <3>5, <4>3, <4>4
    <3> QED BY <1>3, <3>4, <3>5, DoneMoves
  <2> QED BY <2>3, <2>4
<1> QED BY <1>1, <1>2, <1>3, JobChanges

LEMMA AttemptsKeptStep ==
    ASSUME ProspectiveTypeOK, JobsPlaced, StudyHeld, EventsNumbered, JobsNumbered, RunsKept,
           AttemptsKept, [Next]_vars
    PROVE  AttemptsKept'
<1> SUFFICES ASSUME NEW x \in Evaluators, job'[x] # Idle,
                    NEW a \in 1..MaxAttempts, job'[x].attempt = a
             PROVE  AttemptKept(x, a)'
  BY DEF AttemptsKept, AttemptKept, Busy
<1> QED BY AttemptKeptStep DEF AttemptKept, Before

-----------------------------------------------------------------------------
(* Every step is one of the log of attempts, or none.                       *)

AttemptsInv == ProspectiveInv /\ RunsKept /\ AttemptsKept

LEMMA AttemptsInvariant == Spec => []AttemptsInv
<1>1. Init => AttemptsInv
  <2> SUFFICES ASSUME Init PROVE RunsKept /\ AttemptsKept
    BY ProspectiveInit DEF AttemptsInv
  <2> QED BY DEF Init, RunsKept, AttemptsKept, Busy
<1>2. AttemptsInv /\ [Next]_vars => AttemptsInv'
  <2> SUFFICES ASSUME AttemptsInv, [Next]_vars PROVE AttemptsInv'
    OBVIOUS
  <2>1. ProspectiveInv'
    BY ProspectiveStep DEF AttemptsInv
  <2>2. RunsKept' /\ AttemptsKept'
    BY RunsKeptStep, AttemptsKeptStep DEF AttemptsInv, ProspectiveInv
  <2> QED BY <2>1, <2>2 DEF AttemptsInv
<1> QED BY <1>1, <1>2, PTL DEF Spec

\* A table over the attempts that changes in one place, or in none.
LEMMA OnePlace ==
    ASSUME NEW S, NEW f, NEW g, f = [x \in S |-> f[x]], g = [x \in S |-> g[x]],
           NEW a \in S, NEW v, g[a] = v, \A x \in S \ {a} : g[x] = f[x]
    PROVE  g = [f EXCEPT ![a] = v]
OBVIOUS

LEMMA NoPlace ==
    ASSUME NEW S, NEW f, NEW g, f = [x \in S |-> f[x]], g = [x \in S |-> g[x]],
           \A x \in S : g[x] = f[x]
    PROVE  g = f
OBVIOUS

LEMMA Tables ==
    /\ \A a \in 1..MaxAttempts : /\ Logged[a] = TypesWritten(a) /\ Gathered[a] = RunsRecorded(a)
                                 /\ Reported[a] = RunsNamed(a)
    /\ Logged = [a \in 1..MaxAttempts |-> Logged[a]]
    /\ Gathered = [a \in 1..MaxAttempts |-> Gathered[a]]
    /\ Reported = [a \in 1..MaxAttempts |-> Reported[a]]
BY DEF Logged, Gathered, Reported

LEMMA TablesPrimed ==
    /\ \A a \in 1..MaxAttempts : /\ Logged'[a] = TypesWritten(a)' /\ Gathered'[a] = RunsRecorded(a)'
                                 /\ Reported'[a] = RunsNamed(a)'
    /\ Logged' = [a \in 1..MaxAttempts |-> Logged'[a]]
    /\ Gathered' = [a \in 1..MaxAttempts |-> Gathered'[a]]
    /\ Reported' = [a \in 1..MaxAttempts |-> Reported'[a]]
BY DEF Logged, Gathered, Reported

LEMMA SameLogTables == SameLog => Logged' = Logged /\ Reported' = Reported
<1> SUFFICES ASSUME SameLog PROVE Logged' = Logged /\ Reported' = Reported
  OBVIOUS
<1>1. \A a \in 1..MaxAttempts : Logged'[a] = Logged[a] /\ Reported'[a] = Reported[a]
  BY Tables, TablesPrimed DEF SameLog
<1> QED BY <1>1, Tables, TablesPrimed, NoPlace

\* An event appended is the attempt's authorization, its start or its end.
LEMMA WriteMaps ==
    ASSUME AttemptsInv, [Next]_vars, NEW w \in Evaluators, Step(w), Writes(w)
    PROVE  A!Next
<1>0. /\ ProspectiveTypeOK /\ JobsPlaced /\ AttemptsKept
      /\ w \in Busy /\ job[w] \in EvaluationJob /\ job[w].pc = "append"
  BY WriteFacts DEF AttemptsInv, ProspectiveInv, Busy
<1>1. PICK a \in 1..MaxAttempts : job[w].attempt = a
  BY <1>0 DEF EvaluationJob
<1>2. /\ TypesWritten(a) = Before(job[w]) /\ RunsNamed(a) = {} /\ RunsRecorded(a) = job[w].done
      /\ Before(job[w]) # {"authorized", "started"} => job[w].done = {}
      /\ job[w].event = "completed" => job[w].done # {}
  BY <1>0, <1>1 DEF AttemptsKept, AttemptKept
<1>3. /\ TypesWritten(a)' = TypesWritten(a) \cup {job[w].event}
      /\ RunsNamed(a)' = job[w].done
      /\ \A b \in (1..MaxAttempts) \ {a} :
            TypesWritten(b)' = TypesWritten(b) /\ RunsNamed(b)' = RunsNamed(b)
  <2>1. OneEvent(w)
    BY <1>0, EventAdded
  <2>2. RunsNamed(a)' = RunsNamed(a) \cup job[w].done
    BY <1>1, <2>1 DEF OneEvent
  <2>3. RunsNamed(a) \cup job[w].done = job[w].done
    BY <1>2
  <2>4. TypesWritten(a)' = TypesWritten(a) \cup {job[w].event}
    BY <1>1, <2>1 DEF OneEvent
  <2>5. \A b \in (1..MaxAttempts) \ {a} :
            TypesWritten(b)' = TypesWritten(b) /\ RunsNamed(b)' = RunsNamed(b)
    BY <1>1, <2>1 DEF OneEvent
  <2> QED BY <2>2, <2>3, <2>4, <2>5
<1>4. runs' = runs
  BY DEF Writes, AppendEvent
<1>5. Gathered' = Gathered /\ Cardinality(runs)' = Cardinality(runs)
  BY <1>4 DEF Gathered, RunsRecorded
<1>6. /\ Logged[a] = Before(job[w]) /\ Gathered[a] = job[w].done
      /\ Logged'[a] = Before(job[w]) \cup {job[w].event} /\ Reported'[a] = job[w].done
      /\ \A b \in (1..MaxAttempts) \ {a} : Logged'[b] = Logged[b] /\ Reported'[b] = Reported[b]
      /\ Reported[a] = {}
  BY <1>2, <1>3, Tables, TablesPrimed
<1>7. /\ Logged' = [Logged EXCEPT ![a] = Before(job[w]) \cup {job[w].event}]
      /\ Reported' = [Reported EXCEPT ![a] = job[w].done]
  <2> HIDE DEF Before
  <2>1. Logged' = [Logged EXCEPT ![a] = Before(job[w]) \cup {job[w].event}]
    BY <1>6, Tables, TablesPrimed, OnePlace
  <2>2. Reported' = [Reported EXCEPT ![a] = job[w].done]
    BY <1>6, Tables, TablesPrimed, OnePlace
  <2> QED BY <2>1, <2>2
<1>8. job[w].done = {} => Reported' = Reported
  <2>1. ASSUME job[w].done = {}
        PROVE  \A b \in 1..MaxAttempts : Reported'[b] = Reported[b]
    BY <1>6, <2>1
  <2> QED BY <2>1, Tables, TablesPrimed, NoPlace
<1>9. job[w].event \in EventTypes
  BY <1>0 DEF EvaluationJob
<1>10. CASE job[w].event = "authorized"
  <2>1. Before(job[w]) = {} /\ job[w].done = {}
    BY <1>0, <1>2, <1>10 DEF Before
  <2>2. A!Authorize(a)
    BY <1>5, <1>6, <1>7, <1>8, <1>10, <2>1 DEF A!Authorize
  <2> QED BY <2>2 DEF A!Next, A!Numbers
<1>11. CASE job[w].event = "started"
  <2>1. Before(job[w]) = {"authorized"} /\ job[w].done = {}
    BY <1>0, <1>2, <1>11 DEF Before
  <2>2. {"authorized"} \cup {"started"} = A!Open
    BY DEF A!Open
  <2>3. A!Begin(a)
    BY <1>5, <1>6, <1>7, <1>8, <1>11, <2>1, <2>2 DEF A!Begin
  <2> QED BY <2>3 DEF A!Next, A!Numbers
<1>12. ASSUME NEW outcome \in {"completed", "failed"}, job[w].event = outcome
       PROVE  A!Next
  <2>1. Before(job[w]) = A!Open
    BY <1>12 DEF Before, A!Open
  <2>2. A!End(a, outcome)
    BY <1>2, <1>5, <1>6, <1>7, <1>12, <2>1 DEF A!End
  <2> QED BY <2>2 DEF A!Next, A!Numbers
<1> QED BY <1>9, <1>10, <1>11, <1>12 DEF EventTypes

\* A run is recorded by an open attempt, or is no attempt's.
LEMMA RunMaps ==
    ASSUME AttemptsInv, [Next]_vars, SameLog, NEW run, runs' = runs \cup {run},
           run.at = Cardinality(runs) + 1,
           \/ run.attempt = 0
           \/ \E w \in Busy : job[w].pc = "record" /\ run.attempt = job[w].attempt
    PROVE  A!Next
<1>1. Logged' = Logged /\ Reported' = Reported
  BY SameLogTables
<1>2. Cardinality(runs)' = Cardinality(runs) + 1
  BY NewRun DEF AttemptsInv, ProspectiveInv
<1>3. /\ \A b \in 1..MaxAttempts : b # run.attempt => Gathered'[b] = Gathered[b]
      /\ run.attempt \in 1..MaxAttempts =>
            Gathered'[run.attempt] = Gathered[run.attempt] \cup {Cardinality(runs) + 1}
  <2>1. OneRun(run.attempt, run.at)
    BY RunAdded
  <2>2. ASSUME NEW b \in 1..MaxAttempts, b # run.attempt
        PROVE  Gathered'[b] = Gathered[b]
    <3>1. RunsRecorded(b)' = RunsRecorded(b)
      BY <2>1, <2>2 DEF OneRun
    <3> QED BY <3>1, Tables, TablesPrimed
  <2>3. ASSUME NEW b \in 1..MaxAttempts, b = run.attempt
        PROVE  Gathered'[b] = Gathered[b] \cup {Cardinality(runs) + 1}
    <3>1. RunsRecorded(b)' = RunsRecorded(b) \cup {run.at}
      BY <2>1, <2>3 DEF OneRun
    <3> QED BY <3>1, Tables, TablesPrimed
  <2> QED BY <2>2, <2>3
<1>4. CASE run.attempt = 0
  <2>1. \A b \in 1..MaxAttempts : Gathered'[b] = Gathered[b]
    BY <1>3, <1>4, Constants
  <2>2. Gathered' = Gathered
    BY <2>1, Tables, TablesPrimed, NoPlace
  <2> QED BY <1>1, <1>2, <2>2 DEF A!Next, A!Compare
<1>5. ASSUME NEW w \in Busy, job[w].pc = "record", run.attempt = job[w].attempt
      PROVE  A!Next
  <2>1. job[w] \in EvaluationJob
    BY <1>5, JobFacts DEF Busy, AttemptsInv, ProspectiveInv
  <2>2. PICK a \in 1..MaxAttempts : job[w].attempt = a
    BY <2>1 DEF EvaluationJob
  <2>3. Logged[a] = A!Open
    BY <1>5, <2>2, Tables DEF AttemptsInv, AttemptsKept, AttemptKept, Before, A!Open
  <2>4. Gathered' = [Gathered EXCEPT ![a] = Gathered[a] \cup {Cardinality(runs) + 1}]
    BY <1>3, <1>5, <2>2, Tables, TablesPrimed, OnePlace
  <2>5. A!Record(a)
    BY <1>1, <1>2, <2>3, <2>4 DEF A!Record
  <2> QED BY <2>5 DEF A!Next, A!Numbers
<1> QED BY <1>4, <1>5

LEMMA AttemptsMap == AttemptsInv /\ [Next]_vars => [A!Next]_A!vars
<1> SUFFICES ASSUME AttemptsInv, [Next]_vars PROVE [A!Next]_A!vars
  OBVIOUS
<1>0. ProspectiveTypeOK /\ JobsPlaced /\ StudyHeld
  BY DEF AttemptsInv, ProspectiveInv
<1>1. CASE \E w \in Evaluators : Step(w) /\ Writes(w)
  BY <1>1, WriteMaps
<1>2. CASE \A w \in Evaluators : ~(Step(w) /\ Writes(w))
  <2>1. SameLog
    BY <1>0, <1>2, EventsStay
  <2>2. CASE runs' = runs
    <3>1. Gathered' = Gathered /\ Cardinality(runs)' = Cardinality(runs)
      BY <2>2 DEF Gathered, RunsRecorded
    <3> QED BY <2>1, <3>1, SameLogTables DEF A!vars
  <2>3. ASSUME NEW run \in RunRecord, StudyRead, study.run \in RunRecord,
               run.attempt = study.run.attempt
        PROVE  run.attempt = 0
    <3>1. study # NoStudy /\ study.run # NoRun
      BY <2>3 DEF StudyRead, RunRecord, NoRun
    <3> QED BY <1>0, <2>3, <3>1 DEF StudyHeld
  <2> QED BY <1>0, <2>1, <2>2, <2>3, RunMaps, RunsMove DEF Busy
<1> QED BY <1>1, <1>2

LEMMA AttemptsInit == Init => A!Init
<1> SUFFICES ASSUME Init PROVE A!Init
  OBVIOUS
<1>1. Registered = {} /\ runs = {}
  BY InitNothing
<1>2. \A a \in 1..MaxAttempts : Logged[a] = {} /\ Gathered[a] = {} /\ Reported[a] = {}
  BY <1>1, Tables, TypesMeans, NamedMeans, RecordedMeans
<1>3. Cardinality(runs) = 0
  BY <1>1, FS_EmptySet
<1>4. /\ Logged = [a \in 1..MaxAttempts |-> {}] /\ Gathered = [a \in 1..MaxAttempts |-> {}]
      /\ Reported = [a \in 1..MaxAttempts |-> {}]
  BY <1>2, Tables
<1> QED BY <1>3, <1>4 DEF A!Init, A!Numbers

(* The racing, killed and failing evaluations of prospective.py keep the    *)
(* log of attempts: authorized, started, ended once, with exactly the runs  *)
(* recorded in between.                                                     *)
THEOREM AttemptLogIsKept == Spec => KeepsAttemptLog
BY AttemptsInit, AttemptsMap, AttemptsInvariant, PTL DEF Spec, KeepsAttemptLog, A!Spec
=============================================================================
