--------------------------- MODULE ShardGeneration ---------------------------
(***************************************************************************)
(* The research worker's passes: one immutable shard per completed day,     *)
(* generated in a child process, verified in a temporary directory and      *)
(* renamed into place, under an advisory lock that belongs to a database    *)
(* session. Several workers share the data directory and the lock (the      *)
(* service, an operator's --once, a container being replaced), and a        *)
(* session may end under a worker that goes on.                             *)
(*                                                                         *)
(* A directory is numbered; its name (temporary or a day's) is separate     *)
(* from its content, because rmtree works through an open descriptor.       *)
(***************************************************************************)
EXTENDS Integers, FiniteSets

CONSTANTS NumDays,
          Workers,
          Dirs,        \* bound on directories that exist at once
          Broken,      \* days whose generation always fails
          MaxAttempts, \* bound on the failures counted of a day
          MaxLosses,   \* bound on database sessions that end by themselves
          MaxFailures  \* bound on other failures, stops and crashes

None == 0
Days == 1..NumDays

ASSUME GenerationAssumption ==
  /\ NumDays \in Nat /\ MaxAttempts \in Nat /\ MaxLosses \in Nat /\ MaxFailures \in Nat
  /\ Broken \subseteq Days
  /\ Dirs \subseteq Nat \ {None} /\ IsFiniteSet(Dirs)
  /\ None \notin Workers

VARIABLES
  shard,      \* shard[d]: the directory named after day d, or None
  place,      \* place[r]: what directory r is: "none", "tmp" or "shard"
  whole,      \* whole[r]: it holds its verified files
  owner,      \* the worker whose session holds the advisory lock, or None
  attempts,   \* state.json: the failures counted of each day
  resting,    \* days whose next_retry_at lies ahead
  stage,      \* stage[d]: "waiting" (to mature, or for readiness), "ready", "gone"
  pc,         \* where each worker's pass is
  counted,    \* ... its copy of the attempts
  due,        \* ... the days it has decided to generate, and the one it is at
  day,
  ending,     \* ... how the generation of that day ended
  sweep,      \* ... temporary directories it has listed to remove
  opened,     \* ... the one it is emptying
  child,      \* where its child process is
  dir,        \* ... and the directory that one writes
  losses, failures

disk      == <<shard, place, whole>>
records   == <<attempts, resting>>
passVars  == <<pc, counted, due, day, ending, sweep, opened>>
childVars == <<child, dir>>
bounds    == <<losses, failures>>
vars      == <<disk, owner, records, stage, passVars, childVars, bounds>>

Holds(w) == owner = w
TmpDirs  == {r \in Dirs : place[r] = "tmp"}

\* rmtree of a temporary directory by the one who wrote it.
Discard(r) ==
  /\ place' = [place EXCEPT ![r] = "none"]
  /\ whole' = [whole EXCEPT ![r] = FALSE]

Init ==
  /\ shard = [d \in Days |-> None]
  /\ place = [r \in Dirs |-> "none"] /\ whole = [r \in Dirs |-> FALSE]
  /\ owner = None
  /\ attempts = [d \in Days |-> 0] /\ resting = {}
  /\ stage = [d \in Days |-> "waiting"]
  /\ pc = [w \in Workers |-> "idle"]
  /\ counted = [w \in Workers |-> [d \in Days |-> 0]]
  /\ due = [w \in Workers |-> {}] /\ day = [w \in Workers |-> None]
  /\ ending = [w \in Workers |-> "none"]
  /\ sweep = [w \in Workers |-> {}] /\ opened = [w \in Workers |-> None]
  /\ child = [w \in Workers |-> "none"] /\ dir = [w \in Workers |-> None]
  /\ losses = 0 /\ failures = 0

-----------------------------------------------------------------------------
(* run_pass                                                                *)

\* Mutant of Acquire: a lock held elsewhere does not end the pass.
AcquireAnyway(w) ==
  /\ pc[w] = "idle"
  /\ owner' = w
  /\ pc' = [pc EXCEPT ![w] = "list"]
  /\ UNCHANGED <<disk, records, stage, counted, due, day, ending, sweep, opened,
                 childVars, bounds>>

Acquire(w) ==
  /\ pc[w] = "idle" /\ owner = None
  /\ owner' = w
  /\ pc' = [pc EXCEPT ![w] = "list"]
  /\ UNCHANGED <<disk, records, stage, counted, due, day, ending, sweep, opened,
                 childVars, bounds>>

\* clean_stale_tmp_dirs, at the start of the pass and after every day: the
\* directory is listed first, then each temporary directory emptied.
List(w) ==
  /\ pc[w] = "list"
  /\ sweep' = [sweep EXCEPT ![w] = TmpDirs]
  /\ pc' = [pc EXCEPT ![w] = "sweep"]
  /\ UNCHANGED <<disk, owner, records, stage, counted, due, day, ending, opened,
                 childVars, bounds>>

OpenTmp(w) ==
  /\ pc[w] = "sweep" /\ opened[w] = None
  /\ \E r \in sweep[w] :
       /\ sweep' = [sweep EXCEPT ![w] = @ \ {r}]
       /\ opened' = [opened EXCEPT ![w] = IF place[r] = "tmp" THEN r ELSE None]
  /\ UNCHANGED <<disk, owner, records, stage, pc, counted, due, day, ending,
                 childVars, bounds>>

\* The files go whatever the directory is called by now; its temporary name
\* goes if it still has it.
EmptyTmp(w) ==
  /\ pc[w] = "sweep" /\ opened[w] # None
  /\ whole' = [whole EXCEPT ![opened[w]] = FALSE]
  /\ place' = [place EXCEPT ![opened[w]] = IF @ = "tmp" THEN "none" ELSE @]
  /\ opened' = [opened EXCEPT ![w] = None]
  /\ UNCHANGED <<shard, owner, records, stage, pc, counted, due, day, ending, sweep,
                 childVars, bounds>>

Swept(w) ==
  /\ pc[w] = "sweep" /\ sweep[w] = {} /\ opened[w] = None
  /\ pc' = [pc EXCEPT ![w] = IF ending[w] = "none" THEN "decide" ELSE "save"]
  /\ UNCHANGED <<disk, owner, records, stage, counted, due, day, ending, sweep, opened,
                 childVars, bounds>>

\* load_state and decide_day: what is preserved, waiting, in backoff, without a
\* frame or without members is left.
Decide(w) ==
  /\ pc[w] = "decide"
  /\ counted' = [counted EXCEPT ![w] = attempts]
  /\ due' = [due EXCEPT ![w] =
               {d \in Days : /\ shard[d] = None /\ stage[d] = "ready"
                              /\ ~(attempts[d] > 0 /\ d \in resting)}]
  /\ pc' = [pc EXCEPT ![w] = "next"]
  /\ UNCHANGED <<disk, owner, records, stage, day, ending, sweep, opened, childVars, bounds>>

\* Deadline order, which is day order; the lock is looked at before each day.
StartDay(w) ==
  /\ pc[w] = "next" /\ Holds(w)
  /\ \E d \in due[w] :
       /\ \A e \in due[w] : d <= e
       /\ day' = [day EXCEPT ![w] = d]
       /\ due' = [due EXCEPT ![w] = @ \ {d}]
  /\ child' = [child EXCEPT ![w] = "begin"]
  /\ pc' = [pc EXCEPT ![w] = "wait"]
  /\ UNCHANGED <<disk, owner, records, stage, counted, ending, sweep, opened, dir, bounds>>

\* The pass ends with its days or with the lock; the records are saved again.
EndPass(w) ==
  /\ pc[w] = "next" /\ (due[w] = {} \/ ~Holds(w))
  /\ attempts' = counted[w]
  /\ pc' = [pc EXCEPT ![w] = "release"]
  /\ UNCHANGED <<disk, owner, resting, stage, counted, due, day, ending, sweep, opened,
                 childVars, bounds>>

\* What a generation that ended as e does to the worker's copy of the records.
Settle(w, e) ==
  /\ ending' = [ending EXCEPT ![w] = e]
  /\ CASE e = "done" ->
            counted' = [counted EXCEPT ![w][day[w]] = 0] /\ UNCHANGED resting
       [] e = "failed" ->
            /\ counted' = [counted EXCEPT ![w][day[w]] =
                             IF @ < MaxAttempts THEN @ + 1 ELSE @]
            /\ resting' = resting \cup {day[w]}
       [] OTHER -> UNCHANGED <<counted, resting>>
  /\ pc' = [pc EXCEPT ![w] = "list"]
  /\ child' = [child EXCEPT ![w] = "none"]
  /\ dir' = [dir EXCEPT ![w] = None]

Outcome(code) == CASE code \in {"ok", "exists"} -> "done"
                   [] code = "lost" -> "lost"
                   [] OTHER -> "failed"

\* The child exits: its code decides, before anything else that happened.
ChildExits(w) ==
  /\ pc[w] = "wait" /\ child[w] \in {"ok", "exists", "lost", "error"}
  /\ Settle(w, Outcome(child[w]))
  /\ UNCHANGED <<disk, owner, attempts, stage, due, day, sweep, opened, bounds>>

\* The lock watch finds the lock lost: the child is killed, and waited for.
\* It may have got as far as to exit between the two.
LockWatch(w) ==
  /\ pc[w] = "wait" /\ ~Holds(w)
  /\ Settle(w, "lost")
  /\ UNCHANGED <<disk, owner, attempts, stage, due, day, sweep, opened, bounds>>

\* The same on the time limit, on an out-of-memory kill, or on a stop.
Terminate(w, e) ==
  /\ pc[w] = "wait" /\ failures < MaxFailures
  /\ failures' = failures + 1
  /\ Settle(w, e)
  /\ UNCHANGED <<disk, owner, attempts, stage, due, day, sweep, opened, losses>>

\* Mutant of Save: a failed day ends the pass.
SaveAndStop(w) ==
  /\ pc[w] = "save"
  /\ attempts' = counted[w]
  /\ pc' = [pc EXCEPT ![w] = IF ending[w] = "done" THEN "next" ELSE "release"]
  /\ ending' = [ending EXCEPT ![w] = "none"] /\ day' = [day EXCEPT ![w] = None]
  /\ UNCHANGED <<disk, owner, resting, stage, counted, due, sweep, opened, childVars, bounds>>

\* One failing day does not end the pass; an interruption does.
Save(w) ==
  /\ pc[w] = "save"
  /\ attempts' = counted[w]
  /\ pc' = [pc EXCEPT ![w] = IF ending[w] \in {"lost", "stopped"} THEN "release" ELSE "next"]
  /\ ending' = [ending EXCEPT ![w] = "none"] /\ day' = [day EXCEPT ![w] = None]
  /\ UNCHANGED <<disk, owner, resting, stage, counted, due, sweep, opened, childVars, bounds>>

EndOfPass(w) ==
  /\ pc' = [pc EXCEPT ![w] = "idle"]
  /\ counted' = [counted EXCEPT ![w] = [d \in Days |-> 0]]
  /\ due' = [due EXCEPT ![w] = {}] /\ day' = [day EXCEPT ![w] = None]
  /\ ending' = [ending EXCEPT ![w] = "none"]
  /\ owner' = IF owner = w THEN None ELSE owner

Release(w) ==
  /\ pc[w] = "release"
  /\ EndOfPass(w)
  /\ UNCHANGED <<disk, records, stage, sweep, opened, childVars, bounds>>

\* The database refuses a query of the decisions: the pass ends there.
PassFails(w) ==
  /\ pc[w] = "decide" /\ failures < MaxFailures
  /\ failures' = failures + 1
  /\ EndOfPass(w)
  /\ UNCHANGED <<disk, records, stage, sweep, opened, childVars, losses>>

-----------------------------------------------------------------------------
(* The child: generate_dataset                                             *)

childOnly == <<owner, records, stage, passVars, bounds>>

Begin(w) ==
  /\ child[w] = "begin"
  /\ child' = [child EXCEPT ![w] = IF shard[day[w]] # None THEN "exists" ELSE "work"]
  /\ UNCHANGED <<disk, dir, childOnly>>

MakeTmp(w) ==
  /\ child[w] = "work" /\ day[w] \notin Broken
  /\ \E r \in Dirs :
       /\ place[r] = "none" /\ \A v \in Workers : r \notin sweep[v] \cup {opened[v], dir[v]}
       /\ dir' = [dir EXCEPT ![w] = r]
       /\ place' = [place EXCEPT ![r] = "tmp"]
  /\ child' = [child EXCEPT ![w] = "write"]
  /\ UNCHANGED <<shard, whole, childOnly>>

\* The files are written; if the directory has gone, this raises.
Write(w) ==
  /\ child[w] = "write"
  /\ IF place[dir[w]] = "tmp"
     THEN /\ whole' = [whole EXCEPT ![dir[w]] = TRUE]
          /\ child' = [child EXCEPT ![w] = "verify"]
     ELSE child' = [child EXCEPT ![w] = "error"] /\ UNCHANGED whole
  /\ UNCHANGED <<shard, place, dir, childOnly>>

Verify(w) ==
  /\ child[w] = "verify"
  /\ IF whole[dir[w]]
     THEN child' = [child EXCEPT ![w] = "check"] /\ UNCHANGED <<place, whole>>
     ELSE child' = [child EXCEPT ![w] = "error"] /\ Discard(dir[w])
  /\ UNCHANGED <<shard, dir, childOnly>>

\* Mutant of CheckLock: the answer is not looked at.
CheckNothing(w) ==
  /\ child[w] = "check"
  /\ child' = [child EXCEPT ![w] = "look"]
  /\ UNCHANGED <<disk, dir, childOnly>>

\* before_publish: does the worker's session still hold the lock?
CheckLock(w) ==
  /\ child[w] = "check"
  /\ IF Holds(w)
     THEN child' = [child EXCEPT ![w] = "look"] /\ UNCHANGED <<place, whole>>
     ELSE child' = [child EXCEPT ![w] = "lost"] /\ Discard(dir[w])
  /\ UNCHANGED <<shard, dir, childOnly>>

LookForShard(w) ==
  /\ child[w] = "look"
  /\ IF shard[day[w]] = None
     THEN child' = [child EXCEPT ![w] = "rename"] /\ UNCHANGED <<place, whole>>
     ELSE child' = [child EXCEPT ![w] = "exists"] /\ Discard(dir[w])
  /\ UNCHANGED <<shard, dir, childOnly>>

\* rename(2) refuses a source that has gone and a target that is not empty;
\* an empty target it replaces. Afterwards the files are made read-only.
Rename(w) ==
  /\ child[w] = "rename"
  /\ LET old == shard[day[w]] IN
     IF place[dir[w]] = "tmp" /\ (old # None => ~whole[old])
     THEN /\ shard' = [shard EXCEPT ![day[w]] = dir[w]]
          /\ place' = [r \in Dirs |-> IF r = dir[w] THEN "shard"
                                      ELSE IF r = old THEN "none" ELSE place[r]]
          /\ child' = [child EXCEPT ![w] = IF whole[dir[w]] THEN "ok" ELSE "error"]
          /\ UNCHANGED whole
     ELSE /\ child' = [child EXCEPT ![w] = "error"]
          /\ Discard(dir[w])
          /\ UNCHANGED shard
  /\ UNCHANGED <<dir, childOnly>>

\* Generation fails, in memory (always for a broken day) or on the disk.
GenerateFails(w) ==
  /\ child[w] \in {"work", "write", "verify"}
  /\ \/ child[w] = "work" /\ day[w] \in Broken /\ UNCHANGED failures
     \/ failures < MaxFailures /\ failures' = failures + 1
  /\ child' = [child EXCEPT ![w] = "error"]
  /\ IF dir[w] = None THEN UNCHANGED <<place, whole>> ELSE Discard(dir[w])
  /\ UNCHANGED <<shard, dir, owner, records, stage, passVars, losses>>

-----------------------------------------------------------------------------
(* The environment                                                         *)

DayReady(d) ==
  /\ stage[d] = "waiting"
  /\ stage' = [stage EXCEPT ![d] = "ready"]
  /\ UNCHANGED <<disk, owner, records, passVars, childVars, bounds>>

\* The day turns out to have no frame (a collection gap), or retention drops
\* its members: it is never due again. A generation that has begun writes what
\* is left.
SourceGoes(d) ==
  /\ stage[d] # "gone" /\ failures < MaxFailures
  /\ failures' = failures + 1
  /\ stage' = [stage EXCEPT ![d] = "gone"]
  /\ UNCHANGED <<disk, owner, records, passVars, childVars, losses>>

BackoffEnds(d) ==
  /\ d \in resting
  /\ resting' = resting \ {d}
  /\ UNCHANGED <<disk, owner, attempts, stage, passVars, childVars, bounds>>

\* The lock's session ends (database restart, network loss).
SessionEnds(w) ==
  /\ Holds(w) /\ losses < MaxLosses
  /\ losses' = losses + 1
  /\ owner' = None
  /\ UNCHANGED <<disk, records, stage, passVars, childVars, failures>>

\* The worker's container dies, with its child and its session.
WorkerDies(w) ==
  /\ pc[w] # "idle" /\ failures < MaxFailures
  /\ failures' = failures + 1
  /\ EndOfPass(w)
  /\ sweep' = [sweep EXCEPT ![w] = {}] /\ opened' = [opened EXCEPT ![w] = None]
  /\ child' = [child EXCEPT ![w] = "none"] /\ dir' = [dir EXCEPT ![w] = None]
  /\ UNCHANGED <<disk, records, stage, losses>>

-----------------------------------------------------------------------------
Pass(w) == \/ Acquire(w) \/ List(w) \/ OpenTmp(w) \/ EmptyTmp(w) \/ Swept(w)
           \/ Decide(w) \/ StartDay(w) \/ EndPass(w) \/ ChildExits(w) \/ LockWatch(w)
           \/ Save(w) \/ Release(w)
Generate(w) == \/ Begin(w) \/ MakeTmp(w) \/ Write(w) \/ Verify(w) \/ CheckLock(w)
               \/ LookForShard(w) \/ Rename(w)
               \/ GenerateFails(w)
Fault(w) == \/ \E e \in {"failed", "stopped"} : Terminate(w, e)
            \/ PassFails(w) \/ SessionEnds(w) \/ WorkerDies(w)

Next == \/ \E w \in Workers : Pass(w) \/ Generate(w) \/ Fault(w)
        \/ \E d \in Days : DayReady(d) \/ BackoffEnds(d) \/ SourceGoes(d)

Spec == Init /\ [][Next]_vars

\* Passes follow one another for as long as the worker lives (and it is
\* restarted when it dies), its child runs, and time passes.
Fairness == /\ \A w \in Workers : WF_vars(Pass(w) \/ Generate(w))
            /\ \A d \in Days : WF_vars(DayReady(d)) /\ WF_vars(BackoffEnds(d))
FairSpec == Spec /\ Fairness
-----------------------------------------------------------------------------
(* Properties                                                              *)

TypeOK ==
  /\ shard \in [Days -> Dirs \cup {None}]
  /\ place \in [Dirs -> {"none", "tmp", "shard"}] /\ whole \in [Dirs -> BOOLEAN]
  /\ owner \in Workers \cup {None}
  /\ attempts \in [Days -> 0..MaxAttempts] /\ resting \subseteq Days
  /\ stage \in [Days -> {"waiting", "ready", "gone"}]
  /\ pc \in [Workers -> {"idle", "list", "sweep", "decide", "next", "wait", "save", "release"}]
  /\ counted \in [Workers -> [Days -> 0..MaxAttempts]]
  /\ due \in [Workers -> SUBSET Days] /\ day \in [Workers -> Days \cup {None}]
  /\ ending \in [Workers -> {"none", "done", "failed", "lost", "stopped"}]
  /\ sweep \in [Workers -> SUBSET Dirs] /\ opened \in [Workers -> Dirs \cup {None}]
  /\ child \in [Workers -> {"none", "begin", "work", "write", "verify", "check", "look",
                            "rename", "ok", "exists", "lost", "error"}]
  /\ dir \in [Workers -> Dirs \cup {None}]
  /\ \A w \in Workers : pc[w] = "wait" => day[w] # None
  /\ losses \in 0..MaxLosses /\ failures \in 0..MaxFailures

\* A generator that lost its lock publishes nothing behind the back of the
\* pass that holds it now: once that one has swept and decided, the only
\* shards that appear are its own.
NoLatePublication ==
  [][\A w \in Workers : child[w] = "rename" /\ child'[w] # "rename" /\ shard' # shard =>
       owner \in {w, None} \/ pc[owner] \in {"list", "sweep"}]_vars

\* The record of a day's failures is only cleared by its shard, and no pass
\* writes an older copy over it.
FailuresRemembered ==
  [][\A d \in Days : attempts'[d] < attempts[d] => shard[d] # None]_vars

\* Every day that can be generated is preserved in the end, unless its source
\* goes first: "one failing day never blocks newer days", and what a crash left
\* behind blocks none.
EveryDayPreserved == \A d \in Days \ Broken : <>(shard[d] # None \/ stage[d] = "gone")

Archive == INSTANCE ShardArchive WITH
  kept <- [d \in Days |-> IF shard[d] = None THEN "absent"
                          ELSE IF whole[shard[d]] THEN "whole" ELSE "damaged"]

\* While no session ends under a worker, the directory is a write-once
\* archive of whole datasets, whatever else fails or dies.
ImplementsArchive == Archive!Spec
=============================================================================
