------------------------ MODULE ShardGenerationProofs ------------------------
(***************************************************************************)
(* While no database session ends under a worker, the data directory is a   *)
(* write-once archive of whole shards: for any days, workers, directories,  *)
(* failing days, crashes and stops. However many end, and when, a generator *)
(* that lost its lock publishes nothing behind the back of its successor.    *)
(***************************************************************************)
EXTENDS ShardGeneration, TLAPS

(* What the end of a generation does to the worker is well typed.           *)
LEMMA SettleTypes ==
  ASSUME TypeOK, NEW w \in Workers, NEW e \in {"done", "failed", "lost", "stopped"},
         pc[w] = "wait", Settle(w, e)
  PROVE  /\ counted' \in [Workers -> [Days -> 0..MaxAttempts]]
         /\ resting' \subseteq Days
         /\ ending' \in [Workers -> {"none", "done", "failed", "lost", "stopped"}]
         /\ pc' = [pc EXCEPT ![w] = "list"]
         /\ child' = [child EXCEPT ![w] = "none"]
         /\ dir' = [dir EXCEPT ![w] = None]
<1>1. day[w] \in Days
  BY DEF TypeOK
<1>2. CASE e = "done"
  <2>1. counted' = [counted EXCEPT ![w][day[w]] = 0] /\ resting' = resting
    BY <1>2 DEF Settle
  <2>2. 0 \in 0..MaxAttempts /\ counted[w] \in [Days -> 0..MaxAttempts]
    BY GenerationAssumption DEF TypeOK
  <2>3. [counted[w] EXCEPT ![day[w]] = 0] \in [Days -> 0..MaxAttempts]
    BY <1>1, <2>2
  <2>4. counted' \in [Workers -> [Days -> 0..MaxAttempts]]
    BY <2>1, <2>3 DEF TypeOK
  <2> QED BY <1>2, <2>1, <2>4 DEF Settle, TypeOK
<1>3. CASE e = "failed"
  <2> DEFINE n == IF counted[w][day[w]] < MaxAttempts THEN counted[w][day[w]] + 1
                  ELSE counted[w][day[w]]
  <2>1. counted' = [counted EXCEPT ![w][day[w]] = n] /\ resting' = resting \cup {day[w]}
    BY <1>3 DEF Settle
  <2>2. counted[w] \in [Days -> 0..MaxAttempts]
    BY DEF TypeOK
  <2>3. n \in 0..MaxAttempts
    BY <1>1, <2>2, GenerationAssumption
  <2> HIDE DEF n
  <2>4. [counted[w] EXCEPT ![day[w]] = n] \in [Days -> 0..MaxAttempts]
    BY <1>1, <2>2, <2>3
  <2>5. counted' \in [Workers -> [Days -> 0..MaxAttempts]]
    BY <2>1, <2>4 DEF TypeOK
  <2> QED BY <1>1, <1>3, <2>1, <2>5 DEF Settle, TypeOK
<1>4. CASE e \in {"lost", "stopped"}
  BY <1>4 DEF Settle, TypeOK
<1> QED BY <1>2, <1>3, <1>4

(* The initial state is well typed.                                         *)
LEMMA TypeInit == Init => TypeOK
BY GenerationAssumption DEF Init, TypeOK

(* Every step keeps the types, one case per action.                         *)
LEMMA TypeStep ==
  ASSUME TypeOK, [Next]_vars
  PROVE  TypeOK'
<1> USE DEF disk, records, passVars, childVars, bounds, childOnly
<1>1. ASSUME NEW w \in Workers, Pass(w) PROVE TypeOK'
  <2>1. CASE Acquire(w)
    BY <2>1 DEF Acquire, TypeOK
  <2>2. CASE List(w)
    BY <2>2 DEF List, TmpDirs, TypeOK
  <2>3. CASE OpenTmp(w)
    <3>1. PICK r \in sweep[w] :
            /\ sweep' = [sweep EXCEPT ![w] = @ \ {r}]
            /\ opened' = [opened EXCEPT ![w] = IF place[r] = "tmp" THEN r ELSE None]
      BY <2>3 DEF OpenTmp
    <3>2. r \in Dirs
      BY DEF TypeOK
    <3> QED BY <2>3, <3>1, <3>2 DEF OpenTmp, TypeOK
  <2>4. CASE EmptyTmp(w)
    <3>1. opened[w] \in Dirs
      BY <2>4 DEF EmptyTmp, TypeOK
    <3> QED BY <2>4, <3>1 DEF EmptyTmp, TypeOK
  <2>5. CASE Swept(w)
    BY <2>5 DEF Swept, TypeOK
  <2>6. CASE Decide(w)
    BY <2>6 DEF Decide, TypeOK
  <2>7. CASE StartDay(w)
    <3>1. PICK d \in due[w] : /\ day' = [day EXCEPT ![w] = d]
                              /\ due' = [due EXCEPT ![w] = @ \ {d}]
      BY <2>7 DEF StartDay
    <3>2. d \in Days /\ d # None
      BY DEF TypeOK, Days, None
    <3> QED BY <2>7, <3>1, <3>2 DEF StartDay, TypeOK
  <2>8. CASE EndPass(w)
    BY <2>8 DEF EndPass, TypeOK
  <2>9. CASE ChildExits(w)
    <3>1. Outcome(child[w]) \in {"done", "failed", "lost", "stopped"}
      BY <2>9 DEF ChildExits, Outcome
    <3>2. /\ counted' \in [Workers -> [Days -> 0..MaxAttempts]]
          /\ resting' \subseteq Days
          /\ ending' \in [Workers -> {"none", "done", "failed", "lost", "stopped"}]
          /\ pc' = [pc EXCEPT ![w] = "list"]
          /\ child' = [child EXCEPT ![w] = "none"]
          /\ dir' = [dir EXCEPT ![w] = None]
      BY <2>9, <3>1, SettleTypes DEF ChildExits
    <3> QED BY <2>9, <3>2 DEF ChildExits, TypeOK
  <2>10. CASE LockWatch(w)
    <3>1. /\ counted' \in [Workers -> [Days -> 0..MaxAttempts]]
          /\ resting' \subseteq Days
          /\ ending' \in [Workers -> {"none", "done", "failed", "lost", "stopped"}]
          /\ pc' = [pc EXCEPT ![w] = "list"]
          /\ child' = [child EXCEPT ![w] = "none"]
          /\ dir' = [dir EXCEPT ![w] = None]
      BY <2>10, SettleTypes DEF LockWatch
    <3> QED BY <2>10, <3>1 DEF LockWatch, TypeOK
  <2>11. CASE Save(w)
    BY <2>11 DEF Save, TypeOK
  <2>12. CASE Release(w)
    BY <2>12, GenerationAssumption DEF Release, EndOfPass, TypeOK
  <2> QED BY <1>1, <2>1, <2>2, <2>3, <2>4, <2>5, <2>6, <2>7, <2>8, <2>9, <2>10, <2>11,
             <2>12 DEF Pass
<1>2. ASSUME NEW w \in Workers, Generate(w) PROVE TypeOK'
  <2>1. CASE Begin(w)
    BY <2>1 DEF Begin, TypeOK
  <2>2. CASE MakeTmp(w)
    BY <2>2 DEF MakeTmp, TypeOK
  <2>3. CASE Write(w)
    BY <2>3 DEF Write, TypeOK
  <2>4. CASE Verify(w)
    BY <2>4 DEF Verify, Discard, TypeOK
  <2>5. CASE CheckLock(w)
    BY <2>5 DEF CheckLock, Discard, TypeOK
  <2>6. CASE LookForShard(w)
    BY <2>6 DEF LookForShard, Discard, TypeOK
  <2>7. CASE Rename(w)
    <3>1. dir[w] \in Dirs \cup {None} /\ day[w] \in Days \cup {None}
      BY DEF TypeOK
    <3>2. shard' \in [Days -> Dirs \cup {None}]
      BY <2>7, <3>1 DEF Rename, TypeOK
    <3>3. whole' \in [Dirs -> BOOLEAN]
      BY <2>7 DEF Rename, Discard, TypeOK
    <3>4. place' \in [Dirs -> {"none", "tmp", "shard"}]
      <4>1. CASE place[dir[w]] = "tmp" /\ (shard[day[w]] # None => ~whole[shard[day[w]]])
        <5>1. place' = [r \in Dirs |-> IF r = dir[w] THEN "shard"
                                       ELSE IF r = shard[day[w]] THEN "none" ELSE place[r]]
          BY <2>7, <4>1 DEF Rename
        <5> QED BY <5>1 DEF TypeOK
      <4>2. CASE ~(place[dir[w]] = "tmp" /\ (shard[day[w]] # None => ~whole[shard[day[w]]]))
        <5>1. Discard(dir[w])
          BY <2>7, <4>2 DEF Rename
        <5> QED BY <5>1 DEF Discard, TypeOK
      <4> QED BY <4>1, <4>2
    <3>5. child' \in [Workers -> {"none", "begin", "work", "write", "verify", "check",
                                  "look", "rename", "ok", "exists", "lost", "error"}]
      <4>1. PICK c \in {"ok", "error"} : child' = [child EXCEPT ![w] = c]
        BY <2>7 DEF Rename
      <4> QED BY <4>1 DEF TypeOK
    <3> QED BY <2>7, <3>2, <3>3, <3>4, <3>5 DEF Rename, TypeOK
  <2>8. CASE GenerateFails(w)
    <3>1. failures' \in 0..MaxFailures
      BY <2>8, GenerationAssumption DEF GenerateFails, TypeOK
    <3>2. place' \in [Dirs -> {"none", "tmp", "shard"}] /\ whole' \in [Dirs -> BOOLEAN]
      BY <2>8 DEF GenerateFails, Discard, TypeOK
    <3> QED BY <2>8, <3>1, <3>2 DEF GenerateFails, TypeOK
  <2> QED BY <1>2, <2>1, <2>2, <2>3, <2>4, <2>5, <2>6, <2>7, <2>8 DEF Generate
<1>3. ASSUME NEW w \in Workers, Fault(w) PROVE TypeOK'
  <2>1. ASSUME NEW e \in {"failed", "stopped"}, Terminate(w, e) PROVE TypeOK'
    <3>1. /\ counted' \in [Workers -> [Days -> 0..MaxAttempts]]
          /\ resting' \subseteq Days
          /\ ending' \in [Workers -> {"none", "done", "failed", "lost", "stopped"}]
          /\ pc' = [pc EXCEPT ![w] = "list"]
          /\ child' = [child EXCEPT ![w] = "none"]
          /\ dir' = [dir EXCEPT ![w] = None]
      BY <2>1, SettleTypes DEF Terminate
    <3>2. failures' \in 0..MaxFailures
      BY <2>1, GenerationAssumption DEF Terminate, TypeOK
    <3> QED BY <2>1, <3>1, <3>2 DEF Terminate, TypeOK
  <2>2. CASE PassFails(w)
    BY <2>2, GenerationAssumption DEF PassFails, EndOfPass, TypeOK
  <2>3. CASE SessionEnds(w)
    BY <2>3, GenerationAssumption DEF SessionEnds, TypeOK
  <2>4. CASE WorkerDies(w)
    BY <2>4, GenerationAssumption DEF WorkerDies, EndOfPass, TypeOK
  <2> QED BY <1>3, <2>1, <2>2, <2>3, <2>4 DEF Fault
<1>4. ASSUME NEW d \in Days, DayReady(d) \/ BackoffEnds(d) \/ SourceGoes(d)
      PROVE  TypeOK'
  <2>1. CASE DayReady(d) \/ BackoffEnds(d)
    BY <2>1 DEF DayReady, BackoffEnds, TypeOK
  <2>2. CASE SourceGoes(d)
    BY <2>2, GenerationAssumption DEF SourceGoes, TypeOK
  <2> QED BY <1>4, <2>1, <2>2
<1>5. CASE UNCHANGED vars
  BY <1>5 DEF vars, TypeOK
<1> QED BY <1>1, <1>2, <1>3, <1>4, <1>5 DEF Next

(* The type invariant: every reachable state is well typed.                 *)
THEOREM GenerationTypeCorrect == Spec => []TypeOK
BY TypeInit, TypeStep, PTL DEF Spec
-----------------------------------------------------------------------------
(* The inductive invariant. With no session ending, a worker in a pass holds *)
(* the lock, so all others are idle; what the sweep empties is temporary,    *)
(* and so is what a child writes until it renames it.                        *)

LockInv == \A w \in Workers : pc[w] # "idle" => owner = w

ChildInv == \A w \in Workers :
  /\ child[w] # "none" => pc[w] = "wait"
  /\ child[w] \in {"none", "begin", "work"} => dir[w] = None
  /\ child[w] \in {"write", "verify", "check", "look", "rename"} =>
       dir[w] \in Dirs /\ place[dir[w]] = "tmp"
  /\ child[w] \in {"check", "look", "rename"} => whole[dir[w]]
  /\ child[w] = "rename" => shard[day[w]] = None

SweepInv == \A w \in Workers :
  opened[w] # None => pc[w] = "sweep" /\ place[opened[w]] = "tmp"

ShardInv == \A d \in Days : shard[d] # None => place[shard[d]] = "shard" /\ whole[shard[d]]

ArchiveInv == TypeOK /\ LockInv /\ ChildInv /\ SweepInv /\ ShardInv

(* Everybody but the worker in a pass is idle, has no child and sweeps       *)
(* nothing.                                                                  *)
LEMMA OthersIdle ==
  ASSUME ArchiveInv, NEW w \in Workers, pc[w] # "idle", NEW v \in Workers, v # w
  PROVE  pc[v] = "idle" /\ child[v] = "none" /\ dir[v] = None /\ opened[v] = None
BY DEF ArchiveInv, LockInv, ChildInv, SweepInv

(* The end of a child, however it ended, keeps the invariant: its directory *)
(* stays behind.                                                            *)
LEMMA SettleKeeps ==
  ASSUME ArchiveInv, TypeOK', NEW w \in Workers, pc[w] = "wait",
         pc' = [pc EXCEPT ![w] = "list"], child' = [child EXCEPT ![w] = "none"],
         dir' = [dir EXCEPT ![w] = None], UNCHANGED <<disk, owner, day, opened>>
  PROVE  ArchiveInv'
<1>1. LockInv'
  BY DEF ArchiveInv, LockInv, TypeOK
<1>2. ChildInv' /\ SweepInv'
  BY OthersIdle DEF ArchiveInv, ChildInv, SweepInv, TypeOK, disk
<1>3. ShardInv'
  BY DEF ArchiveInv, ShardInv, disk
<1> QED BY <1>1, <1>2, <1>3 DEF ArchiveInv

(* So does the end of a pass, with the lock released.                       *)
LEMMA PassEnds ==
  ASSUME ArchiveInv, TypeOK', NEW w \in Workers, pc[w] # "idle",
         pc' = [pc EXCEPT ![w] = "idle"], owner' = IF owner = w THEN None ELSE owner,
         child'[w] = "none", dir'[w] = None, opened'[w] = None,
         \A v \in Workers \ {w} : /\ child'[v] = child[v] /\ dir'[v] = dir[v]
                                /\ opened'[v] = opened[v],
         UNCHANGED disk
  PROVE  ArchiveInv'
<1>1. \A v \in Workers : pc'[v] = "idle" /\ child'[v] = "none" /\ dir'[v] = None /\ opened'[v] = None
  BY OthersIdle DEF ArchiveInv, TypeOK
<1>2. LockInv' /\ ChildInv' /\ SweepInv'
  BY <1>1 DEF LockInv, ChildInv, SweepInv
<1>3. ShardInv'
  BY DEF ArchiveInv, ShardInv, disk
<1> QED BY <1>2, <1>3 DEF ArchiveInv

(* A step of a child that removes its own directory, if it still has one     *)
(* under a temporary name, disturbs no shard.                                *)
LEMMA ChildSteps ==
  ASSUME ArchiveInv, TypeOK', NEW w \in Workers, child[w] # "none",
         NEW c, child' = [child EXCEPT ![w] = c],
         c \in {"error", "exists", "lost"},
         \/ UNCHANGED <<place, whole>>
         \/ (dir[w] # None /\ place[dir[w]] # "shard" /\ Discard(dir[w])),
         UNCHANGED <<shard, dir, owner, passVars>>
  PROVE  ArchiveInv'
<1>1. pc[w] = "wait"
  BY DEF ArchiveInv, ChildInv
<1>2. LockInv' /\ SweepInv'
  BY <1>1, OthersIdle DEF ArchiveInv, LockInv, SweepInv, passVars
<1>3. ChildInv'
  <2> SUFFICES ASSUME NEW v \in Workers
               PROVE  /\ child'[v] # "none" => pc'[v] = "wait"
                      /\ child'[v] \in {"none", "begin", "work"} => dir'[v] = None
                      /\ child'[v] \notin {"write", "verify", "check", "look", "rename"}
    BY DEF ChildInv
  <2>1. CASE v = w
    BY <1>1, <2>1 DEF ArchiveInv, TypeOK, passVars
  <2>2. CASE v # w
    <3>1. child[v] = "none" /\ dir[v] = None
      BY <1>1, <2>2, OthersIdle
    <3> QED BY <2>2, <3>1 DEF ArchiveInv, TypeOK, passVars
  <2> QED BY <2>1, <2>2
<1>4. ShardInv'
  <2> SUFFICES ASSUME NEW d \in Days, shard[d] # None
               PROVE  place'[shard[d]] = "shard" /\ whole'[shard[d]]
    BY DEF ShardInv
  <2>1. shard[d] \in Dirs /\ place[shard[d]] = "shard" /\ whole[shard[d]]
    BY DEF ArchiveInv, ShardInv, TypeOK
  <2> QED BY <2>1 DEF ArchiveInv, Discard, TypeOK
<1> QED BY <1>2, <1>3, <1>4 DEF ArchiveInv

(* Every step of a pass keeps the invariant.                                *)
LEMMA PassKeeps ==
  ASSUME ArchiveInv, TypeOK', NEW w \in Workers, Pass(w)
  PROVE  ArchiveInv'
<1> USE DEF disk, records, passVars, childVars, bounds
<1>1. CASE Acquire(w)
  <2>1. \A v \in Workers : pc[v] = "idle"
    BY <1>1, GenerationAssumption DEF Acquire, ArchiveInv, LockInv
  <2>2. LockInv' /\ ChildInv' /\ SweepInv'
    BY <1>1, <2>1 DEF Acquire, ArchiveInv, LockInv, ChildInv, SweepInv, TypeOK
  <2> QED BY <1>1, <2>2 DEF Acquire, ArchiveInv, ShardInv
<1>2. CASE List(w) \/ Swept(w) \/ Decide(w) \/ EndPass(w) \/ Save(w)
  <2>1. /\ pc[w] \notin {"idle", "wait"} /\ opened'[w] = opened[w]
        /\ UNCHANGED <<disk, owner, opened, childVars>>
        /\ \A v \in Workers \ {w} : pc'[v] = pc[v] /\ day'[v] = day[v]
    BY <1>2 DEF List, Swept, Decide, EndPass, Save, ArchiveInv, TypeOK
  <2>2. pc[w] = "sweep" => opened[w] = None \/ pc'[w] = "sweep"
    BY <1>2 DEF List, Swept, Decide, EndPass, Save, ArchiveInv, TypeOK
  <2>3. LockInv' /\ SweepInv'
    BY <2>1, <2>2 DEF ArchiveInv, LockInv, SweepInv, TypeOK
  <2>4. ChildInv'
    BY <2>1 DEF ArchiveInv, ChildInv, TypeOK
  <2> QED BY <2>1, <2>3, <2>4 DEF ArchiveInv, ShardInv
<1>3. CASE OpenTmp(w)
  <2>1. pc[w] = "sweep" /\ UNCHANGED <<disk, owner, pc, day, childVars>>
    BY <1>3 DEF OpenTmp
  <2>2. opened'[w] # None => place[opened'[w]] = "tmp"
    BY <1>3 DEF OpenTmp, ArchiveInv, TypeOK
  <2>3. \A v \in Workers \ {w} : opened'[v] = opened[v]
    BY <1>3 DEF OpenTmp, ArchiveInv, TypeOK
  <2>4. SweepInv'
    BY <2>1, <2>2, <2>3 DEF ArchiveInv, SweepInv
  <2> QED BY <2>1, <2>4 DEF ArchiveInv, LockInv, ChildInv, ShardInv
<1>4. CASE EmptyTmp(w)
  <2>1. pc[w] = "sweep" /\ opened[w] \in Dirs /\ place[opened[w]] = "tmp"
    BY <1>4 DEF EmptyTmp, ArchiveInv, SweepInv, TypeOK
  <2>2. child[w] = "none" /\ dir[w] = None
    BY <2>1 DEF ArchiveInv, ChildInv
  <2>3. \A v \in Workers : child'[v] = "none" /\ dir'[v] = None /\ opened'[v] = None
    <3>1. \A v \in Workers \ {w} : child[v] = "none" /\ dir[v] = None /\ opened[v] = None
      BY <2>1, OthersIdle
    <3>2. opened' = [opened EXCEPT ![w] = None] /\ UNCHANGED <<child, dir>>
      BY <1>4 DEF EmptyTmp
    <3> QED BY <2>2, <3>1, <3>2 DEF ArchiveInv, TypeOK
  <2>4. LockInv' /\ ChildInv' /\ SweepInv'
    BY <1>4, <2>3 DEF EmptyTmp, ArchiveInv, LockInv, ChildInv, SweepInv
  <2>5. ShardInv'
    BY <1>4, <2>1 DEF EmptyTmp, ArchiveInv, ShardInv, TypeOK
  <2> QED BY <2>4, <2>5 DEF ArchiveInv
<1>5. CASE StartDay(w)
  <2>1. pc[w] = "next" /\ UNCHANGED <<disk, owner, opened, dir>>
    BY <1>5 DEF StartDay
  <2>2. child' = [child EXCEPT ![w] = "begin"] /\ pc' = [pc EXCEPT ![w] = "wait"]
    BY <1>5 DEF StartDay
  <2>3. dir[w] = None /\ opened[w] = None
    BY <2>1 DEF ArchiveInv, ChildInv, SweepInv
  <2>4. \A v \in Workers \ {w} : pc[v] = "idle" /\ child[v] = "none" /\ dir[v] = None
                                  /\ opened[v] = None
    BY <2>1, OthersIdle
  <2>5. LockInv' /\ SweepInv'
    BY <2>1, <2>2, <2>3, <2>4 DEF ArchiveInv, LockInv, SweepInv, TypeOK
  <2>6. \A v \in Workers : dir'[v] = None /\ child'[v] \in {"none", "begin"}
                           /\ (child'[v] = "begin" => v = w)
    BY <2>1, <2>2, <2>3, <2>4 DEF ArchiveInv, TypeOK
  <2>7. ChildInv'
    BY <2>2, <2>6 DEF ArchiveInv, ChildInv, TypeOK
  <2> QED BY <2>1, <2>5, <2>7 DEF ArchiveInv, ShardInv
<1>6. CASE ChildExits(w)
  BY <1>6, SettleKeeps DEF ChildExits, Settle
<1>7. CASE LockWatch(w)
  BY <1>7, SettleKeeps DEF LockWatch, Settle
<1>8. CASE Release(w)
  <2>1. child[w] = "none" /\ dir[w] = None /\ opened[w] = None
    BY <1>8 DEF Release, ArchiveInv, ChildInv, SweepInv
  <2> QED BY <1>8, <2>1, PassEnds DEF Release, EndOfPass
<1> QED BY <1>1, <1>2, <1>3, <1>4, <1>5, <1>6, <1>7, <1>8 DEF Pass

(* A step of a child that goes on: only its own entries change, and what     *)
(* its new place asks of it holds.                                           *)
LEMMA ChildGoesOn ==
  ASSUME ArchiveInv, TypeOK', NEW w \in Workers, pc[w] = "wait",
         NEW c, child' = [child EXCEPT ![w] = c], c # "none",
         \A v \in Workers \ {w} : dir'[v] = dir[v],
         UNCHANGED <<owner, passVars>>, ShardInv',
         c \in {"begin", "work"} => dir'[w] = None,
         c \in {"write", "verify", "check", "look", "rename"} =>
           dir'[w] \in Dirs /\ place'[dir'[w]] = "tmp",
         c \in {"check", "look", "rename"} => whole'[dir'[w]],
         c = "rename" => shard'[day'[w]] = None
  PROVE  ArchiveInv'
<1>1. \A v \in Workers \ {w} : pc[v] = "idle" /\ child[v] = "none" /\ dir[v] = None
                                /\ opened[v] = None
  BY OthersIdle
<1>2. opened[w] = None
  BY DEF ArchiveInv, SweepInv
<1>3. LockInv' /\ SweepInv'
  BY <1>1, <1>2 DEF ArchiveInv, LockInv, SweepInv, passVars
<1>4. ChildInv'
  <2> SUFFICES ASSUME NEW v \in Workers
               PROVE  /\ child'[v] # "none" => pc'[v] = "wait"
                      /\ child'[v] \in {"none", "begin", "work"} => dir'[v] = None
                      /\ child'[v] \in {"write", "verify", "check", "look", "rename"} =>
                           dir'[v] \in Dirs /\ place'[dir'[v]] = "tmp"
                      /\ child'[v] \in {"check", "look", "rename"} => whole'[dir'[v]]
                      /\ child'[v] = "rename" => shard'[day'[v]] = None
    BY DEF ChildInv
  <2>1. CASE v = w
    BY <2>1 DEF ArchiveInv, TypeOK, passVars
  <2>2. CASE v # w
    <3>1. child'[v] = "none" /\ dir'[v] = None
      BY <1>1, <2>2 DEF ArchiveInv, TypeOK
    <3> QED BY <3>1
  <2> QED BY <2>1, <2>2
<1> QED BY <1>3, <1>4 DEF ArchiveInv

(* Every step of a child keeps the invariant.                               *)
LEMMA GenerateKeeps ==
  ASSUME ArchiveInv, TypeOK', NEW w \in Workers, Generate(w)
  PROVE  ArchiveInv'
<1> USE DEF disk, childOnly, passVars
<1>1. child[w] # "none" /\ pc[w] = "wait"
  BY DEF Generate, Begin, MakeTmp, Write, Verify, CheckLock, LookForShard, Rename,
         GenerateFails, ArchiveInv, ChildInv
<1>2. dir[w] \in Dirs \cup {None} /\ ShardInv
  BY DEF ArchiveInv, TypeOK
<1>3. CASE Begin(w)
  <2>1. dir'[w] = None /\ ShardInv'
    BY <1>2, <1>3 DEF Begin, ArchiveInv, ChildInv, ShardInv
  <2> DEFINE c == IF shard[day[w]] # None THEN "exists" ELSE "work"
  <2> QED BY <1>1, <1>3, <2>1, ChildGoesOn DEF Begin
<1>4. CASE MakeTmp(w)
  <2>1. PICK r \in Dirs : /\ place[r] = "none" /\ dir' = [dir EXCEPT ![w] = r]
                          /\ place' = [place EXCEPT ![r] = "tmp"]
    BY <1>4 DEF MakeTmp
  <2>2. ShardInv'
    BY <1>2, <1>4, <2>1 DEF MakeTmp, ShardInv, ArchiveInv, TypeOK
  <2>3. dir'[w] = r /\ place'[r] = "tmp" /\ \A v \in Workers \ {w} : dir'[v] = dir[v]
    BY <2>1 DEF ArchiveInv, TypeOK
  <2>4. child' = [child EXCEPT ![w] = "write"] /\ UNCHANGED <<owner, passVars>>
    BY <1>4 DEF MakeTmp
  <2> QED BY <1>1, <2>2, <2>3, <2>4, ChildGoesOn
<1>5. CASE Write(w)
  <2>1. dir[w] \in Dirs /\ place[dir[w]] = "tmp"
    BY <1>5 DEF Write, ArchiveInv, ChildInv
  <2>2. /\ whole' = [whole EXCEPT ![dir[w]] = TRUE]
        /\ child' = [child EXCEPT ![w] = "verify"] /\ UNCHANGED <<shard, place, dir, owner, passVars>>
    BY <1>5, <2>1 DEF Write
  <2>3. ShardInv'
    BY <1>2, <2>2 DEF ShardInv, ArchiveInv, TypeOK
  <2> QED BY <1>1, <2>1, <2>2, <2>3, ChildGoesOn
<1>6. CASE Verify(w) \/ CheckLock(w) \/ LookForShard(w)
  <2>1. dir[w] \in Dirs /\ dir[w] # None /\ place[dir[w]] = "tmp"
    BY <1>6, GenerationAssumption DEF Verify, CheckLock, LookForShard, ArchiveInv, ChildInv
  <2>2. UNCHANGED <<shard, dir, owner, passVars>>
    BY <1>6 DEF Verify, CheckLock, LookForShard
  <2>3. CASE UNCHANGED <<place, whole>> /\ whole[dir[w]]
             /\ \E c \in {"check", "look", "rename"} :
                  /\ child' = [child EXCEPT ![w] = c]
                  /\ c = "rename" => shard[day[w]] = None
    <3>1. ShardInv'
      BY <1>2, <2>2, <2>3 DEF ShardInv
    <3> QED BY <1>1, <2>1, <2>2, <2>3, <3>1, ChildGoesOn
  <2>4. CASE Discard(dir[w]) /\ \E c \in {"error", "lost", "exists"} : child' = [child EXCEPT ![w] = c]
    BY <1>1, <2>1, <2>2, <2>4, ChildSteps
  <2>5. child[w] \in {"check", "look"} => whole[dir[w]]
    BY DEF ArchiveInv, ChildInv
  <2> QED BY <1>6, <2>3, <2>4, <2>5 DEF Verify, CheckLock, LookForShard
<1>7. CASE Rename(w)
  <2>1. dir[w] \in Dirs /\ place[dir[w]] = "tmp" /\ whole[dir[w]] /\ shard[day[w]] = None
    BY <1>7 DEF Rename, ArchiveInv, ChildInv
  <2>2. None \notin Dirs
    BY GenerationAssumption
  <2>3. /\ shard' = [shard EXCEPT ![day[w]] = dir[w]]
        /\ place' = [r \in Dirs |-> IF r = dir[w] THEN "shard"
                                    ELSE IF r = None THEN "none" ELSE place[r]]
        /\ child' = [child EXCEPT ![w] = "ok"]
        /\ UNCHANGED <<whole, dir, owner, passVars>>
    BY <1>7, <2>1 DEF Rename
  <2>4. ShardInv'
    BY <1>2, <2>1, <2>2, <2>3 DEF ShardInv, ArchiveInv, TypeOK
  <2> QED BY <1>1, <2>3, <2>4, ChildGoesOn
<1>8. CASE GenerateFails(w)
  <2>1. dir[w] # None => place[dir[w]] # "shard"
    BY <1>8 DEF GenerateFails, ArchiveInv, ChildInv
  <2>2. child' = [child EXCEPT ![w] = "error"] /\ UNCHANGED <<shard, dir, owner, passVars>>
    BY <1>8 DEF GenerateFails
  <2>3. CASE dir[w] = None
    <3>1. UNCHANGED <<place, whole>>
      BY <1>8, <2>3 DEF GenerateFails
    <3> QED BY <1>1, <2>2, <3>1, ChildSteps
  <2>4. CASE dir[w] # None
    <3>1. Discard(dir[w])
      BY <1>8, <2>4 DEF GenerateFails
    <3> QED BY <1>1, <2>1, <2>2, <2>4, <3>1, ChildSteps
  <2> QED BY <2>3, <2>4
<1> QED BY <1>3, <1>4, <1>5, <1>6, <1>7, <1>8 DEF Generate

(* With no session ending, every fault keeps it.                            *)
LEMMA FaultKeeps ==
  ASSUME MaxLosses = 0, ArchiveInv, TypeOK', NEW w \in Workers, Fault(w)
  PROVE  ArchiveInv'
<1> USE DEF disk, records, passVars, childVars, bounds
<1>1. ASSUME NEW e \in {"failed", "stopped"}, Terminate(w, e) PROVE ArchiveInv'
  BY <1>1, SettleKeeps DEF Terminate, Settle
<1>2. CASE PassFails(w)
  <2>1. child[w] = "none" /\ dir[w] = None /\ opened[w] = None
    BY <1>2 DEF PassFails, ArchiveInv, ChildInv, SweepInv
  <2> QED BY <1>2, <2>1, PassEnds DEF PassFails, EndOfPass
<1>3. CASE SessionEnds(w)
  BY <1>3 DEF SessionEnds, ArchiveInv, TypeOK
<1>4. CASE WorkerDies(w)
  <2>1. child'[w] = "none" /\ dir'[w] = None /\ opened'[w] = None
    BY <1>4 DEF WorkerDies, ArchiveInv, TypeOK
  <2>2. \A v \in Workers \ {w} : /\ child'[v] = child[v] /\ dir'[v] = dir[v]
                               /\ opened'[v] = opened[v]
    BY <1>4 DEF WorkerDies, ArchiveInv, TypeOK
  <2> QED BY <1>4, <2>1, <2>2, PassEnds DEF WorkerDies, EndOfPass
<1> QED BY <1>1, <1>2, <1>3, <1>4 DEF Fault

(* It holds at first.                                                       *)
LEMMA InitArchiveInv == Init => ArchiveInv
BY TypeInit DEF Init, ArchiveInv, LockInv, ChildInv, SweepInv, ShardInv

(* Every step keeps it.                                                     *)
LEMMA NextKeeps ==
  ASSUME MaxLosses = 0, ArchiveInv, [Next]_vars
  PROVE  ArchiveInv'
<1>1. TypeOK'
  BY TypeStep DEF ArchiveInv
<1>2. ASSUME NEW d \in Days, DayReady(d) \/ BackoffEnds(d) \/ SourceGoes(d)
      PROVE  ArchiveInv'
  BY <1>1, <1>2 DEF DayReady, BackoffEnds, SourceGoes, ArchiveInv, LockInv, ChildInv, SweepInv, ShardInv,
     disk, passVars, childVars
<1>3. CASE UNCHANGED vars
  BY <1>1, <1>3 DEF vars, ArchiveInv, LockInv, ChildInv, SweepInv, ShardInv,
     disk, passVars, childVars
<1> QED BY <1>1, <1>2, <1>3, PassKeeps, GenerateKeeps, FaultKeeps DEF Next

(* The inductive invariant holds of every behaviour.                        *)
LEMMA ArchiveInvariant ==
  ASSUME MaxLosses = 0
  PROVE  Spec => []ArchiveInv
BY InitArchiveInv, NextKeeps, PTL DEF Spec

(* Only a rename touches what is published.                                  *)
LEMMA OnlyRenamePublishes ==
  ASSUME [Next]_vars
  PROVE  UNCHANGED shard \/ \E w \in Workers : Rename(w)
<1> USE DEF disk, childOnly
<1>1. ASSUME NEW w \in Workers, Pass(w) PROVE UNCHANGED shard
  BY <1>1 DEF Pass, Acquire, List, OpenTmp, EmptyTmp, Swept, Decide, StartDay, EndPass,
              ChildExits, LockWatch, Save, Release
<1>2. ASSUME NEW w \in Workers, Generate(w), ~Rename(w) PROVE UNCHANGED shard
  BY <1>2 DEF Generate, Begin, MakeTmp, Write, Verify, CheckLock, LookForShard, GenerateFails
<1>3. ASSUME NEW w \in Workers, Fault(w) PROVE UNCHANGED shard
  BY <1>3 DEF Fault, Terminate, PassFails, SessionEnds, WorkerDies
<1>4. ASSUME NEW d \in Days, DayReady(d) \/ BackoffEnds(d) \/ SourceGoes(d)
      PROVE  UNCHANGED shard
  BY <1>4 DEF DayReady, BackoffEnds, SourceGoes
<1> QED BY <1>1, <1>2, <1>3, <1>4 DEF Next, vars

(* A step of the worker is a step of the archive: a day's shard appears      *)
(* whole, once, and stays.                                                   *)
THEOREM GenerationIsAnArchive ==
  ASSUME MaxLosses = 0
  PROVE  Spec => ImplementsArchive
<1> DEFINE held == [d \in Days |-> IF shard[d] = None THEN "absent"
                                  ELSE IF whole[shard[d]] THEN "whole" ELSE "damaged"]
<1>1. Init => Archive!Init
  BY DEF Init, Archive!Init
<1>2. ASSUME ArchiveInv, ArchiveInv', [Next]_vars
      PROVE  [\E d \in Days : Archive!Preserve(d)]_held
  <2>1. \A d \in Days : shard[d] # None => whole[shard[d]]
    BY <1>2 DEF ArchiveInv, ShardInv
  <2>2. \A d \in Days : shard'[d] # None => whole'[shard'[d]]
    BY <1>2 DEF ArchiveInv, ShardInv
  <2>3. CASE UNCHANGED shard
    <3>1. held' = held
      BY <2>1, <2>2, <2>3
    <3> QED BY <3>1
  <2>4. CASE \E w \in Workers : Rename(w)
    <3>1. PICK w \in Workers : Rename(w)
      BY <2>4
    <3>2. dir[w] \in Dirs /\ place[dir[w]] = "tmp" /\ shard[day[w]] = None /\ day[w] \in Days
      BY <1>2, <3>1 DEF Rename, ArchiveInv, ChildInv, TypeOK
    <3>3. shard' = [shard EXCEPT ![day[w]] = dir[w]]
      BY <3>1, <3>2 DEF Rename
    <3>4. dir[w] # None
      BY <3>2, GenerationAssumption
    <3>5. held' = [held EXCEPT ![day[w]] = "whole"] /\ held[day[w]] = "absent"
      <4>1. shard'[day[w]] # None /\ whole'[shard'[day[w]]]
        BY <1>2, <2>2, <3>2, <3>3, <3>4 DEF ArchiveInv, TypeOK
      <4>2. \A d \in Days \ {day[w]} : shard'[d] = shard[d]
        BY <1>2, <3>3 DEF ArchiveInv, TypeOK
      <4>3. held'[day[w]] = "whole" /\ \A d \in Days \ {day[w]} : held'[d] = held[d]
        BY <2>1, <2>2, <3>2, <4>1, <4>2
      <4> QED BY <3>2, <4>3
    <3> QED BY <3>2, <3>5 DEF Archive!Preserve
  <2>5. UNCHANGED shard \/ \E w \in Workers : Rename(w)
    BY <1>2, OnlyRenamePublishes
  <2> QED BY <2>3, <2>4, <2>5
<1> QED BY <1>1, <1>2, ArchiveInvariant, PTL DEF Spec, ImplementsArchive, Archive!Spec

-----------------------------------------------------------------------------
(* Why failures are remembered: a pass that has loaded its copy of the       *)
(* records, and still has a lock, has the newest one, up to the days it has  *)
(* preserved itself.                                                         *)

Loaded(w) == \/ pc[w] \in {"next", "wait", "save", "release"}
             \/ pc[w] \in {"list", "sweep"} /\ ending[w] # "none"

UpToDate(w) == \A d \in Days : counted[w][d] < attempts[d] => shard[d] # None

RecordInv == \A w \in Workers :
  /\ Loaded(w) => UpToDate(w)
  /\ child[w] \in {"ok", "exists"} => shard[day[w]] # None
  /\ pc[w] = "idle" => ending[w] = "none"

(* A published shard never goes.                                            *)
LEMMA ShardsStay ==
  ASSUME ArchiveInv, [Next]_vars, NEW d \in Days, shard[d] # None
  PROVE  shard'[d] # None
<1>1. CASE UNCHANGED shard
  BY <1>1
<1>2. ASSUME NEW w \in Workers, Rename(w) PROVE shard'[d] # None
  <2>1. dir[w] \in Dirs /\ dir[w] # None /\ (shard' = shard \/ shard' = [shard EXCEPT ![day[w]] = dir[w]])
    BY <1>2, GenerationAssumption DEF Rename, ArchiveInv, ChildInv
  <2> QED BY <2>1 DEF ArchiveInv, TypeOK
<1> QED BY <1>1, <1>2, OnlyRenamePublishes

(* In a step of the worker in the pass, only its own records matter.         *)
LEMMA RecordsOfOne ==
  ASSUME ArchiveInv, RecordInv, NEW w \in Workers, pc[w] # "idle",
         \A v \in Workers \ {w} : /\ pc'[v] = pc[v] /\ ending'[v] = ending[v]
                                /\ child'[v] = child[v],
         Loaded(w)' => UpToDate(w)',
         child'[w] \in {"ok", "exists"} => shard'[day'[w]] # None,
         pc'[w] = "idle" => ending'[w] = "none"
  PROVE  RecordInv'
<1> SUFFICES ASSUME NEW v \in Workers
             PROVE  /\ Loaded(v)' => UpToDate(v)'
                    /\ child'[v] \in {"ok", "exists"} => shard'[day'[v]] # None
                    /\ pc'[v] = "idle" => ending'[v] = "none"
  BY DEF RecordInv
<1>1. CASE v = w
  BY <1>1
<1>2. CASE v # w
  <2>1. pc[v] = "idle" /\ child[v] = "none"
    BY <1>2, OthersIdle
  <2> QED BY <1>2, <2>1 DEF RecordInv, Loaded
<1> QED BY <1>1, <1>2

(* A generation's end brings the worker's copy up to date.                  *)
LEMMA SettleRecords ==
  ASSUME ArchiveInv, RecordInv, NEW w \in Workers, NEW e \in {"done", "failed", "lost", "stopped"},
         pc[w] = "wait", Settle(w, e), e = "done" => shard[day[w]] # None,
         UNCHANGED <<shard, attempts>>
  PROVE  RecordInv'
<1>1. day[w] \in Days /\ UpToDate(w) /\ counted[w] \in [Days -> 0..MaxAttempts]
      /\ attempts \in [Days -> 0..MaxAttempts]
  BY DEF ArchiveInv, TypeOK, RecordInv, Loaded
<1>2. \A d \in Days : counted'[w][d] >= counted[w][d] \/ (d = day[w] /\ e = "done")
  <2> SUFFICES ASSUME NEW d \in Days
               PROVE  counted'[w][d] >= counted[w][d] \/ (d = day[w] /\ e = "done")
    OBVIOUS
  <2>1. counted[w][d] \in Nat /\ counted[w][day[w]] \in Nat
    BY <1>1, GenerationAssumption
  <2>2. CASE e = "done"
    <3>1. counted' = [counted EXCEPT ![w][day[w]] = 0]
      BY <2>2 DEF Settle
    <3> QED BY <1>1, <2>1, <2>2, <3>1 DEF ArchiveInv, TypeOK
  <2>3. CASE e = "failed"
    <3>1. counted' = [counted EXCEPT ![w][day[w]] =
                        IF counted[w][day[w]] < MaxAttempts THEN counted[w][day[w]] + 1
                        ELSE counted[w][day[w]]]
      BY <2>3 DEF Settle
    <3> QED BY <1>1, <2>1, <3>1 DEF ArchiveInv, TypeOK
  <2>4. CASE e \in {"lost", "stopped"}
    BY <2>1, <2>4 DEF Settle
  <2> QED BY <2>2, <2>3, <2>4
<1>3. UpToDate(w)'
  <2> SUFFICES ASSUME NEW d \in Days, counted'[w][d] < attempts[d] PROVE shard[d] # None
    BY DEF UpToDate
  <2>1. CASE d = day[w] /\ e = "done"
    BY <2>1
  <2>2. CASE counted'[w][d] >= counted[w][d]
    <3>1. counted[w][d] \in Nat /\ attempts[d] \in Nat /\ counted'[w][d] \in Int
      <4>1. counted' \in [Workers -> [Days -> 0..MaxAttempts]]
        BY SettleTypes DEF ArchiveInv
      <4> QED BY <1>1, <4>1, GenerationAssumption
    <3>2. counted[w][d] < attempts[d]
      BY <2>2, <3>1
    <3> QED BY <1>1, <3>2 DEF UpToDate
  <2> QED BY <1>2, <2>1, <2>2
<1>4. /\ pc' = [pc EXCEPT ![w] = "list"] /\ child' = [child EXCEPT ![w] = "none"]
      /\ ending' = [ending EXCEPT ![w] = e]
  BY DEF Settle
<1> QED BY <1>3, <1>4, RecordsOfOne DEF ArchiveInv, TypeOK

(* A worker that leaves its pass holds no copy.                             *)
LEMMA EndRecords ==
  ASSUME ArchiveInv, RecordInv, NEW w \in Workers, pc[w] # "idle", EndOfPass(w),
         child'[w] = "none", \A v \in Workers \ {w} : child'[v] = child[v]
  PROVE  RecordInv'
<1>1. pc'[w] = "idle" /\ ending'[w] = "none"
  BY DEF EndOfPass, ArchiveInv, TypeOK
<1>2. \A v \in Workers \ {w} : pc'[v] = pc[v] /\ ending'[v] = ending[v]
  BY DEF EndOfPass, ArchiveInv, TypeOK
<1>3. Loaded(w)' => UpToDate(w)'
  BY <1>1 DEF Loaded
<1> QED BY <1>1, <1>2, <1>3, RecordsOfOne

(* Every step of a pass keeps the records in order.                         *)
LEMMA PassRecords ==
  ASSUME ArchiveInv, ArchiveInv', RecordInv, NEW w \in Workers, Pass(w)
  PROVE  RecordInv'
<1> USE DEF disk, records, childVars
<1>1. CASE Acquire(w)
  <2>1. \A v \in Workers : pc[v] = "idle" /\ child[v] = "none" /\ ending[v] = "none"
    BY <1>1, GenerationAssumption DEF Acquire, ArchiveInv, LockInv, ChildInv, RecordInv
  <2>2. pc' = [pc EXCEPT ![w] = "list"] /\ UNCHANGED <<ending, child>>
    BY <1>1 DEF Acquire
  <2>3. \A v \in Workers : /\ child'[v] = "none" /\ ending'[v] = "none"
                           /\ pc'[v] \in {"idle", "list"}
    BY <2>1, <2>2 DEF ArchiveInv, TypeOK
  <2> QED BY <2>3 DEF RecordInv, Loaded
<1>2. CASE List(w) \/ OpenTmp(w) \/ EmptyTmp(w) \/ Swept(w)
  <2>1. /\ pc[w] \in {"list", "sweep"} /\ pc'[w] # "idle"
        /\ (pc'[w] = "sweep" \/ pc'[w] = IF ending[w] = "none" THEN "decide" ELSE "save")
        /\ \A v \in Workers \ {w} : pc'[v] = pc[v]
        /\ UNCHANGED <<shard, attempts, counted, ending, child>>
    BY <1>2 DEF List, OpenTmp, EmptyTmp, Swept, ArchiveInv, TypeOK
  <2>2. Loaded(w)' => Loaded(w)
    BY <2>1 DEF Loaded
  <2>3. Loaded(w)' => UpToDate(w)'
    BY <2>1, <2>2 DEF RecordInv, UpToDate
  <2>4. child[w] = "none"
    BY <2>1 DEF ArchiveInv, ChildInv
  <2> QED BY <2>1, <2>3, <2>4, RecordsOfOne
<1>3. CASE Decide(w)
  <2>1. /\ pc[w] = "decide" /\ counted' = [counted EXCEPT ![w] = attempts]
        /\ pc' = [pc EXCEPT ![w] = "next"] /\ UNCHANGED <<shard, attempts, ending, child>>
    BY <1>3 DEF Decide
  <2>2. counted'[w] = attempts
    BY <2>1 DEF ArchiveInv, TypeOK
  <2>3. UpToDate(w)'
    <3> SUFFICES ASSUME NEW d \in Days, attempts[d] < attempts[d] PROVE FALSE
      BY <2>1, <2>2 DEF UpToDate
    <3>1. attempts[d] \in Nat
      BY GenerationAssumption DEF ArchiveInv, TypeOK
    <3> QED BY <3>1
  <2>4. child[w] = "none"
    BY <2>1 DEF ArchiveInv, ChildInv
  <2> QED BY <2>1, <2>3, <2>4, RecordsOfOne DEF ArchiveInv, TypeOK
<1>4. CASE StartDay(w)
  <2>1. /\ pc[w] = "next" /\ pc' = [pc EXCEPT ![w] = "wait"]
        /\ child' = [child EXCEPT ![w] = "begin"]
        /\ UNCHANGED <<shard, attempts, counted, ending>>
    BY <1>4 DEF StartDay
  <2>2. UpToDate(w)'
    BY <2>1 DEF RecordInv, Loaded, UpToDate
  <2> QED BY <2>1, <2>2, RecordsOfOne DEF ArchiveInv, TypeOK
<1>5. CASE EndPass(w) \/ Save(w)
  <2>1. /\ pc[w] \in {"next", "save"} /\ pc'[w] # "idle" /\ attempts' = counted[w]
        /\ \A v \in Workers \ {w} : pc'[v] = pc[v] /\ ending'[v] = ending[v]
        /\ UNCHANGED <<shard, counted, child>>
    BY <1>5 DEF EndPass, Save, ArchiveInv, TypeOK
  <2>2. UpToDate(w)'
    <3> SUFFICES ASSUME NEW d \in Days, counted[w][d] < counted[w][d] PROVE FALSE
      BY <2>1 DEF UpToDate
    <3>1. counted[w][d] \in Nat
      BY GenerationAssumption DEF ArchiveInv, TypeOK
    <3> QED BY <3>1
  <2>3. child[w] = "none"
    BY <2>1 DEF ArchiveInv, ChildInv
  <2> QED BY <2>1, <2>2, <2>3, RecordsOfOne
<1>6. CASE ChildExits(w)
  <2>1. Outcome(child[w]) \in {"done", "failed", "lost", "stopped"}
    BY <1>6 DEF ChildExits, Outcome
  <2>2. Outcome(child[w]) = "done" => shard[day[w]] # None
    BY <1>6 DEF ChildExits, Outcome, RecordInv
  <2> QED BY <1>6, <2>1, <2>2, SettleRecords DEF ChildExits
<1>7. CASE LockWatch(w)
  BY <1>7, SettleRecords DEF LockWatch
<1>8. CASE Release(w)
  <2>1. child[w] = "none" /\ child' = child
    BY <1>8 DEF Release, ArchiveInv, ChildInv
  <2> QED BY <1>8, <2>1, EndRecords DEF Release
<1> QED BY <1>1, <1>2, <1>3, <1>4, <1>5, <1>6, <1>7, <1>8 DEF Pass

(* A child does not touch the records; it exits well only with its shard    *)
(* there.                                                                   *)
LEMMA GenerateRecords ==
  ASSUME ArchiveInv, ArchiveInv', RecordInv, NEW w \in Workers, Generate(w)
  PROVE  RecordInv'
<1> USE DEF childOnly, passVars, records
<1>1. child[w] # "none" /\ pc[w] = "wait"
  BY DEF Generate, Begin, MakeTmp, Write, Verify, CheckLock, LookForShard, Rename,
         GenerateFails, ArchiveInv, ChildInv
<1>2. UNCHANGED <<pc, ending, counted, attempts, day>>
  BY DEF Generate, Begin, MakeTmp, Write, Verify, CheckLock, LookForShard, Rename, GenerateFails
<1>3. \A v \in Workers \ {w} : child'[v] = child[v]
  BY DEF Generate, Begin, MakeTmp, Write, Verify, CheckLock, LookForShard, Rename,
         GenerateFails, ArchiveInv, TypeOK
<1>4. UpToDate(w)'
  <2>1. [Next]_vars
    BY DEF Next
  <2> SUFFICES ASSUME NEW d \in Days, counted[w][d] < attempts[d] PROVE shard'[d] # None
    BY <1>2 DEF UpToDate
  <2>2. shard[d] # None
    BY <1>1 DEF RecordInv, Loaded, UpToDate
  <2> QED BY <2>1, <2>2, ShardsStay
<1>5. child'[w] \in {"ok", "exists"} => shard'[day[w]] # None
  <2> SUFFICES ASSUME child'[w] \in {"ok", "exists"} PROVE shard'[day[w]] # None
    OBVIOUS
  <2>1. day[w] \in Days
    BY <1>1 DEF ArchiveInv, TypeOK
  <2>2. CASE Begin(w) \/ LookForShard(w)
    BY <2>1, <2>2 DEF Begin, LookForShard, disk, ArchiveInv, TypeOK
  <2>3. CASE Rename(w)
    <3>1. dir[w] \in Dirs /\ dir[w] # None /\ place[dir[w]] = "tmp" /\ shard[day[w]] = None
      BY <2>3, GenerationAssumption DEF Rename, ArchiveInv, ChildInv
    <3>2. shard' = [shard EXCEPT ![day[w]] = dir[w]]
      BY <2>3, <3>1 DEF Rename
    <3> QED BY <2>1, <3>1, <3>2 DEF ArchiveInv, TypeOK
  <2>4. CASE MakeTmp(w) \/ Write(w) \/ Verify(w) \/ CheckLock(w) \/ GenerateFails(w)
    BY <2>4 DEF MakeTmp, Write, Verify, CheckLock, GenerateFails, ArchiveInv, TypeOK
  <2> QED BY <2>2, <2>3, <2>4 DEF Generate
<1> QED BY <1>1, <1>2, <1>3, <1>4, <1>5, RecordsOfOne

(* Faults keep the records in order.                                        *)
LEMMA FaultRecords ==
  ASSUME MaxLosses = 0, ArchiveInv, ArchiveInv', RecordInv, NEW w \in Workers, Fault(w)
  PROVE  RecordInv'
<1> USE DEF disk, records, childVars, passVars
<1>1. ASSUME NEW e \in {"failed", "stopped"}, Terminate(w, e) PROVE RecordInv'
  BY <1>1, SettleRecords DEF Terminate
<1>2. CASE PassFails(w)
  <2>1. child[w] = "none" /\ child' = child
    BY <1>2 DEF PassFails, ArchiveInv, ChildInv
  <2> QED BY <1>2, <2>1, EndRecords DEF PassFails
<1>3. CASE SessionEnds(w)
  BY <1>3 DEF SessionEnds, ArchiveInv, TypeOK
<1>4. CASE WorkerDies(w)
  <2>1. child'[w] = "none" /\ \A v \in Workers \ {w} : child'[v] = child[v]
    BY <1>4 DEF WorkerDies, ArchiveInv, TypeOK
  <2> QED BY <1>4, <2>1, EndRecords DEF WorkerDies
<1> QED BY <1>1, <1>2, <1>3, <1>4 DEF Fault

(* RecordInv holds of every behaviour.                                      *)
LEMMA RecordInvariant ==
  ASSUME MaxLosses = 0
  PROVE  Spec => []RecordInv
<1>1. Init => RecordInv
  BY DEF Init, RecordInv, Loaded
<1>2. ASSUME ArchiveInv, ArchiveInv', RecordInv, [Next]_vars PROVE RecordInv'
  <2>1. ASSUME NEW d \in Days, DayReady(d) \/ BackoffEnds(d) \/ SourceGoes(d)
      PROVE  RecordInv'
    <3>1. UNCHANGED <<shard, attempts, pc, counted, day, ending, child>>
      BY <2>1 DEF DayReady, BackoffEnds, SourceGoes, disk, records, passVars, childVars
    <3> QED BY <1>2, <3>1 DEF RecordInv, Loaded, UpToDate
  <2>2. CASE UNCHANGED vars
    BY <1>2, <2>2 DEF vars, RecordInv, Loaded, UpToDate, disk, records, passVars, childVars
  <2> QED BY <1>2, <2>1, <2>2, PassRecords, GenerateRecords, FaultRecords DEF Next
<1> QED BY <1>1, <1>2, ArchiveInvariant, PTL DEF Spec

(* While no session ends under a worker, no pass writes an older copy of the *)
(* records over a newer one: the failures of a day are only forgotten once   *)
(* its shard is there.                                                       *)
THEOREM FailuresAreRemembered ==
  ASSUME MaxLosses = 0
  PROVE  Spec => FailuresRemembered
<1>1. ASSUME ArchiveInv, RecordInv, [Next]_vars
      PROVE  [\A d \in Days : attempts'[d] < attempts[d] => shard[d] # None]_vars
  <2> USE DEF records, childOnly, passVars
  <2>1. UNCHANGED attempts \/ \E w \in Workers : EndPass(w) \/ Save(w)
    <3>1. ASSUME NEW w \in Workers, Pass(w), ~(EndPass(w) \/ Save(w)) PROVE UNCHANGED attempts
      BY <3>1 DEF Pass, Acquire, List, OpenTmp, EmptyTmp, Swept, Decide, StartDay,
                  ChildExits, LockWatch, Release
    <3>2. ASSUME NEW w \in Workers, Generate(w) PROVE UNCHANGED attempts
      BY <3>2 DEF Generate, Begin, MakeTmp, Write, Verify, CheckLock, LookForShard, Rename,
                  GenerateFails
    <3>3. ASSUME NEW w \in Workers, Fault(w) PROVE UNCHANGED attempts
      BY <3>3 DEF Fault, Terminate, PassFails, SessionEnds, WorkerDies
    <3>4. ASSUME NEW d \in Days, DayReady(d) \/ BackoffEnds(d) \/ SourceGoes(d)
      PROVE  UNCHANGED attempts
      BY <3>4 DEF DayReady, BackoffEnds, SourceGoes
    <3> QED BY <1>1, <3>1, <3>2, <3>3, <3>4 DEF Next, vars
  <2>2. ASSUME NEW d \in Days, attempts'[d] < attempts[d] PROVE shard[d] # None
    <3>1. CASE UNCHANGED attempts
      <4>1. attempts[d] \in Nat
        BY <1>1, GenerationAssumption DEF ArchiveInv, TypeOK
      <4> QED BY <2>2, <3>1, <4>1
    <3>2. ASSUME NEW w \in Workers, EndPass(w) \/ Save(w) PROVE shard[d] # None
      <4>1. attempts' = counted[w] /\ Loaded(w)
        BY <3>2 DEF EndPass, Save, Loaded
      <4> QED BY <1>1, <2>2, <4>1 DEF RecordInv, UpToDate
    <3> QED BY <2>1, <3>1, <3>2
  <2> QED BY <2>2
<1> QED BY <1>1, ArchiveInvariant, RecordInvariant, PTL DEF Spec, FailuresRemembered

-----------------------------------------------------------------------------
(* Sessions that end. A child that has found its worker's session alive may  *)
(* publish much later; until then its directory is temporary, and a worker   *)
(* that acquired the lock meanwhile finds it there, and empties it, before   *)
(* it decides anything.                                                     *)

ToBeSwept(r, v) == pc[v] = "list" \/ (pc[v] = "sweep" /\ r \in sweep[v] \cup {opened[v]})

LateInv == \A w \in Workers :
  /\ child[w] \in {"write", "verify", "check", "look", "rename"} => dir[w] \in Dirs
  /\ child[w] \in {"look", "rename"} /\ dir[w] \in TmpDirs =>
       owner \in {w, None} \/ ToBeSwept(dir[w], owner)

LEMMA DirKnown ==
  ASSUME TypeOK, LateInv, [Next]_vars, NEW x \in Workers,
         child'[x] \in {"write", "verify", "check", "look", "rename"}
  PROVE  dir'[x] \in Dirs
<1> USE DEF LateInv, TypeOK, childVars
<1>1. ASSUME NEW w \in Workers, Pass(w) PROVE dir'[x] \in Dirs
  BY <1>1 DEF Pass, Acquire, List, OpenTmp, EmptyTmp, Swept, Decide, StartDay, EndPass,
              ChildExits, LockWatch, Settle, Save, Release
<1>2. ASSUME NEW w \in Workers, Generate(w) PROVE dir'[x] \in Dirs
  BY <1>2 DEF Generate, Begin, MakeTmp, Write, Verify, CheckLock, LookForShard, Rename,
              GenerateFails
<1>3. ASSUME NEW w \in Workers, Fault(w) PROVE dir'[x] \in Dirs
  BY <1>3 DEF Fault, Terminate, Settle, PassFails, SessionEnds, WorkerDies
<1>4. ASSUME NEW d \in Days, DayReady(d) \/ BackoffEnds(d) \/ SourceGoes(d)
      PROVE  dir'[x] \in Dirs
  BY <1>4 DEF DayReady, BackoffEnds, SourceGoes
<1>5. CASE UNCHANGED vars
  BY <1>5 DEF vars
<1> QED BY <1>1, <1>2, <1>3, <1>4, <1>5 DEF Next

(* A child comes to publish by finding its worker in possession of the lock. *)
LEMMA CheckedByOwner ==
  ASSUME TypeOK, [Next]_vars, NEW x \in Workers, child'[x] \in {"look", "rename"}
  PROVE  \/ child[x] \in {"look", "rename"} /\ dir'[x] = dir[x]
         \/ owner' = x
<1> USE DEF TypeOK, childVars
<1> DEFINE Goal == \/ child[x] \in {"look", "rename"} /\ dir'[x] = dir[x]
                   \/ owner' = x
<1>1. ASSUME NEW w \in Workers, Pass(w) PROVE Goal
  BY <1>1 DEF Pass, Acquire, List, OpenTmp, EmptyTmp, Swept, Decide, StartDay, EndPass,
              ChildExits, LockWatch, Settle, Save, Release
<1>2. ASSUME NEW w \in Workers, Generate(w) PROVE Goal
  BY <1>2 DEF Generate, Begin, MakeTmp, Write, Verify, CheckLock, LookForShard, Rename,
              GenerateFails, Holds, childOnly
<1>3. ASSUME NEW w \in Workers, Fault(w) PROVE Goal
  BY <1>3 DEF Fault, Terminate, Settle, PassFails, SessionEnds, WorkerDies
<1>4. ASSUME NEW d \in Days, DayReady(d) \/ BackoffEnds(d) \/ SourceGoes(d)
      PROVE  Goal
  BY <1>4 DEF DayReady, BackoffEnds, SourceGoes
<1>5. CASE UNCHANGED vars
  BY <1>5 DEF vars
<1> QED BY <1>1, <1>2, <1>3, <1>4, <1>5 DEF Next

(* A directory a child still knows is never made a temporary one again.      *)
LEMMA NameNotReused ==
  ASSUME TypeOK, [Next]_vars, NEW x \in Workers, dir[x] \in Dirs, place'[dir[x]] = "tmp"
  PROVE  place[dir[x]] = "tmp"
<1> USE DEF TypeOK, disk
<1>1. ASSUME NEW w \in Workers, Pass(w) PROVE place[dir[x]] = "tmp"
  BY <1>1 DEF Pass, Acquire, List, OpenTmp, EmptyTmp, Swept, Decide, StartDay, EndPass,
              ChildExits, LockWatch, Save, Release
<1>2. ASSUME NEW w \in Workers, Generate(w) PROVE place[dir[x]] = "tmp"
  <2>1. CASE MakeTmp(w)
    BY <2>1 DEF MakeTmp
  <2>2. CASE Rename(w)
    <3>1. \/ place' = [r \in Dirs |-> IF r = dir[w] THEN "shard"
                                     ELSE IF r = shard[day[w]] THEN "none" ELSE place[r]]
          \/ place' = [place EXCEPT ![dir[w]] = "none"]
      BY <2>2 DEF Rename, Discard
    <3>2. dir[x] \in Dirs /\ place = [r \in Dirs |-> place[r]]
      OBVIOUS
    <3>3. CASE place' = [place EXCEPT ![dir[w]] = "none"]
      BY <3>2, <3>3
    <3>4. CASE place' = [r \in Dirs |-> IF r = dir[w] THEN "shard"
                                       ELSE IF r = shard[day[w]] THEN "none" ELSE place[r]]
      BY <3>2, <3>4
    <3> QED BY <3>1, <3>3, <3>4
  <2>3. CASE Begin(w) \/ Write(w) \/ Verify(w) \/ CheckLock(w) \/ LookForShard(w)
             \/ GenerateFails(w)
    BY <2>3 DEF Begin, Write, Verify, CheckLock, LookForShard, GenerateFails, Discard
  <2> QED BY <1>2, <2>1, <2>2, <2>3 DEF Generate
<1>3. ASSUME NEW w \in Workers, Fault(w) PROVE place[dir[x]] = "tmp"
  BY <1>3 DEF Fault, Terminate, PassFails, SessionEnds, WorkerDies
<1>4. ASSUME NEW d \in Days, DayReady(d) \/ BackoffEnds(d) \/ SourceGoes(d)
      PROVE  place[dir[x]] = "tmp"
  BY <1>4 DEF DayReady, BackoffEnds, SourceGoes
<1>5. CASE UNCHANGED vars
  BY <1>5 DEF vars
<1> QED BY <1>1, <1>2, <1>3, <1>4, <1>5 DEF Next

(* What a worker does is no other worker's sweep.                           *)
LEMMA SweepsApart ==
  ASSUME TypeOK, NEW w \in Workers, Pass(w) \/ Generate(w) \/ Fault(w),
         NEW v \in Workers, v # w
  PROVE  pc'[v] = pc[v] /\ sweep'[v] = sweep[v] /\ opened'[v] = opened[v]
<1> USE DEF TypeOK, passVars, childOnly
<1>1. CASE Pass(w)
  BY <1>1 DEF Pass, Acquire, List, OpenTmp, EmptyTmp, Swept, Decide, StartDay, EndPass,
              ChildExits, LockWatch, Settle, Save, Release, EndOfPass
<1>2. CASE Generate(w)
  BY <1>2 DEF Generate, Begin, MakeTmp, Write, Verify, CheckLock, LookForShard, Rename,
              GenerateFails
<1>3. CASE Fault(w)
  BY <1>3 DEF Fault, Terminate, Settle, PassFails, SessionEnds, WorkerDies, EndOfPass
<1> QED BY <1>1, <1>2, <1>3

(* The lock changes hands by ending one pass and beginning another.          *)
LEMMA OwnerBegins ==
  ASSUME TypeOK, [Next]_vars, owner' # None, owner' # owner
  PROVE  pc'[owner'] = "list"
<1> USE DEF TypeOK
<1>1. ASSUME NEW w \in Workers, Pass(w) PROVE pc'[owner'] = "list"
  BY <1>1 DEF Pass, Acquire, List, OpenTmp, EmptyTmp, Swept, Decide, StartDay, EndPass,
              ChildExits, LockWatch, Save, Release, EndOfPass
<1>2. ASSUME NEW w \in Workers, Generate(w) PROVE FALSE
  BY <1>2 DEF Generate, Begin, MakeTmp, Write, Verify, CheckLock, LookForShard, Rename,
              GenerateFails, childOnly
<1>3. ASSUME NEW w \in Workers, Fault(w) PROVE FALSE
  BY <1>3 DEF Fault, Terminate, PassFails, SessionEnds, WorkerDies, EndOfPass
<1>4. ASSUME NEW d \in Days, DayReady(d) \/ BackoffEnds(d) \/ SourceGoes(d)
      PROVE  FALSE
  BY <1>4 DEF DayReady, BackoffEnds, SourceGoes
<1>5. CASE UNCHANGED vars
  BY <1>5 DEF vars
<1> QED BY <1>1, <1>2, <1>3, <1>4, <1>5 DEF Next

(* A temporary directory an owner is to sweep stays so until it has gone, or *)
(* the owner has lost the lock.                                             *)
LEMMA SweepReaches ==
  ASSUME TypeOK, [Next]_vars, NEW r \in Dirs, place[r] = "tmp", place'[r] = "tmp",
         NEW v \in Workers, owner = v, owner' = v, ToBeSwept(r, v)
  PROVE  pc'[v] = "list" \/ (pc'[v] = "sweep" /\ r \in sweep'[v] \cup {opened'[v]})
<1> DEFINE Goal == pc'[v] = "list" \/ (pc'[v] = "sweep" /\ r \in sweep'[v] \cup {opened'[v]})
<1> USE DEF TypeOK
<1>1. ASSUME Pass(v) PROVE Goal
  <2>1. CASE List(v)
    BY <2>1 DEF List, ToBeSwept, TmpDirs
  <2>2. CASE OpenTmp(v)
    <3>1. PICK q \in sweep[v] :
            /\ sweep' = [sweep EXCEPT ![v] = @ \ {q}]
            /\ opened' = [opened EXCEPT ![v] = IF place[q] = "tmp" THEN q ELSE None]
      BY <2>2 DEF OpenTmp
    <3>2. opened[v] = None /\ pc[v] = "sweep" /\ pc' = pc /\ r # None
      BY <2>2, GenerationAssumption DEF OpenTmp
    <3> QED BY <3>1, <3>2 DEF ToBeSwept
  <2>3. CASE EmptyTmp(v)
    BY <2>3 DEF EmptyTmp, ToBeSwept
  <2>4. CASE Swept(v)
    BY <2>4, GenerationAssumption DEF Swept, ToBeSwept
  <2>5. CASE \/ Acquire(v) \/ Decide(v) \/ StartDay(v) \/ EndPass(v) \/ Save(v) \/ Release(v)
             \/ ChildExits(v) \/ LockWatch(v)
    BY <2>5, GenerationAssumption
       DEF Acquire, Decide, StartDay, EndPass, Save, Release, ChildExits, LockWatch, ToBeSwept
  <2> QED BY <1>1, <2>1, <2>2, <2>3, <2>4, <2>5 DEF Pass
<1>2. ASSUME Generate(v) PROVE Goal
  BY <1>2 DEF Generate, Begin, MakeTmp, Write, Verify, CheckLock, LookForShard, Rename,
              GenerateFails, childOnly, passVars, ToBeSwept
<1>3. ASSUME Fault(v) PROVE Goal
  BY <1>3, GenerationAssumption
     DEF Fault, Terminate, PassFails, SessionEnds, WorkerDies, EndOfPass, ToBeSwept
<1>4. ASSUME NEW w \in Workers, w # v, Pass(w) \/ Generate(w) \/ Fault(w)
      PROVE  Goal
  BY <1>4, SweepsApart DEF ToBeSwept
<1>5. ASSUME NEW d \in Days, DayReady(d) \/ BackoffEnds(d) \/ SourceGoes(d)
      PROVE  Goal
  BY <1>5 DEF DayReady, BackoffEnds, SourceGoes, passVars, ToBeSwept
<1>6. CASE UNCHANGED vars
  BY <1>6 DEF vars, passVars, ToBeSwept
<1> QED BY <1>1, <1>2, <1>3, <1>4, <1>5, <1>6 DEF Next

LEMMA LateStep ==
  ASSUME TypeOK, TypeOK', LateInv, [Next]_vars
  PROVE  LateInv'
<1> SUFFICES ASSUME NEW x \in Workers, child'[x] \in {"look", "rename"},
                    dir'[x] \in Dirs, place'[dir'[x]] = "tmp", owner' # x, owner' # None
             PROVE  \/ pc'[owner'] = "list"
                    \/ /\ pc'[owner'] = "sweep"
                       /\ dir'[x] \in sweep'[owner'] \cup {opened'[owner']}
  BY DirKnown DEF LateInv, TmpDirs, ToBeSwept
<1>1. child[x] \in {"look", "rename"} /\ dir'[x] = dir[x]
  BY CheckedByOwner
<1>2. dir[x] \in Dirs /\ place[dir[x]] = "tmp" /\ place'[dir[x]] = "tmp"
  BY <1>1, NameNotReused
<1>3. owner' \in Workers
  BY DEF TypeOK
<1>4. CASE owner' = owner
  <2> DEFINE r == dir[x]
             v == owner
  <2>1. ToBeSwept(r, v)
    BY <1>1, <1>2, <1>4 DEF LateInv, TmpDirs
  <2>2. r \in Dirs /\ v \in Workers /\ owner = v /\ owner' = v /\ place[r] = "tmp"
        /\ place'[r] = "tmp"
    BY <1>2, <1>3, <1>4
  <2> HIDE DEF r, v
  <2>3. pc'[v] = "list" \/ (pc'[v] = "sweep" /\ r \in sweep'[v] \cup {opened'[v]})
    BY <2>1, <2>2, SweepReaches DEF ToBeSwept
  <2> QED BY <1>1, <1>4, <2>3 DEF r, v
<1>5. CASE owner' # owner
  BY <1>5, OwnerBegins
<1> QED BY <1>4, <1>5

LEMMA LateInvariant == Spec => []LateInv
<1>1. Init => LateInv
  BY DEF Init, LateInv
<1> QED BY <1>1, LateStep, GenerationTypeCorrect, PTL DEF Spec

(* However many sessions end, and whenever: a generator that has lost its   *)
(* lock publishes nothing once the pass that holds the lock has swept.       *)
THEOREM NothingPublishedLate == Spec => NoLatePublication
<1>1. ASSUME TypeOK, LateInv, [Next]_vars
      PROVE  [\A w \in Workers :
                child[w] = "rename" /\ child'[w] # "rename" /\ shard' # shard =>
                  owner \in {w, None} \/ pc[owner] \in {"list", "sweep"}]_vars
  <2> SUFFICES ASSUME NEW w \in Workers, child[w] = "rename", child'[w] # "rename",
                      shard' # shard
               PROVE  owner \in {w, None} \/ pc[owner] \in {"list", "sweep"}
    OBVIOUS
  <2>1. PICK v \in Workers : Rename(v)
    BY <1>1, OnlyRenamePublishes
  <2>2. v = w
    BY <1>1, <2>1 DEF Rename, TypeOK
  <2>3. place[dir[w]] = "tmp"
    BY <2>1, <2>2 DEF Rename
  <2>4. dir[w] \in TmpDirs
    BY <1>1, <2>3 DEF LateInv, TmpDirs
  <2> QED BY <1>1, <2>4 DEF LateInv, ToBeSwept
<1> QED BY <1>1, LateInvariant, GenerationTypeCorrect, PTL DEF Spec, NoLatePublication
=============================================================================
