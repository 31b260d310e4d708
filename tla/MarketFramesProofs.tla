-------------------------- MODULE MarketFramesProofs --------------------------
(***************************************************************************)
(* Theorems about MarketFrames, for every set of instruments and every      *)
(* bound.                                                                   *)
(***************************************************************************)
EXTENDS MarketFrames, TLAPS

-----------------------------------------------------------------------------
(* Type correctness, one lemma per part of the state                       *)

\* What finalizing any frame leaves in the frame rows is well-formed.
LEMMA FinalizeType ==
  ASSUME TypeOK, NEW f \in Boundaries, Finalize(f)
  PROVE  RowsType'
<1>1. MemberRows(f) \in SUBSET Instruments
  BY DEF TypeOK, RowsType, MemberRows
<1>2. members' \in [Boundaries -> SUBSET Instruments]
  BY <1>1 DEF TypeOK, RowsType, Finalize
<1>3. available' \in [Boundaries -> SUBSET Instruments]
  BY <1>1 DEF TypeOK, RowsType, Finalize
<1>4. status' \in [Boundaries -> Terminal \cup {"absent", "building"}]
  BY DEF TypeOK, RowsType, Finalize, Terminal
<1> QED
  BY <1>2, <1>3, <1>4 DEF TypeOK, RowsType, Finalize

LEMMA WorldTypeStep == TypeOK /\ [Next]_vars => WorldType'
<1> SUFFICES ASSUME TypeOK, [Next]_vars PROVE WorldType'
  OBVIOUS
<1> USE BoundsAssumption DEF TypeOK, WorldType, Boundaries
<1>1. CASE World
  BY <1>1 DEF World, Tick, StepBack, ReconcileUniverse, StoreCandles, budgets
<1>2. CASE Fault
  BY <1>2 DEF Fault, Crash, StartupFails, BuildFails, FindFails,
              AnalysisFails, Error, world
<1>3. CASE Start \/ ResolveInterrupted \/ FrameLoop \/ Recover
  BY <1>3 DEF Start, ResolveInterrupted, FrameLoop, Recover, PickTarget,
              ReachBoundary, OpenFrame, FinalizeFrame, HookReturns,
              FindUnanalysed, RecoverNext, world, budgets
<1>4. ASSUME NEW a \in Actors, Analyse(a) PROVE WorldType'
  BY <1>4 DEF Analyse, Measure, SaveResult, BeginPublish, CheckMarker, Rank,
              InsertSnapshot, Stamp, world, budgets
<1>5. CASE UNCHANGED vars
  BY <1>5 DEF vars, world, budgets
<1> QED
  BY <1>1, <1>2, <1>3, <1>4, <1>5 DEF Next

LEMMA RowsTypeStep == TypeOK /\ [Next]_vars => RowsType'
<1> SUFFICES ASSUME TypeOK, [Next]_vars PROVE RowsType'
  OBVIOUS
<1>1. CASE UNCHANGED frameRows
  BY <1>1 DEF TypeOK, RowsType, frameRows
<1>2. ASSUME NEW f \in Boundaries, Finalize(f) PROVE RowsType'
  BY <1>2, FinalizeType
<1>3. CASE OpenFrame
  BY <1>3 DEF OpenFrame, CreateBuilding, TypeOK, RowsType, WorldType,
              LoopType, frameRows, Boundaries
<1>4. CASE ResolveInterrupted
  BY <1>1, <1>2, <1>4 DEF ResolveInterrupted
<1>5. CASE FinalizeFrame
  <2>1. last \in Boundaries
    BY <1>5, BoundsAssumption DEF FinalizeFrame, TypeOK, LoopType, Boundaries
  <2> QED BY <1>2, <1>5, <2>1 DEF FinalizeFrame
<1>6. CASE World \/ Fault \/ Start \/ Recover
  BY <1>1, <1>6 DEF World, Tick, StepBack, ReconcileUniverse, StoreCandles,
     Fault, Crash, StartupFails, BuildFails, FindFails, AnalysisFails, Start,
     Recover, FindUnanalysed, RecoverNext
<1>7. CASE PickTarget \/ ReachBoundary \/ HookReturns
  BY <1>1, <1>7 DEF PickTarget, ReachBoundary, HookReturns
<1>8. ASSUME NEW a \in Actors, Analyse(a) PROVE RowsType'
  BY <1>1, <1>8 DEF Analyse, Measure, SaveResult, BeginPublish, CheckMarker,
     Rank, InsertSnapshot
<1>9. CASE UNCHANGED vars
  BY <1>1, <1>9 DEF vars
<1> QED
  BY <1>3, <1>4, <1>5, <1>6, <1>7, <1>8, <1>9 DEF Next, FrameLoop

LEMMA ResultsTypeStep == TypeOK /\ [Next]_vars => ResultsType'
<1> SUFFICES ASSUME TypeOK, [Next]_vars PROVE ResultsType'
  OBVIOUS
<1>1. CASE UNCHANGED <<results, snapshots>>
  BY <1>1 DEF TypeOK, ResultsType, results
<1>2. ASSUME NEW a \in Actors, SaveResult(a) PROVE ResultsType'
  BY <1>2 DEF SaveResult, TypeOK, ResultsType, WorkType, results, Actors
<1>3. ASSUME NEW a \in Actors, InsertSnapshot(a) PROVE ResultsType'
  <2>1. subject[a] \in Boundaries
    BY <1>3, BoundsAssumption DEF InsertSnapshot, TypeOK, WorkType, Boundaries
  <2>2. snapshots' \subseteq Snapshots
    BY <1>3, <2>1 DEF InsertSnapshot, TypeOK, ResultsType, WorkType, Snapshots
  <2> QED BY <1>3, <2>2 DEF InsertSnapshot, TypeOK, ResultsType, results
<1>4. CASE World \/ Fault \/ Start \/ ResolveInterrupted \/ FrameLoop \/ Recover
  BY <1>1, <1>4 DEF World, Tick, StepBack, ReconcileUniverse, StoreCandles,
     Fault, Crash, StartupFails, BuildFails, FindFails, AnalysisFails, Start,
     ResolveInterrupted, FrameLoop, PickTarget, ReachBoundary, OpenFrame,
     FinalizeFrame, HookReturns, Recover, FindUnanalysed, RecoverNext
<1>5. ASSUME NEW a \in Actors,
             Measure(a) \/ BeginPublish(a) \/ CheckMarker(a) \/ Rank(a)
      PROVE  ResultsType'
  BY <1>1, <1>5 DEF Measure, BeginPublish, CheckMarker, Rank
<1>6. CASE UNCHANGED vars
  BY <1>1, <1>6 DEF vars
<1> QED
  BY <1>2, <1>3, <1>4, <1>5, <1>6 DEF Next, Analyse

LEMMA LoopTypeStep == TypeOK /\ [Next]_vars => LoopType'
<1> SUFFICES ASSUME TypeOK, [Next]_vars PROVE LoopType'
  OBVIOUS
<1> USE BoundsAssumption DEF TypeOK, WorldType, LoopType, Boundaries,
        loopVars, recVars
<1>1. CASE World
  BY <1>1 DEF World, Tick, StepBack, ReconcileUniverse, StoreCandles
<1>2. CASE Fault
  <2>1. CASE Crash
    BY <2>1 DEF Crash
  <2>2. CASE StartupFails
    BY <2>2 DEF StartupFails
  <2>3. CASE BuildFails
    BY <2>3 DEF BuildFails
  <2>4. CASE FindFails
    BY <2>4 DEF FindFails
  <2>5. ASSUME NEW a \in Actors, AnalysisFails(a) PROVE LoopType'
    BY <2>5 DEF AnalysisFails
  <2> QED BY <1>2, <2>1, <2>2, <2>3, <2>4, <2>5 DEF Fault
<1>3. CASE Start \/ ResolveInterrupted \/ PickTarget
  <2>1. CASE Start
    BY <2>1 DEF Start
  <2>2. CASE ResolveInterrupted
    BY <2>2 DEF ResolveInterrupted
  <2>3. CASE PickTarget
    BY <2>3 DEF PickTarget
  <2> QED BY <1>3, <2>1, <2>2, <2>3
<1>4. CASE ReachBoundary \/ OpenFrame \/ FinalizeFrame \/ HookReturns
  <2>1. CASE ReachBoundary
    BY <2>1 DEF ReachBoundary
  <2>2. CASE OpenFrame
    BY <2>2 DEF OpenFrame
  <2>3. CASE FinalizeFrame
    BY <2>3 DEF FinalizeFrame
  <2>4. CASE HookReturns
    BY <2>4 DEF HookReturns
  <2> QED BY <1>4, <2>1, <2>2, <2>3, <2>4
<1>5. CASE Recover
  BY <1>5 DEF Recover, FindUnanalysed, Unanalysed, RecoverNext
<1>6. ASSUME NEW a \in Actors, Analyse(a) PROVE LoopType'
  BY <1>6 DEF Analyse, Measure, SaveResult, BeginPublish, CheckMarker, Rank,
              InsertSnapshot
<1>7. CASE UNCHANGED vars
  BY <1>7 DEF vars
<1> QED
  BY <1>1, <1>2, <1>3, <1>4, <1>5, <1>6, <1>7 DEF Next, FrameLoop

LEMMA WorkTypeStep == TypeOK /\ [Next]_vars => WorkType'
<1> SUFFICES ASSUME TypeOK, [Next]_vars PROVE WorkType'
  OBVIOUS
<1> USE BoundsAssumption DEF TypeOK, WorkType, Boundaries, Actors
<1>1. CASE UNCHANGED workVars
  BY <1>1 DEF workVars
<1>2. CASE Crash
  BY <1>2 DEF Crash
<1>3. CASE FinalizeFrame
  BY <1>3 DEF FinalizeFrame, LoopType
<1>4. CASE RecoverNext
  BY <1>4 DEF RecoverNext, LoopType
<1>5. ASSUME NEW a \in Actors, Return(a) PROVE WorkType'
  BY <1>5 DEF Return, GoTo
<1>6. ASSUME NEW a \in Actors, NEW l \in {"publish", "rank", "insert"},
             pc[a] # "idle", GoTo(a, l), UNCHANGED <<subject, taken>>,
             ranked' \in [Actors -> Nat]
      PROVE  WorkType'
  BY <1>6 DEF GoTo
<1>7. ASSUME NEW a \in Actors, NEW l \in {"save", "marker"},
             pc[a] # "idle", GoTo(a, l), Stamp(a), UNCHANGED <<subject, ranked>>
      PROVE  WorkType'
  BY <1>7 DEF GoTo, Stamp, WorldType
<1>8. ASSUME NEW a \in Actors, Measure(a) \/ BeginPublish(a) PROVE WorkType'
  BY <1>5, <1>7, <1>8 DEF Measure, BeginPublish
<1>9. ASSUME NEW a \in Actors, SaveResult(a) \/ CheckMarker(a) PROVE WorkType'
  BY <1>5, <1>6, <1>9 DEF SaveResult, CheckMarker
<1>10. ASSUME NEW a \in Actors, Rank(a) PROVE WorkType'
  <2>1. CASE IsNewest(subject[a])
    <3>1. ranked' \in [Actors -> Nat]
      BY <1>10, <2>1 DEF Rank, ResultsType
    <3> QED BY <1>6, <1>10, <2>1, <3>1 DEF Rank
  <2>2. CASE ~IsNewest(subject[a])
    BY <1>5, <1>10, <2>2 DEF Rank
  <2> QED BY <2>1, <2>2
<1>11. ASSUME NEW a \in Actors, InsertSnapshot(a) \/ AnalysisFails(a)
       PROVE  WorkType'
  BY <1>5, <1>11 DEF InsertSnapshot, AnalysisFails
<1>12. CASE World \/ StartupFails \/ BuildFails \/ FindFails \/ Start
            \/ ResolveInterrupted
  BY <1>1, <1>12 DEF World, Tick, StepBack, ReconcileUniverse, StoreCandles,
     StartupFails, BuildFails, FindFails, Start, ResolveInterrupted
<1>13. CASE PickTarget \/ ReachBoundary \/ OpenFrame \/ HookReturns
            \/ FindUnanalysed
  BY <1>1, <1>13 DEF PickTarget, ReachBoundary, OpenFrame, HookReturns,
     FindUnanalysed
<1>14. CASE UNCHANGED vars
  BY <1>1, <1>14 DEF vars
<1> QED
  BY <1>2, <1>3, <1>4, <1>8, <1>9, <1>10, <1>11, <1>12, <1>13, <1>14
  DEF Next, Fault, FrameLoop, Recover, Analyse

\* The state has the types it is declared with: every value the code stores,
\* or carries over an await, is one its readers can use.
THEOREM TypeCorrect == Spec => []TypeOK
<1>1. Init => TypeOK
  BY BoundsAssumption DEF Init, TypeOK, WorldType, RowsType, ResultsType,
     LoopType, WorkType, Boundaries, Actors, Terminal
<1>2. TypeOK /\ [Next]_vars => TypeOK'
  BY WorldTypeStep, RowsTypeStep, ResultsTypeStep, LoopTypeStep, WorkTypeStep
  DEF TypeOK
<1> QED
  BY <1>1, <1>2, PTL DEF Spec

-----------------------------------------------------------------------------
(* The ranking history is in order                                         *)

\* The frame rows under a step: a terminal row keeps its status and its
\* available instruments, and members are never fewer than the available.
LEMMA RowsStep ==
  ASSUME TypeOK, HeldFrames, [Next]_vars
  PROVE  /\ \A f \in Boundaries : available'[f] \subseteq members'[f]
         /\ \A f \in Boundaries : status[f] \in Terminal =>
              status'[f] = status[f] /\ available'[f] = available[f]
<1> USE DEF TypeOK, RowsType, HeldFrames
<1>1. CASE UNCHANGED frameRows
  BY <1>1 DEF frameRows
<1>2. ASSUME NEW f \in Boundaries, Finalize(f)
      PROVE  /\ \A g \in Boundaries : available'[g] \subseteq members'[g]
             /\ \A g \in Boundaries : status[g] \in Terminal =>
                  status'[g] = status[g] /\ available'[g] = available[g]
  <2>1. \A g \in Boundaries : members'[g] =
           IF g = f THEN members[g] \cup MemberRows(f) ELSE members[g]
    BY <1>2 DEF Finalize
  <2>2. CASE status[f] = "building"
    <3>1. \A g \in Boundaries : available'[g] =
             IF g = f THEN MemberRows(f) ELSE available[g]
      BY <1>2, <2>2 DEF Finalize
    <3>2. \A g \in Boundaries : g # f => status'[g] = status[g]
      BY <1>2, <2>2 DEF Finalize
    <3>3. status[f] \notin Terminal
      BY <2>2 DEF Terminal
    <3> QED BY <2>1, <3>1, <3>2, <3>3
  <2>3. CASE status[f] # "building"
    BY <1>2, <2>1, <2>3 DEF Finalize
  <2> QED BY <2>2, <2>3
<1>3. CASE OpenFrame
  BY <1>3 DEF OpenFrame, CreateBuilding, frameRows, Terminal
<1>4. CASE ResolveInterrupted
  BY <1>1, <1>2, <1>4 DEF ResolveInterrupted
<1>5. CASE FinalizeFrame
  <2>1. last \in Boundaries
    BY <1>5, BoundsAssumption DEF FinalizeFrame, LoopType, Boundaries
  <2> QED BY <1>2, <1>5, <2>1 DEF FinalizeFrame
<1>6. CASE World \/ Fault \/ Start \/ Recover
  BY <1>1, <1>6 DEF World, Tick, StepBack, ReconcileUniverse, StoreCandles,
     Fault, Crash, StartupFails, BuildFails, FindFails, AnalysisFails, Start,
     Recover, FindUnanalysed, RecoverNext
<1>7. CASE PickTarget \/ ReachBoundary \/ HookReturns
  BY <1>1, <1>7 DEF PickTarget, ReachBoundary, HookReturns
<1>8. ASSUME NEW a \in Actors, Analyse(a) PROVE UNCHANGED frameRows
  BY <1>8 DEF Analyse, Measure, SaveResult, BeginPublish, CheckMarker,
     Rank, InsertSnapshot
<1>9. CASE UNCHANGED vars
  BY <1>1, <1>9 DEF vars
<1> QED
  BY <1>1, <1>3, <1>4, <1>5, <1>6, <1>7, <1>8, <1>9 DEF Next, FrameLoop

\* The steps of the rest of the system leave the analyses alone, and only a
\* correction of the clock moves the timestamps back.
Elsewhere ==
  /\ UNCHANGED <<workVars, results, snapshots>>
  /\ stamp' = stamp \/ StepBack

LEMMA WorkStep ==
  ASSUME TypeOK, [Next]_vars
  PROVE  \/ Elsewhere
         \/ Crash \/ FinalizeFrame \/ RecoverNext
         \/ \E a \in Actors : Analyse(a) \/ AnalysisFails(a)
<1> USE DEF Elsewhere
<1>1. CASE World \/ StartupFails \/ BuildFails \/ FindFails \/ Start
  BY <1>1 DEF World, Tick, StepBack, ReconcileUniverse, StoreCandles,
     StartupFails, BuildFails, FindFails, Start, world
<1>2. CASE ResolveInterrupted \/ FindUnanalysed
  BY <1>2 DEF ResolveInterrupted, FindUnanalysed, world
<1>3. CASE PickTarget \/ ReachBoundary \/ OpenFrame \/ HookReturns
  BY <1>3 DEF PickTarget, ReachBoundary, OpenFrame, HookReturns, world
<1>4. CASE UNCHANGED vars
  BY <1>4 DEF vars, world
<1> QED
  BY <1>1, <1>2, <1>3, <1>4 DEF Next, Fault, FrameLoop, Recover

\* What an analysis leaves of the actors: the others as they were, its own
\* with the frame it had, or idle.
LEMMA AnalyseLeaves ==
  ASSUME TypeOK, [Next]_vars, NEW a \in Actors, Analyse(a) \/ AnalysisFails(a)
  PROVE  /\ UNCHANGED <<now, stepBacks, loopVars, recVars>> /\ stamp <= stamp'
         /\ pc[a] # "idle"
         /\ \A b \in Actors : b # a => /\ pc'[b] = pc[b] /\ subject'[b] = subject[b]
                                       /\ taken'[b] = taken[b] /\ ranked'[b] = ranked[b]
         /\ pc'[a] # "idle" => subject'[a] = subject[a]
         /\ pc'[a] \in {"measure", "save"} => pc[a] = "measure" /\ analyzedAt' = analyzedAt
<1> USE DEF TypeOK, WorkType, WorldType
<1>1. CASE Measure(a)
  BY <1>1 DEF Measure, Return, GoTo, Stamp, budgets, results
<1>2. CASE SaveResult(a) \/ BeginPublish(a)
  BY <1>2 DEF SaveResult, BeginPublish, GoTo, Stamp, budgets, world
<1>3. CASE CheckMarker(a) \/ Rank(a)
  BY <1>3 DEF CheckMarker, Rank, Return, GoTo, budgets, world
<1>4. CASE InsertSnapshot(a) \/ AnalysisFails(a)
  BY <1>4 DEF InsertSnapshot, AnalysisFails, Error, Return, GoTo, budgets, world
<1> QED
  BY <1>1, <1>2, <1>3, <1>4 DEF Analyse

LEMMA StepBacksGrow ==
  ASSUME TypeOK, [Next]_vars, stepBacks' = 0
  PROVE  stepBacks = 0
<1>1. stepBacks \in Nat
  BY DEF TypeOK, WorldType
<1>2. CASE World
  BY <1>1, <1>2 DEF World, Tick, StepBack, ReconcileUniverse, StoreCandles, budgets
<1>3. CASE Fault
  BY <1>3 DEF Fault, Crash, StartupFails, BuildFails, FindFails, AnalysisFails, Error
<1>4. CASE Start \/ ResolveInterrupted \/ FrameLoop \/ Recover
  BY <1>4 DEF Start, ResolveInterrupted, FrameLoop, PickTarget, ReachBoundary, OpenFrame,
     FinalizeFrame, HookReturns, Recover, FindUnanalysed, RecoverNext, budgets
<1>5. ASSUME NEW a \in Actors, Analyse(a) PROVE stepBacks' = stepBacks
  BY <1>5, AnalyseLeaves
<1>6. CASE UNCHANGED vars
  BY <1>6 DEF vars, budgets
<1> QED
  BY <1>2, <1>3, <1>4, <1>5, <1>6 DEF Next

LEMMA MissingStep ==
  ASSUME TypeOK, HeldFrames, [Next]_vars
  PROVE  missing' \subseteq missing \/ missing' \subseteq Unanalysed
<1>1. CASE FindUnanalysed
  BY <1>1 DEF FindUnanalysed
<1>2. CASE RecoverNext \/ Crash \/ FindFails \/ ResolveInterrupted
  BY <1>2 DEF RecoverNext, Crash, FindFails, ResolveInterrupted
<1>3. CASE World \/ StartupFails \/ BuildFails \/ Start \/ FrameLoop
  BY <1>3 DEF World, Tick, StepBack, ReconcileUniverse, StoreCandles,
     StartupFails, BuildFails, Start, FrameLoop, PickTarget, ReachBoundary,
     OpenFrame, FinalizeFrame, HookReturns, recVars
<1>4. ASSUME NEW a \in Actors, Analyse(a) \/ AnalysisFails(a)
      PROVE  missing' = missing
  BY <1>4 DEF Analyse, AnalysisFails, Measure, SaveResult, BeginPublish,
     CheckMarker, Rank, InsertSnapshot, recVars
<1>5. CASE UNCHANGED vars
  BY <1>5 DEF vars, recVars
<1> QED
  BY <1>1, <1>2, <1>3, <1>4, <1>5 DEF Next, Fault, Recover

LEMMA HeldFramesStep == TypeOK /\ HeldFrames /\ [Next]_vars => HeldFrames'
<1> SUFFICES ASSUME TypeOK, HeldFrames, [Next]_vars PROVE HeldFrames'
  OBVIOUS
<1>1. /\ \A f \in Boundaries : available'[f] \subseteq members'[f]
      /\ \A f \in Boundaries : status[f] \in Terminal =>
           status'[f] = status[f] /\ available'[f] = available[f]
  BY RowsStep
<1>2. \A f \in Boundaries : Recoverable(f) => Recoverable(f)'
  BY <1>1 DEF Recoverable
<1>3. \A f \in missing' : Recoverable(f)'
  BY <1>2, MissingStep DEF HeldFrames, Recoverable, Unanalysed, TypeOK, LoopType
<1>4. \A a \in Actors : pc[a] # "idle" => subject[a] \in Boundaries
  BY BoundsAssumption DEF TypeOK, WorkType, Boundaries
<1>5. "recovery" \in Actors /\ "live" \in Actors /\ "recovery" # "live"
  BY DEF Actors
<1>6. HeldWork'
  <2> USE DEF TypeOK, WorkType, HeldFrames, HeldWork, Recoverable
  <2>1. CASE UNCHANGED <<pc, subject>>
    BY <1>1, <1>2, <1>4, <1>5, <2>1
  <2>2. CASE Crash
    BY <1>5, <2>2 DEF Crash
  <2>3. CASE FinalizeFrame
    <3>1. pc'["recovery"] = pc["recovery"] /\ subject'["recovery"] = subject["recovery"]
      BY <1>5, <2>3 DEF FinalizeFrame
    <3>2. (pc' = pc /\ subject' = subject) \/ pc'["live"] = "measure"
      BY <1>5, <2>3 DEF FinalizeFrame
    <3>3. \A a \in Actors : a = "recovery" \/ a = "live"
      BY DEF Actors
    <3> QED BY <1>1, <1>2, <1>4, <1>5, <3>1, <3>2, <3>3
  <2>4. CASE RecoverNext
    <3>1. PICK f \in missing : /\ pc' = [pc EXCEPT !["recovery"] = "measure"]
                               /\ subject' = [subject EXCEPT !["recovery"] = f]
      BY <2>4 DEF RecoverNext
    <3>2. f \in Boundaries
      BY DEF LoopType
    <3>3. pc'["recovery"] = "measure" /\ subject'["recovery"] = f
      BY <1>5, <3>1
    <3>4. \A a \in Actors : a # "recovery" => pc'[a] = pc[a] /\ subject'[a] = subject[a]
      BY <3>1
    <3> QED BY <1>1, <1>2, <1>4, <3>2, <3>3, <3>4
  <2>5. ASSUME NEW b \in Actors, Return(b) PROVE HeldWork'
    <3>1. pc'[b] = "idle"
      BY <2>5 DEF Return, GoTo
    <3>2. \A a \in Actors : a # b => pc'[a] = pc[a] /\ subject'[a] = subject[a]
      BY <2>5 DEF Return, GoTo
    <3> QED BY <1>1, <1>2, <1>4, <1>5, <3>1, <3>2
  <2>6. ASSUME NEW b \in Actors, NEW l, GoTo(b, l), subject' = subject,
               pc[b] # "idle", status[subject[b]] \in Terminal
        PROVE  HeldWork'
    <3>1. \A a \in Actors : a # b => pc'[a] = pc[a]
      BY <2>6 DEF GoTo
    <3> QED BY <1>1, <1>2, <1>4, <1>5, <2>6, <3>1
  <2>7. ASSUME NEW b \in Actors, Measure(b) PROVE HeldWork'
    BY <2>5, <2>6, <2>7 DEF Measure
  <2>8. ASSUME NEW b \in Actors, SaveResult(b) \/ BeginPublish(b) PROVE HeldWork'
    BY <2>6, <2>8 DEF SaveResult, BeginPublish
  <2>9. ASSUME NEW b \in Actors, CheckMarker(b) \/ Rank(b) PROVE HeldWork'
    BY <2>5, <2>6, <2>9 DEF CheckMarker, Rank
  <2>10. ASSUME NEW b \in Actors, InsertSnapshot(b) \/ AnalysisFails(b) PROVE HeldWork'
    BY <2>5, <2>10 DEF InsertSnapshot, AnalysisFails
  <2> QED
    BY <2>1, <2>2, <2>3, <2>4, <2>7, <2>8, <2>9, <2>10, WorkStep
    DEF Elsewhere, workVars, Analyse
<1> QED
  BY <1>1, <1>3, <1>6 DEF HeldFrames, Recoverable

\* An analysis that ends, and one that moves on, change nothing of the others.
LEMMA ReturnFrame ==
  ASSUME WorkType, NEW b \in Actors, Return(b)
  PROVE  /\ pc'[b] = "idle"
         /\ \A a \in Actors : a # b => /\ pc'[a] = pc[a]
                                      /\ subject'[a] = subject[a]
                                      /\ taken'[a] = taken[a]
BY DEF Return, GoTo, WorkType

LEMMA HeldResultsStep ==
  TypeOK /\ HeldFrames /\ HeldResults /\ HeldStamps /\ [Next]_vars => HeldResults'
<1> SUFFICES ASSUME TypeOK, HeldFrames, HeldResults, HeldStamps, [Next]_vars
             PROVE  HeldResults'
  OBVIOUS
<1>1. \A f \in Boundaries : status[f] \in Terminal => available'[f] = available[f]
  BY RowsStep
<1>2. \A a \in Actors : pc[a] # "idle" => subject[a] \in Boundaries
  BY BoundsAssumption DEF TypeOK, WorkType, Boundaries
<1>3. \A a \in Actors : pc[a] = "publish" \/ Publishing(a) =>
        available'[subject[a]] = available[subject[a]]
  BY <1>1, <1>2 DEF HeldFrames, HeldWork, Publishing
<1> USE DEF TypeOK, WorkType, HeldResults, Publishing, Analysed
<1>4. CASE Elsewhere
  BY <1>3, <1>4 DEF Elsewhere, workVars, results
<1>5. CASE Crash
  BY <1>5 DEF Crash, results
<1>6. CASE FinalizeFrame
  BY <1>3, <1>6 DEF FinalizeFrame, results, Actors
<1>7. CASE RecoverNext
  <2>1. PICK f \in missing : /\ pc' = [pc EXCEPT !["recovery"] = "measure"]
                             /\ subject' = [subject EXCEPT !["recovery"] = f]
    BY <1>7 DEF RecoverNext
  <2>2. UNCHANGED <<analyzedAt, snapshots>>
    BY <1>7 DEF RecoverNext, results
  <2> QED BY <1>3, <2>1, <2>2 DEF Actors
<1>8. ASSUME NEW b \in Actors, Return(b), UNCHANGED <<analyzedAt, snapshots>>
      PROVE  HeldResults'
  BY <1>3, <1>8, ReturnFrame
<1>9. ASSUME NEW b \in Actors, Measure(b) PROVE HeldResults'
  <2>1. CASE status[subject[b]] \in Terminal
    BY <1>3, <1>9, <2>1 DEF Measure, GoTo, results
  <2>2. CASE status[subject[b]] \notin Terminal
    BY <1>8, <1>9, <2>2 DEF Measure, results
  <2> QED BY <2>1, <2>2
<1>10. ASSUME NEW b \in Actors, SaveResult(b) PROVE HeldResults'
  <2>1. subject[b] \in Boundaries /\ taken[b] # 0
    BY <1>2, <1>10 DEF SaveResult, HeldStamps
  <2>2. \A f \in Boundaries : Analysed(f) => analyzedAt'[f] # 0
    BY <1>10, <2>1 DEF SaveResult, results, ResultsType
  <2>3. \/ analyzedAt'[subject[b]] # 0
        \/ b = "live" /\ available[subject[b]] = {}
    <3>1. CASE members[subject[b]] # {}
      <4>1. analyzedAt' = [analyzedAt EXCEPT ![subject[b]] = taken[b]]
        BY <1>10, <3>1 DEF SaveResult
      <4> QED BY <2>1, <4>1 DEF ResultsType
    <3>2. CASE members[subject[b]] = {}
      <4>1. available[subject[b]] = {}
        BY <2>1, <3>2 DEF HeldFrames
      <4>2. b # "recovery"
        <5>1. pc[b] = "save"
          BY <1>10 DEF SaveResult
        <5>2. pc["recovery"] # "idle" => available[subject["recovery"]] # {}
          BY DEF HeldFrames, HeldWork, Recoverable
        <5> QED BY <4>1, <5>1, <5>2
      <4> QED BY <4>1, <4>2 DEF Actors
    <3> QED BY <3>1, <3>2
  <2>4. available' = available
    BY <1>10 DEF SaveResult, frameRows
  <2>5. /\ subject' = subject /\ snapshots' = snapshots
        /\ pc' = [pc EXCEPT ![b] = "publish"]
    BY <1>10 DEF SaveResult, GoTo
  <2>6. \A s \in snapshots : s.frame \in Boundaries
    BY DEF ResultsType, Snapshots
  <2> QED BY <1>2, <2>2, <2>3, <2>4, <2>5, <2>6
<1>11. ASSUME NEW b \in Actors, BeginPublish(b) PROVE HeldResults'
  BY <1>3, <1>11 DEF BeginPublish, GoTo, results
<1>12. ASSUME NEW b \in Actors, CheckMarker(b) PROVE HeldResults'
  <2>1. CASE IsNewest(subject[b])
    BY <1>3, <1>12, <2>1 DEF CheckMarker, GoTo, results
  <2>2. CASE ~IsNewest(subject[b])
    BY <1>8, <1>12, <2>2 DEF CheckMarker, results
  <2> QED BY <2>1, <2>2
<1>13. ASSUME NEW b \in Actors, Rank(b) PROVE HeldResults'
  <2>1. CASE IsNewest(subject[b])
    <3>1. Analysed(subject[b])
      BY <2>1 DEF IsNewest
    <3> QED BY <1>3, <1>13, <2>1, <3>1 DEF Rank, GoTo, results
  <2>2. CASE ~IsNewest(subject[b])
    BY <1>8, <1>13, <2>2 DEF Rank, results
  <2> QED BY <2>1, <2>2
<1>14. ASSUME NEW b \in Actors, InsertSnapshot(b) PROVE HeldResults'
  <2>1. \A s \in snapshots' : s \in snapshots \/ s.frame = subject[b]
    BY <1>14 DEF InsertSnapshot
  <2>2. analyzedAt' = analyzedAt /\ Analysed(subject[b])
    BY <1>14 DEF InsertSnapshot, results
  <2> QED BY <1>3, <1>14, <2>1, <2>2, ReturnFrame DEF InsertSnapshot
<1>15. ASSUME NEW b \in Actors, AnalysisFails(b) PROVE HeldResults'
  BY <1>8, <1>15 DEF AnalysisFails, results
<1> QED
  BY <1>4, <1>5, <1>6, <1>7, <1>9, <1>10, <1>11, <1>12, <1>13, <1>14, <1>15,
     WorkStep DEF Analyse

LEMMA HeldStampsStep == TypeOK /\ HeldStamps /\ [Next]_vars => HeldStamps'
<1> SUFFICES ASSUME TypeOK, HeldStamps, [Next]_vars PROVE HeldStamps'
  OBVIOUS
<1>0. stepBacks' = 0 => stepBacks = 0
  BY StepBacksGrow
<1> USE DEF TypeOK, WorldType, WorkType, HeldStamps
<1>1. CASE Elsewhere
  <2>1. stepBacks' = 0 => stamp' = stamp
    BY <1>1 DEF Elsewhere, StepBack
  <2> QED BY <1>0, <1>1, <2>1 DEF Elsewhere, workVars
<1>2. CASE Crash
  BY <1>0, <1>2 DEF Crash, world
<1>3. CASE FinalizeFrame
  BY <1>0, <1>3 DEF FinalizeFrame, world
<1>4. CASE RecoverNext
  BY <1>0, <1>4 DEF RecoverNext, world
<1>5. ASSUME NEW b \in Actors, Return(b), UNCHANGED <<stamp, snapshots>>
      PROVE  HeldStamps'
  BY <1>0, <1>5 DEF Return, GoTo
<1>6. ASSUME NEW b \in Actors, NEW l \in {"save", "marker"}, GoTo(b, l), Stamp(b),
             UNCHANGED snapshots
      PROVE  HeldStamps'
  <2>1. \A s \in snapshots : s.published \in Nat
    BY DEF ResultsType, Snapshots
  <2> QED BY <1>0, <1>6, <2>1 DEF GoTo, Stamp
<1>7. ASSUME NEW b \in Actors, Measure(b) \/ BeginPublish(b) PROVE HeldStamps'
  BY <1>5, <1>6, <1>7 DEF Measure, BeginPublish
<1>8. ASSUME NEW b \in Actors, SaveResult(b) PROVE HeldStamps'
  BY <1>0, <1>8 DEF SaveResult, GoTo, world
<1>9. ASSUME NEW b \in Actors, CheckMarker(b) \/ Rank(b) PROVE HeldStamps'
  BY <1>0, <1>5, <1>9 DEF CheckMarker, Rank, GoTo, world
<1>10. ASSUME NEW b \in Actors, InsertSnapshot(b) PROVE HeldStamps'
  <2>1. \A s \in snapshots' : s \in snapshots \/ s.published = taken[b]
    BY <1>10 DEF InsertSnapshot
  <2>2. stamp' = stamp /\ Return(b)
    BY <1>10 DEF InsertSnapshot, world
  <2> QED BY <1>0, <2>1, <2>2 DEF Return, GoTo
<1>11. ASSUME NEW b \in Actors, AnalysisFails(b) PROVE HeldStamps'
  BY <1>5, <1>11 DEF AnalysisFails, world
<1> QED
  BY <1>1, <1>2, <1>3, <1>4, <1>7, <1>8, <1>9, <1>10, <1>11, WorkStep
  DEF Analyse

\* A frame with results is never newer than the newest one.
LEMMA NewestIsLast ==
  ASSUME NEW f \in Boundaries, NEW g \in Boundaries, IsNewest(f), Analysed(g)
  PROVE  ~(f < g)
<1>1. g <= f /\ f \in Int /\ g \in Int
  BY BoundsAssumption DEF IsNewest, Boundaries
<1> QED BY <1>1

LEMMA PlacesStep ==
  TypeOK /\ OrderInv /\ [Next]_vars => PlacesInOrder'
<1> SUFFICES ASSUME TypeOK, OrderInv, [Next]_vars, stepBacks' = 0 PROVE Places'
  BY DEF PlacesInOrder
<1>0. stepBacks = 0 /\ Places
  BY StepBacksGrow DEF OrderInv, PlacesInOrder
<1>1. \A a \in Actors : pc[a] # "idle" => subject[a] \in Boundaries
  BY BoundsAssumption DEF TypeOK, WorkType, Boundaries
<1>2. \A s \in snapshots : s.frame \in Boundaries /\ Analysed(s.frame)
  BY DEF TypeOK, ResultsType, Snapshots, OrderInv, HeldResults
<1> USE DEF TypeOK, WorkType, OrderInv, Places, InOrder, Publishing
<1> USE <1>0
<1>3. CASE Elsewhere
  BY <1>3 DEF Elsewhere, workVars, results, Analysed
<1>4. CASE Crash
  BY <1>4 DEF Crash
<1>5. CASE FinalizeFrame
  BY <1>5 DEF FinalizeFrame, Actors, results, Analysed
<1>6. CASE RecoverNext
  <2>1. PICK f \in missing : /\ pc' = [pc EXCEPT !["recovery"] = "measure"]
                             /\ subject' = [subject EXCEPT !["recovery"] = f]
    BY <1>6 DEF RecoverNext
  <2>2. UNCHANGED <<analyzedAt, snapshots, taken>>
    BY <1>6 DEF RecoverNext, results
  <2> QED BY <2>1, <2>2 DEF Actors, Analysed
<1>7. ASSUME NEW b \in Actors, Return(b), UNCHANGED <<analyzedAt, snapshots>>
      PROVE  Places'
  BY <1>7, ReturnFrame DEF Analysed
<1>8. ASSUME NEW b \in Actors, Measure(b) PROVE Places'
  <2>1. CASE status[subject[b]] \in Terminal
    BY <1>8, <2>1 DEF Measure, GoTo, Stamp, results, Analysed
  <2>2. CASE status[subject[b]] \notin Terminal
    BY <1>7, <1>8, <2>2 DEF Measure, results
  <2> QED BY <2>1, <2>2
\* Storing results makes no frame under publication newly analysed: only the
\* recovery could, and it never holds a frame without available instruments.
<1>9. ASSUME NEW b \in Actors, SaveResult(b) PROVE Places'
  <2>1. /\ subject' = subject /\ taken' = taken /\ snapshots' = snapshots
        /\ pc' = [pc EXCEPT ![b] = "publish"] /\ pc[b] = "save"
    BY <1>9 DEF SaveResult, GoTo
  <2>2. ASSUME NEW a \in Actors, Publishing(a), Analysed(subject[a])'
        PROVE  Analysed(subject[a])
    <3>1. CASE subject[a] # subject[b] \/ members[subject[b]] = {}
      BY <1>1, <1>9, <2>1, <2>2, <3>1 DEF SaveResult, results, Analysed, ResultsType
    <3>2. CASE subject[a] = subject[b] /\ members[subject[b]] # {}
      <4>1. a # b
        BY <2>1, <2>2
      <4>2. CASE a = "recovery"
        BY <2>2, <4>2 DEF HeldResults
      <4>3. CASE a = "live"
        <5>1. b = "recovery"
          BY <4>1, <4>3 DEF Actors
        <5>2. available[subject[b]] # {}
          BY <2>1, <5>1 DEF HeldFrames, HeldWork, Recoverable
        <5> QED BY <2>2, <3>2, <5>2 DEF HeldResults
      <4> QED BY <4>2, <4>3 DEF Actors
    <3> QED BY <3>1, <3>2
  <2> QED BY <2>1, <2>2
<1>10. ASSUME NEW b \in Actors, BeginPublish(b) PROVE Places'
  <2>1. /\ subject' = subject /\ snapshots' = snapshots /\ analyzedAt' = analyzedAt
        /\ pc' = [pc EXCEPT ![b] = "marker"]
        /\ taken' = [taken EXCEPT ![b] = stamp + 1]
    BY <1>10 DEF BeginPublish, GoTo, Stamp, results
  <2>2. \A a \in Actors : taken[a] < stamp + 1
    BY DEF HeldStamps, WorldType
  <2>3. \A s \in snapshots : s.published < stamp + 1
    BY DEF HeldStamps, WorldType, ResultsType, Snapshots
  <2> QED BY <2>1, <2>2, <2>3 DEF Analysed
<1>11. ASSUME NEW b \in Actors, CheckMarker(b) PROVE Places'
  <2>1. CASE IsNewest(subject[b])
    BY <1>11, <2>1 DEF CheckMarker, GoTo, results, Analysed
  <2>2. CASE ~IsNewest(subject[b])
    BY <1>7, <1>11, <2>2 DEF CheckMarker, results
  <2> QED BY <2>1, <2>2
\* The re-read is the point at which a publication takes its place: no later
\* frame has results yet.
<1>12. ASSUME NEW b \in Actors, Rank(b) PROVE Places'
  <2>1. CASE IsNewest(subject[b])
    <3>1. /\ subject' = subject /\ taken' = taken /\ snapshots' = snapshots
          /\ analyzedAt' = analyzedAt /\ pc' = [pc EXCEPT ![b] = "insert"]
          /\ pc[b] = "rank"
      BY <1>12, <2>1 DEF Rank, GoTo, results
    <3>2. subject[b] \in Boundaries
      BY <1>1, <3>1
    <3>3. \A s \in snapshots : ~(subject[b] < s.frame)
      BY <1>2, <2>1, <3>2, NewestIsLast
    <3>4. \A a \in Actors : Publishing(a) /\ Analysed(subject[a]) =>
                             ~(subject[b] < subject[a])
      BY <1>1, <2>1, <3>2, NewestIsLast
    <3>5. Publishing(b) /\ Analysed(subject[b])
      BY <2>1, <3>1 DEF IsNewest
    <3> QED BY <3>1, <3>3, <3>4, <3>5 DEF Analysed
  <2>2. CASE ~IsNewest(subject[b])
    BY <1>7, <1>12, <2>2 DEF Rank, results
  <2> QED BY <2>1, <2>2
<1>13. ASSUME NEW b \in Actors, InsertSnapshot(b) PROVE Places'
  <2>1. \A s \in snapshots' : \/ s \in snapshots
                              \/ s.frame = subject[b] /\ s.published = taken[b]
    BY <1>13 DEF InsertSnapshot
  <2>2. Return(b) /\ analyzedAt' = analyzedAt /\ pc[b] = "insert"
    BY <1>13 DEF InsertSnapshot, results
  <2>3. Publishing(b) /\ Analysed(subject[b])
    BY <2>2 DEF HeldResults
  <2>4. ~(subject[b] < subject[b])
    BY <1>1, <2>2, BoundsAssumption DEF Boundaries
  <2> QED BY <2>1, <2>2, <2>3, <2>4, ReturnFrame DEF Analysed
<1>14. ASSUME NEW b \in Actors, AnalysisFails(b) PROVE Places'
  BY <1>7, <1>14 DEF AnalysisFails, results
<1> QED
  BY <1>3, <1>4, <1>5, <1>6, <1>8, <1>9, <1>10, <1>11, <1>12, <1>13, <1>14,
     WorkStep DEF Analyse

LEMMA OrderInvariant == Spec => []OrderInv
<1>1. Init => OrderInv
  BY DEF Init, OrderInv, HeldFrames, HeldWork, HeldResults, HeldStamps,
     PlacesInOrder, Places, InOrder, Publishing, Actors
<1>2. TypeOK /\ OrderInv /\ [Next]_vars => OrderInv'
  BY HeldFramesStep, HeldResultsStep, HeldStampsStep, PlacesStep DEF OrderInv
<1> QED
  BY <1>1, <1>2, TypeCorrect, PTL DEF Spec

\* While the clock has not been set back, rankings are published in the order
\* of their frames, whatever the crashes, the errors and the interleavings of
\* the live loop with the startup recovery: RankingPublisher.publish reads
\* published_at before it checks, twice, that its frame is the newest
\* analysed one. (published_at is a reading of the wall clock: after a
\* correction the recorded times need not be in order.)
THEOREM PublicationOrder == Spec => []PublishedInOrder
<1>1. OrderInv => PublishedInOrder
  BY DEF OrderInv, PlacesInOrder, Places, PublishedInOrder
<1> QED
  BY <1>1, OrderInvariant, PTL

-----------------------------------------------------------------------------
(* The frames are a log of write-once observations                         *)

\* What finalizing a BUILDING frame does to the rows.
LEMMA FinalizeBuilding ==
  ASSUME TypeOK, LogInv, NEW f \in Boundaries, status[f] = "building", Finalize(f)
  PROVE  /\ status' = [status EXCEPT ![f] =
                IF MemberRows(f) = expected[f] THEN "complete" ELSE "partial"]
         /\ members' = [members EXCEPT ![f] = MemberRows(f)]
         /\ expected' = expected
<1>1. members[f] = {}
  BY DEF LogInv, Terminal
<1> QED
  BY <1>1 DEF Finalize, TypeOK, RowsType

LEMMA LogInvRows ==
  ASSUME TypeOK, LogInv, NEW f \in Boundaries, status[f] = "building", Finalize(f)
  PROVE  /\ \A g \in Boundaries : Opened(g)' <=> Opened(g)
         /\ \A g \in Boundaries : status'[g] \notin Terminal => members'[g] = {}
<1>1. status'[f] \in Terminal /\ \A g \in Boundaries : g # f => status'[g] = status[g]
  BY FinalizeBuilding DEF TypeOK, RowsType, Terminal
<1>2. \A g \in Boundaries : g # f => members'[g] = members[g]
  BY FinalizeBuilding DEF TypeOK, RowsType
<1> QED
  BY <1>1, <1>2 DEF LogInv, Opened, Terminal

LEMMA LogInvStep ==
  ASSUME MaxStepBacks = 0
  PROVE  TypeOK /\ LogInv /\ [Next]_vars => LogInv'
<1> SUFFICES ASSUME TypeOK, LogInv, [Next]_vars PROVE LogInv'
  OBVIOUS
<1> USE BoundsAssumption
<1>1. /\ now \in Int /\ last \in Int /\ target \in Int
      /\ \A f \in Boundaries : f \in Int
  BY DEF TypeOK, WorldType, LoopType, Boundaries
<1>2. CASE UNCHANGED <<now, stepBacks, frameRows, loopVars>>
  BY <1>2 DEF LogInv, Opened, frameRows, loopVars
<1>3. CASE Tick
  BY <1>1, <1>3 DEF Tick, LogInv, Opened, budgets, frameRows, loopVars
<1>4. CASE StepBack
  BY <1>4 DEF StepBack, LogInv
<1>5. CASE ReconcileUniverse \/ StoreCandles \/ FindFails \/ FindUnanalysed \/ RecoverNext
  BY <1>2, <1>5 DEF ReconcileUniverse, StoreCandles, FindFails, FindUnanalysed,
     RecoverNext, Error, world, budgets
<1>6. ASSUME NEW a \in Actors, Analyse(a) \/ AnalysisFails(a) PROVE LogInv'
  BY <1>2, <1>6 DEF Analyse, Measure, SaveResult, BeginPublish, CheckMarker,
     Rank, InsertSnapshot, AnalysisFails, Error, world, budgets
<1>7. CASE Crash
  BY <1>1, <1>7 DEF Crash, LogInv, Opened, world, frameRows, TypeOK, WorldType, Boundaries
<1>8. CASE StartupFails \/ Start
  BY <1>8 DEF StartupFails, Start, Error, LogInv, Opened, world, budgets, frameRows
<1>9. CASE BuildFails \/ HookReturns
  BY <1>9 DEF BuildFails, HookReturns, Error, LogInv, Opened, world, budgets, frameRows
<1>10. CASE ResolveInterrupted
  <2>1. /\ now' = now /\ stepBacks' = stepBacks /\ UNCHANGED <<loop, target, last>>
        /\ loop = "pick"
    BY <1>10 DEF ResolveInterrupted, LogInv, world, budgets
  <2>2. CASE UNCHANGED frameRows
    BY <2>1, <2>2 DEF LogInv, Opened, frameRows
  <2>3. ASSUME NEW f \in Boundaries, status[f] = "building", Finalize(f)
        PROVE  LogInv'
    BY <2>1, <2>3, LogInvRows DEF LogInv
  <2> QED BY <1>10, <2>2, <2>3 DEF ResolveInterrupted
<1>11. CASE PickTarget
  <2>1. target' = now + 1
    BY <1>1, <1>11 DEF PickTarget, LogInv
  <2> QED BY <1>1, <1>11, <2>1 DEF PickTarget, LogInv, Opened, world, budgets, frameRows
<1>12. CASE ReachBoundary
  BY <1>1, <1>12 DEF ReachBoundary, LogInv, Opened, world, budgets, frameRows
<1>13. CASE OpenFrame
  <2>1. last \in Boundaries /\ status[last] = "absent"
    BY <1>1, <1>13 DEF OpenFrame, LogInv, Opened, TypeOK, LoopType, Boundaries
  <2>2. status' = [status EXCEPT ![last] = "building"] /\ members' = members
    BY <1>13, <2>1 DEF OpenFrame, CreateBuilding
  <2>3. status'[last] = "building" /\ \A f \in Boundaries : f # last => status'[f] = status[f]
    BY <2>1, <2>2 DEF TypeOK, RowsType
  <2> QED
    BY <1>1, <1>13, <2>1, <2>2, <2>3
    DEF OpenFrame, LogInv, Opened, world, budgets, Terminal
<1>14. CASE FinalizeFrame
  <2>1. last \in Boundaries /\ status[last] = "building" /\ Finalize(last)
    BY <1>1, <1>14 DEF FinalizeFrame, LogInv, TypeOK, LoopType, Boundaries
  <2>2. loop' = "hook" /\ UNCHANGED <<now, stepBacks, proc, target, last>> /\ proc = "running"
    BY <1>14, <2>1 DEF FinalizeFrame, world, budgets
  <2> QED BY <2>1, <2>2, LogInvRows DEF LogInv
<1>15. CASE UNCHANGED vars
  BY <1>2, <1>15 DEF vars, world, budgets
<1> QED
  BY <1>3, <1>4, <1>5, <1>6, <1>7, <1>8, <1>9, <1>10, <1>11, <1>12, <1>13,
     <1>14, <1>15 DEF Next, World, Fault, FrameLoop, Recover

LEMMA LogStep ==
  ASSUME TypeOK, LogInv, [Next]_vars
  PROVE  [Log!Step]_(Log!vars)
<1> USE DEF Log!Step, Log!vars, Log!Times, Boundaries
<1>1. CASE UNCHANGED frameRows
  BY <1>1 DEF frameRows
<1>2. ASSUME NEW f \in Boundaries, status[f] = "building", Finalize(f)
      PROVE  Log!Step
  <2>1. MemberRows(f) \in SUBSET Instruments /\ MemberRows(f) \subseteq expected[f]
    BY DEF MemberRows, TypeOK, WorldType
  <2>2. Log!Settle(f, MemberRows(f))
    BY <1>2, <2>1, FinalizeBuilding DEF Log!Settle
  <2> QED BY <2>1, <2>2
<1>3. CASE OpenFrame
  <2>1. last \in Boundaries /\ status[last] = "absent"
    BY <1>3, BoundsAssumption DEF OpenFrame, LogInv, Opened, TypeOK, LoopType
  <2>2. Log!Open(last, active)
    BY <1>3, <2>1 DEF OpenFrame, CreateBuilding, LogInv, Opened, Log!Open
  <2> QED BY <2>1, <2>2 DEF TypeOK, WorldType
<1>4. CASE ResolveInterrupted
  BY <1>1, <1>2, <1>4 DEF ResolveInterrupted
<1>5. CASE FinalizeFrame
  <2>1. last \in Boundaries /\ status[last] = "building" /\ Finalize(last)
    BY <1>5, BoundsAssumption DEF FinalizeFrame, LogInv, TypeOK, LoopType
  <2> QED BY <1>2, <2>1
<1>6. CASE World \/ Fault \/ Start \/ Recover
  BY <1>1, <1>6 DEF World, Tick, StepBack, ReconcileUniverse, StoreCandles,
     Fault, Crash, StartupFails, BuildFails, FindFails, AnalysisFails, Start,
     Recover, FindUnanalysed, RecoverNext
<1>7. CASE PickTarget \/ ReachBoundary \/ HookReturns
  BY <1>1, <1>7 DEF PickTarget, ReachBoundary, HookReturns
<1>8. ASSUME NEW a \in Actors, Analyse(a) PROVE UNCHANGED frameRows
  BY <1>8 DEF Analyse, Measure, SaveResult, BeginPublish, CheckMarker,
     Rank, InsertSnapshot
<1>9. CASE UNCHANGED vars
  BY <1>1, <1>9 DEF vars
<1> QED
  BY <1>1, <1>3, <1>4, <1>5, <1>6, <1>7, <1>8, <1>9 DEF Next, FrameLoop

\* With a clock that never steps back the frame synchronizer implements the
\* log of write-once observations: rows are opened in time order, for the
\* present only, and are settled once, whatever crashes and fails.
THEOREM FramesAreALog ==
  ASSUME MaxStepBacks = 0
  PROVE  Spec => ImplementsLog
<1>1. Init => LogInv
  BY BoundsAssumption DEF Init, LogInv, Opened
<1>2. TypeOK /\ LogInv /\ [Next]_vars => LogInv'
  BY LogInvStep
<1>3. Init => Log!Init
  BY DEF Init, Log!Init, Log!Times, Boundaries
<1>4. TypeOK /\ LogInv /\ [Next]_vars => [Log!Step]_(Log!vars)
  BY LogStep
<1> QED
  BY <1>1, <1>2, <1>3, <1>4, TypeCorrect, PTL DEF Spec, ImplementsLog, Log!Spec

-----------------------------------------------------------------------------
(* The rows of finalized frames, and of interrupted ones                   *)

LEMMA FrozenRows ==
  ASSUME TypeOK, [Next]_vars, NEW f \in Boundaries
  PROVE  /\ members[f] \subseteq members'[f]
         /\ status[f] \in Terminal =>
              /\ status'[f] = status[f] /\ expected'[f] = expected[f]
              /\ available'[f] = available[f]
<1> USE DEF TypeOK, RowsType
<1>1. CASE UNCHANGED frameRows
  BY <1>1 DEF frameRows
<1>2. ASSUME NEW g \in Boundaries, Finalize(g)
      PROVE  /\ members[f] \subseteq members'[f]
             /\ status[f] \in Terminal =>
                  /\ status'[f] = status[f] /\ expected'[f] = expected[f]
                  /\ available'[f] = available[f]
  BY <1>2 DEF Finalize, Terminal
<1>3. CASE OpenFrame
  BY <1>3 DEF OpenFrame, CreateBuilding, frameRows, Terminal
<1>4. CASE ResolveInterrupted
  BY <1>1, <1>2, <1>4 DEF ResolveInterrupted
<1>5. CASE FinalizeFrame
  <2>1. last \in Boundaries
    BY <1>5, BoundsAssumption DEF FinalizeFrame, LoopType, Boundaries
  <2> QED BY <1>2, <1>5, <2>1 DEF FinalizeFrame
<1>6. CASE World \/ Fault \/ Start \/ Recover
  BY <1>1, <1>6 DEF World, Tick, StepBack, ReconcileUniverse, StoreCandles,
     Fault, Crash, StartupFails, BuildFails, FindFails, AnalysisFails, Start,
     Recover, FindUnanalysed, RecoverNext
<1>7. CASE PickTarget \/ ReachBoundary \/ HookReturns
  BY <1>1, <1>7 DEF PickTarget, ReachBoundary, HookReturns
<1>8. ASSUME NEW a \in Actors, Analyse(a) PROVE UNCHANGED frameRows
  BY <1>8 DEF Analyse, Measure, SaveResult, BeginPublish, CheckMarker,
     Rank, InsertSnapshot
<1>9. CASE UNCHANGED vars
  BY <1>1, <1>9 DEF vars
<1> QED
  BY <1>1, <1>3, <1>4, <1>5, <1>6, <1>7, <1>8, <1>9 DEF Next, FrameLoop

\* The row of a finalized frame is never changed again, not by a second
\* finalize of its boundary, a restart or a clock set back; its member rows
\* only grow.
THEOREM FinalizedRowsFrozen == Spec => TerminalRowFrozen
<1>1. TypeOK /\ [Next]_vars =>
        [\A f \in Boundaries : status[f] \in Terminal =>
           /\ status'[f] = status[f] /\ expected'[f] = expected[f]
           /\ available'[f] = available[f] /\ members[f] \subseteq members'[f]]_vars
  BY FrozenRows
<1> QED
  BY <1>1, TypeCorrect, PTL DEF Spec, TerminalRowFrozen

\* Without storage failures at most one row is BUILDING, and a running loop
\* holds it: there is one to resolve at a start, and `first' finds it.
OneBuilding ==
  errors = 0 =>
    /\ \A f, g \in Boundaries : status[f] = "building" /\ status[g] = "building" => f = g
    /\ proc = "running" =>
         \A f \in Boundaries : status[f] = "building" => loop = "grace" /\ f = last

LEMMA FinalizeLeaves ==
  ASSUME TypeOK, NEW f \in Boundaries, Finalize(f)
  PROVE  \A g \in Boundaries : status'[g] = "building" => g # f /\ status[g] = "building"
BY DEF Finalize, TypeOK, RowsType, Terminal

LEMMA OneBuildingStep == TypeOK /\ OneBuilding /\ [Next]_vars => OneBuilding'
<1> SUFFICES ASSUME TypeOK, OneBuilding, [Next]_vars, errors' = 0 PROVE OneBuilding'
  BY DEF OneBuilding
<1> USE DEF OneBuilding
<1>0. errors \in Nat
  BY DEF TypeOK, WorldType
<1>1. CASE UNCHANGED <<status, proc, loop, last, errors>>
  BY <1>1
<1>2. CASE World \/ Recover \/ UNCHANGED vars
  BY <1>1, <1>2 DEF World, Tick, StepBack, ReconcileUniverse, StoreCandles,
     Recover, FindUnanalysed, RecoverNext, vars, budgets, frameRows, loopVars
<1>3. ASSUME NEW a \in Actors, Analyse(a) PROVE OneBuilding'
  BY <1>1, <1>3 DEF Analyse, Measure, SaveResult, BeginPublish, CheckMarker,
     Rank, InsertSnapshot, budgets, frameRows, loopVars
<1>4. CASE StartupFails \/ BuildFails \/ FindFails \/ \E a \in Actors : AnalysisFails(a)
  BY <1>0, <1>4 DEF StartupFails, BuildFails, FindFails, AnalysisFails, Error
<1>5. CASE Crash \/ Start
  BY <1>5 DEF Crash, Start, budgets, frameRows
<1>6. CASE ResolveInterrupted
  <2>1. errors = 0
    BY <1>6 DEF ResolveInterrupted, budgets
  <2>2. CASE \E f \in Boundaries : status[f] = "building"
    <3>1. PICK f \in Boundaries : status[f] = "building" /\ Finalize(f)
      BY <1>6, <2>2 DEF ResolveInterrupted
    <3>2. \A g \in Boundaries : status'[g] # "building"
      BY <2>1, <3>1, FinalizeLeaves
    <3> QED BY <3>2
  <2>3. CASE \A f \in Boundaries : status[f] # "building"
    <3>1. status' = status
      BY <1>6, <2>3 DEF ResolveInterrupted, frameRows
    <3> QED BY <2>3, <3>1
  <2> QED BY <2>2, <2>3
<1>7. CASE PickTarget \/ ReachBoundary \/ HookReturns
  BY <1>7 DEF PickTarget, ReachBoundary, HookReturns, budgets, frameRows
<1>8. CASE OpenFrame
  <2>1. /\ last \in Boundaries /\ errors = 0 /\ proc = "running" /\ loop = "create"
        /\ loop' = "grace" /\ last' = last
    BY <1>8, BoundsAssumption DEF OpenFrame, TypeOK, LoopType, Boundaries, budgets
  <2>2. \A f \in Boundaries : status'[f] = "building" => f = last
    BY <1>8, <2>1 DEF OpenFrame, CreateBuilding, frameRows, TypeOK, RowsType
  <2> QED BY <2>1, <2>2
<1>9. CASE FinalizeFrame
  <2>1. last \in Boundaries /\ errors = 0 /\ proc = "running" /\ Finalize(last)
    BY <1>9, BoundsAssumption DEF FinalizeFrame, TypeOK, LoopType, Boundaries, budgets
  <2>2. \A f \in Boundaries : status'[f] # "building"
    BY <2>1, FinalizeLeaves
  <2> QED BY <2>2
<1> QED
  BY <1>2, <1>3, <1>4, <1>5, <1>6, <1>7, <1>8, <1>9 DEF Next, Fault, FrameLoop

\* Once the synchronizer runs and before its first frame, no row of an
\* earlier process is left BUILDING, as long as no storage call has failed.
THEOREM StartupSettlesRows == Spec => []StartupResolves
<1>1. Init => OneBuilding
  BY DEF Init, OneBuilding
<1>2. TypeOK /\ OneBuilding => StartupResolves
  BY DEF TypeOK, LoopType, OneBuilding, StartupResolves, StartupLeavesNothingBuilding
<1> QED
  BY <1>1, <1>2, OneBuildingStep, TypeCorrect, PTL DEF Spec

-----------------------------------------------------------------------------
(* A frame is measured once                                                *)

\* Between processes nothing is held; before its query the recovery has
\* nothing.
HandsEmpty ==
  /\ proc # "running" => /\ missing = {} /\ loop = "pick" /\ last = 0
                         /\ \A a \in Actors : pc[a] = "idle"
  /\ recovery # "run" => missing = {} /\ pc["recovery"] = "idle"

\* The recovery's frames end where the live loop's begin: its window ends at
\* the clock's reading when it starts, and the loop only waits for later ones.
Split ==
  /\ \A f \in missing : f <= until
  /\ pc["recovery"] # "idle" =>
       subject["recovery"] <= until /\ subject["recovery"] \notin missing
  /\ stepBacks = 0 =>
       /\ until <= now
       /\ proc = "running" /\ last # 0 => until < last
       /\ proc = "running" /\ loop = "wait" => until < target
       /\ pc["live"] # "idle" => until < subject["live"]

\* Stored results are of finalized frames with members, and stamped before
\* now unless the clock was set back.
Stored ==
  \A f \in Boundaries : Analysed(f) =>
    /\ status[f] \in Terminal /\ members[f] # {}
    /\ stepBacks = 0 => analyzedAt[f] <= stamp

\* What is about to be measured has no result yet.
Unmeasured ==
  stepBacks = 0 =>
    /\ \A f \in missing : ~Analysed(f)
    /\ \A a \in Actors : pc[a] \in {"measure", "save"} => ~Analysed(subject[a])

\* What a publication carries, and what it left.
Carried ==
  /\ \A a \in Actors : pc[a] = "insert" => 0 < ranked[a]
  /\ \A s \in snapshots : 0 < s.analyzed
  /\ stepBacks = 0 =>
       /\ \A a \in Actors :
            Publishing(a) /\ Analysed(subject[a]) => analyzedAt[subject[a]] < taken[a]
       /\ \A a \in Actors : pc[a] = "insert" => ranked[a] = analyzedAt[subject[a]]
       /\ \A s \in snapshots :
            s.analyzed < s.published /\ s.analyzed = analyzedAt[s.frame]

LEMMA HandsEmptyStep == TypeOK /\ HandsEmpty /\ [Next]_vars => HandsEmpty'
<1> SUFFICES ASSUME TypeOK, HandsEmpty, [Next]_vars PROVE HandsEmpty'
  OBVIOUS
<1> USE DEF HandsEmpty
<1>1. CASE UNCHANGED <<proc, loop, last, missing, pc, recovery>>
  BY <1>1
<1>2. CASE World \/ Start \/ UNCHANGED vars
  BY <1>1, <1>2 DEF World, Tick, StepBack, ReconcileUniverse, StoreCandles, Start,
     vars, loopVars, recVars, workVars
<1>3. ASSUME NEW a \in Actors, Analyse(a) \/ AnalysisFails(a) PROVE HandsEmpty'
  <2>1. pc[a] # "idle" /\ UNCHANGED <<proc, loop, last, missing, recovery>>
    BY <1>3 DEF Analyse, AnalysisFails, Measure, SaveResult, BeginPublish,
       CheckMarker, Rank, InsertSnapshot, loopVars, recVars
  <2>2. \A b \in Actors : b # a => pc'[b] = pc[b]
    BY <1>3 DEF Analyse, AnalysisFails, Measure, SaveResult, BeginPublish,
       CheckMarker, Rank, InsertSnapshot, Return, GoTo, TypeOK, WorkType
  <2> QED BY <2>1, <2>2 DEF Actors
<1>4. CASE StartupFails \/ BuildFails \/ FindFails \/ Crash
  BY <1>4 DEF StartupFails, BuildFails, FindFails, Crash, loopVars, recVars,
     workVars, Actors
<1>5. CASE ResolveInterrupted
  BY <1>5 DEF ResolveInterrupted, workVars, Actors
<1>6. CASE PickTarget \/ ReachBoundary \/ OpenFrame \/ HookReturns
  BY <1>6 DEF PickTarget, ReachBoundary, OpenFrame, HookReturns, recVars, workVars
<1>7. CASE FinalizeFrame
  BY <1>7 DEF FinalizeFrame, recVars, TypeOK, WorkType, Actors
<1>8. CASE FindUnanalysed \/ RecoverNext
  BY <1>8 DEF FindUnanalysed, RecoverNext, loopVars, workVars
<1> QED
  BY <1>2, <1>3, <1>4, <1>5, <1>6, <1>7, <1>8 DEF Next, Fault, FrameLoop, Recover

LEMMA SplitStep == TypeOK /\ HandsEmpty /\ Split /\ [Next]_vars => Split'
<1> SUFFICES ASSUME TypeOK, HandsEmpty, Split, [Next]_vars PROVE Split'
  OBVIOUS
<1> USE DEF Split
<1>0. /\ now \in Nat /\ now >= 1 /\ until \in Nat /\ last \in Nat /\ target \in Nat
      /\ stepBacks \in Nat /\ missing \subseteq Nat /\ "live" \in Actors /\ "recovery" \in Actors
      /\ \A a \in Actors : subject[a] \in Nat
  BY BoundsAssumption DEF TypeOK, WorldType, LoopType, WorkType, Boundaries, Actors
<1>1. CASE UNCHANGED <<now, stepBacks, proc, loop, target, last, until, missing, pc, subject>>
  BY <1>1
<1>2. CASE Tick
  BY <1>0, <1>2 DEF Tick, budgets, loopVars, recVars, workVars
<1>3. CASE StepBack
  BY <1>0, <1>3 DEF StepBack, loopVars, recVars, workVars
<1>4. CASE ReconcileUniverse \/ StoreCandles \/ FindFails \/ UNCHANGED vars
  BY <1>1, <1>4 DEF ReconcileUniverse, StoreCandles, FindFails, Error, vars, world,
     budgets, loopVars, recVars, workVars
<1>5. CASE Crash
  BY <1>0, <1>5 DEF Crash, world, Actors
<1>6. CASE Start \/ StartupFails
  BY <1>6 DEF Start, StartupFails, Error, world, budgets, recVars, workVars
<1>7. CASE ResolveInterrupted
  BY <1>0, <1>7 DEF ResolveInterrupted, HandsEmpty, world, budgets, workVars
<1>8. CASE PickTarget
  <2>1. (target' = last + 1 /\ last # 0) \/ target' = now + 1
    BY <1>8 DEF PickTarget
  <2>2. UNCHANGED <<now, stepBacks, proc, last, until, missing, pc, subject>> /\ proc = "running"
    BY <1>8 DEF PickTarget, world, budgets, recVars, workVars
  <2> QED BY <1>0, <2>1, <2>2
<1>9. CASE ReachBoundary
  BY <1>0, <1>9 DEF ReachBoundary, world, budgets, recVars, workVars
<1>10. CASE OpenFrame \/ BuildFails \/ HookReturns
  BY <1>10 DEF OpenFrame, BuildFails, HookReturns, Error, world, budgets, recVars, workVars
<1>11. CASE FinalizeFrame
  <2>1. /\ UNCHANGED <<now, stepBacks, proc, last, until, missing>> /\ proc = "running"
        /\ last # 0 /\ loop' # "wait"
    BY <1>11 DEF FinalizeFrame, world, budgets, recVars, TypeOK, LoopType
  <2>2. pc'["recovery"] = pc["recovery"] /\ subject'["recovery"] = subject["recovery"]
    BY <1>0, <1>11 DEF FinalizeFrame, TypeOK, WorkType
  <2>3. \/ pc'["live"] = pc["live"] /\ subject'["live"] = subject["live"]
        \/ subject'["live"] = last
    BY <1>0, <1>11 DEF FinalizeFrame, TypeOK, WorkType
  <2> QED BY <2>1, <2>2, <2>3
<1>12. CASE FindUnanalysed
  BY <1>12 DEF FindUnanalysed, Unanalysed, HandsEmpty, world, budgets, loopVars, workVars
<1>13. CASE RecoverNext
  <2>1. UNCHANGED <<now, stepBacks, proc, loop, last, target, until>>
    BY <1>13 DEF RecoverNext, world, budgets, loopVars
  <2>2. PICK f \in missing : /\ missing' = missing \ {f}
                             /\ pc' = [pc EXCEPT !["recovery"] = "measure"]
                             /\ subject' = [subject EXCEPT !["recovery"] = f]
    BY <1>13 DEF RecoverNext
  <2>3. /\ pc'["live"] = pc["live"] /\ subject'["live"] = subject["live"]
        /\ subject'["recovery"] = f
    BY <1>0, <2>2 DEF TypeOK, WorkType
  <2> QED BY <2>1, <2>2, <2>3
<1>14. ASSUME NEW a \in Actors, Analyse(a) \/ AnalysisFails(a) PROVE Split'
  <2>1. UNCHANGED <<now, stepBacks, proc, loop, last, target, until, missing>>
    BY <1>14, AnalyseLeaves DEF loopVars, recVars
  <2>2. \A b \in Actors : pc'[b] # "idle" => pc[b] # "idle" /\ subject'[b] = subject[b]
    BY <1>14, AnalyseLeaves
  <2> QED BY <1>0, <2>1, <2>2
<1> QED
  BY <1>2, <1>3, <1>4, <1>5, <1>6, <1>7, <1>8, <1>9, <1>10, <1>11, <1>12, <1>13, <1>14
  DEF Next, World, Fault, FrameLoop, Recover

\* Two analyses at a time are of two frames.
LEMMA SplitSubjects ==
  ASSUME TypeOK, Split, stepBacks = 0, NEW a \in Actors, NEW b \in Actors, a # b,
         pc[a] # "idle", pc[b] # "idle"
  PROVE  subject[a] # subject[b]
<1>1. subject["live"] \in Nat /\ subject["recovery"] \in Nat /\ until \in Nat
  BY BoundsAssumption DEF TypeOK, LoopType, WorkType, Actors
<1>2. {a, b} = {"live", "recovery"}
  BY DEF Actors
<1> QED BY <1>1, <1>2 DEF Split

\* The steps that store a result, and the others.
LEMMA ResultsMove ==
  ASSUME TypeOK, [Next]_vars
  PROVE  \/ analyzedAt' = analyzedAt /\ analysis' = analysis
         \/ \E a \in Actors :
              /\ SaveResult(a) /\ pc[a] = "save" /\ members[subject[a]] # {}
              /\ subject[a] \in Boundaries
              /\ analyzedAt' = [analyzedAt EXCEPT ![subject[a]] = taken[a]]
              /\ analysis' = [analysis EXCEPT ![subject[a]] = a]
<1>1. ASSUME NEW a \in Actors, SaveResult(a)
      PROVE  \/ analyzedAt' = analyzedAt /\ analysis' = analysis
             \/ /\ SaveResult(a) /\ pc[a] = "save" /\ members[subject[a]] # {}
                /\ subject[a] \in Boundaries
                /\ analyzedAt' = [analyzedAt EXCEPT ![subject[a]] = taken[a]]
                /\ analysis' = [analysis EXCEPT ![subject[a]] = a]
  <2>1. subject[a] \in Boundaries
    BY <1>1, BoundsAssumption DEF SaveResult, TypeOK, WorkType, Boundaries
  <2> QED BY <1>1, <2>1 DEF SaveResult, results
<1>2. ASSUME NEW a \in Actors, Analyse(a) \/ AnalysisFails(a), ~SaveResult(a)
      PROVE  analyzedAt' = analyzedAt /\ analysis' = analysis
  BY <1>2 DEF Analyse, AnalysisFails, Measure, BeginPublish, CheckMarker, Rank,
     InsertSnapshot, results
<1>3. CASE Crash \/ FinalizeFrame \/ RecoverNext \/ Elsewhere
  BY <1>3 DEF Elsewhere, Crash, FinalizeFrame, RecoverNext, results
<1> QED BY <1>1, <1>2, <1>3, WorkStep

LEMMA StampGrows ==
  ASSUME TypeOK, [Next]_vars, stepBacks' = 0
  PROVE  stamp <= stamp'
<1>1. CASE Crash \/ FinalizeFrame \/ RecoverNext
  BY <1>1 DEF Crash, FinalizeFrame, RecoverNext, world, TypeOK, WorldType
<1>2. CASE Elsewhere
  <2>1. stamp' = stamp
    BY <1>2 DEF Elsewhere, StepBack, TypeOK, WorldType
  <2> QED BY <2>1 DEF TypeOK, WorldType
<1> QED BY <1>1, <1>2, WorkStep, AnalyseLeaves

LEMMA StoredStep == TypeOK /\ OrderInv /\ Stored /\ [Next]_vars => Stored'
<1> SUFFICES ASSUME TypeOK, OrderInv, Stored, [Next]_vars,
                    NEW f \in Boundaries, analyzedAt'[f] # 0
             PROVE  /\ status'[f] \in Terminal /\ members'[f] # {}
                    /\ stepBacks' = 0 => analyzedAt'[f] <= stamp'
  BY DEF Stored, Analysed
<1>0. /\ stamp \in Nat /\ stamp' \in Nat /\ analyzedAt[f] \in Nat
      /\ stepBacks' = 0 => stepBacks = 0 /\ stamp <= stamp'
  BY StampGrows, StepBacksGrow, WorldTypeStep DEF TypeOK, WorldType, ResultsType
<1>1. CASE analyzedAt'[f] = analyzedAt[f]
  <2>1. /\ status[f] \in Terminal /\ members[f] # {}
        /\ stepBacks = 0 => analyzedAt[f] <= stamp
    BY <1>1 DEF Stored, Analysed
  <2> QED BY <1>0, <1>1, <2>1, FrozenRows
<1>2. ASSUME NEW a \in Actors, pc[a] = "save", members[subject[a]] # {}, subject[a] = f,
             analyzedAt'[f] = taken[a]
      PROVE  /\ status'[f] \in Terminal /\ members'[f] # {}
             /\ stepBacks' = 0 => analyzedAt'[f] <= stamp'
  <2>1. status[f] \in Terminal
    BY <1>2 DEF OrderInv, HeldFrames, HeldWork
  <2>2. taken[a] \in Nat /\ (stepBacks = 0 => taken[a] <= stamp)
    BY DEF OrderInv, HeldStamps, TypeOK, WorkType
  <2> QED BY <1>0, <1>2, <2>1, <2>2, FrozenRows
<1> QED BY <1>1, <1>2, ResultsMove DEF TypeOK, ResultsType

\* What is analysed keeps its result, when nothing analysed is about to be
\* measured.
LEMMA ResultsKept ==
  ASSUME TypeOK, Unmeasured, [Next]_vars, stepBacks = 0, NEW f \in Boundaries, Analysed(f)
  PROVE  analyzedAt'[f] = analyzedAt[f] /\ analysis'[f] = analysis[f]
<1>1. ASSUME NEW a \in Actors, pc[a] = "save" PROVE f # subject[a]
  BY <1>1 DEF Unmeasured
<1> QED
  BY <1>1, ResultsMove DEF TypeOK, ResultsType

LEMMA UnmeasuredStep ==
  TypeOK /\ OrderInv /\ HandsEmpty /\ Split /\ Stored /\ Unmeasured /\ [Next]_vars => Unmeasured'
<1> SUFFICES ASSUME TypeOK, OrderInv, HandsEmpty, Split, Stored, Unmeasured, [Next]_vars, stepBacks' = 0
             PROVE  /\ \A f \in missing' : ~Analysed(f)'
                    /\ \A a \in Actors : pc'[a] \in {"measure", "save"} => analyzedAt'[subject'[a]] = 0
  BY DEF Unmeasured, Analysed
<1>0. /\ stepBacks = 0 /\ "live" \in Actors /\ "recovery" \in Actors
      /\ missing \subseteq Boundaries /\ missing \subseteq Nat /\ until \in Nat
      /\ \A a \in Actors : subject[a] \in Nat
      /\ \A a \in Actors : pc[a] # "idle" => subject[a] \in Boundaries
  BY BoundsAssumption, StepBacksGrow DEF TypeOK, LoopType, WorkType, Boundaries, Actors
<1>1. ASSUME NEW f \in missing' PROVE ~Analysed(f)'
  <2>1. f \in Boundaries /\ ~Analysed(f)
    BY <1>0, MissingStep DEF Unanalysed, Unmeasured, OrderInv
  <2>2. CASE analyzedAt' = analyzedAt
    BY <2>1, <2>2 DEF Analysed
  <2>3. ASSUME NEW a \in Actors, SaveResult(a), pc[a] = "save",
               analyzedAt' = [analyzedAt EXCEPT ![subject[a]] = taken[a]]
        PROVE  ~Analysed(f)'
    <3>1. missing' = missing
      BY <2>3 DEF SaveResult, recVars
    <3>2. subject[a] # f
      BY <1>0, <2>3, <3>1 DEF Split, Actors
    <3> QED BY <2>1, <2>3, <3>2 DEF Analysed, TypeOK, ResultsType
  <2> QED BY <2>2, <2>3, ResultsMove
<1>2. ASSUME NEW a \in Actors, pc'[a] \in {"measure", "save"}
      PROVE  analyzedAt'[subject'[a]] = 0
  <2>1. CASE Elsewhere
    BY <1>0, <1>2, <2>1 DEF Elsewhere, workVars, results, Unmeasured, Analysed
  <2>2. CASE Crash
    BY <1>2, <2>2 DEF Crash
  <2>3. CASE FinalizeFrame
    <3>1. analyzedAt' = analyzedAt /\ last \in Boundaries
      BY <2>3, BoundsAssumption DEF FinalizeFrame, results, TypeOK, LoopType, Boundaries
    <3>2. \/ pc'[a] = pc[a] /\ subject'[a] = subject[a]
          \/ status[last] = "building" /\ subject'[a] = last
      BY <1>0, <2>3 DEF FinalizeFrame, TypeOK, WorkType, Actors
    <3>3. status[last] = "building" => ~Analysed(last)
      BY <3>1 DEF Stored, Terminal
    <3> QED BY <1>0, <1>2, <3>1, <3>2, <3>3 DEF Unmeasured, Analysed
  <2>4. CASE RecoverNext
    <3>1. PICK f \in missing : /\ pc' = [pc EXCEPT !["recovery"] = "measure"]
                               /\ subject' = [subject EXCEPT !["recovery"] = f]
      BY <2>4 DEF RecoverNext
    <3>2. analyzedAt' = analyzedAt
      BY <2>4 DEF RecoverNext, results
    <3>3. \/ pc'[a] = pc[a] /\ subject'[a] = subject[a]
          \/ subject'[a] = f
      BY <1>0, <3>1 DEF TypeOK, WorkType
    <3> QED BY <1>0, <1>2, <3>1, <3>2, <3>3 DEF Unmeasured, Analysed
  <2>5. ASSUME NEW b \in Actors, Analyse(b) \/ AnalysisFails(b), b # a
        PROVE  analyzedAt'[subject'[a]] = 0
    <3>1. pc'[a] = pc[a] /\ subject'[a] = subject[a]
      BY <2>5, AnalyseLeaves
    <3>2. ~Analysed(subject[a]) /\ subject[a] \in Boundaries
      BY <1>0, <1>2, <3>1 DEF Unmeasured
    <3>3. ASSUME NEW c \in Actors, pc[c] = "save", SaveResult(c) PROVE subject[a] # subject[c]
      <4>1. c # a
        BY <1>2, <3>1, <3>3 DEF SaveResult, GoTo, TypeOK, WorkType
      <4> QED BY <1>0, <1>2, <3>1, <3>3, <4>1, SplitSubjects
    <3> QED BY <3>1, <3>2, <3>3, ResultsMove DEF Analysed, TypeOK, ResultsType
  <2>6. CASE Analyse(a) \/ AnalysisFails(a)
    <3>1. pc[a] = "measure" /\ subject'[a] = subject[a] /\ analyzedAt' = analyzedAt
      BY <1>2, <2>6, AnalyseLeaves
    <3> QED BY <1>0, <3>1 DEF Unmeasured, Analysed
  <2> QED BY <2>1, <2>2, <2>3, <2>4, <2>5, <2>6, WorkStep
<1> QED BY <1>1, <1>2

OnceInv == HandsEmpty /\ Split /\ Stored /\ Unmeasured

LEMMA OnceInvariant == Spec => [](TypeOK /\ OrderInv /\ OnceInv)
<1>1. Init => OnceInv
  BY BoundsAssumption DEF Init, OnceInv, HandsEmpty, Split, Stored, Unmeasured, Analysed,
     Actors, Boundaries
<1>2. TypeOK /\ OrderInv /\ OnceInv /\ [Next]_vars => OnceInv'
  BY HandsEmptyStep, SplitStep, StoredStep, UnmeasuredStep DEF OnceInv
<1> QED
  BY <1>1, <1>2, TypeCorrect, OrderInvariant, PTL DEF Spec

\* While the clock has not been set back, no frame is measured twice: the
\* recovery keeps to the frames finalized when it started, the live loop to
\* later ones, and neither starts on a frame that has results.
THEOREM FramesAnalysedOnce == Spec => AnalysedOnce
<1>1. TypeOK /\ OnceInv /\ [Next]_vars =>
        [\A f \in Boundaries :
           stepBacks' = 0 /\ Analysed(f) => /\ analyzedAt'[f] = analyzedAt[f]
                                            /\ analysis'[f] = analysis[f]]_vars
  BY ResultsKept, StepBacksGrow DEF OnceInv
<1> QED
  BY <1>1, OnceInvariant, PTL DEF Spec, AnalysedOnce
-----------------------------------------------------------------------------
(* What was published is what was measured                                 *)

\* How an analysis comes to be publishing: it has read the clock, and to
\* insert it has read the results of the newest frame.
LEMMA PublishingMoves ==
  ASSUME TypeOK, NEW a \in Actors, Analyse(a) \/ AnalysisFails(a), Publishing(a)'
  PROVE  /\ analyzedAt' = analyzedAt /\ subject'[a] = subject[a]
         /\ \/ pc[a] = "publish" /\ taken'[a] = stamp + 1
            \/ Publishing(a) /\ taken'[a] = taken[a]
         /\ pc'[a] = "insert" =>
              Analysed(subject[a]) /\ ranked'[a] = analyzedAt[subject[a]]
<1> USE DEF TypeOK, WorkType, Publishing
<1>1. CASE Measure(a) \/ SaveResult(a)
  BY <1>1 DEF Measure, SaveResult, Return, GoTo
<1>2. CASE BeginPublish(a)
  BY <1>2 DEF BeginPublish, GoTo, Stamp, results
<1>3. CASE CheckMarker(a)
  BY <1>3 DEF CheckMarker, Return, GoTo, results
<1>4. CASE Rank(a)
  <2>1. IsNewest(subject[a])
    BY <1>4 DEF Rank, Return, GoTo
  <2> QED BY <1>4, <2>1 DEF Rank, IsNewest, GoTo, results
<1>5. CASE InsertSnapshot(a) \/ AnalysisFails(a)
  BY <1>5 DEF InsertSnapshot, AnalysisFails, Return, GoTo
<1> QED
  BY <1>1, <1>2, <1>3, <1>4, <1>5 DEF Analyse

\* Only an insert adds to the ranking history.
LEMMA SnapshotsMove ==
  ASSUME TypeOK, [Next]_vars, NEW s \in snapshots', s \notin snapshots
  PROVE  /\ analyzedAt' = analyzedAt
         /\ \E a \in Actors :
              /\ pc[a] = "insert" /\ s.frame = subject[a]
              /\ s.analyzed = ranked[a] /\ s.published = taken[a]
<1>1. CASE Crash \/ FinalizeFrame \/ RecoverNext
  BY <1>1 DEF Crash, FinalizeFrame, RecoverNext
<1>2. ASSUME NEW a \in Actors, Analyse(a) \/ AnalysisFails(a) PROVE InsertSnapshot(a)
  BY <1>2 DEF Analyse, AnalysisFails, Measure, SaveResult, BeginPublish, CheckMarker, Rank
<1>3. ASSUME NEW a \in Actors, InsertSnapshot(a)
      PROVE  /\ analyzedAt' = analyzedAt /\ pc[a] = "insert" /\ s.frame = subject[a]
             /\ s.analyzed = ranked[a] /\ s.published = taken[a]
  BY <1>3 DEF InsertSnapshot, results
<1> QED BY <1>1, <1>2, <1>3, WorkStep DEF Elsewhere

\* What an actor carries in a publication, after a step.
LEMMA CarriedByActors ==
  ASSUME TypeOK, OrderInv, OnceInv, Carried, [Next]_vars, NEW a \in Actors, Publishing(a)'
  PROVE  /\ pc'[a] = "insert" => 0 < ranked'[a]
         /\ stepBacks' = 0 =>
              /\ Analysed(subject[a])' => analyzedAt'[subject'[a]] < taken'[a]
              /\ pc'[a] = "insert" => ranked'[a] = analyzedAt'[subject'[a]]
<1>0. /\ \A b \in Actors : /\ taken[b] \in Nat /\ ranked[b] \in Nat
                           /\ pc[b] # "idle" => subject[b] \in Boundaries
      /\ \A f \in Boundaries : analyzedAt[f] \in Nat
      /\ stamp \in Nat
  BY BoundsAssumption DEF TypeOK, WorldType, ResultsType, WorkType, Boundaries
<1>1. ASSUME Publishing(a), pc'[a] = pc[a], subject'[a] = subject[a],
             taken'[a] = taken[a], ranked'[a] = ranked[a]
      PROVE  /\ pc'[a] = "insert" => 0 < ranked'[a]
             /\ stepBacks' = 0 =>
                  /\ Analysed(subject[a])' => analyzedAt'[subject'[a]] < taken'[a]
                  /\ pc'[a] = "insert" => ranked'[a] = analyzedAt'[subject'[a]]
  <2>1. subject[a] \in Boundaries
    BY <1>0, <1>1 DEF Publishing
  <2>2. pc[a] = "insert" => Analysed(subject[a])
    BY DEF OrderInv, HeldResults
  <2>3. stepBacks' = 0 => stepBacks = 0
    BY StepBacksGrow
  <2>4. stepBacks' = 0 /\ Analysed(subject[a]) => analyzedAt'[subject[a]] = analyzedAt[subject[a]]
    BY <2>1, <2>3, ResultsKept DEF OnceInv
  <2>5. ASSUME stepBacks' = 0, ~Analysed(subject[a]) PROVE analyzedAt'[subject[a]] = 0
    <3>1. ASSUME NEW b \in Actors, pc[b] = "save" PROVE subject[b] # subject[a]
      <4>1. b # a
        BY <1>1, <3>1 DEF Publishing
      <4> QED BY <1>1, <2>3, <2>5, <3>1, <4>1, SplitSubjects DEF OnceInv, Publishing
    <3> QED BY <2>1, <2>5, <3>1, ResultsMove DEF Analysed, TypeOK, ResultsType
  <2>6. Analysed(subject[a])' <=> analyzedAt'[subject[a]] # 0
    BY <1>1 DEF Analysed
  <2> QED BY <1>1, <2>2, <2>3, <2>4, <2>5, <2>6 DEF Carried
<1>2. CASE UNCHANGED workVars
  BY <1>1, <1>2 DEF workVars, Publishing
<1>3. CASE Crash
  BY <1>3 DEF Crash, Publishing
<1>4. CASE FinalizeFrame \/ RecoverNext
  <2>1. pc'[a] = pc[a] /\ subject'[a] = subject[a]
    BY <1>4 DEF FinalizeFrame, RecoverNext, Publishing, TypeOK, WorkType
  <2>2. taken' = taken /\ ranked' = ranked
    BY <1>4 DEF FinalizeFrame, RecoverNext
  <2> QED BY <1>1, <2>1, <2>2 DEF Publishing
<1>5. ASSUME NEW b \in Actors, Analyse(b) \/ AnalysisFails(b), b # a
      PROVE  /\ pc'[a] = pc[a] /\ subject'[a] = subject[a]
             /\ taken'[a] = taken[a] /\ ranked'[a] = ranked[a]
  BY <1>5, AnalyseLeaves
<1>6. CASE Analyse(a) \/ AnalysisFails(a)
  <2>1. /\ analyzedAt' = analyzedAt /\ subject'[a] = subject[a]
        /\ \/ pc[a] = "publish" /\ taken'[a] = stamp + 1
           \/ Publishing(a) /\ taken'[a] = taken[a]
        /\ pc'[a] = "insert" =>
             Analysed(subject[a]) /\ ranked'[a] = analyzedAt[subject[a]]
    BY <1>6, PublishingMoves
  <2>2. subject[a] \in Boundaries
    BY <1>0, <2>1 DEF Publishing
  <2>3. Analysed(subject[a])' <=> Analysed(subject[a])
    BY <2>1 DEF Analysed
  <2>4. stepBacks' = 0 /\ Analysed(subject[a]) => analyzedAt[subject[a]] <= stamp
    BY <2>2, StepBacksGrow DEF OnceInv, Stored
  <2>5. stepBacks' = 0 /\ Publishing(a) /\ Analysed(subject[a]) =>
          analyzedAt[subject[a]] < taken[a]
    BY StepBacksGrow DEF Carried
  <2>6. stepBacks' = 0 /\ Analysed(subject[a])' => analyzedAt'[subject'[a]] < taken'[a]
    BY <1>0, <2>1, <2>2, <2>3, <2>4, <2>5
  <2>7. pc'[a] = "insert" => 0 < ranked'[a] /\ ranked'[a] = analyzedAt'[subject'[a]]
    BY <1>0, <2>1, <2>2 DEF Analysed
  <2> QED BY <2>6, <2>7
<1> QED
  BY <1>1, <1>2, <1>3, <1>4, <1>5, <1>6, WorkStep DEF Elsewhere, Publishing, workVars

LEMMA CarriedStep ==
  TypeOK /\ OrderInv /\ OnceInv /\ Carried /\ [Next]_vars => Carried'
<1> SUFFICES ASSUME TypeOK, OrderInv, OnceInv, Carried, [Next]_vars PROVE Carried'
  OBVIOUS
<1>1. \A a \in Actors : pc[a] = "insert" => Publishing(a) /\ Analysed(subject[a])
  BY DEF Publishing, OrderInv, HeldResults
<1>2. ASSUME NEW s \in snapshots'
      PROVE  /\ 0 < s.analyzed
             /\ stepBacks' = 0 =>
                  s.analyzed < s.published /\ s.analyzed = analyzedAt'[s.frame]
  <2>1. CASE s \in snapshots
    <3>1. Analysed(s.frame) /\ s.frame \in Boundaries
      BY <2>1 DEF OrderInv, HeldResults, TypeOK, ResultsType, Snapshots
    <3>2. stepBacks' = 0 => analyzedAt'[s.frame] = analyzedAt[s.frame]
      BY <3>1, StepBacksGrow, ResultsKept DEF OnceInv
    <3> QED BY <2>1, <3>2, StepBacksGrow DEF Carried
  <2>2. CASE s \notin snapshots
    <3>1. PICK a \in Actors : /\ pc[a] = "insert" /\ s.frame = subject[a]
                              /\ s.analyzed = ranked[a] /\ s.published = taken[a]
      BY <2>2, SnapshotsMove
    <3>2. analyzedAt' = analyzedAt
      BY <2>2, SnapshotsMove
    <3>3. stepBacks' = 0 => /\ ranked[a] = analyzedAt[subject[a]]
                            /\ analyzedAt[subject[a]] < taken[a]
      BY <1>1, <3>1, StepBacksGrow DEF Carried
    <3> QED BY <3>1, <3>2, <3>3 DEF Carried
  <2> QED BY <2>1, <2>2
<1>3. ASSUME NEW a \in Actors, pc'[a] = "insert" PROVE Publishing(a)'
  BY <1>3 DEF Publishing
<1> QED
  BY <1>2, <1>3, CarriedByActors DEF Carried

\* Every entry of the ranking history is of a finalized frame with members,
\* and, unless the clock was set back, its results are still the stored ones
\* and were measured before it was published.
THEOREM PublicationsWereAnalysed == Spec => []PublishedWasAnalysed
<1>1. Init => Carried
  BY DEF Init, Carried, Publishing
<1>2. TypeOK /\ OrderInv /\ OnceInv /\ Carried /\ [Next]_vars => Carried'
  BY CarriedStep
<1>3. TypeOK /\ OrderInv /\ OnceInv /\ Carried => PublishedWasAnalysed
  BY DEF PublishedWasAnalysed, Carried, OnceInv, Stored, OrderInv, HeldResults,
     TypeOK, ResultsType, Snapshots
<1> QED
  BY <1>1, <1>2, <1>3, OnceInvariant, PTL DEF Spec
=============================================================================
