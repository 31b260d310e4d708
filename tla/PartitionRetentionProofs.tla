---------------------- MODULE PartitionRetentionProofs ----------------------
(***************************************************************************)
(* Retention drops no candle a stored frame refers to, and nothing that is *)
(* not past it: for any retention, number of frames, retries, failures,    *)
(* crashes and research reads.                                             *)
(***************************************************************************)
EXTENDS PartitionRetention, WellFoundedInduction, TLAPS

(* What makes it so. A frame being finalized holds the candles' table from *)
(* the read of its candle on, so its candle stays; the maintenance has no  *)
(* table somebody else holds; and what it is about to drop was found       *)
(* unreferenced under both locks, which it has until it commits.           *)
FrameHolds ==
    /\ held \subseteq TableSet
    /\ "members" \in held => "candles" \in held
    /\ frame # None => "candles" \in held /\ candle \in part["candles"]

LocksExclude == excl \cap held = {}

Operation ==
    /\ part = [t \in TableSet |-> part[t]]
    /\ pc \in {"off", "create", "retire", "end"}
    /\ pc \in {"create", "retire"} => at \in {1, 2}
    /\ month # None => pc = "retire" /\ at = 2
    /\ want # "none" => pc \in {"create", "retire"}

DoomedUnreferenced ==
    /\ doomed # {} => /\ pc = "retire" /\ at = 2
                      /\ {"candles", "members"} \subseteq excl
    /\ \A m \in doomed : ~Referenced(m)

RetentionInv ==
    FrameHolds /\ LocksExclude /\ Operation /\ DoomedUnreferenced /\ NoDanglingReference

-----------------------------------------------------------------------------
LEMMA RetentionInit == Init => RetentionInv
BY DEF Init, RetentionInv, FrameHolds, LocksExclude, Operation, DoomedUnreferenced,
       NoDanglingReference, None

(* The end of an operation, however it ends, leaves no lock and no doom.   *)
LEMMA OperationEnds ==
  ASSUME Operation, pc \in {"create", "retire"}, NextOperation, part' = [t \in TableSet |-> part'[t]]
  PROVE  Operation' /\ excl' = {} /\ doomed' = {}
<1>1. Len(Tables) = 2
  BY DEF Tables
<1>2. at \in {1, 2}
  BY DEF Operation
<1>3. CASE pc = "create" /\ ~required
  BY <1>2, <1>3 DEF Operation, NextOperation
<1>4. CASE ~(pc = "create" /\ ~required) /\ at < Len(Tables)
  BY <1>1, <1>2, <1>4 DEF Operation, NextOperation
<1>5. CASE ~(pc = "create" /\ ~required) /\ ~(at < Len(Tables))
  BY <1>1, <1>2, <1>5 DEF Operation, NextOperation
<1> QED BY <1>3, <1>4, <1>5

(* When the operation at hand ends and the database stays as it is, what   *)
(* frames hold is untouched.                                               *)
LEMMA EndedOperation ==
  ASSUME RetentionInv, pc \in {"create", "retire"}, NextOperation,
         UNCHANGED <<database, shared, builder>>
  PROVE  RetentionInv'
<1>1. Operation' /\ excl' = {} /\ doomed' = {}
  BY OperationEnds DEF RetentionInv, Operation, database
<1> QED BY <1>1 DEF RetentionInv, FrameHolds, LocksExclude, DoomedUnreferenced,
                    NoDanglingReference, database, shared, builder

(* The end of a frame: it lets go of its tables, and its candle with them. *)
LEMMA EndedFrame ==
  ASSUME RetentionInv, EndFrame, refs' = refs
  PROVE  RetentionInv'
BY DEF RetentionInv, EndFrame, FrameHolds, LocksExclude, Operation, DoomedUnreferenced,
       Referenced, NoDanglingReference, pass

(* Every step keeps the invariant, one case per action.                    *)
LEMMA RetentionStep ==
  ASSUME RetentionInv, [Next]_vars
  PROVE  RetentionInv'
<1> USE DEF RetentionInv, database, shared, builder, task, pass
<1>1. CASE EnsureRequired \/ Maintain
  BY <1>1 DEF EnsureRequired, Maintain, BeginPass, FrameHolds, LocksExclude, Operation,
       DoomedUnreferenced, NoDanglingReference, None
<1>2. CASE Lock
  <2>1. Needs \notin held
    BY <1>2 DEF Lock, CanLock
  <2> QED BY <1>2, <2>1 DEF Lock, FrameHolds, LocksExclude, Operation, DoomedUnreferenced,
                 Referenced, NoDanglingReference
<1>3. CASE Wait
  <2>1. pc \in {"create", "retire"}
    BY <1>3 DEF Wait, Needs
  <2> QED BY <1>3, <2>1 DEF Wait, FrameHolds, LocksExclude, Operation, DoomedUnreferenced,
                 Referenced, NoDanglingReference
<1>4. CASE LockTimeout
  BY <1>4, EndedOperation DEF LockTimeout, Operation
<1>5. CASE CreatePartition
  <2>1. doomed = {}
    BY <1>5 DEF CreatePartition, DoomedUnreferenced
  <2>2. /\ part' = [t \in TableSet |-> part'[t]]
        /\ part["candles"] \subseteq part'["candles"]
    BY <1>5 DEF CreatePartition, Operation, TableSet
  <2> QED BY <1>5, <2>1, <2>2 DEF CreatePartition, FrameHolds, LocksExclude, Operation,
                 DoomedUnreferenced, Referenced, NoDanglingReference
<1>6. CASE RetireTable
  <2>1. at = 1 /\ Table = "members"
    BY <1>6 DEF RetireTable, Operation, Table, Tables
  <2>2. /\ part' = [t \in TableSet |-> part'[t]]
        /\ part'["candles"] = part["candles"] /\ refs' \subseteq refs
    BY <1>6, <2>1 DEF RetireTable, DropTables, Operation, TableSet
  <2>3. Operation' /\ excl' = {} /\ doomed' = {}
    BY <1>6, <2>2, OperationEnds DEF RetireTable
  <2> QED BY <1>6, <2>2, <2>3 DEF RetireTable, FrameHolds, LocksExclude, DoomedUnreferenced,
                 NoDanglingReference
<1>7. CASE Precheck
  <2>1. at = 2
    BY <1>7 DEF Precheck, Operation, Table, Tables
  <2> QED BY <1>7, <2>1 DEF Precheck, FrameHolds, LocksExclude, Operation, DoomedUnreferenced,
                 Referenced, NoDanglingReference
<1>8. CASE Recheck
  <2>1. /\ pc = "retire" /\ at = 2
        /\ \A m \in doomed' : ~Referenced(m)
    BY <1>8 DEF Recheck, Operation, DoomedUnreferenced
  <2> QED BY <1>8, <2>1 DEF Recheck, FrameHolds, LocksExclude, Operation, DoomedUnreferenced,
                 Referenced, NoDanglingReference
<1>9. CASE CommitOperation
  <2>1. /\ part' = [t \in TableSet |-> part'[t]]
        /\ refs' \subseteq refs
    BY <1>9 DEF CommitOperation, DropTables, Operation
  <2>2. Operation' /\ excl' = {} /\ doomed' = {}
    BY <1>9, <2>1, OperationEnds DEF CommitOperation
  <2>3. CASE doomed = {}
    <3>1. part'["candles"] = part["candles"]
      BY <1>9, <2>3 DEF CommitOperation, DropTables, Operation, TableSet
    <3> QED BY <1>9, <2>1, <2>2, <3>1 DEF CommitOperation, FrameHolds, LocksExclude,
                   DoomedUnreferenced, NoDanglingReference
  <2>4. CASE doomed # {}
    <3>1. frame = None
      BY <2>4 DEF DoomedUnreferenced, LocksExclude, FrameHolds
    <3>2. part'["candles"] = part["candles"] \ doomed
      BY <1>9, <2>4 DEF CommitOperation, DropTables, Operation, DoomedUnreferenced, TableSet,
           Table, Tables
    <3>3. \A r \in refs : r[2] \in part["candles"] \ doomed
      BY DEF DoomedUnreferenced, Referenced, NoDanglingReference
    <3> QED BY <1>9, <2>1, <2>2, <3>1, <3>2, <3>3 DEF CommitOperation, FrameHolds, LocksExclude,
                   DoomedUnreferenced, NoDanglingReference
  <2> QED BY <2>3, <2>4
<1>10. CASE EndPass
  <2>1. want = "none" /\ month = None /\ doomed = {}
    BY <1>10 DEF EndPass, Operation, DoomedUnreferenced
  <2> QED BY <1>10, <2>1 DEF EndPass, FrameHolds, LocksExclude, Operation, DoomedUnreferenced,
                 NoDanglingReference
<1>11. CASE InsertMember
  <2>1. CASE frame \in part["members"]
    BY <1>11, <2>1 DEF InsertMember, CanShare, FrameHolds, LocksExclude, Operation,
         DoomedUnreferenced, Referenced, NoDanglingReference, TableSet
  <2>2. CASE frame \notin part["members"]
    BY <1>11, <2>2, EndedFrame DEF InsertMember
  <2> QED BY <2>1, <2>2
<1>12. CASE CommitFrame
  <2>1. doomed = {} /\ candle \in part["candles"]
    BY <1>12 DEF CommitFrame, FrameHolds, LocksExclude, DoomedUnreferenced
  <2> QED BY <1>12, <2>1 DEF CommitFrame, EndFrame, FrameHolds, LocksExclude, Operation,
                 DoomedUnreferenced, Referenced, NoDanglingReference
<1>13. CASE ReadCandles
  BY <1>13 DEF ReadCandles, CanShare, FrameHolds, LocksExclude, Operation, DoomedUnreferenced,
       Referenced, NoDanglingReference, TableSet
<1>14. CASE EndRead \/ (\E t \in TableSet : ReadTable(t))
  BY <1>14 DEF EndRead, ReadTable, FrameHolds, LocksExclude, Operation, DoomedUnreferenced,
       Referenced, NoDanglingReference
<1>15. CASE Refresh \/ RefreshFails \/ Restart \/ Tick \/ UNCHANGED vars
  BY <1>15 DEF Refresh, RefreshFails, Restart, Tick, vars, FrameHolds, LocksExclude, Operation,
       DoomedUnreferenced, Referenced, NoDanglingReference
<1>16. CASE StatementFails
  BY <1>16, EndedOperation DEF StatementFails
<1>17. CASE FrameFails
  BY <1>17, EndedFrame DEF FrameFails
<1>18. CASE Crash
  BY <1>18 DEF Crash, FrameHolds, LocksExclude, Operation, DoomedUnreferenced,
       NoDanglingReference
<1> QED BY <1>1, <1>2, <1>3, <1>4, <1>5, <1>6, <1>7, <1>8, <1>9, <1>10, <1>11, <1>12, <1>13,
          <1>14, <1>15, <1>16, <1>17, <1>18 DEF Next, Maintenance, Builder

(* No stored frame refers to a candle of a dropped month: the recheck      *)
(* under both locks, held until the commit, and the lock a frame holds     *)
(* from the read of its candle on (drop_expired_partitions,                *)
(* FrameRepository.finalize).                                              *)
THEOREM RetentionIsSafe == Spec => []NoDanglingReference
<1>1. RetentionInv => NoDanglingReference
  BY DEF RetentionInv
<1> QED BY RetentionInit, RetentionStep, <1>1, PTL DEF Spec

-----------------------------------------------------------------------------
(* What is dropped is past retention. A pass is placed: it is required     *)
(* exactly while the process starts, and only a deferrable one retires.    *)
PassPlaced ==
    /\ asOf <= clock
    /\ month # None => pc = "retire"
    /\ want # "none" => pc \in {"create", "retire"}
    /\ pc # "off" => phase = (IF required THEN "starting" ELSE "running")
    /\ pc = "retire" => ~required
    /\ pc \in {"create", "retire"} => at \in {1, 2}
    /\ pc # "retire" => doomed = {}

(* Whatever it lists, has picked or has found unreferenced lies before the *)
(* cutoff of the moment it began at, hence of every later one.             *)
Listed ==
    /\ pc = "retire" => \A m \in left : m < CutoffMonth(asOf)
    /\ month # None => month < CutoffMonth(asOf)
    /\ \A m \in doomed : m < CutoffMonth(asOf)

ExpiryInv == RetentionTypeOK /\ PassPlaced /\ Listed

LEMMA LeastMonth ==
  ASSUME NEW S \in SUBSET Months, S # {}
  PROVE  Min(S) \in S
<1> DEFINE Q == OpToRel(<, Nat)
<1>1. IsWellFoundedOn(Q, Nat)
  BY NatLessThanWellFounded
<1>2. \A x, y \in Nat : y < x => <<y, x>> \in Q
  BY DEF OpToRel
<1>3. S \subseteq Nat
  BY RetentionAssumption DEF Months
<1> HIDE DEF Q
<1>4. PICK x \in S : \A y \in S : ~(<<y, x>> \in Q)
  BY <1>1, <1>3, WFMin
<1>5. \A y \in S : x <= y
  <2> SUFFICES ASSUME NEW y \in S PROVE x <= y
    OBVIOUS
  <2>1. x \in Nat /\ y \in Nat
    BY <1>3
  <2>2. ~(y < x)
    BY <1>2, <1>4, <2>1
  <2> QED BY <2>1, <2>2
<1> QED BY <1>5 DEF Min

(* The months a pass creates or retires, whenever it begins.               *)
LEMMA PassMonths ==
  ASSUME RetentionTypeOK, NEW t \in TableSet, NEW now \in StartClock .. MaxClock,
         NEW req \in BOOLEAN
  PROVE  /\ ToCreate(t, now, req) \subseteq Months
         /\ ToRetire(t, now) \subseteq Months
         /\ \A m \in ToRetire(t, now) : m < CutoffMonth(now)
<1>1. part[t] \subseteq Months
  BY DEF RetentionTypeOK, StoreTyped
<1>2. RetainedMonths(now) \subseteq Months /\ now \in Months
  BY RetentionAssumption DEF RetainedMonths, CutoffMonth, Months
<1> QED BY <1>1, <1>2 DEF ToCreate, ToRetire

LEMMA TableNamed ==
  /\ Len(Tables) = 2
  /\ \A i \in {1, 2} : Tables[i] \in TableSet
BY DEF Tables, TableSet

(* The end of an operation lists for the next one what lies past the cutoff. *)
LEMMA NextListed ==
  ASSUME ExpiryInv, pc \in {"create", "retire"}, NextOperation
  PROVE  /\ pc' \in {"create", "retire", "end"} /\ at' \in {1, 2}
         /\ left' \subseteq Months
         /\ month' = None /\ doomed' = {} /\ excl' = {} /\ want' = "none"
         /\ pc' = "retire" => ~required /\ \A m \in left' : m < CutoffMonth(asOf)
<1>1. at \in {1, 2} /\ asOf \in StartClock .. MaxClock /\ required \in BOOLEAN
  BY DEF ExpiryInv, RetentionTypeOK, PassTyped, FlagsTyped, PassPlaced
<1>2. month' = None /\ doomed' = {} /\ excl' = {} /\ want' = "none"
  BY DEF NextOperation
<1>3. CASE pc = "create" /\ ~required
  <2>1. pc' = "retire" /\ left' = ToRetire(Table, asOf) /\ at' = at
    BY <1>3 DEF NextOperation
  <2>2. Table \in TableSet
    BY <1>1, TableNamed DEF Table
  <2> QED BY <1>1, <1>2, <1>3, <2>1, <2>2, PassMonths DEF ExpiryInv
<1>4. CASE ~(pc = "create" /\ ~required) /\ at < Len(Tables)
  <2>1. pc' = "create" /\ at' = at + 1 /\ left' = ToCreate(Tables[at + 1], asOf, required)
    BY <1>4 DEF NextOperation
  <2>2. at = 1
    BY <1>1, <1>4, TableNamed
  <2>3. Tables[at + 1] \in TableSet
    BY <2>2, TableNamed
  <2> QED BY <1>1, <1>2, <2>1, <2>2, <2>3, PassMonths DEF ExpiryInv
<1>5. CASE ~(pc = "create" /\ ~required) /\ ~(at < Len(Tables))
  <2>1. pc' = "end" /\ left' = {} /\ at' = at
    BY <1>5 DEF NextOperation
  <2> QED BY <1>1, <1>2, <2>1
<1> QED BY <1>3, <1>4, <1>5

(* ... so the end of an operation keeps the invariant, whatever it dropped. *)
LEMMA ExpiryEnds ==
  ASSUME ExpiryInv, pc \in {"create", "retire"}, NextOperation,
         UNCHANGED <<clock, shared, builder, phase, task, asOf, required>>,
         part' \in [TableSet -> SUBSET Months], refs' \subseteq Months \X Months,
         deferred' \in BOOLEAN, failed' \in BOOLEAN, faults' \in 0 .. MaxFaults
  PROVE  ExpiryInv'
<1>1. /\ pc' \in {"create", "retire", "end"} /\ at' \in {1, 2}
      /\ left' \subseteq Months
      /\ month' = None /\ doomed' = {} /\ excl' = {} /\ want' = "none"
      /\ pc' = "retire" => ~required /\ \A m \in left' : m < CutoffMonth(asOf)
  BY NextListed
<1>2. StoreTyped' /\ LocksTyped' /\ TasksTyped' /\ PassTyped' /\ FlagsTyped'
  <2>1. StoreTyped'
    BY DEF ExpiryInv, RetentionTypeOK, StoreTyped
  <2>2. LocksTyped'
    BY <1>1 DEF ExpiryInv, RetentionTypeOK, LocksTyped, shared
  <2>3. TasksTyped'
    BY DEF ExpiryInv, RetentionTypeOK, TasksTyped, builder, task
  <2>4. PassTyped'
    BY <1>1, TableNamed DEF ExpiryInv, RetentionTypeOK, PassTyped
  <2>5. FlagsTyped'
    BY DEF ExpiryInv, RetentionTypeOK, FlagsTyped, task
  <2> QED BY <2>1, <2>2, <2>3, <2>4, <2>5
<1>3. PassPlaced'
  BY <1>1 DEF ExpiryInv, PassPlaced
<1>4. Listed'
  BY <1>1 DEF Listed, CutoffMonth
<1> QED BY <1>2, <1>3, <1>4 DEF ExpiryInv, RetentionTypeOK

(* What an operation drops, and the rows that go with it.                  *)
LEMMA DropsTyped ==
  ASSUME RetentionTypeOK, NEW t \in TableSet, NEW months, DropTables(t, months)
  PROVE  /\ part' \in [TableSet -> SUBSET Months] /\ refs' \subseteq Months \X Months
         /\ \A u \in TableSet : part'[u] = IF u = t THEN part[u] \ months ELSE part[u]
         /\ refs' \subseteq refs
         /\ \A r \in refs \ refs' : t = "members" /\ r[1] \in months
BY DEF RetentionTypeOK, StoreTyped, DropTables

LEMMA BoundsTyped ==
  /\ MaxFrames \in Nat /\ MaxRetries \in Nat /\ MaxFaults \in Nat
  /\ StartClock \in StartClock .. MaxClock /\ MaxClock \in Nat /\ StartClock \in Nat
BY RetentionAssumption

LEMMA ExpiryInit == Init => ExpiryInv
<1> SUFFICES ASSUME Init PROVE ExpiryInv
  OBVIOUS
<1>1. {0, StartClock} \subseteq Months
  BY RetentionAssumption DEF Months
<1>2. part \in [TableSet -> SUBSET Months]
  BY <1>1 DEF Init
<1>3. StoreTyped
  BY BoundsTyped, <1>2 DEF Init, StoreTyped
<1>4. LocksTyped /\ TasksTyped
  BY BoundsTyped DEF Init, LocksTyped, TasksTyped
<1>5. PassTyped
  BY BoundsTyped, TableNamed DEF Init, PassTyped
<1>6. FlagsTyped
  BY DEF Init, FlagsTyped
<1>7. PassPlaced /\ Listed
  BY RetentionAssumption DEF Init, PassPlaced, Listed
<1> QED BY <1>3, <1>4, <1>5, <1>6, <1>7 DEF ExpiryInv, RetentionTypeOK

(* Every step keeps it, one case per action and one step per part.         *)
LEMMA ExpiryStep ==
  ASSUME ExpiryInv, [Next]_vars
  PROVE  ExpiryInv'
<1> USE DEF ExpiryInv, RetentionTypeOK, database, shared, builder, task, pass
<1>1. CASE EnsureRequired \/ Maintain
  <2>1. PICK req \in BOOLEAN : /\ BeginPass(req)
                               /\ phase = (IF req THEN "starting" ELSE "running")
    BY <1>1 DEF EnsureRequired, Maintain
  <2>2. clock \in StartClock .. MaxClock /\ Tables[1] \in TableSet /\ clock <= clock
    BY RetentionAssumption, TableNamed DEF StoreTyped
  <2>3. ToCreate(Tables[1], clock, req) \subseteq Months
    BY <2>2, PassMonths
  <2>4. StoreTyped'
    BY <1>1, <2>1, <2>2, <2>3, TableNamed DEF BeginPass, StoreTyped
  <2>5. LocksTyped'
    BY <1>1, <2>1, <2>2, <2>3, TableNamed DEF BeginPass, LocksTyped
  <2>6. TasksTyped'
    BY <1>1, <2>1, <2>2, <2>3, TableNamed DEF BeginPass, TasksTyped
  <2>7. PassTyped'
    BY <1>1, <2>1, <2>2, <2>3, TableNamed DEF BeginPass, PassTyped
  <2>8. FlagsTyped'
    BY <1>1, <2>1, <2>2, <2>3, TableNamed DEF BeginPass, FlagsTyped
  <2>9. PassPlaced'
    BY <1>1, <2>1, <2>2, <2>3, TableNamed DEF BeginPass, PassPlaced, PassTyped
  <2>10. Listed'
    BY <1>1, <2>1, <2>2, <2>3, TableNamed DEF BeginPass, Listed, CutoffMonth, PassPlaced
  <2> QED BY <2>4, <2>5, <2>6, <2>7, <2>8, <2>9, <2>10
<1>2. CASE Lock
  <2>1. Needs \in TableSet
    BY <1>2, TableNamed DEF Lock, Needs, Table, TableSet, PassPlaced
  <2>2. StoreTyped'
    BY <1>2, <2>1 DEF Lock, StoreTyped
  <2>3. LocksTyped'
    BY <1>2, <2>1 DEF Lock, LocksTyped
  <2>4. TasksTyped'
    BY <1>2, <2>1 DEF Lock, TasksTyped
  <2>5. PassTyped'
    BY <1>2, <2>1 DEF Lock, PassTyped
  <2>6. FlagsTyped'
    BY <1>2, <2>1 DEF Lock, FlagsTyped
  <2>7. PassPlaced'
    BY <1>2, <2>1 DEF Lock, PassPlaced, PassTyped
  <2>8. Listed'
    BY <1>2, <2>1 DEF Lock, Listed, CutoffMonth, PassPlaced
  <2> QED BY <2>2, <2>3, <2>4, <2>5, <2>6, <2>7, <2>8
<1>3. CASE Wait
  <2>1. Needs \in TableSet /\ pc \in {"create", "retire"}
    BY <1>3, TableNamed DEF Wait, Needs, Table, TableSet, PassPlaced
  <2>2. StoreTyped'
    BY <1>3, <2>1 DEF Wait, StoreTyped
  <2>3. LocksTyped'
    BY <1>3, <2>1 DEF Wait, LocksTyped
  <2>4. TasksTyped'
    BY <1>3, <2>1 DEF Wait, TasksTyped
  <2>5. PassTyped'
    BY <1>3, <2>1 DEF Wait, PassTyped
  <2>6. FlagsTyped'
    BY <1>3, <2>1 DEF Wait, FlagsTyped
  <2>7. PassPlaced'
    BY <1>3, <2>1 DEF Wait, PassPlaced, PassTyped
  <2>8. Listed'
    BY <1>3, <2>1 DEF Wait, Listed, CutoffMonth, PassPlaced
  <2> QED BY <2>2, <2>3, <2>4, <2>5, <2>6, <2>7, <2>8
<1>4. CASE LockTimeout
  <2>1. pc \in {"create", "retire"}
    BY <1>4 DEF LockTimeout, PassPlaced
  <2> QED BY <1>4, <2>1, ExpiryEnds DEF LockTimeout, StoreTyped, FlagsTyped
<1>5. CASE CreatePartition
  <2>1. Table \in TableSet /\ Min(left) \in Months
    BY <1>5, TableNamed, LeastMonth DEF CreatePartition, PassTyped, PassPlaced, Table
  <2>2. StoreTyped'
    BY <1>5, <2>1 DEF CreatePartition, StoreTyped
  <2>3. LocksTyped'
    BY <1>5, <2>1 DEF CreatePartition, LocksTyped
  <2>4. TasksTyped'
    BY <1>5, <2>1 DEF CreatePartition, TasksTyped
  <2>5. PassTyped'
    BY <1>5, <2>1 DEF CreatePartition, PassTyped
  <2>6. FlagsTyped'
    BY <1>5, <2>1 DEF CreatePartition, FlagsTyped
  <2>7. PassPlaced'
    BY <1>5, <2>1 DEF CreatePartition, PassPlaced, PassTyped
  <2>8. Listed'
    BY <1>5, <2>1 DEF CreatePartition, Listed, CutoffMonth, PassPlaced
  <2> QED BY <2>2, <2>3, <2>4, <2>5, <2>6, <2>7, <2>8
<1>6. CASE RetireTable
  <2>1. Table \in TableSet
    BY <1>6, TableNamed DEF RetireTable, PassPlaced, Table
  <2>2. part' \in [TableSet -> SUBSET Months] /\ refs' \subseteq Months \X Months
    BY <1>6, <2>1, DropsTyped DEF RetireTable
  <2> QED BY <1>6, <2>2, ExpiryEnds DEF RetireTable, StoreTyped, FlagsTyped
<1>9. CASE CommitOperation
  <2>1. Table \in TableSet
    BY <1>9, TableNamed DEF CommitOperation, PassPlaced, Table
  <2>2. part' \in [TableSet -> SUBSET Months] /\ refs' \subseteq Months \X Months
    BY <1>9, <2>1, DropsTyped DEF CommitOperation
  <2> QED BY <1>9, <2>2, ExpiryEnds DEF CommitOperation, StoreTyped, FlagsTyped
<1>7. CASE Precheck
  <2>1. Min(left) \in left
    BY <1>7, LeastMonth DEF Precheck, PassTyped
  <2>2. StoreTyped'
    BY <1>7, <2>1 DEF Precheck, StoreTyped
  <2>3. LocksTyped'
    BY <1>7, <2>1 DEF Precheck, LocksTyped
  <2>4. TasksTyped'
    BY <1>7, <2>1 DEF Precheck, TasksTyped
  <2>5. PassTyped'
    BY <1>7, <2>1 DEF Precheck, PassTyped
  <2>6. FlagsTyped'
    BY <1>7, <2>1 DEF Precheck, FlagsTyped
  <2>7. PassPlaced'
    BY <1>7, <2>1 DEF Precheck, PassPlaced, PassTyped
  <2>8. Listed'
    BY <1>7, <2>1 DEF Precheck, Listed, CutoffMonth, PassPlaced
  <2> QED BY <2>2, <2>3, <2>4, <2>5, <2>6, <2>7, <2>8
<1>8. CASE Recheck
  <2>1. pc = "retire"
    BY <1>8 DEF Recheck, PassPlaced
  <2>2. StoreTyped'
    BY <1>8, <2>1 DEF Recheck, StoreTyped
  <2>3. LocksTyped'
    BY <1>8, <2>1 DEF Recheck, LocksTyped
  <2>4. TasksTyped'
    BY <1>8, <2>1 DEF Recheck, TasksTyped
  <2>5. PassTyped'
    BY <1>8, <2>1 DEF Recheck, PassTyped
  <2>6. FlagsTyped'
    BY <1>8, <2>1 DEF Recheck, FlagsTyped
  <2>7. PassPlaced'
    BY <1>8, <2>1 DEF Recheck, PassPlaced, PassTyped
  <2>8. Listed'
    BY <1>8, <2>1 DEF Recheck, Listed, CutoffMonth, PassPlaced
  <2> QED BY <2>2, <2>3, <2>4, <2>5, <2>6, <2>7, <2>8
<1>10. CASE EndPass
  <2>1. doomed = {} /\ month = None /\ want = "none"
    BY <1>10 DEF EndPass, PassPlaced
  <2>2. StartClock <= clock
    BY RetentionAssumption DEF StoreTyped
  <2>3. StoreTyped'
    BY <1>10, <2>1, <2>2, BoundsTyped, TableNamed DEF EndPass, StoreTyped
  <2>4. LocksTyped'
    BY <1>10, <2>1, <2>2, BoundsTyped, TableNamed DEF EndPass, LocksTyped
  <2>5. TasksTyped'
    BY <1>10, <2>1, <2>2, BoundsTyped, TableNamed DEF EndPass, TasksTyped
  <2>6. PassTyped'
    BY <1>10, <2>1, <2>2, BoundsTyped, TableNamed DEF EndPass, PassTyped
  <2>7. FlagsTyped'
    BY <1>10, <2>1, <2>2, BoundsTyped, TableNamed DEF EndPass, FlagsTyped
  <2>8. PassPlaced'
    BY <1>10, <2>1, <2>2, BoundsTyped, TableNamed DEF EndPass, PassPlaced, PassTyped
  <2>9. Listed'
    BY <1>10, <2>1, <2>2, BoundsTyped, TableNamed DEF EndPass, Listed, CutoffMonth, PassPlaced
  <2> QED BY <2>3, <2>4, <2>5, <2>6, <2>7, <2>8, <2>9
<1>11. CASE InsertMember \/ CommitFrame \/ FrameFails
  <2>1. faults' \in 0 .. MaxFaults
    BY <1>11, BoundsTyped DEF InsertMember, CommitFrame, FrameFails, EndFrame, StoreTyped
  <2>2. refs' \subseteq Months \X Months
    BY <1>11 DEF InsertMember, CommitFrame, FrameFails, EndFrame, StoreTyped, TasksTyped
  <2>3. held' \subseteq TableSet
    BY <1>11 DEF InsertMember, CommitFrame, FrameFails, EndFrame, LocksTyped, TableSet
  <2>4. StoreTyped'
    BY <1>11, <2>1, <2>2, <2>3 DEF InsertMember, CommitFrame, FrameFails, EndFrame, StoreTyped
  <2>5. LocksTyped'
    BY <1>11, <2>1, <2>2, <2>3 DEF InsertMember, CommitFrame, FrameFails, EndFrame, LocksTyped
  <2>6. TasksTyped'
    BY <1>11, <2>1, <2>2, <2>3 DEF InsertMember, CommitFrame, FrameFails, EndFrame, TasksTyped
  <2>7. PassTyped'
    BY <1>11, <2>1, <2>2, <2>3 DEF InsertMember, CommitFrame, FrameFails, EndFrame, PassTyped
  <2>8. FlagsTyped'
    BY <1>11, <2>1, <2>2, <2>3 DEF InsertMember, CommitFrame, FrameFails, EndFrame, FlagsTyped
  <2>9. PassPlaced'
    BY <1>11, <2>1, <2>2, <2>3 DEF InsertMember, CommitFrame, FrameFails, EndFrame, PassPlaced, PassTyped
  <2>10. Listed'
    BY <1>11, <2>1, <2>2, <2>3 DEF InsertMember, CommitFrame, FrameFails, EndFrame, Listed, CutoffMonth, PassPlaced
  <2> QED BY <2>4, <2>5, <2>6, <2>7, <2>8, <2>9, <2>10
<1>12. CASE ReadCandles
  <2>1. part["candles"] \subseteq Months /\ {clock - 1, clock} \subseteq Months
    BY RetentionAssumption DEF StoreTyped, Months, TableSet
  <2>2. {"candles"} \subseteq TableSet
    BY DEF TableSet
  <2>3. StoreTyped'
    BY <1>12, <2>1, <2>2 DEF ReadCandles, StoreTyped
  <2>4. LocksTyped'
    BY <1>12, <2>1, <2>2 DEF ReadCandles, LocksTyped
  <2>5. TasksTyped'
    BY <1>12, <2>1, <2>2, BoundsTyped DEF ReadCandles, TasksTyped
  <2>6. PassTyped'
    BY <1>12, <2>1, <2>2 DEF ReadCandles, PassTyped
  <2>7. FlagsTyped'
    BY <1>12, <2>1, <2>2 DEF ReadCandles, FlagsTyped
  <2>8. PassPlaced'
    BY <1>12, <2>1, <2>2 DEF ReadCandles, PassPlaced, PassTyped
  <2>9. Listed'
    BY <1>12, <2>1, <2>2 DEF ReadCandles, Listed, CutoffMonth, PassPlaced
  <2> QED BY <2>3, <2>4, <2>5, <2>6, <2>7, <2>8, <2>9
<1>13. CASE EndRead \/ (\E t \in TableSet : ReadTable(t))
  <2>1. StoreTyped'
    BY <1>13 DEF EndRead, ReadTable, StoreTyped
  <2>2. LocksTyped'
    BY <1>13 DEF EndRead, ReadTable, LocksTyped
  <2>3. TasksTyped'
    BY <1>13 DEF EndRead, ReadTable, TasksTyped
  <2>4. PassTyped'
    BY <1>13 DEF EndRead, ReadTable, PassTyped
  <2>5. FlagsTyped'
    BY <1>13 DEF EndRead, ReadTable, FlagsTyped
  <2>6. PassPlaced'
    BY <1>13 DEF EndRead, ReadTable, PassPlaced, PassTyped
  <2>7. Listed'
    BY <1>13 DEF EndRead, ReadTable, Listed, CutoffMonth, PassPlaced
  <2> QED BY <2>1, <2>2, <2>3, <2>4, <2>5, <2>6, <2>7
<1>14. CASE Refresh \/ Restart \/ UNCHANGED vars
  <2>1. StoreTyped'
    BY <1>14 DEF Refresh, Restart, vars, StoreTyped
  <2>2. LocksTyped'
    BY <1>14 DEF Refresh, Restart, vars, LocksTyped
  <2>3. TasksTyped'
    BY <1>14 DEF Refresh, Restart, vars, TasksTyped
  <2>4. PassTyped'
    BY <1>14 DEF Refresh, Restart, vars, PassTyped
  <2>5. FlagsTyped'
    BY <1>14 DEF Refresh, Restart, vars, FlagsTyped
  <2>6. PassPlaced'
    BY <1>14 DEF Refresh, Restart, vars, PassPlaced, PassTyped
  <2>7. Listed'
    BY <1>14 DEF Refresh, Restart, vars, Listed, CutoffMonth, PassPlaced
  <2> QED BY <2>1, <2>2, <2>3, <2>4, <2>5, <2>6, <2>7
<1>18. CASE RefreshFails
  <2>1. StoreTyped'
    BY <1>18, BoundsTyped DEF RefreshFails, StoreTyped
  <2>2. LocksTyped'
    BY <1>18 DEF RefreshFails, LocksTyped
  <2>3. TasksTyped'
    BY <1>18 DEF RefreshFails, TasksTyped
  <2>4. PassTyped'
    BY <1>18 DEF RefreshFails, PassTyped
  <2>5. FlagsTyped'
    BY <1>18 DEF RefreshFails, FlagsTyped
  <2>6. PassPlaced'
    BY <1>18 DEF RefreshFails, PassPlaced, PassTyped
  <2>7. Listed'
    BY <1>18 DEF RefreshFails, Listed, CutoffMonth, PassPlaced
  <2> QED BY <2>1, <2>2, <2>3, <2>4, <2>5, <2>6, <2>7
<1>15. CASE Tick
  <2>1. StoreTyped'
    BY <1>15, RetentionAssumption DEF Tick, StoreTyped
  <2>2. LocksTyped'
    BY <1>15, RetentionAssumption DEF Tick, LocksTyped
  <2>3. TasksTyped'
    BY <1>15, RetentionAssumption DEF Tick, TasksTyped
  <2>4. PassTyped'
    BY <1>15, RetentionAssumption DEF Tick, PassTyped
  <2>5. FlagsTyped'
    BY <1>15, RetentionAssumption DEF Tick, FlagsTyped
  <2>6. PassPlaced'
    BY <1>15, RetentionAssumption DEF Tick, PassPlaced, PassTyped, StoreTyped
  <2>7. Listed'
    BY <1>15, RetentionAssumption DEF Tick, Listed, CutoffMonth, PassPlaced
  <2> QED BY <2>1, <2>2, <2>3, <2>4, <2>5, <2>6, <2>7
<1>16. CASE StatementFails
  <2>1. pc \in {"create", "retire"} /\ failed' \in BOOLEAN /\ deferred' \in BOOLEAN
    BY <1>16 DEF StatementFails, FlagsTyped
  <2>2. faults' \in 0 .. MaxFaults
    BY <1>16, BoundsTyped DEF StatementFails, StoreTyped
  <2> QED BY <1>16, <2>1, <2>2, ExpiryEnds DEF StatementFails, StoreTyped
<1>17. CASE Crash
  <2>1. StartClock <= clock
    BY RetentionAssumption DEF StoreTyped
  <2>2. StoreTyped'
    BY <1>17, <2>1, BoundsTyped, TableNamed DEF Crash, StoreTyped
  <2>3. LocksTyped'
    BY <1>17, <2>1, BoundsTyped, TableNamed DEF Crash, LocksTyped
  <2>4. TasksTyped'
    BY <1>17, <2>1, BoundsTyped, TableNamed DEF Crash, TasksTyped
  <2>5. PassTyped'
    BY <1>17, <2>1, BoundsTyped, TableNamed DEF Crash, PassTyped
  <2>6. FlagsTyped'
    BY <1>17, <2>1, BoundsTyped, TableNamed DEF Crash, FlagsTyped
  <2>7. PassPlaced'
    BY <1>17, <2>1, BoundsTyped, TableNamed DEF Crash, PassPlaced, PassTyped
  <2>8. Listed'
    BY <1>17, <2>1, BoundsTyped, TableNamed DEF Crash, Listed, CutoffMonth, PassPlaced
  <2> QED BY <2>2, <2>3, <2>4, <2>5, <2>6, <2>7, <2>8
<1> QED BY <1>1, <1>2, <1>3, <1>4, <1>5, <1>6, <1>7, <1>8, <1>9, <1>10, <1>11, <1>12, <1>13,
          <1>14, <1>15, <1>16, <1>17, <1>18 DEF Next, Maintenance, Builder

(* A drop takes months that were listed, and only in a pass that retires.  *)
LEMMA DropsListed ==
  ASSUME ExpiryInv, NEW t \in TableSet, NEW months, DropTables(t, months),
         months # {} => pc = "retire",
         \A m \in months : m \in Months /\ m < CutoffMonth(asOf)
  PROVE  /\ \A u \in TableSet : \A m \in part[u] \ part'[u] :
               phase = "running" /\ m < CutoffMonth(clock)
         /\ \A r \in refs \ refs' : r[1] \notin part'["members"]
<1>1. /\ \A u \in TableSet : part'[u] = IF u = t THEN part[u] \ months ELSE part[u]
      /\ \A r \in refs \ refs' : t = "members" /\ r[1] \in months
  BY DropsTyped DEF ExpiryInv, RetentionTypeOK
<1>2. /\ asOf \in Int /\ clock \in Int /\ asOf <= clock /\ Retention \in Int
      /\ \A m \in months : m \in Int
  BY RetentionAssumption DEF ExpiryInv, RetentionTypeOK, StoreTyped, PassTyped, PassPlaced, Months
<1>3. \A m \in months : m < CutoffMonth(clock)
  BY <1>2 DEF CutoffMonth
<1>4. months # {} => phase = "running"
  BY DEF ExpiryInv, PassPlaced
<1> QED BY <1>1, <1>3, <1>4 DEF TableSet

LEMMA ExpiryOfStep ==
  ASSUME ExpiryInv, [Next]_vars
  PROVE  /\ \A t \in TableSet : \A m \in part[t] \ part'[t] :
               phase = "running" /\ m < CutoffMonth(clock)
         /\ \A r \in refs \ refs' : r[1] \notin part'["members"]
<1> USE DEF database
<1>1. CASE RetireTable
  <2>1. Table \in TableSet /\ left \subseteq Months
    BY <1>1, TableNamed DEF RetireTable, ExpiryInv, RetentionTypeOK, PassTyped, PassPlaced, Table
  <2> QED BY <1>1, <2>1, DropsListed DEF RetireTable, ExpiryInv, Listed
<1>2. CASE CommitOperation
  <2>1. Table \in TableSet /\ doomed \subseteq Months
    BY <1>2, TableNamed DEF CommitOperation, ExpiryInv, RetentionTypeOK, PassTyped, PassPlaced,
         Table
  <2> QED BY <1>2, <2>1, DropsListed DEF CommitOperation, ExpiryInv, PassPlaced, Listed
<1>3. CASE CreatePartition
  BY <1>3 DEF CreatePartition, ExpiryInv, RetentionTypeOK, StoreTyped
<1>4. CASE InsertMember \/ CommitFrame \/ FrameFails
  BY <1>4 DEF InsertMember, CommitFrame, FrameFails, EndFrame
<1>5. CASE UNCHANGED database
  BY <1>5
<1>6. CASE EnsureRequired \/ Maintain \/ Lock \/ Wait \/ LockTimeout \/ Precheck \/ Recheck \/ EndPass
  BY <1>5, <1>6 DEF EnsureRequired, Maintain, BeginPass, Lock, Wait, LockTimeout, Precheck,
       Recheck, EndPass
<1>7. CASE \/ ReadCandles \/ EndRead \/ (\E t \in TableSet : ReadTable(t))
           \/ Refresh \/ RefreshFails \/ Restart \/ Tick \/ StatementFails \/ Crash
           \/ UNCHANGED vars
  BY <1>5, <1>7 DEF ReadCandles, EndRead, ReadTable, Refresh, RefreshFails, Restart, Tick,
       StatementFails, Crash, vars
<1> QED BY <1>1, <1>2, <1>3, <1>4, <1>6, <1>7 DEF Next, Maintenance, Builder

(* The values of the variables: no month before the first or further ahead *)
(* than a pass creates, no retry and no fault beyond its bound.            *)
THEOREM RetentionTypeCorrect == Spec => []RetentionTypeOK
<1>1. ExpiryInv => RetentionTypeOK
  BY DEF ExpiryInv
<1> QED BY ExpiryInit, ExpiryStep, <1>1, PTL DEF Spec

(* A partition is dropped, and a member row lost, only by a deferrable     *)
(* pass and only once the whole month is past retention: what a pass       *)
(* listed lay before the cutoff of its beginning, and the cutoff only      *)
(* moves on (drop_expired_partitions, _create_partitions).                 *)
THEOREM OnlyExpiredDropped == Spec => DropsOnlyExpired
BY ExpiryInit, ExpiryStep, ExpiryOfStep, PTL DEF Spec, DropsOnlyExpired
=============================================================================
