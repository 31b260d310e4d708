----------------------- MODULE ObservationSeriesProofs -----------------------
(***************************************************************************)
(* Two promises of a stored series. What the watermark and the newest row  *)
(* enclose is stored: the bootstrap works back from the watermark, the      *)
(* catch-up forward from the newest row, the repair between two rows, and   *)
(* none of them leaves a listed bucket behind. And a frame replayed later   *)
(* sees no value that its live measurement could not have seen.             *)
(***************************************************************************)
EXTENDS ObservationSeries, FiniteSetTheorems, WellFoundedInduction, TLAPS

-----------------------------------------------------------------------------
(* Least and greatest members.                                             *)

LEMMA LeastExists ==
    ASSUME NEW S \in SUBSET Nat, S # {}
    PROVE  \E x \in S : \A y \in S : x <= y
<1> DEFINE R == OpToRel(<, Nat)
<1>1. IsWellFoundedOn(R, Nat)
  BY NatLessThanWellFounded
<1>2. \A x, y \in Nat : y < x => <<y, x>> \in R
  BY DEF OpToRel
<1> HIDE DEF R
<1>3. PICK x \in S : \A y \in S : ~(<<y, x>> \in R)
  BY <1>1, WFMin
<1>4. ASSUME NEW y \in S
      PROVE  x <= y
  <2>1. x \in Nat /\ y \in Nat
    OBVIOUS
  <2>2. ~(y < x)
    BY <1>2, <1>3, <2>1
  <2> QED BY <2>1, <2>2
<1> QED BY <1>4

LEMMA GreatestExists ==
    ASSUME NEW n \in Nat, NEW S \in SUBSET (0 .. n), S # {}
    PROVE  \E x \in S : \A y \in S : y <= x
<1> DEFINE Mirror == {n - y : y \in S}
<1>1. \A y \in S : y \in 0 .. n /\ n - y \in Nat /\ n - y \in Mirror
  OBVIOUS
<1>2. Mirror \in SUBSET Nat /\ Mirror # {}
  BY <1>1
<1>3. PICK m \in Mirror : \A z \in Mirror : m <= z
  <2> HIDE DEF Mirror
  <2> QED BY <1>2, LeastExists
<1>4. PICK x \in S : m = n - x
  BY <1>3
<1>5. ASSUME NEW y \in S
      PROVE  y <= x
  <2>1. y \in 0 .. n /\ x \in 0 .. n /\ m <= n - y
    BY <1>1, <1>3
  <2> QED BY <1>4, <2>1
<1> QED BY <1>5

LEMMA BucketsFacts ==
    /\ LastBucket \in Nat /\ StartBucket \in Nat /\ Warmup \in Nat \ {0} /\ Retain \in Nat
    /\ PageSize \in Nat \ {0} /\ Window \in Nat \ {0} /\ WindowsPerRound \in Nat \ {0}
    /\ MaxDisturbances \in Nat
    /\ StartBucket <= LastBucket /\ Warmup <= StartBucket
    /\ Buckets \in SUBSET Nat /\ IsFiniteSet(Buckets)
<1>1. /\ LastBucket \in Nat /\ StartBucket \in Nat /\ MaxDisturbances \in Nat
      /\ Warmup \in Nat \ {0} /\ PageSize \in Nat \ {0} /\ Window \in Nat \ {0}
      /\ WindowsPerRound \in Nat \ {0}
  BY SeriesAssumption
<1>2. IsFiniteSet(Buckets)
  BY <1>1, FS_Interval DEF Buckets
<1>3. StartBucket \in Warmup .. LastBucket
  BY SeriesAssumption
<1>4. Retain \in Nat
  BY SeriesAssumption
<1> QED BY <1>1, <1>2, <1>3, <1>4 DEF Buckets

LEMMA NewestBucket ==
    ASSUME NEW S \in SUBSET Buckets, S # {}
    PROVE  /\ Max(S) \in S /\ \A b \in S : b <= Max(S)
           /\ Min(S) \in S /\ \A b \in S : Min(S) <= b
<1>1. S \in SUBSET Nat /\ S \in SUBSET (0 .. LastBucket) /\ LastBucket \in Nat
  BY BucketsFacts DEF Buckets
<1>2. PICK x \in S : \A y \in S : y <= x
  BY <1>1, GreatestExists
<1>3. \A y \in S : x >= y
  BY <1>1, <1>2
<1>4. PICK z \in S : \A y \in S : z <= y
  BY <1>1, LeastExists
<1>5. Max(S) \in S /\ \A y \in S : Max(S) >= y
  BY <1>3 DEF Max
<1>6. Min(S) \in S /\ \A y \in S : Min(S) <= y
  BY <1>4 DEF Min
<1> QED BY <1>1, <1>5, <1>6

LEMMA LesserOfTwo ==
    ASSUME NEW x \in Int, NEW y \in Int
    PROVE  Min({x, y}) = IF x <= y THEN x ELSE y
<1>1. PICK z \in {x, y} : \A u \in {x, y} : z <= u
  <2>1. CASE x <= y
    BY <2>1
  <2>2. CASE ~(x <= y)
    BY <2>2
  <2> QED BY <2>1, <2>2
<1>2. Min({x, y}) \in {x, y} /\ \A u \in {x, y} : Min({x, y}) <= u
  BY <1>1 DEF Min
<1> QED BY <1>2

(* One answer of the exchange: the upper part of the range, never empty if  *)
(* the range is not.                                                       *)
LEMMA PageIsUpper ==
    ASSUME NEW range \in SUBSET Buckets
    PROVE  /\ NewestPage(range) \subseteq range
           /\ range # {} => NewestPage(range) # {}
           /\ \A b \in NewestPage(range) : \A c \in range : b <= c => c \in NewestPage(range)
<1> DEFINE Later(b) == {c \in range : c > b}
<1>1. PageSize \in Nat \ {0} /\ range \in SUBSET Nat /\ IsFiniteSet(range)
  BY BucketsFacts, FS_Subset
<1>2. range # {} => NewestPage(range) # {}
  <2> SUFFICES ASSUME range # {} PROVE NewestPage(range) # {}
    OBVIOUS
  <2>1. Max(range) \in range /\ \A c \in range : c <= Max(range)
    BY NewestBucket
  <2>2. Later(Max(range)) = {}
    <3>1. \A c \in range : c \in Nat /\ c <= Max(range) /\ Max(range) \in Nat
      BY <1>1, <2>1
    <3>2. \A c \in range : ~(c > Max(range))
      <4> SUFFICES ASSUME NEW c \in range PROVE ~(c > Max(range))
        OBVIOUS
      <4> QED BY <3>1
    <3> QED BY <3>2
  <2>3. Cardinality(Later(Max(range))) < PageSize
    <3> HIDE DEF Later
    <3> QED BY <1>1, <2>2, FS_EmptySet
  <2> QED BY <2>1, <2>3 DEF NewestPage
<1>3. ASSUME NEW b \in NewestPage(range), NEW c \in range, b <= c
      PROVE  c \in NewestPage(range)
  <2>1. b \in range /\ Cardinality(Later(b)) < PageSize
    BY DEF NewestPage
  <2>2. Later(c) \subseteq Later(b)
    <3> SUFFICES ASSUME NEW d \in range, d > c PROVE d > b
      OBVIOUS
    <3>1. b \in Nat /\ c \in Nat /\ d \in Nat
      BY <1>1, <2>1
    <3> QED BY <1>3, <3>1
  <2>3. IsFiniteSet(Later(b)) /\ IsFiniteSet(Later(c))
    BY <1>1, FS_Subset
  <2>4. /\ Cardinality(Later(c)) <= Cardinality(Later(b))
        /\ Cardinality(Later(b)) \in Nat /\ Cardinality(Later(c)) \in Nat
    <3> HIDE DEF Later
    <3> QED BY <2>2, <2>3, FS_Subset, FS_CardinalityType
  <2>5. Cardinality(Later(c)) < PageSize
    <3> HIDE DEF Later
    <3> QED BY <1>1, <2>1, <2>4
  <2> QED BY <2>5 DEF NewestPage
<1> QED BY <1>2, <1>3 DEF NewestPage

-----------------------------------------------------------------------------
(* Rows, and what a batch makes of them.                                    *)

RowSet(f) == \E buckets \in SUBSET Buckets : f \in [buckets -> Row]

LEMMA RowSetFacts ==
    ASSUME NEW f, RowSet(f)
    PROVE  /\ DOMAIN f \in SUBSET Buckets /\ f \in [DOMAIN f -> Row]
           /\ f = <<>> <=> DOMAIN f = {}
           /\ \A b \in DOMAIN f : f[b].value \in 1 .. 2 /\ f[b].ingested \in Nat \cup {Legacy}
<1>1. DOMAIN f \in SUBSET Buckets /\ f \in [DOMAIN f -> Row]
  BY DEF RowSet
<1>2. f = <<>> <=> DOMAIN f = {}
  BY <1>1
<1> QED BY <1>1, <1>2 DEF Row

LEMMA HeldRows ==
    ASSUME SeriesTypeOK
    PROVE  RowSet(batch) /\ RowSet(fixed) /\ RowSet(<<>>)
<1>1. <<>> \in [{} -> Row]
  OBVIOUS
<1>2. RowSet(<<>>)
  BY <1>1 DEF RowSet
<1> QED BY <1>2 DEF SeriesTypeOK, RowSet

LEMMA FetchedRows ==
    ASSUME SeriesTypeOK, NEW buckets \in SUBSET Listed
    PROVE  /\ RowSet(ToRows(buckets)) /\ DOMAIN ToRows(buckets) = buckets
           /\ \A b \in buckets : ToRows(buckets)[b] = [value |-> listed[b], ingested |-> clock]
<1>1. \A b \in Listed : b \in Buckets /\ listed[b] \in 1 .. 2
  BY DEF Listed, SeriesTypeOK
<1>2. \A b \in buckets : [value |-> listed[b], ingested |-> clock] \in Row
  BY <1>1 DEF Row, SeriesTypeOK
<1>3. ToRows(buckets) \in [buckets -> Row]
  BY <1>2 DEF ToRows
<1>4. buckets \in SUBSET Buckets
  BY <1>1
<1> QED BY <1>3, <1>4 DEF ToRows, RowSet

LEMMA RowsKinds ==
    ASSUME SeriesTypeOK, NEW b \in Buckets
    PROVE  /\ b \in Stored => rows[b] \in Row /\ rows[b].value \in 1 .. 2
           /\ b \notin Stored => rows[b] = NoRow /\ rows[b].value = 0
BY DEF SeriesTypeOK, Stored, Row, NoRow

LEMMA UpsertFacts ==
    ASSUME SeriesTypeOK, NEW f, RowSet(f), rows' = Upsert(f)
    PROVE  /\ rows' \in [Buckets -> Row \cup {NoRow}]
           /\ Stored' = Stored \cup DOMAIN f
           /\ \A b \in Buckets : rows'[b] = rows[b] \/ (b \in DOMAIN f /\ rows'[b] = f[b])
<1>1. \A b \in Buckets : rows'[b] = IF b \notin DOMAIN f THEN rows[b]
                                    ELSE IF rows[b].value = f[b].value THEN rows[b] ELSE f[b]
  BY DEF Upsert
<1>2. \A b \in Buckets : rows'[b] = rows[b] \/ (b \in DOMAIN f /\ rows'[b] = f[b])
  BY <1>1
<1>3. DOMAIN f \in SUBSET Buckets /\ \A b \in DOMAIN f : f[b] \in Row /\ f[b].value \in 1 .. 2
  BY RowSetFacts
<1>4. \A b \in DOMAIN f : f[b] # NoRow
  BY <1>3 DEF NoRow
<1>5. rows' \in [Buckets -> Row \cup {NoRow}]
  <2>1. \A b \in Buckets : rows'[b] \in Row \cup {NoRow}
    BY <1>2, <1>3 DEF SeriesTypeOK
  <2> QED BY <2>1 DEF Upsert
<1>6. ASSUME NEW b \in Buckets
      PROVE  b \in Stored' <=> b \in Stored \cup DOMAIN f
  <2>1. b \in Stored' <=> rows'[b] # NoRow
    BY DEF Stored
  <2>2. CASE b \notin DOMAIN f
    BY <1>1, <2>1, <2>2 DEF Stored
  <2>3. CASE b \in DOMAIN f
    <3>1. rows[b].value = f[b].value => b \in Stored
      BY <1>3, <2>3, RowsKinds
    <3> QED BY <1>1, <1>4, <2>1, <2>3, <3>1 DEF Stored
  <2> QED BY <2>2, <2>3
<1>7. Stored' \subseteq Buckets /\ Stored \subseteq Buckets
  BY DEF Stored
<1> QED BY <1>2, <1>3, <1>5, <1>6, <1>7

-----------------------------------------------------------------------------
(* Which steps change what.                                                 *)

RowsStep == BootstrapStore \/ CatchupStore \/ Prune \/ RepairStore

Publishing == \E b \in Buckets : Publish(b) \/ Correct(b)

LEMMA WhoWrites ==
    ASSUME [Next]_vars
    PROVE  /\ RowsStep \/ rows' = rows
           /\ Tick \/ (clock' = clock /\ seen' = seen)
           /\ Publishing \/ listed' = listed
           /\ holes' = holes /\ kind' = kind /\ legacyGaps' = legacyGaps
           /\ repair' \in {"on", "off"} \/ repair' = repair
<1>1. CASE Round
  BY <1>1 DEF Round, StartRound, BootstrapSkip, BootstrapFloor, BootstrapFetch,
              BootstrapStore, BootstrapMark, CatchupRead, CatchupEmpty, CatchupFetch,
              CatchupStore, Prune, RetryBucket, RowsStep, Environment, exchange, history, script
<1>2. CASE Repair
  BY <1>2 DEF Repair, RepairStart, RepairFetch, RepairStore, RepairEnd, RowsStep,
              exchange, history
<1>3. CASE Restart \/ RequestFails \/ StorageFails \/ Crash
  BY <1>3 DEF Restart, RequestFails, StorageFails, Crash, Environment, exchange, history, script
<1>4. CASE Tick \/ SetActive \/ UNCHANGED vars
  BY <1>4 DEF Tick, SetActive, vars, exchange, history, script
<1>5. CASE Publishing
  BY <1>5 DEF Publishing, Publish, Correct, history, script
<1> QED BY <1>1, <1>2, <1>3, <1>4, <1>5 DEF Next, Publishing

\* The reconciler's own variables, under the steps of the others.
LEMMA OthersLeave ==
    ASSUME Repair \/ Tick \/ SetActive \/ Publishing \/ UNCHANGED vars
    PROVE  /\ synced' = synced /\ truncated' = truncated
           /\ pc' = pc /\ boundary' = boundary /\ retrying' = retrying /\ batch' = batch
           /\ since' = since /\ until' = until /\ windows' = windows
BY DEF Repair, RepairStart, RepairFetch, RepairStore, RepairEnd, Tick, SetActive,
       Publishing, Publish, Correct, vars, reconciler

LEMMA RoundLeaves ==
    ASSUME Round \/ Restart \/ RequestFails \/ StorageFails \/ Crash
    PROVE  /\ repair' = repair /\ todo' = todo /\ fixed' = fixed
           /\ active' = active /\ listed' = listed
           /\ disturbances' = disturbances
              \/ (disturbances < MaxDisturbances /\ disturbances' = disturbances + 1)
BY DEF Round, StartRound, BootstrapSkip, BootstrapFloor, BootstrapFetch, BootstrapStore,
       BootstrapMark, CatchupRead, CatchupEmpty, CatchupFetch, CatchupStore, Prune,
       RetryBucket, Restart, RequestFails, StorageFails, Crash, Disturb,
       Environment, exchange, script

-----------------------------------------------------------------------------
LEMMA WindowEndFacts ==
    ASSUME SeriesTypeOK
    PROVE  WindowEnd \in Int /\ WindowEnd <= until
<1>1. until \in Int /\ since + 4 * Window \in Int
  BY BucketsFacts DEF SeriesTypeOK
<1> QED BY <1>1, LesserOfTwo DEF WindowEnd

LEMMA NewestFacts ==
    ASSUME SeriesTypeOK, Stored # {}
    PROVE  /\ Newest \in Nat /\ \E c \in Stored : Newest = BucketTime(c)
           /\ \A b \in Stored : BucketTime(b) <= Newest
<1>1. Stored \in SUBSET Buckets
  BY DEF Stored
<1>2. Max(Stored) \in Stored /\ \A b \in Stored : b <= Max(Stored)
  BY <1>1, NewestBucket
<1>3. \A b \in Stored : b \in Nat
  BY <1>1, BucketsFacts
<1> QED BY <1>2, <1>3 DEF Newest, BucketTime

LEMMA HeldExtremes ==
    ASSUME NEW f, RowSet(f), f # <<>>
    PROVE  /\ Min(DOMAIN f) \in DOMAIN f /\ \A b \in DOMAIN f : Min(DOMAIN f) <= b
           /\ Max(DOMAIN f) \in DOMAIN f /\ \A b \in DOMAIN f : b <= Max(DOMAIN f)
           /\ Min(DOMAIN f) \in Nat /\ Max(DOMAIN f) \in Nat
<1>1. DOMAIN f \in SUBSET Buckets /\ DOMAIN f # {}
  BY RowSetFacts
<1> QED BY <1>1, NewestBucket, BucketsFacts

LEMMA SeriesTypeInit == Init => SeriesTypeOK
<1> SUFFICES ASSUME Init PROVE SeriesTypeOK
  OBVIOUS
<1>1. PICK old \in OldRows :
         /\ old \subseteq Listed
         /\ rows = InitialRows(old)
         /\ synced = IF old = {} THEN None ELSE BucketTime(Min(old))
         /\ legacyGaps = IF old = {} THEN {} ELSE (Min(old) .. Max(old)) \ old
  BY DEF Init
<1>2. old \in SUBSET Buckets
  BY <1>1 DEF Listed
<1>3. [value |-> 1, ingested |-> Legacy] \in Row
  BY DEF Row, Legacy
<1>4. rows \in [Buckets -> Row \cup {NoRow}]
  BY <1>1, <1>3 DEF InitialRows
<1>5. synced \in Int /\ legacyGaps \subseteq Buckets
  <2>1. CASE old = {}
    BY <1>1, <2>1 DEF None
  <2>2. CASE old # {}
    <3>1. Min(old) \in Buckets /\ Max(old) \in Buckets
      BY <1>2, <2>2, NewestBucket
    <3>2. Min(old) .. Max(old) \subseteq Buckets
      BY <3>1, BucketsFacts DEF Buckets
    <3>3. Min(old) \in Nat
      BY <3>1, BucketsFacts
    <3>4. BucketTime(Min(old)) \in Int
      BY <3>3 DEF BucketTime
    <3> QED BY <1>1, <2>2, <3>2, <3>4
  <2> QED BY <2>1, <2>2
<1>6. clock \in Nat
  BY BucketsFacts DEF Init, BucketTime
<1>7. listed \in [Buckets -> 0 .. 2]
  BY DEF Init
<1>8. \E buckets \in SUBSET Buckets : <<>> \in [buckets -> Row]
  <2>1. <<>> \in [{} -> Row] /\ {} \in SUBSET Buckets
    OBVIOUS
  <2> QED BY <2>1
<1>9. 0 \in 0 .. MaxDisturbances /\ 0 \in 0 .. WindowsPerRound /\ None \in Int
  BY BucketsFacts DEF None
<1>10. batch = <<>> /\ fixed = <<>> /\ DOMAIN batch \cup DOMAIN fixed = {}
  BY DEF Init
<1> QED BY <1>4, <1>5, <1>6, <1>7, <1>8, <1>9, <1>10 DEF Init, SeriesTypeOK

\* The reconciler's locals are typed again after each of its steps.
LEMMA LocalsTypeStep ==
    ASSUME SeriesTypeOK, [Next]_vars
    PROVE  /\ synced' \in Int /\ truncated' \in BOOLEAN
           /\ pc' \in {"started", "idle", "bootstrap", "seed", "catchup", "fetch",
                       "prune", "check", "dead", "down"}
           /\ boundary' \in Int /\ retrying' \in BOOLEAN
           /\ since' \in Int /\ until' \in Int /\ windows' \in 0 .. WindowsPerRound
<1> DEFINE LocalsOK ==
        /\ synced \in Int /\ truncated \in BOOLEAN
        /\ pc \in {"started", "idle", "bootstrap", "seed", "catchup", "fetch",
                   "prune", "check", "dead", "down"}
        /\ boundary \in Int /\ retrying \in BOOLEAN
        /\ since \in Int /\ until \in Int /\ windows \in 0 .. WindowsPerRound
<1> SUFFICES LocalsOK'
  OBVIOUS
<1>1. LocalsOK
  BY DEF SeriesTypeOK
<1>2. /\ clock \in Nat /\ None \in Int /\ 0 \in 0 .. WindowsPerRound
      /\ clock % 4 \in 0 .. 3 /\ FloorToBoundary(clock) \in Int /\ TargetStart \in Int
      /\ WindowsPerRound \in Nat
  BY BucketsFacts DEF SeriesTypeOK, None, FloorToBoundary, TargetStart
<1>3. EndInstrument => /\ pc' \in {"idle", "prune"} /\ since' = None /\ until' = None
                       /\ windows' = 0
  BY DEF EndInstrument, AfterInstrument
<1>4. ASSUME NEW from \in Int, NextWindow(from)
      PROVE  /\ pc' \in {"idle", "prune", "fetch"} /\ since' \in Int /\ until' \in Int
             /\ windows' \in 0 .. WindowsPerRound
  <2>1. CASE EndInstrument
    BY <1>2, <1>3, <2>1
  <2>2. CASE /\ windows + 1 < WindowsPerRound
             /\ pc' = "fetch" /\ since' = from /\ windows' = windows + 1 /\ until' = until
    BY <1>1, <1>2, <2>2
  <2> QED BY <1>4, <2>1, <2>2 DEF NextWindow
<1>5. CASE Repair \/ Tick \/ SetActive \/ Publishing \/ UNCHANGED vars
  BY <1>1, <1>5, OthersLeave
<1>6. CASE StartRound \/ BootstrapSkip \/ BootstrapFloor \/ BootstrapFetch
  BY <1>1, <1>2, <1>6 DEF StartRound, BootstrapSkip, BootstrapFloor, BootstrapFetch
<1>7. CASE BootstrapStore
  <2>1. BucketTime(Min(DOMAIN batch)) \in Int
    BY <1>7, HeldRows, HeldExtremes DEF BootstrapStore, BucketTime
  <2> QED BY <1>1, <1>7, <2>1 DEF BootstrapStore
<1>8. CASE BootstrapMark
  BY <1>1, <1>2, <1>8 DEF BootstrapMark
<1>9. CASE CatchupRead
  <2>1. CASE Stored = {}
    BY <1>1, <1>2, <1>3, <1>9, <2>1 DEF CatchupRead
  <2>2. CASE Stored # {}
    BY <1>1, <1>2, <1>9, <2>2, NewestFacts DEF CatchupRead
  <2> QED BY <2>1, <2>2
<1>10. CASE CatchupEmpty
  BY <1>1, <1>4, <1>10, WindowEndFacts DEF CatchupEmpty
<1>11. CASE CatchupFetch
  BY <1>1, <1>11 DEF CatchupFetch
<1>12. CASE CatchupStore
  <2>1. BucketTime(Max(DOMAIN batch)) \in Int
    BY <1>12, HeldRows, HeldExtremes DEF CatchupStore, BucketTime
  <2> QED BY <1>1, <1>4, <1>12, <2>1 DEF CatchupStore
<1>13. CASE Prune \/ RetryBucket
  BY <1>1, <1>2, <1>13 DEF Prune, RetryBucket
<1>14. CASE RequestFails
  BY <1>1, <1>2, <1>3, <1>14 DEF RequestFails
<1>15. CASE StorageFails
  BY <1>1, <1>2, <1>3, <1>15 DEF StorageFails, ClearLocals
<1>16. CASE Crash \/ Restart
  BY <1>1, <1>2, <1>16 DEF Crash, Restart, ClearLocals
<1> HIDE DEF LocalsOK
<1> QED BY <1>5, <1>6, <1>7, <1>8, <1>9, <1>10, <1>11, <1>12, <1>13, <1>14, <1>15, <1>16
        DEF Next, Round, Publishing

\* What the reconciler and the script hold was fetched by them.
LEMMA BatchStep ==
    ASSUME SeriesTypeOK, [Next]_vars
    PROVE  \/ batch' = batch \/ batch' = <<>>
           \/ \E buckets \in SUBSET Listed : batch' = ToRows(buckets)
<1>1. CASE BootstrapFetch
  <2>1. BootstrapRange \in SUBSET Listed /\ BootstrapRange \in SUBSET Buckets
    BY DEF BootstrapRange, Listed
  <2>2. NewestPage(BootstrapRange) \in SUBSET Listed
    BY <2>1, PageIsUpper
  <2> QED BY <1>1, <2>2 DEF BootstrapFetch
<1>2. CASE CatchupFetch
  <2>1. CatchupRange \in SUBSET Listed /\ CatchupRange \in SUBSET Buckets
    BY DEF CatchupRange, Listed
  <2>2. CatchupPage \in SUBSET Listed
    BY <2>1, PageIsUpper DEF CatchupPage
  <2> QED BY <1>2, <2>2 DEF CatchupFetch
<1>3. CASE Round
  BY <1>1, <1>2, <1>3
     DEF Round, StartRound, BootstrapSkip, BootstrapFloor, BootstrapStore, BootstrapMark,
         CatchupRead, CatchupEmpty, CatchupStore, Prune, RetryBucket
<1>4. CASE Restart \/ RequestFails \/ StorageFails \/ Crash
  BY <1>4 DEF Restart, RequestFails, StorageFails, Crash, ClearLocals
<1> QED BY <1>3, <1>4, OthersLeave DEF Next, Publishing

LEMMA FixedStep ==
    ASSUME [Next]_vars
    PROVE  \/ fixed' = fixed \/ fixed' = <<>>
           \/ \E buckets \in SUBSET Listed : fixed' = ToRows(buckets)
<1>1. CASE RepairFetch
  <2>1. PICK w \in todo : fixed' = ToRows(w \cap Listed) \/ fixed' = fixed
    BY <1>1 DEF RepairFetch
  <2>2. w \cap Listed \in SUBSET Listed
    OBVIOUS
  <2> QED BY <2>1, <2>2
<1>2. CASE Tick \/ SetActive \/ Publishing \/ UNCHANGED vars
  BY <1>2 DEF Tick, SetActive, Publishing, Publish, Correct, vars, script
<1>3. CASE Repair
  BY <1>1, <1>3 DEF Repair, RepairStart, RepairStore, RepairEnd
<1> QED BY <1>2, <1>3, RoundLeaves DEF Next, Publishing

\* What was fetched was listed, and stays listed.
LEMMA HeldTypeStep ==
    ASSUME SeriesTypeOK, [Next]_vars
    PROVE  /\ RowSet(batch') /\ RowSet(fixed')
           /\ \A b \in DOMAIN batch' \cup DOMAIN fixed' : b \in Listed'
           /\ listed' \in [Buckets -> 0 .. 2] /\ Listed \subseteq Listed'
<1>1. /\ RowSet(batch) /\ RowSet(fixed) /\ RowSet(<<>>) /\ DOMAIN <<>> = {}
      /\ \A b \in DOMAIN batch \cup DOMAIN fixed : b \in Listed
  BY HeldRows, RowSetFacts DEF SeriesTypeOK, Listed
<1>2. listed' \in [Buckets -> 0 .. 2] /\ Listed \subseteq Listed'
  <2>1. CASE Publishing
    BY <2>1 DEF Publishing, Publish, Correct, SeriesTypeOK, Listed
  <2> QED BY <2>1, WhoWrites DEF SeriesTypeOK, Listed
<1>3. RowSet(batch') /\ DOMAIN batch' \subseteq Listed
  BY <1>1, BatchStep, FetchedRows
<1>4. RowSet(fixed') /\ DOMAIN fixed' \subseteq Listed
  BY <1>1, FixedStep, FetchedRows
<1> QED BY <1>2, <1>3, <1>4

LEMMA RowsTypeStep ==
    ASSUME SeriesTypeOK, [Next]_vars
    PROVE  rows' \in [Buckets -> Row \cup {NoRow}]
<1>1. CASE Prune
  BY <1>1 DEF Prune, SeriesTypeOK
<1>2. CASE BootstrapStore \/ CatchupStore \/ RepairStore
  <2>1. rows' = Upsert(batch) \/ rows' = Upsert(fixed)
    BY <1>2 DEF BootstrapStore, CatchupStore, RepairStore
  <2> QED BY <2>1, HeldRows, UpsertFacts
<1> QED BY <1>1, <1>2, WhoWrites DEF RowsStep, SeriesTypeOK

LEMMA SeenTypeStep ==
    ASSUME SeriesTypeOK, [Next]_vars
    PROVE  clock' \in Nat /\ seen' \in [Buckets -> SUBSET (Buckets \X (1 .. 2))]
<1>1. CASE Tick
  <2>1. \A b \in Stored : b \in Buckets /\ rows[b].value \in 1 .. 2
    BY RowsKinds DEF Stored
  <2>2. Versions(Usable(Frame)) \subseteq Buckets \X (1 .. 2)
    BY <2>1 DEF Versions, Usable
  <2>3. OnTheWay \subseteq Buckets \X (1 .. 2)
    BY HeldRows, RowSetFacts DEF OnTheWay
  <2>4. clock' = clock + 2 /\ seen' \in {seen, [seen EXCEPT ![Frame] = Versions(Usable(Frame)) \cup OnTheWay]}
    BY <1>1 DEF Tick
  <2>5. Versions(Usable(Frame)) \cup OnTheWay \in SUBSET (Buckets \X (1 .. 2))
    BY <2>2, <2>3
  <2> HIDE DEF OnTheWay, Versions, Usable, Frame
  <2> QED BY <2>4, <2>5 DEF SeriesTypeOK
<1> QED BY <1>1, WhoWrites DEF SeriesTypeOK

LEMMA ScriptTypeStep ==
    ASSUME SeriesTypeOK, [Next]_vars
    PROVE  /\ repair' \in {"on", "off"} /\ todo' \subseteq SUBSET Buckets
           /\ active' \in BOOLEAN /\ disturbances' \in 0 .. MaxDisturbances
<1>1. /\ repair \in {"on", "off"} /\ todo \subseteq SUBSET Buckets /\ active \in BOOLEAN
      /\ MaxDisturbances \in Nat /\ disturbances \in 0 .. MaxDisturbances
  BY BucketsFacts DEF SeriesTypeOK
<1>2. disturbances' = disturbances
        \/ (disturbances < MaxDisturbances /\ disturbances' = disturbances + 1)
      => disturbances' \in 0 .. MaxDisturbances
  BY <1>1
<1>3. CASE RepairStart
  <2>1. todo' = UNION {GapWindows(g) : g \in Gaps}
    BY <1>3 DEF RepairStart
  <2>2. ASSUME NEW g \in Gaps, NEW w \in GapWindows(g)
        PROVE  w \subseteq Buckets
    <3>1. g[1] \in Buckets /\ g[2] \in Buckets
      BY DEF Gaps, Stored
    <3>2. g[1] + 1 .. g[2] - 1 \subseteq Buckets
      BY <3>1, BucketsFacts DEF Buckets
    <3> QED BY <3>2 DEF GapWindows
  <2> QED BY <1>1, <1>2, <1>3, <2>1, <2>2 DEF RepairStart, Disturb, exchange
<1>4. CASE RepairFetch
  BY <1>1, <1>2, <1>4 DEF RepairFetch, Disturb, exchange
<1>5. CASE RepairStore \/ RepairEnd
  BY <1>1, <1>5 DEF RepairStore, RepairEnd, exchange
<1>6. CASE Tick \/ SetActive \/ Publishing \/ UNCHANGED vars
  BY <1>1, <1>2, <1>6
     DEF Tick, SetActive, Publishing, Publish, Correct, Disturb, vars, script, exchange
<1>7. CASE Round \/ Restart \/ RequestFails \/ StorageFails \/ Crash
  BY <1>1, <1>2, <1>7, RoundLeaves
<1> QED BY <1>3, <1>4, <1>5, <1>6, <1>7 DEF Next, Repair, Publishing

LEMMA SeriesTypeStep == SeriesTypeOK /\ [Next]_vars => SeriesTypeOK'
<1> SUFFICES ASSUME SeriesTypeOK, [Next]_vars PROVE SeriesTypeOK'
  OBVIOUS
<1>1. kind' \in Kinds /\ holes' \in HoleChoices /\ legacyGaps' \subseteq Buckets
  BY WhoWrites DEF SeriesTypeOK
<1> QED BY <1>1, LocalsTypeStep, HeldTypeStep, RowsTypeStep, SeenTypeStep, ScriptTypeStep
        DEF SeriesTypeOK, RowSet, Listed

(* The type invariant of the series, its reconciler and the repair script.  *)
THEOREM SeriesTypeCorrect == Spec => []SeriesTypeOK
BY SeriesTypeInit, SeriesTypeStep, PTL DEF Spec

-----------------------------------------------------------------------------
(* What a frame saw. A value that is or will be available to a replay was   *)
(* there, or on its way, when the live measurement read.                    *)

SeenAt(T) ==
    /\ Versions(Usable(T)) \subseteq seen[T]
    /\ \A b \in DOMAIN batch :
         batch[b].ingested <= Decision(T) => <<b, batch[b].value>> \in seen[T]
    /\ \A b \in DOMAIN fixed :
         fixed[b].ingested <= Decision(T) => <<b, fixed[b].value>> \in seen[T]

OddClock == \E k \in Nat : clock = 2 * k + 1

SeenInv == /\ OddClock
           /\ \A T \in StartBucket .. LastBucket : clock > Decision(T) => SeenAt(T)

LEMMA ClockFacts ==
    ASSUME SeriesTypeOK, OddClock
    PROVE  /\ clock % 4 \in {1, 3} /\ Frame \in Nat
           /\ clock = 4 * Frame + (clock % 4)
<1>1. PICK k \in Nat : clock = 2 * k + 1
  BY DEF OddClock
<1>2. clock % 4 \in 0 .. 3 /\ clock \div 4 \in Nat /\ clock = 4 * (clock \div 4) + (clock % 4)
  BY <1>1
<1> QED BY <1>1, <1>2 DEF Frame

\* A row fetched now is stamped after every decision time that has passed.
LEMMA FetchedLate ==
    ASSUME SeriesTypeOK, NEW T \in StartBucket .. LastBucket, clock > Decision(T),
           NEW buckets \in SUBSET Listed, NEW b \in DOMAIN ToRows(buckets)
    PROVE  ~(ToRows(buckets)[b].ingested <= Decision(T))
<1>1. ToRows(buckets)[b].ingested = clock
  BY DEF ToRows
<1>2. clock \in Nat /\ Decision(T) \in Int
  BY BucketsFacts DEF SeriesTypeOK, Decision
<1> QED BY <1>1, <1>2

LEMMA OddClockStep ==
    ASSUME OddClock, [Next]_vars
    PROVE  OddClock'
<1>1. PICK k \in Nat : clock = 2 * k + 1
  BY DEF OddClock
<1>2. CASE clock' = clock
  BY <1>1, <1>2 DEF OddClock
<1>3. CASE clock' = clock + 2
  <2>1. k + 1 \in Nat /\ clock' = 2 * (k + 1) + 1
    BY <1>1, <1>3
  <2> QED BY <2>1 DEF OddClock
<1> QED BY <1>2, <1>3, WhoWrites DEF Tick

LEMMA SeenStep ==
    ASSUME SeriesTypeOK, SeenInv, [Next]_vars
    PROVE  SeenInv'
<1>1. OddClock'
  BY OddClockStep DEF SeenInv
<1> SUFFICES ASSUME NEW T \in StartBucket .. LastBucket, clock' > Decision(T)
             PROVE  SeenAt(T)'
  BY <1>1 DEF SeenInv, Decision
<1>2. T \in Buckets /\ T \in Nat
  BY BucketsFacts DEF Buckets
<1>3. CASE Tick
  <2>1. /\ rows' = rows /\ batch' = batch /\ fixed' = fixed
        /\ clock' = clock + 2
        /\ seen' = IF clock % 4 = 1
                   THEN [seen EXCEPT ![Frame] = Versions(Usable(Frame)) \cup OnTheWay]
                   ELSE seen
    BY <1>3 DEF Tick, reconciler, script
  <2>2. CASE T = Frame /\ clock % 4 = 1
    <3>1. seen'[T] = Versions(Usable(T)) \cup OnTheWay
      BY <1>2, <2>1, <2>2 DEF SeriesTypeOK
    <3>2. Versions(Usable(T))' = Versions(Usable(T))
      BY <2>1 DEF Versions, Usable, Available, Stored
    <3> QED BY <2>1, <3>1, <3>2 DEF SeenAt, OnTheWay
  <2>3. CASE ~(T = Frame /\ clock % 4 = 1)
    <3>1. seen'[T] = seen[T]
      BY <1>2, <2>1, <2>3 DEF SeriesTypeOK
    <3>2. clock > Decision(T)
      <4>1. /\ clock % 4 \in {1, 3} /\ Frame \in Nat /\ clock \in Nat
            /\ clock = 4 * Frame + (clock % 4) /\ clock + 2 > 4 * T + 2
        BY <2>1, ClockFacts DEF SeenInv, SeriesTypeOK, Decision
      <4> HIDE DEF Frame
      <4> QED BY <1>2, <2>3, <4>1 DEF Decision
    <3>3. SeenAt(T)
      BY <3>2 DEF SeenInv
    <3> QED BY <2>1, <3>1, <3>3 DEF SeenAt, Versions, Usable, Available, Stored
  <2> QED BY <2>2, <2>3
<1>4. CASE ~Tick
  <2>1. clock' = clock /\ seen' = seen /\ clock > Decision(T)
    BY <1>4, WhoWrites
  <2>2. SeenAt(T)
    BY <2>1 DEF SeenInv
  <2>3. Versions(Usable(T))' \subseteq seen[T]
    <3> SUFFICES ASSUME NEW b \in Buckets, rows'[b] # NoRow, b <= T, Available(b, T)'
                 PROVE  <<b, rows'[b].value>> \in seen[T]
      BY DEF Versions, Usable, Stored
    <3>1. CASE rows'[b] = rows[b]
      BY <2>2, <3>1 DEF SeenAt, Versions, Usable, Stored, Available
    <3>2. ASSUME NEW f \in {batch, fixed}, b \in DOMAIN f, rows'[b] = f[b]
          PROVE  <<b, rows'[b].value>> \in seen[T]
      <4>1. f[b].ingested \in Nat \cup {Legacy}
        BY <3>2, HeldRows, RowSetFacts
      <4>2. f[b].ingested <= Decision(T)
        <5>1. f[b].ingested = Legacy \/ f[b].ingested <= Decision(T)
          BY <3>2 DEF Available
        <5> QED BY <1>2, <5>1 DEF Legacy, Decision
      <4> QED BY <2>2, <3>2, <4>2 DEF SeenAt
    <3>3. CASE Prune
      BY <3>1, <3>3 DEF Prune
    <3>4. CASE BootstrapStore \/ CatchupStore \/ RepairStore
      <4>1. rows' = Upsert(batch) \/ rows' = Upsert(fixed)
        BY <3>4 DEF BootstrapStore, CatchupStore, RepairStore
      <4> QED BY <3>1, <3>2, <4>1, HeldRows, UpsertFacts
    <3> QED BY <3>1, <3>3, <3>4, WhoWrites DEF RowsStep
  <2>4. \A b \in DOMAIN batch' :
          batch'[b].ingested <= Decision(T) => <<b, batch'[b].value>> \in seen[T]
    <3>1. CASE batch' = batch
      BY <2>2, <3>1 DEF SeenAt
    <3>2. CASE \E buckets \in SUBSET Listed : batch' = ToRows(buckets)
      BY <2>1, <3>2, FetchedLate
    <3>3. CASE batch' = <<>>
      BY <3>3
    <3> QED BY <3>1, <3>2, <3>3, BatchStep
  <2>5. \A b \in DOMAIN fixed' :
          fixed'[b].ingested <= Decision(T) => <<b, fixed'[b].value>> \in seen[T]
    <3>1. CASE fixed' = fixed
      BY <2>2, <3>1 DEF SeenAt
    <3>2. CASE \E buckets \in SUBSET Listed : fixed' = ToRows(buckets)
      BY <2>1, <3>2, FetchedLate
    <3>3. CASE fixed' = <<>>
      BY <3>3
    <3> QED BY <3>1, <3>2, <3>3, FixedStep
  <2> QED BY <2>1, <2>3, <2>4, <2>5 DEF SeenAt, Decision
<1> QED BY <1>3, <1>4

(* A replayed frame reads nothing that its live measurement could not have  *)
(* read: under the temporal contract a row counts from the instant it was   *)
(* ingested, a corrected one from its correction, for any timing of the     *)
(* reconciler, the repair and the corrections.                              *)
THEOREM ReplaysAreHonest == Spec => []ReplaySeesLess
<1>1. Init => SeenInv
  <2> SUFFICES ASSUME Init PROVE SeenInv
    OBVIOUS
  <2>1. clock = 4 * StartBucket + 1 /\ StartBucket \in Nat
    BY BucketsFacts DEF Init, BucketTime
  <2>2. 2 * StartBucket \in Nat /\ clock = 2 * (2 * StartBucket) + 1
    BY <2>1
  <2>3. \A T \in StartBucket .. LastBucket : ~(clock > Decision(T))
    BY <2>1, BucketsFacts DEF Decision
  <2> QED BY <2>2, <2>3 DEF SeenInv, OddClock
<1>2. SeriesTypeOK /\ SeenInv /\ [Next]_vars => SeenInv'
  BY SeenStep
<1>3. SeriesTypeOK /\ SeenInv => ReplaySeesLess
  <2> SUFFICES ASSUME SeriesTypeOK, SeenInv, NEW T \in StartBucket .. LastBucket,
                      clock > Decision(T)
               PROVE  Versions(Reads(T)) \subseteq seen[T]
    BY DEF ReplaySeesLess
  <2>1. Usable(T) \in SUBSET Buckets
    BY DEF Usable, Stored
  <2>2. ReadLatest(T, 1) \subseteq Usable(T)
    <3> DEFINE first == {b \in Usable(T) : b >= T - 1}
    <3>1. first # {} => Max(first) \in first
      <4>1. first \in SUBSET Buckets
        BY <2>1
      <4> HIDE DEF first
      <4> QED BY <4>1, NewestBucket
    <3>2. Usable(T) # {} => Max(Usable(T)) \in Usable(T)
      BY <2>1, NewestBucket
    <3>3. ReadLatest(T, 1) = IF first # {} THEN {Max(first)}
                             ELSE IF Usable(T) # {} THEN {Max(Usable(T))} ELSE {}
      BY DEF ReadLatest
    <3> QED BY <3>1, <3>2, <3>3
  <2>3. Reads(T) \subseteq Usable(T)
    BY <2>2 DEF Reads, ReadExact, ReadSince
  <2> QED BY <2>3 DEF SeenInv, SeenAt, Versions
<1> QED BY <1>1, <1>2, <1>3, SeriesTypeCorrect, PTL DEF Spec

-----------------------------------------------------------------------------
(* Why nothing is left behind. Buckets are published in order, and well     *)
(* before the next one is due.                                             *)

Published ==
    /\ \A b \in Listed : BucketTime(b) < clock
    /\ \A b \in Buckets : BucketTime(b) + 4 <= clock => b \in Listed \cup holes
    /\ Listed \cap holes = {}
    /\ Stored \subseteq Listed

Kept(b) == BucketTime(b) >= clock - 4 * Retain
Below(b) == \E c \in Stored : b < c

\* What the promise is about: the buckets from the watermark on.
Reached(b) == /\ b \notin legacyGaps /\ ~truncated
              /\ synced # None /\ BucketTime(b) >= synced /\ Kept(b)

Enclosed == \A b \in Listed : Reached(b) /\ Below(b) => b \in Stored

\* What the repair script has still to fetch or to store.
Repairing(b) == b \in DOMAIN fixed \/ \E w \in todo : b \in w

\* The bootstrap: its page goes up to the watermark, or to the newest bucket
\* of all, without a gap.
SeedFetched ==
    pc = "seed" /\ batch # <<>> =>
      /\ \A b \in Listed :
           /\ Min(DOMAIN batch) <= b
           /\ IF synced = None THEN b <= Max(DOMAIN batch) ELSE BucketTime(b) < synced
           => b \in DOMAIN batch
      /\ synced # None => \A b \in DOMAIN batch : BucketTime(b) < synced
      /\ synced = None =>
           \A b \in Buckets : b \in Stored \/ Repairing(b) => b <= Max(DOMAIN batch)

SeedStored ==
    pc = "seed" /\ batch = <<>> =>
      /\ \A b \in Listed :
           /\ BucketTime(b) >= since
           /\ IF synced = None THEN Below(b) ELSE BucketTime(b) < synced
           => b \in Stored
      /\ synced = None => \A b \in Buckets : Repairing(b) => b \in Stored \/ Below(b)

\* No bucket is published any more before the watermark.
Passed(t) == (\E c \in Listed : BucketTime(c) = t) \/ t + 4 <= clock
WatermarkPassed ==
    /\ synced # None => Passed(synced)
    /\ pc = "seed" /\ batch = <<>> => Passed(since)

\* The catch-up: everything behind the walk is stored, but for the bucket due
\* at its end.
WalkBehind ==
    pc = "fetch" =>
      /\ until <= clock
      /\ \A b \in Listed :
           Reached(b) /\ BucketTime(b) <= since /\ BucketTime(b) + 4 <= until
           => b \in Stored
      /\ \A b \in DOMAIN batch : BucketTime(b) <= until
      /\ batch # <<>> /\ ~truncated =>
           \A b \in Listed : since < BucketTime(b) /\ b <= Max(DOMAIN batch) => b \in DOMAIN batch

\* The repair works between two rows, of which the upper stays or both go.
RepairBelow == \A b \in Buckets : Repairing(b) => Below(b) \/ ~Kept(b)

NothingHeld == pc \notin {"seed", "fetch"} => batch = <<>>

CoverInv == /\ OddClock /\ Published /\ Enclosed /\ SeedFetched /\ SeedStored
            /\ WatermarkPassed /\ WalkBehind /\ RepairBelow /\ NothingHeld

LEMMA ListedNat ==
    /\ \A b \in Buckets : b \in Nat /\ BucketTime(b) = 4 * b /\ BucketTime(b) \in Nat
    /\ Listed \subseteq Buckets /\ Stored \subseteq Buckets
BY BucketsFacts DEF BucketTime, Listed, Stored

\* A bucket published now is later than all before it.
LEMMA PublishedLast ==
    ASSUME SeriesTypeOK, OddClock, Published, [Next]_vars
    PROVE  \A b \in Listed' \ Listed :
             /\ \A c \in Listed : c < b
             /\ BucketTime(b) < clock /\ clock < BucketTime(b) + 4 /\ b \notin holes
<1> SUFFICES ASSUME NEW b \in Listed' \ Listed
             PROVE  /\ \A c \in Listed : c < b
                    /\ BucketTime(b) < clock /\ clock < BucketTime(b) + 4 /\ b \notin holes
  OBVIOUS
<1>1. PICK d \in Buckets : Publish(d) \/ Correct(d)
  BY WhoWrites DEF Publishing, Listed
<1>2. b = d /\ Publish(b)
  <2>1. ~Correct(d)
    BY DEF Correct, Listed, SeriesTypeOK
  <2>2. b = d
    BY <1>1, <2>1 DEF Publish, Listed, SeriesTypeOK
  <2> QED BY <1>1, <2>1, <2>2
<1>3. b \in Nat /\ clock \in Nat /\ BucketTime(b) = 4 * b /\ b \notin holes /\ 4 * b <= clock
  BY <1>1, <1>2, ListedNat DEF Publish, SeriesTypeOK
<1>4. BucketTime(b) < clock
  <2>1. PICK k \in Nat : clock = 2 * k + 1
    BY DEF OddClock
  <2> QED BY <1>3, <2>1
<1>5. clock < BucketTime(b) + 4
  BY <1>1, <1>2, <1>3 DEF Published
<1>6. ASSUME NEW c \in Listed PROVE c < b
  <2>1. c \in Nat /\ 4 * c < clock
    BY ListedNat DEF Published
  <2>2. c # b
    BY <1>2
  <2> QED BY <1>3, <1>5, <2>1, <2>2
<1> QED BY <1>3, <1>4, <1>5, <1>6

LEMMA ClockMoves ==
    ASSUME SeriesTypeOK, [Next]_vars
    PROVE  /\ clock \in Nat /\ clock' \in Nat /\ clock <= clock'
           /\ \A b \in Buckets : Kept(b)' => Kept(b)
<1>1. clock \in Nat /\ clock' \in Nat /\ clock <= clock'
  BY WhoWrites DEF Tick, SeriesTypeOK
<1>2. ASSUME NEW b \in Buckets, Kept(b)' PROVE Kept(b)
  <2>1. BucketTime(b) \in Nat /\ BucketTime(b) >= clock' - 4 * Retain /\ Retain \in Nat
    BY <1>2, ListedNat, BucketsFacts DEF Kept, BucketTime
  <2> QED BY <1>1, <2>1 DEF Kept
<1> QED BY <1>1, <1>2

LEMMA StoredStep ==
    ASSUME SeriesTypeOK, [Next]_vars
    PROVE  /\ Prune => Stored' = {b \in Stored : Kept(b)}
           /\ BootstrapStore \/ CatchupStore => Stored' = Stored \cup DOMAIN batch
           /\ RepairStore => Stored' = Stored \cup DOMAIN fixed
           /\ ~RowsStep => Stored' = Stored
<1>1. Prune => Stored' = {b \in Stored : Kept(b)}
  <2> SUFFICES ASSUME Prune PROVE Stored' = {b \in Stored : Kept(b)}
    OBVIOUS
  <2>1. clock \in Nat /\ \A b \in Buckets : BucketTime(b) \in Nat
    BY ListedNat DEF SeriesTypeOK
  <2>2. \A b \in Buckets : Kept(b) <=> ~(BucketTime(b) < clock - 4 * Retain)
    BY <2>1, BucketsFacts DEF Kept
  <2> QED BY <2>2 DEF Prune, Stored
<1>2. BootstrapStore \/ CatchupStore => Stored' = Stored \cup DOMAIN batch
  BY HeldRows, UpsertFacts DEF BootstrapStore, CatchupStore
<1>3. RepairStore => Stored' = Stored \cup DOMAIN fixed
  BY HeldRows, UpsertFacts DEF RepairStore
<1>4. ~RowsStep => Stored' = Stored
  BY WhoWrites DEF Stored
<1> QED BY <1>1, <1>2, <1>3, <1>4

\* Pruning takes the oldest rows; else the newest only grows.
LEMMA BelowStep ==
    ASSUME SeriesTypeOK, [Next]_vars, NEW b \in Buckets, Below(b) \/ ~Kept(b)
    PROVE  (Below(b) \/ ~Kept(b))'
<1>1. CASE ~Kept(b)
  BY <1>1, ClockMoves
<1>2. CASE Below(b) /\ ~Prune
  BY <1>2, StoredStep DEF RowsStep, Below
<1>3. CASE Below(b) /\ Prune /\ Kept(b)
  <2>1. PICK c \in Stored : b < c
    BY <1>3 DEF Below
  <2>2. Kept(c)
    <3>1. b \in Nat /\ c \in Nat /\ clock \in Nat
      BY ListedNat DEF SeriesTypeOK
    <3> QED BY <1>3, <2>1, <3>1, BucketsFacts DEF Kept, BucketTime
  <2> QED BY <1>3, <2>1, <2>2, StoredStep DEF Below
<1> QED BY <1>1, <1>2, <1>3

LEMMA PublishedStep ==
    ASSUME SeriesTypeOK, OddClock, Published, [Next]_vars
    PROVE  Published'
<1>1. \A b \in Listed' : BucketTime(b) < clock'
  <2> SUFFICES ASSUME NEW b \in Listed' PROVE BucketTime(b) < clock'
    OBVIOUS
  <2>1. b \in Buckets
    BY DEF Listed
  <2>2. BucketTime(b) < clock
    BY PublishedLast DEF Published
  <2> QED BY <2>1, <2>2, ClockMoves, ListedNat
<1>2. ASSUME NEW b \in Buckets, BucketTime(b) + 4 <= clock'
      PROVE  b \in Listed' \cup holes'
  <2>1. b \in Listed \cup holes
    <3>1. CASE BucketTime(b) + 4 <= clock
      BY <3>1 DEF Published
    <3>2. CASE ~(BucketTime(b) + 4 <= clock)
      <4>1. b \in Nat /\ BucketTime(b) = 4 * b /\ clock \in Nat
        BY ListedNat DEF SeriesTypeOK
      <4>2. Tick /\ clock' = clock + 2
        BY <1>2, <3>2, WhoWrites DEF Tick
      <4>3. clock % 4 \in {1, 3} /\ Frame \in Nat /\ clock = 4 * Frame + (clock % 4)
        BY ClockFacts
      <4>4. clock % 4 = 3 /\ b = Frame
        <5> HIDE DEF Frame
        <5> QED BY <1>2, <3>2, <4>1, <4>2, <4>3
      <4> QED BY <4>2, <4>4 DEF Tick
    <3> QED BY <3>1, <3>2
  <2> QED BY <2>1, HeldTypeStep, WhoWrites
<1>3. Listed' \cap holes' = {}
  BY PublishedLast, WhoWrites DEF Published
<1>4. Stored' \subseteq Listed'
  <2>1. DOMAIN batch \subseteq Listed /\ DOMAIN fixed \subseteq Listed
    BY HeldRows, RowSetFacts DEF SeriesTypeOK, Listed
  <2> QED BY <2>1, StoredStep, HeldTypeStep DEF RowsStep, Published
<1> QED BY <1>1, <1>2, <1>3, <1>4 DEF Published, BucketTime

\* The steps that move the watermark or write the reconciler's rows.
LEMMA SyncedMoves ==
    ASSUME SeriesTypeOK, [Next]_vars
    PROVE  /\ synced' = synced \/ BootstrapFloor \/ BootstrapMark
           /\ ~truncated' => ~truncated
<1>1. CASE Repair \/ Tick \/ SetActive \/ Publishing \/ UNCHANGED vars
  BY <1>1, OthersLeave
<1>2. CASE CatchupFetch
  <2>1. synced' = synced
    BY <1>2 DEF CatchupFetch
  <2>2. truncated => truncated'
    BY <1>2 DEF CatchupFetch
  <2> QED BY <2>1, <2>2
<1>3. CASE Round /\ ~CatchupFetch
  BY <1>3 DEF Round, StartRound, BootstrapSkip, BootstrapFloor, BootstrapFetch,
              BootstrapStore, BootstrapMark, CatchupRead, CatchupEmpty, CatchupStore, Prune,
              RetryBucket
<1>4. CASE Restart \/ RequestFails \/ StorageFails \/ Crash
  BY <1>4 DEF Restart, RequestFails, StorageFails, Crash
<1> QED BY <1>1, <1>2, <1>3, <1>4 DEF Next, Publishing

LEMMA EnclosedStep ==
    ASSUME SeriesTypeOK, CoverInv, [Next]_vars
    PROVE  Enclosed'
<1> SUFFICES ASSUME NEW b \in Listed', Reached(b)', Below(b)'
             PROVE  b \in Stored'
  BY DEF Enclosed
<1> USE DEF CoverInv
<1>1. b \in Buckets /\ b \in Nat /\ BucketTime(b) = 4 * b /\ Kept(b) /\ Kept(b)'
  BY ListedNat, ClockMoves DEF Listed, Reached
<1>2. b \notin legacyGaps /\ ~truncated /\ ~truncated'
  BY WhoWrites, SyncedMoves DEF Reached
<1>3. PICK c \in Stored' : b < c
  BY DEF Below
<1>4. c \in Listed' /\ c \in Nat
  BY PublishedStep, ListedNat DEF Published, Listed
<1>5. b \in Listed
  <2> SUFFICES ASSUME b \notin Listed PROVE FALSE
    OBVIOUS
  <2>1. \A d \in Listed : d < b
    BY PublishedLast
  <2>2. Publishing
    BY WhoWrites DEF Listed
  <2>3. rows' = rows
    BY <2>2 DEF Publishing, Publish, Correct
  <2>4. c \in Listed
    BY <1>3, <2>3 DEF Published, Stored
  <2> QED BY <1>1, <1>3, <1>4, <2>1, <2>4
<1>6. ASSUME b \in Stored PROVE b \in Stored'
  BY <1>1, <1>6, StoredStep DEF RowsStep
<1>7. ASSUME synced' = synced, Below(b)
      PROVE  b \in Stored'
  BY <1>1, <1>2, <1>5, <1>6, <1>7 DEF Enclosed, Reached
<1>8. CASE BootstrapStore
  <2>1. /\ pc = "seed" /\ batch # <<>> /\ synced' = synced /\ Stored' = Stored \cup DOMAIN batch
    BY <1>8, StoredStep DEF BootstrapStore
  <2>2. BucketTime(b) >= synced /\ synced # None /\ synced \in Int
    BY <2>1 DEF Reached, SeriesTypeOK
  <2>3. \A d \in DOMAIN batch : BucketTime(d) < synced
    BY <2>1, <2>2 DEF SeedFetched
  <2>4. c \notin DOMAIN batch
    BY <1>1, <1>3, <1>4, <2>2, <2>3 DEF BucketTime
  <2> QED BY <1>3, <1>7, <2>1, <2>4 DEF Below
<1>9. CASE CatchupStore
  <2>1. /\ pc = "fetch" /\ batch # <<>> /\ synced' = synced /\ Stored' = Stored \cup DOMAIN batch
    BY <1>9, StoredStep DEF CatchupStore
  <2>2. CASE c \in Stored
    BY <1>3, <1>7, <2>1, <2>2 DEF Below
  <2>3. CASE c \in DOMAIN batch
    <3>1. BucketTime(c) <= until /\ c <= Max(DOMAIN batch) /\ Max(DOMAIN batch) \in Nat
      BY <2>1, <2>3, HeldRows, HeldExtremes DEF WalkBehind
    <3>2. CASE since < BucketTime(b)
      <4>1. b <= Max(DOMAIN batch)
        BY <1>1, <1>3, <1>4, <3>1
      <4>2. b \in DOMAIN batch
        BY <1>2, <1>5, <2>1, <3>2, <4>1 DEF WalkBehind
      <4> QED BY <2>1, <4>2
    <3>3. CASE BucketTime(b) <= since
      <4>1. BucketTime(b) + 4 <= until
        BY <1>1, <1>3, <1>4, <3>1 DEF BucketTime, SeriesTypeOK
      <4>2. Reached(b)
        BY <1>1, <1>2, <2>1 DEF Reached
      <4>3. b \in Stored
        BY <1>5, <2>1, <3>3, <4>1, <4>2 DEF WalkBehind
      <4> QED BY <1>6, <4>3
    <3> QED BY <1>1, <3>2, <3>3 DEF SeriesTypeOK
  <2> QED BY <1>3, <2>1, <2>2, <2>3
<1>10. CASE RepairStore
  <2>1. synced' = synced /\ Stored' = Stored \cup DOMAIN fixed
    BY <1>10, StoredStep DEF RepairStore, reconciler
  <2>2. CASE c \in Stored
    BY <1>3, <1>7, <2>1, <2>2 DEF Below
  <2>3. CASE c \in DOMAIN fixed
    <3>1. Below(c)
      <4>1. Kept(c)
        BY <1>1, <1>3, <1>4, BucketsFacts DEF Kept, BucketTime, SeriesTypeOK
      <4>2. c \in Buckets /\ Repairing(c)
        BY <1>4, <2>3 DEF Repairing, Listed
      <4> QED BY <4>1, <4>2 DEF RepairBelow
    <3>2. PICK d \in Stored : c < d
      BY <3>1 DEF Below
    <3>3. b < d
      BY <1>1, <1>3, <1>4, <3>2, ListedNat
    <3> QED BY <1>7, <2>1, <3>2, <3>3 DEF Below
  <2> QED BY <1>3, <2>1, <2>2, <2>3
<1>11. CASE Prune
  BY <1>3, <1>7, <1>11, StoredStep DEF Prune, Below
<1>12. ASSUME rows' = rows PROVE Below(b) /\ (b \in Stored => b \in Stored')
  BY <1>3, <1>12 DEF Below, Stored
<1>13. CASE BootstrapFloor
  <2>1. /\ BootstrapRange = {} /\ synced' = TargetStart /\ rows' = rows /\ clock' = clock
    BY <1>13 DEF BootstrapFloor, Environment, exchange
  <2>2. BucketTime(b) >= TargetStart
    BY <2>1 DEF Reached
  <2>3. ~(BucketTime(b) < (IF synced = None THEN clock ELSE synced))
    BY <1>5, <2>1, <2>2 DEF BootstrapRange
  <2>4. synced # None /\ BucketTime(b) >= synced
    BY <1>1, <1>5, <2>3 DEF Published, SeriesTypeOK
  <2>5. Reached(b)
    BY <1>1, <1>2, <2>4 DEF Reached
  <2> QED BY <1>5, <1>12, <2>1, <2>5 DEF Enclosed
<1>14. CASE BootstrapMark
  <2>1. /\ pc = "seed" /\ batch = <<>> /\ synced' = since /\ rows' = rows
    BY <1>14 DEF BootstrapMark
  <2>2. BucketTime(b) >= since
    BY <2>1 DEF Reached
  <2>3. CASE synced # None /\ BucketTime(b) >= synced
    <3>1. Reached(b)
      BY <1>1, <1>2, <2>3 DEF Reached
    <3> QED BY <1>5, <1>12, <2>1, <3>1 DEF Enclosed
  <2>4. CASE ~(synced # None /\ BucketTime(b) >= synced)
    <3>1. IF synced = None THEN Below(b) ELSE BucketTime(b) < synced
      BY <1>1, <1>12, <2>1, <2>4 DEF SeriesTypeOK
    <3>2. b \in Stored
      BY <1>5, <2>1, <2>2, <3>1 DEF SeedStored
    <3> QED BY <1>12, <2>1, <3>2
  <2> QED BY <2>3, <2>4
<1> QED BY <1>7, <1>8, <1>9, <1>10, <1>11, <1>12, <1>13, <1>14, SyncedMoves, WhoWrites
        DEF RowsStep

LEMMA NothingHeldStep ==
    ASSUME SeriesTypeOK, CoverInv, [Next]_vars
    PROVE  NothingHeld'
<1> USE DEF CoverInv, NothingHeld
<1>1. CASE Repair \/ Tick \/ SetActive \/ Publishing \/ UNCHANGED vars
  BY <1>1, OthersLeave
<1>2. CASE \/ StartRound \/ BootstrapSkip \/ BootstrapFloor \/ BootstrapFetch
           \/ BootstrapStore \/ BootstrapMark \/ CatchupRead \/ Prune \/ RetryBucket
  BY <1>2 DEF StartRound, BootstrapSkip, BootstrapFloor, BootstrapFetch, BootstrapStore,
              BootstrapMark, CatchupRead, EndInstrument, Prune, RetryBucket
<1>3. CASE CatchupEmpty \/ CatchupFetch \/ CatchupStore
  BY <1>3 DEF CatchupEmpty, CatchupFetch, CatchupStore
<1>4. CASE RequestFails \/ StorageFails \/ Crash \/ Restart
  BY <1>4 DEF RequestFails, StorageFails, Crash, Restart, ClearLocals
<1> QED BY <1>1, <1>2, <1>3, <1>4 DEF Next, Round, Publishing

LEMMA SeedEntered ==
    ASSUME [Next]_vars, pc' = "seed"
    PROVE  \/ BootstrapFetch \/ BootstrapStore
           \/ Repair \/ Tick \/ SetActive \/ Publishing \/ UNCHANGED vars
BY DEF Next, Publishing, Round, StartRound, BootstrapSkip, BootstrapFloor, BootstrapMark,
       CatchupRead, CatchupEmpty, CatchupFetch, CatchupStore, NextWindow, EndInstrument,
       AfterInstrument, Prune, RetryBucket, Restart, RequestFails, StorageFails, Crash

LEMMA FetchNotEmpty ==
    ASSUME BootstrapFetch
    PROVE  batch' # <<>>
<1>1. /\ BootstrapRange \in SUBSET Buckets /\ BootstrapRange # {}
      /\ batch' = ToRows(NewestPage(BootstrapRange))
  BY DEF BootstrapFetch, BootstrapRange, Listed
<1>2. NewestPage(BootstrapRange) # {} /\ DOMAIN batch' = NewestPage(BootstrapRange)
  BY <1>1, PageIsUpper DEF ToRows
<1> QED BY <1>2

LEMMA WatermarkPassedStep ==
    ASSUME SeriesTypeOK, CoverInv, [Next]_vars
    PROVE  WatermarkPassed'
<1> USE DEF CoverInv
<1> DEFINE PassedNow(t) == (\E c \in Listed' : BucketTime(c) = t) \/ t + 4 <= clock'
<1>1. ASSUME NEW t \in Int, Passed(t) PROVE PassedNow(t)
  <2>1. CASE \E c \in Listed : BucketTime(c) = t
    BY <2>1, HeldTypeStep
  <2>2. CASE t + 4 <= clock
    BY <2>2, ClockMoves
  <2> QED BY <1>1, <2>1, <2>2 DEF Passed
<1>2. synced \in Int /\ since \in Int
  BY DEF SeriesTypeOK
<1>3. ASSUME synced' # None PROVE PassedNow(synced')
  <2>1. CASE synced' = synced
    <3>1. Passed(synced)
      BY <1>3, <2>1 DEF WatermarkPassed
    <3> QED BY <1>1, <1>2, <2>1, <3>1
  <2>2. CASE BootstrapFloor
    <3>1. synced' = clock - 4 * Warmup /\ clock' = clock
      BY <2>2 DEF BootstrapFloor, TargetStart, Environment, exchange
    <3>2. synced' + 4 <= clock'
      BY <3>1, BucketsFacts DEF SeriesTypeOK
    <3> QED BY <3>2
  <2>3. CASE BootstrapMark
    <3>1. synced' = since /\ Passed(since)
      BY <2>3 DEF BootstrapMark, WatermarkPassed
    <3> QED BY <1>1, <1>2, <3>1
  <2> QED BY <2>1, <2>2, <2>3, SyncedMoves
<1>4. ASSUME pc' = "seed", batch' = <<>> PROVE PassedNow(since')
  <2>1. CASE BootstrapStore
    <3>1. Min(DOMAIN batch) \in DOMAIN batch /\ DOMAIN batch \subseteq Listed
      BY <2>1, HeldRows, HeldExtremes, RowSetFacts DEF BootstrapStore, SeriesTypeOK, Listed
    <3>2. since' = BucketTime(Min(DOMAIN batch)) /\ Listed \subseteq Listed'
      BY <2>1, HeldTypeStep DEF BootstrapStore
    <3> QED BY <3>1, <3>2
  <2>2. CASE Repair \/ Tick \/ SetActive \/ Publishing \/ UNCHANGED vars
    <3>1. since' = since /\ Passed(since)
      BY <1>4, <2>2, OthersLeave DEF WatermarkPassed
    <3> QED BY <1>1, <1>2, <3>1
  <2>3. CASE BootstrapFetch
    BY <1>4, <2>3, FetchNotEmpty DEF BootstrapFetch
  <2> QED BY <1>4, <2>1, <2>2, <2>3, SeedEntered
<1> QED BY <1>3, <1>4 DEF WatermarkPassed, Passed, BucketTime

\* A repair that begins now works below the newest row.
LEMMA RepairingStep ==
    ASSUME SeriesTypeOK, [Next]_vars, NEW b \in Buckets, Repairing(b)'
    PROVE  Repairing(b) \/ (Below(b) /\ rows' = rows)
<1>1. CASE RepairStart
  <2>1. todo' = UNION {GapWindows(g) : g \in Gaps} /\ fixed' = fixed /\ rows' = rows
    BY <1>1 DEF RepairStart
  <2>2. CASE b \in DOMAIN fixed'
    BY <2>1, <2>2 DEF Repairing
  <2>3. CASE b \notin DOMAIN fixed'
    <3>1. PICK g \in Gaps : \E w \in GapWindows(g) : b \in w
      BY <2>1, <2>3 DEF Repairing
    <3>2. b \in g[1] + 1 .. g[2] - 1 /\ g[2] \in Stored /\ g[1] \in Stored
      BY <3>1 DEF GapWindows, Gaps
    <3>3. b < g[2]
      <4>1. b \in Nat /\ g[1] \in Nat /\ g[2] \in Nat
        BY <3>2, ListedNat
      <4>2. b <= g[2] - 1
        BY <3>2, <4>1
      <4> QED BY <4>1, <4>2
    <3> QED BY <2>1, <3>2, <3>3 DEF Below
  <2> QED BY <2>2, <2>3
<1>2. CASE RepairFetch
  <2>1. PICK w \in todo : todo' = todo \ {w}
                          /\ (fixed' = ToRows(w \cap Listed) \/ fixed' = fixed)
    BY <1>2 DEF RepairFetch
  <2>2. DOMAIN ToRows(w \cap Listed) \subseteq w
    BY DEF ToRows
  <2> QED BY <2>1, <2>2 DEF Repairing
<1>3. CASE RepairStore \/ RepairEnd
  BY <1>3 DEF RepairStore, RepairEnd, Repairing
<1>4. CASE Tick \/ SetActive \/ Publishing \/ UNCHANGED vars
  BY <1>4 DEF Tick, SetActive, Publishing, Publish, Correct, vars, script, Repairing
<1>5. CASE Round \/ Restart \/ RequestFails \/ StorageFails \/ Crash
  BY <1>5, RoundLeaves DEF Repairing
<1> QED BY <1>1, <1>2, <1>3, <1>4, <1>5 DEF Next, Repair, Publishing

LEMMA RepairBelowStep ==
    ASSUME SeriesTypeOK, CoverInv, [Next]_vars
    PROVE  RepairBelow'
<1> SUFFICES ASSUME NEW b \in Buckets, Repairing(b)' PROVE Below(b)' \/ ~Kept(b)'
  BY DEF RepairBelow
<1>1. CASE Repairing(b)
  BY <1>1, BelowStep DEF CoverInv, RepairBelow
<1>2. CASE Below(b) /\ rows' = rows
  BY <1>2 DEF Below, Stored
<1> QED BY <1>1, <1>2, RepairingStep

LEMMA SeedFetchedStep ==
    ASSUME SeriesTypeOK, CoverInv, [Next]_vars
    PROVE  SeedFetched'
<1> SUFFICES ASSUME pc' = "seed", batch' # <<>> PROVE SeedFetched'
  BY DEF SeedFetched
<1> USE DEF CoverInv
<1>1. CASE Repair \/ Tick \/ SetActive \/ Publishing \/ UNCHANGED vars
  <2>1. pc = "seed" /\ batch' = batch /\ batch # <<>> /\ synced' = synced
    BY <1>1, OthersLeave
  <2>2. /\ Max(DOMAIN batch) \in Listed /\ Max(DOMAIN batch) \in Nat
        /\ DOMAIN batch \subseteq Listed
    BY <2>1, HeldRows, HeldExtremes, RowSetFacts DEF SeriesTypeOK, Listed
  <2>3. ASSUME NEW b \in Listed', Min(DOMAIN batch) <= b,
               IF synced = None THEN b <= Max(DOMAIN batch) ELSE BucketTime(b) < synced
        PROVE  b \in DOMAIN batch
    <3>1. CASE b \in Listed
      BY <2>1, <2>3, <3>1 DEF SeedFetched
    <3>2. CASE b \notin Listed
      <4>1. /\ \A c \in Listed : c < b
            /\ clock < BucketTime(b) + 4
        BY <3>2, PublishedLast
      <4>2. b \in Nat /\ BucketTime(b) = 4 * b /\ \A c \in Listed : BucketTime(c) = 4 * c /\ c \in Nat
        BY ListedNat DEF Listed
      <4>3. synced # None
        BY <2>2, <2>3, <4>1, <4>2
      <4>4. CASE \E c \in Listed : BucketTime(c) = synced
        BY <2>3, <4>1, <4>2, <4>3, <4>4
      <4>5. CASE synced + 4 <= clock
        BY <2>3, <4>1, <4>2, <4>3, <4>5 DEF SeriesTypeOK
      <4> QED BY <4>3, <4>4, <4>5 DEF WatermarkPassed, Passed
    <3> QED BY <3>1, <3>2
  <2>4. ASSUME synced = None, NEW b \in Buckets, b \in Stored' \/ Repairing(b)'
        PROVE  b <= Max(DOMAIN batch)
    <3>1. CASE b \in Stored \/ Repairing(b)
      BY <2>1, <2>4, <3>1 DEF SeedFetched
    <3>2. CASE b \in Stored' /\ b \notin Stored
      <4>1. b \in DOMAIN fixed
        <5>1. pc' # "fetch" /\ ~BootstrapStore /\ ~CatchupStore /\ ~Prune
          BY <1>1, <2>1 DEF BootstrapStore, CatchupStore, Prune
        <5> QED BY <3>2, <5>1, StoredStep DEF RowsStep
      <4> QED BY <2>1, <2>4, <4>1 DEF SeedFetched, Repairing
    <3>3. CASE Repairing(b)'
      <4>1. CASE Below(b)
        <5>1. PICK c \in Stored : b < c
          BY <4>1 DEF Below
        <5>2. c <= Max(DOMAIN batch) /\ c \in Nat /\ b \in Nat
          BY <2>1, <2>4, ListedNat DEF SeedFetched
        <5> QED BY <2>2, <5>1, <5>2
      <4> QED BY <3>1, <3>3, <4>1, RepairingStep
    <3> QED BY <2>4, <3>1, <3>2, <3>3
  <2> QED BY <2>1, <2>3, <2>4 DEF SeedFetched, BucketTime
<1>2. CASE BootstrapFetch
  <2> DEFINE seeds == NewestPage(BootstrapRange)
  <2>1. /\ BootstrapRange \in SUBSET Buckets /\ BootstrapRange \subseteq Listed
        /\ BootstrapRange # {} /\ batch' = ToRows(seeds) /\ synced' = synced
        /\ rows' = rows /\ fixed' = fixed /\ todo' = todo /\ listed' = listed
    BY <1>2 DEF BootstrapFetch, BootstrapRange, Listed, Environment, exchange, script
  <2>2. /\ seeds \subseteq BootstrapRange /\ seeds # {} /\ DOMAIN batch' = seeds
        /\ \A b \in seeds : \A c \in BootstrapRange : b <= c => c \in seeds
    BY <2>1, PageIsUpper DEF ToRows
  <2> HIDE DEF seeds
  <2>3. /\ Min(seeds) \in seeds /\ Max(seeds) \in seeds /\ \A b \in seeds : b <= Max(seeds)
    BY <2>1, <2>2, NewestBucket
  <2>4. /\ \A b \in Buckets : b \in Nat /\ BucketTime(b) = 4 * b
        /\ TargetStart = clock - 4 * Warmup /\ clock \in Nat /\ synced \in Int
        /\ Warmup \in Nat /\ Retain \in Nat /\ Retain > Warmup
    BY ListedNat, BucketsFacts, SeriesAssumption DEF TargetStart, SeriesTypeOK
  <2>5. \A b \in BootstrapRange : b \in Listed /\ BucketTime(b) >= TargetStart
          /\ (synced # None => BucketTime(b) < synced)
    BY DEF BootstrapRange
  <2>6. ASSUME NEW b \in Listed, Min(seeds) <= b,
               IF synced = None THEN b <= Max(seeds) ELSE BucketTime(b) < synced
        PROVE  b \in seeds
    <3>1. b \in Buckets /\ b \in Nat /\ Min(seeds) \in Nat /\ BucketTime(Min(seeds)) >= TargetStart
          /\ BucketTime(Min(seeds)) = 4 * Min(seeds)
      BY <2>1, <2>2, <2>3, <2>4, <2>5 DEF Listed
    <3>2. BucketTime(b) >= TargetStart /\ BucketTime(b) < clock
      BY <2>4, <2>6, <3>1 DEF Published
    <3>3. b \in BootstrapRange
      BY <2>6, <3>2 DEF BootstrapRange
    <3> QED BY <2>2, <2>3, <2>6, <3>3
  <2>7. ASSUME synced = None, NEW b \in Buckets, b \in Stored \/ Repairing(b)
        PROVE  b <= Max(seeds)
    <3>1. /\ Max(seeds) \in BootstrapRange /\ Max(seeds) \in Nat /\ b \in Nat
          /\ 4 * Max(seeds) >= clock - 4 * Warmup /\ BucketTime(b) = 4 * b
      BY <2>1, <2>2, <2>3, <2>4, <2>5
    <3>2. ASSUME NEW c \in Listed PROVE c <= Max(seeds)
      <4>1. c \in Nat /\ BucketTime(c) = 4 * c /\ BucketTime(c) < clock
        BY <2>4 DEF Published, Listed
      <4>2. CASE BucketTime(c) >= TargetStart
        <5>1. c \in BootstrapRange
          BY <2>7, <4>1, <4>2 DEF BootstrapRange
        <5> QED BY <2>2, <2>3, <3>1, <4>1, <5>1
      <4>3. CASE ~(BucketTime(c) >= TargetStart)
        BY <2>4, <3>1, <4>1, <4>3
      <4> QED BY <4>2, <4>3
    <3>3. CASE b \in Stored
      BY <3>2, <3>3 DEF Published
    <3>4. CASE Below(b)
      <4>1. PICK c \in Stored : b < c
        BY <3>4 DEF Below
      <4>2. c <= Max(seeds) /\ c \in Nat
        BY <3>2, ListedNat DEF Published
      <4> QED BY <3>1, <4>1, <4>2
    <3>5. CASE ~Kept(b)
      BY <2>4, <3>1, <3>5 DEF Kept
    <3> QED BY <2>7, <3>3, <3>4, <3>5 DEF RepairBelow
  <2>8. \A b \in Buckets : b \in Stored' \/ Repairing(b)' => b \in Stored \/ Repairing(b)
    BY <2>1 DEF Stored, Repairing
  <2>9. Listed' = Listed
    BY <2>1 DEF Listed
  <2>10. \A b \in seeds : synced # None => BucketTime(b) < synced
    BY <2>2, <2>5
  <2> QED BY <2>1, <2>2, <2>6, <2>7, <2>8, <2>9, <2>10 DEF SeedFetched, BucketTime
<1>3. CASE BootstrapStore
  BY <1>3 DEF BootstrapStore
<1> QED BY <1>1, <1>2, <1>3, SeedEntered

LEMMA SeedStoredStep ==
    ASSUME SeriesTypeOK, CoverInv, [Next]_vars
    PROVE  SeedStored'
<1> SUFFICES ASSUME pc' = "seed", batch' = <<>> PROVE SeedStored'
  BY DEF SeedStored
<1> USE DEF CoverInv
<1>1. CASE Repair \/ Tick \/ SetActive \/ Publishing \/ UNCHANGED vars
  <2>1. pc = "seed" /\ batch = <<>> /\ synced' = synced /\ since' = since
    BY <1>1, OthersLeave
  <2>2. /\ RepairStore => Stored' = Stored \cup DOMAIN fixed
        /\ ~RepairStore => Stored' = Stored
    <3>1. ~BootstrapStore /\ ~CatchupStore /\ ~Prune
      BY <2>1 DEF BootstrapStore, CatchupStore, Prune
    <3> QED BY <3>1, StoredStep DEF RowsStep
  <2>3. ASSUME synced = None, NEW b \in Buckets, Below(b)'
        PROVE  Below(b)
    <3>1. PICK c \in Stored' : b < c
      BY <2>3 DEF Below
    <3>2. CASE c \in Stored
      BY <3>1, <3>2 DEF Below
    <3>3. CASE c \notin Stored
      <4>1. c \in DOMAIN fixed /\ c \in Buckets
        BY <2>2, <3>1, <3>3, HeldRows, RowSetFacts
      <4>2. Below(c)
        BY <2>1, <2>3, <3>3, <4>1 DEF SeedStored, Repairing
      <4>3. PICK d \in Stored : c < d
        BY <4>2 DEF Below
      <4>4. b < d
        BY <3>1, <4>1, <4>3, ListedNat
      <4> QED BY <4>3, <4>4 DEF Below
    <3> QED BY <3>2, <3>3
  <2>4. ASSUME NEW b \in Listed', BucketTime(b) >= since,
               IF synced = None THEN Below(b)' ELSE BucketTime(b) < synced
        PROVE  b \in Stored'
    <3>1. b \in Buckets
      BY DEF Listed
    <3>2. CASE b \in Listed
      <4>1. b \in Stored
        BY <2>1, <2>3, <2>4, <3>1, <3>2 DEF SeedStored
      <4> QED BY <2>2, <4>1
    <3>3. CASE b \notin Listed
      <4>1. /\ \A c \in Listed : c < b
            /\ clock < BucketTime(b) + 4
        BY <3>3, PublishedLast
      <4>2. b \in Nat /\ BucketTime(b) = 4 * b /\ \A c \in Listed : BucketTime(c) = 4 * c /\ c \in Nat
        BY <3>1, ListedNat DEF Listed
      <4>3. CASE synced = None
        <5>1. PICK c \in Stored : b < c
          BY <2>3, <2>4, <3>1, <4>3 DEF Below
        <5>2. c \in Listed
          BY DEF Published
        <5> QED BY <4>1, <4>2, <5>1, <5>2
      <4>4. CASE synced # None /\ \E c \in Listed : BucketTime(c) = synced
        BY <2>4, <4>1, <4>2, <4>4
      <4>5. CASE synced # None /\ synced + 4 <= clock
        BY <2>4, <4>1, <4>2, <4>5 DEF SeriesTypeOK
      <4> QED BY <4>3, <4>4, <4>5 DEF WatermarkPassed, Passed
    <3> QED BY <3>2, <3>3
  <2>5. ASSUME synced = None, NEW b \in Buckets, Repairing(b)'
        PROVE  b \in Stored' \/ Below(b)'
    <3>1. b \in Stored \/ Below(b)
      BY <2>1, <2>5, RepairingStep DEF SeedStored
    <3> QED BY <2>2, <3>1 DEF Below
  <2> QED BY <2>1, <2>4, <2>5 DEF SeedStored, BucketTime
<1>2. CASE BootstrapStore
  <2>1. /\ pc = "seed" /\ batch # <<>> /\ synced' = synced
        /\ since' = BucketTime(Min(DOMAIN batch)) /\ Stored' = Stored \cup DOMAIN batch
        /\ listed' = listed /\ fixed' = fixed /\ todo' = todo
    BY <1>2, StoredStep DEF BootstrapStore, Environment, exchange, script
  <2>2. /\ Max(DOMAIN batch) \in DOMAIN batch /\ Max(DOMAIN batch) \in Nat
        /\ Min(DOMAIN batch) \in Nat /\ \A b \in DOMAIN batch : b <= Max(DOMAIN batch)
    BY <2>1, HeldRows, HeldExtremes
  <2>3. ASSUME NEW b \in Listed', BucketTime(b) >= since',
               IF synced = None THEN Below(b)' ELSE BucketTime(b) < synced
        PROVE  b \in Stored'
    <3>1. b \in Listed /\ b \in Nat
      BY <2>1, ListedNat DEF Listed
    <3>2. Min(DOMAIN batch) <= b
      BY <2>1, <2>2, <2>3, <3>1 DEF BucketTime
    <3>3. synced = None => b <= Max(DOMAIN batch)
      <4> SUFFICES ASSUME synced = None PROVE b <= Max(DOMAIN batch)
        OBVIOUS
      <4>1. PICK c \in Stored' : b < c
        BY <2>3 DEF Below
      <4>2. c \in Buckets /\ c \in Nat
        BY ListedNat DEF Stored
      <4>3. c <= Max(DOMAIN batch)
        BY <2>1, <2>2, <4>2 DEF SeedFetched
      <4> QED BY <2>2, <3>1, <4>1, <4>2, <4>3
    <3>4. b \in DOMAIN batch
      BY <2>1, <2>3, <3>1, <3>2, <3>3 DEF SeedFetched
    <3> QED BY <2>1, <3>4
  <2>4. ASSUME synced = None, NEW b \in Buckets, Repairing(b)'
        PROVE  b \in Stored' \/ Below(b)'
    <3>1. b <= Max(DOMAIN batch) /\ b \in Nat
      BY <2>1, <2>4, ListedNat DEF SeedFetched, Repairing
    <3> QED BY <2>1, <2>2, <3>1 DEF Below
  <2> QED BY <2>1, <2>3, <2>4 DEF SeedStored, BucketTime
<1>3. CASE BootstrapFetch
  BY <1>3, FetchNotEmpty
<1> QED BY <1>1, <1>2, <1>3, SeedEntered

LEMMA FetchEntered ==
    ASSUME [Next]_vars, pc' = "fetch"
    PROVE  \/ CatchupRead \/ CatchupEmpty \/ CatchupFetch \/ CatchupStore
           \/ Repair \/ Tick \/ SetActive \/ Publishing \/ UNCHANGED vars
BY DEF Next, Publishing, Round, StartRound, BootstrapSkip, BootstrapFloor, BootstrapFetch,
       BootstrapStore, BootstrapMark, EndInstrument, AfterInstrument, Prune, RetryBucket,
       Restart, RequestFails, StorageFails, Crash

LEMMA ReachedBefore ==
    ASSUME SeriesTypeOK, [Next]_vars, NEW b \in Buckets, Reached(b)', synced' = synced
    PROVE  Reached(b)
BY ClockMoves, WhoWrites, SyncedMoves DEF Reached, BucketTime

LEMMA WalkBehindStep ==
    ASSUME SeriesTypeOK, CoverInv, [Next]_vars
    PROVE  WalkBehind'
<1> SUFFICES ASSUME pc' = "fetch" PROVE WalkBehind'
  BY DEF WalkBehind
<1> USE DEF CoverInv
<1>1. /\ clock \in Nat /\ since \in Int /\ until \in Int
      /\ \A b \in Buckets : b \in Nat /\ BucketTime(b) = 4 * b
  BY ListedNat DEF SeriesTypeOK
<1>2. CASE Repair \/ Tick \/ SetActive \/ Publishing \/ UNCHANGED vars
  <2>1. /\ pc = "fetch" /\ batch' = batch /\ since' = since /\ until' = until
        /\ synced' = synced /\ truncated' = truncated
    BY <1>2, OthersLeave
  <2>2. until' <= clock'
    BY <1>1, <2>1, ClockMoves DEF WalkBehind
  <2>3. Stored \subseteq Stored'
    <3>1. ~Prune
      BY <2>1 DEF Prune
    <3> QED BY <3>1, StoredStep DEF RowsStep
  <2>4. ASSUME NEW b \in Listed', Reached(b)', BucketTime(b) <= since, BucketTime(b) + 4 <= until
        PROVE  b \in Stored'
    <3>1. b \in Buckets
      BY DEF Listed
    <3>2. b \in Listed
      <4> SUFFICES ASSUME b \notin Listed PROVE FALSE
        OBVIOUS
      <4>1. clock < BucketTime(b) + 4 /\ until <= clock
        BY <2>1, PublishedLast DEF WalkBehind
      <4> QED BY <1>1, <2>4, <3>1, <4>1
    <3>3. Reached(b)
      BY <2>1, <2>4, <3>1, ReachedBefore
    <3> QED BY <2>1, <2>3, <2>4, <3>2, <3>3 DEF WalkBehind
  <2>5. ASSUME batch # <<>>, ~truncated, NEW b \in Listed', since < BucketTime(b),
               b <= Max(DOMAIN batch)
        PROVE  b \in DOMAIN batch
    <3>1. b \in Listed
      <4> SUFFICES ASSUME b \notin Listed PROVE FALSE
        OBVIOUS
      <4>1. Max(DOMAIN batch) \in Listed
        BY <2>5, HeldRows, HeldExtremes, RowSetFacts DEF SeriesTypeOK, Listed
      <4>2. Max(DOMAIN batch) < b /\ Max(DOMAIN batch) \in Nat /\ b \in Nat
        BY <1>1, <4>1, PublishedLast DEF Listed
      <4> QED BY <2>5, <4>2
    <3> QED BY <2>1, <2>5, <3>1 DEF WalkBehind
  <2> QED BY <2>1, <2>2, <2>4, <2>5 DEF WalkBehind, BucketTime
<1>3. CASE CatchupRead
  <2>1. /\ Stored # {} /\ since' = Newest /\ until' = clock /\ batch' = batch /\ batch = <<>>
        /\ rows' = rows /\ synced' = synced /\ clock' = clock /\ listed' = listed
    BY <1>3 DEF CatchupRead, EndInstrument, AfterInstrument, NothingHeld, Environment, exchange
  <2>2. PICK c \in Stored : Newest = BucketTime(c)
    BY <2>1, NewestFacts
  <2>3. ASSUME NEW b \in Listed', Reached(b)', BucketTime(b) <= Newest
        PROVE  b \in Stored'
    <3>1. b \in Listed /\ b \in Buckets /\ c \in Buckets
      BY <2>1 DEF Listed, Stored
    <3>2. Reached(b)
      BY <2>1, <2>3, <3>1, ReachedBefore
    <3>3. b = c \/ b < c
      BY <1>1, <2>2, <2>3, <3>1
    <3>4. b \in Stored
      BY <3>1, <3>2, <3>3 DEF Enclosed, Below
    <3> QED BY <2>1, <3>4 DEF Stored
  <2>4. DOMAIN batch' = {}
    BY <2>1
  <2> QED BY <1>1, <2>1, <2>3, <2>4 DEF WalkBehind, BucketTime
<1>4. CASE CatchupEmpty
  <2>1. /\ pc = "fetch" /\ batch = <<>> /\ batch' = batch /\ CatchupPage = {} /\ kind = "oi"
        /\ since' = WindowEnd /\ until' = until
        /\ rows' = rows /\ synced' = synced /\ clock' = clock /\ listed' = listed
    BY <1>4 DEF CatchupEmpty, NextWindow, EndInstrument, AfterInstrument, Environment, exchange
  <2>2. CatchupRange = {}
    BY <2>1 DEF CatchupPage
  <2>3. ASSUME NEW b \in Listed', Reached(b)', BucketTime(b) <= WindowEnd, BucketTime(b) + 4 <= until
        PROVE  b \in Stored'
    <3>1. b \in Listed /\ b \in Buckets
      BY <2>1 DEF Listed
    <3>2. Reached(b)
      BY <2>1, <2>3, <3>1, ReachedBefore
    <3>3. ~(BucketTime(b) > since)
      BY <2>2, <2>3, <3>1 DEF CatchupRange
    <3>4. b \in Stored
      BY <1>1, <2>1, <2>3, <3>1, <3>2, <3>3 DEF WalkBehind
    <3> QED BY <2>1, <3>4 DEF Stored
  <2>4. DOMAIN batch' = {} /\ until <= clock
    BY <2>1 DEF WalkBehind
  <2> QED BY <2>1, <2>3, <2>4 DEF WalkBehind, BucketTime
<1>5. CASE CatchupFetch
  <2>1. /\ pc = "fetch" /\ batch = <<>> /\ batch' = ToRows(CatchupPage) /\ CatchupPage # {}
        /\ truncated' = (truncated \/ (kind = "funding" /\ CatchupPage # CatchupRange))
        /\ since' = since /\ until' = until
        /\ rows' = rows /\ synced' = synced /\ clock' = clock /\ listed' = listed
    BY <1>5 DEF CatchupFetch, Environment, exchange
  <2>2. CatchupRange \in SUBSET Buckets /\ CatchupRange \subseteq Listed
    BY DEF CatchupRange, Listed
  <2>3. CatchupPage \subseteq CatchupRange
    BY <2>2, PageIsUpper DEF CatchupPage
  <2>4. DOMAIN batch' = CatchupPage
    BY <2>1 DEF ToRows
  <2>5. \A b \in CatchupPage : BucketTime(b) <= WindowEnd /\ b \in Buckets
    BY <2>2, <2>3 DEF CatchupRange
  <2>6. WindowEnd \in Int /\ WindowEnd <= until
    BY WindowEndFacts
  <2>7. \A b \in CatchupPage : BucketTime(b) <= until
    BY <1>1, <2>5, <2>6
  <2>8. ASSUME ~truncated', NEW b \in Listed', since < BucketTime(b), b <= Max(CatchupPage)
        PROVE  b \in CatchupPage
    <3>1. kind \in {"oi", "funding"}
      BY SeriesAssumption DEF SeriesTypeOK
    <3>2. CatchupPage = CatchupRange
      <4>1. CASE kind = "oi"
        BY <4>1 DEF CatchupPage
      <4>2. CASE kind = "funding"
        BY <2>1, <2>8, <4>2
      <4> QED BY <3>1, <4>1, <4>2
    <3>3. Max(CatchupPage) \in CatchupPage
      BY <2>1, <2>2, <2>3, NewestBucket
    <3>4. b \in Listed /\ b \in Buckets
      BY <2>1 DEF Listed
    <3>5. BucketTime(b) <= BucketTime(Max(CatchupPage))
      BY <1>1, <2>5, <2>8, <3>3, <3>4
    <3>6. BucketTime(b) <= WindowEnd
      BY <1>1, <2>5, <2>6, <3>3, <3>4, <3>5
    <3> QED BY <2>8, <3>2, <3>4, <3>6 DEF CatchupRange
  <2>9. ASSUME NEW b \in Listed', Reached(b)', BucketTime(b) <= since, BucketTime(b) + 4 <= until
        PROVE  b \in Stored'
    <3>1. b \in Listed /\ b \in Buckets
      BY <2>1 DEF Listed
    <3>2. Reached(b)
      BY <2>1, <2>9, <3>1, ReachedBefore
    <3>3. b \in Stored
      BY <2>1, <2>9, <3>1, <3>2 DEF WalkBehind
    <3> QED BY <2>1, <3>3 DEF Stored
  <2>10. until <= clock
    BY <2>1 DEF WalkBehind
  <2> QED BY <2>1, <2>4, <2>7, <2>8, <2>9, <2>10 DEF WalkBehind, BucketTime
<1>6. CASE CatchupStore
  <2>1. /\ pc = "fetch" /\ batch # <<>> /\ batch' = <<>>
        /\ since' = BucketTime(Max(DOMAIN batch)) /\ until' = until
        /\ Stored' = Stored \cup DOMAIN batch /\ truncated' = truncated
        /\ synced' = synced /\ clock' = clock /\ listed' = listed
    BY <1>6, StoredStep DEF CatchupStore, NextWindow, EndInstrument, AfterInstrument, Environment, exchange
  <2>2. ASSUME NEW b \in Listed', Reached(b)', BucketTime(b) <= since', BucketTime(b) + 4 <= until
        PROVE  b \in Stored'
    <3>1. b \in Listed /\ b \in Buckets
      BY <2>1 DEF Listed
    <3>2. Reached(b) /\ ~truncated
      BY <2>1, <2>2, <3>1, ReachedBefore DEF Reached
    <3>3. CASE BucketTime(b) <= since
      BY <2>1, <2>2, <3>1, <3>2, <3>3 DEF WalkBehind
    <3>4. CASE since < BucketTime(b)
      <4>1. Max(DOMAIN batch) \in Nat
        BY <2>1, HeldRows, HeldExtremes
      <4>2. b <= Max(DOMAIN batch)
        BY <1>1, <2>1, <2>2, <3>1, <4>1 DEF BucketTime
      <4>3. b \in DOMAIN batch
        BY <2>1, <3>1, <3>2, <3>4, <4>2 DEF WalkBehind
      <4> QED BY <2>1, <4>3
    <3> QED BY <1>1, <3>1, <3>3, <3>4
  <2>3. DOMAIN batch' = {} /\ until <= clock
    BY <2>1 DEF WalkBehind
  <2> QED BY <2>1, <2>2, <2>3 DEF WalkBehind, BucketTime
<1> QED BY <1>2, <1>3, <1>4, <1>5, <1>6, FetchEntered

LEMMA CoverInit == Init => CoverInv
<1> SUFFICES ASSUME Init PROVE CoverInv
  OBVIOUS
<1>1. SeriesTypeOK
  BY SeriesTypeInit
<1>2. /\ clock = BucketTime(StartBucket) + 1 /\ BucketTime(StartBucket) = 4 * StartBucket
      /\ StartBucket \in Nat
      /\ \A b \in Buckets : b \in Nat /\ BucketTime(b) = 4 * b
  BY BucketsFacts, ListedNat DEF Init, BucketTime
<1>3. /\ pc = "started" /\ batch = <<>> /\ fixed = <<>> /\ todo = {}
      /\ listed = [b \in Buckets |-> IF b < StartBucket /\ b \notin holes THEN 1 ELSE 0]
  BY DEF Init
<1>4. PICK old \in OldRows :
         /\ old \subseteq Listed
         /\ rows = InitialRows(old)
         /\ synced = IF old = {} THEN None ELSE BucketTime(Min(old))
         /\ legacyGaps = IF old = {} THEN {} ELSE (Min(old) .. Max(old)) \ old
  BY DEF Init
<1>5. Stored = old /\ old \in SUBSET Buckets
  <2>1. old \in SUBSET Buckets
    BY <1>4 DEF Listed
  <2>2. \A b \in Buckets : rows[b] # NoRow <=> b \in old
    BY <1>4 DEF InitialRows, NoRow, Legacy
  <2> QED BY <2>1, <2>2 DEF Stored
<1>6. OddClock
  BY <1>2 DEF OddClock
<1>7. \A b \in Listed : b \in Buckets /\ b < StartBucket /\ b \notin holes
  BY <1>3 DEF Listed
<1>8. Published
  <2>1. \A b \in Listed : BucketTime(b) < clock
    BY <1>2, <1>7
  <2>2. ASSUME NEW b \in Buckets, BucketTime(b) + 4 <= clock
        PROVE  b \in Listed \cup holes
    <3>1. b < StartBucket
      BY <1>2, <2>2
    <3> QED BY <1>3, <3>1 DEF Listed
  <2> QED BY <1>4, <1>5, <1>7, <2>1, <2>2 DEF Published
<1>9. Enclosed
  <2> SUFFICES ASSUME NEW b \in Listed, Reached(b), Below(b) PROVE b \in Stored
    BY DEF Enclosed
  <2>1. old # {}
    BY <1>4 DEF Reached
  <2>2. /\ Min(old) \in old /\ Max(old) \in old /\ \A c \in old : c <= Max(old)
    BY <1>5, <2>1, NewestBucket
  <2>3. PICK c \in old : b < c
    BY <1>5 DEF Below
  <2>4. b \in Nat /\ c \in Nat /\ Min(old) \in Nat /\ Max(old) \in Nat
        /\ BucketTime(b) = 4 * b /\ BucketTime(Min(old)) = 4 * Min(old)
    BY <1>2, <1>5, <1>7, <2>2, <2>3
  <2>5. Min(old) <= b /\ b <= Max(old)
    BY <1>4, <2>1, <2>2, <2>3, <2>4 DEF Reached
  <2>6. b \in Min(old) .. Max(old)
    BY <2>4, <2>5
  <2> QED BY <1>4, <1>5, <2>1, <2>6 DEF Reached
<1>10. WatermarkPassed
  <2> SUFFICES ASSUME synced # None PROVE Passed(synced)
    BY <1>3 DEF WatermarkPassed
  <2>1. old # {} /\ Min(old) \in old
    BY <1>4, <1>5, NewestBucket
  <2> QED BY <1>4, <2>1 DEF Passed
<1>11. RepairBelow
  BY <1>3 DEF RepairBelow, Repairing
<1>12. SeedFetched /\ SeedStored /\ WalkBehind /\ NothingHeld
  BY <1>3 DEF SeedFetched, SeedStored, WalkBehind, NothingHeld
<1> QED BY <1>6, <1>8, <1>9, <1>10, <1>11, <1>12 DEF CoverInv

LEMMA CoverInvariant == Spec => [](SeriesTypeOK /\ CoverInv)
<1>1. Init => SeriesTypeOK /\ CoverInv
  BY SeriesTypeInit, CoverInit
<1>2. SeriesTypeOK /\ CoverInv /\ [Next]_vars => (SeriesTypeOK /\ CoverInv)'
  <2> SUFFICES ASSUME SeriesTypeOK, CoverInv, [Next]_vars PROVE (SeriesTypeOK /\ CoverInv)'
    OBVIOUS
  <2>1. SeriesTypeOK'
    BY SeriesTypeStep
  <2>2. OddClock'
    BY OddClockStep DEF CoverInv
  <2>3. Published' /\ Enclosed'
    BY PublishedStep, EnclosedStep DEF CoverInv
  <2>4. SeedFetched' /\ SeedStored' /\ WatermarkPassed'
    BY SeedFetchedStep, SeedStoredStep, WatermarkPassedStep
  <2>5. WalkBehind' /\ RepairBelow' /\ NothingHeld'
    BY WalkBehindStep, RepairBelowStep, NothingHeldStep
  <2> QED BY <2>1, <2>2, <2>3, <2>4, <2>5 DEF CoverInv
<1> QED BY <1>1, <1>2, PTL DEF Spec

(***************************************************************************)
(* Whatever the watermark and the newest row enclose is stored, of the     *)
(* buckets the exchange lists: a failed request, a crash between the       *)
(* commit of the rows and that of the watermark, a walk over several       *)
(* windows, or a repair running beside the reconciler leaves no bucket     *)
(* behind (_bootstrap_step, _catchup_step, repair_open_interest_gaps.py).  *)
(***************************************************************************)
THEOREM SeriesHasNoHole == Spec => []SeriesComplete
<1>1. SeriesTypeOK /\ CoverInv => SeriesComplete
  <2> SUFFICES ASSUME SeriesTypeOK, CoverInv, NEW b \in Listed \ legacyGaps,
                      Stored # {}, BucketTime(b) < Newest, ~truncated,
                      synced # None, BucketTime(b) >= synced,
                      BucketTime(b) >= clock - 4 * Retain
               PROVE  b \in Stored
    BY DEF SeriesComplete
  <2>1. PICK c \in Stored : Newest = BucketTime(c)
    BY NewestFacts
  <2>2. b \in Nat /\ c \in Nat /\ BucketTime(b) = 4 * b /\ BucketTime(c) = 4 * c
    BY ListedNat
  <2>3. Below(b)
    BY <2>1, <2>2 DEF Below
  <2>4. Reached(b)
    BY DEF Reached, Kept
  <2> QED BY <2>3, <2>4 DEF CoverInv, Enclosed
<1> QED BY <1>1, CoverInvariant, PTL
=============================================================================
