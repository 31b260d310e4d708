-------------------------- MODULE LiveRankingsProofs --------------------------
(***************************************************************************)
(* What a request is answered is current, the published history can be read *)
(* from end to end, and four reads of the frames count the same: for any   *)
(* instruments, frames, spec files, requests, sizes of the cache and of a  *)
(* page, and whatever the features, the scores and the qualifications come *)
(* to, which no proof looks into.                                          *)
(***************************************************************************)
EXTENDS LiveRankings, FiniteSetTheorems, SequenceTheorems, WellFoundedInduction, TLAPS

(* The members of a finite set can be listed in any strict total order.     *)

StrictTotal(S, rel) ==
  /\ \A x \in S : <<x, x>> \notin rel
  /\ \A x, y \in S : x # y => <<x, y>> \in rel \/ <<y, x>> \in rel
  /\ \A x, y, z \in S : <<x, y>> \in rel /\ <<y, z>> \in rel => <<x, z>> \in rel

Below(S, rel, x) == {y \in S : <<y, x>> \in rel}

LEMMA FewerBelow ==
  ASSUME NEW S, IsFiniteSet(S), NEW rel, StrictTotal(S, rel),
         NEW x \in S, NEW y \in S, <<x, y>> \in rel
  PROVE  Cardinality(Below(S, rel, x)) < Cardinality(Below(S, rel, y))
<1> DEFINE A == Below(S, rel, x)
           B == Below(S, rel, y)
<1>1. A \subseteq B /\ B \subseteq S
  BY DEF StrictTotal, Below
<1>2. x \in B /\ x \notin A
  BY DEF StrictTotal, Below
<1> HIDE DEF A, B
<1>3. IsFiniteSet(B)
  BY <1>1, FS_Subset
<1>4. IsFiniteSet(A) /\ Cardinality(A) <= Cardinality(B) /\ Cardinality(A) # Cardinality(B)
  BY <1>1, <1>2, <1>3, FS_Subset
<1>5. Cardinality(A) \in Nat /\ Cardinality(B) \in Nat
  BY <1>3, <1>4, FS_CardinalityType
<1>6. Cardinality(A) < Cardinality(B)
  BY <1>4, <1>5
<1> QED BY <1>6 DEF A, B

LEMMA RankFacts ==
  ASSUME NEW S, IsFiniteSet(S), NEW rel, StrictTotal(S, rel)
  PROVE  \E rank \in Bijection(S, 1 .. Cardinality(S)) :
           \A x, y \in S : <<x, y>> \in rel => rank[x] < rank[y]
<1> DEFINE n == Cardinality(S)
           rank == [x \in S |-> Cardinality(Below(S, rel, x)) + 1]
<1>1. n \in Nat
  BY FS_CardinalityType
<1>2. \A x \in S : rank[x] \in 1 .. n
  <2> SUFFICES ASSUME NEW x \in S PROVE rank[x] \in 1 .. n
    OBVIOUS
  <2> DEFINE A == Below(S, rel, x)
  <2>1. A \in SUBSET S /\ x \notin A
    BY DEF StrictTotal, Below
  <2> HIDE DEF A
  <2>2. IsFiniteSet(A) /\ Cardinality(A) <= n /\ Cardinality(A) # n
    BY <2>1, FS_Subset
  <2>3. Cardinality(A) \in Nat
    BY <2>2, FS_CardinalityType
  <2>4. Cardinality(A) + 1 \in 1 .. n
    BY <1>1, <2>2, <2>3
  <2> QED BY <2>4 DEF A
<1>3. \A x, y \in S : <<x, y>> \in rel => rank[x] < rank[y]
  <2> SUFFICES ASSUME NEW x \in S, NEW y \in S, <<x, y>> \in rel PROVE rank[x] < rank[y]
    OBVIOUS
  <2>1. IsFiniteSet(Below(S, rel, x)) /\ IsFiniteSet(Below(S, rel, y))
    BY FS_Subset DEF Below
  <2>2. Cardinality(Below(S, rel, x)) \in Nat /\ Cardinality(Below(S, rel, y)) \in Nat
    BY <2>1, FS_CardinalityType
  <2>3. Cardinality(Below(S, rel, x)) < Cardinality(Below(S, rel, y))
    BY FewerBelow
  <2> QED BY <2>2, <2>3
<1> HIDE DEF rank
<1>4. rank \in [S -> 1 .. n]
  BY <1>2 DEF rank
<1>5. \A x, y \in S : rank[x] = rank[y] => x = y
  <2> SUFFICES ASSUME NEW x \in S, NEW y \in S, x # y PROVE rank[x] # rank[y]
    OBVIOUS
  <2>1. <<x, y>> \in rel \/ <<y, x>> \in rel
    BY DEF StrictTotal
  <2>2. rank[x] \in Int /\ rank[y] \in Int
    BY <1>1, <1>2
  <2> QED BY <1>3, <2>1, <2>2
<1>6. rank \in Injection(S, 1 .. n)
  BY <1>4, <1>5 DEF Injection, IsInjective
<1>7. IsFiniteSet(1 .. n) /\ Cardinality(1 .. n) = n
  BY <1>1, FS_Interval
<1>8. rank \in Surjection(S, 1 .. n)
  BY <1>6, <1>7, FS_Injection
<1> QED BY <1>3, <1>6, <1>8 DEF Bijection

LEMMA ListedFacts ==
  ASSUME NEW S, IsFiniteSet(S), NEW rel, StrictTotal(S, rel)
  PROVE  /\ Cardinality(S) \in Nat
         /\ Listed(S, rel) \in [1 .. Cardinality(S) -> S]
         /\ \A x \in S : \E i \in 1 .. Cardinality(S) : Listed(S, rel)[i] = x
         /\ \A i, j \in 1 .. Cardinality(S) :
              i < j => <<Listed(S, rel)[i], Listed(S, rel)[j]>> \in rel
<1> DEFINE n == Cardinality(S)
           Good(e) == /\ IsInjective(e)
                      /\ \A i, j \in DOMAIN e : i < j => <<e[j], e[i]>> \notin rel
<1>1. n \in Nat
  BY FS_CardinalityType
<1>2. PICK rank \in Bijection(S, 1 .. n) : \A x, y \in S : <<x, y>> \in rel => rank[x] < rank[y]
  BY RankFacts
<1>3. /\ rank \in [S -> 1 .. n]
      /\ \A x, y \in S : rank[x] = rank[y] => x = y
      /\ \A i \in 1 .. n : \E x \in S : rank[x] = i
  BY DEF Bijection, Injection, Surjection, IsInjective
<1> DEFINE e == [i \in 1 .. n |-> CHOOSE x \in S : rank[x] = i]
<1>4. \A i \in 1 .. n : e[i] \in S /\ rank[e[i]] = i
  BY <1>3
<1>5. e \in [1 .. n -> S]
  BY <1>4
<1>6. IsInjective(e)
  BY <1>4, <1>5 DEF IsInjective
<1>7. \A i, j \in DOMAIN e : i < j => <<e[j], e[i]>> \notin rel
  <2> SUFFICES ASSUME NEW i \in 1 .. n, NEW j \in 1 .. n, i < j, <<e[j], e[i]>> \in rel PROVE FALSE
    BY <1>5
  <2> HIDE DEF e
  <2>1. rank[e[j]] < rank[e[i]]
    BY <1>2, <1>4
  <2> QED BY <1>1, <1>4, <2>1
<1>8. \E f \in [1 .. n -> S] : Good(f)
  <2> HIDE DEF e
  <2> QED BY <1>5, <1>6, <1>7
<1> DEFINE l == Listed(S, rel)
<1>9. l \in [1 .. n -> S] /\ Good(l)
  BY <1>8 DEF Listed
<1> HIDE DEF l
<1>10. l \in Injection(1 .. n, S)
  BY <1>9 DEF Injection
<1>11. IsFiniteSet(1 .. n) /\ Cardinality(1 .. n) = n
  BY <1>1, FS_Interval
<1>12. l \in Surjection(1 .. n, S)
  BY <1>10, <1>11, FS_Injection
<1>13. \A x \in S : \E i \in 1 .. n : l[i] = x
  BY <1>12 DEF Surjection
<1>14. \A i, j \in 1 .. n : i < j => <<l[i], l[j]>> \in rel
  <2> SUFFICES ASSUME NEW i \in 1 .. n, NEW j \in 1 .. n, i < j PROVE <<l[i], l[j]>> \in rel
    OBVIOUS
  <2>1. <<l[j], l[i]>> \notin rel /\ l[i] \in S /\ l[j] \in S
    BY <1>9
  <2>2. l[i] # l[j]
    BY <1>1, <1>9 DEF IsInjective
  <2> QED BY <2>1, <2>2 DEF StrictTotal
<1> QED BY <1>1, <1>9, <1>13, <1>14 DEF l

-----------------------------------------------------------------------------
(* The published history.                                                   *)

IsASequence(s) == s \in Seq(Range(s))

SnapshotsOK == /\ IsASequence(snapshots)
               /\ \A i \in DOMAIN snapshots : snapshots[i].publishedAt \in Nat

NewestFirst(S) == {x \in S \X S : Older(x[2], x[1])}

LEMMA SnapshotIds ==
  ASSUME SnapshotsOK
  PROVE  /\ Len(snapshots) \in Nat /\ DOMAIN snapshots = 1 .. Len(snapshots)
         /\ DOMAIN snapshots \subseteq Nat /\ IsFiniteSet(DOMAIN snapshots)
<1>1. Len(snapshots) \in Nat /\ DOMAIN snapshots = 1 .. Len(snapshots)
  BY LenProperties DEF SnapshotsOK, IsASequence
<1> QED BY <1>1, FS_Interval

LEMMA OlderIsStrict ==
  ASSUME SnapshotsOK
  PROVE  /\ \A i \in DOMAIN snapshots : ~Older(i, i)
         /\ \A i, j \in DOMAIN snapshots : i # j => Older(i, j) \/ Older(j, i)
         /\ \A i, j, k \in DOMAIN snapshots : Older(i, j) /\ Older(j, k) => Older(i, k)
         /\ \A i, j \in DOMAIN snapshots :
              Older(i, j) => snapshots[i].publishedAt <= snapshots[j].publishedAt
<1> USE SnapshotIds DEF SnapshotsOK, Older
<1>1. \A i \in DOMAIN snapshots : ~Older(i, i)
  OBVIOUS
<1>2. \A i, j \in DOMAIN snapshots : i # j => Older(i, j) \/ Older(j, i)
  OBVIOUS
<1>3. \A i, j, k \in DOMAIN snapshots : Older(i, j) /\ Older(j, k) => Older(i, k)
  OBVIOUS
<1>4. \A i, j \in DOMAIN snapshots :
        Older(i, j) => snapshots[i].publishedAt <= snapshots[j].publishedAt
  OBVIOUS
<1> QED BY <1>1, <1>2, <1>3, <1>4

LEMMA NewestFirstIsTotal ==
  ASSUME SnapshotsOK, NEW S \in SUBSET DOMAIN snapshots
  PROVE  IsFiniteSet(S) /\ StrictTotal(S, NewestFirst(S))
<1>1. IsFiniteSet(S)
  BY SnapshotIds, FS_Subset
<1>2. \A x, y \in S : <<x, y>> \in NewestFirst(S) <=> Older(y, x)
  BY DEF NewestFirst
<1>3. StrictTotal(S, NewestFirst(S))
  BY <1>2, OlderIsStrict DEF StrictTotal
<1> QED BY <1>1, <1>3

(* A page is the newest of the rows before it, newest first, and it says     *)
(* whether there are more.                                                  *)
LEMMA PageFacts ==
  ASSUME SnapshotsOK, NEW before, NEW rows,
         rows = {i \in DOMAIN snapshots : before # None => Older(i, before)}
  PROVE  LET page == HistoryPage(before)
         IN  /\ page.items \in Seq(rows) /\ page.more \in BOOLEAN
             /\ \A i, j \in 1 .. Len(page.items) :
                  i < j => Older(page.items[j], page.items[i])
             /\ page.more => /\ page.items # <<>>
                             /\ \A k \in rows : \/ k \in Range(page.items)
                                                \/ Older(k, Last(page.items))
             /\ ~page.more => rows \subseteq Range(page.items)
<1> DEFINE sorted == Listed(rows, NewestFirst(rows))
           n == Cardinality(rows)
           m == Min({PageSize, Len(sorted)})
           items == SubSeq(sorted, 1, m)
<1>1. /\ n \in Nat /\ sorted \in [1 .. n -> rows]
      /\ \A k \in rows : \E i \in 1 .. n : sorted[i] = k
      /\ \A i, j \in 1 .. n : i < j => Older(sorted[j], sorted[i])
  <2>1. rows \in SUBSET DOMAIN snapshots
    OBVIOUS
  <2>2. /\ n \in Nat /\ sorted \in [1 .. n -> rows]
        /\ \A k \in rows : \E i \in 1 .. n : sorted[i] = k
        /\ \A i, j \in 1 .. n : i < j => <<sorted[i], sorted[j]>> \in NewestFirst(rows)
    <3>1. IsFiniteSet(rows) /\ StrictTotal(rows, NewestFirst(rows))
      BY <2>1, NewestFirstIsTotal
    <3> DEFINE rel == NewestFirst(rows)
    <3>2. /\ Cardinality(rows) \in Nat
          /\ Listed(rows, rel) \in [1 .. Cardinality(rows) -> rows]
          /\ \A k \in rows : \E i \in 1 .. Cardinality(rows) : Listed(rows, rel)[i] = k
          /\ \A i, j \in 1 .. Cardinality(rows) :
               i < j => <<Listed(rows, rel)[i], Listed(rows, rel)[j]>> \in rel
      <4>1. StrictTotal(rows, rel)
        BY <3>1
      <4> HIDE DEF rel
      <4> QED BY ONLY <3>1, <4>1, ListedFacts
    <3> QED BY <3>2
  <2> QED BY <2>2 DEF NewestFirst
<1>2. HistoryPage(before) = [items |-> items, more |-> Len(sorted) > PageSize]
  BY DEF HistoryPage, NewestFirst
<1> HIDE DEF sorted, n
<1>3. sorted \in Seq(rows) /\ Len(sorted) = n
  BY <1>1, SeqDef, LenProperties
<1>4. /\ m \in {PageSize, n} /\ m <= PageSize /\ m <= n /\ m \in Nat
      /\ n > PageSize => m = PageSize
  <2> DEFINE two == {PageSize, n}
  <2>1. PageSize \in Nat /\ n \in Nat
    BY <1>1, LiveAssumption
  <2>2. \E x \in two : \A y \in two : x <= y
    BY <2>1
  <2>3. m \in two /\ \A y \in two : m <= y
    BY <1>3, <2>2 DEF Min
  <2> QED BY <2>1, <2>3
<1> HIDE DEF m
<1>5. /\ items \in Seq(rows) /\ Len(items) = m
      /\ \A i \in 1 .. m : items[i] = sorted[i]
  BY <1>1, <1>4, SubSeqProperties
<1> HIDE DEF items
<1>6. \A i, j \in 1 .. m : i < j => Older(items[j], items[i])
  BY <1>1, <1>4, <1>5
<1>7. DOMAIN items = 1 .. m
  BY <1>5, LenProperties
<1>8. ASSUME n > PageSize
      PROVE  /\ items # <<>>
             /\ \A k \in rows : k \in Range(items) \/ Older(k, Last(items))
  <2>1. m = PageSize /\ m \in Nat \ {0}
    BY <1>4, <1>8, LiveAssumption
  <2>2. items # <<>>
    BY <1>5, <2>1, EmptySeq
  <2>3. Last(items) = sorted[m]
    BY <1>5, <2>1 DEF Last
  <2>4. ASSUME NEW k \in rows PROVE k \in Range(items) \/ Older(k, Last(items))
    <3>1. PICK i \in 1 .. n : sorted[i] = k
      BY <1>1
    <3>2. CASE i <= m
      BY <1>4, <1>5, <1>7, <3>1, <3>2 DEF Range
    <3>3. CASE i > m
      BY <1>1, <1>4, <2>1, <2>3, <3>1, <3>3
    <3> QED BY <1>1, <1>4, <3>2, <3>3
  <2> QED BY <2>2, <2>4
<1>9. ASSUME ~(n > PageSize)
      PROVE  rows \subseteq Range(items)
  <2>1. m = n
    BY <1>1, <1>4, <1>9, LiveAssumption
  <2> QED BY <1>1, <1>5, <1>7, <2>1 DEF Range
<1>10. HistoryPage(before).items = items /\ HistoryPage(before).more = (n > PageSize)
  <2>1. HistoryPage(before).items = items
    BY <1>2
  <2>2. HistoryPage(before).more = (Len(sorted) > PageSize)
    BY <1>2
  <2> QED BY <1>3, <2>1, <2>2
<1>11. (n > PageSize) \in BOOLEAN
  OBVIOUS
<1> HIDE DEF HistoryPage
<1> QED BY <1>5, <1>6, <1>8, <1>9, <1>10, <1>11

(* The order of the history among the rows of a table.                      *)
OlderIn(rows, i, j) ==
  \/ rows[i].publishedAt < rows[j].publishedAt
  \/ rows[i].publishedAt = rows[j].publishedAt /\ i < j

LEMMA OlderIsIn ==
  \A i, j : Older(i, j) <=> OlderIn(snapshots, i, j)
BY DEF Older, OlderIn

(* What a reader w of a table has and what is still owed to it.             *)
WalkOK(rows, w) ==
  /\ w \in [pc : {"idle", "reading", "done"}, items : Seq(DOMAIN rows),
            owed : SUBSET DOMAIN rows]
  /\ \A i, j \in 1 .. Len(w.items) : i < j => OlderIn(rows, w.items[j], w.items[i])
  /\ w.pc = "reading" =>
       \A k \in w.owed : \/ k \in Range(w.items)
                         \/ w.items = <<>>
                         \/ OlderIn(rows, k, Last(w.items))
  /\ w.pc = "done" => w.owed \subseteq Range(w.items)

WalkInv == WalkOK(snapshots, walk)

LEMMA WalkInvMeans ==
  ASSUME SnapshotsOK, WalkInv
  PROVE  WalkIsExact
<1> DEFINE items == walk.items
<1>1. /\ items \in Seq(DOMAIN snapshots)
      /\ \A i, j \in 1 .. Len(items) : i < j => Older(items[j], items[i])
  BY OlderIsIn DEF WalkInv, WalkOK
<1>2. Len(items) \in Nat /\ items \in [1 .. Len(items) -> DOMAIN snapshots]
  BY <1>1, LenProperties
<1> HIDE DEF items
<1>3. \A i, j \in 1 .. Len(items) : i < j =>
         items[i] # items[j] /\ snapshots[items[i]].publishedAt >= snapshots[items[j]].publishedAt
  <2> SUFFICES ASSUME NEW i \in 1 .. Len(items), NEW j \in 1 .. Len(items), i < j
               PROVE  /\ items[i] # items[j]
                      /\ snapshots[items[i]].publishedAt >= snapshots[items[j]].publishedAt
    OBVIOUS
  <2>1. /\ items[i] \in DOMAIN snapshots /\ items[j] \in DOMAIN snapshots
        /\ Older(items[j], items[i])
    BY <1>1, <1>2
  <2>2. snapshots[items[i]].publishedAt \in Nat /\ snapshots[items[j]].publishedAt \in Nat
    BY <2>1 DEF SnapshotsOK
  <2> QED BY <2>1, <2>2, OlderIsStrict
<1>4. \A i \in 1 .. Len(items) - 1 :
        /\ items[i] # items[i + 1]
        /\ snapshots[items[i]].publishedAt >= snapshots[items[i + 1]].publishedAt
  <2> SUFFICES ASSUME NEW i \in 1 .. Len(items) - 1
               PROVE  /\ items[i] # items[i + 1]
                      /\ snapshots[items[i]].publishedAt >= snapshots[items[i + 1]].publishedAt
    OBVIOUS
  <2>1. i \in 1 .. Len(items) /\ i + 1 \in 1 .. Len(items) /\ i < i + 1
    BY <1>2
  <2> QED BY <1>3, <2>1
<1>5. IsInjective(items)
  <2> SUFFICES ASSUME NEW i \in 1 .. Len(items), NEW j \in 1 .. Len(items), items[i] = items[j],
                      i # j
               PROVE  FALSE
    BY <1>2 DEF IsInjective
  <2>1. i < j \/ j < i
    BY <1>2
  <2> QED BY <1>3, <2>1
<1> QED BY <1>4, <1>5 DEF WalkInv, WalkOK, WalkIsExact, items

LEMMA PageContinuesWalk ==
  ASSUME SnapshotsOK, WalkInv, NextPage
  PROVE  WalkInv'
<1> DEFINE items == walk.items
           before == IF items = <<>> THEN None ELSE Last(items)
           page == HistoryPage(before)
           new == page.items
           rows == {i \in DOMAIN snapshots : before # None => Older(i, before)}
<1>1. /\ walk' = [walk EXCEPT !.items = @ \o page.items,
                              !.pc = IF page.more THEN "reading" ELSE "done"]
      /\ walk.pc = "reading" /\ snapshots' = snapshots
  BY DEF NextPage
<1>2. /\ items \in Seq(DOMAIN snapshots) /\ walk.owed \subseteq DOMAIN snapshots
      /\ \A i, j \in 1 .. Len(items) : i < j => Older(items[j], items[i])
      /\ \A k \in walk.owed : k \in Range(items) \/ items = <<>> \/ Older(k, Last(items))
      /\ walk = [pc |-> walk.pc, items |-> items, owed |-> walk.owed]
  BY <1>1, OlderIsIn DEF WalkInv, WalkOK
<1>3. /\ new \in Seq(rows) /\ page.more \in BOOLEAN
      /\ \A i, j \in 1 .. Len(new) : i < j => Older(new[j], new[i])
      /\ page.more => /\ new # <<>>
                      /\ \A k \in rows : k \in Range(new) \/ Older(k, Last(new))
      /\ ~page.more => rows \subseteq Range(new)
  <2> HIDE DEF before
  <2> QED BY PageFacts
<1>4. walk' = [pc |-> IF page.more THEN "reading" ELSE "done", items |-> items \o new,
               owed |-> walk.owed]
  <2> HIDE DEF items, page
  <2> QED BY <1>1, <1>2 DEF items, page
<1>5. ASSUME items # <<>>
      PROVE  before = items[Len(items)] /\ Len(items) \in 1 .. Len(items)
             /\ before \in DOMAIN snapshots /\ before # None
  <2>1. Len(items) \in Nat \ {0} /\ items \in [1 .. Len(items) -> DOMAIN snapshots]
    BY <1>2, <1>5, EmptySeq, LenProperties
  <2>2. before = items[Len(items)] /\ before \in DOMAIN snapshots
    BY <1>5, <2>1 DEF Last
  <2>3. before \in Int
    BY <2>2, SnapshotIds
  <2> QED BY <2>1, <2>2, <2>3, LiveAssumption
<1>6. items = <<>> => rows = DOMAIN snapshots
  OBVIOUS
<1>7. items # <<>> => rows = {i \in DOMAIN snapshots : Older(i, before)}
  BY <1>5
<1>8. \A k \in walk.owed : k \in Range(items) \/ k \in rows
  BY <1>2, <1>6, <1>7
<1> HIDE DEF items, new, rows, page, before
<1>9. new \in Seq(DOMAIN snapshots)
  <2>1. rows \subseteq DOMAIN snapshots
    BY DEF rows
  <2> QED BY <1>3, <2>1, SeqMonotonic
<1>10. /\ Len(items) \in Nat /\ items \in [1 .. Len(items) -> DOMAIN snapshots]
       /\ Len(new) \in Nat /\ new \in [1 .. Len(new) -> rows]
       /\ DOMAIN items = 1 .. Len(items) /\ DOMAIN new = 1 .. Len(new)
  BY <1>2, <1>3, LenProperties
<1> DEFINE all == items \o new
<1>11. /\ all \in Seq(DOMAIN snapshots) /\ Len(all) = Len(items) + Len(new)
       /\ \A i \in 1 .. Len(items) + Len(new) :
            all[i] = IF i <= Len(items) THEN items[i] ELSE new[i - Len(items)]
  BY <1>2, <1>9, ConcatProperties
<1>12. DOMAIN all = 1 .. Len(items) + Len(new)
  BY <1>11, LenProperties
<1> HIDE DEF all
<1>13. Range(items) \cup Range(new) \subseteq Range(all)
  <2>1. ASSUME NEW i \in DOMAIN items PROVE items[i] \in Range(all)
    BY <1>10, <1>11, <1>12 DEF Range
  <2>2. ASSUME NEW i \in DOMAIN new PROVE new[i] \in Range(all)
    <3>1. i + Len(items) \in DOMAIN all /\ all[i + Len(items)] = new[i]
      BY <1>10, <1>11, <1>12
    <3> QED BY <3>1 DEF Range
  <2> QED BY <2>1, <2>2 DEF Range
<1>14. ASSUME NEW i \in 1 .. Len(all), NEW j \in 1 .. Len(all), i < j
       PROVE  Older(all[j], all[i])
  <2>1. CASE j <= Len(items)
    BY <1>2, <1>10, <1>11, <1>14, <2>1
  <2>2. CASE i > Len(items)
    <3>1. /\ i - Len(items) \in 1 .. Len(new) /\ j - Len(items) \in 1 .. Len(new)
          /\ i - Len(items) < j - Len(items)
      BY <1>10, <1>11, <1>14, <2>2
    <3>2. all[i] = new[i - Len(items)] /\ all[j] = new[j - Len(items)]
      BY <1>10, <1>11, <1>14, <2>2
    <3> QED BY <1>3, <3>1, <3>2
  <2>3. CASE i <= Len(items) /\ j > Len(items)
    <3>1. j - Len(items) \in 1 .. Len(new) /\ all[j] = new[j - Len(items)] /\ all[i] = items[i]
      BY <1>10, <1>11, <2>3
    <3>2. items # <<>>
      BY <1>10, <2>3, EmptySeq
    <3>3. all[j] \in DOMAIN snapshots /\ Older(all[j], before)
      BY <1>7, <1>10, <3>1, <3>2
    <3>4. i \in 1 .. Len(items) /\ Len(items) \in 1 .. Len(items) /\ all[i] \in DOMAIN snapshots
          /\ before = items[Len(items)] /\ before \in DOMAIN snapshots
      BY <1>5, <1>10, <2>3, <3>1, <3>2
    <3>5. CASE i = Len(items)
      BY <3>1, <3>3, <3>4, <3>5
    <3>6. CASE i < Len(items)
      <4>1. Older(items[Len(items)], items[i])
        BY <1>2, <3>4, <3>6
      <4>2. Older(before, all[i])
        BY <3>1, <3>4, <4>1
      <4>3. Older(all[j], before) /\ all[j] \in DOMAIN snapshots /\ before \in DOMAIN snapshots
        BY <3>3, <3>4
      <4> QED BY <3>4, <4>2, <4>3, OlderIsStrict
    <3>7. i = Len(items) \/ i < Len(items)
      <4>1. Len(items) \in Nat /\ i \in 1 .. Len(items)
        BY <1>10, <3>4
      <4> QED BY ONLY <4>1
    <3> QED BY <3>5, <3>6, <3>7
  <2> QED BY <1>10, <1>11, <2>1, <2>2, <2>3
<1>15. ASSUME page.more, NEW k \in walk.owed
       PROVE  k \in Range(all) \/ Older(k, Last(all))
  <2>1. Len(new) \in Nat \ {0}
    BY <1>3, <1>15, EmptySeq
  <2>2. Last(all) = Last(new)
    BY <1>10, <1>11, <2>1 DEF Last
  <2> QED BY <1>3, <1>8, <1>13, <1>15, <2>2
<1>16. ~page.more => walk.owed \subseteq Range(all)
  BY <1>3, <1>8, <1>13
<1> QED
  <2>1. /\ walk'.items = all /\ walk'.owed = walk.owed
        /\ walk'.pc = IF page.more THEN "reading" ELSE "done"
        /\ walk' \in [pc : {"idle", "reading", "done"}, items : Seq(DOMAIN snapshots),
                      owed : SUBSET DOMAIN snapshots]
    BY <1>2, <1>4, <1>11 DEF all
  <2>2. \A i, j \in DOMAIN snapshots : Older(i, j)' <=> Older(i, j)
    BY <1>1 DEF Older
  <2>3. \A i \in 1 .. Len(all) : all[i] \in DOMAIN snapshots
    BY <1>11, ElementOfSeq
  <2>4. all # <<>> => Last(all) \in DOMAIN snapshots
    BY <1>11, <2>3, EmptySeq DEF Last
  <2>5. walk' \in [pc : {"idle", "reading", "done"}, items : Seq(DOMAIN snapshots'),
                   owed : SUBSET DOMAIN snapshots']
    BY <1>1, <2>1
  <2>6. \A i, j \in 1 .. Len(all) : i < j => OlderIn(snapshots', all[j], all[i])
    BY <1>1, <1>14, OlderIsIn
  <2>7. ASSUME page.more, NEW k \in walk.owed
        PROVE  k \in Range(all) \/ OlderIn(snapshots', k, Last(all))
    BY <1>1, <1>15, <2>7, OlderIsIn
  <2> HIDE DEF page
  <2> QED BY <1>16, <2>1, <2>5, <2>6, <2>7 DEF WalkInv, WalkOK

-----------------------------------------------------------------------------
(* The tasks of the event loop.                                             *)

Parts == {"pc", "own", "now", "marker", "stale", "key", "result", "content"}

JobsOK ==
  /\ jobs = [j \in Jobs |-> jobs[j]]
  /\ \A j \in Jobs : DOMAIN jobs[j] = Parts /\ jobs[j].now \in Nat
  /\ clock \in Nat

IsAJob(x, pc, own, now, marker, stale, key, result, content) ==
  /\ DOMAIN x = Parts
  /\ x.pc = pc /\ x.own = own /\ x.now = now /\ x.marker = marker
  /\ x.stale = stale /\ x.key = key /\ x.result = result /\ x.content = content

(* What a step makes of one task.                                           *)
Sets(p, pc, own, now, marker, stale, key, result, content) ==
  /\ jobs' = [j \in Jobs |-> jobs'[j]]
  /\ \A j \in Jobs \ {p} : jobs'[j] = jobs[j]
  /\ IsAJob(jobs'[p], pc, own, now, marker, stale, key, result, content)

LEMMA SettingAJob ==
  ASSUME JobsOK, NEW p \in Jobs, NEW v, jobs' = [jobs EXCEPT ![p] = v],
         NEW pc, NEW own, NEW now, NEW marker, NEW stale, NEW key, NEW result, NEW content,
         IsAJob(v, pc, own, now, marker, stale, key, result, content)
  PROVE  Sets(p, pc, own, now, marker, stale, key, result, content)
<1>1. jobs' = [j \in Jobs |-> IF j = p THEN v ELSE jobs[j]]
  BY DEF JobsOK
<1>2. jobs'[p] = v /\ \A j \in Jobs \ {p} : jobs'[j] = jobs[j]
  BY <1>1
<1>3. jobs' = [j \in Jobs |-> jobs'[j]]
  BY <1>1
<1> QED BY <1>2, <1>3 DEF Sets

LEMMA IdleIsAJob == IsAJob(Idle, "idle", None, 0, None, FALSE, None, None, None)
BY DEF Idle, IsAJob, Parts

LEMMA JobShape ==
  ASSUME JobsOK, NEW j \in Jobs
  PROVE  IsAJob(jobs[j], jobs[j].pc, jobs[j].own, jobs[j].now, jobs[j].marker, jobs[j].stale, jobs[j].key, jobs[j].result, jobs[j].content)
BY DEF JobsOK, IsAJob

LEMMA StopSets ==
  ASSUME JobsOK, NEW p \in Jobs, Stop(p)
  PROVE  Sets(p, "idle", None, 0, None, FALSE, None, None, None)
BY SettingAJob, IdleIsAJob DEF Stop

LEMMA FinalizeSets ==
  ASSUME JobsOK, NEW f, Finalize(f)
  PROVE  Sets("live", "analyze", f, 0, None, FALSE, None, None, None)
<1> DEFINE v == [Idle EXCEPT !.pc = "analyze", !.own = f]
<1>1. jobs' = [jobs EXCEPT !["live"] = v] /\ "live" \in Jobs
  BY DEF Finalize, Jobs, Publishers
<1>2. IsAJob(v, "analyze", f, 0, None, FALSE, None, None, None)
  BY DEF Idle, IsAJob, Parts
<1> HIDE DEF v
<1> QED BY <1>1, <1>2, SettingAJob

LEMMA RecoveryTakesSets ==
  ASSUME JobsOK, RecoveryTakes
  PROVE  Sets("recovery", "analyze", Head(recovery.todo), 0, None, FALSE, None, None, None)
<1> DEFINE v == [Idle EXCEPT !.pc = "analyze", !.own = Head(recovery.todo)]
<1>1. jobs' = [jobs EXCEPT !["recovery"] = v] /\ "recovery" \in Jobs
  BY DEF RecoveryTakes, Jobs, Publishers
<1>2. IsAJob(v, "analyze", Head(recovery.todo), 0, None, FALSE, None, None, None)
  BY DEF Idle, IsAJob, Parts
<1> HIDE DEF v
<1> QED BY <1>1, <1>2, SettingAJob

LEMMA GotoSets ==
  ASSUME JobsOK, NEW p \in Jobs, NEW pc, Goto(p, pc)
  PROVE  Sets(p, pc, jobs[p].own, jobs[p].now, jobs[p].marker, jobs[p].stale, jobs[p].key, jobs[p].result, jobs[p].content)
<1> DEFINE v == [jobs[p] EXCEPT !.pc = pc]
<1>1. jobs' = [jobs EXCEPT ![p] = v]
  BY DEF Goto
<1>2. IsAJob(v, pc, jobs[p].own, jobs[p].now, jobs[p].marker, jobs[p].stale, jobs[p].key, jobs[p].result, jobs[p].content)
  BY DEF JobsOK, IsAJob, Parts
<1> HIDE DEF v
<1> QED BY <1>1, <1>2, SettingAJob

LEMMA BeginSets ==
  ASSUME JobsOK, NEW r \in Requests, Begin(r)
  PROVE  IF Analyzed = {}
         THEN Sets(r, "idle", None, 0, None, FALSE, None, None, None)
         ELSE Sets(r, "frames", None, clock, Marker, FALSE, None, None, None)
<1> DEFINE m == Marker
           v == [Idle EXCEPT !.pc = "frames", !.now = clock, !.marker = m]
<1>1. jobs' = [jobs EXCEPT ![r] = IF Analyzed = {} THEN Idle ELSE v] /\ r \in Jobs
  BY DEF Begin, Jobs
<1> HIDE DEF m
<1>2. IsAJob(v, "frames", None, clock, m, FALSE, None, None, None)
  BY DEF Idle, IsAJob, Parts
<1> HIDE DEF v
<1>3. CASE Analyzed = {}
  BY <1>1, <1>3, SettingAJob, IdleIsAJob
<1>4. CASE Analyzed # {}
  BY <1>1, <1>2, <1>4, SettingAJob DEF m
<1> QED BY <1>3, <1>4

LEMMA PublishCheckSets ==
  ASSUME JobsOK, NEW p \in Publishers, PublishCheck(p)
  PROVE  IF Analyzed # {} /\ Max(Analyzed) = jobs[p].own
         THEN Sets(p, "marker", jobs[p].own, clock, jobs[p].marker, jobs[p].stale, jobs[p].key, jobs[p].result, jobs[p].content)
         ELSE Sets(p, "idle", None, 0, None, FALSE, None, None, None)
<1> DEFINE live == Analyzed # {} /\ Max(Analyzed) = jobs[p].own
           v == [jobs[p] EXCEPT !.pc = "marker", !.now = clock]
<1>1. p \in Jobs
  BY DEF Jobs
<1>2. IsAJob(v, "marker", jobs[p].own, clock, jobs[p].marker, jobs[p].stale, jobs[p].key, jobs[p].result, jobs[p].content)
  BY <1>1 DEF JobsOK, IsAJob, Parts
<1>3. CASE live
  <2>1. jobs' = [jobs EXCEPT ![p].pc = "marker", ![p].now = clock]
    BY <1>3 DEF PublishCheck
  <2>2. jobs' = [jobs EXCEPT ![p] = v]
    BY <1>1, <2>1 DEF JobsOK
  <2> HIDE DEF v
  <2> QED BY <1>1, <1>2, <1>3, <2>2, SettingAJob
<1>4. CASE ~live
  BY <1>1, <1>4, StopSets DEF PublishCheck
<1> QED BY <1>3, <1>4

LEMMA ReadMarkerSets ==
  ASSUME JobsOK, NEW p \in Publishers, ReadMarker(p)
  PROVE  Sets(p, "frames", jobs[p].own, jobs[p].now, Marker, jobs[p].stale, jobs[p].key, jobs[p].result, jobs[p].content)
<1> DEFINE m == Marker
           v == [jobs[p] EXCEPT !.pc = "frames", !.marker = m]
<1>1. p \in Jobs /\ jobs' = [jobs EXCEPT ![p].pc = "frames", ![p].marker = m]
  BY DEF Jobs, ReadMarker
<1> HIDE DEF m
<1>2. IsAJob(v, "frames", jobs[p].own, jobs[p].now, m, jobs[p].stale, jobs[p].key, jobs[p].result, jobs[p].content)
  BY <1>1 DEF JobsOK, IsAJob, Parts
<1>3. jobs' = [jobs EXCEPT ![p] = v]
  BY <1>1 DEF JobsOK
<1> HIDE DEF v
<1> QED BY <1>1, <1>2, <1>3, SettingAJob DEF m

(* The end of live_rankings: a request is answered, a publisher inserts     *)
(* what is of its own frame.                                                *)
LEMMA FinishSets ==
  ASSUME JobsOK, NEW j \in Jobs, NEW stale, NEW content, Finish(j, stale, content)
  PROVE  LET answer == Respond(content, stale, Completeness(content.frame))
         IN  IF j \in Requests
             THEN Sets(j, "done", None, jobs[j].now, None, FALSE, None, None, answer)
             ELSE IF jobs[j].own = content.frame
             THEN Sets(j, "insert", jobs[j].own, jobs[j].now, None, FALSE, None, None, answer)
             ELSE Sets(j, "idle", None, 0, None, FALSE, None, None, None)
<1> DEFINE answer == Respond(content, stale, Completeness(content.frame))
           done == [Idle EXCEPT !.pc = "done", !.now = jobs[j].now, !.content = answer]
           insert == [Idle EXCEPT !.pc = "insert", !.own = jobs[j].own,
                                  !.now = jobs[j].now, !.content = answer]
<1>1. jobs' = [jobs EXCEPT ![j] =
                  CASE j \in Requests -> done
                    [] j \in Publishers /\ jobs[j].own = content.frame -> insert
                    [] OTHER -> Idle]
  BY DEF Finish
<1> HIDE DEF answer
<1>2. /\ IsAJob(done, "done", None, jobs[j].now, None, FALSE, None, None, answer)
      /\ IsAJob(insert, "insert", jobs[j].own, jobs[j].now, None, FALSE, None, None, answer)
  BY DEF Idle, IsAJob, Parts
<1> HIDE DEF done, insert
<1>3. j \in Publishers <=> j \notin Requests
  BY LiveAssumption DEF Jobs, Publishers
<1>4. CASE j \in Requests
  <2>1. jobs' = [jobs EXCEPT ![j] = done]
    BY <1>1, <1>3, <1>4
  <2> QED BY <1>2, <1>4, <2>1, SettingAJob DEF answer
<1>5. CASE j \notin Requests /\ jobs[j].own = content.frame
  <2>1. jobs' = [jobs EXCEPT ![j] = insert]
    BY <1>1, <1>3, <1>5
  <2> QED BY <1>2, <1>5, <2>1, SettingAJob DEF answer
<1>6. CASE j \notin Requests /\ jobs[j].own # content.frame
  <2>1. jobs' = [jobs EXCEPT ![j] = Idle]
    BY <1>1, <1>6
  <2> QED BY <1>6, <2>1, SettingAJob, IdleIsAJob
<1> QED BY <1>4, <1>5, <1>6

(* What is found in the cache is the answer; else the results are loaded.    *)
LEMMA ReadFramesSets ==
  ASSUME JobsOK, NEW j \in Jobs, ReadFrames(j)
  PROVE  LET stale == Stale(jobs[j].marker[1], Max(FinalizedFrames), jobs[j].now)
             key == Key(jobs[j].marker)
         IN  IF Cached(key) # {} THEN Finish(j, stale, cache[Min(Cached(key))].content)
             ELSE Sets(j, "load", jobs[j].own, jobs[j].now, jobs[j].marker, stale, key, jobs[j].result, jobs[j].content)
<1> DEFINE stale == Stale(jobs[j].marker[1], Max(FinalizedFrames), jobs[j].now)
           key == Key(jobs[j].marker)
           v == [jobs[j] EXCEPT !.pc = "load", !.stale = stale, !.key = key]
<1>1. IF Cached(key) # {} THEN Finish(j, stale, cache[Min(Cached(key))].content)
      ELSE jobs' = [jobs EXCEPT ![j].pc = "load", ![j].stale = stale, ![j].key = key]
  BY DEF ReadFrames
<1> HIDE DEF stale, key
<1>2. IsAJob(v, "load", jobs[j].own, jobs[j].now, jobs[j].marker, stale, key, jobs[j].result, jobs[j].content)
  BY DEF JobsOK, IsAJob, Parts
<1>3. CASE Cached(key) # {}
  BY <1>1, <1>3 DEF stale, key
<1>4. CASE Cached(key) = {}
  <2>1. jobs' = [jobs EXCEPT ![j] = v]
    BY <1>1, <1>4 DEF JobsOK
  <2> HIDE DEF v
  <2> QED BY <1>2, <1>4, <2>1, SettingAJob DEF stale, key
<1> QED BY <1>3, <1>4

(* What is loaded: the results, and the Long ranking by the files there are. *)
Loaded(result) ==
  [frame |-> result.frame, at |-> result.at, analysis |-> result.analysis,
   ranking |-> [d \in {"long"} |->
                  RankDirection("long", files["long"].candidate, Measured[result.frame])]]

LEMMA LoadResultsSets ==
  ASSUME JobsOK, NEW j \in Jobs, LoadResults(j)
  PROVE  LET result == results[jobs[j].marker[1]]
         IN  Sets(j, "long", jobs[j].own, jobs[j].now, jobs[j].marker, jobs[j].stale, jobs[j].key, result, Loaded(result))
<1> DEFINE result == results[jobs[j].marker[1]]
           loaded == Loaded(result)
           v == [jobs[j] EXCEPT !.pc = "long", !.result = result, !.content = loaded]
<1>1. jobs' = [jobs EXCEPT ![j].pc = "long", ![j].result = result, ![j].content = loaded]
  BY DEF LoadResults, Loaded
<1> HIDE DEF result, loaded
<1>2. IsAJob(v, "long", jobs[j].own, jobs[j].now, jobs[j].marker, jobs[j].stale, jobs[j].key, result, loaded)
  BY DEF JobsOK, IsAJob, Parts
<1>3. jobs' = [jobs EXCEPT ![j] = v]
  BY <1>1 DEF JobsOK
<1> HIDE DEF v
<1> QED BY <1>2, <1>3, SettingAJob DEF result, loaded

(* What is made of it once the frame before is read for Long: Long is        *)
(* completed, and Short is ranked by the files there are now.               *)
LongRead(j) ==
  LET result == jobs[j].result
      short == RankDirection("short", files["short"].candidate, Measured[result.frame])
  IN  [jobs[j].content EXCEPT !.ranking =
         [long |-> Complete("long", jobs[j].content.ranking["long"], result), short |-> short]]

LEMMA ReadLongSets ==
  ASSUME JobsOK, NEW j \in Jobs, ReadLong(j)
  PROVE  Sets(j, "short", jobs[j].own, jobs[j].now, jobs[j].marker, jobs[j].stale, jobs[j].key, jobs[j].result, LongRead(j))
<1> DEFINE result == jobs[j].result
           long == jobs[j].content.ranking["long"]
           short == RankDirection("short", files["short"].candidate, Measured[result.frame])
           rankings == [long |-> Complete("long", long, result), short |-> short]
           read == LongRead(j)
           v == [jobs[j] EXCEPT !.pc = "short", !.content = read]
<1>1. jobs' = [jobs EXCEPT ![j].pc = "short", ![j].content.ranking = rankings]
  BY DEF ReadLong
<1>2. read = [jobs[j].content EXCEPT !.ranking = rankings]
  BY DEF LongRead
<1> HIDE DEF rankings, read
<1>3. IsAJob(v, "short", jobs[j].own, jobs[j].now, jobs[j].marker, jobs[j].stale, jobs[j].key, jobs[j].result, read)
  BY DEF JobsOK, IsAJob, Parts
<1>4. jobs' = [jobs EXCEPT ![j] = v]
  BY <1>1, <1>2 DEF JobsOK, Parts
<1> HIDE DEF v
<1> QED BY <1>3, <1>4, SettingAJob DEF read

LEMMA SettingKeepsJobs ==
  ASSUME JobsOK, clock' = clock, NEW p \in Jobs, NEW pc, NEW own, NEW now \in Nat, NEW marker,
         NEW stale, NEW key, NEW result, NEW content,
         Sets(p, pc, own, now, marker, stale, key, result, content)
  PROVE  JobsOK'
BY DEF Sets, IsAJob, JobsOK

LEMMA FinishKeepsJobs ==
  ASSUME JobsOK, clock' = clock, NEW j \in Jobs, NEW stale, NEW content, Finish(j, stale, content)
  PROVE  JobsOK'
<1> jobs[j].now \in Nat /\ 0 \in Nat
  BY DEF JobsOK
<1> QED BY FinishSets, SettingKeepsJobs

LEMMA JobsInit ==
  ASSUME Init
  PROVE  JobsOK
<1>1. clock \in Nat
  BY LiveAssumption, WindowAssumption DEF Init
<1>2. \A j \in Jobs : jobs[j] = Idle
  BY DEF Init
<1>3. DOMAIN Idle = Parts /\ Idle.now \in Nat
  BY DEF Idle, Parts
<1> QED BY <1>1, <1>2, <1>3 DEF Init, JobsOK

LEMMA JobsStep ==
  ASSUME JobsOK, [Next]_vars
  PROVE  JobsOK'
<1> USE DEF Market
<1>0. /\ clock \in Nat /\ 0 \in Nat /\ \A j \in Jobs : jobs[j].now \in Nat
      /\ Requests \subseteq Jobs /\ Publishers \subseteq Jobs /\ "live" \in Jobs
      /\ "recovery" \in Jobs
  BY DEF JobsOK, Jobs, Publishers
<1>1. CASE UNCHANGED <<clock, jobs>>
  BY <1>1 DEF JobsOK
<1>2. CASE Tick
  <2>1. clock' \in Nat /\ jobs' = jobs
    BY <1>0, <1>2 DEF Tick
  <2> QED BY <2>1 DEF JobsOK
<1>3. ASSUME NEW f \in Frames, Finalize(f) PROVE JobsOK'
  BY <1>0, <1>3, FinalizeSets, SettingKeepsJobs DEF Finalize
<1>4. CASE RecoveryTakes
  BY <1>0, <1>4, RecoveryTakesSets, SettingKeepsJobs DEF RecoveryTakes
<1>5. ASSUME NEW p \in Publishers, Analyze(p) PROVE JobsOK'
  BY <1>0, <1>5, GotoSets, SettingKeepsJobs DEF Analyze
<1>6. ASSUME NEW p \in Publishers, Fails(p) PROVE JobsOK'
  BY <1>0, <1>6, StopSets, SettingKeepsJobs DEF Fails
<1>7. ASSUME NEW p \in Publishers, PublishCheck(p) PROVE JobsOK'
  <2>1. clock' = clock
    BY <1>7 DEF PublishCheck
  <2> QED BY <1>0, <1>7, <2>1, PublishCheckSets, SettingKeepsJobs
<1>8. ASSUME NEW p \in Publishers, ReadMarker(p) PROVE JobsOK'
  <2>1. clock' = clock
    BY <1>8 DEF ReadMarker
  <2> QED BY <1>0, <1>8, <2>1, ReadMarkerSets, SettingKeepsJobs
<1>9. ASSUME NEW p \in Publishers, Insert(p) PROVE JobsOK'
  BY <1>0, <1>9, StopSets, SettingKeepsJobs DEF Insert
<1>10. ASSUME NEW r \in Requests, Begin(r) PROVE JobsOK'
  <2>1. clock' = clock
    BY <1>10 DEF Begin
  <2> QED BY <1>0, <1>10, <2>1, BeginSets, SettingKeepsJobs
<1>11. ASSUME NEW r \in Requests, Deliver(r) PROVE JobsOK'
  BY <1>0, <1>11, StopSets, SettingKeepsJobs DEF Deliver
<1>12. ASSUME NEW j \in Jobs, ReadFrames(j) PROVE JobsOK'
  <2>1. clock' = clock
    BY <1>12 DEF ReadFrames
  <2> QED BY <1>0, <1>12, <2>1, ReadFramesSets, FinishKeepsJobs, SettingKeepsJobs
<1>13. ASSUME NEW j \in Jobs, LoadResults(j) PROVE JobsOK'
  <2>1. clock' = clock
    BY <1>13 DEF LoadResults
  <2> QED BY <1>0, <1>13, <2>1, LoadResultsSets, SettingKeepsJobs
<1>14. ASSUME NEW j \in Jobs, ReadLong(j) PROVE JobsOK'
  <2>1. clock' = clock
    BY <1>14 DEF ReadLong
  <2> QED BY <1>0, <1>14, <2>1, ReadLongSets, SettingKeepsJobs
<1>15. ASSUME NEW j \in Jobs, ReadShort(j) PROVE JobsOK'
  <2>1. clock' = clock
    BY <1>15 DEF ReadShort
  <2>2. \E stale, content : Finish(j, stale, content)
    BY <1>15 DEF ReadShort
  <2> QED BY <2>1, <2>2, FinishKeepsJobs
<1>16. \/ UNCHANGED <<clock, jobs>> \/ Tick \/ \E f \in Frames : Finalize(f)
       \/ RecoveryTakes
       \/ \E p \in Publishers : Analyze(p) \/ Fails(p) \/ PublishCheck(p) \/ ReadMarker(p) \/ Insert(p)
       \/ \E r \in Requests : Begin(r) \/ Deliver(r)
       \/ \E j \in Jobs : ReadFrames(j) \/ LoadResults(j) \/ ReadLong(j) \/ ReadShort(j)
  BY DEF Next, vars, Build, RecoveryLooks, Edit, StartWalk, NextPage, PreviousSnapshot
<1> QED
  BY <1>1, <1>2, <1>3, <1>4, <1>5, <1>6, <1>7, <1>8, <1>9, <1>10, <1>11, <1>12, <1>13, <1>14,
     <1>15, <1>16

-----------------------------------------------------------------------------
(* The reader steps.                                                        *)

(* The previous snapshot is the newest of the older ones.                   *)
LEMMA NeighbourFacts ==
  ASSUME SnapshotsOK, NEW i \in DOMAIN snapshots, NEW older,
         older = {j \in DOMAIN snapshots : Older(j, i)}, older # {}
  PROVE  /\ Neighbour(i) \in older
         /\ \A k \in older \ {Neighbour(i)} : Older(k, Neighbour(i))
<1> DEFINE rel == NewestFirst(older)
           n == Cardinality(older)
           e == Listed(older, rel)
<1>1. IsFiniteSet(older) /\ StrictTotal(older, rel)
  BY NewestFirstIsTotal
<1>2. /\ n \in Nat /\ e \in [1 .. n -> older]
      /\ \A x \in older : \E k \in 1 .. n : e[k] = x
      /\ \A a, b \in 1 .. n : a < b => <<e[a], e[b]>> \in rel
  <2> HIDE DEF rel
  <2> QED BY ONLY <1>1, ListedFacts
<1>3. \A x, y \in older : <<x, y>> \in rel <=> Older(y, x)
  BY DEF NewestFirst
<1> HIDE DEF e, n, rel
<1>4. 1 \in 1 .. n /\ e[1] \in older
  BY <1>2
<1>5. ASSUME NEW k \in older \ {e[1]} PROVE Older(k, e[1])
  <2>1. PICK a \in 1 .. n : e[a] = k
    BY <1>2
  <2>2. 1 < a
    BY <1>2, <1>5, <2>1
  <2> QED BY <1>2, <1>3, <1>4, <2>1, <2>2
<1>6. \E j \in older : \A k \in older \ {j} : Older(k, j)
  BY <1>4, <1>5
<1>7. Neighbour(i) = CHOOSE j \in older : \A k \in older \ {j} : Older(k, j)
  BY DEF Neighbour
<1> QED BY <1>6, <1>7

LEMMA StepBackContinuesWalk ==
  ASSUME SnapshotsOK, WalkInv, PreviousSnapshot
  PROVE  WalkInv'
<1> DEFINE items == walk.items
           last == Last(items)
           next == Neighbour(last)
           older == {j \in DOMAIN snapshots : Older(j, last)}
           all == Append(items, next)
<1>1. /\ walk' = [walk EXCEPT !.items = all]
      /\ walk.pc = "reading" /\ items # <<>> /\ next # None /\ snapshots' = snapshots
  BY DEF PreviousSnapshot
<1>2. /\ items \in Seq(DOMAIN snapshots) /\ walk.owed \subseteq DOMAIN snapshots
      /\ \A i, j \in 1 .. Len(items) : i < j => Older(items[j], items[i])
      /\ \A k \in walk.owed : k \in Range(items) \/ Older(k, last)
      /\ walk = [pc |-> walk.pc, items |-> items, owed |-> walk.owed]
  BY <1>1, OlderIsIn DEF WalkInv, WalkOK
<1>3. walk' = [pc |-> "reading", items |-> all, owed |-> walk.owed]
  <2> HIDE DEF all, items
  <2> QED BY <1>1, <1>2
<1>4. /\ Len(items) \in Nat \ {0} /\ items \in [1 .. Len(items) -> DOMAIN snapshots]
      /\ DOMAIN items = 1 .. Len(items)
      /\ last = items[Len(items)] /\ last \in DOMAIN snapshots
  BY <1>1, <1>2, EmptySeq, LenProperties DEF Last
<1> HIDE DEF items, last
<1>5. /\ next \in DOMAIN snapshots /\ Older(next, last)
      /\ \A k \in DOMAIN snapshots : Older(k, last) => k = next \/ Older(k, next)
  <2>1. older # {}
    BY <1>1 DEF Neighbour
  <2>2. next \in older /\ \A k \in older \ {next} : Older(k, next)
    <3> HIDE DEF next
    <3> QED BY <1>4, <2>1, NeighbourFacts DEF next
  <2> QED BY <2>2
<1> HIDE DEF next
<1>6. /\ all \in Seq(DOMAIN snapshots) /\ Len(all) = Len(items) + 1
      /\ all[Len(items) + 1] = next
      /\ \A i \in 1 .. Len(items) : all[i] = items[i]
  BY <1>2, <1>5, AppendProperties
<1> HIDE DEF all
<1>7. DOMAIN all = 1 .. Len(items) + 1 /\ Last(all) = next
  BY <1>4, <1>6, LenProperties DEF Last
<1>8. ASSUME NEW i \in 1 .. Len(all), NEW j \in 1 .. Len(all), i < j
      PROVE  Older(all[j], all[i])
  <2>1. CASE j <= Len(items)
    <3>1. i \in 1 .. Len(items) /\ j \in 1 .. Len(items)
      BY <1>4, <1>6, <1>8, <2>1
    <3> QED BY <1>2, <1>6, <1>8, <3>1
  <2>2. CASE j = Len(items) + 1
    <3>1. i \in 1 .. Len(items) /\ Len(items) \in 1 .. Len(items) /\ all[i] = items[i]
      BY <1>4, <1>6, <1>8, <2>2
    <3>2. i = Len(items) \/ Older(last, items[i])
      <4>1. i = Len(items) \/ i < Len(items)
        <5>1. Len(items) \in Nat /\ i \in 1 .. Len(items)
          BY <1>4, <3>1
        <5> QED BY ONLY <5>1
      <4> QED BY <1>2, <1>4, <3>1, <4>1
    <3>3. items[i] \in DOMAIN snapshots
      BY <1>4, <3>1
    <3> QED BY <1>4, <1>5, <1>6, <2>2, <3>1, <3>2, <3>3, OlderIsStrict
  <2> QED BY <1>4, <1>6, <2>1, <2>2
<1>9. ASSUME NEW k \in walk.owed
      PROVE  k \in Range(all) \/ Older(k, next)
  <2>1. CASE k \in Range(items)
    BY <1>4, <1>6, <1>7, <2>1 DEF Range
  <2>2. CASE Older(k, last)
    BY <1>2, <1>4, <1>5, <1>6, <1>7, <2>2 DEF Range
  <2> QED BY <1>2, <2>1, <2>2
<1> QED
  <2>1. walk' \in [pc : {"idle", "reading", "done"}, items : Seq(DOMAIN snapshots'),
                   owed : SUBSET DOMAIN snapshots']
    BY <1>1, <1>2, <1>3, <1>6
  <2>2. walk'.pc = "reading" /\ walk'.items = all /\ walk'.owed = walk.owed
    BY <1>3
  <2>3. \A i, j \in 1 .. Len(all) : i < j => OlderIn(snapshots', all[j], all[i])
    BY <1>1, <1>8, OlderIsIn
  <2>4. \A k \in walk.owed : k \in Range(all) \/ OlderIn(snapshots', k, Last(all))
    BY <1>1, <1>7, <1>9, OlderIsIn
  <2> QED BY <2>1, <2>2, <2>3, <2>4 DEF WalkInv, WalkOK

LEMMA StartingAWalk ==
  ASSUME StartWalk
  PROVE  WalkInv'
<1>1. /\ walk' = [pc |-> "reading", items |-> <<>>, owed |-> DOMAIN snapshots]
      /\ snapshots' = snapshots
  BY DEF StartWalk
<1> QED BY <1>1 DEF WalkInv, WalkOK

(* Another snapshot goes after those there are, which keep their places.     *)
LEMMA InsertKeepsRows ==
  ASSUME SnapshotsOK, JobsOK, NEW p \in Publishers, Insert(p)
  PROVE  /\ SnapshotsOK' /\ DOMAIN snapshots \subseteq DOMAIN snapshots'
         /\ \A i \in DOMAIN snapshots : snapshots'[i] = snapshots[i]
<1> DEFINE row == [payload |-> jobs[p].content, publishedAt |-> jobs[p].now]
<1>1. snapshots' = snapshots \/ snapshots' = Append(snapshots, row)
  BY DEF Insert, InsertRow
<1>2. row.publishedAt \in Nat
  BY DEF JobsOK, Jobs
<1> HIDE DEF row
<1>3. CASE snapshots' = snapshots
  BY <1>3 DEF SnapshotsOK
<1>4. CASE snapshots' = Append(snapshots, row)
  <2> DEFINE S == Range(snapshots) \cup {row}
             n == Len(snapshots)
  <2>1. snapshots \in Seq(S)
    <3>1. Range(snapshots) \subseteq S
      OBVIOUS
    <3> QED BY <3>1, SeqMonotonic DEF SnapshotsOK, IsASequence
  <2>2. /\ snapshots' \in Seq(S) /\ Len(snapshots') = n + 1 /\ snapshots'[n + 1] = row
        /\ \A i \in 1 .. n : snapshots'[i] = snapshots[i]
    BY <1>4, <2>1, AppendProperties
  <2>3. DOMAIN snapshots' = 1 .. n + 1 /\ DOMAIN snapshots = 1 .. n /\ n \in Nat
    BY <2>1, <2>2, LenProperties
  <2>4. snapshots' \in Seq(Range(snapshots'))
    <3>1. \A i \in 1 .. n + 1 : snapshots'[i] \in Range(snapshots')
      BY <2>3 DEF Range
    <3>2. snapshots' \in [1 .. n + 1 -> Range(snapshots')]
      BY <2>2, <2>3, <3>1, LenProperties
    <3> QED BY <2>3, <3>2, SeqDef
  <2>5. \A i \in DOMAIN snapshots' : snapshots'[i].publishedAt \in Nat
    BY <1>2, <2>2, <2>3 DEF SnapshotsOK
  <2> QED BY <2>2, <2>3, <2>4, <2>5 DEF SnapshotsOK, IsASequence
<1> QED BY <1>1, <1>3, <1>4

LEMMA InsertKeepsWalk ==
  ASSUME SnapshotsOK, JobsOK, WalkInv, NEW p \in Publishers, Insert(p)
  PROVE  WalkInv'
<1>1. walk' = walk
  BY DEF Insert
<1>2. /\ DOMAIN snapshots \subseteq DOMAIN snapshots'
      /\ \A i \in DOMAIN snapshots : snapshots'[i] = snapshots[i]
  BY InsertKeepsRows
<1>3. /\ walk.items \in Seq(DOMAIN snapshots) /\ walk.owed \subseteq DOMAIN snapshots
      /\ walk \in [pc : {"idle", "reading", "done"}, items : Seq(DOMAIN snapshots),
                   owed : SUBSET DOMAIN snapshots]
  BY DEF WalkInv, WalkOK
<1>4. /\ \A i \in 1 .. Len(walk.items) : walk.items[i] \in DOMAIN snapshots
      /\ walk.items # <<>> => Last(walk.items) \in DOMAIN snapshots
  BY <1>3, EmptySeq, LenProperties, ElementOfSeq DEF Last
<1>5. Seq(DOMAIN snapshots) \subseteq Seq(DOMAIN snapshots')
  BY <1>2, SeqMonotonic
<1>6. \A i, j \in DOMAIN snapshots : OlderIn(snapshots, i, j) <=> OlderIn(snapshots', i, j)
  BY <1>2 DEF OlderIn
<1>7. /\ walk' \in [pc : {"idle", "reading", "done"}, items : Seq(DOMAIN snapshots'),
                    owed : SUBSET DOMAIN snapshots']
      /\ \A i, j \in 1 .. Len(walk.items) : i < j =>
            OlderIn(snapshots', walk.items[j], walk.items[i])
      /\ walk.pc = "reading" =>
            \A k \in walk.owed : \/ k \in Range(walk.items)
                                 \/ walk.items = <<>>
                                 \/ OlderIn(snapshots', k, Last(walk.items))
      /\ walk.pc = "done" => walk.owed \subseteq Range(walk.items)
  <2>1. walk' \in [pc : {"idle", "reading", "done"}, items : Seq(DOMAIN snapshots'),
                   owed : SUBSET DOMAIN snapshots']
    BY <1>1, <1>2, <1>3, <1>5
  <2>2. \A i, j \in 1 .. Len(walk.items) : i < j =>
            OlderIn(snapshots', walk.items[j], walk.items[i])
    BY <1>4, <1>6 DEF WalkInv, WalkOK
  <2>3. walk.pc = "reading" =>
            \A k \in walk.owed : \/ k \in Range(walk.items)
                                 \/ walk.items = <<>>
                                 \/ OlderIn(snapshots', k, Last(walk.items))
    BY <1>3, <1>4, <1>6 DEF WalkInv, WalkOK
  <2> QED BY <2>1, <2>2, <2>3 DEF WalkInv, WalkOK
<1> QED BY <1>1, <1>7 DEF WalkInv, WalkOK

LEMMA WalkInit ==
  ASSUME Init
  PROVE  SnapshotsOK /\ WalkInv
<1>1. snapshots = <<>> /\ walk = [pc |-> "idle", items |-> <<>>, owed |-> {}]
  BY DEF Init, NoWalk
<1>2. SnapshotsOK
  BY <1>1 DEF SnapshotsOK, IsASequence
<1>3. WalkInv
  BY <1>1 DEF WalkInv, WalkOK
<1> QED BY <1>2, <1>3

LEMMA WalkStep ==
  ASSUME SnapshotsOK, JobsOK, WalkInv, [Next]_vars
  PROVE  SnapshotsOK' /\ WalkInv'
<1>1. CASE UNCHANGED <<snapshots, walk>>
  BY <1>1 DEF SnapshotsOK, WalkInv, WalkOK
<1>2. ASSUME NEW p \in Publishers, Insert(p) PROVE SnapshotsOK' /\ WalkInv'
  BY <1>2, InsertKeepsRows, InsertKeepsWalk
<1>3. CASE StartWalk
  BY <1>3, StartingAWalk DEF StartWalk, SnapshotsOK
<1>4. CASE NextPage
  BY <1>4, PageContinuesWalk DEF NextPage, SnapshotsOK
<1>5. CASE PreviousSnapshot
  BY <1>5, StepBackContinuesWalk DEF PreviousSnapshot, SnapshotsOK
<1>6. \/ UNCHANGED <<snapshots, walk>> \/ \E p \in Publishers : Insert(p)
      \/ StartWalk \/ NextPage \/ PreviousSnapshot
  BY DEF Next, vars, Market, Tick, Build, Finalize, RecoveryLooks, RecoveryTakes, Analyze, Fails,
         PublishCheck, ReadMarker, Edit, Begin, Deliver, ReadFrames, LoadResults, ReadLong, ReadShort
<1> QED BY <1>1, <1>2, <1>3, <1>4, <1>5, <1>6

(* A reader who pages through the published history, or steps back from one *)
(* snapshot to the one before, sees each snapshot once, newest first, and   *)
(* at the end every one that was there when it started, however many are    *)
(* published meanwhile, whatever the size of a page.                        *)
THEOREM ReadersMissNothing == Spec => []WalkIsExact
<1> DEFINE Inv == JobsOK /\ SnapshotsOK /\ WalkInv
<1>1. Init => Inv
  BY JobsInit, WalkInit
<1>2. Inv /\ [Next]_vars => Inv'
  BY JobsStep, WalkStep
<1>3. Inv => WalkIsExact
  BY WalkInvMeans
<1> HIDE DEF Inv
<1> QED BY <1>1, <1>2, <1>3, PTL DEF Spec

-----------------------------------------------------------------------------
(* What an answer is made of: the rankings and the qualifications, by their *)
(* parts only.                                                              *)

RankingParts == {"available", "model", "order", "separation", "stability", "qualification"}
VerdictParts == {"status", "spec", "truffles"}
ContentParts == {"frame", "at", "analysis", "ranking"}

IsAVerdict(q) == DOMAIN q = VerdictParts /\ (q.status = "unavailable" => q.truffles = {})

(* A kept or a computed content.                                            *)
IsContent(c) ==
  /\ DOMAIN c = ContentParts /\ DOMAIN c.ranking = Directions
  /\ \A d \in Directions : /\ DOMAIN c.ranking[d] = RankingParts
                           /\ IsAVerdict(c.ranking[d].qualification)

(* A direction's ranking rk is what candidate files c and qualification     *)
(* files q say of frame f.                                                  *)
Made(rk, d, c, q, f) ==
  LET ranking == RankDirection(d, c[d].candidate, Measured[f])
  IN  /\ rk.order = ranking.order /\ rk.model = ranking.model
      /\ rk.qualification = Qualify(d, q[d].qualification, ranking, Measured[f])

LEMMA RankShape ==
  ASSUME NEW d, NEW digest, NEW values
  PROVE  DOMAIN RankDirection(d, digest, values) = RankingParts
BY DEF RankDirection, RankingParts

LEMMA QualifyShape ==
  ASSUME NEW d, NEW digest, NEW ranking, NEW values
  PROVE  IsAVerdict(Qualify(d, digest, ranking, values))
BY DEF Qualify, IsAVerdict, VerdictParts

LEMMA CompleteIsMade ==
  ASSUME NEW d \in Directions, NEW digest, NEW result, NEW ranking, NEW c,
         c[d].candidate = digest,
         ranking = RankDirection(d, digest, Measured[result.frame])
  PROVE  LET rk == Complete(d, ranking, result)
         IN  /\ DOMAIN rk = RankingParts /\ IsAVerdict(rk.qualification)
             /\ Made(rk, d, c, files, result.frame)
<1> DEFINE verdict == Qualify(d, files[d].qualification, ranking, Measured[result.frame])
           rk == Complete(d, ranking, result)
<1>1. \E stability : rk = [ranking EXCEPT !.stability = stability, !.qualification = verdict]
  BY DEF Complete
<1>2. DOMAIN ranking = RankingParts /\ IsAVerdict(verdict)
  BY RankShape, QualifyShape
<1> HIDE DEF rk, verdict
<1>3. /\ DOMAIN rk = RankingParts /\ rk.qualification = verdict
      /\ rk.order = ranking.order /\ rk.model = ranking.model
  BY <1>1, <1>2 DEF RankingParts
<1>4. Made(rk, d, c, files, result.frame)
  BY <1>3 DEF Made, verdict
<1> QED BY <1>2, <1>3, <1>4 DEF rk

LEMMA GateFacts ==
  ASSUME NEW q, IsAVerdict(q), NEW stale, NEW completeness
  PROVE  LET shown == Gate(q, stale, completeness)
         IN  /\ shown.spec = q.spec
             /\ shown.truffles # {} =>
                  /\ shown = q /\ ~stale
                  /\ completeness >= Qualifications[q.spec].completeness
<1> DEFINE shown == Gate(q, stale, completeness)
           withheld == [q EXCEPT !.status = "withheld", !.truffles = {}]
<1>1. withheld.spec = q.spec /\ withheld.truffles = {}
  BY DEF IsAVerdict, VerdictParts
<1> HIDE DEF withheld
<1>2. CASE \/ q.status = "unavailable"
           \/ ~stale /\ completeness >= Qualifications[q.spec].completeness
  BY <1>2 DEF Gate, IsAVerdict
<1>3. CASE ~(\/ q.status = "unavailable"
             \/ ~stale /\ completeness >= Qualifications[q.spec].completeness)
  <2>1. shown = withheld
    BY <1>3 DEF Gate, withheld
  <2> QED BY <1>1, <2>1
<1> QED BY <1>2, <1>3

LEMMA RespondFacts ==
  ASSUME NEW c, IsContent(c), NEW stale, NEW completeness
  PROVE  LET answer == Respond(c, stale, completeness)
         IN  /\ answer.frame = c.frame /\ answer.at = c.at
             /\ \A d \in Directions :
                  /\ answer.ranking[d].order = c.ranking[d].order
                  /\ answer.ranking[d].model = c.ranking[d].model
                  /\ answer.ranking[d].qualification
                       = Gate(c.ranking[d].qualification, stale, completeness)
<1> DEFINE shown == [d \in Directions |->
                      [c.ranking[d] EXCEPT !.qualification = Gate(@, stale, completeness)]]
           answer == Respond(c, stale, completeness)
<1>1. answer = [c EXCEPT !.ranking = shown]
  BY DEF Respond
<1>2. \A d \in Directions :
        /\ shown[d].order = c.ranking[d].order /\ shown[d].model = c.ranking[d].model
        /\ shown[d].qualification = Gate(c.ranking[d].qualification, stale, completeness)
  BY DEF IsContent, RankingParts
<1> HIDE DEF shown, answer
<1>3. answer.frame = c.frame /\ answer.at = c.at /\ answer.ranking = shown
  BY <1>1 DEF IsContent, ContentParts
<1> QED BY <1>2, <1>3 DEF answer

(* What AnswerIsCurrent says, of what it reads: the results and the files   *)
(* that the request saw, and the members of the answer's frame.             *)
Current(answer, now, known, specs, members) ==
  \E result \in known :
     /\ answer.frame = result.frame /\ answer.at = result.at
     /\ \A d \in Directions :
          \E c, q \in specs :
             LET shown == answer.ranking[d]
                 fresh == Fresh(d, c[d].candidate, q[d].qualification, result)
             IN  /\ shown.order = fresh.order
                 /\ shown.model = fresh.model
                 /\ shown.qualification.spec = fresh.qualification.spec
                 /\ shown.qualification.truffles # {} =>
                      /\ shown.qualification = fresh.qualification
                      /\ now <= BaseDuration * (answer.frame + 1) + Allowance
                      /\ (Points * Cardinality(members)) \div Cardinality(Symbols)
                           >= Qualifications[fresh.qualification.spec].completeness

LEMMA CurrentMeans ==
  ASSUME NEW r, Current(jobs[r].content, jobs[r].now, seen[r].results, seen[r].files,
                        frames[jobs[r].content.frame].members)
  PROVE  AnswerIsCurrent(r)
BY DEF Current, AnswerIsCurrent, MayQualify, Completeness

(* A content of a result and files that a request saw answers it.           *)
LEMMA ContentAnswers ==
  ASSUME NEW c, IsContent(c), NEW stale, NEW now, NEW known, NEW specs,
         ~stale => now <= BaseDuration * (c.frame + 1) + Allowance,
         \E result \in known : result.frame = c.frame /\ result.at = c.at,
         \A d \in Directions : \E c1, q1 \in specs : Made(c.ranking[d], d, c1, q1, c.frame)
  PROVE  Current(Respond(c, stale, Completeness(c.frame)), now, known, specs,
                 frames[c.frame].members)
<1> DEFINE answer == Respond(c, stale, Completeness(c.frame))
<1>1. PICK result \in known : result.frame = c.frame /\ result.at = c.at
  OBVIOUS
<1>2. /\ answer.frame = c.frame /\ answer.at = c.at
      /\ \A d \in Directions :
           /\ answer.ranking[d].order = c.ranking[d].order
           /\ answer.ranking[d].model = c.ranking[d].model
           /\ answer.ranking[d].qualification
                = Gate(c.ranking[d].qualification, stale, Completeness(c.frame))
  BY RespondFacts
<1> HIDE DEF answer
<1>3. ASSUME NEW d \in Directions
      PROVE  \E c1, q1 \in specs :
               LET shown == answer.ranking[d]
                   fresh == Fresh(d, c1[d].candidate, q1[d].qualification, result)
               IN  /\ shown.order = fresh.order
                   /\ shown.model = fresh.model
                   /\ shown.qualification.spec = fresh.qualification.spec
                   /\ shown.qualification.truffles # {} =>
                        /\ shown.qualification = fresh.qualification
                        /\ now <= BaseDuration * (answer.frame + 1) + Allowance
                        /\ (Points * Cardinality(frames[c.frame].members)) \div Cardinality(Symbols)
                             >= Qualifications[fresh.qualification.spec].completeness
  <2>1. PICK c1 \in specs, q1 \in specs : Made(c.ranking[d], d, c1, q1, c.frame)
    OBVIOUS
  <2> DEFINE ranking == RankDirection(d, c1[d].candidate, Measured[c.frame])
             verdict == Qualify(d, q1[d].qualification, ranking, Measured[c.frame])
             fresh == Fresh(d, c1[d].candidate, q1[d].qualification, result)
             shown == answer.ranking[d]
  <2>2. /\ c.ranking[d].order = ranking.order /\ c.ranking[d].model = ranking.model
        /\ c.ranking[d].qualification = verdict
    BY <2>1 DEF Made
  <2>3. fresh = [ranking EXCEPT !.qualification = verdict]
    BY <1>1 DEF Fresh
  <2>4. DOMAIN ranking = RankingParts /\ IsAVerdict(verdict)
    BY RankShape, QualifyShape
  <2> HIDE DEF ranking, verdict, fresh
  <2>5. fresh.order = ranking.order /\ fresh.model = ranking.model /\ fresh.qualification = verdict
    BY <2>3, <2>4 DEF RankingParts
  <2>6. shown.qualification = Gate(verdict, stale, Completeness(c.frame))
    BY <1>2, <2>2
  <2>7. /\ shown.qualification.spec = verdict.spec
        /\ shown.qualification.truffles # {} =>
             /\ shown.qualification = verdict /\ ~stale
             /\ Completeness(c.frame) >= Qualifications[verdict.spec].completeness
    BY <2>4, <2>6, GateFacts
  <2>8. shown.order = fresh.order /\ shown.model = fresh.model
    BY <1>2, <2>2, <2>5
  <2>9. shown.qualification.truffles # {} =>
             /\ shown.qualification = fresh.qualification
             /\ now <= BaseDuration * (answer.frame + 1) + Allowance
             /\ (Points * Cardinality(frames[c.frame].members)) \div Cardinality(Symbols)
                  >= Qualifications[fresh.qualification.spec].completeness
    BY <1>2, <2>5, <2>7 DEF Completeness
  <2> HIDE DEF shown
  <2> QED BY <2>1, <2>5, <2>7, <2>8, <2>9 DEF fresh, shown
<1> QED BY <1>1, <1>2, <1>3 DEF Current, answer

-----------------------------------------------------------------------------
(* What the shared variables hold.                                          *)

(* Numbers in their order.                                                  *)
LEMMA NumbersAreOrdered ==
  ASSUME NEW S, S \subseteq Int, NEW rel, \A x, y \in S : <<x, y>> \in rel <=> x < y
  PROVE  StrictTotal(S, rel)
<1>1. \A x \in S : <<x, x>> \notin rel
  <2> SUFFICES ASSUME NEW x \in S PROVE ~(x < x)
    OBVIOUS
  <2> QED OBVIOUS
<1>2. ASSUME NEW x \in S, NEW y \in S, x # y PROVE <<x, y>> \in rel \/ <<y, x>> \in rel
  <2>1. x < y \/ y < x
    BY <1>2
  <2> QED BY <2>1
<1>3. ASSUME NEW x \in S, NEW y \in S, NEW z \in S, <<x, y>> \in rel, <<y, z>> \in rel
      PROVE  <<x, z>> \in rel
  <2>1. x < y /\ y < z
    BY <1>3
  <2>2. x < z
    BY <2>1
  <2> QED BY <2>2
<1> QED BY <1>1, <1>2, <1>3 DEF StrictTotal

LEMMA MinMaxFacts ==
  ASSUME NEW S, IsFiniteSet(S), S \subseteq Int, S # {}
  PROVE  /\ Max(S) \in S /\ \A x \in S : x <= Max(S)
         /\ Min(S) \in S /\ \A x \in S : Min(S) <= x
<1> DEFINE rel == {x \in S \X S : x[1] < x[2]}
           n == Cardinality(S)
           e == Listed(S, rel)
<1>1. \A x, y \in S : <<x, y>> \in rel <=> x < y
  OBVIOUS
<1> HIDE DEF rel
<1>2. StrictTotal(S, rel)
  BY <1>1, NumbersAreOrdered
<1>3. /\ n \in Nat /\ e \in [1 .. n -> S]
      /\ \A x \in S : \E i \in 1 .. n : e[i] = x
      /\ \A i, j \in 1 .. n : i < j => <<e[i], e[j]>> \in rel
  BY <1>2, ListedFacts
<1> HIDE DEF n, e
<1>4. 1 \in 1 .. n /\ n \in 1 .. n
  <2>1. \E i \in 1 .. n : TRUE
    BY <1>3
  <2> QED BY <1>3, <2>1
<1>5. e[1] \in S /\ e[n] \in S
  BY <1>3, <1>4
<1>6. ASSUME NEW x \in S PROVE e[1] <= x /\ x <= e[n]
  <2>1. PICK i \in 1 .. n : e[i] = x
    BY <1>3
  <2>2. i = 1 \/ e[1] < x
    <3>1. i = 1 \/ 1 < i
      BY <1>3
    <3> QED BY <1>1, <1>3, <1>4, <1>5, <2>1, <3>1
  <2>3. i = n \/ x < e[n]
    <3>1. i = n \/ i < n
      BY <1>3
    <3> QED BY <1>1, <1>3, <1>4, <1>5, <2>1, <3>1
  <2>4. x \in Int /\ e[1] \in Int /\ e[n] \in Int
    BY <1>5
  <2> QED BY <2>1, <2>2, <2>3, <2>4
<1>7. Max(S) = CHOOSE x \in S : \A y \in S : x >= y
  BY DEF Max
<1>8. Min(S) = CHOOSE x \in S : \A y \in S : x <= y
  BY DEF Min
<1>9. e[n] \in S /\ \A y \in S : e[n] >= y
  BY <1>5, <1>6
<1>10. Max(S) \in S /\ \A y \in S : Max(S) >= y
  BY <1>7, <1>9
<1>11. e[1] \in S /\ \A y \in S : e[1] <= y
  BY <1>5, <1>6
<1>12. Min(S) \in S /\ \A y \in S : Min(S) <= y
  BY <1>8, <1>11
<1> QED BY <1>10, <1>12

FramesOK ==
  /\ frames = [f \in Frames |-> frames[f]]
  /\ \A f \in Frames : /\ DOMAIN frames[f] = {"status", "members", "finalizedAt"}
                       /\ frames[f].status \in {"none", "building"} => frames[f].members = {}

OwnOK ==
  /\ DOMAIN recovery = {"looked", "todo", "since"} /\ recovery.todo \in Seq(Frames)
  /\ \A p \in Publishers : jobs[p].pc = "analyze" => jobs[p].own \in Frames

ResultsOK ==
  /\ results = [f \in Frames |-> results[f]]
  /\ DOMAIN bounds = {"edits", "analyses", "requests", "walks"} /\ bounds.analyses \in Nat
  /\ \A f \in Frames : results[f] # None =>
        /\ results[f] \in [frame : {f}, at : 1 .. bounds.analyses, analysis : Publishers]
        /\ frames[f].members # {}

HeldOK == IsASequence(held) /\ files \in Range(held)

SeenOK ==
  /\ seen = [r \in Requests |-> seen[r]]
  /\ \A r \in Requests : DOMAIN seen[r] = {"newest", "results", "files"}

(* The members of a frame that has some stay.                               *)
FramesKept == \A f \in Frames : frames[f].members # {} => frames'[f] = frames[f]

(* A frame's result is only replaced by a later analysis.                   *)
Grown(old, new) ==
  \A f \in Frames : old[f] # None =>
     /\ old[f].at \in Nat /\ new[f] # None /\ new[f].at \in Nat /\ old[f].at <= new[f].at

LEMMA FramesInit ==
  ASSUME Init
  PROVE  FramesOK
<1>1. PICK second \in {"none", "building"} :
        frames = [f \in Frames |->
            CASE f = FirstFrame -> [status |-> "complete", members |-> Members(FirstFrame),
                                    finalizedAt |-> BaseDuration * FirstFrame]
              [] f = FirstFrame + 1 -> [NoFrame EXCEPT !.status = second]
              [] OTHER -> NoFrame]
  BY DEF Init
<1>2. FirstFrame # FirstFrame + 1
  BY LiveAssumption
<1>3. ASSUME NEW f \in Frames
      PROVE  /\ DOMAIN frames[f] = {"status", "members", "finalizedAt"}
             /\ frames[f].status \in {"none", "building"} => frames[f].members = {}
  <2>1. CASE f = FirstFrame
    BY <1>1, <1>2, <2>1
  <2>2. CASE f = FirstFrame + 1
    BY <1>1, <1>2, <2>2 DEF NoFrame
  <2>3. CASE f # FirstFrame /\ f # FirstFrame + 1
    BY <1>1, <2>3 DEF NoFrame
  <2> QED BY <2>1, <2>2, <2>3
<1> QED BY <1>1, <1>3 DEF FramesOK

LEMMA FramesStep ==
  ASSUME FramesOK, [Next]_vars
  PROVE  FramesOK' /\ FramesKept
<1>1. CASE UNCHANGED frames
  BY <1>1 DEF FramesOK, FramesKept
<1>2. ASSUME NEW f \in Frames, Build(f) PROVE FramesOK' /\ FramesKept
  <2>1. frames' = [frames EXCEPT ![f].status = "building"] /\ frames[f].status = "none"
    BY <1>2 DEF Build
  <2>2. /\ \A g \in Frames \ {f} : frames'[g] = frames[g]
        /\ DOMAIN frames'[f] = {"status", "members", "finalizedAt"}
        /\ frames'[f].members = frames[f].members /\ frames' = [g \in Frames |-> frames'[g]]
    BY <2>1 DEF FramesOK
  <2> QED BY <2>1, <2>2 DEF FramesOK, FramesKept
<1>3. ASSUME NEW f \in Frames, Finalize(f) PROVE FramesOK' /\ FramesKept
  <2> DEFINE header == [status |-> IF Members(f) = Symbols THEN "complete" ELSE "partial",
                        members |-> Members(f), finalizedAt |-> clock]
  <2>1. frames' = [frames EXCEPT ![f] = header] /\ frames[f].status = "building"
    BY <1>3 DEF Finalize
  <2>2. /\ DOMAIN header = {"status", "members", "finalizedAt"}
        /\ header.status \notin {"none", "building"}
    OBVIOUS
  <2> HIDE DEF header
  <2>3. /\ \A g \in Frames \ {f} : frames'[g] = frames[g]
        /\ frames'[f] = header /\ frames' = [g \in Frames |-> frames'[g]]
    BY <2>1 DEF FramesOK
  <2> QED BY <2>1, <2>2, <2>3 DEF FramesOK, FramesKept
<1>4. UNCHANGED frames \/ \E f \in Frames : Build(f) \/ Finalize(f)
  BY DEF Next, vars, Market, Tick, RecoveryLooks, RecoveryTakes, Analyze, Fails, PublishCheck,
         ReadMarker, Insert, Edit, Begin, Deliver, ReadFrames, LoadResults, ReadLong, ReadShort,
         StartWalk, NextPage, PreviousSnapshot
<1> QED BY <1>1, <1>2, <1>3, <1>4

(* The frames the startup recovery finds are frames.                        *)
LEMMA LostFrames ==
  ASSUME NEW lost, lost \subseteq DOMAIN Rows
  PROVE  LET S == {t \div BaseDuration : t \in lost}
         IN  Listed(S, {x \in Frames \X Frames : x[1] < x[2]}) \in Seq(Frames)
<1> DEFINE S == {t \div BaseDuration : t \in lost}
           rel == {x \in Frames \X Frames : x[1] < x[2]}
<1>1. Frames \subseteq Nat /\ IsFiniteSet(Frames) /\ BaseDuration \in Nat \ {0}
  BY LiveAssumption, WindowAssumption, FS_Interval DEF Frames
<1>2. S \subseteq Frames
  <2> SUFFICES ASSUME NEW t \in lost PROVE t \div BaseDuration \in Frames
    OBVIOUS
  <2>1. PICK f \in Frames : t = BaseDuration * f
    BY DEF Rows
  <2>2. (BaseDuration * f) \div BaseDuration = f
    BY <1>1
  <2> QED BY <2>1, <2>2
<1>3. IsFiniteSet(S)
  BY <1>1, <1>2, FS_Subset
<1> HIDE DEF S
<1>4. S \subseteq Int /\ \A x, y \in S : <<x, y>> \in rel <=> x < y
  BY <1>1, <1>2
<1> HIDE DEF rel
<1>5. StrictTotal(S, rel)
  BY <1>4, NumbersAreOrdered
<1>6. Cardinality(S) \in Nat /\ Listed(S, rel) \in [1 .. Cardinality(S) -> S]
  BY <1>3, <1>5, ListedFacts
<1>7. Listed(S, rel) \in Seq(S)
  BY <1>6, SeqDef
<1>8. Listed(S, rel) \in Seq(Frames)
  BY <1>2, <1>7, SeqMonotonic
<1> QED BY <1>8 DEF S, rel

LEMMA OwnInit ==
  ASSUME Init
  PROVE  OwnOK
<1>1. recovery = [looked |-> FALSE, todo |-> <<>>, since |-> clock]
  BY DEF Init
<1>2. \A p \in Publishers : jobs[p] = Idle
  BY DEF Init, Jobs
<1> QED BY <1>1, <1>2 DEF OwnOK, Idle

LEMMA SettingKeepsOwn ==
  ASSUME OwnOK, recovery' = recovery, NEW p \in Jobs, NEW pc, NEW own, NEW now, NEW marker,
         NEW stale, NEW key, NEW result, NEW content, pc = "analyze" => own \in Frames,
         Sets(p, pc, own, now, marker, stale, key, result, content)
  PROVE  OwnOK'
BY DEF Sets, IsAJob, OwnOK, Jobs

LEMMA OwnStep ==
  ASSUME OwnOK, JobsOK, [Next]_vars
  PROVE  OwnOK'
<1> USE DEF Market
<1>0. /\ Requests \subseteq Jobs /\ Publishers \subseteq Jobs /\ "live" \in Jobs
      /\ "recovery" \in Jobs
  BY DEF Jobs, Publishers
<1>1. CASE UNCHANGED <<recovery, jobs>>
  BY <1>1 DEF OwnOK
<1>2. CASE RecoveryLooks
  <2>1. PICK todo : recovery' = [recovery EXCEPT !.looked = TRUE, !.todo = todo]
                    /\ todo \in Seq(Frames) /\ jobs' = jobs
    <3> DEFINE lost == R!UnanalyzedFrames(Rows, recovery.since - RecentWindow, recovery.since)
    <3>1. lost \subseteq DOMAIN Rows
      BY DEF R!UnanalyzedFrames
    <3> HIDE DEF lost
    <3>2. Listed({t \div BaseDuration : t \in lost}, {x \in Frames \X Frames : x[1] < x[2]})
            \in Seq(Frames)
      BY <3>1, LostFrames
    <3> QED BY <1>2, <3>2 DEF RecoveryLooks, lost
  <2>2. DOMAIN recovery' = DOMAIN recovery /\ recovery'.todo = todo
    BY <2>1 DEF OwnOK
  <2> QED BY <2>1, <2>2 DEF OwnOK
<1>3. ASSUME NEW f \in Frames, Finalize(f) PROVE OwnOK'
  BY <1>0, <1>3, FinalizeSets, SettingKeepsOwn DEF Finalize
<1>4. CASE RecoveryTakes
  <2>1. /\ recovery.todo \in Seq(Frames) /\ recovery.todo # <<>>
        /\ recovery' = [recovery EXCEPT !.todo = Tail(@)]
        /\ DOMAIN recovery = {"looked", "todo", "since"}
    BY <1>4 DEF RecoveryTakes, OwnOK
  <2>2. Head(recovery.todo) \in Frames /\ Tail(recovery.todo) \in Seq(Frames)
    BY <2>1, HeadTailProperties
  <2>3. DOMAIN recovery' = DOMAIN recovery /\ recovery'.todo \in Seq(Frames)
    BY <2>1, <2>2
  <2>4. \A p \in Publishers : jobs'[p].pc = "analyze" => jobs'[p].own \in Frames
    BY <1>0, <1>4, <2>2, RecoveryTakesSets DEF Sets, IsAJob, OwnOK
  <2> QED BY <2>1, <2>3, <2>4 DEF OwnOK
<1>5. ASSUME NEW p \in Publishers, Analyze(p) PROVE OwnOK'
  <2>1. recovery' = recovery /\ Goto(p, "publish")
    BY <1>5 DEF Analyze
  <2> QED BY <1>0, <2>1, GotoSets, SettingKeepsOwn
<1>6. ASSUME NEW p \in Publishers, Fails(p) PROVE OwnOK'
  BY <1>0, <1>6, StopSets, SettingKeepsOwn DEF Fails
<1>7. ASSUME NEW p \in Publishers, PublishCheck(p) PROVE OwnOK'
  <2>1. recovery' = recovery
    BY <1>7 DEF PublishCheck
  <2>2. \E pc, own, now, marker, stale, key, result, content :
           /\ pc # "analyze"
           /\ Sets(p, pc, own, now, marker, stale, key, result, content)
    <3>1. "marker" # "analyze" /\ "idle" # "analyze"
      OBVIOUS
    <3> QED BY <1>0, <1>7, <3>1, PublishCheckSets
  <2> QED BY <1>0, <2>1, <2>2, SettingKeepsOwn
<1>8. ASSUME NEW p \in Publishers, ReadMarker(p) PROVE OwnOK'
  <2>1. recovery' = recovery
    BY <1>8 DEF ReadMarker
  <2> QED BY <1>0, <1>8, <2>1, ReadMarkerSets, SettingKeepsOwn
<1>9. ASSUME NEW p \in Publishers, Insert(p) PROVE OwnOK'
  BY <1>0, <1>9, StopSets, SettingKeepsOwn DEF Insert
<1>10. ASSUME NEW r \in Requests, Begin(r) PROVE OwnOK'
  <2>1. recovery' = recovery
    BY <1>10 DEF Begin
  <2> QED BY <1>0, <1>10, <2>1, BeginSets, SettingKeepsOwn
<1>11. ASSUME NEW r \in Requests, Deliver(r) PROVE OwnOK'
  BY <1>0, <1>11, StopSets, SettingKeepsOwn DEF Deliver
<1>12. ASSUME NEW j \in Jobs, NEW stale, NEW content, Finish(j, stale, content),
              recovery' = recovery
       PROVE OwnOK'
  <2>1. \E pc, own, now, marker, s, key, result, c :
           pc # "analyze" /\ Sets(j, pc, own, now, marker, s, key, result, c)
    <3>1. "done" # "analyze" /\ "insert" # "analyze" /\ "idle" # "analyze"
      OBVIOUS
    <3> QED BY <1>12, <3>1, FinishSets
  <2> QED BY <1>12, <2>1, SettingKeepsOwn
<1>13. ASSUME NEW j \in Jobs, ReadFrames(j) PROVE OwnOK'
  <2>1. recovery' = recovery
    BY <1>13 DEF ReadFrames
  <2> DEFINE key == Key(jobs[j].marker)
             stale == Stale(jobs[j].marker[1], Max(FinalizedFrames), jobs[j].now)
  <2>2. CASE Cached(key) # {}
    <3>1. Finish(j, stale, cache[Min(Cached(key))].content)
      BY <1>13, <2>2, ReadFramesSets
    <3> QED BY <1>12, <2>1, <3>1
  <2>3. CASE Cached(key) = {}
    BY <1>13, <2>1, <2>3, ReadFramesSets, SettingKeepsOwn
  <2> QED BY <2>2, <2>3
<1>14. ASSUME NEW j \in Jobs, LoadResults(j) PROVE OwnOK'
  <2>1. recovery' = recovery
    BY <1>14 DEF LoadResults
  <2> QED BY <1>14, <2>1, LoadResultsSets, SettingKeepsOwn
<1>15. ASSUME NEW j \in Jobs, ReadLong(j) PROVE OwnOK'
  <2>1. recovery' = recovery
    BY <1>15 DEF ReadLong
  <2> QED BY <1>15, <2>1, ReadLongSets, SettingKeepsOwn
<1>16. ASSUME NEW j \in Jobs, ReadShort(j) PROVE OwnOK'
  <2>1. recovery' = recovery
    BY <1>16 DEF ReadShort
  <2>2. \E stale, content : Finish(j, stale, content)
    BY <1>16 DEF ReadShort
  <2> QED BY <1>12, <2>1, <2>2
<1>17. \/ UNCHANGED <<recovery, jobs>> \/ RecoveryLooks \/ \E f \in Frames : Finalize(f)
       \/ RecoveryTakes
       \/ \E p \in Publishers : Analyze(p) \/ Fails(p) \/ PublishCheck(p) \/ ReadMarker(p) \/ Insert(p)
       \/ \E r \in Requests : Begin(r) \/ Deliver(r)
       \/ \E j \in Jobs : ReadFrames(j) \/ LoadResults(j) \/ ReadLong(j) \/ ReadShort(j)
  BY DEF Next, vars, Tick, Build, Edit, StartWalk, NextPage, PreviousSnapshot
<1> QED
  BY <1>1, <1>2, <1>3, <1>4, <1>5, <1>6, <1>7, <1>8, <1>9, <1>10, <1>11, <1>13, <1>14, <1>15,
     <1>16, <1>17

LEMMA ResultsInit ==
  ASSUME Init
  PROVE  ResultsOK
BY DEF Init, ResultsOK

LEMMA ResultsStep ==
  ASSUME ResultsOK, OwnOK, FramesOK, [Next]_vars
  PROVE  ResultsOK' /\ Grown(results, results')
<1> DEFINE n == bounds.analyses
<1>0. FramesKept /\ n \in Nat
  BY FramesStep DEF ResultsOK
<1>1. ASSUME results' = results, bounds'.analyses = n, DOMAIN bounds' = DOMAIN bounds
      PROVE  ResultsOK' /\ Grown(results, results')
  BY <1>0, <1>1 DEF ResultsOK, FramesKept, Grown
<1>2. ASSUME NEW p \in Publishers, Analyze(p)
      PROVE  ResultsOK' /\ Grown(results, results')
  <2> DEFINE f == jobs[p].own
             result == [frame |-> f, at |-> n + 1, analysis |-> p]
  <2>1. /\ f \in Frames /\ bounds' = [bounds EXCEPT !.analyses = @ + 1]
        /\ frames' = frames
        /\ IF frames[f].members = {} THEN results' = results
           ELSE results' = [results EXCEPT ![f] = result]
    BY <1>2 DEF Analyze, OwnOK, Market
  <2>2. DOMAIN bounds' = DOMAIN bounds /\ bounds'.analyses = n + 1
    BY <2>1 DEF ResultsOK
  <2>3. CASE frames[f].members = {}
    BY <1>0, <2>1, <2>2, <2>3 DEF ResultsOK, Grown
  <2>4. CASE frames[f].members # {}
    <3>1. /\ \A g \in Frames \ {f} : results'[g] = results[g]
          /\ results'[f] = result /\ results' = [g \in Frames |-> results'[g]]
      BY <2>1, <2>4 DEF ResultsOK
    <3>2. /\ result \in [frame : {f}, at : 1 .. n + 1, analysis : Publishers]
          /\ result \in [frame : Frames, at : Nat, analysis : Publishers]
          /\ result.at = n + 1
      BY <1>0, <2>1
    <3>3. result # None
      BY <3>2, LiveAssumption
    <3> HIDE DEF result
    <3>4. ASSUME NEW g \in Frames, results[g] # None
          PROVE  /\ results[g].at \in Nat /\ results[g].at <= n
                 /\ results[g] \in [frame : {g}, at : 1 .. n + 1, analysis : Publishers]
      <4>1. results[g] \in [frame : {g}, at : 1 .. n, analysis : Publishers]
        BY <3>4 DEF ResultsOK
      <4>2. 1 .. n \subseteq 1 .. n + 1 /\ 1 .. n \subseteq Nat
        BY <1>0
      <4> QED BY <1>0, <4>1, <4>2
    <3>5. Grown(results, results')
      BY <1>0, <3>1, <3>2, <3>3, <3>4 DEF Grown
    <3>6. ASSUME NEW g \in Frames, results'[g] # None
          PROVE  /\ results'[g] \in [frame : {g}, at : 1 .. bounds'.analyses, analysis : Publishers]
                 /\ frames'[g].members # {}
      <4>1. CASE g = f
        BY <2>1, <2>2, <2>4, <3>1, <3>2, <4>1
      <4>2. CASE g # f
        BY <2>1, <2>2, <3>1, <3>4, <3>6, <4>2 DEF ResultsOK
      <4> QED BY <4>1, <4>2
    <3> QED BY <1>0, <2>2, <3>1, <3>5, <3>6 DEF ResultsOK
  <2> QED BY <2>3, <2>4
<1>3. \/ /\ results' = results
         /\ \/ bounds' = bounds
            \/ bounds' = [bounds EXCEPT !.edits = @ + 1]
            \/ bounds' = [bounds EXCEPT !.requests = @ + 1]
            \/ bounds' = [bounds EXCEPT !.walks = @ + 1]
      \/ \E p \in Publishers : Analyze(p)
  BY DEF Next, vars, Market, Tick, Build, Finalize, RecoveryLooks, RecoveryTakes, Fails,
         PublishCheck, ReadMarker, Insert, Edit, Begin, Deliver, ReadFrames, LoadResults,
         ReadLong, ReadShort, StartWalk, NextPage, PreviousSnapshot
<1>4. \/ /\ results' = results /\ bounds'.analyses = n /\ DOMAIN bounds' = DOMAIN bounds
      \/ \E p \in Publishers : Analyze(p)
  BY <1>3 DEF ResultsOK
<1> QED BY <1>1, <1>2, <1>4

(* While files never went back, those of another time are not there now.    *)
FilesGrown(h, now, h2, later) ==
  /\ Range(h) \subseteq Range(h2)
  /\ IsInjective(h2) => IsInjective(h) /\ (later \in Range(h) => later = now)

LEMMA HeldInit ==
  ASSUME Init
  PROVE  HeldOK
BY DEF Init, HeldOK, IsASequence, Range

LEMMA HeldStep ==
  ASSUME HeldOK, [Next]_vars
  PROVE  HeldOK' /\ FilesGrown(held, files, held', files')
<1>1. CASE UNCHANGED <<files, held>>
  BY <1>1 DEF HeldOK, FilesGrown
<1>2. ASSUME NEW contents, Edit(contents)
      PROVE  HeldOK' /\ FilesGrown(held, files, held', files')
  <2> DEFINE S == Range(held) \cup {contents}
             n == Len(held)
  <2>1. held' = Append(held, contents) /\ files' = contents
    BY <1>2 DEF Edit
  <2>2. held \in Seq(S)
    <3>1. Range(held) \subseteq S
      OBVIOUS
    <3> QED BY <3>1, SeqMonotonic DEF HeldOK, IsASequence
  <2>3. /\ held' \in Seq(S) /\ Len(held') = n + 1 /\ held'[n + 1] = contents
        /\ \A i \in 1 .. n : held'[i] = held[i]
    BY <2>1, <2>2, AppendProperties
  <2>4. DOMAIN held' = 1 .. n + 1 /\ DOMAIN held = 1 .. n /\ n \in Nat
    BY <2>2, <2>3, LenProperties
  <2>5. held' \in Seq(Range(held'))
    <3>1. \A i \in 1 .. n + 1 : held'[i] \in Range(held')
      BY <2>4 DEF Range
    <3>2. held' \in [1 .. n + 1 -> Range(held')]
      BY <2>3, <2>4, <3>1, LenProperties
    <3> QED BY <2>4, <3>2, SeqDef
  <2>6. Range(held) \subseteq Range(held') /\ contents \in Range(held')
    BY <2>3, <2>4 DEF Range
  <2>7. ASSUME IsInjective(held')
        PROVE  IsInjective(held) /\ contents \notin Range(held)
    <3>1. IsInjective(held)
      BY <2>3, <2>4, <2>7 DEF IsInjective
    <3>2. ASSUME contents \in Range(held) PROVE FALSE
      <4>1. PICK i \in 1 .. n : held[i] = contents
        BY <2>4, <3>2 DEF Range
      <4>2. held'[i] = held'[n + 1] /\ i # n + 1 /\ i \in DOMAIN held' /\ n + 1 \in DOMAIN held'
        BY <2>3, <2>4, <4>1
      <4> QED BY <2>7, <4>2 DEF IsInjective
    <3> QED BY <3>1, <3>2
  <2> QED BY <2>1, <2>5, <2>6, <2>7 DEF HeldOK, IsASequence, FilesGrown
<1>3. UNCHANGED <<files, held>> \/ \E contents : Edit(contents)
  BY DEF Next, vars, Market, Tick, Build, Finalize, RecoveryLooks, RecoveryTakes, Analyze, Fails,
         PublishCheck, ReadMarker, Insert, Begin, Deliver, ReadFrames, LoadResults, ReadLong, ReadShort,
         StartWalk, NextPage, PreviousSnapshot
<1> QED BY <1>1, <1>2, <1>3

(* What running requests may read is noted, and what others saw is kept.     *)
LEMMA WitnessFacts ==
  ASSUME SeenOK, NEW stored, NEW contents, Witness(stored, contents), NEW r \in Requests
  PROVE  /\ DOMAIN seen'[r] = {"newest", "results", "files"}
         /\ seen'[r].newest = seen[r].newest
         /\ jobs[r].pc \in {"idle", "done"} => seen'[r] = seen[r]
         /\ jobs[r].pc \notin {"idle", "done"} =>
              /\ seen'[r].results = seen[r].results
                                      \cup {x \in stored : x.frame >= seen[r].newest}
              /\ seen'[r].files = seen[r].files \cup contents
<1> DEFINE more == {x \in stored : x.frame >= seen[r].newest}
<1>1. seen'[r] = IF jobs[r].pc \in {"idle", "done"} THEN seen[r]
                 ELSE [seen[r] EXCEPT !.results = @ \cup more, !.files = @ \cup contents]
  BY DEF Witness
<1> HIDE DEF more
<1>2. CASE jobs[r].pc \in {"idle", "done"}
  BY <1>1, <1>2 DEF SeenOK
<1>3. CASE jobs[r].pc \notin {"idle", "done"}
  <2>1. /\ DOMAIN seen'[r] = {"newest", "results", "files"}
        /\ seen'[r].newest = seen[r].newest /\ seen'[r].results = seen[r].results \cup more
        /\ seen'[r].files = seen[r].files \cup contents
    BY <1>1, <1>3 DEF SeenOK
  <2> QED BY <1>3, <2>1 DEF more
<1> QED BY <1>2, <1>3

LEMMA SeenInit ==
  ASSUME Init
  PROVE  SeenOK
BY DEF Init, SeenOK, NothingSeen

LEMMA SeenStep ==
  ASSUME SeenOK, [Next]_vars
  PROVE  SeenOK'
<1>1. CASE seen' = seen
  BY <1>1 DEF SeenOK
<1>2. ASSUME NEW stored, NEW contents, Witness(stored, contents)
      PROVE  SeenOK'
  <2>1. \A r \in Requests : DOMAIN seen'[r] = {"newest", "results", "files"}
    BY <1>2, WitnessFacts
  <2>2. seen' = [r \in Requests |-> seen'[r]]
    BY <1>2 DEF Witness
  <2> QED BY <2>1, <2>2 DEF SeenOK
<1>3. ASSUME NEW r \in Requests, NEW s, DOMAIN s = {"newest", "results", "files"},
             seen' = [seen EXCEPT ![r] = s]
      PROVE  SeenOK'
  BY <1>3 DEF SeenOK
<1>4. ASSUME NEW r \in Requests, Begin(r) PROVE SeenOK'
  <2>1. PICK newest, known :
          seen' = [seen EXCEPT ![r] = [newest |-> newest, files |-> {files}, results |-> known]]
    BY <1>4 DEF Begin
  <2>2. DOMAIN [newest |-> newest, files |-> {files}, results |-> known]
          = {"newest", "results", "files"}
    OBVIOUS
  <2> QED BY <1>3, <2>1, <2>2
<1>5. ASSUME NEW r \in Requests, Deliver(r) PROVE SeenOK'
  <2>1. DOMAIN NothingSeen = {"newest", "results", "files"}
    BY DEF NothingSeen
  <2> QED BY <1>3, <1>5, <2>1 DEF Deliver
<1>6. \/ seen' = seen \/ \E stored, contents : Witness(stored, contents)
      \/ \E r \in Requests : Begin(r) \/ Deliver(r)
  BY DEF Next, vars, Market, Tick, Build, Finalize, RecoveryLooks, RecoveryTakes, Analyze, Fails,
         PublishCheck, ReadMarker, Insert, Edit, ReadFrames, LoadResults, ReadLong, ReadShort,
         StartWalk, NextPage, PreviousSnapshot
<1> QED BY <1>1, <1>2, <1>4, <1>5, <1>6

-----------------------------------------------------------------------------
(* What is kept and what is under way is of stored results.                 *)

IsStored(x, res) ==
  /\ x.frame \in Frames /\ res[x.frame] # None
  /\ x.at \in Nat /\ x.at <= res[x.frame].at

IsMarker(m, res) ==
  /\ m[1] \in Frames /\ res[m[1]] # None
  /\ m[2] \in Nat /\ m[2] <= res[m[1]].at

(* A kept content is not older than its key says and, where it is found, of  *)
(* the files there are.                                                     *)
EntryOK(e, res, h, now) ==
  /\ DOMAIN e = {"key", "content"}
  /\ IsContent(e.content) /\ IsStored(e.content, res)
  /\ e.key[1][1] = e.content.frame /\ e.key[1][2] \in Nat /\ e.key[1][2] <= e.content.at
  /\ e.key[2] \in Range(h)
  /\ IsInjective(h) /\ e.key[2] = now =>
       \A d \in Directions : Made(e.content.ranking[d], d, now, now, e.content.frame)

CacheOK ==
  /\ IsASequence(cache)
  /\ \A i \in DOMAIN cache : EntryOK(cache[i], results, held, files)

(* The frame is loaded; one direction is, or both are ranked.               *)
Loading == {"long", "short"}
Reading == {"frames", "load", "long", "short"}

(* A direction's ranking, not yet completed.                                *)
Ranked(rk, d, c, f) == rk = RankDirection(d, c[d].candidate, Measured[f])

JobOK(x, res, h, now) ==
  /\ x.pc = "marker" => \E f \in Frames : res[f] # None
  /\ x.pc \in Reading => IsMarker(x.marker, res)
  /\ x.pc \in {"load", "long", "short"} =>
       /\ x.key[1] = x.marker /\ x.key[2] \in Range(h)
       /\ ~x.stale => x.now <= BaseDuration * (x.marker[1] + 1) + Allowance
  /\ x.pc \in Loading =>
       /\ IsStored(x.content, res) /\ x.content.frame = x.marker[1]
       /\ x.marker[2] <= x.content.at /\ x.result.frame = x.content.frame
       /\ DOMAIN x.content = ContentParts
       /\ DOMAIN x.content.ranking["long"] = RankingParts
  /\ x.pc = "long" =>
       (IsInjective(h) /\ x.key[2] = now =>
          Ranked(x.content.ranking["long"], "long", now, x.content.frame))
  /\ x.pc = "short" =>
       /\ DOMAIN x.content.ranking = Directions
       /\ IsAVerdict(x.content.ranking["long"].qualification)
       /\ DOMAIN x.content.ranking["short"] = RankingParts
       /\ IsInjective(h) /\ x.key[2] = now =>
            /\ Made(x.content.ranking["long"], "long", now, now, x.content.frame)
            /\ Ranked(x.content.ranking["short"], "short", now, x.content.frame)

AllJobsOK == \A j \in Jobs : JobOK(jobs[j], results, held, files)

(* The contents that are kept or under way.                                 *)
Contents(entries, js) ==
  {entries[i].content : i \in DOMAIN entries}
    \cup {js[j].content : j \in {k \in Jobs : js[k].pc \in Loading}}

Knows(s, f, at) == \E x \in s.results : x.frame = f /\ x.at = at

(* A request has seen the result of its frame, the files, and every analysis *)
(* of its frame that it could be given; its answer is current.              *)
RequestOK(x, s, res, h, now, given, fr) ==
  /\ x.pc \in Reading =>
       /\ s.newest = x.marker[1] /\ now \in s.files
       /\ Knows(s, x.marker[1], res[x.marker[1]].at)
       /\ \A c \in given : c.frame = x.marker[1] /\ x.marker[2] <= c.at => Knows(s, c.frame, c.at)
  /\ x.pc = "long" =>
       \E c \in s.files : Ranked(x.content.ranking["long"], "long", c, x.content.frame)
  /\ x.pc = "short" =>
       /\ \E c, q \in s.files : Made(x.content.ranking["long"], "long", c, q, x.content.frame)
       /\ \E c \in s.files : Ranked(x.content.ranking["short"], "short", c, x.content.frame)
  /\ x.pc = "done" =>
       /\ x.content.frame \in Frames /\ fr[x.content.frame].members # {}
       /\ IsInjective(h) => Current(x.content, x.now, s.results, s.files,
                                    fr[x.content.frame].members)

RequestsOK ==
  \A r \in Requests :
     RequestOK(jobs[r], seen[r], results, held, files, Contents(cache, jobs), frames)

(* Later results and other files take nothing of it back.                   *)
LEMMA StoredStays ==
  ASSUME NEW x, NEW res, IsStored(x, res), NEW later, Grown(res, later)
  PROVE  IsStored(x, later)
BY DEF IsStored, Grown

LEMMA MarkerStays ==
  ASSUME NEW m, NEW res, IsMarker(m, res), NEW later, Grown(res, later)
  PROVE  IsMarker(m, later)
BY DEF IsMarker, Grown

LEMMA EntryStays ==
  ASSUME NEW e, NEW res, NEW h, NEW now, EntryOK(e, res, h, now),
         NEW res2, Grown(res, res2), NEW h2, NEW now2, FilesGrown(h, now, h2, now2)
  PROVE  EntryOK(e, res2, h2, now2)
<1>1. IsStored(e.content, res2)
  BY StoredStays DEF EntryOK
<1>2. e.key[2] \in Range(h2)
  BY DEF EntryOK, FilesGrown
<1>3. IsInjective(h2) /\ e.key[2] = now2 => IsInjective(h) /\ now2 = now
  BY DEF EntryOK, FilesGrown
<1> QED BY <1>1, <1>2, <1>3 DEF EntryOK

LEMMA JobStays ==
  ASSUME NEW x, NEW res, NEW h, NEW now, JobOK(x, res, h, now),
         NEW res2, Grown(res, res2), NEW h2, NEW now2, FilesGrown(h, now, h2, now2)
  PROVE  JobOK(x, res2, h2, now2)
<1>1. x.pc = "marker" => \E f \in Frames : res2[f] # None
  BY DEF JobOK, Grown
<1>2. x.pc \in Reading => IsMarker(x.marker, res2)
  BY MarkerStays DEF JobOK
<1>3. x.pc \in {"load", "long", "short"} => x.key[2] \in Range(h2)
  BY DEF JobOK, FilesGrown
<1>4. x.pc \in Loading => IsStored(x.content, res2)
  BY StoredStays DEF JobOK
<1>5. x.pc \in Loading /\ IsInjective(h2) /\ x.key[2] = now2 => IsInjective(h) /\ now2 = now
  BY DEF JobOK, FilesGrown, Loading
<1>6. "long" \in Loading /\ "short" \in Loading
  BY DEF Loading
<1>7. x.pc = "long" =>
        (IsInjective(h2) /\ x.key[2] = now2 =>
           Ranked(x.content.ranking["long"], "long", now2, x.content.frame))
  BY <1>5, <1>6 DEF JobOK
<1>8. x.pc = "short" =>
        (IsInjective(h2) /\ x.key[2] = now2 =>
           /\ Made(x.content.ranking["long"], "long", now2, now2, x.content.frame)
           /\ Ranked(x.content.ranking["short"], "short", now2, x.content.frame))
  BY <1>5, <1>6 DEF JobOK
<1> QED BY <1>1, <1>2, <1>3, <1>4, <1>7, <1>8 DEF JobOK

BaseOK == JobsOK /\ FramesOK /\ OwnOK /\ ResultsOK /\ HeldOK /\ SeenOK

LiveInv == BaseOK /\ CacheOK /\ AllJobsOK /\ RequestsOK

LEMMA BaseStep ==
  ASSUME BaseOK, [Next]_vars
  PROVE  /\ BaseOK' /\ FramesKept /\ Grown(results, results')
         /\ FilesGrown(held, files, held', files')
<1> USE DEF BaseOK
<1>1. JobsOK' /\ OwnOK'
  BY JobsStep, OwnStep
<1>2. FramesOK' /\ FramesKept
  BY FramesStep
<1>3. ResultsOK' /\ Grown(results, results')
  BY ResultsStep
<1>4. HeldOK' /\ FilesGrown(held, files, held', files') /\ SeenOK'
  BY HeldStep, SeenStep
<1> QED BY <1>1, <1>2, <1>3, <1>4

-----------------------------------------------------------------------------
(* The cache.                                                               *)

LEMMA CompleteShape ==
  ASSUME NEW d, NEW ranking, DOMAIN ranking = RankingParts, NEW result
  PROVE  /\ DOMAIN Complete(d, ranking, result) = RankingParts
         /\ IsAVerdict(Complete(d, ranking, result).qualification)
<1> DEFINE verdict == Qualify(d, files[d].qualification, ranking, Measured[result.frame])
           rk == Complete(d, ranking, result)
<1>1. \E stability : rk = [ranking EXCEPT !.stability = stability, !.qualification = verdict]
  BY DEF Complete
<1>2. IsAVerdict(verdict)
  BY QualifyShape
<1> HIDE DEF rk, verdict
<1>3. DOMAIN rk = RankingParts /\ rk.qualification = verdict
  BY <1>1, <1>2 DEF RankingParts
<1> QED BY <1>2, <1>3 DEF rk

(* What ReadShort(j) makes of what was loaded.                              *)
Completed(j) ==
  [jobs[j].content EXCEPT !.ranking["short"] = Complete("short", @, jobs[j].result)]

LEMMA ReadShortDoes ==
  ASSUME NEW j \in Jobs, ReadShort(j)
  PROVE  /\ jobs[j].pc = "short" /\ cache' = Put(jobs[j].key, Completed(j))
         /\ Finish(j, jobs[j].stale, Completed(j))
BY DEF ReadShort, Completed

(* What the read for Long makes of the content.                             *)
LEMMA LongReadFacts ==
  ASSUME NEW j \in Jobs, jobs[j].pc = "long", AllJobsOK
  PROVE  LET content == LongRead(j)
             f == jobs[j].content.frame
         IN  /\ DOMAIN content = ContentParts /\ content.frame = f
             /\ content.at = jobs[j].content.at /\ DOMAIN content.ranking = Directions
             /\ DOMAIN content.ranking["long"] = RankingParts
             /\ IsAVerdict(content.ranking["long"].qualification)
             /\ DOMAIN content.ranking["short"] = RankingParts
             /\ \A c : Ranked(jobs[j].content.ranking["long"], "long", c, f)
                       => Made(content.ranking["long"], "long", c, files, f)
             /\ Ranked(content.ranking["short"], "short", files, f)
<1> DEFINE result == jobs[j].result
           loaded == jobs[j].content
           long == loaded.ranking["long"]
           short == RankDirection("short", files["short"].candidate, Measured[result.frame])
           completed == Complete("long", long, result)
           rankings == [long |-> completed, short |-> short]
           content == LongRead(j)
<1>1. /\ DOMAIN loaded = ContentParts /\ DOMAIN long = RankingParts
      /\ result.frame = loaded.frame
  BY DEF AllJobsOK, JobOK, Loading
<1>2. content = [loaded EXCEPT !.ranking = rankings]
  BY DEF LongRead
<1>3. DOMAIN short = RankingParts
  BY RankShape
<1>4. DOMAIN completed = RankingParts /\ IsAVerdict(completed.qualification)
  BY <1>1, CompleteShape
<1>5. ASSUME NEW c, Ranked(long, "long", c, loaded.frame)
      PROVE  Made(completed, "long", c, files, loaded.frame)
  <2>1. long = RankDirection("long", c["long"].candidate, Measured[result.frame])
    BY <1>1, <1>5 DEF Ranked
  <2>2. "long" \in Directions
    BY DEF Directions
  <2>3. Made(completed, "long", c, files, result.frame)
    BY <2>1, <2>2, CompleteIsMade
  <2> QED BY <1>1, <2>3
<1>6. Ranked(short, "short", files, loaded.frame)
  BY <1>1 DEF Ranked
<1> HIDE DEF completed, short
<1>7. /\ rankings["long"] = completed /\ rankings["short"] = short
      /\ DOMAIN rankings = Directions
  BY DEF Directions
<1> HIDE DEF rankings, content
<1>8. /\ DOMAIN content = ContentParts /\ content.frame = loaded.frame
      /\ content.at = loaded.at /\ content.ranking = rankings
  BY <1>1, <1>2 DEF ContentParts
<1> QED BY <1>3, <1>4, <1>5, <1>6, <1>7, <1>8 DEF content

LEMMA CompletedFacts ==
  ASSUME NEW j \in Jobs, jobs[j].pc = "short", AllJobsOK
  PROVE  LET content == Completed(j)
             f == jobs[j].content.frame
         IN  /\ IsContent(content) /\ content.frame = f /\ content.at = jobs[j].content.at
             /\ content.ranking["long"] = jobs[j].content.ranking["long"]
             /\ \A c : Ranked(jobs[j].content.ranking["short"], "short", c, f)
                       => Made(content.ranking["short"], "short", c, files, f)
<1> DEFINE result == jobs[j].result
           loaded == jobs[j].content
           short == loaded.ranking["short"]
           completed == Complete("short", short, result)
           rankings == [loaded.ranking EXCEPT !["short"] = completed]
           content == Completed(j)
<1>1. /\ DOMAIN loaded = ContentParts /\ DOMAIN loaded.ranking = Directions
      /\ DOMAIN loaded.ranking["long"] = RankingParts
      /\ IsAVerdict(loaded.ranking["long"].qualification)
      /\ DOMAIN short = RankingParts /\ result.frame = loaded.frame
  BY DEF AllJobsOK, JobOK, Loading
<1>2. content = [loaded EXCEPT !.ranking = rankings]
  BY <1>1 DEF Completed, ContentParts
<1>3. DOMAIN completed = RankingParts /\ IsAVerdict(completed.qualification)
  BY <1>1, CompleteShape
<1>4. ASSUME NEW c, Ranked(short, "short", c, loaded.frame)
      PROVE  Made(completed, "short", c, files, loaded.frame)
  <2>1. short = RankDirection("short", c["short"].candidate, Measured[result.frame])
    BY <1>1, <1>4 DEF Ranked
  <2>2. "short" \in Directions
    BY DEF Directions
  <2>3. Made(completed, "short", c, files, result.frame)
    BY <2>1, <2>2, CompleteIsMade
  <2> QED BY <1>1, <2>3
<1> HIDE DEF completed
<1>5. /\ rankings["long"] = loaded.ranking["long"] /\ rankings["short"] = completed
      /\ DOMAIN rankings = Directions /\ Directions = {"long", "short"}
  BY <1>1 DEF Directions
<1> HIDE DEF rankings, content
<1>6. /\ DOMAIN content = ContentParts /\ content.frame = loaded.frame
      /\ content.at = loaded.at /\ content.ranking = rankings
  BY <1>1, <1>2 DEF ContentParts
<1>7. IsContent(content)
  BY <1>1, <1>3, <1>5, <1>6 DEF IsContent
<1> QED BY <1>4, <1>5, <1>6, <1>7 DEF content

(* Entries are the earlier ones, and the one that is put.                    *)
LEMMA PutFacts ==
  ASSUME IsASequence(cache), \A i \in DOMAIN cache : DOMAIN cache[i] = {"key", "content"},
         NEW key, NEW content
  PROVE  LET new == Put(key, content)
         IN  /\ IsASequence(new)
             /\ \A i \in DOMAIN new :
                  \/ \E k \in DOMAIN cache : new[i] = cache[k]
                  \/ /\ DOMAIN new[i] = {"key", "content"}
                     /\ new[i].key = key /\ new[i].content = content
<1> DEFINE entry == [key |-> key, content |-> content]
           kept == IF Len(cache) >= CacheSize THEN Tail(cache) ELSE cache
           same == {i \in DOMAIN kept : kept[i].key = key}
           new == Put(key, content)
<1>1. Len(cache) \in Nat /\ DOMAIN cache = 1 .. Len(cache) /\ cache \in Seq(Range(cache))
  BY LenProperties DEF IsASequence
<1>2. /\ kept \in Seq(Range(cache))
      /\ \A i \in DOMAIN kept : \E k \in DOMAIN cache : kept[i] = cache[k]
  <2>1. CASE Len(cache) >= CacheSize
    <3>1. cache # <<>>
      BY <1>1, <2>1, LiveAssumption, EmptySeq
    <3>2. /\ Tail(cache) \in Seq(Range(cache)) /\ Len(Tail(cache)) = Len(cache) - 1
          /\ \A i \in 1 .. Len(Tail(cache)) : Tail(cache)[i] = cache[i + 1]
      BY <1>1, <3>1, HeadTailProperties
    <3>3. DOMAIN Tail(cache) = 1 .. Len(cache) - 1
      BY <1>1, <3>2, LenProperties
    <3>4. \A i \in 1 .. Len(cache) - 1 : i + 1 \in DOMAIN cache
      BY <1>1
    <3> QED BY <2>1, <3>2, <3>3, <3>4
  <2>2. CASE ~(Len(cache) >= CacheSize)
    BY <1>1, <2>2
  <2> QED BY <2>1, <2>2
<1>3. new = IF same = {} THEN Append(kept, entry)
            ELSE [kept EXCEPT ![Min(same)].content = content]
  BY DEF Put
<1>4. Len(kept) \in Nat /\ DOMAIN kept = 1 .. Len(kept)
  BY <1>2, LenProperties
<1>5. DOMAIN entry = {"key", "content"} /\ entry.key = key /\ entry.content = content
  OBVIOUS
<1> HIDE DEF kept, entry, new
<1>6. CASE same = {}
  <2> DEFINE S == Range(cache) \cup {entry}
             n == Len(kept)
  <2>1. kept \in Seq(S)
    <3>1. Range(cache) \subseteq S
      OBVIOUS
    <3> QED BY <1>2, <3>1, SeqMonotonic
  <2>2. /\ new \in Seq(S) /\ Len(new) = n + 1 /\ new[n + 1] = entry
        /\ \A i \in 1 .. n : new[i] = kept[i]
    BY <1>3, <1>6, <2>1, AppendProperties
  <2>3. DOMAIN new = 1 .. n + 1
    BY <2>2, LenProperties
  <2>4. new \in Seq(Range(new))
    <3>1. \A i \in 1 .. n + 1 : new[i] \in Range(new)
      BY <2>3 DEF Range
    <3>2. new \in [1 .. n + 1 -> Range(new)]
      BY <2>2, <2>3, <3>1, LenProperties
    <3> QED BY <1>4, <3>2, SeqDef
  <2>5. ASSUME NEW i \in DOMAIN new
        PROVE  \/ \E k \in DOMAIN cache : new[i] = cache[k]
               \/ /\ DOMAIN new[i] = {"key", "content"}
                  /\ new[i].key = key /\ new[i].content = content
    <3>1. CASE i \in 1 .. n
      BY <1>2, <1>4, <2>2, <3>1
    <3>2. CASE i = n + 1
      BY <1>5, <2>2, <3>2
    <3> QED BY <1>4, <2>3, <3>1, <3>2
  <2> QED BY <2>4, <2>5 DEF IsASequence, new
<1>7. CASE same # {}
  <2> DEFINE m == Min(same)
             e == [kept[m] EXCEPT !.content = content]
  <2>1. m \in same
    <3>1. same \subseteq 1 .. Len(kept) /\ IsFiniteSet(1 .. Len(kept))
      BY <1>4, FS_Interval
    <3>2. IsFiniteSet(same) /\ same \subseteq Int
      <4> HIDE DEF same
      <4>1. IsFiniteSet(same)
        BY <3>1, FS_Subset
      <4>2. 1 .. Len(kept) \subseteq Int
        OBVIOUS
      <4> QED BY <3>1, <4>1, <4>2
    <3> HIDE DEF same
    <3> QED BY <1>7, <3>2, MinMaxFacts
  <2>2. new = [kept EXCEPT ![m].content = content] /\ m \in DOMAIN kept /\ kept[m].key = key
    BY <1>3, <1>7, <2>1
  <2>3. PICK k \in DOMAIN cache : kept[m] = cache[k]
    BY <1>2, <2>2
  <2> HIDE DEF m, same
  <2>4. DOMAIN e = {"key", "content"} /\ e.key = key /\ e.content = content
    BY <2>2, <2>3
  <2>5. new = [i \in DOMAIN kept |-> IF i = m THEN e ELSE kept[i]]
    BY <2>2
  <2> HIDE DEF e
  <2>6. DOMAIN new = 1 .. Len(kept)
    BY <1>4, <2>5
  <2>7. new \in Seq(Range(new))
    <3>1. \A i \in 1 .. Len(kept) : new[i] \in Range(new)
      BY <2>6 DEF Range
    <3>2. new \in [1 .. Len(kept) -> Range(new)]
      BY <1>4, <2>5, <3>1
    <3> QED BY <1>4, <3>2, SeqDef
  <2>8. ASSUME NEW i \in DOMAIN new
        PROVE  \/ \E b \in DOMAIN cache : new[i] = cache[b]
               \/ /\ DOMAIN new[i] = {"key", "content"}
                  /\ new[i].key = key /\ new[i].content = content
    <3>1. CASE i = m
      BY <2>4, <2>5, <2>6, <3>1
    <3>2. CASE i # m
      BY <1>2, <1>4, <2>5, <2>6, <3>2
    <3> QED BY <3>1, <3>2
  <2> QED BY <2>7, <2>8 DEF IsASequence, new
<1> QED BY <1>6, <1>7

LEMMA CacheStep ==
  ASSUME LiveInv, [Next]_vars
  PROVE  CacheOK'
<1>1. Grown(results, results') /\ FilesGrown(held, files, held', files')
  BY BaseStep DEF LiveInv
<1>2. ASSUME NEW i \in DOMAIN cache PROVE EntryOK(cache[i], results', held', files')
  BY <1>1, EntryStays DEF LiveInv, CacheOK
<1>3. CASE cache' = cache
  BY <1>2, <1>3 DEF LiveInv, CacheOK
<1>4. ASSUME NEW j \in Jobs, ReadShort(j) PROVE CacheOK'
  <2> DEFINE content == Completed(j)
             key == jobs[j].key
             x == jobs[j]
  <2>1. /\ x.pc = "short" /\ cache' = Put(key, content) /\ results' = results
        /\ held' = held /\ files' = files
    BY <1>4, ReadShortDoes DEF ReadShort, Market
  <2>2. /\ IsASequence(cache')
        /\ \A i \in DOMAIN cache' :
             \/ \E k \in DOMAIN cache : cache'[i] = cache[k]
             \/ /\ DOMAIN cache'[i] = {"key", "content"}
                /\ cache'[i].key = key /\ cache'[i].content = content
    BY <2>1, PutFacts DEF LiveInv, CacheOK, EntryOK
  <2>3. /\ IsContent(content) /\ content.frame = x.content.frame /\ content.at = x.content.at
        /\ content.ranking["long"] = x.content.ranking["long"]
        /\ Ranked(x.content.ranking["short"], "short", files, x.content.frame)
             => Made(content.ranking["short"], "short", files, files, x.content.frame)
    BY <2>1, CompletedFacts DEF LiveInv
  <2>4. JobOK(x, results, held, files)
    BY DEF LiveInv, AllJobsOK
  <2> HIDE DEF content, x
  <2>5. ASSUME NEW e, DOMAIN e = {"key", "content"}, e.key = x.key, e.content = content
        PROVE  EntryOK(e, results, held, files)
    <3>1. /\ IsStored(x.content, results) /\ x.content.frame = x.marker[1]
          /\ x.marker[2] <= x.content.at /\ x.key[1] = x.marker /\ x.key[2] \in Range(held)
          /\ IsMarker(x.marker, results)
      BY <2>1, <2>4 DEF JobOK, Reading, Loading, x
    <3>2. IsStored(content, results)
      BY <2>3, <3>1 DEF IsStored
    <3>3. IsInjective(held) /\ x.key[2] = files =>
            \A d \in Directions : Made(content.ranking[d], d, files, files, content.frame)
      BY <2>1, <2>3, <2>4 DEF JobOK, Directions, x
    <3> QED BY <2>3, <2>5, <3>1, <3>2, <3>3 DEF EntryOK, IsMarker
  <2>6. \A i \in DOMAIN cache' : EntryOK(cache'[i], results', held', files')
    BY <1>2, <2>1, <2>2, <2>5 DEF x
  <2> QED BY <2>2, <2>6 DEF CacheOK, IsASequence
<1>5. cache' = cache \/ \E j \in Jobs : ReadShort(j)
  BY DEF Next, vars, Market, Tick, Build, Finalize, RecoveryLooks, RecoveryTakes, Analyze, Fails,
         PublishCheck, ReadMarker, Insert, Edit, Begin, Deliver, ReadFrames, LoadResults,
         ReadLong, StartWalk, NextPage, PreviousSnapshot
<1> QED BY <1>3, <1>4, <1>5

-----------------------------------------------------------------------------
(* The tasks under way.                                                     *)

LEMMA AnalyzedFacts ==
  ASSUME ResultsOK, Analyzed # {}
  PROVE  /\ Max(Analyzed) \in Frames /\ results[Max(Analyzed)] # None
         /\ results[Max(Analyzed)].frame = Max(Analyzed)
         /\ results[Max(Analyzed)].at \in Nat
         /\ Marker[1] = Max(Analyzed) /\ Marker[2] = results[Max(Analyzed)].at
<1>1. Analyzed \subseteq Frames /\ Frames \subseteq Int /\ IsFiniteSet(Frames)
  BY LiveAssumption, FS_Interval DEF Analyzed, Frames
<1>2. Max(Analyzed) \in Analyzed
  BY <1>1, FS_Subset, MinMaxFacts
<1>3. Max(Analyzed) \in Frames /\ results[Max(Analyzed)] # None
  BY <1>2 DEF Analyzed
<1>4. /\ results[Max(Analyzed)].frame = Max(Analyzed)
      /\ results[Max(Analyzed)].at \in Nat
  BY <1>3 DEF ResultsOK
<1> QED BY <1>3, <1>4 DEF Marker

LEMMA MarkerIsStored ==
  ASSUME ResultsOK, Analyzed # {}
  PROVE  IsMarker(Marker, results)
BY AnalyzedFacts DEF IsMarker

LEMMA StaleFacts ==
  ASSUME NEW f \in Frames, NEW newest, NEW now \in Nat, ~Stale(f, newest, now)
  PROVE  now <= BaseDuration * (f + 1) + Allowance
<1>1. f \in Nat /\ Allowance \in Nat /\ BaseDuration \in Nat
  BY LiveAssumption, WindowAssumption DEF Frames
<1>2. BaseDuration * (f + 1) \in Nat
  BY <1>1
<1>3. ~(now > BaseDuration * (f + 1) + Allowance)
  BY DEF Stale
<1> QED BY <1>1, <1>2, <1>3

LEMMA QuietJob ==
  ASSUME NEW x, x.pc \in {"idle", "analyze", "publish", "insert", "done"},
         NEW res, NEW h, NEW now
  PROVE  JobOK(x, res, h, now)
BY DEF JobOK, Reading, Loading

LEMMA OthersStay ==
  ASSUME LiveInv, [Next]_vars, NEW p \in Jobs, \A j \in Jobs \ {p} : jobs'[j] = jobs[j],
         JobOK(jobs'[p], results', held', files')
  PROVE  AllJobsOK'
<1>1. Grown(results, results') /\ FilesGrown(held, files, held', files')
  BY BaseStep DEF LiveInv
<1>2. ASSUME NEW j \in Jobs \ {p} PROVE JobOK(jobs'[j], results', held', files')
  <2>1. JobOK(jobs[j], results, held, files) /\ jobs'[j] = jobs[j]
    BY DEF LiveInv, AllJobsOK
  <2>2. JobOK(jobs[j], results', held', files')
    BY <1>1, <2>1, JobStays
  <2> QED BY <2>1, <2>2
<1> QED BY <1>2 DEF AllJobsOK

LEMMA QuietSetting ==
  ASSUME LiveInv, [Next]_vars, NEW p \in Jobs,
         NEW pc \in {"idle", "analyze", "publish", "insert", "done"}, NEW own, NEW now,
         NEW marker, NEW stale, NEW key, NEW result, NEW content,
         Sets(p, pc, own, now, marker, stale, key, result, content)
  PROVE  AllJobsOK'
<1>1. jobs'[p].pc = pc /\ \A j \in Jobs \ {p} : jobs'[j] = jobs[j]
  BY DEF Sets, IsAJob
<1>2. JobOK(jobs'[p], results', held', files')
  BY <1>1, QuietJob
<1> QED BY <1>1, <1>2, OthersStay

(* A task that ends is answered, inserts or is idle.                        *)
LEMMA FinishIsQuiet ==
  ASSUME JobsOK, NEW j \in Jobs, NEW stale, NEW content, Finish(j, stale, content)
  PROVE  \E pc, own, now, marker, s, key, result, c :
           /\ pc \in {"done", "insert", "idle"}
           /\ Sets(j, pc, own, now, marker, s, key, result, c)
<1> DEFINE pcs == {"done", "insert", "idle"}
<1>1. "done" \in pcs /\ "insert" \in pcs /\ "idle" \in pcs
  OBVIOUS
<1> HIDE DEF pcs
<1>2. \E pc, own, now, marker, s, key, result, c :
         pc \in pcs /\ Sets(j, pc, own, now, marker, s, key, result, c)
  BY <1>1, FinishSets
<1> QED BY <1>2 DEF pcs

LEMMA AllJobsStep ==
  ASSUME LiveInv, [Next]_vars
  PROVE  AllJobsOK'
<1> USE DEF Market
<1>0. /\ Requests \subseteq Jobs /\ Publishers \subseteq Jobs /\ "live" \in Jobs
      /\ "recovery" \in Jobs /\ JobsOK /\ ResultsOK
      /\ Grown(results, results') /\ FilesGrown(held, files, held', files')
  BY BaseStep DEF Jobs, Publishers, LiveInv, BaseOK
<1>1. CASE jobs' = jobs
  <2>1. ASSUME NEW j \in Jobs PROVE JobOK(jobs[j], results', held', files')
    BY <1>0, JobStays DEF LiveInv, AllJobsOK
  <2> QED BY <1>1, <2>1 DEF AllJobsOK
<1>2. ASSUME NEW f \in Frames, Finalize(f) PROVE AllJobsOK'
  BY <1>0, <1>2, FinalizeSets, QuietSetting
<1>3. CASE RecoveryTakes
  BY <1>0, <1>3, RecoveryTakesSets, QuietSetting
<1>4. ASSUME NEW p \in Publishers, Analyze(p) PROVE AllJobsOK'
  <2>1. Goto(p, "publish")
    BY <1>4 DEF Analyze
  <2> QED BY <1>0, <2>1, GotoSets, QuietSetting
<1>5. ASSUME NEW p \in Jobs, Stop(p) PROVE AllJobsOK'
  BY <1>0, <1>5, StopSets, QuietSetting
<1>6. ASSUME NEW p \in Publishers, PublishCheck(p) PROVE AllJobsOK'
  <2>1. results' = results
    BY <1>6 DEF PublishCheck
  <2>2. CASE Analyzed # {} /\ Max(Analyzed) = jobs[p].own
    <3>1. jobs'[p].pc = "marker" /\ \A j \in Jobs \ {p} : jobs'[j] = jobs[j]
      BY <1>0, <1>6, <2>2, PublishCheckSets DEF Sets, IsAJob
    <3>2. \E f \in Frames : results'[f] # None
      BY <2>1, <2>2 DEF Analyzed
    <3>3. JobOK(jobs'[p], results', held', files')
      BY <3>1, <3>2 DEF JobOK, Reading, Loading
    <3> QED BY <1>0, <3>1, <3>3, OthersStay
  <2>3. CASE ~(Analyzed # {} /\ Max(Analyzed) = jobs[p].own)
    BY <1>0, <1>6, <2>3, PublishCheckSets, QuietSetting
  <2> QED BY <2>2, <2>3
<1>7. ASSUME NEW p \in Jobs, jobs'[p].pc = "frames", jobs'[p].marker = Marker, Analyzed # {},
             results' = results, \A j \in Jobs \ {p} : jobs'[j] = jobs[j]
      PROVE  AllJobsOK'
  <2>1. IsMarker(jobs'[p].marker, results')
    BY <1>0, <1>7, MarkerIsStored
  <2>2. JobOK(jobs'[p], results', held', files')
    BY <1>7, <2>1 DEF JobOK, Reading, Loading
  <2> QED BY <1>7, <2>2, OthersStay
<1>8. ASSUME NEW p \in Publishers, ReadMarker(p) PROVE AllJobsOK'
  <2>1. /\ jobs'[p].pc = "frames" /\ jobs'[p].marker = Marker
        /\ \A j \in Jobs \ {p} : jobs'[j] = jobs[j]
    BY <1>0, <1>8, ReadMarkerSets DEF Sets, IsAJob
  <2>2. results' = results /\ jobs[p].pc = "marker"
    BY <1>8 DEF ReadMarker
  <2>3. JobOK(jobs[p], results, held, files)
    BY <1>0 DEF LiveInv, AllJobsOK
  <2>4. Analyzed # {}
    BY <2>2, <2>3 DEF JobOK, Analyzed
  <2> QED BY <1>0, <1>7, <2>1, <2>2, <2>4
<1>9. ASSUME NEW r \in Requests, Begin(r) PROVE AllJobsOK'
  <2>1. CASE Analyzed = {}
    BY <1>0, <1>9, <2>1, BeginSets, QuietSetting
  <2>2. CASE Analyzed # {}
    <3>1. /\ jobs'[r].pc = "frames" /\ jobs'[r].marker = Marker
          /\ \A j \in Jobs \ {r} : jobs'[j] = jobs[j]
      BY <1>0, <1>9, <2>2, BeginSets DEF Sets, IsAJob
    <3>2. results' = results
      BY <1>9 DEF Begin
    <3> QED BY <1>0, <1>7, <2>2, <3>1, <3>2
  <2> QED BY <2>1, <2>2
<1>10. ASSUME NEW j \in Jobs, NEW stale, NEW content, Finish(j, stale, content) PROVE AllJobsOK'
  <2>1. PICK pc, own, now, marker, s, key, result, c :
           /\ pc \in {"done", "insert", "idle"}
           /\ Sets(j, pc, own, now, marker, s, key, result, c)
    BY <1>0, <1>10, FinishIsQuiet
  <2>2. pc \in {"idle", "analyze", "publish", "insert", "done"}
    BY <2>1
  <2> QED BY <2>1, <2>2, QuietSetting
<1>11. ASSUME NEW j \in Jobs, ReadFrames(j) PROVE AllJobsOK'
  <2> DEFINE key == Key(jobs[j].marker)
             newest == Max(FinalizedFrames)
             stale == Stale(jobs[j].marker[1], newest, jobs[j].now)
  <2>1. CASE Cached(key) # {}
    <3>1. Finish(j, stale, cache[Min(Cached(key))].content)
      BY <1>0, <1>11, <2>1, ReadFramesSets
    <3> QED BY <1>10, <3>1
  <2>2. CASE Cached(key) = {}
    <3>1. /\ jobs'[j].pc = "load" /\ jobs'[j].marker = jobs[j].marker /\ jobs'[j].key = key
          /\ jobs'[j].now = jobs[j].now /\ jobs'[j].stale = stale
          /\ \A k \in Jobs \ {j} : jobs'[k] = jobs[k]
      BY <1>0, <1>11, <2>2, ReadFramesSets DEF Sets, IsAJob
    <3>2. results' = results /\ held' = held /\ jobs[j].pc = "frames"
      BY <1>11 DEF ReadFrames
    <3>3. IsMarker(jobs[j].marker, results) /\ jobs[j].now \in Nat
      BY <1>0, <3>2 DEF LiveInv, AllJobsOK, JobOK, Reading, JobsOK
    <3>4. ~stale => jobs[j].now <= BaseDuration * (jobs[j].marker[1] + 1) + Allowance
      BY <3>3, StaleFacts DEF IsMarker
    <3>5. key[1] = jobs[j].marker /\ key[2] = files /\ files \in Range(held)
      BY DEF Key, LiveInv, BaseOK, HeldOK
    <3> HIDE DEF stale, key
    <3>6. ~jobs'[j].stale => ~stale
      BY <3>1
    <3>7. JobOK(jobs'[j], results', held', files')
      BY <3>1, <3>2, <3>3, <3>4, <3>5, <3>6 DEF JobOK, Reading, Loading
    <3> QED BY <3>1, <3>7, OthersStay
  <2> QED BY <2>1, <2>2
<1>12. ASSUME NEW j \in Jobs, LoadResults(j) PROVE AllJobsOK'
  <2> DEFINE x == jobs[j]
             f == x.marker[1]
             result == results[f]
             loaded == Loaded(result)
             y == jobs'[j]
  <2>1. /\ y.pc = "long" /\ y.marker = x.marker /\ y.key = x.key
        /\ y.now = x.now /\ y.stale = x.stale /\ y.result = result /\ y.content = loaded
        /\ \A k \in Jobs \ {j} : jobs'[k] = jobs[k]
    BY <1>0, <1>12, LoadResultsSets DEF Sets, IsAJob
  <2>2. results' = results /\ held' = held /\ files' = files /\ x.pc = "load"
    BY <1>12 DEF LoadResults
  <2>3. JobOK(x, results, held, files)
    BY DEF LiveInv, AllJobsOK
  <2>4. IsMarker(x.marker, results)
    BY <2>2, <2>3 DEF JobOK, Reading
  <2>5. /\ f \in Frames /\ result # None /\ result.frame = f /\ result.at \in Nat
        /\ x.marker[2] <= result.at
    <3>1. f \in Frames /\ result # None /\ x.marker[2] <= result.at
      BY <2>4 DEF IsMarker
    <3> QED BY <1>0, <3>1 DEF ResultsOK
  <2>6. /\ loaded.frame = f /\ loaded.at = result.at /\ DOMAIN loaded = ContentParts
        /\ loaded.ranking["long"]
             = RankDirection("long", files["long"].candidate, Measured[f])
    BY <2>5 DEF Loaded, ContentParts
  <2>7. DOMAIN loaded.ranking["long"] = RankingParts
    BY <2>6, RankShape
  <2> HIDE DEF loaded
  <2>8. IsStored(loaded, results)
    BY <2>5, <2>6 DEF IsStored
  <2> HIDE DEF result
  <2>9. /\ ~x.stale => x.now <= BaseDuration * (x.marker[1] + 1) + Allowance
        /\ x.key[1] = x.marker /\ x.key[2] \in Range(held)
    BY <2>2, <2>3 DEF JobOK
  <2> HIDE DEF x, y
  <2>10. JobOK(y, results, held, files)
    <3>1. /\ y.pc \in Reading /\ y.pc \in {"load", "long", "short"} /\ y.pc = "long"
          /\ y.pc # "marker" /\ y.pc # "short" /\ y.pc \in Loading
      BY <2>1 DEF Reading, Loading
    <3>2. /\ IsStored(y.content, results) /\ y.content.frame = y.marker[1]
          /\ y.marker[2] <= y.content.at /\ y.result.frame = y.content.frame
      BY <2>1, <2>5, <2>6, <2>8
    <3>3. DOMAIN y.content = ContentParts /\ DOMAIN y.content.ranking["long"] = RankingParts
      BY <2>1, <2>6, <2>7
    <3>4. Ranked(y.content.ranking["long"], "long", files, y.content.frame)
      BY <2>1, <2>6 DEF Ranked
    <3>5. /\ ~y.stale => y.now <= BaseDuration * (y.marker[1] + 1) + Allowance
          /\ y.key[1] = y.marker /\ y.key[2] \in Range(held) /\ IsMarker(y.marker, results)
      BY <2>1, <2>4, <2>9
    <3> QED BY <3>1, <3>2, <3>3, <3>4, <3>5 DEF JobOK
  <2> QED BY <2>1, <2>2, <2>10, OthersStay DEF y
<1>13. ASSUME NEW j \in Jobs, ReadLong(j) PROVE AllJobsOK'
  <2> DEFINE x == jobs[j]
             read == LongRead(j)
             f == x.content.frame
             y == jobs'[j]
  <2>1. /\ y.pc = "short" /\ y.marker = x.marker /\ y.key = x.key
        /\ y.now = x.now /\ y.stale = x.stale /\ y.result = x.result /\ y.content = read
        /\ \A k \in Jobs \ {j} : jobs'[k] = jobs[k]
    BY <1>0, <1>13, ReadLongSets DEF Sets, IsAJob
  <2>2. results' = results /\ held' = held /\ files' = files /\ x.pc = "long"
    BY <1>13 DEF ReadLong
  <2>3. JobOK(x, results, held, files)
    BY DEF LiveInv, AllJobsOK
  <2>4. /\ DOMAIN read = ContentParts /\ read.frame = f
        /\ read.at = x.content.at /\ DOMAIN read.ranking = Directions
        /\ DOMAIN read.ranking["long"] = RankingParts
        /\ IsAVerdict(read.ranking["long"].qualification)
        /\ DOMAIN read.ranking["short"] = RankingParts
        /\ Ranked(x.content.ranking["long"], "long", files, f)
             => Made(read.ranking["long"], "long", files, files, f)
        /\ Ranked(read.ranking["short"], "short", files, f)
    BY <2>2, LongReadFacts DEF LiveInv
  <2> HIDE DEF x, y, read, f
  <2>5. /\ IsMarker(x.marker, results) /\ x.key[1] = x.marker /\ x.key[2] \in Range(held)
        /\ ~x.stale => x.now <= BaseDuration * (x.marker[1] + 1) + Allowance
    BY <2>2, <2>3 DEF JobOK, Reading
  <2>6. /\ IsStored(x.content, results) /\ f = x.marker[1]
        /\ x.marker[2] <= x.content.at /\ x.result.frame = f
        /\ IsInjective(held) /\ x.key[2] = files => Ranked(x.content.ranking["long"], "long", files, f)
    BY <2>2, <2>3 DEF JobOK, Loading, f
  <2>7. IsStored(read, results)
    BY <2>4, <2>6 DEF IsStored, f
  <2>8. JobOK(y, results, held, files)
    <3>1. /\ y.pc \in Reading /\ y.pc \in {"load", "long", "short"} /\ y.pc # "marker"
          /\ y.pc # "long" /\ y.pc \in Loading
      BY <2>1 DEF Reading, Loading
    <3>2. /\ IsStored(y.content, results) /\ y.content.frame = y.marker[1]
          /\ y.marker[2] <= y.content.at /\ y.result.frame = y.content.frame
      BY <2>1, <2>4, <2>6, <2>7
    <3>3. /\ DOMAIN y.content = ContentParts /\ DOMAIN y.content.ranking = Directions
          /\ DOMAIN y.content.ranking["long"] = RankingParts
          /\ IsAVerdict(y.content.ranking["long"].qualification)
          /\ DOMAIN y.content.ranking["short"] = RankingParts
      BY <2>1, <2>4
    <3>4. IsInjective(held) /\ y.key[2] = files =>
            /\ Made(y.content.ranking["long"], "long", files, files, y.content.frame)
            /\ Ranked(y.content.ranking["short"], "short", files, y.content.frame)
      BY <2>1, <2>4, <2>6
    <3>5. /\ ~y.stale => y.now <= BaseDuration * (y.marker[1] + 1) + Allowance
          /\ y.key[1] = y.marker /\ y.key[2] \in Range(held) /\ IsMarker(y.marker, results)
      BY <2>1, <2>5
    <3> QED BY <3>1, <3>2, <3>3, <3>4, <3>5 DEF JobOK
  <2> QED BY <2>1, <2>2, <2>8, OthersStay DEF y
<1>14. ASSUME NEW j \in Jobs, ReadShort(j) PROVE AllJobsOK'
  BY <1>10, <1>14, ReadShortDoes
<1>15. \/ jobs' = jobs \/ \E f \in Frames : Finalize(f)
       \/ RecoveryTakes \/ \E p \in Jobs : Stop(p)
       \/ \E p \in Publishers : Analyze(p) \/ PublishCheck(p) \/ ReadMarker(p)
       \/ \E r \in Requests : Begin(r)
       \/ \E j \in Jobs : ReadFrames(j) \/ LoadResults(j) \/ ReadLong(j) \/ ReadShort(j)
  BY <1>0 DEF Next, vars, Tick, Build, RecoveryLooks, Fails, Insert, Deliver, Edit, StartWalk,
              NextPage, PreviousSnapshot
<1> QED
  BY <1>1, <1>2, <1>3, <1>4, <1>5, <1>6, <1>8, <1>9, <1>11, <1>12, <1>13, <1>14,
     <1>15

-----------------------------------------------------------------------------
(* The requests.                                                            *)

(* No content of another result or of another analysis.                     *)
Alike(new, old) == \A c \in new : \E b \in old : c.frame = b.frame /\ c.at = b.at

LEMMA RequestStays ==
  ASSUME NEW x, NEW s, NEW given, NEW given2, Alike(given2, given), FramesKept,
         RequestOK(x, s, results, held, files, given, frames)
  PROVE  RequestOK(x, s, results, held, files, given2, frames')
<1>1. ASSUME x.pc \in Reading
      PROVE  \A c \in given2 : c.frame = x.marker[1] /\ x.marker[2] <= c.at
                                 => Knows(s, c.frame, c.at)
  BY <1>1 DEF RequestOK, Alike
<1>2. ASSUME x.pc = "done"
      PROVE  x.content.frame \in Frames /\ frames'[x.content.frame] = frames[x.content.frame]
  BY <1>2 DEF RequestOK, FramesKept
<1> QED BY <1>1, <1>2 DEF RequestOK

LEMMA ContentsShrink ==
  ASSUME NEW js, NEW entries, NEW p \in Jobs,
         \A j \in Jobs \ {p} : js[j] = jobs[j],
         js[p].pc \in Loading => jobs[p].pc \in Loading /\ js[p].content = jobs[p].content,
         \A i \in DOMAIN entries : entries[i].content \in Contents(cache, jobs)
  PROVE  Contents(entries, js) \subseteq Contents(cache, jobs)
BY DEF Contents

(* Of what a step leaves there, only what LoadResults reads is new.          *)
LEMMA ContentsStep ==
  ASSUME LiveInv, [Next]_vars
  PROVE  /\ \A j \in Jobs : LoadResults(j) =>
              /\ jobs[j].marker[1] \in Frames
              /\ \A c \in Contents(cache', jobs') :
                   \/ c \in Contents(cache, jobs)
                   \/ /\ c.frame = jobs[j].marker[1]
                      /\ c.at = results[jobs[j].marker[1]].at
         /\ \/ \E j \in Jobs : LoadResults(j)
            \/ Alike(Contents(cache', jobs'), Contents(cache, jobs))
<1> DEFINE old == Contents(cache, jobs)
           new == Contents(cache', jobs')
<1> USE DEF Market
<1>0. /\ Requests \subseteq Jobs /\ Publishers \subseteq Jobs /\ "live" \in Jobs
      /\ "recovery" \in Jobs /\ JobsOK /\ ResultsOK
  BY DEF Jobs, Publishers, LiveInv, BaseOK
<1>1. \A i \in DOMAIN cache : cache[i].content \in old
  BY DEF Contents
<1>2. \A j \in Jobs : jobs[j].pc \in Loading => jobs[j].content \in old
  BY DEF Contents
<1>3. new \subseteq old => Alike(new, old)
  BY DEF Alike
<1>4. ASSUME jobs' = jobs, cache' = cache PROVE Alike(new, old)
  BY <1>3, <1>4
<1>5. ASSUME NEW p \in Jobs, cache' = cache, NEW pc, NEW own, NEW now, NEW marker,
             NEW stale, NEW key, NEW result, NEW content, pc \notin Loading,
             Sets(p, pc, own, now, marker, stale, key, result, content)
      PROVE  Alike(new, old)
  <2>1. jobs'[p].pc \notin Loading /\ \A j \in Jobs \ {p} : jobs'[j] = jobs[j]
    BY <1>5 DEF Sets, IsAJob
  <2>2. Contents(cache', jobs') \subseteq Contents(cache, jobs)
    BY <1>1, <1>5, <2>1, ContentsShrink
  <2> QED BY <1>3, <2>2
<1>0a. "analyze" \notin Loading
  BY DEF Loading
<1>6. ASSUME cache' = cache, NEW f \in Frames, Finalize(f) PROVE Alike(new, old)
  BY <1>0, <1>0a, <1>5, <1>6, FinalizeSets
<1>7. ASSUME cache' = cache, RecoveryTakes PROVE Alike(new, old)
  BY <1>0, <1>0a, <1>5, <1>7, RecoveryTakesSets
<1>8. ASSUME cache' = cache, NEW p \in Jobs, NEW pc, pc \notin Loading, Goto(p, pc)
      PROVE  Alike(new, old)
  BY <1>0, <1>5, <1>8, GotoSets DEF Loading
<1>9. ASSUME cache' = cache, NEW p \in Jobs, Stop(p) PROVE Alike(new, old)
  BY <1>0, <1>5, <1>9, StopSets DEF Loading
<1>10. ASSUME cache' = cache, NEW p \in Publishers, PublishCheck(p) PROVE Alike(new, old)
  <2>1. CASE Analyzed # {} /\ Max(Analyzed) = jobs[p].own
    BY <1>0, <1>5, <1>10, <2>1, PublishCheckSets DEF Loading
  <2>2. CASE ~(Analyzed # {} /\ Max(Analyzed) = jobs[p].own)
    BY <1>0, <1>5, <1>10, <2>2, PublishCheckSets DEF Loading
  <2> QED BY <2>1, <2>2
<1>11. ASSUME cache' = cache, NEW p \in Publishers, ReadMarker(p) PROVE Alike(new, old)
  BY <1>0, <1>5, <1>11, ReadMarkerSets DEF Loading
<1>12. ASSUME cache' = cache, NEW r \in Requests, Begin(r) PROVE Alike(new, old)
  <2>1. CASE Analyzed = {}
    BY <1>0, <1>5, <1>12, <2>1, BeginSets DEF Loading
  <2>2. CASE Analyzed # {}
    BY <1>0, <1>5, <1>12, <2>2, BeginSets DEF Loading
  <2> QED BY <2>1, <2>2
<1>13. ASSUME cache' = cache, NEW j \in Jobs, ReadFrames(j) PROVE Alike(new, old)
  <2> DEFINE key == Key(jobs[j].marker)
             stale == Stale(jobs[j].marker[1], Max(FinalizedFrames), jobs[j].now)
  <2>1. CASE Cached(key) # {}
    <3>1. Finish(j, stale, cache[Min(Cached(key))].content)
      BY <1>0, <1>13, <2>1, ReadFramesSets
    <3>2. PICK pc, own, now, marker, s, k, result, c :
            pc \in {"done", "insert", "idle"} /\ Sets(j, pc, own, now, marker, s, k, result, c)
      BY <1>0, <3>1, FinishIsQuiet
    <3> QED BY <1>5, <1>13, <3>2 DEF Loading
  <2>2. CASE Cached(key) = {}
    BY <1>0, <1>5, <1>13, <2>2, ReadFramesSets DEF Loading
  <2> QED BY <2>1, <2>2
<1>14. ASSUME NEW j \in Jobs, LoadResults(j)
       PROVE  /\ jobs[j].marker[1] \in Frames
              /\ \A c \in new : \/ c \in old
                                \/ /\ c.frame = jobs[j].marker[1]
                                   /\ c.at = results[jobs[j].marker[1]].at
  <2> DEFINE f == jobs[j].marker[1]
             loaded == Loaded(results[f])
  <2>1. jobs[j].pc = "load" /\ cache' = cache
    BY <1>14 DEF LoadResults
  <2>2. IsMarker(jobs[j].marker, results)
    BY <2>1 DEF LiveInv, AllJobsOK, JobOK, Reading
  <2>3. f \in Frames /\ results[f].frame = f
    BY <1>0, <2>2 DEF IsMarker, ResultsOK
  <2>4. jobs'[j].content = loaded /\ \A k \in Jobs \ {j} : jobs'[k] = jobs[k]
    BY <1>0, <1>14, LoadResultsSets DEF Sets, IsAJob
  <2>5. loaded.frame = f /\ loaded.at = results[f].at
    BY <2>3 DEF Loaded
  <2> HIDE DEF loaded, f
  <2>6. ASSUME NEW c \in new PROVE c \in old \/ c = loaded
    <3>1. \/ \E i \in DOMAIN cache' : c = cache'[i].content
          \/ \E k \in Jobs : jobs'[k].pc \in Loading /\ c = jobs'[k].content
      BY DEF Contents
    <3> HIDE DEF new, old
    <3> QED BY <1>1, <1>2, <2>1, <2>4, <3>1
  <2> QED BY <2>3, <2>5, <2>6 DEF f
<1>15. ASSUME NEW j \in Jobs, ReadLong(j) PROVE Alike(new, old)
  <2> DEFINE read == LongRead(j)
  <2>1. jobs[j].pc = "long" /\ cache' = cache
    BY <1>15 DEF ReadLong
  <2>2. read.frame = jobs[j].content.frame /\ read.at = jobs[j].content.at
    BY <2>1, LongReadFacts DEF LiveInv
  <2>3. jobs'[j].content = read /\ \A k \in Jobs \ {j} : jobs'[k] = jobs[k]
    BY <1>0, <1>15, ReadLongSets DEF Sets, IsAJob
  <2> HIDE DEF read
  <2>4. ASSUME NEW c \in new PROVE \E b \in old : c.frame = b.frame /\ c.at = b.at
    <3>1. \/ \E i \in DOMAIN cache' : c = cache'[i].content
          \/ \E k \in Jobs : jobs'[k].pc \in Loading /\ c = jobs'[k].content
      BY DEF Contents
    <3>2. jobs[j].content \in old
      BY <1>2, <2>1 DEF Loading
    <3> HIDE DEF new, old
    <3>3. c \in old \/ c = read
      BY <1>1, <1>2, <2>1, <2>3, <3>1
    <3> QED BY <2>2, <3>2, <3>3
  <2> QED BY <2>4 DEF Alike
<1>16. ASSUME NEW j \in Jobs, ReadShort(j) PROVE Alike(new, old)
  <2> DEFINE content == Completed(j)
  <2>1. jobs[j].pc = "short" /\ cache' = Put(jobs[j].key, content)
    BY <1>16, ReadShortDoes
  <2>2. content.frame = jobs[j].content.frame /\ content.at = jobs[j].content.at
    BY <2>1, CompletedFacts DEF LiveInv
  <2> HIDE DEF content
  <2>3. \A i \in DOMAIN cache' :
          (\E k \in DOMAIN cache : cache'[i] = cache[k]) \/ cache'[i].content = content
    BY <2>1, PutFacts DEF LiveInv, CacheOK, EntryOK
  <2>4. \E pc, own, now, marker, s, key, result, c :
          pc \in {"done", "insert", "idle"} /\ Sets(j, pc, own, now, marker, s, key, result, c)
    BY <1>0, <1>16, ReadShortDoes, FinishIsQuiet
  <2>5. jobs'[j].pc \notin Loading /\ \A k \in Jobs \ {j} : jobs'[k] = jobs[k]
    BY <2>4 DEF Sets, IsAJob, Loading
  <2>6. ASSUME NEW c \in new PROVE \E b \in old : c.frame = b.frame /\ c.at = b.at
    <3>1. \/ \E i \in DOMAIN cache' : c = cache'[i].content
          \/ \E k \in Jobs : jobs'[k].pc \in Loading /\ c = jobs'[k].content
      BY DEF Contents
    <3> HIDE DEF new, old
    <3>2. c \in old \/ c = content
      BY <1>1, <1>2, <2>3, <2>5, <3>1
    <3> QED BY <1>2, <2>1, <2>2, <3>2 DEF Loading
  <2> QED BY <2>6 DEF Alike
<1>17. \/ \E j \in Jobs : LoadResults(j) \/ ReadLong(j) \/ ReadShort(j)
       \/ /\ cache' = cache
          /\ \/ jobs' = jobs \/ \E f \in Frames : Finalize(f)
             \/ RecoveryTakes \/ \E p \in Jobs : Stop(p) \/ Goto(p, "publish")
             \/ \E p \in Publishers : PublishCheck(p) \/ ReadMarker(p)
             \/ \E r \in Requests : Begin(r)
             \/ \E j \in Jobs : ReadFrames(j)
  BY <1>0 DEF Next, vars, Tick, Build, RecoveryLooks, Fails, Insert, Deliver, Edit, StartWalk,
              NextPage, PreviousSnapshot, Analyze, Finalize, RecoveryTakes, PublishCheck,
              ReadMarker, Begin, ReadFrames
<1>18. "publish" \notin Loading
  BY DEF Loading
<1> HIDE DEF old, new
<1>19. (\E j \in Jobs : LoadResults(j)) \/ Alike(new, old)
  BY <1>4, <1>6, <1>7, <1>8, <1>9, <1>10, <1>11, <1>12, <1>13, <1>15, <1>16, <1>17,
     <1>18
<1>20. \A j \in Jobs : LoadResults(j) =>
         /\ jobs[j].marker[1] \in Frames
         /\ \A c \in new : \/ c \in old
                           \/ /\ c.frame = jobs[j].marker[1]
                              /\ c.at = results[jobs[j].marker[1]].at
  BY <1>14
<1> QED BY <1>19, <1>20 DEF old, new

(* A request moves alone; others' steps leave it and what it saw.           *)
LEMMA RequestMoves ==
  ASSUME LiveInv, [Next]_vars, NEW r \in Requests
  PROVE  \/ /\ jobs'[r] = jobs[r] /\ seen'[r] = seen[r]
            /\ results' = results /\ held' = held /\ files' = files
         \/ \E p \in Publishers : Analyze(p)
         \/ \E contents : Edit(contents)
         \/ \E j \in Jobs : LoadResults(j)
         \/ Begin(r) \/ Deliver(r) \/ ReadFrames(r) \/ ReadLong(r) \/ ReadShort(r)
<1> DEFINE Kept == /\ jobs'[r] = jobs[r] /\ seen'[r] = seen[r]
                   /\ results' = results /\ held' = held /\ files' = files
<1> USE DEF Market
<1>0. /\ Requests \subseteq Jobs /\ Publishers \subseteq Jobs /\ "live" \in Publishers
      /\ "recovery" \in Publishers /\ JobsOK /\ SeenOK /\ r \in Jobs /\ r \notin Publishers
  BY LiveAssumption DEF Jobs, Publishers, LiveInv, BaseOK
<1>1. ASSUME NEW p \in Jobs, p # r, NEW pc, NEW own, NEW now, NEW marker,
             NEW stale, NEW key, NEW result, NEW content,
             Sets(p, pc, own, now, marker, stale, key, result, content)
      PROVE  jobs'[r] = jobs[r]
  BY <1>0, <1>1 DEF Sets
<1>2. ASSUME NEW f \in Frames, Finalize(f) PROVE jobs'[r] = jobs[r]
  BY <1>0, <1>1, <1>2, FinalizeSets
<1>3. ASSUME RecoveryTakes PROVE jobs'[r] = jobs[r]
  BY <1>0, <1>1, <1>3, RecoveryTakesSets
<1>4. ASSUME NEW p \in Jobs, p # r, Stop(p) PROVE jobs'[r] = jobs[r]
  BY <1>0, <1>1, <1>4, StopSets
<1>5. ASSUME NEW p \in Publishers, PublishCheck(p) PROVE jobs'[r] = jobs[r]
  <2>1. CASE Analyzed # {} /\ Max(Analyzed) = jobs[p].own
    BY <1>0, <1>1, <1>5, <2>1, PublishCheckSets
  <2>2. CASE ~(Analyzed # {} /\ Max(Analyzed) = jobs[p].own)
    BY <1>0, <1>1, <1>5, <2>2, PublishCheckSets
  <2> QED BY <2>1, <2>2
<1>6. ASSUME NEW p \in Publishers, ReadMarker(p) PROVE jobs'[r] = jobs[r]
  BY <1>0, <1>1, <1>6, ReadMarkerSets
<1>7. ASSUME NEW q \in Requests, q # r, Begin(q)
      PROVE  jobs'[r] = jobs[r] /\ seen'[r] = seen[r]
  <2>1. jobs'[r] = jobs[r]
    <3>1. CASE Analyzed = {}
      BY <1>0, <1>1, <1>7, <3>1, BeginSets
    <3>2. CASE Analyzed # {}
      BY <1>0, <1>1, <1>7, <3>2, BeginSets
    <3> QED BY <3>1, <3>2
  <2>2. \E s : seen' = [seen EXCEPT ![q] = s]
    BY <1>7 DEF Begin
  <2> QED BY <1>0, <1>7, <2>1, <2>2 DEF SeenOK
<1>8. ASSUME NEW q \in Requests, q # r, Deliver(q)
      PROVE  jobs'[r] = jobs[r] /\ seen'[r] = seen[r]
  <2>1. jobs'[r] = jobs[r] /\ seen' = [seen EXCEPT ![q] = NothingSeen]
    BY <1>0, <1>4, <1>8 DEF Deliver
  <2> QED BY <1>0, <1>8, <2>1 DEF SeenOK
<1>9. ASSUME NEW j \in Jobs, j # r, NEW stale, NEW content, Finish(j, stale, content)
      PROVE  jobs'[r] = jobs[r]
  BY <1>0, <1>1, <1>9, FinishIsQuiet
<1>10. ASSUME NEW j \in Jobs, j # r, ReadFrames(j) PROVE jobs'[r] = jobs[r]
  <2> DEFINE key == Key(jobs[j].marker)
             stale == Stale(jobs[j].marker[1], Max(FinalizedFrames), jobs[j].now)
  <2>1. CASE Cached(key) # {}
    <3>1. Finish(j, stale, cache[Min(Cached(key))].content)
      BY <1>0, <1>10, <2>1, ReadFramesSets
    <3> QED BY <1>9, <1>10, <3>1
  <2>2. CASE Cached(key) = {}
    BY <1>0, <1>1, <1>10, <2>2, ReadFramesSets
  <2> QED BY <2>1, <2>2
<1>11. ASSUME NEW j \in Jobs, j # r, ReadLong(j) \/ ReadShort(j) PROVE jobs'[r] = jobs[r]
  BY <1>0, <1>1, <1>9, <1>11, ReadLongSets, ReadShortDoes
<1>12. CASE /\ seen' = seen /\ results' = results /\ held' = held /\ files' = files
            /\ \/ jobs' = jobs
               \/ \E f \in Frames : Finalize(f)
               \/ RecoveryTakes
               \/ \E p \in Publishers : Stop(p) \/ PublishCheck(p) \/ ReadMarker(p)
               \/ \E j \in Jobs : ReadFrames(j) \/ ReadLong(j) \/ ReadShort(j)
  <2>1. jobs'[r] = jobs[r] \/ ReadFrames(r) \/ ReadLong(r) \/ ReadShort(r)
    BY <1>0, <1>2, <1>3, <1>4, <1>5, <1>6, <1>10, <1>11, <1>12
  <2> QED BY <1>12, <2>1
<1>13. CASE \E q \in Requests : Begin(q) \/ Deliver(q)
  <2>1. results' = results /\ held' = held /\ files' = files
    BY <1>13 DEF Begin, Deliver
  <2> QED BY <1>7, <1>8, <1>13, <2>1
<1>14. \/ /\ seen' = seen /\ results' = results /\ held' = held /\ files' = files
          /\ \/ jobs' = jobs
             \/ \E f \in Frames : Finalize(f)
             \/ RecoveryTakes
             \/ \E p \in Publishers : Stop(p) \/ PublishCheck(p) \/ ReadMarker(p)
             \/ \E j \in Jobs : ReadFrames(j) \/ ReadLong(j) \/ ReadShort(j)
       \/ \E q \in Requests : Begin(q) \/ Deliver(q)
       \/ \E p \in Publishers : Analyze(p)
       \/ \E contents : Edit(contents)
       \/ \E j \in Jobs : LoadResults(j)
  BY DEF Next, vars, Tick, Build, Finalize, RecoveryLooks, RecoveryTakes, Fails, Insert,
         PublishCheck, ReadMarker, ReadFrames, ReadLong, ReadShort, StartWalk, NextPage,
         PreviousSnapshot
<1> QED BY <1>12, <1>13, <1>14

(* A request that begins sees the newest frame's result; whatever is kept of *)
(* it later is that one, or is of a later analysis.                         *)
LEMMA BeginIsHonest ==
  ASSUME LiveInv, [Next]_vars, NEW r \in Requests, Begin(r),
         Alike(Contents(cache', jobs'), Contents(cache, jobs))
  PROVE  RequestOK(jobs'[r], seen'[r], results, held, files, Contents(cache', jobs'), frames')
<1> DEFINE f == Max(Analyzed)
           x == jobs'[r]
           s == seen'[r]
           given == Contents(cache', jobs')
<1>0. JobsOK /\ ResultsOK /\ SeenOK /\ r \in Jobs /\ CacheOK /\ AllJobsOK
  BY DEF LiveInv, BaseOK, Jobs
<1>1. CASE Analyzed = {}
  <2>1. x.pc = "idle"
    BY <1>0, <1>1, BeginSets DEF Sets, IsAJob
  <2> QED BY <2>1 DEF RequestOK, Reading
<1>2. CASE Analyzed # {}
  <2>1. x.pc = "frames" /\ x.marker = Marker
    BY <1>0, <1>2, BeginSets DEF Sets, IsAJob
  <2>2. /\ f \in Frames /\ results[f] # None /\ results[f].frame = f /\ results[f].at \in Nat
        /\ Marker[1] = f /\ Marker[2] = results[f].at
    BY <1>0, <1>2, AnalyzedFacts
  <2>3. f \in Analyzed
    BY <2>2 DEF Analyzed
  <2>4. s = [newest |-> f, files |-> {files}, results |-> {results[g] : g \in Analyzed \cap {f}}]
    <3>1. seen' = [seen EXCEPT ![r] = [newest |-> f, files |-> {files},
                                       results |-> {results[g] : g \in Analyzed \cap {f}}]]
      BY <1>2 DEF Begin
    <3> QED BY <1>0, <3>1 DEF SeenOK
  <2> HIDE DEF f, x, s, given
  <2>5. s.newest = f /\ files \in s.files /\ results[f] \in s.results
    BY <2>3, <2>4
  <2>6. Knows(s, f, results[f].at)
    BY <2>2, <2>5 DEF Knows
  <2>7. ASSUME NEW c \in given, c.frame = f, results[f].at <= c.at
        PROVE  Knows(s, c.frame, c.at)
    <3>1. PICK b \in Contents(cache, jobs) : c.frame = b.frame /\ c.at = b.at
      BY DEF given, Alike
    <3>2. IsStored(b, results)
      <4>1. ASSUME NEW i \in DOMAIN cache PROVE IsStored(cache[i].content, results)
        BY <1>0 DEF CacheOK, EntryOK
      <4>2. ASSUME NEW j \in Jobs, jobs[j].pc \in Loading
            PROVE  IsStored(jobs[j].content, results)
        BY <1>0, <4>2 DEF AllJobsOK, JobOK
      <4> QED BY <4>1, <4>2 DEF Contents
    <3>3. c.at = results[f].at
      BY <2>2, <2>7, <3>1, <3>2 DEF IsStored
    <3> QED BY <2>6, <2>7, <3>3
  <2> QED BY <2>1, <2>2, <2>5, <2>6, <2>7 DEF RequestOK, Reading, x, s, given
<1> QED BY <1>1, <1>2

(* A request is answered with what it found in the cache or made itself.     *)
LEMMA AnswerIsHonest ==
  ASSUME JobsOK, FramesKept, NEW r \in Requests, NEW stale, NEW content, Finish(r, stale, content),
         seen'[r] = seen[r], NEW given,
         content.frame \in Frames, frames[content.frame].members # {},
         IsContent(content),
         ~stale => jobs[r].now <= BaseDuration * (content.frame + 1) + Allowance,
         Knows(seen[r], content.frame, content.at),
         IsInjective(held) => \A d \in Directions : \E c, q \in seen[r].files :
                                Made(content.ranking[d], d, c, q, content.frame)
  PROVE  RequestOK(jobs'[r], seen'[r], results, held, files, given, frames')
<1> DEFINE answer == Respond(content, stale, Completeness(content.frame))
           x == jobs'[r]
<1>1. x.pc = "done" /\ x.now = jobs[r].now /\ x.content = answer
  <2>1. r \in Jobs
    BY DEF Jobs
  <2>2. Sets(r, "done", None, jobs[r].now, None, FALSE, None, None, answer)
    BY <2>1, FinishSets
  <2> HIDE DEF answer
  <2> QED BY <2>2 DEF Sets, IsAJob
<1>2. answer.frame = content.frame
  BY RespondFacts
<1>3. frames'[content.frame] = frames[content.frame]
  BY DEF FramesKept
<1>4. \E result \in seen[r].results : result.frame = content.frame /\ result.at = content.at
  BY DEF Knows
<1>5. IsInjective(held) =>
        Current(answer, jobs[r].now, seen[r].results, seen[r].files, frames[content.frame].members)
  BY <1>4, ContentAnswers
<1> HIDE DEF answer, x
<1>6. x.content.frame \in Frames /\ frames'[x.content.frame].members # {}
  BY <1>1, <1>2, <1>3
<1>7. IsInjective(held) => Current(x.content, x.now, seen'[r].results, seen'[r].files,
                                   frames'[x.content.frame].members)
  BY <1>1, <1>2, <1>3, <1>5
<1> QED BY <1>1, <1>6, <1>7 DEF RequestOK, Reading, x

LEMMA ReadFramesIsHonest ==
  ASSUME LiveInv, [Next]_vars, NEW r \in Requests, ReadFrames(r),
         Alike(Contents(cache', jobs'), Contents(cache, jobs))
  PROVE  RequestOK(jobs'[r], seen'[r], results, held, files, Contents(cache', jobs'), frames')
<1> DEFINE key == Key(jobs[r].marker)
           newest == Max(FinalizedFrames)
           stale == Stale(jobs[r].marker[1], newest, jobs[r].now)
           x == jobs[r]
           s == seen[r]
<1>0. /\ JobsOK /\ ResultsOK /\ SeenOK /\ r \in Jobs /\ CacheOK /\ AllJobsOK /\ FramesKept
      /\ HeldOK
  BY BaseStep DEF LiveInv, BaseOK, Jobs
<1>1. x.pc = "frames" /\ seen' = seen
  BY DEF ReadFrames
<1>2. RequestOK(x, s, results, held, files, Contents(cache, jobs), frames)
  BY DEF LiveInv, RequestsOK
<1>3. IsMarker(x.marker, results)
  BY <1>0, <1>1 DEF AllJobsOK, JobOK, Reading
<1>4. CASE Cached(key) # {}
  <2> DEFINE i == Min(Cached(key))
             content == cache[i].content
  <2>1. i \in DOMAIN cache /\ cache[i].key = key
    <3>1. /\ Cached(key) \subseteq DOMAIN cache /\ DOMAIN cache = 1 .. Len(cache)
          /\ Len(cache) \in Nat
      BY <1>0, LenProperties DEF Cached, CacheOK, IsASequence
    <3>2. IsFiniteSet(DOMAIN cache) /\ DOMAIN cache \subseteq Int
      BY <3>1, FS_Interval
    <3>3. IsFiniteSet(Cached(key)) /\ Cached(key) \subseteq Int
      BY <3>1, <3>2, FS_Subset
    <3>4. Min(Cached(key)) \in Cached(key)
      BY <1>4, <3>3, MinMaxFacts
    <3> QED BY <3>4 DEF Cached
  <2>2. Finish(r, stale, content)
    BY <1>0, <1>4, ReadFramesSets
  <2>3. EntryOK(cache[i], results, held, files)
    BY <1>0, <2>1 DEF CacheOK
  <2>4. cache[i].key[1] = x.marker /\ cache[i].key[2] = files
    BY <2>1 DEF Key
  <2>5. content \in Contents(cache, jobs)
    BY <2>1 DEF Contents
  <2> HIDE DEF i, x, s, key
  <2>6. /\ content.frame = x.marker[1] /\ x.marker[2] <= content.at
        /\ IsContent(content) /\ IsStored(content, results)
        /\ IsInjective(held) =>
             \A d \in Directions : Made(content.ranking[d], d, files, files, content.frame)
    BY <2>3, <2>4 DEF EntryOK
  <2> HIDE DEF content, stale
  <2>7. Knows(s, content.frame, content.at) /\ files \in s.files
    BY <1>1, <1>2, <2>5, <2>6 DEF RequestOK, Reading, x
  <2>8. content.frame \in Frames /\ frames[content.frame].members # {}
    BY <1>0, <2>6 DEF IsStored, ResultsOK
  <2>9. ~stale => x.now <= BaseDuration * (content.frame + 1) + Allowance
    <3>1. x.now \in Nat /\ x.marker[1] \in Frames
      BY <1>0, <1>3 DEF JobsOK, IsMarker, x
    <3>2. ~stale => x.now <= BaseDuration * (x.marker[1] + 1) + Allowance
      BY <3>1, StaleFacts DEF stale, x
    <3> QED BY <2>6, <3>2
  <2>10. IsInjective(held) => \A d \in Directions : \E c, q \in s.files :
                                Made(content.ranking[d], d, c, q, content.frame)
    BY <2>6, <2>7
  <2> QED BY <1>0, <1>1, <2>2, <2>6, <2>7, <2>8, <2>9, <2>10, AnswerIsHonest DEF x, s
<1>5. CASE Cached(key) = {}
  <2> DEFINE y == jobs'[r]
  <2>1. y.pc = "load" /\ y.marker = x.marker
    BY <1>0, <1>5, ReadFramesSets DEF Sets, IsAJob
  <2> HIDE DEF x, y, s
  <2>2. /\ s.newest = x.marker[1] /\ files \in s.files
        /\ Knows(s, x.marker[1], results[x.marker[1]].at)
        /\ \A c \in Contents(cache, jobs) :
             c.frame = x.marker[1] /\ x.marker[2] <= c.at => Knows(s, c.frame, c.at)
    BY <1>1, <1>2 DEF RequestOK, Reading
  <2>3. \A c \in Contents(cache', jobs') :
             c.frame = x.marker[1] /\ x.marker[2] <= c.at => Knows(s, c.frame, c.at)
    BY <2>2 DEF Alike
  <2>4. RequestOK(y, s, results, held, files, Contents(cache', jobs'), frames')
    BY <2>1, <2>2, <2>3 DEF RequestOK, Reading
  <2> QED BY <1>1, <2>4 DEF y, s
<1> QED BY <1>4, <1>5

LEMMA ReadLongIsHonest ==
  ASSUME LiveInv, [Next]_vars, NEW r \in Requests, ReadLong(r),
         Alike(Contents(cache', jobs'), Contents(cache, jobs))
  PROVE  RequestOK(jobs'[r], seen'[r], results, held, files, Contents(cache', jobs'), frames')
<1> DEFINE x == jobs[r]
           y == jobs'[r]
           s == seen[r]
           f == x.content.frame
           read == LongRead(r)
           given == Contents(cache', jobs')
<1>0. JobsOK /\ r \in Jobs /\ AllJobsOK
  BY DEF LiveInv, BaseOK, Jobs
<1>1. x.pc = "long" /\ seen' = seen
  BY DEF ReadLong
<1>2. RequestOK(x, s, results, held, files, Contents(cache, jobs), frames)
  BY DEF LiveInv, RequestsOK
<1>3. y.pc = "short" /\ y.marker = x.marker /\ y.content = read
  BY <1>0, ReadLongSets DEF Sets, IsAJob
<1>4. /\ read.frame = f
      /\ \A c : Ranked(x.content.ranking["long"], "long", c, f)
                => Made(read.ranking["long"], "long", c, files, f)
      /\ Ranked(read.ranking["short"], "short", files, f)
  BY <1>0, <1>1, LongReadFacts
<1> HIDE DEF x, y, s, read, given
<1>5. /\ s.newest = x.marker[1] /\ files \in s.files
      /\ Knows(s, x.marker[1], results[x.marker[1]].at)
      /\ \A c \in Contents(cache, jobs) :
           c.frame = x.marker[1] /\ x.marker[2] <= c.at => Knows(s, c.frame, c.at)
  BY <1>1, <1>2 DEF RequestOK, Reading
<1>6. \A c \in given :
           c.frame = x.marker[1] /\ x.marker[2] <= c.at => Knows(s, c.frame, c.at)
  BY <1>5 DEF Alike, given
<1>7. PICK c \in s.files : Ranked(x.content.ranking["long"], "long", c, f)
  BY <1>1, <1>2 DEF RequestOK
<1>8. /\ Made(y.content.ranking["long"], "long", c, files, y.content.frame)
      /\ Ranked(y.content.ranking["short"], "short", files, y.content.frame)
  BY <1>3, <1>4, <1>7
<1>9. RequestOK(y, s, results, held, files, given, frames')
  BY <1>3, <1>5, <1>6, <1>8 DEF RequestOK
<1> QED BY <1>1, <1>9 DEF y, s, given

LEMMA ReadShortIsHonest ==
  ASSUME LiveInv, [Next]_vars, NEW r \in Requests, ReadShort(r)
  PROVE  RequestOK(jobs'[r], seen'[r], results, held, files, Contents(cache', jobs'), frames')
<1> DEFINE content == Completed(r)
           x == jobs[r]
           s == seen[r]
<1>0. /\ JobsOK /\ ResultsOK /\ SeenOK /\ r \in Jobs /\ AllJobsOK /\ FramesKept
  BY BaseStep DEF LiveInv, BaseOK, Jobs
<1>1. x.pc = "short" /\ seen' = seen /\ Finish(r, x.stale, content)
  BY <1>0, ReadShortDoes DEF ReadShort
<1>2. RequestOK(x, s, results, held, files, Contents(cache, jobs), frames)
  BY DEF LiveInv, RequestsOK
<1>3. JobOK(x, results, held, files)
  BY <1>0 DEF AllJobsOK
<1>4. /\ IsContent(content) /\ content.frame = x.content.frame /\ content.at = x.content.at
      /\ content.ranking["long"] = x.content.ranking["long"]
      /\ \A c : Ranked(x.content.ranking["short"], "short", c, x.content.frame)
                => Made(content.ranking["short"], "short", c, files, x.content.frame)
  BY <1>0, <1>1, CompletedFacts
<1>5. x.content \in Contents(cache, jobs)
  BY <1>0, <1>1 DEF Contents, Loading
<1> HIDE DEF x, s, content
<1>6. /\ IsStored(x.content, results) /\ x.content.frame = x.marker[1]
      /\ x.marker[2] <= x.content.at
      /\ ~x.stale => x.now <= BaseDuration * (x.marker[1] + 1) + Allowance
  BY <1>1, <1>3 DEF JobOK, Loading
<1>7. Knows(s, content.frame, content.at) /\ files \in s.files
  BY <1>1, <1>2, <1>4, <1>5, <1>6 DEF RequestOK, Reading
<1>8. content.frame \in Frames /\ frames[content.frame].members # {}
  BY <1>0, <1>4, <1>6 DEF IsStored, ResultsOK
<1>9. /\ \E c, q \in s.files : Made(x.content.ranking["long"], "long", c, q, x.content.frame)
      /\ \E c \in s.files : Ranked(x.content.ranking["short"], "short", c, x.content.frame)
  BY <1>1, <1>2 DEF RequestOK
<1>10. ASSUME NEW d \in Directions
       PROVE  \E c1, q1 \in s.files : Made(content.ranking[d], d, c1, q1, content.frame)
  BY <1>4, <1>7, <1>9 DEF Directions
<1>11. ~x.stale => x.now <= BaseDuration * (content.frame + 1) + Allowance
  BY <1>4, <1>6
<1> QED BY <1>0, <1>1, <1>4, <1>7, <1>8, <1>10, <1>11, AnswerIsHonest DEF x, s

LEMMA LoadIsHonest ==
  ASSUME LiveInv, [Next]_vars, NEW r \in Requests, NEW j \in Jobs, LoadResults(j),
         jobs[j].marker[1] \in Frames,
         \A c \in Contents(cache', jobs') :
            \/ c \in Contents(cache, jobs)
            \/ c.frame = jobs[j].marker[1] /\ c.at = results[jobs[j].marker[1]].at
  PROVE  RequestOK(jobs'[r], seen'[r], results, held, files, Contents(cache', jobs'), frames')
<1> DEFINE x == jobs[r]
           y == jobs'[r]
           s == seen[r]
           f == jobs[j].marker[1]
           given == Contents(cache', jobs')
<1>0. JobsOK /\ ResultsOK /\ r \in Jobs /\ FramesKept /\ AllJobsOK
  BY BaseStep DEF LiveInv, BaseOK, Jobs
<1>1. RequestOK(x, s, results, held, files, Contents(cache, jobs), frames)
  BY DEF LiveInv, RequestsOK
<1>2. seen' = seen /\ jobs[j].pc = "load"
  BY DEF LoadResults
<1>3. ASSUME x.pc \in Reading
      PROVE  \A c \in given : c.frame = x.marker[1] /\ x.marker[2] <= c.at
                                => Knows(s, c.frame, c.at)
  <2> HIDE DEF x, s, f
  <2>1. /\ Knows(s, x.marker[1], results[x.marker[1]].at)
        /\ \A c \in Contents(cache, jobs) :
             c.frame = x.marker[1] /\ x.marker[2] <= c.at => Knows(s, c.frame, c.at)
    BY <1>1, <1>3 DEF RequestOK
  <2> QED BY <2>1 DEF f
<1>4. CASE r # j
  <2>1. y = x
    BY <1>0, <1>4, LoadResultsSets DEF Sets
  <2>2. x.pc = "done" => frames'[x.content.frame] = frames[x.content.frame]
    BY <1>0, <1>1 DEF RequestOK, FramesKept
  <2> HIDE DEF x, y, s, given
  <2>3. RequestOK(y, s, results, held, files, given, frames')
    BY <1>1, <1>3, <2>1, <2>2 DEF RequestOK
  <2> QED BY <1>2, <2>3 DEF y, s, given
<1>5. CASE r = j
  <2>1. y.pc = "long" /\ y.marker = x.marker /\ y.content = Loaded(results[f])
    BY <1>0, <1>5, LoadResultsSets DEF Sets, IsAJob
  <2>2. results[f].frame = f
    <3>1. IsMarker(jobs[j].marker, results)
      BY <1>0, <1>2 DEF AllJobsOK, JobOK, Reading
    <3> QED BY <1>0, <3>1 DEF IsMarker, ResultsOK
  <2>3. y.content.frame = f /\ Ranked(y.content.ranking["long"], "long", files, y.content.frame)
    BY <2>1, <2>2 DEF Loaded, Ranked
  <2>4. x.pc \in Reading
    BY <1>2, <1>5 DEF Reading
  <2> HIDE DEF x, y, s, given
  <2>5. /\ s.newest = x.marker[1] /\ files \in s.files
        /\ Knows(s, x.marker[1], results[x.marker[1]].at)
    BY <1>1, <2>4 DEF RequestOK
  <2>6. RequestOK(y, s, results, held, files, given, frames')
    BY <1>3, <2>1, <2>3, <2>4, <2>5 DEF RequestOK
  <2> QED BY <1>2, <2>6 DEF y, s, given
<1> QED BY <1>4, <1>5

(* What a running request notes adds to what it noted before.              *)
LEMMA WitnessAdds ==
  ASSUME SeenOK, NEW stored, NEW contents, Witness(stored, contents), NEW r \in Requests,
         jobs[r].pc \notin {"idle", "done"}
  PROVE  /\ seen'[r].newest = seen[r].newest
         /\ seen[r].results \subseteq seen'[r].results
         /\ \A y \in stored : y.frame >= seen[r].newest => y \in seen'[r].results
         /\ seen[r].files \subseteq seen'[r].files /\ contents \subseteq seen'[r].files
BY WitnessFacts

(* A stored result is noted by every request that could be given it.        *)
LEMMA AnalyzeIsHonest ==
  ASSUME LiveInv, [Next]_vars, NEW r \in Requests, NEW p \in Publishers, Analyze(p),
         Alike(Contents(cache', jobs'), Contents(cache, jobs))
  PROVE  RequestOK(jobs'[r], seen'[r], results', held, files, Contents(cache', jobs'), frames')
<1> DEFINE x == jobs[r]
           s == seen[r]
           t == seen'[r]
           given == Contents(cache', jobs')
           f == jobs[p].own
           result == [frame |-> f, at |-> bounds.analyses + 1, analysis |-> p]
<1>0. /\ JobsOK /\ ResultsOK /\ SeenOK /\ OwnOK /\ r \in Jobs /\ FramesKept /\ AllJobsOK
      /\ p \in Jobs /\ r # p
  BY BaseStep, LiveAssumption DEF LiveInv, BaseOK, Jobs, Publishers
<1>1. RequestOK(x, s, results, held, files, Contents(cache, jobs), frames)
  BY DEF LiveInv, RequestsOK
<1>2. jobs'[r] = x /\ frames' = frames /\ f \in Frames
  BY <1>0, GotoSets DEF Analyze, Sets, Market, OwnOK
<1>3. RequestOK(x, s, results, held, files, given, frames)
  BY <1>0, <1>1, <1>2, RequestStays
<1>4. CASE results' = results /\ seen' = seen
  BY <1>2, <1>3, <1>4
<1>5. CASE results' = [results EXCEPT ![f] = result] /\ Witness({result}, {})
  <2>1. result.frame = f /\ result.at = bounds.analyses + 1
    OBVIOUS
  <2>2. /\ results'[f] = result /\ \A g \in Frames \ {f} : results'[g] = results[g]
    BY <1>0, <1>2, <1>5 DEF ResultsOK
  <2>3. CASE x.pc \in {"idle", "done"}
    <3>1. t = s
      BY <1>0, <1>5, <2>3, WitnessFacts
    <3>2. x.pc \notin Reading /\ x.pc # "long" /\ x.pc # "short"
      BY <2>3 DEF Reading
    <3> HIDE DEF x, s, t, given
    <3>3. RequestOK(x, t, results', held, files, given, frames)
      BY <1>3, <3>1, <3>2 DEF RequestOK
    <3> QED BY <1>2, <3>3 DEF t, given
  <2>4. CASE x.pc \notin {"idle", "done"}
    <3> HIDE DEF result, given
    <3>1. /\ t.newest = s.newest
          /\ s.results \subseteq t.results /\ s.files \subseteq t.files
          /\ result.frame >= s.newest => result \in t.results
      BY <1>0, <1>5, <2>4, WitnessAdds
    <3> HIDE DEF x, s, t
    <3>2. s.results \subseteq t.results /\ s.files \subseteq t.files
      BY <3>1
    <3>3. \A g, a : Knows(s, g, a) => Knows(t, g, a)
      BY <3>2 DEF Knows
    <3>4. ASSUME x.pc \in Reading
          PROVE  /\ t.newest = x.marker[1] /\ files \in t.files
                 /\ Knows(t, x.marker[1], results'[x.marker[1]].at)
                 /\ \A c \in given : c.frame = x.marker[1] /\ x.marker[2] <= c.at
                                       => Knows(t, c.frame, c.at)
      <4>1. /\ s.newest = x.marker[1] /\ files \in s.files
            /\ Knows(s, x.marker[1], results[x.marker[1]].at)
            /\ \A c \in given : c.frame = x.marker[1] /\ x.marker[2] <= c.at
                                  => Knows(s, c.frame, c.at)
        BY <1>3, <3>4 DEF RequestOK
      <4>2. x.marker[1] \in Frames
        BY <1>0, <3>4 DEF AllJobsOK, JobOK, IsMarker, x
      <4>3. Knows(t, x.marker[1], results'[x.marker[1]].at)
        <5>1. CASE x.marker[1] = f
          <6>1. f >= s.newest
            BY <4>1, <4>2, <5>1 DEF Frames
          <6>2. result \in t.results
            BY <2>1, <3>1, <6>1
          <6> QED BY <2>1, <2>2, <5>1, <6>2 DEF Knows
        <5>2. CASE x.marker[1] # f
          BY <2>2, <3>3, <4>1, <4>2, <5>2
        <5> QED BY <5>1, <5>2
      <4> QED BY <3>1, <3>2, <3>3, <4>1, <4>3
    <3>5. RequestOK(x, t, results', held, files, given, frames)
      BY <1>3, <2>4, <3>2, <3>4 DEF RequestOK
    <3> QED BY <1>2, <3>5 DEF t, given
  <2> QED BY <2>3, <2>4
<1>6. \/ results' = results /\ seen' = seen
      \/ results' = [results EXCEPT ![f] = result] /\ Witness({result}, {})
  BY DEF Analyze
<1> QED BY <1>4, <1>5, <1>6

(* Other files are noted by every request that may read them.               *)
LEMMA EditIsHonest ==
  ASSUME LiveInv, [Next]_vars, NEW r \in Requests, NEW contents, Edit(contents),
         Alike(Contents(cache', jobs'), Contents(cache, jobs))
  PROVE  RequestOK(jobs'[r], seen'[r], results, held', files', Contents(cache', jobs'), frames')
<1> DEFINE x == jobs[r]
           s == seen[r]
           t == seen'[r]
           given == Contents(cache', jobs')
<1>0. /\ SeenOK /\ FramesKept /\ FilesGrown(held, files, held', files')
  BY BaseStep DEF LiveInv, BaseOK
<1>1. RequestOK(x, s, results, held, files, Contents(cache, jobs), frames)
  BY DEF LiveInv, RequestsOK
<1>2. jobs' = jobs /\ frames' = frames /\ files' = contents /\ Witness({}, {contents})
  BY DEF Edit
<1>3. RequestOK(x, s, results, held, files, given, frames)
  BY <1>0, <1>1, <1>2, RequestStays
<1>4. IsInjective(held') => IsInjective(held)
  BY <1>0 DEF FilesGrown
<1>5. CASE x.pc \in {"idle", "done"}
  <2>1. t = s
    BY <1>0, <1>2, <1>5, WitnessFacts
  <2>2. x.pc \notin Reading /\ x.pc # "long" /\ x.pc # "short"
    BY <1>5 DEF Reading
  <2> HIDE DEF x, s, t, given
  <2>3. RequestOK(x, t, results, held', files', given, frames)
    BY <1>3, <1>4, <2>1, <2>2 DEF RequestOK
  <2> QED BY <1>2, <2>3 DEF t, given, x
<1>6. CASE x.pc \notin {"idle", "done"}
  <2>1. /\ t.newest = s.newest
        /\ s.results \subseteq t.results /\ s.files \subseteq t.files
        /\ contents \in t.files
    BY <1>0, <1>2, <1>6, WitnessAdds
  <2> HIDE DEF x, s, t, given
  <2>2. s.files \subseteq t.files /\ files' \in t.files /\ s.results \subseteq t.results
    BY <1>2, <2>1
  <2>3. \A g, a : Knows(s, g, a) => Knows(t, g, a)
    BY <2>2 DEF Knows
  <2>4. RequestOK(x, t, results, held', files', given, frames)
    BY <1>3, <1>6, <2>1, <2>2, <2>3 DEF RequestOK
  <2> QED BY <1>2, <2>4 DEF t, given, x
<1> QED BY <1>5, <1>6

LEMMA RequestsStep ==
  ASSUME LiveInv, [Next]_vars
  PROVE  RequestsOK'
<1> DEFINE given == Contents(cache', jobs')
           Honest(r) == RequestOK(jobs'[r], seen'[r], results', held', files', given, frames')
<1>0. /\ JobsOK /\ SeenOK /\ FramesKept /\ Requests \subseteq Jobs
  BY BaseStep DEF LiveInv, BaseOK, Jobs
<1>1. ASSUME NEW r \in Requests, NEW j \in Jobs, LoadResults(j) PROVE Honest(r)
  <2>1. results' = results /\ held' = held /\ files' = files
    BY <1>1 DEF LoadResults, Market
  <2> HIDE DEF given
  <2>2. RequestOK(jobs'[r], seen'[r], results, held, files, given, frames')
    BY <1>1, ContentsStep, LoadIsHonest DEF given
  <2> QED BY <2>1, <2>2
<1>2. CASE \E j \in Jobs : LoadResults(j)
  BY <1>1, <1>2 DEF RequestsOK
<1>3. CASE ~\E j \in Jobs : LoadResults(j)
  <2>1. Alike(Contents(cache', jobs'), Contents(cache, jobs))
    BY <1>3, ContentsStep
  <2>2. ASSUME NEW r \in Requests, jobs'[r] = jobs[r], seen'[r] = seen[r],
               results' = results, held' = held, files' = files
        PROVE  Honest(r)
    <3>1. RequestOK(jobs[r], seen[r], results, held, files, Contents(cache, jobs), frames)
      BY DEF LiveInv, RequestsOK
    <3>2. RequestOK(jobs[r], seen[r], results, held, files, given, frames')
      BY <1>0, <2>1, <3>1, RequestStays
    <3> QED BY <2>2, <3>2
  <2>3. ASSUME NEW r \in Requests, NEW p \in Publishers, Analyze(p) PROVE Honest(r)
    <3>1. held' = held /\ files' = files
      BY <2>3 DEF Analyze, Market
    <3> QED BY <2>1, <2>3, <3>1, AnalyzeIsHonest
  <2>4. ASSUME NEW r \in Requests, NEW contents, Edit(contents) PROVE Honest(r)
    <3>1. results' = results
      BY <2>4 DEF Edit
    <3> QED BY <2>1, <2>4, <3>1, EditIsHonest
  <2>5. ASSUME NEW r \in Requests, Begin(r) \/ ReadFrames(r) \/ ReadLong(r) \/ ReadShort(r)
        PROVE  Honest(r)
    <3>1. results' = results /\ held' = held /\ files' = files
      BY <2>5 DEF Begin, ReadFrames, ReadLong, ReadShort, Market
    <3> QED BY <2>1, <2>5, <3>1, BeginIsHonest, ReadFramesIsHonest, ReadLongIsHonest,
             ReadShortIsHonest
  <2>6. ASSUME NEW r \in Requests, Deliver(r) PROVE Honest(r)
    <3>1. jobs'[r].pc = "idle"
      BY <1>0, <2>6, StopSets DEF Deliver, Sets, IsAJob
    <3> QED BY <3>1 DEF RequestOK, Reading
  <2> HIDE DEF Honest
  <2>7. \A r \in Requests : Honest(r)
    BY <1>3, <2>2, <2>3, <2>4, <2>5, <2>6, RequestMoves
  <2> QED BY <2>7 DEF Honest, RequestsOK
<1> QED BY <1>2, <1>3

LEMMA LiveInit ==
  ASSUME Init
  PROVE  LiveInv
<1>1. BaseOK
  BY JobsInit, FramesInit, OwnInit, ResultsInit, HeldInit, SeenInit DEF BaseOK
<1>2. CacheOK
  BY DEF Init, CacheOK, IsASequence
<1>3. \A j \in Jobs : jobs[j].pc = "idle"
  BY DEF Init, Idle
<1>4. AllJobsOK
  BY <1>3, QuietJob DEF AllJobsOK
<1>5. RequestsOK
  BY <1>3 DEF RequestsOK, RequestOK, Reading, Jobs
<1> QED BY <1>1, <1>2, <1>4, <1>5 DEF LiveInv

LEMMA LiveStep ==
  ASSUME LiveInv, [Next]_vars
  PROVE  LiveInv'
BY BaseStep, CacheStep, AllJobsStep, RequestsStep DEF LiveInv

(* While no files went back to earlier contents, a request's answer is of a *)
(* frame and an analysis of it that were stored while it ran, its rankings   *)
(* and Truffles are those of files that were there while it ran, and it     *)
(* shows Truffles only of a frame whose successor was not due: a kept       *)
(* content never outlives the analysis or the files it was made from        *)
(* (live_rankings, _SNAPSHOTS), for any number of requests, any cache size   *)
(* and any markets.                                                         *)
THEOREM AnswersAreCurrent == Spec => ServedCurrent
<1> DEFINE Delivered == \A r \in Requests :
              jobs[r].pc = "done" /\ jobs'[r].pc = "idle" /\ ~Reverted => AnswerIsCurrent(r)
<1>1. Init => LiveInv
  BY LiveInit
<1>2. LiveInv /\ [Next]_vars => LiveInv'
  BY LiveStep
<1>3. LiveInv => Delivered
  BY CurrentMeans DEF LiveInv, RequestsOK, RequestOK, Reverted
<1>4. LiveInv /\ [Next]_vars => [Delivered]_jobs
  BY <1>3
<1> QED BY <1>1, <1>2, <1>4, PTL DEF Spec, ServedCurrent

-----------------------------------------------------------------------------
(* Four reads of the same frames. What they count is summed: the induction   *)
(* a sum needs is over the least subset on which it would be wrong.          *)

LEMMA LeastOf ==
  ASSUME NEW T \in SUBSET Nat, T # {}
  PROVE  \E x \in T : \A y \in T : x <= y
<1> DEFINE Q == OpToRel(<, Nat)
<1>1. IsWellFoundedOn(Q, Nat)
  BY NatLessThanWellFounded
<1>2. \A x, y \in Nat : y < x => <<y, x>> \in Q
  BY DEF OpToRel
<1> HIDE DEF Q
<1>3. PICK x \in T : \A y \in T : ~(<<y, x>> \in Q)
  BY <1>1, WFMin
<1>4. \A y \in T : x <= y
  <2> SUFFICES ASSUME NEW y \in T PROVE x <= y
    OBVIOUS
  <2>1. x \in Nat /\ y \in Nat
    OBVIOUS
  <2>2. ~(y < x)
    BY <1>2, <1>3, <2>1
  <2> QED BY <2>1, <2>2
<1> QED BY <1>4

(* A sum over a finite set that counts, of each of its members, what goes   *)
(* with it, counts everything. A sum is a recursive function over the       *)
(* subsets: the lemma finds the least subset on which it would be wrong.    *)
LEMMA CountedByPart ==
  ASSUME NEW S, IsFiniteSet(S), NEW D, IsFiniteSet(D), NEW to \in [S -> D], NEW f,
         f = [d \in D |-> Cardinality({s \in S : to[s] = d})]
  PROVE  SumFunction(f) = Cardinality(S)
<1> DEFINE Part(T) == {s \in S : to[s] \in T}
           Sums(h) == h = [T \in SUBSET D |->
                        IF T = {} THEN 0
                        ELSE LET x == CHOOSE y \in T : TRUE IN f[x] + h[T \ {x}]]
           g == [T \in SUBSET D |-> Cardinality(Part(T))]
<1>1. ASSUME NEW T \in SUBSET D, NEW x \in T
      PROVE  f[x] + g[T \ {x}] = g[T]
  <2> DEFINE A == {s \in S : to[s] = x}
             C == Part(T \ {x})
  <2>1. A \cup C = Part(T) /\ A \cap C = {} /\ A \subseteq S /\ C \subseteq S
    OBVIOUS
  <2>2. f[x] = Cardinality(A) /\ g[T \ {x}] = Cardinality(C) /\ g[T] = Cardinality(Part(T))
    OBVIOUS
  <2> HIDE DEF A, C, Part, g
  <2>3. IsFiniteSet(A) /\ IsFiniteSet(C)
    BY <2>1, FS_Subset
  <2>4. Cardinality(A \cup C) = Cardinality(A) + Cardinality(C) - Cardinality(A \cap C)
    BY <2>3, FS_Union
  <2>5. Cardinality(A \cap C) = 0 /\ Cardinality(A) \in Nat /\ Cardinality(C) \in Nat
    BY <2>1, <2>3, FS_EmptySet, FS_CardinalityType
  <2>6. Cardinality(Part(T)) = Cardinality(A \cup C)
    BY ONLY <2>1, Zenon
  <2>7. Cardinality(Part(T)) = Cardinality(A) + Cardinality(C)
    BY ONLY <2>4, <2>5, <2>6
  <2> QED BY <2>2, <2>7
<1>2. g[{}] = 0
  <2>1. Part({}) = {}
    OBVIOUS
  <2> QED BY <2>1, FS_EmptySet
<1>3. g = [T \in SUBSET D |-> g[T]]
  OBVIOUS
<1>4. Part(D) = S
  OBVIOUS
<1>5. g[D] = Cardinality(S)
  BY <1>4
<1> HIDE DEF g
<1>6. Sums(g)
  <2>1. ASSUME NEW T \in SUBSET D
        PROVE  g[T] = IF T = {} THEN 0
                      ELSE LET x == CHOOSE y \in T : TRUE IN f[x] + g[T \ {x}]
    <3>1. CASE T = {}
      BY <1>2, <3>1
    <3>2. CASE T # {}
      BY <1>1, <3>2
    <3> QED BY <3>1, <3>2
  <2> QED BY <1>3, <2>1
<1>7. ASSUME NEW h, Sums(h)
      PROVE  h = g
  <2> DEFINE wrong == {Cardinality(T) : T \in {U \in SUBSET D : h[U] # g[U]}}
  <2>1. \A T \in SUBSET D : IsFiniteSet(T) /\ Cardinality(T) \in Nat
    BY FS_Subset, FS_CardinalityType
  <2>2. wrong \in SUBSET Nat
    BY <2>1
  <2>3. ASSUME wrong # {} PROVE FALSE
    <3>1. PICK n \in wrong : \A m \in wrong : n <= m
      BY <2>2, <2>3, LeastOf
    <3>2. PICK T \in SUBSET D : h[T] # g[T] /\ Cardinality(T) = n
      BY <3>1
    <3>3. T # {}
      BY <1>2, <1>7, <3>2
    <3> DEFINE x == CHOOSE y \in T : TRUE
    <3>4. x \in T
      BY <3>3
    <3>5. h[T] = f[x] + h[T \ {x}]
      BY <1>7, <3>3
    <3> HIDE DEF x
    <3>6. h[T \ {x}] # g[T \ {x}]
      BY <1>1, <3>2, <3>4, <3>5
    <3>7. T \ {x} \in SUBSET D
      OBVIOUS
    <3>8. Cardinality(T \ {x}) \in wrong
      BY <3>6, <3>7
    <3>9. Cardinality(T \ {x}) = Cardinality(T) - 1
      BY <2>1, <3>4, FS_RemoveElement
    <3> QED BY <2>1, <3>1, <3>2, <3>8, <3>9
  <2>4. \A T \in SUBSET D : h[T] = g[T]
    BY <2>3
  <2>5. h = [T \in SUBSET D |-> h[T]]
    BY <1>7
  <2> QED BY <1>3, <2>4, <2>5
<1>8. DOMAIN f = D
  OBVIOUS
<1>9. SumFunction(f) = g[D]
  <2> HIDE DEF Part
  <2> QED BY <1>6, <1>7, <1>8 DEF SumFunction, SumFunctionOnSet, FoldFunctionOnSet, MapThenFoldSet
<1> QED BY <1>5, <1>9

LEMMA ImageIsFinite ==
  ASSUME NEW S, IsFiniteSet(S), NEW f
  PROVE  IsFiniteSet({f[x] : x \in S})
<1> DEFINE T == {f[x] : x \in S}
           g == [x \in S |-> f[x]]
<1>1. g \in Surjection(S, T)
  BY DEF Surjection
<1> HIDE DEF T, g
<1>2. IsFiniteSet(T)
  BY <1>1, FS_Surjection
<1> QED BY <1>2 DEF T

(* Days, or any other classes, add up to the whole.                         *)
LEMMA AddUp ==
  ASSUME NEW slots, IsFiniteSet(slots), NEW class, NEW A \in SUBSET slots, NEW f,
         f = [d \in {class[t] : t \in slots} |-> Cardinality({t \in A : class[t] = d})]
  PROVE  SumFunction(f) = Cardinality(A)
<1> DEFINE D == {class[t] : t \in slots}
           to == [t \in A |-> class[t]]
<1>1. IsFiniteSet(D) /\ IsFiniteSet(A)
  BY ImageIsFinite, FS_Subset
<1>2. to \in [A -> D]
  OBVIOUS
<1>3. \A d \in D : {t \in A : to[t] = d} = {t \in A : class[t] = d}
  OBVIOUS
<1>4. f = [d \in D |-> Cardinality({t \in A : to[t] = d})]
  BY <1>3
<1> HIDE DEF D, to
<1> QED BY ONLY <1>1, <1>2, <1>4, CountedByPart

(* Boundaries are the multiples of the frame's duration.                    *)

Aligned(t) == t % BaseDuration = 0

LEMMA Quotient ==
  ASSUME NEW d \in Nat \ {0}, NEW s \in Int
  PROVE  s % d \in 0 .. d - 1 /\ s \div d \in Int /\ s = d * (s \div d) + (s % d)
OBVIOUS

LEMMA Scaled ==
  ASSUME NEW d \in Nat \ {0}, NEW p \in Int, NEW q \in Int, p < q
  PROVE  d * p + d <= d * q
<1>1. q - p - 1 \in Nat /\ d * (q - p - 1) >= 0
  OBVIOUS
<1>2. d * q = d * p + d + d * (q - p - 1)
  OBVIOUS
<1> QED BY <1>1, <1>2

LEMMA MultiplesApart ==
  ASSUME NEW d \in Nat \ {0}, NEW p \in Int, NEW q \in Int, d * p < d * q
  PROVE  d * p + d <= d * q /\ p < q
<1>1. p < q
  OBVIOUS
<1>2. d * p + d = d * (p + 1)
  OBVIOUS
<1> QED BY <1>1, <1>2

LEMMA Multiple ==
  ASSUME NEW k \in Int
  PROVE  Aligned(BaseDuration * k) /\ (BaseDuration * k) \div BaseDuration = k
<1> DEFINE d == BaseDuration
           t == d * k
<1>1. d \in Nat \ {0} /\ t \in Int
  BY WindowAssumption
<1>2. t % d \in 0 .. d - 1 /\ t \div d \in Int /\ t = d * (t \div d) + (t % d)
  BY <1>1, Quotient
<1> DEFINE q == t \div d
           r == t % d
<1>3. t = d * k /\ r \in 0 .. d - 1 /\ q \in Int /\ t = d * q + r
  BY <1>2
<1> HIDE DEF q, r, t, d
<1>4. ~(q < k)
  <2> SUFFICES ASSUME q < k PROVE FALSE
    OBVIOUS
  <2>1. d * q + d <= d * k
    BY <1>1, <1>3, Scaled
  <2>2. d * q \in Int /\ d * k \in Int
    BY <1>1, <1>3
  <2> QED BY ONLY <1>1, <1>3, <2>1, <2>2
<1>5. ~(k < q)
  <2> SUFFICES ASSUME k < q PROVE FALSE
    OBVIOUS
  <2>1. d * k + d <= d * q
    BY <1>1, <1>3, Scaled
  <2>2. d * q \in Int /\ d * k \in Int
    BY <1>1, <1>3
  <2> QED BY ONLY <1>1, <1>3, <2>1, <2>2
<1>6. k = q
  BY <1>3, <1>4, <1>5
<1>7. r = 0
  BY <1>1, <1>3, <1>6
<1> QED BY <1>6, <1>7 DEF Aligned, q, r, t, d

LEMMA AlignedIs ==
  ASSUME NEW t \in Int
  PROVE  Aligned(t) <=> t = BaseDuration * (t \div BaseDuration)
BY WindowAssumption, Quotient DEF Aligned

LEMMA AlignedApart ==
  ASSUME NEW x \in Int, NEW y \in Int, Aligned(x), Aligned(y)
  PROVE  /\ x < y => x + BaseDuration <= y
         /\ Aligned(x + BaseDuration) /\ Aligned(x - BaseDuration)
         /\ x <= y => /\ (y - x) \div BaseDuration \in Nat
                      /\ y = x + BaseDuration * ((y - x) \div BaseDuration)
<1> DEFINE d == BaseDuration
           p == x \div d
           q == y \div d
<1>1. d \in Nat \ {0} /\ x = d * p /\ y = d * q /\ p \in Int /\ q \in Int
  BY WindowAssumption, AlignedIs, Quotient
<1> HIDE DEF p, q
<1>2. x < y => x + d <= y
  BY <1>1, MultiplesApart
<1>3. x + d = d * (p + 1) /\ x - d = d * (p - 1) /\ y - x = d * (q - p)
  BY <1>1
<1>4. Aligned(x + d) /\ Aligned(x - d)
  <2> DEFINE k == p + 1
             l == p - 1
  <2>1. k \in Int /\ l \in Int /\ x + d = d * k /\ x - d = d * l
    BY <1>1, <1>3
  <2> HIDE DEF k, l
  <2>2. Aligned(d * k) /\ Aligned(d * l)
    BY <2>1, Multiple
  <2> QED BY <2>1, <2>2
<1>5. (y - x) \div d = q - p
  BY <1>1, <1>3, Multiple
<1>6. x <= y => q - p \in Nat
  BY <1>1, MultiplesApart
<1>7. x <= y => (y - x) \div d \in Nat
  BY <1>5, <1>6
<1>8. y = x + d * ((y - x) \div d)
  BY ONLY <1>1, <1>3, <1>5
<1> QED BY ONLY <1>2, <1>4, <1>7, <1>8 DEF d

LEMMA FloorFacts ==
  ASSUME NEW t \in Int
  PROVE  /\ R!FloorToBoundary(t) \in Int /\ Aligned(R!FloorToBoundary(t))
         /\ \A x \in Int : Aligned(x) => (x <= t <=> x <= R!FloorToBoundary(t))
<1> DEFINE d == BaseDuration
           f == R!FloorToBoundary(t)
<1>1. d \in Nat \ {0} /\ t % d \in 0 .. d - 1 /\ t \div d \in Int /\ t = d * (t \div d) + (t % d)
  BY WindowAssumption, Quotient
<1>2. f = d * (t \div d)
  BY <1>1 DEF R!FloorToBoundary
<1>3. f \in Int /\ Aligned(f)
  <2> DEFINE k == t \div d
  <2>1. k \in Int /\ f = d * k /\ d \in Int
    BY <1>1, <1>2
  <2> HIDE DEF k, f
  <2>2. Aligned(d * k)
    BY <2>1, Multiple
  <2>3. d * k \in Int
    BY <2>1
  <2> QED BY <2>1, <2>2, <2>3
<1>4. f <= t /\ t < f + d
  BY <1>1, <1>2
<1> HIDE DEF f
<1>5. \A x \in Int : Aligned(x) => (x <= t <=> x <= f)
  BY <1>1, <1>3, <1>4, AlignedApart
<1> QED BY <1>3, <1>5 DEF f

LEMMA CeilFacts ==
  ASSUME NEW t \in Int
  PROVE  /\ R!CeilToBoundary(t) \in Int /\ Aligned(R!CeilToBoundary(t))
         /\ \A x \in Int : Aligned(x) => (t <= x <=> R!CeilToBoundary(t) <= x)
<1> DEFINE d == BaseDuration
           c == R!CeilToBoundary(t)
<1>1. d \in Nat \ {0} /\ t + d - 1 \in Int
  BY WindowAssumption
<1>2. c \in Int /\ Aligned(c) /\ c <= t + d - 1 /\ Aligned(c + d)
  BY <1>1, FloorFacts, AlignedApart DEF R!CeilToBoundary
<1>3. t <= c
  BY <1>1, <1>2, FloorFacts DEF R!CeilToBoundary
<1> HIDE DEF c
<1>4. \A x \in Int : Aligned(x) => (t <= x <=> c <= x)
  <2> SUFFICES ASSUME NEW x \in Int, Aligned(x) PROVE t <= x <=> c <= x
    OBVIOUS
  <2>1. x < c => x + d <= c
    BY <1>2, AlignedApart
  <2> QED BY <1>1, <1>2, <1>3, <2>1
<1> QED BY <1>2, <1>4 DEF c

LEMMA GridFacts ==
  ASSUME NEW from \in Int, NEW to \in Int
  PROVE  /\ IsFiniteSet(R!Grid(from, to)) /\ R!Grid(from, to) \subseteq Int
         /\ \A t \in R!Grid(from, to) : from <= t /\ t <= to /\ Aligned(t)
         /\ \A t \in Int : from <= t /\ t <= to /\ Aligned(t) => t \in R!Grid(from, to)
<1>1. IsFiniteSet(from .. to)
  BY FS_Interval
<1>2. R!Grid(from, to) \subseteq from .. to
  BY DEF R!Grid
<1>3. IsFiniteSet(R!Grid(from, to))
  BY <1>1, <1>2, FS_Subset
<1>4. \A t : t \in R!Grid(from, to) <=> t \in from .. to /\ Aligned(t)
  BY DEF R!Grid, Aligned
<1> QED BY <1>3, <1>4

(* What intervals are made of: slots a boundary apart, without a gap.       *)
GridOf(slots) ==
  /\ IsFiniteSet(slots) /\ slots \subseteq Int /\ \A t \in slots : Aligned(t)
  /\ \A x, y \in slots : \A t \in Int : x <= t /\ t <= y /\ Aligned(t) => t \in slots

Within(slots, i) == {t \in slots : i[1] <= t /\ t <= i[2]}

LEMMA RunLength ==
  ASSUME NEW slots, GridOf(slots), NEW x \in slots, NEW y \in slots, x <= y
  PROVE  Cardinality(Within(slots, <<x, y>>)) = (y - x) \div BaseDuration + 1
<1> DEFINE d == BaseDuration
           n == (y - x) \div d
           T == Within(slots, <<x, y>>)
           e == [k \in 0 .. n |-> x + d * k]
<1>1. d \in Nat \ {0} /\ x \in Int /\ y \in Int /\ Aligned(x) /\ Aligned(y)
  BY WindowAssumption DEF GridOf
<1>2. n \in Nat /\ y = x + d * n
  BY <1>1, AlignedApart
<1> HIDE DEF n
<1>3. \A t : t \in T <=> t \in slots /\ x <= t /\ t <= y
  BY DEF Within
<1> HIDE DEF T
<1>4. \A k \in 0 .. n : e[k] = x + d * k /\ e[k] \in T
  <2> SUFFICES ASSUME NEW k \in 0 .. n PROVE x + d * k \in T
    OBVIOUS
  <2>1. k \in Int /\ x + d * k \in Int /\ d * k >= 0 /\ d * (n - k) >= 0
    BY <1>1, <1>2
  <2>2. d * (n - k) = d * n - d * k
    BY <1>1, <1>2, <2>1
  <2>3. x <= x + d * k /\ x + d * k <= y
    BY ONLY <1>1, <1>2, <2>1, <2>2
  <2>4. Aligned(x + d * k)
    <3> DEFINE p == x \div d
    <3>1. x = d * p /\ p \in Int
      BY <1>1, AlignedIs, Quotient
    <3> DEFINE q == p + k
    <3>2. q \in Int /\ x + d * k = d * q
      BY <1>1, <2>1, <3>1
    <3> HIDE DEF q, p
    <3>3. Aligned(d * q)
      BY <3>2, Multiple
    <3> QED BY <3>2, <3>3
  <2>5. x + d * k \in slots
    BY <2>1, <2>3, <2>4 DEF GridOf
  <2> QED BY <1>3, <2>3, <2>5
<1>5. \A t \in T : \E k \in 0 .. n : e[k] = t
  <2> SUFFICES ASSUME NEW t \in T PROVE \E k \in 0 .. n : x + d * k = t
    OBVIOUS
  <2>1. t \in slots /\ t \in Int /\ Aligned(t) /\ x <= t /\ t <= y
    BY <1>3 DEF GridOf
  <2> DEFINE k == (t - x) \div d
  <2>2. k \in Nat /\ t = x + d * k
    BY <1>1, <2>1, AlignedApart
  <2> HIDE DEF k
  <2>3. ~(n < k)
    <3> SUFFICES ASSUME n < k PROVE FALSE
      OBVIOUS
    <3>1. d * n + d <= d * k
      BY <1>1, <1>2, <2>2, Scaled
    <3>2. d * n \in Int /\ d * k \in Int
      BY <1>1, <1>2, <2>2
    <3> QED BY ONLY <1>1, <1>2, <2>1, <2>2, <3>1, <3>2
  <2>4. k \in 0 .. n
    BY <1>2, <2>2, <2>3
  <2> QED BY <2>2, <2>4
<1>6. \A k, l \in 0 .. n : e[k] = e[l] => k = l
  <2> SUFFICES ASSUME NEW k \in 0 .. n, NEW l \in 0 .. n, k < l PROVE x + d * k # x + d * l
    <3> HIDE DEF e
    <3>1. \A k, l \in 0 .. n : k < l => e[k] # e[l]
      BY <1>4
    <3> QED BY <1>2, <3>1
  <2>1. d * k + d <= d * l /\ d * k \in Int /\ d * l \in Int
    BY <1>1, <1>2, Scaled
  <2> QED BY ONLY <1>1, <2>1
<1> DEFINE K == 0 .. n
<1>7. IsFiniteSet(K) /\ Cardinality(K) = n + 1
  BY <1>2, FS_Interval
<1>8. e \in Bijection(K, T)
  <2>1. e \in [K -> T]
    BY <1>4
  <2> HIDE DEF e
  <2> QED BY <1>4, <1>5, <1>6, <2>1 DEF Bijection, Injection, Surjection, IsInjective
<1> HIDE DEF K, e
<1>9. Cardinality(T) = n + 1
  <2>1. Cardinality(T) = Cardinality(K)
    BY ONLY <1>7, <1>8, FS_Bijection DEF ExistsBijection
  <2> QED BY ONLY <1>7, <2>1
<1> QED BY <1>9 DEF T, n

(* A slot is in a run: the largest one around it that is covered, or not,   *)
(* as it is.                                                                *)
LEMMA InOneInterval ==
  ASSUME NEW slots, GridOf(slots), NEW covered, NEW t \in slots
  PROVE  /\ \E i \in R!Intervals(slots, covered) : t \in Within(slots, i)
         /\ \A i, j \in R!Intervals(slots, covered) :
              t \in Within(slots, i) /\ t \in Within(slots, j) => i = j
<1> DEFINE d == BaseDuration
           Like(x, y) == (x \in covered) = (y \in covered)
           Runs == R!Intervals(slots, covered)
<1>1. d \in Nat \ {0} /\ IsFiniteSet(slots) /\ slots \subseteq Int
  BY WindowAssumption DEF GridOf
<1>2. ASSUME NEW x \in slots
      PROVE  /\ x \in Int /\ Aligned(x)
             /\ \A y \in slots : x < y => x + d <= y /\ x + d \in slots /\ y - d \in slots
  <2>1. x \in Int /\ Aligned(x)
    BY DEF GridOf
  <2>2. ASSUME NEW y \in slots, x < y
        PROVE  x + d <= y /\ x + d \in slots /\ y - d \in slots
    <3>1. y \in Int /\ Aligned(y)
      BY DEF GridOf
    <3>2. x + d <= y /\ Aligned(x + d) /\ Aligned(y - d)
      BY <2>1, <2>2, <3>1, AlignedApart
    <3>3. /\ x + d \in Int /\ y - d \in Int
          /\ x <= x + d /\ x <= y - d /\ y - d <= y
      BY <1>1, <2>1, <3>1, <3>2
    <3> QED BY <3>2, <3>3 DEF GridOf
  <2> QED BY <2>1, <2>2
<1>3. ASSUME NEW x, NEW y
      PROVE  <<x, y>> \in Runs <=>
               /\ x \in slots /\ y \in slots /\ x <= y
               /\ \A u \in slots : x <= u /\ u <= y => Like(u, x)
               /\ \A u \in slots : u \in {x - d, y + d} => ~Like(u, x)
  BY DEF R!Intervals
<1>4. \E i \in Runs : t \in Within(slots, i)
  <2> DEFINE L == {x \in slots : x <= t /\ \A u \in slots : x <= u /\ u <= t => Like(u, t)}
             U == {y \in slots : t <= y /\ \A u \in slots : t <= u /\ u <= y => Like(u, t)}
             x == Min(L)
             y == Max(U)
  <2>1. t \in L /\ t \in U /\ L \subseteq slots /\ U \subseteq slots
    <3>1. \A u \in slots : t <= u /\ u <= t => u = t
      BY <1>1
    <3>2. t <= t
      BY <1>1
    <3> QED BY <3>1, <3>2
  <2>2. IsFiniteSet(L) /\ IsFiniteSet(U) /\ L \subseteq Int /\ U \subseteq Int /\ L # {} /\ U # {}
    BY <1>1, <2>1, FS_Subset
  <2>3. x \in L /\ (\A u \in L : x <= u) /\ y \in U /\ (\A u \in U : u <= y)
    <3> HIDE DEF L, U
    <3> QED BY <2>2, MinMaxFacts
  <2> HIDE DEF x, y
  <2>4. /\ x \in slots /\ y \in slots /\ x <= t /\ t <= y
        /\ x \in Int /\ y \in Int /\ t \in Int
        /\ \A u \in slots : x <= u /\ u <= t => Like(u, t)
        /\ \A u \in slots : t <= u /\ u <= y => Like(u, t)
    BY <1>1, <2>3
  <2>5. \A u \in slots : x <= u /\ u <= y => Like(u, t)
    <3>1. \A u \in slots : u \in Int /\ (u <= t \/ t <= u)
      BY <1>1, <2>4
    <3> QED BY <2>4, <3>1
  <2>6. Like(x, t) /\ x <= y
    BY <1>1, <2>4, <2>5
  <2>7. ASSUME x - d \in slots PROVE ~Like(x - d, t)
    <3> SUFFICES ASSUME Like(x - d, t) PROVE FALSE
      OBVIOUS
    <3>1. \A u \in slots : x - d <= u /\ u <= t => u = x - d \/ x <= u
      <4> SUFFICES ASSUME NEW u \in slots, x - d < u PROVE x <= u
        BY <1>1, <2>4
      <4>1. x - d + d <= u
        BY <1>2, <2>7
      <4> QED BY <1>1, <2>4, <4>1
    <3>2. x - d \in L
      <4>1. x - d <= t
        BY <1>1, <2>4
      <4> QED BY <2>4, <2>7, <3>1, <4>1
    <3>3. x <= x - d
      BY <2>3, <3>2
    <3> QED BY <1>1, <2>4, <3>3
  <2>8. ASSUME y + d \in slots PROVE ~Like(y + d, t)
    <3> SUFFICES ASSUME Like(y + d, t) PROVE FALSE
      OBVIOUS
    <3>1. \A u \in slots : t <= u /\ u <= y + d => u = y + d \/ u <= y
      <4> SUFFICES ASSUME NEW u \in slots, u < y + d PROVE u <= y
        BY <1>1, <2>4
      <4>1. u + d <= y + d
        BY <1>2, <2>8
      <4> QED BY <1>1, <2>4, <4>1
    <3>2. y + d \in U
      <4>1. t <= y + d
        BY <1>1, <2>4
      <4> QED BY <2>4, <2>8, <3>1, <4>1
    <3>3. y + d <= y
      BY <2>3, <3>2
    <3> QED BY <1>1, <2>4, <3>3
  <2>9. <<x, y>> \in Runs
    <3>1. \A u \in slots : x <= u /\ u <= y => Like(u, x)
      BY <2>5, <2>6
    <3>2. \A u \in slots : u \in {x - d, y + d} => ~Like(u, x)
      BY <2>6, <2>7, <2>8
    <3> QED BY <1>3, <2>4, <2>6, <3>1, <3>2
  <2>10. t \in Within(slots, <<x, y>>)
    BY <2>4 DEF Within
  <2> QED BY <2>9, <2>10
<1>5. ASSUME NEW x, NEW y, NEW p, NEW q, <<x, y>> \in Runs, <<p, q>> \in Runs,
             x <= t, t <= y, p <= t, t <= q
      PROVE  x <= p /\ q <= y
  <2>1. /\ x \in slots /\ y \in slots /\ p \in slots /\ q \in slots
        /\ x \in Int /\ y \in Int /\ p \in Int /\ q \in Int /\ t \in Int
    BY <1>1, <1>3, <1>5
  <2>2. Like(x, t) /\ Like(p, t)
    BY <1>3, <1>5, <2>1
  <2>3. ~(p < x)
    <3> SUFFICES ASSUME p < x PROVE FALSE
      OBVIOUS
    <3>1. p + d <= x /\ x - d \in slots
      BY <1>2, <2>1
    <3>2. p <= x - d /\ x - d <= q
      BY <1>1, <1>5, <2>1, <3>1
    <3>3. Like(x - d, p) /\ ~Like(x - d, x)
      BY <1>3, <1>5, <3>1, <3>2
    <3> QED BY <2>2, <3>3
  <2>4. ~(y < q)
    <3> SUFFICES ASSUME y < q PROVE FALSE
      OBVIOUS
    <3>1. y + d <= q /\ y + d \in slots
      BY <1>2, <2>1
    <3>2. p <= y + d
      BY <1>1, <1>5, <2>1
    <3>3. Like(y + d, p) /\ ~Like(y + d, x)
      BY <1>3, <1>5, <3>1, <3>2
    <3> QED BY <2>2, <3>3
  <2> QED BY <2>1, <2>3, <2>4
<1>6. ASSUME NEW i \in Runs, NEW j \in Runs, t \in Within(slots, i), t \in Within(slots, j)
      PROVE  i = j
  <2>1. PICK x \in slots, y \in slots, p \in slots, q \in slots : i = <<x, y>> /\ j = <<p, q>>
    BY DEF R!Intervals
  <2>2. x <= t /\ t <= y /\ p <= t /\ t <= q
    BY <1>6, <2>1 DEF Within
  <2> HIDE DEF Runs
  <2>3. x <= p /\ q <= y /\ p <= x /\ y <= q
    BY <1>5, <1>6, <2>1, <2>2
  <2>4. x = p /\ y = q
    BY <1>1, <2>3
  <2> QED BY <2>1, <2>4
<1> QED BY <1>4, <1>6

(* The lengths of the intervals add up to the grid.                         *)
LEMMA IntervalsAddUp ==
  ASSUME NEW slots, GridOf(slots), NEW covered, NEW f,
         f = [i \in R!Intervals(slots, covered) |-> (i[2] - i[1]) \div BaseDuration + 1]
  PROVE  SumFunction(f) = Cardinality(slots)
<1> DEFINE D == R!Intervals(slots, covered)
           to == [t \in slots |-> CHOOSE i \in D : t \in Within(slots, i)]
<1>1. IsFiniteSet(slots)
  BY DEF GridOf
<1>2. IsFiniteSet(D)
  <2>1. IsFiniteSet(slots \X slots)
    BY <1>1, FS_Product
  <2>2. D \subseteq slots \X slots
    BY DEF R!Intervals
  <2> HIDE DEF D
  <2> QED BY <2>1, <2>2, FS_Subset
<1>3. \A t \in slots : to[t] \in D /\ t \in Within(slots, to[t])
  <2> SUFFICES ASSUME NEW t \in slots
               PROVE  \E i \in D : t \in Within(slots, i)
    OBVIOUS
  <2> QED BY InOneInterval
<1>4. to \in [slots -> D]
  <2>1. to = [t \in slots |-> to[t]]
    OBVIOUS
  <2> HIDE DEF to, D
  <2> QED BY <1>3, <2>1
<1> HIDE DEF to
<1>5. ASSUME NEW i \in D
      PROVE  f[i] = Cardinality({t \in slots : to[t] = i})
  <2>1. PICK x \in slots, y \in slots : i = <<x, y>> /\ x <= y
    BY DEF R!Intervals
  <2>2. f[i] = Cardinality(Within(slots, i))
    BY <2>1, RunLength
  <2>3. \A t \in slots : to[t] = i <=> t \in Within(slots, i)
    BY <1>3, InOneInterval
  <2>4. {t \in slots : to[t] = i} = Within(slots, i)
    BY <2>3 DEF Within
  <2> QED BY <2>2, <2>4
<1>6. f = [i \in D |-> Cardinality({t \in slots : to[t] = i})]
  <2>1. f = [i \in D |-> f[i]]
    OBVIOUS
  <2> HIDE DEF D
  <2> QED BY <1>5, <2>1
<1> HIDE DEF D
<1> QED BY ONLY <1>1, <1>2, <1>4, <1>6, CountedByPart

-----------------------------------------------------------------------------
(* What the four reads say of any rows.                                     *)

(* Counting, the least and the greatest are those of the library.           *)
LEMMA SameCount ==
  \A S : R!Cardinality(S) = Cardinality(S)
BY DEF R!Cardinality, Cardinality

LEMMA SameBounds ==
  \A S : R!Max(S) = Max(S) /\ R!Min(S) = Min(S)
BY DEF R!Max, Max, R!Min, Min

RowsOK(rows) ==
  /\ IsFiniteSet(DOMAIN rows) /\ DOMAIN rows \subseteq Int /\ DOMAIN rows # {}
  /\ \A t \in DOMAIN rows : Aligned(t)

LEMMA SplitCount ==
  ASSUME NEW A, NEW B, NEW C, IsFiniteSet(C), A \subseteq C, B \subseteq C,
         \A x \in C : x \in A <=> x \notin B
  PROVE  /\ Cardinality(C) = Cardinality(A) + Cardinality(B)
         /\ Cardinality(A) \in Nat /\ Cardinality(B) \in Nat /\ Cardinality(C) \in Nat
<1>1. IsFiniteSet(A) /\ IsFiniteSet(B)
  BY FS_Subset
<1>2. Cardinality(A \cup B) = Cardinality(A) + Cardinality(B) - Cardinality(A \cap B)
  BY <1>1, FS_Union
<1>3. A \cap B = {}
  OBVIOUS
<1>4. Cardinality(A \cap B) = 0
  BY <1>3, FS_EmptySet
<1>5. A \cup B = C
  OBVIOUS
<1>6. Cardinality(A \cup B) = Cardinality(C)
  BY ONLY <1>5, Zenon
<1>7. Cardinality(A) \in Nat /\ Cardinality(B) \in Nat /\ Cardinality(C) \in Nat
  BY <1>1, FS_CardinalityType
<1> QED BY ONLY <1>2, <1>4, <1>6, <1>7

LEMMA MaxOfTwo ==
  ASSUME NEW a \in Int, NEW b \in Int
  PROVE  Max({a, b}) \in Int /\ \A x \in Int : Max({a, b}) <= x <=> a <= x /\ b <= x
<1> DEFINE S == {a, b}
<1>1. \E x \in S : \A y \in S : x >= y
  OBVIOUS
<1>2. Max(S) \in S /\ \A y \in S : Max(S) >= y
  BY <1>1 DEF Max
<1>3. a \in S /\ b \in S /\ S \subseteq Int
  OBVIOUS
<1> DEFINE m == Max(S)
<1> HIDE DEF S
<1>4. m \in Int /\ m >= a /\ m >= b
  BY <1>2, <1>3
<1>5. m = a \/ m = b
  BY <1>2 DEF S
<1> HIDE DEF m
<1>6. m \in Int /\ \A x \in Int : m <= x <=> a <= x /\ b <= x
  BY <1>4, <1>5
<1> QED BY <1>6 DEF m, S

(* The slots of the last day are the same for MARKET and for the research.  *)
RecentSlots(rows, now) ==
  R!Grid(Max({R!CeilToBoundary(now - RecentWindow), Min(DOMAIN rows)}), R!LastDue(now))

LEMMA RecentSlotFacts ==
  ASSUME NEW now \in Int, NEW rows, RowsOK(rows)
  PROVE  /\ IsFiniteSet(RecentSlots(rows, now)) /\ RecentSlots(rows, now) \subseteq Int
         /\ \A t \in Int : t \in RecentSlots(rows, now) <=>
              /\ Aligned(t) /\ now - RecentWindow <= t
              /\ Min(DOMAIN rows) <= t /\ t <= now - Allowance
         /\ R!Grid(R!CeilToBoundary(Max({now - RecentWindow, Min(DOMAIN rows)})),
                   R!LastDue(now)) = RecentSlots(rows, now)
<1> DEFINE w == now - RecentWindow
           first == Min(DOMAIN rows)
           c == R!CeilToBoundary(w)
           start == Max({c, first})
           m == Max({w, first})
           other == R!CeilToBoundary(m)
           last == R!LastDue(now)
<1>1. w \in Int /\ now - Allowance \in Int
  BY LiveAssumption
<1>2. first \in Int /\ Aligned(first)
  BY MinMaxFacts DEF RowsOK
<1>3. last \in Int /\ \A t \in Int : Aligned(t) => (t <= now - Allowance <=> t <= last)
  BY <1>1, FloorFacts DEF R!LastDue
<1> HIDE DEF w, first, last
<1>4. c \in Int /\ \A t \in Int : Aligned(t) => (w <= t <=> c <= t)
  BY <1>1, CeilFacts
<1> HIDE DEF c
<1>5. start \in Int /\ \A t \in Int : start <= t <=> c <= t /\ first <= t
  BY <1>2, <1>4, MaxOfTwo
<1>6. m \in Int /\ \A t \in Int : m <= t <=> w <= t /\ first <= t
  BY <1>1, <1>2, MaxOfTwo
<1> HIDE DEF m, start
<1>7. other \in Int /\ \A t \in Int : Aligned(t) => (m <= t <=> other <= t)
  BY <1>6, CeilFacts
<1> HIDE DEF other
<1> DEFINE A == R!Grid(start, last)
           B == R!Grid(other, last)
<1>8. /\ IsFiniteSet(A) /\ A \subseteq Int
      /\ \A t \in Int : t \in A <=> Aligned(t) /\ start <= t /\ t <= last
  BY <1>3, <1>5, GridFacts
<1>9. /\ B \subseteq Int
      /\ \A t \in Int : t \in B <=> Aligned(t) /\ other <= t /\ t <= last
  BY <1>3, <1>7, GridFacts
<1> HIDE DEF A, B
<1>10. \A t \in Int : t \in A <=> Aligned(t) /\ w <= t /\ first <= t /\ t <= now - Allowance
  BY <1>3, <1>4, <1>5, <1>8
<1>11. \A t \in Int : t \in A <=> t \in B
  BY <1>3, <1>4, <1>5, <1>6, <1>7, <1>8, <1>9
<1>12. B = A
  BY <1>8, <1>9, <1>11
<1>13. RecentSlots(rows, now) = A
  BY DEF RecentSlots, A, start, c, w, first, last
<1>14. R!Grid(R!CeilToBoundary(Max({now - RecentWindow, Min(DOMAIN rows)})), R!LastDue(now)) = B
  BY DEF B, other, m, w, first, last
<1> QED BY <1>8, <1>10, <1>12, <1>13, <1>14 DEF w, first

LEMMA MissedAgree ==
  ASSUME NEW now \in Int, NEW rows, RowsOK(rows)
  PROVE  /\ R!MissedFrames(rows, now).expected = R!RecentContinuity(rows, now).expected
         /\ R!RecentContinuity(rows, now).missing
              = R!MissedFrames(rows, now).missed + R!RecentContinuity(rows, now).building
<1> DEFINE slots == RecentSlots(rows, now)
           finalized == {t \in slots \cap DOMAIN rows : R!Finalized(rows[t])}
           A == slots \ DOMAIN rows
           B == (slots \cap DOMAIN rows) \ finalized
           C == slots \ finalized
<1>1. /\ R!RecentContinuity(rows, now).expected = Cardinality(slots)
      /\ R!RecentContinuity(rows, now).missing = Cardinality(C)
      /\ R!RecentContinuity(rows, now).building = Cardinality(B)
  BY SameCount, SameBounds DEF R!RecentContinuity, RecentSlots
<1>2. /\ R!MissedFrames(rows, now).expected = Cardinality(slots)
      /\ R!MissedFrames(rows, now).missed = Cardinality(A)
  <2>1. DOMAIN rows # {}
    BY DEF RowsOK
  <2> DEFINE expected == R!Grid(R!CeilToBoundary(Max({now - RecentWindow, Min(DOMAIN rows)})),
                                R!LastDue(now))
  <2>2. expected = slots
    BY RecentSlotFacts
  <2>3. R!MissedFrames(rows, now) = [expected |-> Cardinality(expected),
                                     missed |-> Cardinality(expected \ DOMAIN rows)]
    BY <2>1, SameCount, SameBounds DEF R!MissedFrames
  <2> HIDE DEF expected, slots
  <2>4. R!MissedFrames(rows, now) = [expected |-> Cardinality(slots),
                                     missed |-> Cardinality(slots \ DOMAIN rows)]
    BY ONLY <2>2, <2>3, Zenon
  <2> QED BY <2>4
<1>3. IsFiniteSet(C)
  BY RecentSlotFacts, FS_Subset
<1>4. A \subseteq C /\ B \subseteq C /\ \A x \in C : x \in A <=> x \notin B
  OBVIOUS
<1> HIDE DEF A, B, C, slots
<1>5. /\ Cardinality(C) = Cardinality(A) + Cardinality(B)
  BY <1>3, <1>4, SplitCount
<1> QED BY <1>1, <1>2, <1>5

LEMMA UnanalyzedAgree ==
  ASSUME NEW now \in Int, NEW rows, RowsOK(rows)
  PROVE  Cardinality(R!UnanalyzedFrames(rows, now - RecentWindow,
                                        now - DecisionDelay - Allowance))
           = R!RecentContinuity(rows, now).eligible - R!RecentContinuity(rows, now).analyzed
<1> DEFINE slots == RecentSlots(rows, now)
           finalized == {t \in slots \cap DOMAIN rows : R!Finalized(rows[t])}
           members == {t \in finalized : rows[t].available > 0}
           analyzed == {t \in members : rows[t].analysis # None}
           pending == {t \in members \ analyzed : t > R!AnalysisDue(now)}
           U == R!UnanalyzedFrames(rows, now - RecentWindow, now - DecisionDelay - Allowance)
           C == members \ pending
<1>1. /\ R!RecentContinuity(rows, now).eligible = Cardinality(C)
      /\ R!RecentContinuity(rows, now).analyzed = Cardinality(analyzed)
  BY SameCount, SameBounds DEF R!RecentContinuity, RecentSlots
<1>2. IsFiniteSet(C)
  BY RecentSlotFacts, FS_Subset
<1>3. \A t : t \in U <=>
        /\ t \in DOMAIN rows /\ R!Finalized(rows[t]) /\ rows[t].available > 0
        /\ rows[t].analysis = None
        /\ now - RecentWindow <= t /\ t <= now - DecisionDelay - Allowance
  BY DEF R!UnanalyzedFrames
<1>4. now - DecisionDelay - Allowance <= now - Allowance
      /\ now - DecisionDelay - Allowance \in Int /\ now - Allowance \in Int
  BY LiveAssumption, WindowAssumption
<1>5. ASSUME NEW t \in DOMAIN rows, now - RecentWindow <= t,
             t <= now - DecisionDelay - Allowance
      PROVE  t \in slots /\ ~(t > R!AnalysisDue(now))
  <2>1. t \in Int /\ Aligned(t) /\ Min(DOMAIN rows) <= t
    BY MinMaxFacts DEF RowsOK
  <2>2. t <= now - Allowance
    BY ONLY <1>4, <1>5, <2>1
  <2>3. t \in slots
    BY <1>5, <2>1, <2>2, RecentSlotFacts
  <2>4. ~(t > R!AnalysisDue(now))
    BY <1>4, <1>5, <2>1 DEF R!AnalysisDue
  <2> QED BY <2>3, <2>4
<1>6. ASSUME NEW t \in slots, ~(t > R!AnalysisDue(now))
      PROVE  now - RecentWindow <= t /\ t <= now - DecisionDelay - Allowance
  <2>1. t \in Int /\ now - RecentWindow <= t
    BY RecentSlotFacts
  <2> QED BY <1>4, <1>6, <2>1 DEF R!AnalysisDue
<1> HIDE DEF U, slots
<1>7. U \subseteq C /\ analyzed \subseteq C /\ \A x \in C : x \in U <=> x \notin analyzed
  BY <1>3, <1>5, <1>6
<1> HIDE DEF C, analyzed
<1>8. /\ Cardinality(C) = Cardinality(U) + Cardinality(analyzed)
      /\ Cardinality(U) \in Nat /\ Cardinality(analyzed) \in Nat
  BY <1>2, <1>7, SplitCount
<1> QED BY <1>1, <1>8 DEF U

(* The days and the intervals of the coverage add up to its total.          *)
PartsAddUp(coverage) ==
  /\ \A count \in DOMAIN coverage.total :
       SumFunction([d \in DOMAIN coverage.daily |-> coverage.daily[d][count]])
         = coverage.total[count]
  /\ SumFunction([i \in coverage.intervals |-> (i[2] - i[1]) \div BaseDuration + 1])
       = coverage.total.expected

LEMMA CoverageAddsUp ==
  ASSUME NEW now \in Int, NEW rows, RowsOK(rows), NEW resultsFrom
  PROVE  PartsAddUp(R!FrameCoverage(rows, now, resultsFrom))
<1> DEFINE coverage == R!FrameCoverage(rows, now, resultsFrom)
<1> DEFINE due == {t \in DOMAIN rows : t <= R!LastDue(now)}
           slots == IF due = {} THEN {} ELSE R!Grid(R!Min(due), R!LastDue(now))
           class == [t \in slots |-> R!SlotClass(rows, t)]
           kind == [t \in slots |-> R!AnalysisClass(rows, t, resultsFrom)]
           covered == {t \in slots : class[t] \in {"complete", "partial"}}
           day(t) == t \div (SlotsPerDay * BaseDuration)
           Count(S, f, value) == R!Cardinality({t \in S : f[t] = value})
           Sum(S) == [expected |-> R!Cardinality(S),
                      finalized |-> R!Cardinality(S \cap covered),
                      missing |-> Count(S, class, "missing"),
                      building |-> Count(S, class, "building"),
                      analyzed |-> Count(S, kind, "analyzed"),
                      unanalyzed |-> Count(S, kind, "unanalyzed"),
                      unknown |-> Count(S, kind, "analysis_unknown")]
           of == [t \in slots |-> day(t)]
           days == {of[t] : t \in slots}
           OnDay(d) == {t \in slots : of[t] = d}
<1>1. /\ coverage.total = Sum(slots)
      /\ coverage.daily = [d \in {day(t) : t \in slots} |-> Sum({t \in slots : day(t) = d})]
      /\ coverage.intervals = R!Intervals(slots, covered)
  BY DEF R!FrameCoverage
<1> HIDE DEF coverage
<1>2. GridOf(slots)
  <2>1. CASE due = {}
    BY <2>1, FS_EmptySet DEF GridOf
  <2>2. CASE due # {}
    <3>1. due \subseteq DOMAIN rows
      OBVIOUS
    <3>2. IsFiniteSet(due) /\ due \subseteq Int
      BY <3>1, FS_Subset DEF RowsOK
    <3>3. Min(due) \in Int
      BY <2>2, <3>2, MinMaxFacts
    <3>4. R!LastDue(now) \in Int
      BY FloorFacts, LiveAssumption DEF R!LastDue
    <3>5. slots = R!Grid(Min(due), R!LastDue(now))
      BY <2>2, SameBounds
    <3> DEFINE a == Min(due)
               b == R!LastDue(now)
    <3> HIDE DEF due, a, b, slots
    <3>6. /\ IsFiniteSet(slots) /\ slots \subseteq Int
          /\ \A t \in Int : t \in slots <=> a <= t /\ t <= b /\ Aligned(t)
      <4>1. a \in Int /\ b \in Int /\ slots = R!Grid(a, b)
        BY <3>3, <3>4, <3>5 DEF a, b
      <4> QED BY <4>1, GridFacts
    <3>7. a \in Int /\ b \in Int
      BY <3>3, <3>4 DEF a, b
    <3> QED BY <3>6, <3>7 DEF GridOf
  <2> QED BY <2>1, <2>2
<1>3. days = {day(t) : t \in slots} /\ \A d \in days : OnDay(d) = {t \in slots : day(t) = d}
  OBVIOUS
<1>4. DOMAIN coverage.daily = days /\ \A d \in days : coverage.daily[d] = Sum(OnDay(d))
  <2>1. DOMAIN coverage.daily = days
    BY <1>1, <1>3
  <2>2. ASSUME NEW d \in days PROVE coverage.daily[d] = Sum(OnDay(d))
    <3>1. coverage.daily[d] = Sum({t \in slots : day(t) = d})
      <4> HIDE DEF Sum
      <4> QED BY <1>1, <1>3
    <3>2. {t \in slots : day(t) = d} = OnDay(d)
      BY <1>3
    <3> HIDE DEF Sum, OnDay
    <3> QED BY ONLY <3>1, <3>2, Zenon
  <2> QED BY <2>1, <2>2
<1>5. ASSUME NEW count, NEW A \in SUBSET slots,
             \A S \in SUBSET slots : Sum(S)[count] = Cardinality({t \in S : t \in A})
      PROVE  SumFunction([d \in DOMAIN coverage.daily |-> coverage.daily[d][count]])
               = coverage.total[count]
  <2> DEFINE f == [d \in DOMAIN coverage.daily |-> coverage.daily[d][count]]
  <2>1. ASSUME NEW d \in days
        PROVE  f[d] = Cardinality({t \in A : of[t] = d})
    <3>1. OnDay(d) \in SUBSET slots
      OBVIOUS
    <3> HIDE DEF Sum
    <3>2. f[d] = Cardinality({t \in OnDay(d) : t \in A})
      BY <1>4, <1>5, <3>1
    <3>3. {t \in OnDay(d) : t \in A} = {t \in A : of[t] = d}
      OBVIOUS
    <3> QED BY <3>2, <3>3
  <2>2. DOMAIN f = days
    BY <1>4
  <2>3. f = [d \in days |-> f[d]]
    BY <1>4
  <2> HIDE DEF f
  <2>4. f = [d \in days |-> Cardinality({t \in A : of[t] = d})]
    BY <2>1, <2>3
  <2> HIDE DEF of
  <2>5. SumFunction(f) = Cardinality(A)
    <3>1. IsFiniteSet(slots)
      BY <1>2 DEF GridOf
    <3> HIDE DEF slots
    <3> QED BY ONLY <1>5, <2>4, <3>1, AddUp DEF days
  <2>6. coverage.total[count] = Cardinality(A)
    <3>1. {t \in slots : t \in A} = A
      OBVIOUS
    <3>2. Sum(slots)[count] = Cardinality({t \in slots : t \in A})
      <4> HIDE DEF Sum
      <4> QED BY <1>5
    <3> HIDE DEF Sum
    <3> QED BY <1>1, <3>1, <3>2
  <2> QED BY <2>5, <2>6 DEF f
<1> HIDE DEF OnDay, days, of
<1>6. DOMAIN coverage.total = {"expected", "finalized", "missing", "building", "analyzed",
                               "unanalyzed", "unknown"}
  BY <1>1
<1>7. ASSUME NEW count \in DOMAIN coverage.total
      PROVE  \E A \in SUBSET slots :
               \A S \in SUBSET slots : Sum(S)[count] = Cardinality({t \in S : t \in A})
  <2> DEFINE Goal(A) == \A S \in SUBSET slots : Sum(S)[count] = Cardinality({t \in S : t \in A})
             Having(f, value) == {t \in slots : f[t] = value}
  <2> HIDE DEF slots, class, kind, covered
  <2>1. CASE count = "expected"
    <3>1. \A S \in SUBSET slots : {t \in S : t \in slots} = S
      OBVIOUS
    <3>2. Goal(slots)
      BY <2>1, <3>1, SameCount
    <3> HIDE DEF Goal
    <3> QED BY <3>2 DEF Goal
  <2>2. CASE count = "finalized"
    <3>1. \A S \in SUBSET slots : {t \in S : t \in covered} = S \cap covered
      OBVIOUS
    <3>2. Goal(covered)
      BY <2>2, <3>1, SameCount
    <3>3. covered \in SUBSET slots
      BY DEF covered
    <3> QED BY <3>2, <3>3
  <2>3. ASSUME NEW f, NEW value,
               \A S : Sum(S)[count] = R!Cardinality({t \in S : f[t] = value})
        PROVE  \E A \in SUBSET slots : Goal(A)
    <3>1. \A S \in SUBSET slots : {t \in S : t \in Having(f, value)} = {t \in S : f[t] = value}
      OBVIOUS
    <3> HIDE DEF Sum
    <3>2. Goal(Having(f, value))
      BY <2>3, <3>1, SameCount
    <3>3. Having(f, value) \in SUBSET slots
      OBVIOUS
    <3> HIDE DEF Having, Goal
    <3> QED BY <3>2, <3>3
  <2>4. CASE count = "missing"
    BY <2>3, <2>4
  <2>5. CASE count = "building"
    BY <2>3, <2>5
  <2>6. CASE count = "analyzed"
    BY <2>3, <2>6
  <2>7. CASE count = "unanalyzed"
    BY <2>3, <2>7
  <2>8. CASE count = "unknown"
    BY <2>3, <2>8
  <2> QED BY <1>6, <2>1, <2>2, <2>4, <2>5, <2>6, <2>7, <2>8
<1> HIDE DEF slots, covered
<1>8. coverage.total.expected = Cardinality(slots)
  BY <1>1, SameCount
<1> HIDE DEF Sum
<1>9. SumFunction([i \in coverage.intervals |-> (i[2] - i[1]) \div BaseDuration + 1])
        = Cardinality(slots)
  BY <1>1, <1>2, IntervalsAddUp
<1>10. \A count \in DOMAIN coverage.total :
         SumFunction([d \in DOMAIN coverage.daily |-> coverage.daily[d][count]])
           = coverage.total[count]
  BY <1>5, <1>7
<1> QED BY <1>8, <1>9, <1>10 DEF PartsAddUp, coverage

-----------------------------------------------------------------------------
(* The frames have a first one, and the clock is a number.                  *)

ReportsInv == clock \in Nat /\ FirstFrame \in Frames /\ frames[FirstFrame].status # "none"

LEMMA ReportsInit ==
  ASSUME Init
  PROVE  ReportsInv
<1>1. FirstFrame \in Frames /\ clock \in Nat
  BY LiveAssumption, WindowAssumption DEF Init, Frames
<1>2. PICK second \in {"none", "building"} :
        frames = [f \in Frames |->
            CASE f = FirstFrame -> [status |-> "complete", members |-> Members(FirstFrame),
                                    finalizedAt |-> BaseDuration * FirstFrame]
              [] f = FirstFrame + 1 -> [NoFrame EXCEPT !.status = second]
              [] OTHER -> NoFrame]
  BY DEF Init
<1>3. FirstFrame # FirstFrame + 1
  BY LiveAssumption
<1>4. frames[FirstFrame].status = "complete"
  BY <1>1, <1>2, <1>3
<1> QED BY <1>1, <1>4 DEF ReportsInv

LEMMA ReportsStep ==
  ASSUME ReportsInv, FramesOK, [Next]_vars
  PROVE  ReportsInv'
<1>1. clock' \in Nat
  <2>1. clock' = clock \/ clock' = clock + 1
    BY DEF Next, vars, Market, Tick, Build, Finalize, RecoveryLooks, RecoveryTakes, Analyze,
           Fails, PublishCheck, ReadMarker, Insert, Edit, Begin, Deliver, ReadFrames,
           LoadResults, ReadLong, ReadShort, StartWalk, NextPage, PreviousSnapshot
  <2> QED BY <2>1 DEF ReportsInv
<1>2. frames'[FirstFrame].status # "none"
  <2>1. CASE UNCHANGED frames
    BY <2>1 DEF ReportsInv
  <2>2. ASSUME NEW f \in Frames, Build(f) PROVE frames'[FirstFrame].status # "none"
    BY <2>2 DEF Build, ReportsInv, FramesOK
  <2>3. ASSUME NEW f \in Frames, Finalize(f) PROVE frames'[FirstFrame].status # "none"
    BY <2>3 DEF Finalize, ReportsInv, FramesOK
  <2>4. UNCHANGED frames \/ \E f \in Frames : Build(f) \/ Finalize(f)
    BY DEF Next, vars, Market, Tick, RecoveryLooks, RecoveryTakes, Analyze, Fails, PublishCheck,
           ReadMarker, Insert, Edit, Begin, Deliver, ReadFrames, LoadResults, ReadLong, ReadShort,
           StartWalk, NextPage, PreviousSnapshot
  <2> QED BY <2>1, <2>2, <2>3, <2>4
<1> QED BY <1>1, <1>2 DEF ReportsInv

LEMMA RowsAreOK ==
  ASSUME ReportsInv
  PROVE  RowsOK(Rows)
<1> DEFINE G == {g \in Frames : frames[g].status # "none"}
           at == [g \in G |-> BaseDuration * g]
<1>1. DOMAIN Rows = {at[g] : g \in G}
  BY DEF Rows
<1>2. IsFiniteSet(G)
  <2>1. IsFiniteSet(Frames)
    BY FS_Interval, LiveAssumption DEF Frames
  <2> QED BY <2>1, FS_Subset
<1>3. FirstFrame \in G
  BY DEF ReportsInv
<1>4. \A g \in G : at[g] \in Int /\ Aligned(at[g])
  <2> SUFFICES ASSUME NEW g \in G PROVE BaseDuration * g \in Int /\ Aligned(BaseDuration * g)
    OBVIOUS
  <2>1. g \in Int
    BY LiveAssumption DEF Frames
  <2> QED BY <2>1, Multiple, WindowAssumption
<1> HIDE DEF G, at
<1>5. IsFiniteSet({at[g] : g \in G})
  BY <1>2, ImageIsFinite
<1> QED BY <1>1, <1>3, <1>4, <1>5 DEF RowsOK

(* However the frames come and whenever they are read, the four reads count  *)
(* the same: what the last day misses, what waits for its analysis, and the  *)
(* days and intervals of the whole coverage (missed_frames,                  *)
(* count_unanalyzed_frames, recent_continuity, frame_coverage).              *)
THEOREM ReadsAgree == Spec => []ReportsAgree
<1>1. Init => FramesOK /\ ReportsInv
  BY FramesInit, ReportsInit
<1>2. FramesOK /\ ReportsInv /\ [Next]_vars => FramesOK' /\ ReportsInv'
  BY FramesStep, ReportsStep
<1>3. ASSUME ReportsInv PROVE ReportsAgree
  <2> DEFINE from == IF Analyzed = {} THEN None ELSE BaseDuration * Min(Analyzed)
             coverage == R!FrameCoverage(Rows, clock, from)
  <2>1. clock \in Int /\ RowsOK(Rows)
    BY <1>3, RowsAreOK DEF ReportsInv
  <2> DEFINE rows == Rows
  <2>2. RowsOK(rows) /\ clock \in Int
    BY <2>1
  <2> HIDE DEF from, rows
  <2>3. PartsAddUp(R!FrameCoverage(rows, clock, from))
    BY ONLY <2>2, CoverageAddsUp
  <2>4. PartsAddUp(coverage)
    BY <2>3 DEF rows, from
  <2> HIDE DEF coverage
  <2> QED BY <2>1, <2>4, MissedAgree, UnanalyzedAgree DEF ReportsAgree, PartsAddUp, coverage, from
<1> QED BY <1>1, <1>2, <1>3, PTL DEF Spec
=============================================================================
