------------------------- MODULE EventQueriesProofs -------------------------
(***************************************************************************)
(* Proofs about EventQueries, for every table, every LIMIT and every       *)
(* moment at which a source writes between two SELECTs of a request.       *)
(***************************************************************************)
EXTENDS EventQueries, FiniteSetTheorems, TLAPS

(***************************************************************************)
(* ORDER BY .. LIMIT n.  An order is a relation, so that a fact about one  *)
(* can be cited for each.                                                  *)
(***************************************************************************)
Ahead(S, R, e) == {f \in S : <<f, e>> \in R}
Rank(S, R, e) == Cardinality(Ahead(S, R, e))
Top(S, n, R) == {e \in S : Rank(S, R, e) < n}

Orders(R, S) ==
    /\ \A e \in S : <<e, e>> \notin R
    /\ \A e, f, g \in S : <<e, f>> \in R /\ <<f, g>> \in R => <<e, g>> \in R
    /\ \A e, f \in S : e # f => <<e, f>> \in R \/ <<f, e>> \in R

LEMMA RankType ==
  ASSUME NEW S, IsFiniteSet(S), NEW R, Orders(R, S), NEW e \in S
  PROVE  /\ Rank(S, R, e) \in 0..(Cardinality(S) - 1) /\ Cardinality(S) \in Nat
         /\ IsFiniteSet(Ahead(S, R, e))
  <1>1. Ahead(S, R, e) \in SUBSET S /\ Ahead(S, R, e) # S
    BY DEF Ahead, Orders
  <1>2. /\ IsFiniteSet(Ahead(S, R, e)) /\ Rank(S, R, e) <= Cardinality(S)
        /\ Rank(S, R, e) # Cardinality(S)
    BY <1>1, FS_Subset DEF Rank
  <1>3. Rank(S, R, e) \in Nat /\ Cardinality(S) \in Nat
    BY <1>2, FS_CardinalityType DEF Rank
  <1> QED
    BY <1>2, <1>3

LEMMA RankGrows ==
  ASSUME NEW S, IsFiniteSet(S), NEW R, Orders(R, S), NEW e \in S, NEW f \in S, <<f, e>> \in R
  PROVE  Rank(S, R, f) < Rank(S, R, e)
  <1>1. Ahead(S, R, f) \in SUBSET Ahead(S, R, e) /\ Ahead(S, R, f) # Ahead(S, R, e)
    BY DEF Ahead, Orders
  <1>2. Rank(S, R, f) <= Rank(S, R, e) /\ Rank(S, R, f) # Rank(S, R, e)
    BY <1>1, RankType, FS_Subset DEF Rank
  <1> QED
    BY <1>2, RankType

LEMMA RankIsOrder ==
  ASSUME NEW S, IsFiniteSet(S), NEW R, Orders(R, S), NEW e \in S, NEW f \in S, e # f
  PROVE  /\ Rank(S, R, f) < Rank(S, R, e) <=> <<f, e>> \in R
         /\ Rank(S, R, f) # Rank(S, R, e)
  <1>1. <<f, e>> \in R \/ <<e, f>> \in R
    BY DEF Orders
  <1>2. CASE <<f, e>> \in R
    BY <1>2, RankGrows, RankType
  <1>3. CASE <<e, f>> \in R
    <2>1. <<f, e>> \notin R
      BY <1>3 DEF Orders
    <2> QED
      BY <1>3, <2>1, RankGrows, RankType
  <1> QED
    BY <1>1, <1>2, <1>3

\* Every rank below the number of elements is somebody's.
LEMMA RanksAreTaken ==
  ASSUME NEW S, IsFiniteSet(S), NEW R, Orders(R, S), NEW k \in 0..(Cardinality(S) - 1)
  PROVE  \E e \in S : Rank(S, R, e) = k
  <1> DEFINE ranks == 0..(Cardinality(S) - 1)
             rank == [e \in S |-> Rank(S, R, e)]
  <1>1. Cardinality(S) \in Nat
    BY FS_CardinalityType
  <1>2. IsFiniteSet(ranks) /\ Cardinality(ranks) = Cardinality(S)
    BY <1>1, FS_Interval
  <1>3. rank \in Injection(S, ranks)
    <2>1. rank \in [S -> ranks]
      BY RankType
    <2>2. \A a, b \in S : rank[a] = rank[b] => a = b
      BY RankIsOrder
    <2> QED
      BY <2>1, <2>2 DEF Injection, IsInjective
  <1>4. rank \in Surjection(S, ranks)
    BY <1>2, <1>3, FS_Injection
  <1> QED
    BY <1>4 DEF Surjection

\* A list is full if anything is left out, and what is left out comes after.
LEMMA TopIsFull ==
  ASSUME NEW S, IsFiniteSet(S), NEW R, Orders(R, S), NEW n \in Nat,
         NEW e \in S, e \notin Top(S, n, R)
  PROVE  /\ Cardinality(Top(S, n, R)) = n
         /\ \A f \in Top(S, n, R) : <<f, e>> \in R
  <1>1. Rank(S, R, e) >= n
    BY RankType DEF Top
  <1>2. \A f \in Top(S, n, R) : <<f, e>> \in R
    BY <1>1, RankType, RankIsOrder DEF Top
  <1>3. n \in 0..(Cardinality(S) - 1) /\ Cardinality(S) \in Nat
    BY <1>1, RankType
  <1> DEFINE rank == [f \in Top(S, n, R) |-> Rank(S, R, f)]
  <1>4. rank \in Injection(Top(S, n, R), 0..(n - 1))
    <2>1. rank \in [Top(S, n, R) -> 0..(n - 1)]
      <3>1. ASSUME NEW f \in Top(S, n, R) PROVE Rank(S, R, f) \in 0..(n - 1)
        BY RankType DEF Top
      <3> QED
        BY <3>1
    <2>2. \A a, b \in Top(S, n, R) : rank[a] = rank[b] => a = b
      BY RankIsOrder DEF Top
    <2> QED
      BY <2>1, <2>2 DEF Injection, IsInjective
  <1>5. rank \in Surjection(Top(S, n, R), 0..(n - 1))
    <2>1. ASSUME NEW k \in 0..(n - 1) PROVE \E f \in Top(S, n, R) : rank[f] = k
      <3>1. PICK f \in S : Rank(S, R, f) = k
        BY <1>3, RanksAreTaken
      <3>2. f \in Top(S, n, R)
        BY <3>1 DEF Top
      <3> QED
        BY <3>1, <3>2
    <2> QED
      BY <1>4, <2>1 DEF Injection, Surjection
  <1>6. IsFiniteSet(0..(n - 1)) /\ Cardinality(0..(n - 1)) = n
    BY FS_Interval
  <1> QED
    BY <1>2, <1>4, <1>5, <1>6, FS_Injection

\* Whatever is finite and ordered has a first element.
LEMMA SomebodyIsFirst ==
  ASSUME NEW S, IsFiniteSet(S), NEW R, Orders(R, S), S # {}
  PROVE  \E e \in S : \A f \in S : e # f => <<e, f>> \in R
  <1>1. Cardinality(S) \in Nat /\ Cardinality(S) # 0
    BY FS_CardinalityType, FS_EmptySet
  <1>2. PICK e \in S : Rank(S, R, e) = 0
    BY <1>1, RanksAreTaken
  <1>3. ASSUME NEW f \in S, e # f PROVE <<e, f>> \in R
    BY <1>2, <1>3, RankType, RankIsOrder
  <1> QED
    BY <1>3

-----------------------------------------------------------------------------
(***************************************************************************)
(* What a request has read.                                                *)
(***************************************************************************)
\* A table of events, or what was read from one.
Table(E) ==
    /\ E \in SUBSET Catalogue /\ IsFiniteSet(E)
    /\ \A e, f \in E : e.id = f.id => e = f

\* The orders of the lists, on rows E.
NewestFirst(E) == {p \in E \X E : Newer(p[1], p[2])}
OldestFirst(E) == {p \in E \X E : Older(p[1], p[2])}

Inside(q, e) == q.from <= e.at /\ e.at <= q.to
Is(e, hazard, hours) == e.hazard = hazard /\ e.age <= hours
NearIndia(q, e) == 60 <= e.at /\ e.at <= 380 /\ e.age <= q.hours

\* The names of SELECTs.
Selections == {"quakes", "magnitudes", "mainshocks", "sequence", "gauges", "storms", "floods",
               "fires", "cyclones", "page", "count", "context", "rows"}

\* The SELECTs the properties are about, and what each looks for.
Tracked(q) ==
    CASE q.endpoint = "list" -> {"page", "count"}
      [] q.endpoint \in {"threats", "cascades"} -> {"rows"}
      [] q.endpoint = "earthquake" -> {"quakes", "mainshocks"}
      [] q.endpoint = "wildfire" -> {"fires"}
      [] q.endpoint = "risk" -> {"quakes", "floods", "fires", "cyclones"}
      [] q.endpoint = "grid" -> {"quakes", "magnitudes", "floods", "fires", "cyclones"}
      [] OTHER -> {}

Wants(select, q, e) ==
    IF q.endpoint = "list" THEN Inside(q, e) /\ q.hazard \in {"any", e.hazard} /\ Dated(q, e)
    ELSE IF q.endpoint \in {"threats", "cascades"} THEN NearIndia(q, e)
    ELSE
    CASE select \in {"quakes", "magnitudes"} -> Is(e, "earthquake", 720) /\ Inside(q, e)
      [] select = "mainshocks" -> Is(e, "earthquake", 168) /\ Inside(q, e) /\ e.magnitude >= 45
      [] select = "floods" -> Is(e, "flood", 72) /\ Inside(q, e)
      [] select = "fires" -> Is(e, "wildfire", 24) /\ Inside(q, e)
      [] select = "cyclones" -> Is(e, "cyclone", 48) /\ Inside(q, e)

\* What it looks for may be missing only beyond its LIMIT or before its OFFSET.
CutOff(select, q, rows, e) ==
    \/ /\ q.endpoint = "list" /\ select = "page"
       /\ \/ Cardinality(rows) = q.limit /\ \A f \in rows : f.age <= e.age
          \/ q.offset > 0 /\ \A f \in rows : f.age >= e.age
    \/ /\ q.endpoint = "threats"
       /\ Cardinality(rows) = Limits.threats /\ \A f \in rows : f.age <= e.age
    \/ q.endpoint = "cascades" /\ Cardinality(rows) = Limits.cascades

Found(select, q, rows, S) ==
    /\ Table(rows) /\ \A e \in rows : Wants(select, q, e)
    /\ \A e \in S \ rows : Wants(select, q, e) => CutOff(select, q, rows, e)

LEMMA EventType ==
  ASSUME NEW e \in Catalogue
  PROVE  /\ e.id \in Nat /\ e.hazard \in Hazards /\ e.age \in Nat /\ e.at \in Int
         /\ e.magnitude \in -20..120 \cup {Null} /\ e.magnitude \in Int
         /\ e.intensity \in Nat \cup {Null} /\ e.wind \in Nat \cup {Null}
         /\ e.intensity \in Int /\ e.wind \in Int
  <1>1. e \in [id : Nat, hazard : Hazards, age : Nat, at : Int,
               magnitude : -20..120 \cup {Null}, intensity : Nat \cup {Null},
               wind : Nat \cup {Null}, basin : STRING]
    BY EventTableAssumption
  <1> QED
    BY <1>1 DEF Null

LEMMA PartOfTable ==
  ASSUME NEW E, Table(E), NEW S \in SUBSET E
  PROVE  Table(S)
  BY FS_Subset DEF Table

LEMMA OrdersOfTables ==
  ASSUME NEW E, Table(E)
  PROVE  /\ Orders(NewestFirst(E), E) /\ Orders(OldestFirst(E), E)
         /\ \A n : First(E, n, Newer) = Top(E, n, NewestFirst(E))
         /\ \A n : First(E, n, Older) = Top(E, n, OldestFirst(E))
  <1>1. \A e \in E : e.age \in Nat /\ e.id \in Nat
    BY EventType DEF Table
  <1>2. \A e, f \in E : e # f => e.id # f.id
    BY DEF Table
  <1>3. Orders(NewestFirst(E), E)
    BY <1>1, <1>2 DEF Orders, NewestFirst, Newer
  <1>4. Orders(OldestFirst(E), E)
    BY <1>1, <1>2 DEF Orders, OldestFirst, Older
  <1>5. ASSUME NEW e \in E
        PROVE  /\ {f \in E : Newer(f, e)} = Ahead(E, NewestFirst(E), e)
               /\ {f \in E : Older(f, e)} = Ahead(E, OldestFirst(E), e)
    BY DEF Ahead, NewestFirst, OldestFirst
  <1>6. ASSUME NEW n
        PROVE  /\ First(E, n, Newer) = Top(E, n, NewestFirst(E))
               /\ First(E, n, Older) = Top(E, n, OldestFirst(E))
    BY <1>5 DEF First, Top, Rank
  <1> QED
    BY <1>3, <1>4, <1>6

LEMMA NewerIsYounger ==
  ASSUME NEW x \in Catalogue, NEW y \in Catalogue, Newer(y, x)
  PROVE  y.age <= x.age
  BY EventType DEF Newer

\* A list of a table, newest or oldest first.
LEMMA FirstOfTable ==
  ASSUME NEW E, Table(E), NEW n \in Nat
  PROVE  /\ Table(First(E, n, Newer)) /\ Table(First(E, n, Older))
         /\ First(E, n, Newer) \in SUBSET E /\ First(E, n, Older) \in SUBSET E
         /\ \A x \in E \ First(E, n, Newer) :
               /\ Cardinality(First(E, n, Newer)) = n
               /\ \A y \in First(E, n, Newer) : y.age <= x.age
         /\ \A x \in E \ First(E, n, Older) : Cardinality(First(E, n, Older)) = n
  <1>1. First(E, n, Newer) \in SUBSET E /\ First(E, n, Older) \in SUBSET E
    BY DEF First
  <1>2. ASSUME NEW x \in E \ First(E, n, Newer)
        PROVE  /\ Cardinality(First(E, n, Newer)) = n
               /\ \A y \in First(E, n, Newer) : y.age <= x.age
    <2>1. /\ Cardinality(First(E, n, Newer)) = n
          /\ \A y \in First(E, n, Newer) : <<y, x>> \in NewestFirst(E)
      BY <1>2, OrdersOfTables, TopIsFull DEF Table
    <2>2. ASSUME NEW y \in First(E, n, Newer) PROVE y.age <= x.age
      <3>1. Newer(y, x)
        BY <2>1 DEF NewestFirst
      <3>2. y \in Catalogue /\ x \in Catalogue
        BY <1>1 DEF Table
      <3> QED
        BY <3>1, <3>2, NewerIsYounger
    <2> QED
      BY <2>1, <2>2
  <1>3. ASSUME NEW x \in E \ First(E, n, Older)
        PROVE  Cardinality(First(E, n, Older)) = n
    BY <1>3, OrdersOfTables, TopIsFull DEF Table
  <1> QED
    BY <1>1, <1>2, <1>3, PartOfTable

\* Nothing is on top of an empty list, and a longer list has what a shorter has.
LEMMA FirstGrows ==
  ASSUME NEW E, Table(E), NEW m \in Nat, NEW n \in Nat, m <= n
  PROVE  /\ First(E, m, Newer) \in SUBSET First(E, n, Newer)
         /\ First(E, 0, Newer) = {}
  <1>1. Orders(NewestFirst(E), E) /\ \A k : First(E, k, Newer) = Top(E, k, NewestFirst(E))
    BY OrdersOfTables
  <1>2. \A e \in E : Rank(E, NewestFirst(E), e) \in Nat
    BY <1>1, RankType DEF Table
  <1> QED
    BY <1>1, <1>2 DEF Top

\* A page of a table's list.
LEMMA PageOfTable ==
  ASSUME NEW E, Table(E), NEW limit \in Nat, NEW offset \in Nat
  PROVE  /\ Table(Page(E, limit, offset)) /\ Page(E, limit, offset) \in SUBSET E
         /\ \A x \in E \ Page(E, limit, offset) :
               \/ /\ Cardinality(Page(E, limit, offset)) = limit
                  /\ \A y \in Page(E, limit, offset) : y.age <= x.age
               \/ offset > 0 /\ \A y \in Page(E, limit, offset) : y.age >= x.age
  <1> DEFINE before == First(E, offset, Newer)
             upTo == First(E, offset + limit, Newer)
             page == upTo \ before
  <1>1. Page(E, limit, offset) = page
    BY DEF Page
  <1>2. offset + limit \in Nat /\ offset <= offset + limit
    OBVIOUS
  <1>3. /\ before \in SUBSET upTo /\ upTo \in SUBSET E
        /\ offset = 0 => before = {}
    BY <1>2, FirstGrows, FirstOfTable
  <1>4. /\ \A x \in E \ before : Cardinality(before) = offset /\ \A y \in before : y.age <= x.age
        /\ \A x \in E \ upTo : Cardinality(upTo) = offset + limit /\ \A y \in upTo : y.age <= x.age
    BY <1>2, FirstOfTable
  <1>5. IsFiniteSet(upTo) /\ IsFiniteSet(before)
    BY <1>3, FS_Subset DEF Table
  <1> HIDE DEF before, upTo
  <1>6. Table(page) /\ page \in SUBSET E
    BY <1>3, PartOfTable
  <1>7. ASSUME NEW x \in E \ page
        PROVE  \/ Cardinality(page) = limit /\ \A y \in page : y.age <= x.age
               \/ offset > 0 /\ \A y \in page : y.age >= x.age
    <2>1. CASE x \in before
      <3>1. offset # 0
        BY <1>3, <2>1
      <3>2. ASSUME NEW y \in page PROVE y.age >= x.age
        <4>1. x.age <= y.age /\ x \in Catalogue /\ y \in Catalogue
          BY <1>3, <1>4, <1>6, <2>1 DEF Table
        <4> QED
          BY <4>1, EventType
      <3> QED
        BY <3>1, <3>2
    <2>2. CASE x \notin upTo
      <3>1. x \notin before /\ Cardinality(upTo) = offset + limit /\ Cardinality(before) = offset
        BY <1>3, <1>4, <2>2
      <3>2. before \cap upTo = before
        BY <1>3
      <3>3. Cardinality(page) = offset + limit - offset
        BY <1>5, <3>1, <3>2, FS_Difference
      <3> QED
        BY <1>4, <2>2, <3>3
    <2> QED
      BY <2>1, <2>2
  <1> HIDE DEF page
  <1> QED
    BY <1>1, <1>6, <1>7

\* Each SELECT finds what it looks for among the rows there are.
LEMMA SelectFinds ==
  ASSUME Table(events), standing \subseteq events, NEW q \in Inquiries,
         NEW select \in Tracked(q)
  PROVE  Found(select, q, RowsOf(select, q), standing)
  <1> DEFINE wanted == {e \in events : Wants(select, q, e)}
  <1>1. Table(wanted)
    BY PartOfTable
  <1>2. ASSUME RowsOf(select, q) = wanted
        PROVE  Found(select, q, RowsOf(select, q), standing)
    BY <1>1, <1>2 DEF Found
  <1>3. CASE q.endpoint = "list"
    <2>1. Matching(q) = wanted
      <3>1. \A e : Wants(select, q, e) <=>
                    Inside(q, e) /\ q.hazard \in {"any", e.hazard} /\ Dated(q, e)
        BY <1>3 DEF Wants
      <3> QED
        BY <3>1 DEF Matching, Between, Inside
    <2>2. CASE select = "count"
      <3>1. RowsOf(select, q) = wanted
        BY <1>3, <2>1, <2>2 DEF RowsOf, Predictions
      <3> QED
        BY <1>2, <3>1
    <2>3. CASE select = "page"
      <3>1. RowsOf(select, q) = Page(wanted, q.limit, q.offset)
        BY <1>3, <2>1, <2>3 DEF RowsOf, Predictions
      <3>2. q.limit \in Nat /\ q.offset \in Nat
        BY <1>3, InquiriesAssumption
      <3> HIDE DEF wanted
      <3>3. /\ Table(RowsOf(select, q)) /\ RowsOf(select, q) \in SUBSET wanted
            /\ \A e \in wanted \ RowsOf(select, q) :
                  \/ /\ Cardinality(RowsOf(select, q)) = q.limit
                     /\ \A f \in RowsOf(select, q) : f.age <= e.age
                  \/ q.offset > 0 /\ \A f \in RowsOf(select, q) : f.age >= e.age
        <4> DEFINE limit == q.limit
                   offset == q.offset
        <4>1. limit \in Nat /\ offset \in Nat /\ RowsOf(select, q) = Page(wanted, limit, offset)
          BY <3>1, <3>2
        <4> HIDE DEF limit, offset
        <4>2. /\ Table(RowsOf(select, q)) /\ RowsOf(select, q) \in SUBSET wanted
              /\ \A e \in wanted \ RowsOf(select, q) :
                    \/ /\ Cardinality(RowsOf(select, q)) = limit
                       /\ \A f \in RowsOf(select, q) : f.age <= e.age
                    \/ offset > 0 /\ \A f \in RowsOf(select, q) : f.age >= e.age
          BY <1>1, <4>1, PageOfTable
        <4> QED
          BY <4>2 DEF limit, offset
      <3> QED
        BY <1>3, <2>3, <3>3 DEF Found, CutOff, wanted
    <2> QED
      BY <1>3, <2>2, <2>3 DEF Tracked
  <1>4. CASE q.endpoint \in {"threats", "cascades"}
    <2>1. InIndia(Last(q.hours)) = wanted
      <3>1. \A e : Wants(select, q, e) <=> NearIndia(q, e)
        BY <1>4 DEF Wants
      <3> QED
        BY <3>1 DEF InIndia, Between, Last, NearIndia
    <2>2. Limits.threats \in Nat /\ Limits.cascades \in Nat
      BY EventTableAssumption
    <2>3. select = "rows"
      BY <1>4 DEF Tracked
    <2>4. CASE q.endpoint = "threats"
      <3> DEFINE n == Limits.threats
      <3>1. RowsOf(select, q) = First(wanted, n, Newer) /\ n \in Nat
        BY <2>1, <2>2, <2>3, <2>4 DEF RowsOf, Predictions, SentinelRows
      <3> HIDE DEF wanted, n
      <3>2. /\ Table(RowsOf(select, q)) /\ RowsOf(select, q) \in SUBSET wanted
            /\ \A e \in wanted \ RowsOf(select, q) :
                  /\ Cardinality(RowsOf(select, q)) = n
                  /\ \A f \in RowsOf(select, q) : f.age <= e.age
        BY <1>1, <3>1, FirstOfTable
      <3> QED
        BY <2>4, <3>2 DEF Found, CutOff, wanted, n
    <2>5. CASE q.endpoint = "cascades"
      <3> DEFINE n == Limits.cascades
      <3>1. RowsOf(select, q) = First(wanted, n, Older) /\ n \in Nat
        BY <2>1, <2>2, <2>3, <2>5 DEF RowsOf, Predictions, SentinelRows
      <3> HIDE DEF wanted, n
      <3>2. /\ Table(RowsOf(select, q)) /\ RowsOf(select, q) \in SUBSET wanted
            /\ \A e \in wanted \ RowsOf(select, q) :
                  Cardinality(RowsOf(select, q)) = n
        BY <1>1, <3>1, FirstOfTable
      <3> QED
        BY <2>5, <3>2 DEF Found, CutOff, wanted, n
    <2> QED
      BY <1>4, <2>4, <2>5
  <1>5. CASE q.endpoint \in {"earthquake", "wildfire", "risk", "grid"}
    <2>1. select \in {"quakes", "magnitudes", "mainshocks", "floods", "fires", "cyclones"}
      BY <1>5 DEF Tracked
    <2>2. RowsOf(select, q) = PredictRows(select, q)
      <3>1. q.endpoint \in Predictions
        BY <1>5 DEF Predictions
      <3> QED
        BY <1>5, <2>1, <3>1 DEF RowsOf
    <2>3. PredictRows(select, q) = wanted
      <3>1. CASE select \in {"quakes", "magnitudes"}
        <4>1. \A e : Wants(select, q, e) <=> Is(e, "earthquake", 720) /\ Inside(q, e)
          BY <1>5, <3>1 DEF Wants
        <4>2. PredictRows(select, q) = Between(Of("earthquake", 720), q.from, q.to)
          BY <3>1 DEF PredictRows
        <4> QED
          BY <4>1, <4>2 DEF Of, Between, Inside, Is
      <3>2. CASE select = "mainshocks"
        <4>1. \A e : Wants(select, q, e) <=>
                 Is(e, "earthquake", 168) /\ Inside(q, e) /\ e.magnitude >= 45
          BY <1>5, <3>2 DEF Wants
        <4>2. PredictRows(select, q) =
                 {e \in Between(Of("earthquake", 168), q.from, q.to) : e.magnitude >= 45}
          BY <3>2 DEF PredictRows
        <4> QED
          BY <4>1, <4>2 DEF Of, Between, Inside, Is
      <3>3. CASE select = "floods"
        <4>1. \A e : Wants(select, q, e) <=> Is(e, "flood", 72) /\ Inside(q, e)
          BY <1>5, <3>3 DEF Wants
        <4>2. PredictRows(select, q) = Between(Of("flood", 72), q.from, q.to)
          BY <3>3 DEF PredictRows
        <4> QED
          BY <4>1, <4>2 DEF Of, Between, Inside, Is
      <3>4. CASE select = "fires"
        <4>1. \A e : Wants(select, q, e) <=> Is(e, "wildfire", 24) /\ Inside(q, e)
          BY <1>5, <3>4 DEF Wants
        <4>2. PredictRows(select, q) = Between(Of("wildfire", 24), q.from, q.to)
          BY <3>4 DEF PredictRows
        <4> QED
          BY <4>1, <4>2 DEF Of, Between, Inside, Is
      <3>5. CASE select = "cyclones"
        <4>1. \A e : Wants(select, q, e) <=> Is(e, "cyclone", 48) /\ Inside(q, e)
          BY <1>5, <3>5 DEF Wants
        <4>2. PredictRows(select, q) = Between(Of("cyclone", 48), q.from, q.to)
          BY <3>5 DEF PredictRows
        <4> QED
          BY <4>1, <4>2 DEF Of, Between, Inside, Is
      <3> QED
        BY <2>1, <3>1, <3>2, <3>3, <3>4, <3>5
    <2> QED
      BY <1>2, <2>2, <2>3
  <1> QED
    BY <1>3, <1>4, <1>5 DEF Tracked

LEMMA FoundAmongFewer ==
  ASSUME NEW select, NEW q, NEW rows, NEW S, Found(select, q, rows, S), NEW T \in SUBSET S
  PROVE  Found(select, q, rows, T)
  BY DEF Found

-----------------------------------------------------------------------------
(***************************************************************************)
(* The invariant of a request.                                             *)
(***************************************************************************)
\* A SELECT is still to come, or what it found is kept.
Progress(q, todo, read) ==
    \A s \in Tracked(q) : s \in DOMAIN read \/ \E i \in DOMAIN todo : todo[i] = s

AllFound(q, read, S) ==
    \A s \in Tracked(q) : s \in DOMAIN read => Found(s, q, read[s], S)

RequestInv ==
    query # NoQuery =>
      /\ query = [ask |-> query.ask, todo |-> query.todo, read |-> query.read,
                  revised |-> query.revised]
      /\ query.ask \in Inquiries /\ query.todo \in Seq(Selections)
      /\ Progress(query.ask, query.todo, query.read)
      /\ AllFound(query.ask, query.read, standing)

QueryInv == Table(events) /\ standing \subseteq events /\ RequestInv

LEMMA SelectsTracked ==
  ASSUME NEW q
  PROVE  /\ Selects(q) \in Seq(Selections)
         /\ \A s \in Tracked(q) : \E i \in DOMAIN Selects(q) : Selects(q)[i] = s
  <1>1. CASE q.endpoint \in Predictions
    <2>1. Selects(q) = PredictSelects(q.endpoint)
      BY <1>1 DEF Selects, Predictions
    <2>2. CASE q.endpoint = "earthquake"
      <3> DEFINE t == <<"quakes", "mainshocks", "sequence">>
      <3>1. Selects(q) = t
        BY <2>1, <2>2 DEF PredictSelects
      <3>2. t \in Seq(Selections) /\ DOMAIN t = 1..3
        BY DEF Selections
      <3>3. t[1] = "quakes" /\ t[2] = "mainshocks"
        OBVIOUS
      <3>4. Tracked(q) = {"quakes", "mainshocks"}
        BY <2>2 DEF Tracked
      <3> HIDE DEF t
      <3> QED
        BY <3>1, <3>2, <3>3, <3>4
    <2>3. CASE q.endpoint = "flood"
      <3> DEFINE t == <<"gauges">>
      <3>1. Selects(q) = t
        BY <2>1, <2>3 DEF PredictSelects
      <3>2. t \in Seq(Selections) /\ DOMAIN t = 1..1
        BY DEF Selections
      <3>3. Tracked(q) = {}
        BY <2>3 DEF Tracked
      <3> QED
        BY <3>1, <3>2, <3>3
    <2>4. CASE q.endpoint = "cyclone"
      <3> DEFINE t == <<"storms">>
      <3>1. Selects(q) = t
        BY <2>1, <2>4 DEF PredictSelects
      <3>2. t \in Seq(Selections) /\ DOMAIN t = 1..1
        BY DEF Selections
      <3>3. Tracked(q) = {}
        BY <2>4 DEF Tracked
      <3> QED
        BY <3>1, <3>2, <3>3
    <2>5. CASE q.endpoint = "wildfire"
      <3> DEFINE t == <<"fires">>
      <3>1. Selects(q) = t
        BY <2>1, <2>5 DEF PredictSelects
      <3>2. t \in Seq(Selections) /\ DOMAIN t = 1..1
        BY DEF Selections
      <3>3. t[1] = "fires"
        OBVIOUS
      <3>4. Tracked(q) = {"fires"}
        BY <2>5 DEF Tracked
      <3> HIDE DEF t
      <3> QED
        BY <3>1, <3>2, <3>3, <3>4
    <2>6. CASE q.endpoint = "risk"
      <3> DEFINE t == <<"quakes", "floods", "fires", "cyclones">>
      <3>1. Selects(q) = t
        BY <2>1, <2>6 DEF PredictSelects
      <3>2. t \in Seq(Selections) /\ DOMAIN t = 1..4
        BY DEF Selections
      <3>3. t[1] = "quakes" /\ t[2] = "floods" /\ t[3] = "fires" /\ t[4] = "cyclones"
        OBVIOUS
      <3>4. Tracked(q) = {"quakes", "floods", "fires", "cyclones"}
        BY <2>6 DEF Tracked
      <3> HIDE DEF t
      <3> QED
        BY <3>1, <3>2, <3>3, <3>4
    <2>7. CASE q.endpoint = "grid"
      <3> DEFINE t == <<"quakes", "magnitudes", "floods", "fires", "cyclones">>
      <3>1. Selects(q) = t
        BY <2>1, <2>7 DEF PredictSelects
      <3>2. t \in Seq(Selections) /\ DOMAIN t = 1..5
        BY DEF Selections
      <3>3. t[1] = "quakes" /\ t[2] = "magnitudes" /\ t[3] = "floods" /\ t[4] = "fires" /\ t[5] = "cyclones"
        OBVIOUS
      <3>4. Tracked(q) = {"quakes", "magnitudes", "floods", "fires", "cyclones"}
        BY <2>7 DEF Tracked
      <3> HIDE DEF t
      <3> QED
        BY <3>1, <3>2, <3>3, <3>4
    <2> QED
      BY <1>1, <2>2, <2>3, <2>4, <2>5, <2>6, <2>7 DEF Predictions
  <1>2. CASE q.endpoint = "list"
    <2> DEFINE t == <<"page", "count">>
    <2>1. Selects(q) = t /\ Tracked(q) = {"page", "count"}
      BY <1>2 DEF Selects, Predictions, Tracked
    <2>2. t \in Seq(Selections) /\ DOMAIN t = 1..2 /\ t[1] = "page" /\ t[2] = "count"
      BY DEF Selections
    <2> HIDE DEF t
    <2> QED
      BY <2>1, <2>2
  <1>3. CASE q.endpoint \in {"explain", "landslide"}
    <2>1. Tracked(q) = {}
      BY <1>3 DEF Tracked
    <2>2. Selects(q) = <<>> \/ Selects(q) = <<"context">>
      BY <1>3 DEF Selects, Predictions
    <2>3. <<>> \in Seq(Selections) /\ <<"context">> \in Seq(Selections)
      BY DEF Selections
    <2> QED
      BY <2>1, <2>2, <2>3
  <1>4. CASE q.endpoint \notin Predictions \cup {"list", "explain", "landslide"}
    <2> DEFINE t == <<"rows">>
    <2>1. Selects(q) = t /\ Tracked(q) \in SUBSET {"rows"}
      BY <1>4 DEF Selects, Predictions, Tracked
    <2>2. t \in Seq(Selections) /\ DOMAIN t = 1..1 /\ t[1] = "rows"
      BY DEF Selections
    <2> HIDE DEF t
    <2> QED
      BY <2>1, <2>2
  <1> QED
    BY <1>1, <1>2, <1>3, <1>4

LEMMA AskKeeps ==
  ASSUME QueryInv, NEW q \in Inquiries, Ask(q)
  PROVE  QueryInv'
  <1>1. /\ query' = [ask |-> q, todo |-> Selects(q), read |-> NothingRead, revised |-> 0]
        /\ standing' = events /\ events' = events /\ DOMAIN NothingRead = {}
    BY DEF Ask, NothingRead
  <1>2. /\ query'.ask = q /\ query'.todo = Selects(q) /\ query'.read = NothingRead
        /\ query'.revised = 0
    BY <1>1
  <1>3. Progress(q, Selects(q), NothingRead) /\ AllFound(q, NothingRead, events)
    BY <1>1, SelectsTracked DEF Progress, AllFound
  <1> QED
    BY <1>1, <1>2, <1>3, SelectsTracked DEF QueryInv, RequestInv

LEMMA SelectKeeps ==
  ASSUME QueryInv, Select
  PROVE  QueryInv'
  <1> DEFINE q == query.ask
             select == Head(query.todo)
             read == [s \in DOMAIN query.read \cup {select} |->
                        IF s = select THEN RowsOf(select, q) ELSE query.read[s]]
  <1>1. /\ query = [ask |-> q, todo |-> query.todo, read |-> query.read,
                    revised |-> query.revised]
        /\ q \in Inquiries /\ query.todo \in Seq(Selections) /\ query.todo # <<>>
        /\ Progress(q, query.todo, query.read) /\ AllFound(q, query.read, standing)
        /\ Table(events) /\ standing \subseteq events
    BY DEF QueryInv, RequestInv, Select
  <1>2. /\ query' = [query EXCEPT !.todo = Tail(query.todo), !.read = read]
        /\ UNCHANGED <<events, standing>>
    BY DEF Select
  <1> HIDE DEF q, read
  <1>3. query' = [ask |-> q, todo |-> Tail(query.todo), read |-> read, revised |-> query.revised]
    <2> DEFINE todo == query.todo
               was == query.read
               revised == query.revised
               rest == Tail(query.todo)
    <2>1. query = [ask |-> q, todo |-> todo, read |-> was, revised |-> revised]
      BY <1>1
    <2>2. query' = [query EXCEPT !.todo = rest, !.read = read]
      BY <1>2
    <2> HIDE DEF todo, was, revised, rest
    <2>3. query' = [ask |-> q, todo |-> rest, read |-> read, revised |-> revised]
      BY <2>1, <2>2
    <2> QED
      BY <2>3 DEF rest, revised
  <1>4. query'.ask = q /\ query'.todo = Tail(query.todo) /\ query'.read = read
        /\ query'.revised = query.revised
    BY <1>3
  <1>5. Progress(q, Tail(query.todo), read)
    <2> SUFFICES ASSUME NEW s \in Tracked(q), s \notin DOMAIN read
                 PROVE  \E i \in DOMAIN Tail(query.todo) : Tail(query.todo)[i] = s
      BY DEF Progress
    <2>1. PICK i \in DOMAIN query.todo : query.todo[i] = s
      BY <1>1 DEF Progress, read
    <2>2. i # 1
      BY <1>1, <2>1 DEF read
    <2>3. i - 1 \in DOMAIN Tail(query.todo) /\ Tail(query.todo)[i - 1] = s
      BY <1>1, <2>1, <2>2
    <2> QED
      BY <2>3
  <1>6. AllFound(q, read, standing)
    <2>1. ASSUME NEW s \in Tracked(q), s \in DOMAIN read
          PROVE  Found(s, q, read[s], standing)
      <3>1. CASE s = select
        BY <1>1, <2>1, <3>1, SelectFinds DEF read
      <3>2. CASE s # select
        BY <1>1, <2>1, <3>2 DEF read, AllFound
      <3> QED
        BY <3>1, <3>2
    <2> QED
      BY <2>1 DEF AllFound
  <1>7. Tail(query.todo) \in Seq(Selections)
    BY <1>1
  <1> HIDE DEF select
  <1> QED
    BY <1>1, <1>2, <1>3, <1>4, <1>5, <1>6, <1>7 DEF QueryInv, RequestInv

LEMMA StoreKeepsTable ==
  ASSUME Table(events), NEW e \in Catalogue, StoreEvent(e)
  PROVE  Table(events')
  <1>1. events' = {x \in events : x.id # e.id} \cup {e}
    BY DEF StoreEvent
  <1>2. IsFiniteSet({x \in events : x.id # e.id})
    BY FS_Subset DEF Table
  <1>3. IsFiniteSet(events')
    BY <1>1, <1>2, FS_AddElement
  <1> QED
    BY <1>1, <1>3 DEF Table

LEMMA ReviseKeeps ==
  ASSUME QueryInv, NEW e \in Catalogue, Revise(e)
  PROVE  QueryInv'
  <1>1. Table(events') /\ standing' \subseteq events' /\ standing' \in SUBSET standing
    BY StoreKeepsTable DEF QueryInv, Revise
  <1>2. CASE query' = query
    BY <1>1, <1>2, FoundAmongFewer DEF QueryInv, RequestInv, AllFound
  <1>3. CASE query # NoQuery /\ query' = [query EXCEPT !.revised = @ + 1]
    <2>1. query = [ask |-> query.ask, todo |-> query.todo, read |-> query.read,
                   revised |-> query.revised]
      BY <1>3 DEF QueryInv, RequestInv
    <2>2. query' = [ask |-> query.ask, todo |-> query.todo, read |-> query.read,
                    revised |-> query.revised + 1]
      BY <1>3, <2>1
    <2>3. query'.ask = query.ask /\ query'.todo = query.todo /\ query'.read = query.read
          /\ query'.revised = query.revised + 1
      BY <2>2
    <2> QED
      BY <1>1, <1>3, <2>2, <2>3, FoundAmongFewer DEF QueryInv, RequestInv, AllFound
  <1> QED
    BY <1>2, <1>3 DEF Revise

LEMMA QueryKeeps == QueryInv /\ [QueriesNext]_queryVars => QueryInv'
  <1> SUFFICES ASSUME QueryInv, [QueriesNext]_queryVars PROVE QueryInv'
    OBVIOUS
  <1>1. CASE Answer
    <2>1. query' = NoQuery /\ standing' = {} /\ events' = events
      BY <1>1 DEF Answer
    <2> QED
      BY <2>1 DEF QueryInv, RequestInv
  <1>2. CASE UNCHANGED queryVars
    BY <1>2 DEF QueryInv, RequestInv, queryVars
  <1> QED
    BY <1>1, <1>2, AskKeeps, SelectKeeps, ReviseKeeps DEF QueriesNext

LEMMA QueryInvariance == QueriesSpec => []QueryInv
  <1>1. QueriesInit => QueryInv
    BY FS_EmptySet DEF QueriesInit, EventsInit, QueryInv, RequestInv, Table
  <1> QED
    BY <1>1, QueryKeeps, PTL DEF QueriesSpec

\* An answer was given from what its SELECTs found of the rows that stood.
Justified(a) ==
    /\ a.ask \in Inquiries /\ a.endpoint = a.ask.endpoint
    /\ a.body \in Answers(a.ask, a.read)
    /\ \A s \in Tracked(a.ask) : Found(s, a.ask, a.read[s], a.standing)
    /\ Table(a.standing)

JustifiedInv == answered = NoAnswer \/ Justified(answered)

LEMMA AnswerIsJustified ==
  ASSUME QueryInv, Answer
  PROVE  Justified(answered')
  <1>1. query # NoQuery /\ query.todo = <<>>
    <2>1. NoQuery.todo # <<>>
      BY DEF NoQuery
    <2> QED
      BY <2>1 DEF Answer
  <1>2. /\ query.ask \in Inquiries /\ Table(standing)
        /\ Progress(query.ask, query.todo, query.read)
        /\ AllFound(query.ask, query.read, standing)
    BY <1>1, PartOfTable DEF QueryInv, RequestInv
  <1>3. \A s \in Tracked(query.ask) : Found(s, query.ask, query.read[s], standing)
    BY <1>1, <1>2 DEF Progress, AllFound
  <1>4. PICK body \in Answers(query.ask, query.read) :
           answered' = [endpoint |-> query.ask.endpoint, ask |-> query.ask, read |-> query.read,
                        standing |-> standing, body |-> body]
    BY DEF Answer
  <1>5. /\ answered'.endpoint = query.ask.endpoint /\ answered'.ask = query.ask
        /\ answered'.read = query.read /\ answered'.standing = standing /\ answered'.body = body
    BY <1>4
  <1> QED
    BY <1>2, <1>3, <1>4, <1>5 DEF Justified

LEMMA JustifiedInvariance == QueriesSpec => []JustifiedInv
  <1>1. QueriesInit => JustifiedInv
    BY DEF QueriesInit, JustifiedInv
  <1>2. QueryInv /\ JustifiedInv /\ [QueriesNext]_queryVars => JustifiedInv'
    <2> SUFFICES ASSUME QueryInv, JustifiedInv, [QueriesNext]_queryVars PROVE JustifiedInv'
      OBVIOUS
    <2>1. Answer \/ answered' = NoAnswer \/ answered' = answered
      BY DEF QueriesNext, Revise, Ask, Select, queryVars
    <2> QED
      BY <2>1, AnswerIsJustified DEF JustifiedInv
  <1> QED
    BY <1>1, <1>2, QueryInvariance, PTL DEF QueriesSpec

-----------------------------------------------------------------------------
(***************************************************************************)
(* Threats.                                                                *)
(***************************************************************************)
MostThreatening(E) == {p \in E \X E : MoreThreatening(p[1], p[2])}

LEMMA RoundedType ==
  ASSUME NEW n \in Int, NEW divisor \in Nat \ {0}
  PROVE  Rounded(n, divisor) \in Int
  <1>1. 2 * n + divisor \in Int /\ 2 * divisor \in Nat \ {0}
    OBVIOUS
  <1> QED
    BY <1>1 DEF Rounded

LEMMA ThreatScoreType ==
  ASSUME NEW e \in Catalogue PROVE ThreatScore(e) \in Int
  <1>1. ASSUME NEW reading \in Int, NEW whole \in Nat \ {0} PROVE ShareOf(reading, whole) \in Int
    <2>1. 1000 * OrZero(reading) \in Int
      BY DEF OrZero
    <2>2. Rounded(1000 * OrZero(reading), whole) \in Int
      BY <2>1, RoundedType
    <2> QED
      BY <2>2 DEF ShareOf, Least
  <1>2. e.magnitude \in Int /\ e.intensity \in Int /\ e.wind \in Int
    BY EventType
  <1>3. /\ ShareOf(e.magnitude, 80) \in Int /\ ShareOf(e.intensity, 4) \in Int
        /\ ShareOf(e.wind, 220) \in Int /\ ShareOf(e.intensity, 100) \in Int
    BY <1>1, <1>2
  <1> QED
    BY <1>3 DEF ThreatScore

LEMMA ThreatsAreOrdered ==
  ASSUME NEW E, Table(E), NEW n
  PROVE  /\ Orders(MostThreatening(E), E)
         /\ First(E, n, MoreThreatening) = Top(E, n, MostThreatening(E))
  <1>1. \A e \in E : e.age \in Nat /\ e.id \in Nat /\ ThreatScore(e) \in Int
    BY EventType, ThreatScoreType DEF Table
  <1>2. \A e, f \in E : e # f => e.id # f.id
    BY DEF Table
  <1>3. Orders(MostThreatening(E), E)
    BY <1>1, <1>2 DEF Orders, MostThreatening, MoreThreatening, Newer
  <1>4. ASSUME NEW e \in E
        PROVE  {f \in E : MoreThreatening(f, e)} = Ahead(E, MostThreatening(E), e)
    BY DEF Ahead, MostThreatening
  <1>5. First(E, n, MoreThreatening) = Top(E, n, MostThreatening(E))
    BY <1>4 DEF First, Top, Rank
  <1> QED
    BY <1>3, <1>5

LEMMA MoreThreateningScores ==
  ASSUME NEW e \in Catalogue, NEW f \in Catalogue, MoreThreatening(f, e)
  PROVE  ThreatScore(f) >= ThreatScore(e)
  BY ThreatScoreType DEF MoreThreatening

LEMMA JustifiedThreats ==
  ASSUME Justified(answered)
  PROVE  ThreatsAreTop
  <1>1. CASE answered.endpoint = "threats"
    <2> DEFINE q == answered.ask
               rows == answered.read.rows
               listed == First(rows, q.limit, MoreThreatening)
    <2>0. q \in Inquiries /\ q.endpoint = "threats"
      BY <1>1 DEF Justified
    <2>1. Found("rows", q, rows, answered.standing)
      BY <2>0 DEF Tracked, Justified
    <2>2. answered.body.threats = listed
      <3>1. Answers(q, answered.read) = ThreatsAnswers(q, rows)
        BY <2>0 DEF Answers, Predictions, SentinelAnswers
      <3>2. ThreatsAnswers(q, rows) = {[threats |-> listed]}
        BY DEF ThreatsAnswers
      <3>3. answered.body = [threats |-> listed]
        BY <3>1, <3>2 DEF Justified
      <3> QED
        BY <3>3
    <2>3. q.limit \in Nat /\ Table(rows)
      BY <2>0, <2>1, InquiriesAssumption DEF Found
    <2>4. ASSUME NEW e \in rows \ listed
          PROVE  /\ Cardinality(listed) = q.limit
                 /\ \A f \in listed : ThreatScore(f) >= ThreatScore(e)
      <3>1. /\ Cardinality(listed) = q.limit
            /\ \A f \in listed : <<f, e>> \in MostThreatening(rows)
        BY <2>3, <2>4, ThreatsAreOrdered, TopIsFull DEF Table
      <3>2. ASSUME NEW f \in listed PROVE ThreatScore(f) >= ThreatScore(e)
        <4>1. MoreThreatening(f, e) /\ f \in Catalogue /\ e \in Catalogue
          BY <2>3, <3>1 DEF MostThreatening, Table
        <4> QED
          BY <4>1, MoreThreateningScores
      <3> QED
        BY <3>1, <3>2
    <2>5. ASSUME NEW e \in answered.standing, NearIndia(q, e), e \notin rows
          PROVE  Cardinality(rows) = Limits.threats /\ \A f \in rows : f.age <= e.age
      <3>1. Wants("rows", q, e)
        BY <2>0, <2>5 DEF Wants
      <3> QED
        BY <2>0, <2>1, <2>5, <3>1 DEF Found, CutOff
    <2>6. \A e : e \in StoodInIndia <=> e \in answered.standing /\ NearIndia(q, e)
      BY DEF StoodInIndia, NearIndia
    <2> QED
      BY <2>2, <2>4, <2>5, <2>6 DEF ThreatsAreTop
  <1> QED
    BY <1>1 DEF ThreatsAreTop

\* The list of threats has the most dangerous events: an event is left out only
\* for threats no smaller, or beyond the newest 500 (list_threats), whatever
\* the LIMITs are and however the table changes while the request runs.
THEOREM ThreatsAreTheTop == QueriesSpec => []ThreatsAreTop
  <1>1. NoAnswer.endpoint = "none"
    BY DEF NoAnswer
  <1>2. JustifiedInv => ThreatsAreTop
    BY <1>1, JustifiedThreats DEF JustifiedInv, ThreatsAreTop
  <1> QED
    BY <1>2, JustifiedInvariance, PTL

-----------------------------------------------------------------------------
(***************************************************************************)
(* Cascades.                                                               *)
(***************************************************************************)
StrongestFirst(q, E) == {p \in E \X E : Stronger(q, p[1], p[2])}

LEMMA WeightType ==
  ASSUME NEW q, q.distance \in Nat \ {0}, q.hours \in Nat \ {0},
         NEW a \in Catalogue, NEW b \in Catalogue
  PROVE  Weight(q, a, b) \in Int
  <1>1. a.at \in Int /\ b.at \in Int /\ a.age \in Nat /\ b.age \in Nat
    BY EventType
  <1> DEFINE far == 600 * Distance(a.at, b.at) * q.hours
             late == 400 * (a.age - b.age) * q.distance
             whole == q.distance * q.hours
             share == Rounded(1000 * whole - far - late, whole)
  <1>2. far \in Int /\ late \in Int
    <2>1. 600 * Distance(a.at, b.at) \in Int /\ 400 * (a.age - b.age) \in Int
      BY <1>1 DEF Distance
    <2> QED
      BY <2>1
  <1>3. whole \in Nat \ {0}
    OBVIOUS
  <1> HIDE DEF far, late, whole
  <1>4. share \in Int
    BY <1>2, <1>3, RoundedType
  <1>5. Weight(q, a, b) = IF share < 100 THEN 100 ELSE share
    BY DEF Weight, far, late, whole
  <1> HIDE DEF share
  <1> QED
    BY <1>4, <1>5

LEMMA EdgesAreOrdered ==
  ASSUME NEW q, q.distance \in Nat \ {0}, q.hours \in Nat \ {0}, NEW E, Table(E), NEW n
  PROVE  /\ IsFiniteSet(Edges(q, E)) /\ Orders(StrongestFirst(q, Edges(q, E)), Edges(q, E))
         /\ First(Edges(q, E), n, LAMBDA x, y : Stronger(q, x, y))
              = Top(Edges(q, E), n, StrongestFirst(q, Edges(q, E)))
  <1> DEFINE edges == Edges(q, E)
  <1>1. IsFiniteSet(edges)
    <2>1. IsFiniteSet(E \X E) /\ edges \in SUBSET (E \X E)
      BY FS_Product DEF Table, Edges
    <2> QED
      BY <2>1, FS_Subset
  <1>2. \A x \in edges : x = <<x[1], x[2]>> /\ x[1] \in E /\ x[2] \in E
    BY DEF Edges
  <1>3. \A x \in edges : Weight(q, x[1], x[2]) \in Int
    BY <1>2, WeightType DEF Table
  <1>4. \A a \in E : a.age \in Nat /\ a.id \in Nat
    BY EventType DEF Table
  <1>5. \A a, b \in E : a # b => a.id # b.id
    BY DEF Table
  <1> HIDE DEF edges
  <1>6. Orders(StrongestFirst(q, edges), edges)
    <2>1. ASSUME NEW x \in edges PROVE <<x, x>> \notin StrongestFirst(q, edges)
      BY <1>2, <1>3, <1>4 DEF StrongestFirst, Stronger, Older
    <2>2. ASSUME NEW x \in edges, NEW y \in edges, NEW z \in edges,
                 Stronger(q, x, y), Stronger(q, y, z)
          PROVE  Stronger(q, x, z)
      BY <1>2, <1>3, <1>4, <2>2 DEF Stronger, Older
    <2>3. ASSUME NEW x \in edges, NEW y \in edges, x # y
          PROVE  Stronger(q, x, y) \/ Stronger(q, y, x)
      <3>1. x[1] # y[1] \/ x[2] # y[2]
        BY <1>2, <2>3
      <3>2. x[1].id # y[1].id \/ (x[1] = y[1] /\ x[2].id # y[2].id)
        <4>1. CASE x[1] # y[1]
          <5> DEFINE a == x[1]
                     b == y[1]
          <5>1. a \in E /\ b \in E /\ a # b
            BY <1>2, <4>1
          <5> HIDE DEF a, b
          <5>2. a.id # b.id
            BY <1>5, <5>1
          <5> QED
            BY <5>2 DEF a, b
        <4>2. CASE x[1] = y[1]
          <5>1. x[2] \in E /\ y[2] \in E /\ x[2] # y[2]
            BY <1>2, <3>1, <4>2
          <5> QED
            BY <1>5, <4>2, <5>1
        <4> QED
          BY <4>1, <4>2
      <3> QED
        BY <1>2, <1>3, <1>4, <3>2 DEF Stronger, Older
    <2> QED
      BY <2>1, <2>2, <2>3 DEF Orders, StrongestFirst
  <1>7. First(edges, n, LAMBDA x, y : Stronger(q, x, y)) = Top(edges, n, StrongestFirst(q, edges))
    <2>1. ASSUME NEW z \in edges
          PROVE  {w \in edges : Stronger(q, w, z)} = Ahead(edges, StrongestFirst(q, edges), z)
      BY DEF Ahead, StrongestFirst
    <2>2. First(edges, n, LAMBDA x, y : Stronger(q, x, y))
            = {z \in edges : Cardinality({w \in edges : Stronger(q, w, z)}) < n}
      BY DEF First
    <2> QED
      BY <2>1, <2>2 DEF Top, Rank
  <1> QED
    BY <1>1, <1>6, <1>7 DEF edges

LEMMA JustifiedCascades ==
  ASSUME Justified(answered)
  PROVE  CascadesPointForward
  <1>1. CASE answered.endpoint = "cascades"
    <2> DEFINE q == answered.ask
               rows == answered.read.rows
               n == Limits.edges
               kept == First(Edges(q, rows), n, LAMBDA x, y : Stronger(q, x, y))
               ends == {z \in rows : \E x \in kept : z = x[1] \/ z = x[2]}
    <2>0. q \in Inquiries /\ q.endpoint = "cascades"
      BY <1>1 DEF Justified
    <2>1. Found("rows", q, rows, answered.standing)
      BY <2>0 DEF Tracked, Justified
    <2>2. answered.body.edges = kept /\ answered.body.nodes = ends
      <3>1. Answers(q, answered.read) = CascadesAnswers(q, rows)
        BY <2>0 DEF Answers, Predictions, SentinelAnswers
      <3>2. CascadesAnswers(q, rows) = {[edges |-> kept, nodes |-> ends]}
        BY DEF CascadesAnswers
      <3>3. answered.body = [edges |-> kept, nodes |-> ends]
        BY <3>1, <3>2 DEF Justified
      <3> HIDE DEF kept, ends
      <3> QED
        BY <3>3
    <2>3. /\ q.hours \in Nat \ {0} /\ q.distance \in Nat \ {0} /\ n \in Nat
          /\ Table(rows)
      BY <2>0, <2>1, InquiriesAssumption, EventTableAssumption DEF Found
    <2> HIDE DEF rows, n
    <2>4. kept = Top(Edges(q, rows), n, StrongestFirst(q, Edges(q, rows)))
      BY <2>3, EdgesAreOrdered
    <2> HIDE DEF kept
    <2>5. kept \in SUBSET Edges(q, rows)
      BY <2>4 DEF Top
    <2>6. \A x \in kept : x[1] \in rows /\ x[2] \in rows /\ x[1].age > x[2].age
      BY <2>5 DEF Edges, Linked
    <2>7. ends = {x[1] : x \in kept} \cup {x[2] : x \in kept}
      BY <2>6
    <2>8. ASSUME NEW a \in rows, NEW b \in rows, NearIndia(q, a),
                 a.age > b.age, Distance(a.at, b.at) <= q.distance,
                 a.hazard = b.hazard \/ <<a.hazard, b.hazard>> \in Plausible,
                 <<a, b>> \notin kept
          PROVE  /\ Cardinality(kept) = n
                 /\ \A x \in kept : Weight(q, x[1], x[2]) >= Weight(q, a, b)
      <3> DEFINE edge == <<a, b>>
      <3>1. a.age \in Nat /\ b.age \in Nat
        BY <2>3, EventType DEF Table
      <3>2. Linked(q, a, b)
        BY <2>3, <2>8, <3>1 DEF Linked, NearIndia
      <3>3. edge \in Edges(q, rows) /\ edge[1] = a /\ edge[2] = b
        BY <3>2 DEF Edges
      <3> HIDE DEF edge
      <3>4. edge \notin kept
        BY <2>8 DEF edge
      <3>5. /\ Cardinality(kept) = n
            /\ \A x \in kept : <<x, edge>> \in StrongestFirst(q, Edges(q, rows))
        <4> DEFINE edges == Edges(q, rows)
                   R == StrongestFirst(q, edges)
        <4>1. IsFiniteSet(edges) /\ Orders(R, edges)
          BY <2>3, EdgesAreOrdered
        <4>2. edge \in edges /\ edge \notin Top(edges, n, R)
          BY <2>4, <3>3, <3>4
        <4> HIDE DEF edges, R
        <4>3. /\ Cardinality(Top(edges, n, R)) = n
              /\ \A x \in Top(edges, n, R) : <<x, edge>> \in R
          BY <2>3, <4>1, <4>2, TopIsFull
        <4> QED
          BY <2>4, <4>3 DEF edges, R
      <3>6. ASSUME NEW x \in kept PROVE Weight(q, x[1], x[2]) >= Weight(q, a, b)
        <4>1. Stronger(q, x, edge)
          BY <3>5 DEF StrongestFirst
        <4>2. /\ Weight(q, x[1], x[2]) \in Int /\ Weight(q, a, b) \in Int
          BY <2>3, <2>6, WeightType DEF Table
        <4> QED
          BY <3>3, <4>1, <4>2 DEF Stronger
      <3> QED
        BY <3>5, <3>6
    <2>9. ASSUME NEW z \in answered.standing, NearIndia(q, z), z \notin rows
          PROVE  Cardinality(rows) = Limits.cascades
      <3>1. Wants("rows", q, z)
        BY <2>0, <2>9 DEF Wants
      <3> QED
        BY <2>0, <2>1, <2>9, <3>1 DEF Found, CutOff
    <2>10. /\ answered.read.rows = rows /\ answered.ask = q
           /\ \A z : z \in StoodInIndia <=> z \in answered.standing /\ NearIndia(q, z)
      BY DEF StoodInIndia, NearIndia, rows
    <2> HIDE DEF ends, q
    <2> QED
      BY <2>2, <2>6, <2>7, <2>8, <2>9, <2>10 DEF CascadesPointForward, n
  <1> QED
    BY <1>1 DEF CascadesPointForward

\* The graph of cascades (the cascades endpoint, backend/app/api/sentinel.py) is
\* acyclic and has no loose ends, and an edge between two events that were read
\* is dropped only for edges that are no weaker.
THEOREM CascadesLeadForward == QueriesSpec => []CascadesPointForward
  <1>1. NoAnswer.endpoint = "none"
    BY DEF NoAnswer
  <1>2. JustifiedInv => CascadesPointForward
    BY <1>1, JustifiedCascades DEF JustifiedInv, CascadesPointForward
  <1> QED
    BY <1>2, JustifiedInvariance, PTL

-----------------------------------------------------------------------------
(***************************************************************************)
(* What stood is in the answers.                                           *)
(***************************************************************************)
\* Counts, maxima and quotients.
LEMMA SubsetIsSmaller ==
  ASSUME NEW T, IsFiniteSet(T), NEW S \in SUBSET T
  PROVE  Cardinality(S) \in Nat /\ Cardinality(T) \in Nat /\ Cardinality(S) <= Cardinality(T)
  BY FS_Subset, FS_CardinalityType

LEMMA FiniteMaximum ==
  ASSUME NEW V \in SUBSET Int, IsFiniteSet(V), V # {}
  PROVE  \E x \in V : \A y \in V : x >= y
  <1> DEFINE R == {p \in V \X V : p[1] > p[2]}
  <1>1. Orders(R, V)
    BY DEF Orders
  <1> HIDE DEF R
  <1>2. PICK x \in V : \A y \in V : x # y => <<x, y>> \in R
    BY <1>1, SomebodyIsFirst
  <1>3. ASSUME NEW y \in V PROVE x >= y
    <2>1. CASE x # y
      <3>1. <<x, y>>[1] > <<x, y>>[2]
        BY <1>2, <2>1 DEF R
      <3> QED
        BY <3>1
    <2> QED
      BY <2>1
  <1> QED
    BY <1>3

LEMMA LargestBounds ==
  ASSUME NEW V \in SUBSET Int, IsFiniteSet(V)
  PROVE  /\ Largest(V) \in Int
         /\ \A x \in V : x # Null => Largest(V) >= x
         /\ Largest(V) = 0 \/ Largest(V) \in V \ {Null}
  <1> DEFINE known == V \ {Null}
  <1>1. Largest(V) = IF known = {} THEN 0 ELSE CHOOSE x \in known : \A y \in known : x >= y
    BY DEF Largest
  <1>2. IsFiniteSet(known) /\ known \in SUBSET Int
    BY FS_Subset
  <1>3. CASE known = {}
    BY <1>1, <1>3
  <1>4. CASE known # {}
    <2>1. \E x \in known : \A y \in known : x >= y
      BY <1>2, <1>4, FiniteMaximum
    <2>2. Largest(V) \in known /\ \A y \in known : Largest(V) >= y
      BY <1>1, <1>4, <2>1
    <2> QED
      BY <2>2
  <1> QED
    BY <1>3, <1>4

LEMMA ColumnsAreFinite ==
  ASSUME NEW E, Table(E)
  PROVE  /\ IsFiniteSet({e.magnitude : e \in E}) /\ {e.magnitude : e \in E} \in SUBSET Int
         /\ IsFiniteSet({e.intensity : e \in E}) /\ {e.intensity : e \in E} \in SUBSET Int
         /\ IsFiniteSet({e.wind : e \in E}) /\ {e.wind : e \in E} \in SUBSET Int
  <1>1. /\ [e \in E |-> e.magnitude] \in Surjection(E, {e.magnitude : e \in E})
        /\ [e \in E |-> e.intensity] \in Surjection(E, {e.intensity : e \in E})
        /\ [e \in E |-> e.wind] \in Surjection(E, {e.wind : e \in E})
    BY DEF Surjection
  <1>2. \A e \in E : e.magnitude \in Int /\ e.intensity \in Int /\ e.wind \in Int
    BY EventType DEF Table
  <1> QED
    BY <1>1, <1>2, FS_Surjection DEF Table

\* The largest values of a table's columns.
MaxMagnitude(E) == Largest({e.magnitude : e \in E})
MaxIntensity(E) == Largest({e.intensity : e \in E})
MaxWind(E) == Largest({e.wind : e \in E})

LEMMA LargestOfTable ==
  ASSUME NEW E, Table(E)
  PROVE  /\ MaxMagnitude(E) \in Int /\ MaxIntensity(E) \in Nat /\ MaxWind(E) \in Nat
         /\ \A e \in E : /\ e.magnitude # Null => MaxMagnitude(E) >= e.magnitude
                         /\ MaxIntensity(E) >= e.intensity /\ MaxWind(E) >= e.wind
         /\ MaxMagnitude(E) >= -20
         /\ MaxMagnitude(E) = 0 \/ \E e \in E : MaxMagnitude(E) = e.magnitude /\ e.magnitude # Null
         /\ MaxIntensity(E) = 0 \/ \E e \in E : MaxIntensity(E) = e.intensity
         /\ MaxWind(E) = 0 \/ \E e \in E : MaxWind(E) = e.wind
  <1> DEFINE M == {x.magnitude : x \in E}
             I == {x.intensity : x \in E}
             W == {x.wind : x \in E}
  <1>1. /\ \A x \in M : x \in -20..120 \cup {Null}
        /\ \A x \in I : x \in Nat \cup {Null}
        /\ \A x \in W : x \in Nat \cup {Null}
    BY EventType DEF Table
  <1>2. /\ IsFiniteSet(M) /\ M \in SUBSET Int
        /\ IsFiniteSet(I) /\ I \in SUBSET Int
        /\ IsFiniteSet(W) /\ W \in SUBSET Int
    BY ColumnsAreFinite
  <1>3. /\ \A e \in E : e.magnitude \in M /\ e.intensity \in I /\ e.wind \in W
        /\ \A x \in M : \E e \in E : x = e.magnitude
        /\ \A x \in I : \E e \in E : x = e.intensity
        /\ \A x \in W : \E e \in E : x = e.wind
    OBVIOUS
  <1>4. MaxMagnitude(E) = Largest(M) /\ MaxIntensity(E) = Largest(I) /\ MaxWind(E) = Largest(W)
    BY DEF MaxMagnitude, MaxIntensity, MaxWind
  <1> HIDE DEF M, I, W
  <1>5. /\ Largest(M) \in Int /\ Largest(M) >= -20
        /\ \A x \in M : x # Null => Largest(M) >= x
        /\ Largest(M) = 0 \/ (Largest(M) \in M /\ Largest(M) # Null)
    BY <1>1, <1>2, LargestBounds
  <1>6. /\ Largest(I) \in Nat /\ Largest(W) \in Nat
        /\ \A x \in I : Largest(I) >= x
        /\ \A x \in W : Largest(W) >= x
        /\ Largest(I) = 0 \/ Largest(I) \in I
        /\ Largest(W) = 0 \/ Largest(W) \in W
    BY <1>1, <1>2, LargestBounds DEF Null
  <1> QED
    BY <1>3, <1>4, <1>5, <1>6

LEMMA QuotientsShrink ==
  ASSUME NEW n \in Nat, NEW c \in Nat \ {0}, NEW d \in Nat \ {0}, c <= d
  PROVE  n \div c \in Nat /\ n \div d \in Nat /\ n \div c >= n \div d
  <1> DEFINE x == n \div c
             y == n \div d
  <1>1. x \in Nat /\ y \in Nat
    OBVIOUS
  <1>2. n < (x + 1) * c /\ y * d <= n
    OBVIOUS
  <1> HIDE DEF x, y
  <1>3. CASE x < y
    <2>1. (x + 1) * c <= y * c
      BY <1>1, <1>3
    <2>2. y * c <= y * d
      BY <1>1
    <2> QED
      BY <1>1, <1>2, <2>1, <2>2
  <1> QED
    BY <1>1, <1>3 DEF x, y

\* The rows a SELECT looks for that stood are among those it found.
LEMMA StoodIsFound ==
  ASSUME Justified(answered), answered.endpoint \in {"earthquake", "wildfire", "risk", "grid"},
         NEW select \in Tracked(answered.ask)
  PROVE  /\ Table(answered.read[select])
         /\ \A e \in answered.read[select] : Wants(select, answered.ask, e)
         /\ select \in {"quakes", "magnitudes"} =>
               Stood("earthquake", 720) \in SUBSET answered.read[select]
         /\ select = "mainshocks" =>
               \A e \in Stood("earthquake", 168) : e.magnitude >= 45 => e \in answered.read[select]
         /\ select = "floods" => Stood("flood", 72) \in SUBSET answered.read[select]
         /\ select = "fires" => Stood("wildfire", 24) \in SUBSET answered.read[select]
         /\ select = "cyclones" => Stood("cyclone", 48) \in SUBSET answered.read[select]
  <1> DEFINE q == answered.ask
             rows == answered.read[select]
  <1>1. Found(select, q, rows, answered.standing) /\ q.endpoint = answered.endpoint
    BY DEF Justified
  <1>2. \A e \in answered.standing : Wants(select, q, e) => e \in rows
    BY <1>1 DEF Found, CutOff
  <1>3. ASSUME NEW hazard, NEW hours
        PROVE  \A e \in Stood(hazard, hours) :
                  e \in answered.standing /\ Is(e, hazard, hours) /\ Inside(q, e)
    BY DEF Stood, Is, Inside
  <1>4. CASE select \in {"quakes", "magnitudes"}
    <2>1. \A e : Wants(select, q, e) <=> Is(e, "earthquake", 720) /\ Inside(q, e)
      BY <1>1, <1>4 DEF Wants
    <2> QED
      BY <1>1, <1>2, <1>3, <1>4, <2>1 DEF Found
  <1>5. CASE select = "mainshocks"
    <2>1. \A e : Wants(select, q, e) <=>
             Is(e, "earthquake", 168) /\ Inside(q, e) /\ e.magnitude >= 45
      BY <1>1, <1>5 DEF Wants
    <2> QED
      BY <1>1, <1>2, <1>3, <1>5, <2>1 DEF Found
  <1>6. CASE select = "floods"
    <2>1. \A e : Wants(select, q, e) <=> Is(e, "flood", 72) /\ Inside(q, e)
      BY <1>1, <1>6 DEF Wants
    <2> QED
      BY <1>1, <1>2, <1>3, <1>6, <2>1 DEF Found
  <1>7. CASE select = "fires"
    <2>1. \A e : Wants(select, q, e) <=> Is(e, "wildfire", 24) /\ Inside(q, e)
      BY <1>1, <1>7 DEF Wants
    <2> QED
      BY <1>1, <1>2, <1>3, <1>7, <2>1 DEF Found
  <1>8. CASE select = "cyclones"
    <2>1. \A e : Wants(select, q, e) <=> Is(e, "cyclone", 48) /\ Inside(q, e)
      BY <1>1, <1>8 DEF Wants
    <2> QED
      BY <1>1, <1>2, <1>3, <1>8, <2>1 DEF Found
  <1>9. select \in {"quakes", "magnitudes", "mainshocks", "floods", "fires", "cyclones"}
    BY <1>1 DEF Tracked
  <1> QED
    BY <1>4, <1>5, <1>6, <1>7, <1>8, <1>9

LEMMA JustifiedList ==
  ASSUME Justified(answered), answered.endpoint = "list"
  PROVE  ListIsWhole(answered.ask, answered.body)
  <1> DEFINE q == answered.ask
             page == answered.read.page
             count == answered.read.count
             stood == {e \in answered.standing : /\ q.from <= e.at /\ e.at <= q.to
                                                 /\ q.hazard \in {"any", e.hazard} /\ Dated(q, e)}
  <1>1. q \in Inquiries /\ q.endpoint = "list"
    BY DEF Justified
  <1>2. answered.body = [events |-> page, total |-> Cardinality(count)]
    <2>1. Answers(q, answered.read) = ListAnswers(answered.read)
      BY <1>1 DEF Answers, Predictions
    <2> QED
      BY <2>1 DEF ListAnswers, Justified
  <1>3. /\ Found("page", q, page, answered.standing)
        /\ Found("count", q, count, answered.standing)
    BY <1>1 DEF Tracked, Justified
  <1>4. \A e \in stood : e \in answered.standing /\ Wants("page", q, e) /\ Wants("count", q, e)
    BY <1>1 DEF Wants, Inside
  <1>5. stood \in SUBSET count
    BY <1>1, <1>3, <1>4 DEF Found, CutOff
  <1>6. Cardinality(count) >= Cardinality(stood)
    BY <1>3, <1>5, SubsetIsSmaller DEF Found, Table
  <1>7. \A e \in stood \ page :
           \/ Cardinality(page) = q.limit /\ \A f \in page : f.age <= e.age
           \/ q.offset > 0 /\ \A f \in page : f.age >= e.age
    BY <1>1, <1>3, <1>4 DEF Found, CutOff
  <1> HIDE DEF q, page, count
  <1>8. answered.body.events = page /\ answered.body.total = Cardinality(count)
    BY <1>2
  <1> QED
    BY <1>6, <1>7, <1>8 DEF ListIsWhole, q

\* A mainshock there is, and its aftershocks are likelier within a week.
LEMMA MainshockOfTable ==
  ASSUME NEW E, Table(E), E # {}
  PROVE  Mainshock(E) \in E
  <1> DEFINE M == {e.magnitude : e \in E}
  <1>1. IsFiniteSet(M) /\ M \in SUBSET Int /\ M # {}
    BY ColumnsAreFinite
  <1>2. PICK x \in M : \A y \in M : x >= y
    BY <1>1, FiniteMaximum
  <1>3. \E m \in E : \A e \in E : m.magnitude >= e.magnitude
    BY <1>2
  <1> QED
    BY <1>3 DEF Mainshock

LEMMA OmoriDecays ==
  ASSUME NEW m \in Nat, NEW h \in Nat
  PROVE  /\ Omori(m, h) \in Nat
         /\ Omori(m, h - 144) \in Int /\ Omori(m, h - 144) >= Omori(m, h)
  <1> DEFINE late == IF h - 144 < 0 THEN 0 ELSE h - 144
             n == 1000 * m
             c == 20 * late + 1
             d == 20 * h + 1
  <1>1. n \in Nat /\ c \in Nat \ {0} /\ d \in Nat \ {0} /\ c <= d
    OBVIOUS
  <1>2. Omori(m, h) = n \div d /\ Omori(m, h - 144) = n \div c
    BY DEF Omori
  <1> HIDE DEF n, c, d
  <1>3. n \div c \in Nat /\ n \div d \in Nat /\ n \div c >= n \div d
    BY <1>1, QuotientsShrink
  <1> QED
    BY <1>2, <1>3

LEMMA JustifiedQuakes ==
  ASSUME Justified(answered), answered.endpoint = "earthquake"
  PROVE  QuakesAreCounted(answered.body)
  <1> DEFINE q == answered.ask
             quakes == answered.read.quakes
             shocks == answered.read.mainshocks
             m == Mainshock(shocks).magnitude
             h == Mainshock(shocks).age
             soon == IF shocks = {} THEN Null ELSE Omori(m, h)
             later == IF shocks = {} THEN Null ELSE Omori(m, h - 144)
  <1>1. q \in Inquiries /\ q.endpoint = "earthquake" /\ Tracked(q) = {"quakes", "mainshocks"}
    BY DEF Justified, Tracked
  <1>2. PICK s : answered.body = [count |-> Cardinality(quakes), in24h |-> soon, in7d |-> later,
                                  anomaly |-> s]
    <2>1. Answers(q, answered.read) = EarthquakeAnswers(answered.read)
      BY <1>1 DEF Answers, Predictions, PredictAnswers
    <2> QED
      BY <2>1 DEF EarthquakeAnswers, Justified
  <1>3. /\ Table(quakes) /\ Stood("earthquake", 720) \in SUBSET quakes
        /\ Table(shocks) /\ \A e \in shocks : Wants("mainshocks", q, e)
        /\ \A e \in Stood("earthquake", 168) : e.magnitude >= 45 => e \in shocks
    BY <1>1, StoodIsFound
  <1>4. Cardinality(quakes) >= Cardinality(Stood("earthquake", 720))
    BY <1>3, SubsetIsSmaller DEF Table
  <1>5. ASSUME NEW e \in Stood("earthquake", 168), e.magnitude >= 45
        PROVE  soon # Null /\ later >= soon
    <2>1. shocks # {} /\ Mainshock(shocks) \in shocks
      BY <1>3, <1>5, MainshockOfTable
    <2>2. Wants("mainshocks", q, Mainshock(shocks)) /\ Mainshock(shocks) \in Catalogue
      BY <1>3, <2>1 DEF Table
    <2>3. m \in Nat /\ h \in Nat
      <3>1. m >= 45
        BY <1>1, <2>2 DEF Wants
      <3> QED
        BY <2>2, <3>1, EventType
    <2> HIDE DEF m, h, shocks
    <2>4. soon = Omori(m, h) /\ later = Omori(m, h - 144)
      BY <2>1
    <2>5. Omori(m, h) \in Nat /\ Omori(m, h - 144) >= Omori(m, h)
      BY <2>3, OmoriDecays
    <2> QED
      BY <2>4, <2>5 DEF Null
  <1> HIDE DEF soon, later, quakes
  <1>6. answered.body.count = Cardinality(quakes) /\ answered.body.in24h = soon
        /\ answered.body.in7d = later
    BY <1>2
  <1> QED
    BY <1>4, <1>5, <1>6 DEF QuakesAreCounted

LEMMA JustifiedRisk ==
  ASSUME Justified(answered), answered.endpoint = "risk"
  PROVE  RiskIsMeasured(answered.body)
  <1> DEFINE q == answered.ask
             quakes == answered.read.quakes
             floods == answered.read.floods
             fires == answered.read.fires
             cyclones == answered.read.cyclones
             shaking == MaxMagnitude(quakes)
             flooding == MaxIntensity(floods)
             blowing == MaxWind(cyclones)
             burning == Cardinality(fires)
             count == Cardinality(quakes)
  <1>1. /\ q \in Inquiries /\ q.endpoint = "risk"
        /\ Tracked(q) = {"quakes", "floods", "fires", "cyclones"}
    BY DEF Justified, Tracked
  <1>2. \E rain, slide, s, t :
           answered.body = [features |-> [count |-> count, magnitude |-> shaking,
                                          flood |-> flooding, rain |-> rain, fires |-> burning,
                                          wind |-> blowing, landslide |-> slide],
                            risk |-> s, tier |-> t]
    <2>1. Answers(q, answered.read) = RiskAnswers(q, answered.read)
      BY <1>1 DEF Answers, Predictions, PredictAnswers
    <2> DEFINE Slide(rain) == IF Landslide(q.at, OrZero(rain)).level = "high" THEN 1 ELSE 0
               Features(rain) == [count |-> count, magnitude |-> shaking, flood |-> flooding,
                                  rain |-> OrZero(rain), fires |-> burning,
                                  wind |-> blowing, landslide |-> Slide(rain)]
               Tier(s) == RiskTier(OrZero(s) * (RiskUnit \div 100))
    <2>2. RiskAnswers(q, answered.read) =
             {[features |-> Features(rain), risk |-> s, tier |-> Tier(s)]
              : rain \in Rainfalls, s \in ScoresOf("risk_index")}
      BY DEF RiskAnswers, MaxMagnitude, MaxIntensity, MaxWind
    <2>3. PICK rain, s : answered.body = [features |-> Features(rain), risk |-> s, tier |-> Tier(s)]
      <3> HIDE DEF Features, Tier
      <3> QED
        BY <2>1, <2>2 DEF Justified
    <2> DEFINE r == OrZero(rain)
               slide == Slide(rain)
               t == Tier(s)
    <2> HIDE DEF shaking, flooding, blowing, burning, count, slide, t, r
    <2>4. answered.body = [features |-> [count |-> count, magnitude |-> shaking,
                                         flood |-> flooding, rain |-> r, fires |-> burning,
                                         wind |-> blowing, landslide |-> slide],
                           risk |-> s, tier |-> t]
      BY <2>3 DEF slide, t, r
    <2> QED
      BY <2>4
  <1>3. /\ Table(quakes) /\ Stood("earthquake", 720) \in SUBSET quakes
        /\ Table(floods) /\ Stood("flood", 72) \in SUBSET floods
        /\ Table(fires) /\ Stood("wildfire", 24) \in SUBSET fires
        /\ Table(cyclones) /\ Stood("cyclone", 48) \in SUBSET cyclones
    BY <1>1, StoodIsFound
  <1>4. count >= Cardinality(Stood("earthquake", 720))
        /\ burning >= Cardinality(Stood("wildfire", 24))
    BY <1>3, SubsetIsSmaller DEF Table
  <1>5. ASSUME NEW e \in quakes PROVE shaking >= e.magnitude
    <2>1. shaking \in Int /\ shaking >= -20 /\ (e.magnitude # Null => shaking >= e.magnitude)
      BY <1>3, LargestOfTable
    <2> QED
      BY <2>1 DEF Null
  <1>6. /\ \A e \in floods : flooding >= e.intensity
        /\ \A e \in cyclones : blowing >= e.wind
    BY <1>3, LargestOfTable
  <1> HIDE DEF shaking, flooding, blowing, burning, count
  <1>7. /\ answered.body.features.count = count /\ answered.body.features.magnitude = shaking
        /\ answered.body.features.flood = flooding /\ answered.body.features.fires = burning
        /\ answered.body.features.wind = blowing
    BY <1>2
  <1> QED
    BY <1>3, <1>4, <1>5, <1>6, <1>7 DEF RiskIsMeasured

LEMMA JustifiedFires ==
  ASSUME Justified(answered), answered.endpoint = "wildfire"
  PROVE  FiresAreClustered(answered.body)
  <1> DEFINE q == answered.ask
             fires == answered.read.fires
             clusters == Clusters(fires)
             At(E, x) == {f \in E : f.at = x}
  <1>1. q \in Inquiries /\ q.endpoint = "wildfire" /\ Tracked(q) = {"fires"}
    BY DEF Justified, Tracked
  <1>2. answered.body = [total |-> Cardinality(fires), clusters |-> clusters]
    <2>1. Answers(q, answered.read) = WildfireAnswers(answered.read)
      BY <1>1 DEF Answers, Predictions, PredictAnswers
    <2> QED
      BY <2>1 DEF WildfireAnswers, Justified
  <1>3. Table(fires) /\ Stood("wildfire", 24) \in SUBSET fires
    BY <1>1, StoodIsFound
  <1>4. ASSUME NEW e \in Stood("wildfire", 24),
               Cardinality(At(Stood("wildfire", 24), e.at)) >= Limits.leastCluster
        PROVE  \E c \in clusters : c.at = e.at
    <2> DEFINE n == Limits.leastCluster
               here == At(fires, e.at)
               stood == At(Stood("wildfire", 24), e.at)
    <2>1. IsFiniteSet(here) /\ stood \in SUBSET here
      BY <1>3, FS_Subset DEF Table
    <2>2. n \in Nat
      BY EventTableAssumption
    <2>3. Cardinality(stood) >= n
      BY <1>4
    <2> HIDE DEF n, here, stood
    <2>4. Cardinality(here) >= n
      BY <2>1, <2>2, <2>3, SubsetIsSmaller
    <2>5. e.at \in {p \in {f.at : f \in fires} : Cardinality({f \in fires : f.at = p}) >= n}
      BY <1>3, <2>4 DEF here
    <2> DEFINE Size(x) == Cardinality({f \in fires : f.at = x})
               Level(x) == FireLevel(Size(x), Cardinality(Measured({f \in fires : f.at = x})),
                                     SumOver(Measured({f \in fires : f.at = x}),
                                             LAMBDA f : f.intensity))
               dense == {p \in {f.at : f \in fires} : Size(p) >= n}
    <2>6. clusters = {[at |-> x, size |-> Size(x), level |-> Level(x)] : x \in dense}
      BY DEF Clusters, n
    <2> HIDE DEF dense, Size, Level, clusters
    <2>7. e.at \in dense
      BY <2>5 DEF dense, Size
    <2> DEFINE c == [at |-> e.at, size |-> Size(e.at), level |-> Level(e.at)]
    <2>8. c \in clusters /\ c.at = e.at
      BY <2>6, <2>7
    <2> QED
      BY <2>8
  <1> HIDE DEF clusters
  <1>5. answered.body.clusters = clusters
    BY <1>2
  <1> QED
    BY <1>4, <1>5 DEF FiresAreClustered

-----------------------------------------------------------------------------
(***************************************************************************)
(* The grid of risks.                                                      *)
(***************************************************************************)
LEMMA BaselineIsShare ==
  ASSUME NEW at \in Int
  PROVE  BaselineRisk(at) \in 0..100
  <1> DEFINE around == {i \in DOMAIN TectonicBands :
                           TectonicBands[i].from <= at /\ at <= TectonicBands[i].to}
  <1>1. /\ DOMAIN TectonicBands = 1..4
        /\ \A i \in 1..4 : TectonicBands[i].value \in 0..100
    BY DEF TectonicBands, Box
  <1>2. around \in SUBSET (1..4)
    BY <1>1
  <1>3. BaselineRisk(at) = IF around = {} THEN 10
          ELSE TectonicBands[CHOOSE i \in around : \A k \in around : i <= k].value
    BY DEF BaselineRisk, InFirst
  <1> HIDE DEF around
  <1>4. CASE around # {}
    <2>1. \E i \in around : \A k \in around : i <= k
      <3>1. 1 \in around \/ 2 \in around \/ 3 \in around \/ 4 \in around
        <4>1. PICK i : i \in around
          BY <1>4
        <4>2. i = 1 \/ i = 2 \/ i = 3 \/ i = 4
          BY <1>2, <4>1
        <4> QED
          BY <4>1, <4>2
      <3> QED
        BY <1>2, <3>1
    <2> QED
      BY <1>1, <1>2, <1>3, <1>4, <2>1
  <1> QED
    BY <1>3, <1>4

LEMMA CompositeGrows ==
  ASSUME NEW cell \in Int, NEW s \in Int, NEW t \in Int, s <= t
  PROVE  Composite(cell, s) <= Composite(cell, t)
  <1> DEFINE base == BaselineRisk(cell)
             left == 100 - base
             x == base * 33000 + s * left
             y == base * 33000 + t * left
  <1>1. base \in 0..100
    BY BaselineIsShare
  <1>2. left \in Nat
    BY <1>1
  <1>3. /\ Composite(cell, s) = IF x < 3300000 THEN x ELSE 3300000
        /\ Composite(cell, t) = IF y < 3300000 THEN y ELSE 3300000
    <2>1. RiskUnit = 3300000 /\ RiskUnit \div 100 = 33000
      BY DEF RiskUnit
    <2> QED
      BY <2>1 DEF Composite, Least
  <1> HIDE DEF base, left
  <1>4. s * left <= t * left /\ s * left \in Int /\ t * left \in Int
    BY <1>2
  <1>5. x <= y /\ x \in Int /\ y \in Int
    BY <1>1, <1>4
  <1> HIDE DEF x, y
  <1> QED
    BY <1>3, <1>5

LEMMA Multiples ==
  ASSUME NEW a \in Int, NEW step \in Nat \ {0}
  PROVE  /\ a \div step \in Int /\ a % step \in 0..(step - 1)
         /\ a = (a \div step) * step + (a % step)
  OBVIOUS

LEMMA MultiplesAreOrdered ==
  ASSUME NEW m \in Int, NEW n \in Int, NEW step \in Nat \ {0}
  PROVE  m * step < (n + 1) * step => m <= n
  <1>1. CASE n + 1 <= m
    <2>1. (n + 1) * step <= m * step
      BY <1>1
    <2> QED
      BY <1>1, <2>1
  <1> QED
    BY <1>1

\* The cells of an aligned grid are those that PostGIS snaps to.
LEMMA SnapsToCell ==
  ASSUME NEW q, q.from \in Int, q.to \in Int, q.step \in Nat \ {0}, Aligned(q),
         NEW at \in Int, q.from <= at, at <= q.to
  PROVE  Snap(at, q.step) \in Cells(q) /\ Snap(at, q.step) \in Int
  <1> DEFINE from == q.from
             to == q.to
             step == q.step
             a == from \div step
             b == (to - from) \div step
             n == at \div step
             r == at % step
  <1>1. from \in Int /\ to \in Int /\ step \in Nat \ {0} /\ from <= at /\ at <= to
    OBVIOUS
  <1>2. from % step = 0 /\ (to - from) % step = 0
    BY DEF Aligned
  <1> HIDE DEF from, to, step
  <1>3. a \in Int /\ from = a * step
    BY <1>1, <1>2, Multiples
  <1>4. b \in Int /\ to - from = b * step
    <2>1. to - from \in Int
      BY <1>1
    <2> QED
      BY <1>1, <1>2, <2>1, Multiples
  <1>5. n \in Int /\ r \in 0..(step - 1) /\ at = n * step + r
    BY <1>1, Multiples
  <1> HIDE DEF a, b, n, r
  <1>6. a <= n
    <2>1. a * step < (n + 1) * step
      BY <1>1, <1>3, <1>5
    <2> QED
      BY <1>1, <1>3, <1>5, <2>1, MultiplesAreOrdered
  <1>7. to = (a + b) * step /\ a + b \in Int
    BY <1>1, <1>3, <1>4
  <1>8. n <= a + b
    <2>1. n * step < (a + b + 1) * step
      BY <1>1, <1>5, <1>7
    <2> QED
      BY <1>1, <1>5, <1>7, <2>1, MultiplesAreOrdered
  <1>9. r # 0 => n + 1 <= a + b
    <2> SUFFICES ASSUME r # 0, n = a + b PROVE FALSE
      BY <1>5, <1>7, <1>8
    <2>1. at = to + r
      BY <1>5, <1>7
    <2> QED
      BY <1>1, <1>5, <2>1
  <1>10. PICK m \in Int : Snap(at, step) = m * step /\ a <= m /\ m <= a + b
    <2>1. Snap(at, step) =
            IF 2 * r < step \/ (2 * r = step /\ n % 2 = 0) THEN n * step ELSE (n + 1) * step
      BY DEF Snap, n, r
    <2>2. CASE r = 0
      BY <1>1, <1>5, <1>6, <1>8, <2>1, <2>2
    <2>3. CASE r # 0
      <3>1. n + 1 \in Int /\ a <= n + 1 /\ n + 1 <= a + b
        BY <1>3, <1>5, <1>6, <1>9, <2>3
      <3> QED
        BY <1>5, <1>6, <1>8, <2>1, <3>1
    <2> QED
      BY <2>2, <2>3
  <1>11. m - a \in 0..b /\ m * step = from + (m - a) * step /\ m * step \in Int
    BY <1>1, <1>3, <1>4, <1>10
  <1>12. Cells(q) = {from + i * step : i \in 0..b}
    BY DEF Cells, from, to, step, b
  <1>13. Snap(at, step) \in Cells(q) /\ Snap(at, step) \in Int
    BY <1>10, <1>11, <1>12
  <1> QED
    BY <1>13 DEF step

\* More events weigh no less, unless all the magnitudes are negative.
LEMMA LargestGrows ==
  ASSUME NEW E, Table(E), NEW A \in SUBSET E
  PROVE  /\ MaxMagnitude(E) >= 0 => MaxMagnitude(A) <= MaxMagnitude(E)
         /\ MaxIntensity(A) <= MaxIntensity(E) /\ MaxWind(A) <= MaxWind(E)
         /\ MaxMagnitude(A) \in Int /\ MaxIntensity(A) \in Nat /\ MaxWind(A) \in Nat
  <1>1. Table(A)
    BY PartOfTable
  <1>2. MaxMagnitude(E) >= 0 => MaxMagnitude(A) <= MaxMagnitude(E)
    BY <1>1, LargestOfTable
  <1>3. MaxIntensity(A) <= MaxIntensity(E)
    BY <1>1, LargestOfTable
  <1>4. MaxWind(A) <= MaxWind(E)
    BY <1>1, LargestOfTable
  <1> QED
    BY <1>1, <1>2, <1>3, <1>4, LargestOfTable

LEMMA SignalGrows ==
  ASSUME NEW Q, Table(Q), NEW M, Table(M), NEW F, Table(F), NEW W, Table(W), NEW C, Table(C),
         NEW Q1 \in SUBSET Q, NEW M1 \in SUBSET M, NEW F1 \in SUBSET F,
         NEW W1 \in SUBSET W, NEW C1 \in SUBSET C, MaxMagnitude(M) >= 0
  PROVE  /\ EventSignal(Q1, M1, F1, W1, C1) \in Int /\ EventSignal(Q, M, F, W, C) \in Int
         /\ EventSignal(Q1, M1, F1, W1, C1) <= EventSignal(Q, M, F, W, C)
  <1> DEFINE quakes == Cardinality(Q)
             quakes1 == Cardinality(Q1)
             fires == Cardinality(W)
             fires1 == Cardinality(W1)
             unit == RiskUnit \div 100
  <1>1. /\ quakes \in Nat /\ quakes1 \in Nat /\ quakes1 <= quakes
        /\ fires \in Nat /\ fires1 \in Nat /\ fires1 <= fires
    BY SubsetIsSmaller DEF Table
  <1>2. /\ MaxMagnitude(M) \in Int /\ MaxMagnitude(M1) \in Int
        /\ MaxMagnitude(M1) <= MaxMagnitude(M)
    BY LargestGrows, LargestOfTable
  <1>3. /\ MaxIntensity(F) \in Nat /\ MaxIntensity(F1) \in Nat
        /\ MaxIntensity(F1) <= MaxIntensity(F)
    BY LargestGrows, LargestOfTable
  <1>4. /\ MaxWind(C) \in Nat /\ MaxWind(C1) \in Nat /\ MaxWind(C1) <= MaxWind(C)
    BY LargestGrows, LargestOfTable
  <1>5. unit \in Int
    BY DEF RiskUnit
  <1>6. /\ EventSignal(Q, M, F, W, C) =
              Least(165 * MaxMagnitude(M) + 220 * Least(quakes, 30) + 1320 * MaxIntensity(F)
                      + 66 * Least(fires, 50) + 15 * MaxWind(C), unit)
        /\ EventSignal(Q1, M1, F1, W1, C1) =
              Least(165 * MaxMagnitude(M1) + 220 * Least(quakes1, 30) + 1320 * MaxIntensity(F1)
                      + 66 * Least(fires1, 50) + 15 * MaxWind(C1), unit)
    BY DEF EventSignal, MaxMagnitude, MaxIntensity, MaxWind
  <1> HIDE DEF quakes, quakes1, fires, fires1, unit
  <1> QED
    BY <1>1, <1>2, <1>3, <1>4, <1>5, <1>6 DEF Least

LEMMA AloneIsTable ==
  ASSUME NEW e \in Catalogue, NEW hazard
  PROVE  Table(Alone(e, hazard))
  <1>1. IsFiniteSet({e}) /\ IsFiniteSet({})
    BY FS_Singleton, FS_EmptySet
  <1> QED
    BY <1>1 DEF Alone, Table

LEMMA JustifiedGrid ==
  ASSUME Justified(answered), answered.endpoint = "grid", Aligned(answered.ask)
  PROVE  GridIsRaised(answered.ask, answered.body)
  <1> DEFINE q == answered.ask
             read == answered.read
             In(E, c) == {x \in E : Snap(x.at, q.step) = c}
             live(c) == EventSignal(In(read.quakes, c), In(read.magnitudes, c),
                                    In(read.floods, c), In(read.fires, c), In(read.cyclones, c))
             unit == RiskUnit \div 10000
             Raised(s, c) == IF s = Null \/ s * unit < live(c) THEN live(c) ELSE s * unit
  <1>1. /\ q \in Inquiries /\ q.endpoint = "grid"
        /\ Tracked(q) = {"quakes", "magnitudes", "floods", "fires", "cyclones"}
    BY DEF Justified, Tracked
  <1>2. q.from \in Int /\ q.to \in Int /\ q.step \in Nat \ {0}
    BY <1>1, InquiriesAssumption
  <1>3. PICK s \in ScoresOf("risk_index") :
           answered.body.risk = [c \in Cells(q) |-> Composite(c, Raised(s, c))]
    <2>1. Answers(q, read) = GridAnswers(q, read)
      BY <1>1 DEF Answers, Predictions, PredictAnswers
    <2>2. GridAnswers(q, read) = {[risk |-> [c \in Cells(q) |-> Composite(c, Raised(s, c))]]
                                  : s \in ScoresOf("risk_index")}
      BY DEF GridAnswers
    <2> HIDE DEF Raised
    <2>3. \E s \in ScoresOf("risk_index") :
             answered.body = [risk |-> [c \in Cells(q) |-> Composite(c, Raised(s, c))]]
      BY <2>1, <2>2 DEF Justified
    <2> QED
      BY <2>3
  <1>4. s * unit \in Int
    <2>1. s \in Int /\ unit \in Int
      BY ScoresAssumption DEF ScoresOf, Null, RiskUnit
    <2> QED
      BY <2>1
  <1>5. /\ Table(read.quakes) /\ Stood("earthquake", 720) \in SUBSET read.quakes
        /\ Table(read.magnitudes) /\ Stood("earthquake", 720) \in SUBSET read.magnitudes
        /\ Table(read.floods) /\ Stood("flood", 72) \in SUBSET read.floods
        /\ Table(read.fires) /\ Stood("wildfire", 24) \in SUBSET read.fires
        /\ Table(read.cyclones) /\ Stood("cyclone", 48) \in SUBSET read.cyclones
    BY <1>1, StoodIsFound
  <1>6. ASSUME NEW hazard \in DOMAIN GridWindow, NEW e \in Stood(hazard, GridWindow[hazard])
        PROVE  LET cell == Snap(e.at, q.step)
                   shaken == {f \in read.magnitudes : Snap(f.at, q.step) = cell}
               IN  /\ cell \in DOMAIN answered.body.risk
                   /\ Largest({f.magnitude : f \in shaken}) >= 0 =>
                         answered.body.risk[cell] >= AloneRisk(e, cell)
    <2> DEFINE cell == Snap(e.at, q.step)
    <2>1. e \in Catalogue /\ Inside(q, e) /\ e.hazard = hazard /\ e.at \in Int
      BY EventType DEF Stood, Justified, Table, Inside
    <2>2. cell \in Cells(q) /\ cell \in Int
      BY <1>2, <2>1, SnapsToCell DEF Inside
    <2>3. hazard \in {"earthquake", "flood", "wildfire", "cyclone"}
      BY DEF GridWindow
    <2> HIDE DEF unit
    <2>4. ASSUME Largest({f.magnitude : f \in In(read.magnitudes, cell)}) >= 0
          PROVE  answered.body.risk[cell] >= AloneRisk(e, cell)
      <3> DEFINE Q == In(read.quakes, cell)
                 M == In(read.magnitudes, cell)
                 F == In(read.floods, cell)
                 W == In(read.fires, cell)
                 C == In(read.cyclones, cell)
                 alone == EventSignal(Alone(e, "earthquake"), Alone(e, "earthquake"),
                                      Alone(e, "flood"), Alone(e, "wildfire"),
                                      Alone(e, "cyclone"))
      <3>1. Table(Q) /\ Table(M) /\ Table(F) /\ Table(W) /\ Table(C)
        BY <1>5, PartOfTable
      <3>2. /\ hazard = "earthquake" => e \in Q /\ e \in M
            /\ hazard = "flood" => e \in F
            /\ hazard = "wildfire" => e \in W
            /\ hazard = "cyclone" => e \in C
        BY <1>5 DEF GridWindow
      <3>3. /\ Alone(e, "earthquake") \in SUBSET Q /\ Alone(e, "earthquake") \in SUBSET M
            /\ Alone(e, "flood") \in SUBSET F /\ Alone(e, "wildfire") \in SUBSET W
            /\ Alone(e, "cyclone") \in SUBSET C
        BY <2>1, <3>2 DEF Alone
      <3>4. live(cell) = EventSignal(Q, M, F, W, C)
        OBVIOUS
      <3>5. MaxMagnitude(M) >= 0
        BY <2>4 DEF MaxMagnitude
      <3> HIDE DEF live, Q, M, F, W, C, alone
      <3>6. alone \in Int /\ live(cell) \in Int /\ alone <= live(cell)
        <4> DEFINE E1 == Alone(e, "earthquake")
                   F1 == Alone(e, "flood")
                   W1 == Alone(e, "wildfire")
                   C1 == Alone(e, "cyclone")
        <4>1. alone = EventSignal(E1, E1, F1, W1, C1)
          BY DEF alone
        <4>2. /\ E1 \in SUBSET Q /\ E1 \in SUBSET M /\ F1 \in SUBSET F
              /\ W1 \in SUBSET W /\ C1 \in SUBSET C
          BY <3>3
        <4> HIDE DEF E1, F1, W1, C1
        <4>3. /\ EventSignal(E1, E1, F1, W1, C1) \in Int /\ EventSignal(Q, M, F, W, C) \in Int
              /\ EventSignal(E1, E1, F1, W1, C1) <= EventSignal(Q, M, F, W, C)
          BY <3>1, <3>5, <4>2, SignalGrows
        <4> QED
          BY <3>4, <4>1, <4>3
      <3>7. Raised(s, cell) \in Int /\ alone <= Raised(s, cell)
        BY <1>4, <3>6
      <3> HIDE DEF Raised, cell
      <3>8. Composite(cell, alone) <= Composite(cell, Raised(s, cell))
        BY <2>2, <3>6, <3>7, CompositeGrows
      <3> QED
        BY <1>3, <2>2, <3>8 DEF AloneRisk, alone
    <2> QED
      BY <1>3, <2>2, <2>4
  <1> QED
    BY <1>6 DEF GridIsRaised

LEMMA JustifiedIsSeen ==
  ASSUME Justified(answered)
  PROVE  StandingEventsAreSeen
  BY JustifiedList, JustifiedQuakes, JustifiedRisk, JustifiedFires, JustifiedGrid
     DEF StandingEventsAreSeen

\* Whatever sources write between two SELECTs of a request (list_events and the
\* predictions of predict.py), an event that stood while it ran is in its answer.
THEOREM StandingEventsAreInAnswers == QueriesSpec => []StandingEventsAreSeen
  <1>1. NoAnswer.endpoint = "none"
    BY DEF NoAnswer
  <1>2. JustifiedInv => StandingEventsAreSeen
    BY <1>1, JustifiedIsSeen DEF JustifiedInv, StandingEventsAreSeen
  <1> QED
    BY <1>2, JustifiedInvariance, PTL
=============================================================================
