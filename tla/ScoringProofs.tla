--------------------------- MODULE ScoringProofs ---------------------------
(***************************************************************************)
(* Proofs about Sources and RiskScoring, for every page a source may       *)
(* answer, whichever urls and statements fail.                             *)
(***************************************************************************)
EXTENDS RiskScoring, FiniteSetTheorems, TLAPS

(***************************************************************************)
(* The elements of a sequence at chosen positions.                         *)
(***************************************************************************)
UpTo(K, k) == {j \in K : j <= k}
Place(K, k) == Cardinality(UpTo(K, k))

LEMMA PlaceType ==
  ASSUME NEW K \in SUBSET Nat, IsFiniteSet(K), NEW k \in K
  PROVE  /\ Place(K, k) \in 1..Cardinality(K) /\ Cardinality(K) \in Nat
         /\ IsFiniteSet(UpTo(K, k))
  <1>1. UpTo(K, k) \in SUBSET K /\ k \in UpTo(K, k)
    BY DEF UpTo
  <1>2. /\ IsFiniteSet(UpTo(K, k)) /\ Place(K, k) <= Cardinality(K)
    BY <1>1, FS_Subset DEF Place
  <1>3. Place(K, k) \in Nat /\ Cardinality(K) \in Nat /\ Place(K, k) # 0
    BY <1>1, <1>2, FS_CardinalityType, FS_EmptySet DEF Place
  <1> QED
    BY <1>2, <1>3

LEMMA PlaceGrows ==
  ASSUME NEW K \in SUBSET Nat, IsFiniteSet(K), NEW j \in K, NEW k \in K, j < k
  PROVE  Place(K, j) < Place(K, k)
  <1>1. UpTo(K, j) \in SUBSET UpTo(K, k) /\ UpTo(K, j) # UpTo(K, k)
    <2>1. k \in UpTo(K, k) /\ k \notin UpTo(K, j)
      BY DEF UpTo
    <2>2. ASSUME NEW x \in UpTo(K, j) PROVE x \in UpTo(K, k)
      <3>1. x \in Nat /\ j \in Nat /\ k \in Nat
        BY DEF UpTo
      <3> QED
        BY <3>1 DEF UpTo
    <2> QED
      BY <2>1, <2>2
  <1>2. Place(K, j) <= Place(K, k) /\ Place(K, j) # Place(K, k)
    BY <1>1, PlaceType, FS_Subset DEF Place
  <1> QED
    BY <1>2, PlaceType

LEMMA PlacesAreTaken ==
  ASSUME NEW K \in SUBSET Nat, IsFiniteSet(K), NEW i \in 1..Cardinality(K)
  PROVE  \E k \in K : Place(K, k) = i
  <1> DEFINE places == 1..Cardinality(K)
             place == [k \in K |-> Place(K, k)]
  <1>1. Cardinality(K) \in Nat
    BY FS_CardinalityType
  <1>2. IsFiniteSet(places) /\ Cardinality(places) = Cardinality(K)
    BY <1>1, FS_Interval
  <1>3. place \in Injection(K, places)
    <2>1. place \in [K -> places]
      BY PlaceType
    <2>2. ASSUME NEW j \in K, NEW k \in K, place[j] = place[k] PROVE j = k
      <3>1. ~(j < k) /\ ~(k < j)
        BY <2>2, PlaceGrows, PlaceType
      <3> QED
        BY <3>1
    <2> QED
      BY <2>1, <2>2 DEF Injection, IsInjective
  <1>4. place \in Surjection(K, places)
    BY <1>2, <1>3, FS_Injection
  <1> QED
    BY <1>4 DEF Surjection

\* What is kept comes from different positions.
LEMMA KeptPositions ==
  ASSUME NEW A, NEW s \in Seq(A), NEW K \in SUBSET DOMAIN s
  PROVE  \E at \in [1..Cardinality(K) -> K] :
            /\ Cardinality(K) \in Nat
            /\ Keep(s, K) = [i \in 1..Cardinality(K) |-> s[at[i]]]
            /\ \A i, j \in 1..Cardinality(K) : at[i] = at[j] => i = j
  <1> DEFINE n == Cardinality(K)
             position(i) == CHOOSE k \in K : Place(K, k) = i
             at == [i \in 1..n |-> position(i)]
  <1>1. K \in SUBSET Nat /\ IsFiniteSet(K) /\ n \in Nat
    <2>1. DOMAIN s = 1..Len(s) /\ Len(s) \in Nat
      OBVIOUS
    <2>2. IsFiniteSet(DOMAIN s)
      BY <2>1, FS_Interval
    <2>3. IsFiniteSet(K)
      BY <2>2, FS_Subset
    <2> QED
      BY <2>1, <2>3, FS_CardinalityType
  <1>2. ASSUME NEW i \in 1..n PROVE position(i) \in K /\ Place(K, position(i)) = i
    BY <1>1, PlacesAreTaken
  <1>3. Keep(s, K) = [i \in 1..n |-> s[position(i)]]
    BY DEF Keep, Place, UpTo
  <1> HIDE DEF position
  <1>4. at \in [1..n -> K] /\ \A i, j \in 1..n : at[i] = at[j] => i = j
    BY <1>2
  <1>5. Keep(s, K) = [i \in 1..n |-> s[at[i]]]
    BY <1>3
  <1> HIDE DEF at, n
  <1> QED
    BY <1>1, <1>4, <1>5 DEF n

LEMMA KeepType ==
  ASSUME NEW A, NEW s \in Seq(A), NEW K \in SUBSET DOMAIN s
  PROVE  /\ Keep(s, K) \in Seq(A)
         /\ \A i \in DOMAIN Keep(s, K) : \E k \in K : Keep(s, K)[i] = s[k]
  <1>1. PICK at \in [1..Cardinality(K) -> K] :
           /\ Cardinality(K) \in Nat
           /\ Keep(s, K) = [i \in 1..Cardinality(K) |-> s[at[i]]]
    BY KeptPositions
  <1> DEFINE n == Cardinality(K)
             t == [i \in 1..n |-> s[at[i]]]
  <1>2. n \in Nat /\ \A i \in 1..n : at[i] \in K /\ s[at[i]] \in A
    BY <1>1
  <1> HIDE DEF n
  <1>3. t \in Seq(A) /\ DOMAIN t = 1..n
    BY <1>2
  <1>4. \A i \in 1..n : t[i] = s[at[i]] /\ at[i] \in K
    BY <1>2
  <1> HIDE DEF t
  <1>5. \A i \in DOMAIN t : \E k \in K : t[i] = s[k]
    BY <1>3, <1>4
  <1>6. Keep(s, K) = t
    BY <1>1 DEF n, t
  <1> QED
    BY <1>3, <1>5, <1>6

\* unique_by_source_event_id leaves one event of a key.
LEMMA UniqueIsUnique ==
  ASSUME NEW A, NEW s \in Seq(A)
  PROVE  Unique(s) \in Seq(A) /\ OneRowPerKey(Unique(s))
  <1> DEFINE K == {n \in DOMAIN s : \A k \in 1..(n - 1) : SourceKey(s[k]) # SourceKey(s[n])}
  <1>1. K \in SUBSET DOMAIN s /\ Unique(s) = Keep(s, K)
    BY DEF Unique
  <1>2. ASSUME NEW k \in K, NEW l \in K, SourceKey(s[k]) = SourceKey(s[l]) PROVE k = l
    <2>1. k \in Nat /\ l \in Nat /\ k >= 1 /\ l >= 1
      OBVIOUS
    <2>2. ~(k < l) /\ ~(l < k)
      BY <1>2, <2>1
    <2> QED
      BY <2>1, <2>2
  <1> HIDE DEF K
  <1>3. PICK at \in [1..Cardinality(K) -> K] :
           /\ Cardinality(K) \in Nat
           /\ Keep(s, K) = [i \in 1..Cardinality(K) |-> s[at[i]]]
           /\ \A i, j \in 1..Cardinality(K) : at[i] = at[j] => i = j
    BY <1>1, KeptPositions
  <1>4. OneRowPerKey(Keep(s, K))
    BY <1>2, <1>3 DEF OneRowPerKey
  <1> QED
    BY <1>1, <1>4, KeepType

\* What is stored is valid and names no row twice.
LEMMA AcceptedIsUnique ==
  ASSUME NEW A, NEW events \in Seq(A), NEW s
  PROVE  Accepted(s, events) \in Seq({e \in A : Valid(e)}) /\ OneRowPerKey(Accepted(s, events))
  <1> DEFINE read == IF s = "cyclones" THEN LatestByName(events) ELSE events
             K == {n \in DOMAIN read : Valid(read[n])}
             valid == Keep(read, K)
             V == {e \in A : Valid(e)}
  <1>1. LatestByName(events) \in Seq(A)
    BY KeepType DEF LatestByName
  <1>2. read \in Seq(A)
    BY <1>1
  <1>3. Accepted(s, events) = Unique(valid)
    BY DEF Accepted
  <1> HIDE DEF read
  <1>4. K \in SUBSET DOMAIN read /\ \A k \in K : read[k] \in V
    BY <1>2
  <1> HIDE DEF K, V
  <1>5. valid \in Seq(A) /\ \A i \in DOMAIN valid : \E k \in K : valid[i] = read[k]
    BY <1>2, <1>4, KeepType
  <1> HIDE DEF valid
  <1>6. valid \in Seq(V)
    BY <1>4, <1>5
  <1>7. Unique(valid) \in Seq(V) /\ OneRowPerKey(Unique(valid))
    BY <1>6, UniqueIsUnique
  <1> QED
    BY <1>3, <1>7 DEF V

LEMMA PartIsUnique ==
  ASSUME NEW A, NEW s \in Seq(A), OneRowPerKey(s), NEW from \in Nat \ {0}, NEW to \in Nat,
         to <= Len(s)
  PROVE  SubSeq(s, from, to) \in Seq(A) /\ OneRowPerKey(SubSeq(s, from, to))
  <1>1. CASE from > to
    <2>1. SubSeq(s, from, to) = <<>>
      BY <1>1
    <2> QED
      BY <2>1 DEF OneRowPerKey
  <1>2. CASE from <= to
    <2> DEFINE t == SubSeq(s, from, to)
    <2>1. /\ t \in Seq(A) /\ DOMAIN t = 1..(to - from + 1)
          /\ \A i \in 1..(to - from + 1) : t[i] = s[from + i - 1]
      BY <1>2
    <2> HIDE DEF t
    <2>2. \A i \in DOMAIN t : from + i - 1 \in DOMAIN s
      BY <1>2, <2>1
    <2>3. OneRowPerKey(t)
      BY <2>1, <2>2 DEF OneRowPerKey
    <2> QED
      BY <2>1, <2>3 DEF t
  <1> QED
    BY <1>1, <1>2

\* The batches of a run name no row twice.
LEMMA ChunksAreUnique ==
  ASSUME NEW A, NEW events \in Seq(A), OneRowPerKey(events), NEW s
  PROVE  /\ ChunksOf(s, events) \in Seq(Seq(A))
         /\ \A i \in DOMAIN ChunksOf(s, events) : OneRowPerKey(ChunksOf(s, events)[i])
  <1> DEFINE size == IF s = "firms" THEN ChunkSize ELSE Len(events)
             n == IF events = <<>> THEN 0 ELSE (Len(events) + size - 1) \div size
             chunk(i) == SubSeq(events, (i - 1) * size + 1,
                                IF i * size < Len(events) THEN i * size ELSE Len(events))
  <1>1. ChunksOf(s, events) = [i \in 1..n |-> chunk(i)]
    BY DEF ChunksOf
  <1>2. size \in Nat /\ Len(events) \in Nat
    BY SourcesAssumption
  <1>3. n \in Nat
    <2>1. CASE events # <<>>
      <3>1. Len(events) # 0
        BY <2>1
      <3>2. size \in Nat \ {0}
        BY <3>1, SourcesAssumption
      <3> HIDE DEF size
      <3> QED
        BY <1>2, <3>1, <3>2
    <2> QED
      BY <2>1
  <1> HIDE DEF size, n
  <1>4. ASSUME NEW i \in 1..n PROVE chunk(i) \in Seq(A) /\ OneRowPerKey(chunk(i))
    <2> DEFINE from == (i - 1) * size + 1
               to == IF i * size < Len(events) THEN i * size ELSE Len(events)
    <2>1. from \in Nat \ {0} /\ to \in Nat /\ to <= Len(events)
      <3>1. (i - 1) * size \in Nat /\ i * size \in Nat
        BY <1>2, <1>3
      <3> QED
        BY <1>2, <3>1
    <2> HIDE DEF from, to
    <2>2. SubSeq(events, from, to) \in Seq(A) /\ OneRowPerKey(SubSeq(events, from, to))
      BY <2>1, PartIsUnique
    <2> QED
      BY <2>2 DEF from, to
  <1> HIDE DEF chunk
  <1> QED
    BY <1>1, <1>3, <1>4

-----------------------------------------------------------------------------
(***************************************************************************)
(* What the parsers make of a record.                                      *)
(***************************************************************************)
HazardOf(source) ==
    IF source = "usgs" THEN "earthquake"
    ELSE IF source \in FirmsFiles THEN "wildfire"
    ELSE IF source \in {"cwc", "state_flood_bulletin"} THEN "flood"
    ELSE IF source = "open_meteo" THEN "weather" ELSE "cyclone"

\* A source has events of one hazard, and the power of a fire is in its payload.
Parsed(e) ==
    /\ e.hazard = HazardOf(e.source)
    /\ e.magnitude \in Int /\ e.depth \in Int /\ e.confidence \in Int /\ e.intensity \in Int
    /\ e.hazard = "wildfire" => "frp" \in DOMAIN e.raw /\ e.raw["frp"] = e.intensity

LEMMA SeverityType ==
  ASSUME NEW actual \in Int, NEW warning \in Int, NEW danger \in Int
  PROVE  Severity(actual, warning, danger) \in Int
  BY DEF Severity, Missing

LEMMA ParseIsParsed ==
  ASSUME NEW s \in Services, NEW r \in Records(s), Parse(s, r).source # "dropped"
  PROVE  Parsed(Parse(s, r))
  <1> DEFINE e == Parse(s, r)
  <1>0. Dropped.source = "dropped"
    BY DEF Dropped
  <1>1. CASE s = "usgs"
    <2>1. r \in QuakeRecords /\ e = ParseQuake(r)
      BY <1>1 DEF Records, Parse
    <2>2. r.mag \in Int /\ r.depth \in Int
      BY <2>1 DEF QuakeRecords
    <2> DEFINE id == <<r.id>>
               raw == [feature |-> Missing]
               base == NormalizedEvent("usgs", id, "earthquake", r.time, r.point, raw)
    <2>3. e = [base EXCEPT !.magnitude = r.mag, !.depth = r.depth]
      BY <1>0, <2>1 DEF ParseQuake
    <2> HIDE DEF e, id, raw
    <2>4. /\ e.source = "usgs" /\ e.hazard = "earthquake" /\ e.magnitude = r.mag
          /\ e.depth = r.depth /\ e.confidence = Missing /\ e.intensity = Missing
      BY <2>3 DEF NormalizedEvent
    <2> QED
      BY <2>2, <2>4 DEF Parsed, HazardOf, Missing, e
  <1>2. CASE s = "firms"
    <2>1. r \in HotspotRecords /\ e = ParseHotspot(r)
      BY <1>2 DEF Records, Parse
    <2>2. r.file \in FirmsFiles /\ r.frp \in Int /\ r.confidence \in Int
      BY <2>1 DEF HotspotRecords
    <2> DEFINE id == <<r.point, r.time, r.satellite>>
               raw == [frp |-> r.frp]
               base == NormalizedEvent(r.file, id, "wildfire", r.time, r.point, raw)
    <2>3. e = [base EXCEPT !.confidence = r.confidence, !.intensity = r.frp]
      BY <1>0, <2>1 DEF ParseHotspot
    <2>4. "frp" \in DOMAIN raw /\ raw["frp"] = r.frp
      OBVIOUS
    <2> HIDE DEF e, id, raw
    <2>5. /\ e.source = r.file /\ e.hazard = "wildfire" /\ e.magnitude = Missing
          /\ e.depth = Missing /\ e.confidence = r.confidence /\ e.intensity = r.frp
          /\ e.raw = raw
      BY <2>3 DEF NormalizedEvent
    <2> QED
      BY <2>2, <2>4, <2>5 DEF Parsed, HazardOf, FirmsFiles, Missing, e
  <1>3. CASE s = "cwc" /\ "words" \notin DOMAIN r
    <2>1. r \in GaugeRecords /\ e = ParseGauge(r)
      BY <1>3 DEF Records, Parse, BulletinRecords
    <2>2. r.level \in Int /\ r.warning \in Int /\ r.danger \in Int
      BY <2>1 DEF GaugeRecords
    <2> DEFINE at == IF r.time = Missing THEN now ELSE r.time
               id == <<r.station, Minute(at)>>
               raw == "water level" :> r.level @@ "warning level" :> r.warning
                         @@ "danger level" :> r.danger
               severity == Severity(r.level, r.warning, r.danger)
               base == NormalizedEvent("cwc", id, "flood", at, r.point, raw)
    <2>3. e = [base EXCEPT !.intensity = severity]
      BY <1>0, <2>1 DEF ParseGauge
    <2>4. severity \in Int
      BY <2>2, SeverityType
    <2> HIDE DEF e, id, raw, at, severity
    <2>5. /\ e.source = "cwc" /\ e.hazard = "flood" /\ e.magnitude = Missing
          /\ e.depth = Missing /\ e.confidence = Missing /\ e.intensity = severity
      BY <2>3 DEF NormalizedEvent
    <2> QED
      BY <2>4, <2>5 DEF Parsed, HazardOf, FirmsFiles, Missing, e
  <1>4. CASE s = "cwc" /\ "words" \in DOMAIN r
    <2>1. e = ParseStateBulletin(r)
      BY <1>4 DEF Parse
    <2> DEFINE id == <<r.url, Minute(now)>>
               raw == [url |-> Missing, text |-> Missing]
               severity == IF r.words = "severe" THEN 3 ELSE 2
               base == NormalizedEvent("state_flood_bulletin", id, "flood", now, r.point, raw)
    <2>2. e = [base EXCEPT !.intensity = severity]
      BY <1>0, <2>1 DEF ParseStateBulletin
    <2>3. severity \in Int
      OBVIOUS
    <2> HIDE DEF e, id, raw, severity
    <2>4. /\ e.source = "state_flood_bulletin" /\ e.hazard = "flood" /\ e.magnitude = Missing
          /\ e.depth = Missing /\ e.confidence = Missing /\ e.intensity = severity
      BY <2>2 DEF NormalizedEvent
    <2> QED
      BY <2>3, <2>4 DEF Parsed, HazardOf, FirmsFiles, Missing, e
  <1>5. CASE s = "weather"
    <2>1. r \in RainRecords /\ e = ParseRainfall(r)
      BY <1>5 DEF Records, Parse
    <2>2. r.rain \in Int
      BY <2>1 DEF RainRecords
    <2> DEFINE id == <<r.point, Minute(r.time)>>
               raw == [precipitation_mm |-> r.rain]
               rain == IF r.rain = Missing THEN 0 ELSE r.rain
               base == NormalizedEvent("open_meteo", id, "weather", r.time, r.point, raw)
    <2>3. e = [base EXCEPT !.intensity = rain]
      BY <1>0, <2>1 DEF ParseRainfall
    <2>4. rain \in Int
      BY <2>2
    <2> HIDE DEF e, id, raw, rain
    <2>5. /\ e.source = "open_meteo" /\ e.hazard = "weather" /\ e.magnitude = Missing
          /\ e.depth = Missing /\ e.confidence = Missing /\ e.intensity = rain
      BY <2>3 DEF NormalizedEvent
    <2> QED
      BY <2>4, <2>5 DEF Parsed, HazardOf, FirmsFiles, Missing, e
  <1>6. CASE s = "cyclones"
    <2>1. r \in StormRecords /\ e = ParseCyclone(r)
      BY <1>6 DEF Records, Parse
    <2>2. r.agency \in Agencies /\ r.wind \in Int
      BY <2>1 DEF StormRecords
    <2> DEFINE id == <<r.url, r.storm, r.wind>>
               raw == [url |-> Missing, text |-> Missing]
               base == NormalizedEvent(r.agency, id, "cyclone", now, r.point, raw)
    <2>3. e = [base EXCEPT !.intensity = r.wind, !.storm = r.storm]
      BY <1>0, <2>1 DEF ParseCyclone
    <2> HIDE DEF e, id, raw
    <2>4. /\ e.source = r.agency /\ e.hazard = "cyclone" /\ e.magnitude = Missing
          /\ e.depth = Missing /\ e.confidence = Missing /\ e.intensity = r.wind
      BY <2>3 DEF NormalizedEvent
    <2> QED
      BY <2>2, <2>4 DEF Parsed, HazardOf, FirmsFiles, Agencies, Missing, e
  <1> QED
    BY <1>1, <1>2, <1>3, <1>4, <1>5, <1>6 DEF Services

\* A page is parsed into events.
LEMMA ParsePageIsParsed ==
  ASSUME NEW s \in Services, NEW page \in Seq(Records(s))
  PROVE  \E A : ParsePage(s, page) \in Seq(A) /\ \A e \in A : Parsed(e)
  <1> DEFINE read == [i \in DOMAIN page |-> Parse(s, page[i])]
             K == {i \in DOMAIN read : read[i].source # "dropped"}
             B == {read[i] : i \in DOMAIN read}
             A == {read[i] : i \in K}
             kept == Keep(read, K)
  <1>1. /\ DOMAIN read = 1..Len(page) /\ Len(page) \in Nat
        /\ \A i \in DOMAIN read : page[i] \in Records(s) /\ read[i] = Parse(s, page[i])
    OBVIOUS
  <1>2. ASSUME NEW i \in K PROVE Parsed(read[i])
    BY <1>1, ParseIsParsed
  <1>3. ParsePage(s, page) = kept
    BY DEF ParsePage
  <1>4. read \in Seq(B) /\ K \in SUBSET DOMAIN read
    BY <1>1
  <1> HIDE DEF read, K, B
  <1>5. kept \in Seq(B) /\ \A i \in DOMAIN kept : \E k \in K : kept[i] = read[k]
    BY <1>4, KeepType
  <1> HIDE DEF kept
  <1>6. kept \in Seq(A)
    BY <1>5
  <1>7. \A e \in A : Parsed(e)
    BY <1>2
  <1> HIDE DEF A
  <1> QED
    BY <1>3, <1>6, <1>7

-----------------------------------------------------------------------------
(***************************************************************************)
(* The invariant of the tables.  A run carries parsed events only, its     *)
(* batches valid ones, and the rows are of parsed events: by its source it *)
(* is known which tables keep an event, so that a revision replaces it in  *)
(* the same ones.                                                          *)
(***************************************************************************)
RunInv ==
    /\ service \in Services \cup {"none"}
    /\ IF service = "none" THEN toFetch = <<>> ELSE toFetch \in Seq(Seq(Records(service)))
    /\ \E A : parsed \in Seq(A) /\ \A e \in A : Parsed(e)
    /\ \E A : chunks \in Seq(Seq(A)) /\ \A e \in A : Parsed(e) /\ Valid(e)

RowsInv ==
    /\ \A e \in hazardRows : Parsed(e)
    /\ \A e \in sourceRows : HasSourceTable(e)

SourcesInv == RunInv /\ RowsInv /\ TablesAgree

LEMMA KeysOfRows ==
  ASSUME NEW x, NEW y
  PROVE  /\ SourceKey(x) = SourceKey(y) => x.source = y.source /\ x.id = y.id
         /\ SourceTableKey(x) = SourceTableKey(y) => SourceKey(x) = SourceKey(y)
         /\ SourceKey(x) = SourceKey(y) /\ x.source # "cwc" =>
               SourceTableKey(x) = SourceTableKey(y)
         /\ SourceKey(x) = SourceKey(y) /\ x.at = y.at =>
               SourceTableKey(x) = SourceTableKey(y)
  <1>1. SourceKey(x) = SourceKey(y) => x.source = y.source /\ x.id = y.id
    BY DEF SourceKey
  <1>2. ASSUME SourceTableKey(x) = SourceTableKey(y) PROVE SourceKey(x) = SourceKey(y)
    <2>1. Len(SourceTableKey(x)) = IF x.source = "cwc" THEN 3 ELSE 2
      BY DEF SourceTableKey, SourceKey
    <2>2. Len(SourceTableKey(y)) = IF y.source = "cwc" THEN 3 ELSE 2
      BY DEF SourceTableKey, SourceKey
    <2>3. x.source = "cwc" <=> y.source = "cwc"
      BY <1>2, <2>1, <2>2
    <2> QED
      BY <1>2, <2>3 DEF SourceTableKey, SourceKey
  <1>3. SourceKey(x) = SourceKey(y) /\ x.source # "cwc" =>
           SourceTableKey(x) = SourceTableKey(y)
    BY <1>1 DEF SourceTableKey
  <1>4. SourceKey(x) = SourceKey(y) /\ x.at = y.at => SourceTableKey(x) = SourceTableKey(y)
    BY <1>1 DEF SourceTableKey
  <1> QED
    BY <1>1, <1>2, <1>3, <1>4

LEMMA SameTables ==
  ASSUME NEW x, Parsed(x), NEW y, Parsed(y), SourceKey(x) = SourceKey(y)
  PROVE  HasLegacyRow(x) = HasLegacyRow(y) /\ HasSourceTable(x) = HasSourceTable(y)
  <1>1. x.source = y.source
    BY KeysOfRows
  <1>2. x.hazard = y.hazard
    BY <1>1 DEF Parsed
  <1> QED
    BY <1>1, <1>2 DEF HasLegacyRow, HasSourceTable

LEMMA StoreKeepsRows ==
  ASSUME RunInv, RowsInv, TablesAgree, StoreChunk
  PROVE  /\ RowsInv' /\ TablesAgree'
         /\ \A i \in DOMAIN Head(chunks) : Parsed(Head(chunks)[i]) /\ Valid(Head(chunks)[i])
  <1> DEFINE batch == Head(chunks)
             new == {batch[i] : i \in DOMAIN batch}
             kept == {e \in new : HasSourceTable(e)}
             shown == {e \in new : HasLegacyRow(e)}
  <1>1. PICK A : chunks \in Seq(Seq(A)) /\ \A e \in A : Parsed(e) /\ Valid(e)
    BY DEF RunInv
  <1>2. batch \in Seq(A) /\ OneRowPerKey(batch)
    BY <1>1 DEF StoreChunk
  <1>3. \A e \in new : Parsed(e)
    BY <1>1, <1>2
  <1>4. /\ hazardRows' = {x \in hazardRows : \A e \in new : SourceKey(e) # SourceKey(x)} \cup new
        /\ sourceRows' = {x \in sourceRows : \A e \in kept : SourceTableKey(e) # SourceTableKey(x)}
                             \cup kept
        /\ legacyRows' = {x \in legacyRows : \A e \in shown : SourceKey(e) # SourceKey(x)}
                             \cup shown
    BY DEF StoreChunk, Put, TableKey
  <1>5. chunks' = Tail(chunks) /\ chunks # <<>>
    BY DEF StoreChunk
  <1>6. \A i \in DOMAIN batch : Parsed(batch[i]) /\ Valid(batch[i])
    BY <1>1, <1>2
  <1> HIDE DEF batch, new
  <1>7. RowsInv'
    BY <1>3, <1>4 DEF RowsInv
  <1>8. legacyRows' = {e \in hazardRows' : HasLegacyRow(e)}
    <2>1. ASSUME NEW x \in hazardRows, HasLegacyRow(x)
          PROVE  (\A e \in new : SourceKey(e) # SourceKey(x)) <=>
                 (\A e \in shown : SourceKey(e) # SourceKey(x))
      BY <1>3, <2>1, SameTables DEF RowsInv
    <2>2. legacyRows = {e \in hazardRows : HasLegacyRow(e)}
      BY DEF TablesAgree
    <2> QED
      BY <1>4, <2>1, <2>2
  <1>9. ASSUME NEW x \in hazardRows', HasSourceTable(x) PROVE x \in sourceRows'
    <2>1. CASE x \in new
      BY <1>4, <1>9, <2>1
    <2>2. CASE x \notin new
      <3>1. x \in hazardRows /\ \A e \in new : SourceKey(e) # SourceKey(x)
        BY <1>4, <2>2
      <3>2. x \in sourceRows
        BY <1>9, <3>1 DEF TablesAgree
      <3>3. \A e \in kept : SourceTableKey(e) # SourceTableKey(x)
        BY <3>1, KeysOfRows
      <3> QED
        BY <1>4, <3>2, <3>3
    <2> QED
      BY <2>1, <2>2
  <1>10. ASSUME NEW x \in sourceRows', x \notin hazardRows'
         PROVE  x.source = "cwc" /\ \E e \in hazardRows' : SourceKey(e) = SourceKey(x) /\ e.at # x.at
    <2>1. /\ x \in sourceRows /\ HasSourceTable(x)
          /\ \A e \in kept : SourceTableKey(e) # SourceTableKey(x)
      BY <1>4, <1>10 DEF RowsInv
    <2>2. ASSUME NEW e \in new, SourceKey(e) = SourceKey(x)
          PROVE  x.source = "cwc" /\ e \in hazardRows' /\ e.at # x.at
      <3>1. e.source = x.source
        BY <2>2, KeysOfRows
      <3>2. e \in kept
        BY <2>1, <3>1 DEF HasSourceTable
      <3>3. SourceTableKey(e) # SourceTableKey(x)
        BY <2>1, <3>2
      <3> QED
        BY <1>4, <2>2, <3>1, <3>3, KeysOfRows
    <2>3. CASE \E e \in new : SourceKey(e) = SourceKey(x)
      BY <2>2, <2>3
    <2>4. CASE \A e \in new : SourceKey(e) # SourceKey(x)
      <3>1. x \notin hazardRows
        BY <1>4, <1>10, <2>4
      <3>2. /\ x.source = "cwc"
            /\ \E e \in hazardRows : SourceKey(e) = SourceKey(x) /\ e.at # x.at
        BY <2>1, <3>1 DEF TablesAgree
      <3> QED
        BY <1>4, <2>4, <3>2
    <2> QED
      BY <2>3, <2>4
  <1>11. \A i \in DOMAIN chunks' : OneRowPerKey(chunks'[i])
    <2>1. \A i \in DOMAIN chunks' : i + 1 \in DOMAIN chunks /\ chunks'[i] = chunks[i + 1]
      BY <1>1, <1>5
    <2> QED
      BY <2>1 DEF TablesAgree
  <1> QED
    BY <1>6, <1>7, <1>8, <1>9, <1>10, <1>11 DEF TablesAgree, batch

LEMMA FetchKeeps ==
  ASSUME SourcesInv, FetchPage
  PROVE  SourcesInv'
  <1>1. /\ service \in Services /\ toFetch \in Seq(Seq(Records(service))) /\ toFetch # <<>>
        /\ service' = service
    BY DEF SourcesInv, RunInv, FetchPage
  <1>2. Head(toFetch) \in Seq(Records(service)) /\ Tail(toFetch) \in Seq(Seq(Records(service)))
    BY <1>1
  <1>3. PICK A : ParsePage(service, Head(toFetch)) \in Seq(A) /\ \A e \in A : Parsed(e)
    BY <1>1, <1>2, ParsePageIsParsed
  <1>4. PICK B : parsed \in Seq(B) /\ \A e \in B : Parsed(e)
    BY DEF SourcesInv, RunInv
  <1> DEFINE C == A \cup B
  <1>5. \A e \in C : Parsed(e)
    BY <1>3, <1>4
  <1>6. parsed' \in Seq(C)
    <2> DEFINE page == ParsePage(service, Head(toFetch))
    <2>1. page \in Seq(C) /\ parsed \in Seq(C)
      BY <1>3, <1>4
    <2>2. parsed' = parsed \o page
      BY DEF FetchPage
    <2> HIDE DEF page, C
    <2> QED
      BY <2>1, <2>2
  <1> HIDE DEF C
  <1> DEFINE stored == Accepted(service, parsed')
             batches == ChunksOf(service, stored)
  <1> DEFINE V == {e \in C : Valid(e)}
  <1>7. stored \in Seq(V) /\ OneRowPerKey(stored)
    BY <1>6, AcceptedIsUnique
  <1>7a. \A e \in V : Parsed(e) /\ Valid(e)
    BY <1>5
  <1> HIDE DEF stored, V
  <1>8. batches \in Seq(Seq(V)) /\ \A i \in DOMAIN batches : OneRowPerKey(batches[i])
    BY <1>7, ChunksAreUnique
  <1>9. chunks' = batches \/ chunks' = <<>>
    BY DEF FetchPage, stored
  <1> HIDE DEF batches
  <1>10. chunks' \in Seq(Seq(V)) /\ \A i \in DOMAIN chunks' : OneRowPerKey(chunks'[i])
    <2>1. CASE chunks' = batches
      BY <1>8, <2>1
    <2>2. CASE chunks' = <<>>
      <3>1. <<>> \in Seq(Seq(V)) /\ DOMAIN <<>> = {}
        OBVIOUS
      <3> QED
        BY <2>2, <3>1
    <2> QED
      BY <1>9, <2>1, <2>2
  <1>11. RunInv'
    <2>1. toFetch' \in Seq(Seq(Records(service'))) /\ service' # "none"
      BY <1>1, <1>2 DEF FetchPage, Services
    <2> QED
      BY <1>1, <1>5, <1>6, <1>7a, <1>10, <2>1 DEF RunInv
  <1>12. RowsInv' /\ TablesAgree'
    BY <1>10 DEF SourcesInv, RowsInv, TablesAgree, FetchPage, tables
  <1> QED
    BY <1>11, <1>12 DEF SourcesInv

LEMMA BeginKeeps ==
  ASSUME SourcesInv, NEW v \in Visits, BeginIngest(v)
  PROVE  SourcesInv'
  <1>1. v.service \in Services /\ v.pages \in Seq(Seq(Records(v.service)))
    BY SourcesAssumption
  <1>2. /\ service' = v.service /\ toFetch' = v.pages
        /\ UNCHANGED <<parsed, chunks, hazardRows, sourceRows, legacyRows>>
    BY DEF BeginIngest, tables
  <1>3. RunInv'
    <2>1. service' # "none"
      BY <1>1, <1>2 DEF Services
    <2> QED
      BY <1>1, <1>2, <2>1 DEF SourcesInv, RunInv
  <1> QED
    BY <1>2, <1>3 DEF SourcesInv, RowsInv, TablesAgree

LEMMA EndKeeps ==
  ASSUME SourcesInv, EndIngest, UNCHANGED tables
  PROVE  SourcesInv'
  <1>1. RunInv'
    <2>1. <<>> \in Seq({}) /\ <<>> \in Seq(Seq({}))
      OBVIOUS
    <2>2. \E A : parsed' \in Seq(A) /\ \A e \in A : Parsed(e)
      BY <2>1 DEF EndIngest
    <2>3. \E A : chunks' \in Seq(Seq(A)) /\ \A e \in A : Parsed(e) /\ Valid(e)
      BY <2>1 DEF EndIngest
    <2> QED
      BY <2>2, <2>3 DEF RunInv, EndIngest
  <1>2. DOMAIN chunks' = {}
    BY DEF EndIngest
  <1> QED
    BY <1>1, <1>2 DEF SourcesInv, RowsInv, TablesAgree, tables

LEMMA StoreKeeps ==
  ASSUME SourcesInv, StoreChunk
  PROVE  SourcesInv'
  <1>1. PICK A : chunks \in Seq(Seq(A)) /\ \A e \in A : Parsed(e) /\ Valid(e)
    BY DEF SourcesInv, RunInv
  <1>2. chunks' \in Seq(Seq(A))
    BY <1>1 DEF StoreChunk
  <1>3. RunInv'
    BY <1>1, <1>2 DEF SourcesInv, RunInv, StoreChunk
  <1> QED
    BY <1>3, StoreKeepsRows DEF SourcesInv

LEMMA SourcesKeeps == SourcesInv /\ [SourcesNext]_sourceVars => SourcesInv'
  <1> SUFFICES ASSUME SourcesInv, [SourcesNext]_sourceVars PROVE SourcesInv'
    OBVIOUS
  <1>1. CASE FetchFails \/ StoreFails \/ FinishIngest
    BY <1>1, EndKeeps DEF FetchFails, StoreFails, FinishIngest
  <1>2. CASE TimePasses \/ UNCHANGED sourceVars
    <2>1. UNCHANGED <<service, toFetch, parsed, chunks, hazardRows, sourceRows, legacyRows>>
      BY <1>2 DEF TimePasses, sourceVars, tables
    <2> QED
      BY <2>1 DEF SourcesInv, RunInv, RowsInv, TablesAgree
  <1> QED
    BY <1>1, <1>2, BeginKeeps, FetchKeeps, StoreKeeps DEF SourcesNext

LEMMA SourcesStart == SourcesInit => SourcesInv
  <1> SUFFICES ASSUME SourcesInit PROVE SourcesInv
    OBVIOUS
  <1>1. <<>> \in Seq({}) /\ <<>> \in Seq(Seq({})) /\ DOMAIN <<>> = {}
    OBVIOUS
  <1> QED
    BY <1>1 DEF SourcesInit, SourcesInv, RunInv, RowsInv, TablesAgree

\* The tables that the upserts of a run write (bulk_upsert_hazard_events and the
\* upserts of the services) agree after every batch, for every page a source
\* may answer, and no batch names a row twice.
THEOREM TablesAlwaysAgree == SourcesSpec => []TablesAgree
  <1>1. SourcesInv => TablesAgree
    BY DEF SourcesInv
  <1> QED
    BY <1>1, SourcesStart, SourcesKeeps, PTL DEF SourcesSpec

-----------------------------------------------------------------------------
(***************************************************************************)
(* Publishing and scoring take nothing from the tables.                    *)
(***************************************************************************)
LEMMA ScoringStepIsSourcesStep == [ScoringNext]_scoringVars => [SourcesNext]_sourceVars
  BY DEF ScoringNext, scoringVars, SourcesElse, StoreAndPublish, Consume,
     ConsumeFails, Take, SourcesNext

\* What is published and scored only watches the runs: a run with its stream and
\* its consumers behaves as the run alone (publish_hazard_events comes after the
\* commit, and its failure takes no row back).
THEOREM ScoringRunsSources == ScoringSpec => SourcesSpec
  BY ScoringStepIsSourcesStep, PTL DEF ScoringSpec, ScoringInit, SourcesSpec

-----------------------------------------------------------------------------
(***************************************************************************)
(* The score grows with the readings.                                      *)
(***************************************************************************)
LEMMA AtMostGrows ==
  ASSUME NEW x \in Int, NEW y \in Int, x >= y, NEW limit \in Int
  PROVE  AtMost(x, limit) \in Int /\ AtMost(y, limit) \in Int /\ AtMost(x, limit) >= AtMost(y, limit)
  BY DEF AtMost

LEMMA AtLeastGrows ==
  ASSUME NEW x \in Int, NEW y \in Int, x >= y
  PROVE  AtLeast(x, 0) \in Int /\ AtLeast(y, 0) \in Int /\ AtLeast(x, 0) >= AtLeast(y, 0)
  BY DEF AtLeast

LEMMA ProductsGrow ==
  ASSUME NEW x \in Int, NEW y \in Int, x >= y, NEW factor \in Nat
  PROVE  x * factor \in Int /\ y * factor \in Int /\ x * factor >= y * factor
  <1>1. (x - y) * factor >= 0 /\ (x - y) * factor = x * factor - y * factor
    BY SMT
  <1> QED
    BY <1>1

LEMMA UnitType == Unit \in Int
  BY SMT DEF Unit

LEMMA PartsOfUnit ==
  /\ Unit \div 45 \in Nat /\ Unit \div 80 \in Nat
  /\ Unit \div 100 \in Nat /\ Unit \div 100000 \in Nat
  BY SMT DEF Unit

LEMMA ShallowBonusGrows ==
  ASSUME NEW d \in Int, NEW f \in Int, d <= f
  PROVE  ShallowBonus(d) \in Int /\ ShallowBonus(d) >= ShallowBonus(f)
  BY PartsOfUnit, SMT DEF ShallowBonus

LEMMA ScoreQuakeGrows ==
  ASSUME NEW e, Parsed(e), NEW f, Parsed(f),
         Known(e.magnitude, f.magnitude), e.magnitude >= f.magnitude,
         Known(e.depth, f.depth), e.depth <= f.depth
  PROVE  /\ ScoreQuake(e) \in Int /\ ScoreQuake(f) \in Int
         /\ ScoreQuake(e) >= ScoreQuake(f)
  <1> DEFINE excess(m) == (m - 30) * (Unit \div 45)
             capped(m) == AtMost(AtLeast(excess(m), 0), Unit)
             score(m, d) == AtMost(capped(m) + ShallowBonus(d), Unit)
  <1>1. /\ e.magnitude \in Int /\ f.magnitude \in Int /\ e.depth \in Int /\ f.depth \in Int
    BY DEF Parsed
  <1>2. /\ ScoreQuake(e) = score(e.magnitude, e.depth)
        /\ ScoreQuake(f) = score(f.magnitude, f.depth)
    BY DEF ScoreQuake, Known
  <1>3. /\ excess(e.magnitude) \in Int /\ excess(f.magnitude) \in Int
        /\ excess(e.magnitude) >= excess(f.magnitude)
    <2>1. e.magnitude - 30 \in Int /\ f.magnitude - 30 \in Int /\ e.magnitude - 30 >= f.magnitude - 30
      BY <1>1
    <2> QED
      BY <2>1, PartsOfUnit, ProductsGrow, SMT
  <1> HIDE DEF excess
  <1>4. /\ capped(e.magnitude) \in Int /\ capped(f.magnitude) \in Int
        /\ capped(e.magnitude) >= capped(f.magnitude)
    <2> DEFINE positive(m) == AtLeast(excess(m), 0)
    <2>1. /\ positive(e.magnitude) \in Int /\ positive(f.magnitude) \in Int
          /\ positive(e.magnitude) >= positive(f.magnitude)
      BY <1>3, AtLeastGrows
    <2> HIDE DEF positive
    <2>2. \A m : capped(m) = AtMost(positive(m), Unit)
      BY DEF positive
    <2> HIDE DEF capped
    <2> QED
      BY <2>1, <2>2, UnitType, AtMostGrows, SMT
  <1> HIDE DEF capped
  <1>5. /\ ShallowBonus(e.depth) \in Int /\ ShallowBonus(f.depth) \in Int
        /\ ShallowBonus(e.depth) >= ShallowBonus(f.depth)
    BY <1>1, ShallowBonusGrows
  <1>6. /\ score(e.magnitude, e.depth) \in Int /\ score(f.magnitude, f.depth) \in Int
        /\ score(e.magnitude, e.depth) >= score(f.magnitude, f.depth)
    <2> DEFINE sum(m, d) == capped(m) + ShallowBonus(d)
    <2>1. /\ sum(e.magnitude, e.depth) \in Int /\ sum(f.magnitude, f.depth) \in Int
          /\ sum(e.magnitude, e.depth) >= sum(f.magnitude, f.depth)
      BY <1>4, <1>5
    <2> HIDE DEF sum
    <2>2. \A m, d : score(m, d) = AtMost(sum(m, d), Unit)
      BY DEF sum
    <2> HIDE DEF score
    <2> QED
      BY <2>1, <2>2, UnitType, AtMostGrows, SMT
  <1> QED
    BY <1>2, <1>6

LEMMA ScoreWildfireGrows ==
  ASSUME NEW e, Parsed(e), e.hazard = "wildfire", NEW f, Parsed(f), f.hazard = "wildfire",
         Known(e.intensity, f.intensity), e.intensity >= f.intensity,
         Known(e.confidence, f.confidence), e.confidence >= f.confidence
  PROVE  /\ ScoreWildfire(e) \in Int /\ ScoreWildfire(f) \in Int
         /\ ScoreWildfire(e) >= ScoreWildfire(f)
  <1> DEFINE base(p) == AtMost(p * (Unit \div 80), Unit)
             extra(c) == AtLeast(c, 0) * (Unit \div 100000)
             score(p, c) == AtMost(base(p) + extra(c), Unit)
  <1>1. /\ e.intensity \in Int /\ f.intensity \in Int /\ e.confidence \in Int /\ f.confidence \in Int
        /\ Value(e, "frp") = e.intensity /\ Value(f, "frp") = f.intensity
    BY DEF Parsed, Value
  <1>2. /\ ScoreWildfire(e) = score(e.intensity, e.confidence)
        /\ ScoreWildfire(f) = score(f.intensity, f.confidence)
    BY <1>1 DEF ScoreWildfire, Known
  <1>3. /\ base(e.intensity) \in Int /\ base(f.intensity) \in Int
        /\ base(e.intensity) >= base(f.intensity)
    <2> DEFINE power(p) == p * (Unit \div 80)
    <2>1. /\ power(e.intensity) \in Int /\ power(f.intensity) \in Int
          /\ power(e.intensity) >= power(f.intensity)
      BY <1>1, PartsOfUnit, ProductsGrow, SMT
    <2> HIDE DEF power
    <2>2. \A p : base(p) = AtMost(power(p), Unit)
      BY DEF power
    <2> HIDE DEF base
    <2> QED
      BY <2>1, <2>2, UnitType, AtMostGrows, SMT
  <1> HIDE DEF base
  <1>4. /\ extra(e.confidence) \in Int /\ extra(f.confidence) \in Int
        /\ extra(e.confidence) >= extra(f.confidence)
    <2>1. /\ AtLeast(e.confidence, 0) \in Int /\ AtLeast(f.confidence, 0) \in Int
          /\ AtLeast(e.confidence, 0) >= AtLeast(f.confidence, 0)
      BY <1>1, AtLeastGrows
    <2> QED
      BY <2>1, PartsOfUnit, ProductsGrow, SMT
  <1> HIDE DEF extra
  <1>5. /\ score(e.intensity, e.confidence) \in Int /\ score(f.intensity, f.confidence) \in Int
        /\ score(e.intensity, e.confidence) >= score(f.intensity, f.confidence)
    <2> DEFINE sum(p, c) == base(p) + extra(c)
    <2>1. /\ sum(e.intensity, e.confidence) \in Int /\ sum(f.intensity, f.confidence) \in Int
          /\ sum(e.intensity, e.confidence) >= sum(f.intensity, f.confidence)
      BY <1>3, <1>4
    <2> HIDE DEF sum
    <2>2. \A p, c : score(p, c) = AtMost(sum(p, c), Unit)
      BY DEF sum
    <2> HIDE DEF score
    <2> QED
      BY <2>1, <2>2, UnitType, AtMostGrows, SMT
  <1> QED
    BY <1>2, <1>5

LEMMA TiersGrow ==
  ASSUME NEW x \in Int, NEW y \in Int, x >= y
  PROVE  Rank(AlertTier(x)) >= Rank(AlertTier(y))
  BY PartsOfUnit, SMT DEF AlertTier, Rank

\* score_event and alert_tier: the worse of two events has the higher tier.
LEMMA WorseScoresHigher ==
  ASSUME NEW e, Parsed(e), NEW f, Parsed(f), AtLeastAsBad(e, f)
  PROVE  Rank(AlertTier(Score(e))) >= Rank(AlertTier(Score(f)))
  <1>1. CASE e.hazard = "earthquake" /\ f.hazard = "earthquake"
    <2>1. Score(e) = ScoreQuake(e) /\ Score(f) = ScoreQuake(f)
      BY <1>1 DEF Score
    <2>2. /\ Known(e.magnitude, f.magnitude) /\ e.magnitude >= f.magnitude
          /\ Known(e.depth, f.depth) /\ e.depth <= f.depth
      BY <1>1 DEF AtLeastAsBad
    <2> QED
      BY <2>1, <2>2, ScoreQuakeGrows, TiersGrow
  <1>2. CASE e.hazard = "wildfire" /\ f.hazard = "wildfire"
    <2>1. Score(e) = ScoreWildfire(e) /\ Score(f) = ScoreWildfire(f)
      BY <1>2 DEF Score
    <2>2. /\ Known(e.intensity, f.intensity) /\ e.intensity >= f.intensity
          /\ Known(e.confidence, f.confidence) /\ e.confidence >= f.confidence
      BY <1>2 DEF AtLeastAsBad
    <2> QED
      BY <1>2, <2>1, <2>2, ScoreWildfireGrows, TiersGrow
  <1> QED
    BY <1>1, <1>2 DEF AtLeastAsBad

-----------------------------------------------------------------------------
(***************************************************************************)
(* What the consumers read was parsed and is valid, a tier is that of the  *)
(* score, and what is scored, but no dead letter, validates.               *)
(***************************************************************************)
ScoredInv ==
    /\ \A e \in published : Parsed(e) /\ Valid(e)
    /\ \A s \in scored :
          Parsed(s.event) /\ Validates(s.event) /\ s.tier = AlertTier(Score(s.event))
    /\ \A d \in deadLetters : Parsed(d) /\ Valid(d) /\ ~Validates(d)

LEMMA ConsumeKeeps == ASSUME ScoredInv, NEW e, Consume(e) \/ ConsumeFails(e) PROVE ScoredInv'
  <1> DEFINE made == [event |-> e, tier |-> AlertTier(Score(e))]
  <1>1. made.event = e /\ made.tier = AlertTier(Score(e))
    OBVIOUS
  <1>2. Parsed(e) /\ Valid(e) /\ published' \in SUBSET published
    BY DEF ScoredInv, Consume, ConsumeFails, Take
  <1>3. /\ scored' = scored \/ (Validates(e) /\ scored' = scored \cup {made})
        /\ deadLetters' = deadLetters \/ (~Validates(e) /\ deadLetters' = deadLetters \cup {e})
    BY DEF Consume, ConsumeFails
  <1> HIDE DEF made
  <1>4. \A s \in scored' :
           Parsed(s.event) /\ Validates(s.event) /\ s.tier = AlertTier(Score(s.event))
    BY <1>1, <1>2, <1>3 DEF ScoredInv
  <1>5. \A d \in deadLetters' : Parsed(d) /\ Valid(d) /\ ~Validates(d)
    BY <1>2, <1>3 DEF ScoredInv
  <1> QED
    BY <1>2, <1>4, <1>5 DEF ScoredInv

LEMMA ScoredKeeps == SourcesInv /\ ScoredInv /\ [ScoringNext]_scoringVars => ScoredInv'
  <1> SUFFICES ASSUME SourcesInv, ScoredInv, [ScoringNext]_scoringVars PROVE ScoredInv'
    OBVIOUS
  <1>1. CASE StoreAndPublish
    <2>1. \A i \in DOMAIN Head(chunks) : Parsed(Head(chunks)[i]) /\ Valid(Head(chunks)[i])
      BY <1>1, StoreKeepsRows DEF SourcesInv, StoreAndPublish
    <2> QED
      BY <1>1, <2>1 DEF ScoredInv, StoreAndPublish, consumerVars
  <1>2. CASE UNCHANGED <<published, consumerVars>>
    BY <1>2 DEF ScoredInv, consumerVars
  <1> QED
    BY <1>1, <1>2, ConsumeKeeps DEF ScoringNext, scoringVars

\* A valid event that the consumers refuse is an earthquake, of no magnitude or
\* of one out of their range.
LEMMA RefusedQuakes ==
  ASSUME NEW d, Parsed(d), Valid(d), ~Validates(d), d.hazard \in {"earthquake", "wildfire"}
  PROVE  d.hazard = "earthquake" /\ (d.magnitude = Missing \/ d.magnitude \notin 0..100)
  <1>1. d.point # OffTheMap
    BY DEF Valid, ValidQuake, ValidWildfire, OnTheMap, InIndiaBox, OffTheMap
  <1> QED
    BY <1>1 DEF Validates

\* What is worse than a scored event is discarded only beyond the range.
LEMMA WorseIsNotRefused ==
  ASSUME NEW d, Parsed(d), Valid(d), ~Validates(d),
         NEW e, Parsed(e), Validates(e), AtLeastAsBad(d, e)
  PROVE  d.magnitude > 100
  <1>1. d.hazard \in {"earthquake", "wildfire"} /\ e.hazard = d.hazard
    BY DEF AtLeastAsBad
  <1>2. d.hazard = "earthquake" /\ (d.magnitude = Missing \/ d.magnitude \notin 0..100)
    BY <1>1, RefusedQuakes
  <1>3. d.magnitude # Missing /\ d.magnitude >= e.magnitude
    BY <1>2 DEF AtLeastAsBad, Known
  <1>4. e.magnitude \in 0..100
    BY <1>1, <1>2 DEF Validates
  <1>5. d.magnitude \in Int
    BY DEF Parsed
  <1> QED
    BY <1>2, <1>3, <1>4, <1>5

\* validate, score_event and alert_tier, over everything publish_hazard_events
\* puts on the stream: the stronger and shallower of two earthquakes, the more
\* powerful and more certain of two fires never gets the milder tier, and is a
\* dead letter only if its magnitude is above 10.
THEOREM TiersFollowReadings == ScoringSpec => []WorseIsNeverMilder
  <1>1. ScoringInit => SourcesInv /\ ScoredInv
    BY SourcesStart DEF ScoringInit, ScoredInv
  <1>2. SourcesInv /\ [ScoringNext]_scoringVars => SourcesInv'
    BY ScoringStepIsSourcesStep, SourcesKeeps
  <1>3. ScoredInv => WorseIsNeverMilder
    <2> SUFFICES ASSUME ScoredInv PROVE WorseIsNeverMilder
      OBVIOUS
    <2>1. \A s, t \in scored : AtLeastAsBad(s.event, t.event) => Rank(s.tier) >= Rank(t.tier)
      BY WorseScoresHigher DEF ScoredInv
    <2>2. \A s \in scored, d \in deadLetters : AtLeastAsBad(d, s.event) => d.magnitude > 100
      BY WorseIsNotRefused DEF ScoredInv
    <2> QED
      BY <2>1, <2>2 DEF WorseIsNeverMilder
  <1> QED
    BY <1>1, <1>2, <1>3, ScoredKeeps, PTL DEF ScoringSpec
=============================================================================
