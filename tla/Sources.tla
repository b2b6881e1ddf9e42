------------------------------ MODULE Sources ------------------------------
(***************************************************************************)
(* What the five ingestion services make of the pages they fetch           *)
(* (backend/app/ingestion): records become normalized events, which are    *)
(* validated, freed of duplicates and upserted in three tables.            *)
(*                                                                         *)
(* Ingestion models when runs happen and how they interleave; this module  *)
(* what one run does with its data.  Texts are read already: a record has  *)
(* the fields the parsers find.  Positions are named by the boxes they are *)
(* in, magnitudes are in tenths, levels in centimetres.                    *)
(***************************************************************************)
EXTENDS Integers, Sequences, FiniteSets, TLC

CONSTANTS Visits,     \* what a run may find: a service and its urls' records
          ChunkSize,  \* batch_size of ingest_firms (500)
          MaxIngests, \* bound: runs
          LastInstant \* bound: the clock, two instants to a minute

Services == {"usgs", "firms", "cwc", "weather", "cyclones"}

\* A value a record or a payload does not have.
Missing == -1000

Times == Nat \cup {Missing}
Nowhere == "nowhere"                         \* no coordinates
OffTheMap == "latitude 95"                   \* no valid coordinates
Places == {"Delhi", "Ladakh", "Bay of Bengal", "Chile"}
Positions == Places \cup {Nowhere, OffTheMap}

\* The records of a service's pages.
FirmsFiles == {"snpp", "noaa20", "noaa21", "modis"}
Agencies == {"imd_rsmc", "jtwc"}

QuakeRecords == [id : STRING, time : Times, point : Positions, mag : Int, depth : Int]
HotspotRecords == [file : FirmsFiles, time : Times, satellite : STRING, point : Positions,
                   frp : Int, confidence : Int]
GaugeRecords == [station : STRING, time : Times, point : Positions,
                 level : Int, warning : Int, danger : Int]
BulletinRecords == [url : STRING, point : Positions, words : {"none", "flood", "severe"}]
RainRecords == [time : Times, point : Positions, rain : Int]
StormRecords == [agency : Agencies, url : STRING, storm : STRING, relevant : BOOLEAN,
                 point : Positions, wind : Int]

Records(s) ==
    CASE s = "usgs" -> QuakeRecords
      [] s = "firms" -> HotspotRecords
      [] s = "cwc" -> GaugeRecords \cup BulletinRecords
      [] s = "weather" -> RainRecords
      [] s = "cyclones" -> StormRecords

ASSUME SourcesAssumption ==
    /\ ChunkSize \in Nat \ {0} /\ MaxIngests \in Nat /\ LastInstant \in Nat
    /\ \A v \in Visits : v.service \in Services /\ v.pages \in Seq(Seq(Records(v.service)))

VARIABLES
    now,         \* the clock
    ingests,     \* runs begun
    service,     \* the service that runs, or "none"
    toFetch,     \* urls of the run that are still to be fetched
    parsed,      \* the events parsed so far
    chunks,      \* the batches that are still to be stored
    hazardRows,  \* hazard_events
    sourceRows,  \* earthquakes, wildfires, river_gauges, weather_events, cyclones
    legacyRows   \* events

tables == <<hazardRows, sourceRows, legacyRows>>
sourceVars == <<now, ingests, service, toFetch, parsed, chunks, tables>>

SourcesInit ==
    /\ now = 0 /\ ingests = 0
    /\ service = "none" /\ toFetch = <<>> /\ parsed = <<>> /\ chunks = <<>>
    /\ hazardRows = {} /\ sourceRows = {} /\ legacyRows = {}

-----------------------------------------------------------------------------
(***************************************************************************)
(* Positions.                                                              *)
(***************************************************************************)
OnTheMap(p) == p \notin {Nowhere, OffTheMap}
InIndiaBox(p) == p \in {"Delhi", "Ladakh"}
InNorthIndianOcean(p) == p \in {"Delhi", "Bay of Bengal"}

\* The elements of a sequence at the positions in K, in order.
Keep(s, K) ==
    LET position(i) == CHOOSE k \in K : Cardinality({j \in K : j <= k}) = i
    IN  [i \in 1..Cardinality(K) |-> s[position(i)]]

-----------------------------------------------------------------------------
(***************************************************************************)
(* The parsers.                                                            *)
(***************************************************************************)
Dropped == [source |-> "dropped"]

\* timestamp_bucket_id has minutes.
Minute(t) == t \div 2

NormalizedEvent(source, id, hazard, at, point, raw) ==
    [source |-> source, id |-> id, hazard |-> hazard, at |-> at, point |-> point,
     raw |-> raw, magnitude |-> Missing, depth |-> Missing,
     confidence |-> Missing, intensity |-> Missing, storm |-> ""]

\* parse_feature
ParseQuake(f) ==
    IF f.point = Nowhere \/ f.time = Missing \/ f.id = "" THEN Dropped
    ELSE [NormalizedEvent("usgs", <<f.id>>, "earthquake", f.time, f.point, [feature |-> Missing])
             EXCEPT !.magnitude = f.mag, !.depth = f.depth]

\* parse_firms_csv: a row without coordinates is left to the validator.
ParseHotspot(r) ==
    IF r.time = Missing THEN Dropped
    ELSE [NormalizedEvent(r.file, <<r.point, r.time, r.satellite>>, "wildfire", r.time,
                          r.point, [frp |-> r.frp])
             EXCEPT !.confidence = r.confidence, !.intensity = r.frp]

Severity(actual, warning, danger) ==
    CASE actual = Missing -> Missing
      [] actual # Missing /\ danger # Missing /\ actual >= danger -> 3
      [] actual # Missing /\ (danger = Missing \/ actual < danger)
            /\ warning # Missing /\ actual >= warning -> 2
      [] OTHER -> 1

\* parse_cwc_gauge_tables: the raw payload is the table's row under the table's
\* headings.  A row without a date was observed when it is fetched.
ParseGauge(r) ==
    LET at == IF r.time = Missing THEN now ELSE r.time IN
    IF r.station = "" THEN Dropped
    ELSE [NormalizedEvent("cwc", <<r.station, Minute(at)>>, "flood", at, r.point,
                          "water level" :> r.level @@ "warning level" :> r.warning
                             @@ "danger level" :> r.danger)
             EXCEPT !.intensity = Severity(r.level, r.warning, r.danger)]

\* parse_state_bulletin
ParseStateBulletin(r) ==
    IF r.words = "none" THEN Dropped
    ELSE [NormalizedEvent("state_flood_bulletin", <<r.url, Minute(now)>>, "flood", now, r.point,
                          [url |-> Missing, text |-> Missing])
             EXCEPT !.intensity = IF r.words = "severe" THEN 3 ELSE 2]

\* CycloneParser.parse_text: the readings it finds go to the normalized
\* payload, the raw payload is the text.  They also tell one body from another.
ParseCyclone(r) ==
    IF ~r.relevant THEN Dropped
    ELSE [NormalizedEvent(r.agency, <<r.url, r.storm, r.wind>>, "cyclone", now, r.point,
                          [url |-> Missing, text |-> Missing])
             EXCEPT !.intensity = r.wind, !.storm = r.storm]

\* parse_open_meteo_rainfall
ParseRainfall(r) ==
    IF r.time = Missing THEN Dropped
    ELSE [NormalizedEvent("open_meteo", <<r.point, Minute(r.time)>>, "weather", r.time, r.point,
                          [precipitation_mm |-> r.rain])
             EXCEPT !.intensity = IF r.rain = Missing THEN 0 ELSE r.rain]

Parse(s, r) ==
    CASE s = "usgs" -> ParseQuake(r)
      [] s = "firms" -> ParseHotspot(r)
      [] s = "cwc" -> IF "words" \in DOMAIN r THEN ParseStateBulletin(r) ELSE ParseGauge(r)
      [] s = "weather" -> ParseRainfall(r)
      [] s = "cyclones" -> ParseCyclone(r)

ParsePage(s, page) ==
    LET read == [i \in DOMAIN page |-> Parse(s, page[i])]
    IN  Keep(read, {i \in DOMAIN read : read[i].source # "dropped"})

-----------------------------------------------------------------------------
(***************************************************************************)
(* The validators.                                                         *)
(***************************************************************************)
NotNegative(x) == x = Missing \/ x >= 0

ValidQuake(e) ==
    /\ OnTheMap(e.point)
    /\ e.magnitude = Missing \/ e.magnitude \in -20..120
    /\ e.depth = Missing \/ e.depth \in -20..800
ValidFlood(e) == InIndiaBox(e.point) /\ NotNegative(e.intensity)
ValidWildfire(e) == InIndiaBox(e.point) /\ NotNegative(e.intensity)
ValidWeather(e) == InIndiaBox(e.point) /\ NotNegative(e.intensity)
ValidCyclone(e) ==
    OnTheMap(e.point) /\ InNorthIndianOcean(e.point) /\ NotNegative(e.intensity)

Valid(e) ==
    CASE e.hazard = "earthquake" -> ValidQuake(e)
      [] e.hazard = "flood" -> ValidFlood(e)
      [] e.hazard = "wildfire" -> ValidWildfire(e)
      [] e.hazard = "weather" -> ValidWeather(e)
      [] e.hazard = "cyclone" -> ValidCyclone(e)

-----------------------------------------------------------------------------
(***************************************************************************)
(* From the parsed events to batches.                                      *)
(***************************************************************************)
SourceKey(e) == <<e.source, e.id>>

\* Variant: identifiers are taken to be unique within a page.
Unique_Trusting(s) == s

\* unique_by_source_event_id keeps the first event of a key.
Unique(s) ==
    Keep(s, {n \in DOMAIN s : \A k \in 1..(n - 1) : SourceKey(s[k]) # SourceKey(s[n])})

\* StormTracker.latest_by_name: each bulletin is stamped when it is parsed, so
\* the last one of a storm is its latest.
StormName(e) == IF e.storm = "" THEN e.id ELSE <<e.storm>>
LatestByName(s) ==
    Keep(s, {n \in DOMAIN s : \A k \in (n + 1)..Len(s) : StormName(s[k]) # StormName(s[n])})

\* The events a run stores: cyclones are tracked before they are validated.
Accepted(s, events) ==
    LET read == IF s = "cyclones" THEN LatestByName(events) ELSE events
    IN  Unique(Keep(read, {n \in DOMAIN read : Valid(read[n])}))

\* Batches of FIRMS events; a batch of the other services is the whole page.
ChunksOf(s, events) ==
    LET size == IF s = "firms" THEN ChunkSize ELSE Len(events)
        n == IF events = <<>> THEN 0 ELSE (Len(events) + size - 1) \div size
    IN  [i \in 1..n |-> SubSeq(events, (i - 1) * size + 1,
                               IF i * size < Len(events) THEN i * size ELSE Len(events))]

-----------------------------------------------------------------------------
(***************************************************************************)
(* The upserts.                                                            *)
(***************************************************************************)
\* Gauges are told apart by the time of the observation, too; bulletins of
\* states have no table of their own.
SourceTableKey(e) == IF e.source = "cwc" THEN <<e.source, e.id, e.at>> ELSE SourceKey(e)
TableKey(table, e) == IF table = "source" THEN SourceTableKey(e) ELSE SourceKey(e)

\* ON CONFLICT (the table's key) DO UPDATE
Put(table, rows, new) ==
    {x \in rows : \A e \in new : TableKey(table, e) # TableKey(table, x)} \cup new

HasSourceTable(e) == e.source # "state_flood_bulletin"

\* Weather is not copied to the table of the dashboard's contract.
HasLegacyRow(e) == e.hazard # "weather"

\* PostgreSQL refuses a statement that would update a row twice.
OneRowPerKey(batch) ==
    \A i, k \in DOMAIN batch : SourceKey(batch[i]) = SourceKey(batch[k]) => i = k

-----------------------------------------------------------------------------
(***************************************************************************)
(* One run.                                                                *)
(***************************************************************************)
BeginIngest(v) ==
    /\ service = "none" /\ ingests < MaxIngests
    /\ ingests' = ingests + 1
    /\ service' = v.service
    /\ toFetch' = v.pages
    /\ UNCHANGED <<now, parsed, chunks, tables>>

EndIngest == service' = "none" /\ toFetch' = <<>> /\ parsed' = <<>> /\ chunks' = <<>>

\* The next url answers and its records are parsed.
FetchPage ==
    /\ toFetch # <<>>
    /\ parsed' = parsed \o ParsePage(service, Head(toFetch))
    /\ toFetch' = Tail(toFetch)
    /\ chunks' = IF toFetch' = <<>> THEN ChunksOf(service, Accepted(service, parsed')) ELSE <<>>
    /\ UNCHANGED <<now, ingests, service, tables>>

\* The retries of one url fail: nothing of the others is stored either.
FetchFails ==
    /\ toFetch # <<>>
    /\ EndIngest
    /\ UNCHANGED <<now, ingests, tables>>

\* The three upserts of a batch and their commit.
StoreChunk ==
    /\ chunks # <<>>
    /\ OneRowPerKey(Head(chunks))
    /\ LET new == {Head(chunks)[i] : i \in DOMAIN Head(chunks)} IN
       /\ hazardRows' = Put("hazard_events", hazardRows, new)
       /\ sourceRows' = Put("source", sourceRows, {e \in new : HasSourceTable(e)})
       /\ legacyRows' = Put("events", legacyRows, {e \in new : HasLegacyRow(e)})
    /\ chunks' = Tail(chunks)
    /\ UNCHANGED <<now, ingests, service, toFetch, parsed>>

\* A statement fails: the batch is rolled back and the rest is not stored.
StoreFails ==
    /\ chunks # <<>>
    /\ EndIngest
    /\ UNCHANGED <<now, ingests, tables>>

FinishIngest ==
    /\ service # "none" /\ toFetch = <<>> /\ chunks = <<>>
    /\ EndIngest
    /\ UNCHANGED <<now, ingests, tables>>

TimePasses ==
    /\ now < LastInstant
    /\ now' = now + 1
    /\ UNCHANGED <<ingests, service, toFetch, parsed, chunks, tables>>

SourcesNext ==
    \/ \E v \in Visits : BeginIngest(v)
    \/ FetchPage \/ FetchFails
    \/ StoreChunk \/ StoreFails
    \/ FinishIngest
    \/ TimePasses

SourcesSpec == SourcesInit /\ [][SourcesNext]_sourceVars

-----------------------------------------------------------------------------
\* The three tables tell the same story: an event is in each that keeps its
\* kind, in the revision of hazard_events, and in no other, whichever urls and
\* batches failed in whichever run (only a gauge without a date leaves another
\* reading of its minute behind); and no batch is one that PostgreSQL would
\* refuse for naming a row twice, however often its pages repeat a record.
TablesAgree ==
    /\ legacyRows = {e \in hazardRows : HasLegacyRow(e)}
    /\ {e \in hazardRows : HasSourceTable(e)} \subseteq sourceRows
    /\ \A x \in sourceRows \ hazardRows :
          x.source = "cwc" /\ \E e \in hazardRows : SourceKey(e) = SourceKey(x) /\ e.at # x.at
    /\ \A i \in DOMAIN chunks : OneRowPerKey(chunks[i])
=============================================================================
