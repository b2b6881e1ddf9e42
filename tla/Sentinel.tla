------------------------------ MODULE Sentinel ------------------------------
(***************************************************************************)
(* The threat theatre (backend/app/api/sentinel.py, backend/app/sentinel). *)
(*                                                                         *)
(* SentinelRows is what the SELECT of a request finds, SentinelAnswers     *)
(* what the request may answer from it.  Threat scores are in thousandths, *)
(* radii in hundredths of a kilometre, populations in thousands.           *)
(***************************************************************************)
EXTENDS Prediction

CONSTANT Cities  \* the cities of population.py: where, and how many people

InIndia(S) == Between(S, 60, 380)
Last(hours) == {e \in events : e.age <= hours}

-----------------------------------------------------------------------------
(***************************************************************************)
(* Threats.                                                                *)
(***************************************************************************)
\* The score of a reading, as it is rounded before the list is ranked.
ShareOf(reading, whole) == Least(1000, Rounded(1000 * OrZero(reading), whole))

\* A hotspot's metadata repeat its intensity as frp.
ThreatScore(e) ==
    CASE e.hazard = "earthquake" -> ShareOf(e.magnitude, 80)
      [] e.hazard = "flood" -> ShareOf(e.intensity, 4)
      [] e.hazard = "cyclone" -> ShareOf(e.wind, 220)
      [] e.hazard = "wildfire" -> ShareOf(e.intensity, 100)
      [] e.hazard = "landslide" -> 450
      [] OTHER -> 200

MoreThreatening(e, f) ==
    ThreatScore(e) > ThreatScore(f) \/ (ThreatScore(e) = ThreatScore(f) /\ Newer(e, f))

\* Variant: the list is cut before it is ranked.
ThreatsAnswers_CutFirst(q, rows) == {[threats |-> First(rows, q.limit, Newer)]}

\* list_threats
ThreatsAnswers(q, rows) == {[threats |-> First(rows, q.limit, MoreThreatening)]}

-----------------------------------------------------------------------------
(***************************************************************************)
(* Impact.                                                                 *)
(***************************************************************************)
ImpactRadius(e) ==
    LET m == IF OrZero(e.magnitude) = 0 THEN 40 ELSE e.magnitude IN
    CASE e.hazard = "earthquake" -> Least(80000, 3000 + 12 * m * m)
      [] e.hazard = "flood" -> 8000 + 2500 * OrZero(e.intensity)
      [] e.hazard = "cyclone" -> Least(60000, 10000 + 150 * OrZero(e.wind))
      [] e.hazard = "wildfire" -> 2000
      [] e.hazard = "landslide" -> 2500

CitiesWithin(at, radius) == {c \in Cities : 100 * Distance(at, c.at) <= radius}

\* event_impact counts everybody and lists the nearest.
ImpactAnswers(rows) ==
    IF rows = {} THEN {[status |-> 404]}
    ELSE {LET within == CitiesWithin(e.at, ImpactRadius(e))
              Nearer(c, d) == \/ Distance(e.at, c.at) < Distance(e.at, d.at)
                              \/ Distance(e.at, c.at) = Distance(e.at, d.at) /\ c.people > d.people
          IN  [status |-> 200, event |-> e.id, radius |-> ImpactRadius(e),
               people |-> SumOver(within, LAMBDA c : c.people), count |-> Cardinality(within),
               listed |-> First(within, Limits.impactCities, Nearer)] : e \in rows}

\* sitrep puts the same numbers in a prompt; an empty text is a failure.
SitrepAnswers(rows) ==
    ImpactAnswers(rows) \cup (IF rows = {} THEN {} ELSE {[status |-> 502]})

-----------------------------------------------------------------------------
(***************************************************************************)
(* Briefings cite the rows that are in their prompt.                       *)
(***************************************************************************)
BriefAnswers(rows) ==
    IF rows = {} THEN {[status |-> 200, provider |-> "no-context", cited |-> {}]}
    ELSE {[status |-> 200, provider |-> "model", cited |-> {e.id : e \in rows}],
          [status |-> 502, provider |-> "none", cited |-> {}]}

-----------------------------------------------------------------------------
(***************************************************************************)
(* Forecasts: a track is extrapolated from one position, which makes none. *)
(***************************************************************************)
ForecastsAnswers(rows) ==
    {[cyclones |-> {LET track == Extrapolated({e}, 24, 3)
                    IN  [event |-> e.id, at |-> e.at, track |-> track.points,
                         radius |-> IF track.radius = 0 THEN 200 ELSE track.radius]
                    : e \in {e \in rows : e.hazard = "cyclone"}},
      halos |-> {[event |-> e.id, at |-> e.at, radius |-> ImpactRadius(e)]
                 : e \in {e \in rows : e.hazard \in {"earthquake", "flood"}}}]}

-----------------------------------------------------------------------------
(***************************************************************************)
(* Cascades.  An edge leads from an event to a later one nearby.           *)
(***************************************************************************)
Plausible ==
    { <<"cyclone", "flood">>, <<"cyclone", "landslide">>, <<"flood", "landslide">>,
      <<"earthquake", "landslide">>, <<"earthquake", "flood">>, <<"wildfire", "landslide">> }

\* Variant: events of one instant are linked, too.
Linked_Simultaneous(q, a, b) ==
    /\ Older(a, b) /\ a.age - b.age <= q.hours
    /\ Distance(a.at, b.at) <= q.distance
    /\ <<a.hazard, b.hazard>> \in Plausible \/ a.hazard = b.hazard

Linked(q, a, b) ==
    /\ a.age > b.age /\ a.age - b.age <= q.hours
    /\ Distance(a.at, b.at) <= q.distance
    /\ <<a.hazard, b.hazard>> \in Plausible \/ a.hazard = b.hazard

\* Closer and sooner is stronger, in thousandths.
Weight(q, a, b) ==
    LET far == 600 * Distance(a.at, b.at) * q.hours
        late == 400 * (a.age - b.age) * q.distance
        whole == q.distance * q.hours
        share == Rounded(1000 * whole - far - late, whole)
    IN  IF share < 100 THEN 100 ELSE share

Edges(q, rows) == {x \in rows \X rows : Linked(q, x[1], x[2])}

Stronger(q, x, y) ==
    LET weight(z) == Weight(q, z[1], z[2]) IN
    \/ weight(x) > weight(y)
    \/ weight(x) = weight(y) /\ Older(x[1], y[1])
    \/ weight(x) = weight(y) /\ x[1] = y[1] /\ Older(x[2], y[2])

CascadesAnswers(q, rows) ==
    LET kept == First(Edges(q, rows), Limits.edges, LAMBDA x, y : Stronger(q, x, y))
    IN  {[edges |-> kept,
          nodes |-> {e \in rows : \E x \in kept : e = x[1] \/ e = x[2]}]}

-----------------------------------------------------------------------------
SentinelRows(q) ==
    CASE q.endpoint = "threats" -> First(InIndia(Last(q.hours)), Limits.threats, Newer)
      [] q.endpoint = "stream" -> First(InIndia({e \in Last(q.hours) : e.age >= q.until}), q.limit, Older)
      [] q.endpoint = "forecasts" -> First(InIndia(Last(q.hours)), Limits.forecasts, Newer)
      [] q.endpoint = "cascades" -> First(InIndia(Last(q.hours)), Limits.cascades, Older)
      [] q.endpoint \in {"impact", "sitrep"} -> {e \in events : e.id \in q.ids}
      [] q.endpoint = "brief" ->
            IF q.ids = {} THEN First(InIndia(Last(24)), Limits.brief, Newer)
            ELSE {e \in events : e.id \in q.ids}

SentinelAnswers(q, rows) ==
    CASE q.endpoint = "threats" -> ThreatsAnswers(q, rows)
      [] q.endpoint = "stream" -> {[events |-> rows]}
      [] q.endpoint = "forecasts" -> ForecastsAnswers(rows)
      [] q.endpoint = "cascades" -> CascadesAnswers(q, rows)
      [] q.endpoint = "impact" -> ImpactAnswers(rows)
      [] q.endpoint = "sitrep" -> SitrepAnswers(rows)
      [] q.endpoint = "brief" -> BriefAnswers(rows)
=============================================================================
