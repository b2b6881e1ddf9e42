---------------------------- MODULE EventQueries ----------------------------
(***************************************************************************)
(* Requests that read the table events while sources write it:             *)
(* backend/app/api/events.py, predict.py, sentinel.py and ai.py.           *)
(*                                                                         *)
(* PostgreSQL runs a request's transaction under READ COMMITTED: each of   *)
(* its SELECTs sees what was committed before that SELECT began.           *)
(***************************************************************************)
EXTENDS Sentinel

CONSTANTS Inquiries,  \* what may be asked
          MaxRevised  \* bound: revisions that come while a request runs

ASSUME InquiriesAssumption ==
    \A q \in Inquiries :
       /\ q.endpoint \in {"list", "threats"} => q.limit \in Nat
       /\ q.endpoint = "list" => q.offset \in Nat
       /\ q.endpoint \in {"threats", "cascades"} => q.hours \in Nat \ {0}
       /\ q.endpoint = "cascades" => q.distance \in Nat \ {0}
       /\ q.endpoint \in {"list", "earthquake", "wildfire", "risk", "grid"} =>
             q.from \in Int /\ q.to \in Int
       /\ q.endpoint = "grid" => q.step \in Nat \ {0}

VARIABLES
    query,     \* the request under way, and what its SELECTs have found
    standing,  \* rows that no source has revised since it began (history)
    answered   \* the answer that the last step gave (history)

queryVars == <<events, query, standing, answered>>

NoQuery == [todo |-> <<"none">>]
NoAnswer == [endpoint |-> "none"]

QueriesInit == EventsInit /\ query = NoQuery /\ standing = {} /\ answered = NoAnswer

Predictions == {"earthquake", "flood", "cyclone", "wildfire", "risk", "grid"}

-----------------------------------------------------------------------------
(***************************************************************************)
(* events.py, and the grounded answers of ai.py and rag.py.                *)
(***************************************************************************)
\* The filters of list_events; its times are ages here, too.
Dated(q, e) ==
    /\ q.fromDt = Null \/ e.age <= q.fromDt
    /\ q.toDt = Null \/ e.age >= q.toDt
Matching(q) ==
    {e \in Between(events, q.from, q.to) :
        (q.hazard = "any" \/ e.hazard = q.hazard) /\ Dated(q, e)}

\* ORDER BY occurred_at DESC LIMIT .. OFFSET ..
Page(S, limit, offset) == First(S, offset + limit, Newer) \ First(S, offset, Newer)

\* retrieve_hazard_context: the newest rows of a day.
Context(q) ==
    First({e \in Last(24) : q.hazard = "any" \/ e.hazard = q.hazard}, Limits.context, Newer)

ListAnswers(read) == {[events |-> read.page, total |-> Cardinality(read.count)]}

\* _run: a question with a forbidden phrase reads nothing.  What a model says
\* is replaced when it has a forbidden term, but its citations stay.
GroundedAnswers(q, read) ==
    IF q.forbidden THEN {[label |-> "guarded", text |-> "guarded", cited |-> {}]}
    ELSE {[label |-> "AI-generated", text |-> t, cited |-> {e.id : e \in read.context}]
          : t \in {"model", "insufficient", "no model"}}

-----------------------------------------------------------------------------
(***************************************************************************)
(* One request.                                                            *)
(***************************************************************************)
Selects(q) ==
    CASE q.endpoint \in Predictions -> PredictSelects(q.endpoint)
      [] q.endpoint = "list" -> <<"page", "count">>
      [] q.endpoint = "explain" -> IF q.forbidden THEN <<>> ELSE <<"context">>
      [] q.endpoint = "landslide" -> <<>>
      [] OTHER -> <<"rows">>

RowsOf(select, q) ==
    CASE q.endpoint \in Predictions -> PredictRows(select, q)
      [] select = "page" -> Page(Matching(q), q.limit, q.offset)
      [] select = "count" -> Matching(q)
      [] select = "context" -> Context(q)
      [] q.endpoint = "recent" -> First(Last(q.hours), Limits.recent, Newer)
      [] q.endpoint = "event" -> {e \in events : e.id \in q.ids}
      [] OTHER -> SentinelRows(q)

Answers(q, read) ==
    CASE q.endpoint \in Predictions -> PredictAnswers(q, read)
      [] q.endpoint = "landslide" -> LandslideAnswers(q)
      [] q.endpoint = "list" -> ListAnswers(read)
      [] q.endpoint = "explain" -> GroundedAnswers(q, read)
      [] q.endpoint \in {"recent", "event"} -> {[events |-> read.rows]}
      [] OTHER -> SentinelAnswers(q, read.rows)

NothingRead == [s \in {} |-> {}]

Ask(q) ==
    /\ query = NoQuery
    /\ query' = [ask |-> q, todo |-> Selects(q), read |-> NothingRead, revised |-> 0]
    /\ standing' = events
    /\ answered' = NoAnswer
    /\ UNCHANGED events

\* The next SELECT.
Select ==
    LET select == Head(query.todo)
        rows == RowsOf(select, query.ask)
    IN  /\ query # NoQuery /\ query.todo # <<>>
        /\ query' = [query EXCEPT !.todo = Tail(@),
               !.read = [s \in DOMAIN @ \cup {select} |-> IF s = select THEN rows ELSE @[s]]]
        /\ answered' = NoAnswer
        /\ UNCHANGED <<events, standing>>

Answer ==
    /\ query.todo = <<>>
    /\ \E body \in Answers(query.ask, query.read) :
          answered' = [endpoint |-> query.ask.endpoint, ask |-> query.ask,
                       read |-> query.read, standing |-> standing, body |-> body]
    /\ query' = NoQuery /\ standing' = {}
    /\ UNCHANGED events

\* A source brings an event or a revision of one.
Revise(e) ==
    /\ StoreEvent(e)
    /\ standing' = standing \cap events'
    /\ answered' = NoAnswer
    /\ \/ query = NoQuery /\ UNCHANGED query
       \/ /\ query # NoQuery /\ query.revised < MaxRevised
          /\ query' = [query EXCEPT !.revised = @ + 1]

QueriesNext ==
    \/ \E e \in Catalogue : Revise(e)
    \/ \E q \in Inquiries : Ask(q)
    \/ Select
    \/ Answer

QueriesSpec == QueriesInit /\ [][QueriesNext]_queryVars

-----------------------------------------------------------------------------
Stood(hazard, hours) ==
    {e \in answered.standing : /\ e.hazard = hazard /\ e.age <= hours
                               /\ answered.ask.from <= e.at /\ e.at <= answered.ask.to}

\* The tier that event e alone gives its cell of the grid.
Alone(e, hazard) == IF e.hazard = hazard THEN {e} ELSE {}
AloneRisk(e, cell) ==
    Composite(cell, EventSignal(Alone(e, "earthquake"), Alone(e, "earthquake"), Alone(e, "flood"),
                                Alone(e, "wildfire"), Alone(e, "cyclone")))

GridWindow == [earthquake |-> 720, flood |-> 72, wildfire |-> 24, cyclone |-> 48]

\* Are the cells of a grid those that PostGIS snaps to?
Aligned(q) == q.from % q.step = 0 /\ (q.to - q.from) % q.step = 0

\* A page of a list and the list's total: what the page lacks is beyond the
\* last row of a full page, or before the first one of a later page.
ListIsWhole(q, body) ==
    LET stood == {e \in answered.standing :
                     /\ q.from <= e.at /\ e.at <= q.to
                     /\ q.hazard \in {"any", e.hazard} /\ Dated(q, e)}
    IN  /\ body.total >= Cardinality(stood)
        /\ \A e \in stood \ body.events :
              \/ /\ Cardinality(body.events) = q.limit
                 /\ \A f \in body.events : f.age <= e.age
              \/ q.offset > 0 /\ \A f \in body.events : f.age >= e.age

\* The earthquakes of a place, and the odds of its mainshock's aftershocks.
QuakesAreCounted(body) ==
    /\ body.count >= Cardinality(Stood("earthquake", 720))
    /\ (\E e \in Stood("earthquake", 168) : e.magnitude >= 45) =>
          body.in24h # Null /\ body.in7d >= body.in24h

\* What the risk of a place is computed from.
RiskIsMeasured(body) ==
    /\ body.features.count >= Cardinality(Stood("earthquake", 720))
    /\ \A e \in Stood("earthquake", 720) : body.features.magnitude >= e.magnitude
    /\ \A e \in Stood("flood", 72) : body.features.flood >= e.intensity
    /\ \A e \in Stood("cyclone", 48) : body.features.wind >= e.wind
    /\ body.features.fires >= Cardinality(Stood("wildfire", 24))

\* The clusters of hotspots.
FiresAreClustered(body) ==
    \A e \in Stood("wildfire", 24) :
       Cardinality({f \in Stood("wildfire", 24) : f.at = e.at}) >= Limits.leastCluster
          => \E c \in body.clusters : c.at = e.at

\* The cell of an aligned grid, which an event raises as much as it would
\* alone, unless the largest magnitude there is negative: that one lowers it.
GridIsRaised(q, body) ==
    \A hazard \in DOMAIN GridWindow : \A e \in Stood(hazard, GridWindow[hazard]) :
       LET cell == Snap(e.at, q.step)
           shaken == {f \in answered.read.magnitudes : Snap(f.at, q.step) = cell}
       IN  /\ cell \in DOMAIN body.risk
           /\ Largest({f.magnitude : f \in shaken}) >= 0 =>
                 body.risk[cell] >= AloneRisk(e, cell)

\* What stood in the table, unrevised, while a request ran is in its answer,
\* although its SELECTs see different moments of the table.
StandingEventsAreSeen ==
    LET q == answered.ask
        body == answered.body
    IN  /\ answered.endpoint = "list" => ListIsWhole(q, body)
        /\ answered.endpoint = "earthquake" => QuakesAreCounted(body)
        /\ answered.endpoint = "risk" => RiskIsMeasured(body)
        /\ answered.endpoint = "wildfire" => FiresAreClustered(body)
        /\ answered.endpoint = "grid" /\ Aligned(q) => GridIsRaised(q, body)

\* The events of an answer's window in India that stood.
StoodInIndia == {e \in answered.standing : 60 <= e.at /\ e.at <= 380 /\ e.age <= answered.ask.hours}

\* An event is left out of the threats only if the list is full of threats no
\* smaller than it, or if the newest 500 events are all newer than it.
ThreatsAreTop ==
    answered.endpoint = "threats" =>
        LET listed == answered.body.threats
            fetched == answered.read.rows
        IN  \A e \in StoodInIndia \ listed :
              \/ /\ Cardinality(listed) = answered.ask.limit
                 /\ \A f \in listed : ThreatScore(f) >= ThreatScore(e)
              \/ /\ Cardinality(fetched) = Limits.threats
                 /\ \A f \in fetched : f.age <= e.age

\* The cascades are a graph without cycles or loose ends: edges lead forward in
\* time between nodes of the answer, each node has one, and of two events that
\* stood and may be a cascade the edge is missing only if a full answer has no
\* weaker one, or if an event is not among the oldest 200.
CascadesPointForward ==
    answered.endpoint = "cascades" =>
        LET q == answered.ask
            edges == answered.body.edges
            nodes == answered.body.nodes
        IN  /\ \A x \in edges : x[1].age > x[2].age
            /\ nodes = {x[1] : x \in edges} \cup {x[2] : x \in edges}
            /\ \A a, b \in StoodInIndia \cap answered.read.rows :
                  /\ a.age > b.age /\ Distance(a.at, b.at) <= q.distance
                  /\ a.hazard = b.hazard \/ <<a.hazard, b.hazard>> \in Plausible
                  /\ <<a, b>> \notin edges
                  => /\ Cardinality(edges) = Limits.edges
                     /\ \A x \in edges : Weight(q, x[1], x[2]) >= Weight(q, a, b)
            /\ StoodInIndia \subseteq answered.read.rows \/
                  Cardinality(answered.read.rows) = Limits.cascades
=============================================================================
