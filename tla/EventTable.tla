----------------------------- MODULE EventTable -----------------------------
(***************************************************************************)
(* The table events as the dashboard's endpoints read it.                  *)
(*                                                                         *)
(* Positions are latitudes on the meridian 77 E, in tenths of a degree; a  *)
(* tenth is 11 km.  Magnitudes are in tenths.  An event has the age, in    *)
(* hours, that it has when a request begins: a request is short beside the *)
(* windows it looks through.                                               *)
(***************************************************************************)
EXTENDS Integers, FiniteSets
LOCAL INSTANCE FiniteSetsExt

CONSTANTS Catalogue,  \* the revisions of events that sources may bring
          Limits      \* the LIMITs and least numbers of the endpoints

Null == -1000
Hazards == {"earthquake", "flood", "wildfire", "cyclone", "landslide"}

\* Values are what the validators of the sources let through.
ASSUME EventTableAssumption ==
    /\ Catalogue \subseteq [id : Nat, hazard : Hazards, age : Nat, at : Int,
                            magnitude : -20..120 \cup {Null},
                            intensity : Nat \cup {Null},
                            wind : Nat \cup {Null},   \* metadata's wind_kmh
                            basin : STRING]
    /\ Limits \in [leastSequence : Nat, sequence : Nat, leastHistory : Nat, gauges : Nat,
                   storms : Nat, leastCluster : Nat, impactCities : Nat, edges : Nat,
                   threats : Nat, forecasts : Nat, cascades : Nat, brief : Nat,
                   context : Nat, recent : Nat]

VARIABLE events

EventsInit == events = {}

\* bulk_upsert_legacy_events: a revision replaces the row of its event, and
\* no row is ever deleted.
StoreEvent(e) ==
    /\ e \notin events
    /\ events' = {x \in events : x.id # e.id} \cup {e}

-----------------------------------------------------------------------------
\* COALESCE(max(..), 0)
Largest(V) ==
    LET known == V \ {Null}
    IN  IF known = {} THEN 0 ELSE CHOOSE x \in known : \A y \in known : x >= y
OrZero(x) == IF x = Null THEN 0 ELSE x
Least(x, y) == IF x < y THEN x ELSE y

\* round; a tie goes up.
Rounded(n, divisor) == (2 * n + divisor) \div (2 * divisor)

SumOver(S, f(_)) == MapThenSumSet(f, S)

\* ORDER BY .. LIMIT n
First(S, n, Before(_, _)) == {e \in S : Cardinality({f \in S : Before(f, e)}) < n}
Newer(e, f) == e.age < f.age \/ (e.age = f.age /\ e.id < f.id)
Older(e, f) == e.age > f.age \/ (e.age = f.age /\ e.id < f.id)

Distance(x, y) == 11 * (IF x > y THEN x - y ELSE y - x)

Of(hazard, hours) == {e \in events : e.hazard = hazard /\ e.age <= hours}
Between(S, from, to) == {e \in S : from <= e.at /\ e.at <= to}
=============================================================================
