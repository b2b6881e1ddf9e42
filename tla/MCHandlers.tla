----------------------------- MODULE MCHandlers -----------------------------
(***************************************************************************)
(* The handlers that share no state, in one model: a behaviour is a        *)
(* behaviour of one of them, which `part` names, while the others stay in  *)
(* their initial state.                                                    *)
(***************************************************************************)
EXTENDS CitizenReports, SosReports, Uploads, Accounts, RiskScoring, EventQueries

VARIABLE part

-----------------------------------------------------------------------------
(***************************************************************************)
(* Citizen reports: a veteran one rejection above "normal" and somebody    *)
(* one above "blocked", of one incident, and somebody without a session.   *)
(***************************************************************************)
Filed(u, i) == [author |-> u, incident |-> i, known |-> TRUE, media |-> TRUE, places |-> FALSE]
MCFilings == {Filed("veteran", 1), Filed("doubted", 1), Filed("anonymous", 2)}
Reputation(n, verified, rejected) == [score |-> n, verified |-> verified, rejected |-> rejected]
MCEarned == [veteran |-> Reputation(80, 3, 0), doubted |-> Reputation(20, 0, 2)]

(***************************************************************************)
(* SOS reports.                                                            *)
(***************************************************************************)
SosText(signedIn, located, indic, places) ==
    [signedIn |-> signedIn, located |-> located, indic |-> indic, places |-> places]
MCMessages == {SosText(TRUE, TRUE, FALSE, TRUE), SosText(TRUE, FALSE, TRUE, TRUE),
               SosText(FALSE, FALSE, FALSE, FALSE), SosText(TRUE, FALSE, FALSE, TRUE)}

(***************************************************************************)
(* Sources and the scoring of what they bring.                             *)
(***************************************************************************)
Quake(i, t, p, m, d) == [id |-> i, time |-> t, point |-> p, mag |-> m, depth |-> d]
Hotspot(f, t, s, p, r) ==
    [file |-> f, time |-> t, satellite |-> s, point |-> p, frp |-> r, confidence |-> 70]
Gauge(s, t, p, l) ==
    [station |-> s, time |-> t, point |-> p, level |-> l, warning |-> 700, danger |-> 800]
Bulletin(u, p, w) == [url |-> u, point |-> p, words |-> w]
Storm(a, u, s, p, w) ==
    [agency |-> a, url |-> u, storm |-> s, relevant |-> TRUE, point |-> p, wind |-> w]
Rain(t, p, x) == [time |-> t, point |-> p, rain |-> x]
Visit(s, pages) == [service |-> s, pages |-> pages]

MCVisits == {
    Visit("usgs", <<<<Quake("q4", 1, "Chile", 52, 15), Quake("q5", 1, "Chile", 52, 40),
                      Quake("q6", 1, "Delhi", 61, 300), Quake("q7", 1, "Delhi", 61, 20)>>>>),
    Visit("usgs", <<<<Quake("q1", 1, "Chile", 70, 10), Quake("q1", 1, "Chile", 68, 10),
                      Quake("q2", Missing, "Delhi", 30, Missing), Quake("q3", 1, Nowhere, 50, 5)>>>>),
    Visit("usgs", <<<<Quake("q1", 1, "Chile", 105, 10), Quake("q2", 2, "Delhi", -3, 20),
                      Quake("q8", 1, "Delhi", Missing, 5)>>>>),
    Visit("firms", <<<<Hotspot("snpp", 1, "N", "Delhi", 20), Hotspot("snpp", 1, "N", "Delhi", 25)>>,
                     <<Hotspot("noaa20", 1, "N", "Delhi", 20), Hotspot("noaa20", 2, "1", "Ladakh", 90),
                       Hotspot("noaa20", 2, "1", "Chile", 90)>>>>),
    Visit("cwc", <<<<Gauge("s1", Missing, "Delhi", 900), Gauge("s1", Missing, "Delhi", 600),
                     Gauge("s2", 2, Nowhere, 900)>>, <<Bulletin("u1", "Delhi", "severe")>>>>),
    Visit("cwc", <<<<Gauge("s1", 0, "Delhi", 600)>>>>),
    Visit("weather", <<<<Rain(1, "Delhi", 5), Rain(Missing, "Delhi", 5)>>,
                       <<Rain(1, "Ladakh", Missing)>>>>),
    Visit("cyclones", <<<<Storm("imd_rsmc", "u1", "MOCHA", "Bay of Bengal", 120)>>,
                        <<Storm("jtwc", "u2", "MOCHA", Nowhere, 130)>>>>),
    Visit("cyclones", <<<<Storm("imd_rsmc", "u1", "MOCHA", "Bay of Bengal", 120)>>,
                        <<Storm("jtwc", "u2", "", "Chile", 130),
                          Storm("jtwc", "u3", "REMAL", "Bay of Bengal", Missing)>>>>) }

(***************************************************************************)
(* Queries: a revised earthquake, a second one at the corner of the grid,  *)
(* a flood, two cyclones and two hotspots of one cluster.                  *)
(***************************************************************************)
Row(i, hazard, age, at, magnitude, intensity, wind) ==
    [id |-> i, hazard |-> hazard, age |-> age, at |-> at, magnitude |-> magnitude,
     intensity |-> intensity, wind |-> wind, basin |-> "Ganga"]
MCCatalogue == {
    Row(1, "earthquake", 10, 360, 62, Null, Null), Row(1, "earthquake", 10, 350, -5, Null, Null),
    Row(2, "earthquake", 4, 300, 41, Null, Null), Row(3, "flood", 5, 286, Null, 3, Null),
    Row(4, "cyclone", 6, 120, Null, Null, Null), Row(5, "cyclone", 3, 130, Null, Null, 130),
    Row(6, "wildfire", 2, 350, Null, 60, Null), Row(7, "wildfire", 2, 350, Null, 30, Null) }

Place(endpoint, from, to) ==
    [endpoint |-> endpoint, from |-> from, to |-> to, at |-> (from + to) \div 2,
     step |-> 20, basin |-> "Ganga"]
Search(endpoint, hazard, ids) ==
    [endpoint |-> endpoint, hours |-> 24, limit |-> 2, ids |-> ids, until |-> 3,
     distance |-> 800, forbidden |-> FALSE, hazard |-> hazard, from |-> 0, to |-> 380,
     offset |-> 0, fromDt |-> Null, toDt |-> Null]
MCInquiries == {
    Place("earthquake", 280, 360), Place("flood", 0, 0), Place("cyclone", 0, 0),
    Place("wildfire", 280, 380), Place("risk", 280, 360), Place("grid", 280, 360),
    Place("landslide", 310, 330),
    Search("list", "earthquake", {}),
    [Search("list", "any", {}) EXCEPT !.offset = 1, !.fromDt = 6, !.toDt = 3],
    Search("list", "any", {}), Search("recent", "any", {}),
    Search("event", "any", {1}), Search("explain", "any", {}),
    [Search("explain", "any", {}) EXCEPT !.forbidden = TRUE],
    Search("threats", "any", {}), Search("stream", "any", {}), Search("forecasts", "any", {}),
    Search("cascades", "any", {}), Search("impact", "any", {1}), Search("sitrep", "any", {5}),
    Search("brief", "any", {}), Search("brief", "any", {1, 9}) }
MCLimits == [leastSequence |-> 2, sequence |-> 2, leastHistory |-> 1, gauges |-> 2, storms |-> 2,
             leastCluster |-> 2, impactCities |-> 1, edges |-> 1, threats |-> 6, forecasts |-> 6,
             cascades |-> 4, brief |-> 2, context |-> 2, recent |-> 2]
City(at, people) == [at |-> at, people |-> people]
MCCities == {City(286, 33807), City(287, 28500), City(311, 213), City(130, 13608), City(110, 2310)}
MCRainfalls == {Null, 120}

-----------------------------------------------------------------------------
Parts == {"reports", "sos", "uploads", "accounts", "scoring", "queries"}

Init ==
    /\ part \in Parts
    /\ ReportsInit /\ SosInit /\ UploadsInit /\ AccountsInit
    /\ ScoringInit /\ QueriesInit
    /\ part # "sos" => message = [s \in Sos |-> SosText(TRUE, TRUE, FALSE, TRUE)]

Next ==
    /\ UNCHANGED part
    /\ part # "reports" => UNCHANGED reportsVars
    /\ part # "sos" => UNCHANGED sosVars
    /\ part # "uploads" => UNCHANGED uploadVars
    /\ part # "accounts" => UNCHANGED accountVars
    /\ part # "scoring" => UNCHANGED scoringVars
    /\ part # "queries" => UNCHANGED queryVars
    /\ \/ part = "reports" /\ ReportsNext
       \/ part = "sos" /\ SosNext
       \/ part = "uploads" /\ UploadsNext
       \/ part = "accounts" /\ AccountsNext
       \/ part = "scoring" /\ ScoringNext
       \/ part = "queries" /\ QueriesNext

vars == <<part, reportsVars, sosVars, uploadVars, accountVars, scoringVars, queryVars>>

Spec == Init /\ [][Next]_vars /\ SosFairness
=============================================================================
