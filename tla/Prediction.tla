----------------------------- MODULE Prediction -----------------------------
(***************************************************************************)
(* The prediction endpoints (backend/app/api/predict.py) and the rules and *)
(* models behind them (backend/app/ml).                                    *)
(*                                                                         *)
(* PredictRows is what one SELECT of a request finds, and PredictAnswers   *)
(* what the request may answer from all it has read.  A risk is a fraction *)
(* of RiskUnit.  A trained network or booster may score anything.          *)
(***************************************************************************)
EXTENDS EventTable, Sequences

CONSTANTS Weights,    \* models whose weights can be loaded
          Scores,     \* what a model may score, in hundredths
          Rainfalls   \* forecasts of Open-Meteo in mm, or Null

ASSUME ScoresAssumption == Scores \subseteq Int

RiskUnit == 3300000
RiskTier(r) ==
    IF r >= 75 * (RiskUnit \div 100) THEN "CRITICAL"
    ELSE IF r >= 55 * (RiskUnit \div 100) THEN "HIGH"
    ELSE IF r >= 35 * (RiskUnit \div 100) THEN "MEDIUM" ELSE "LOW"

\* A model without weights, or that fails, scores Null.
ScoresOf(model) == IF model \in Weights THEN Scores \cup {Null} ELSE {Null}

-----------------------------------------------------------------------------
(***************************************************************************)
(* Landslides: the rules of landslide_rules.py.  Of both tables of boxes   *)
(* the ones on the meridian are kept, in their order.                      *)
(***************************************************************************)
Box(from, to, value) == [from |-> from, to |-> to, value |-> value]

\* The value of the first box around a position.
InFirst(boxes, at, default) ==
    LET around == {i \in DOMAIN boxes : boxes[i].from <= at /\ at <= boxes[i].to}
    IN  IF around = {} THEN default
        ELSE boxes[CHOOSE i \in around : \A k \in around : i <= k].value

StateBoxes == << Box(304, 335, "very_high"), Box(320, 371, "very_high"), Box(80, 128, "high"),
                 Box(100, 125, "high"), Box(135, 195, "moderate") >>
GsiZone(at) == InFirst(StateBoxes, at, "low")

Threshold == [very_high |-> 100, high |-> 150, moderate |-> 200, low |-> 300]

RiskMatrix(zone, exceeded) ==
    CASE zone = "very_high" -> (IF exceeded THEN "extreme" ELSE "elevated")
      [] zone = "high" -> (IF exceeded THEN "high" ELSE "moderate")
      [] zone = "moderate" -> (IF exceeded THEN "moderate" ELSE "low")
      [] zone = "low" -> "low"

\* evaluate
Landslide(at, rain) ==
    LET zone == GsiZone(at)
        exceeded == rain # Null /\ rain >= Threshold[zone]
    IN  [zone |-> zone, exceeded |-> exceeded, rain |-> rain,
         level |-> RiskMatrix(zone, exceeded)]

-----------------------------------------------------------------------------
(***************************************************************************)
(* Earthquakes.                                                            *)
(***************************************************************************)
\* omori_aftershock_probability keeps the order of rates; the exponent of its
\* decay, 1.1, is taken as 1 and c is 0.05 hours.
Omori(magnitude, hours) ==
    (1000 * magnitude) \div (20 * (IF hours < 0 THEN 0 ELSE hours) + 1)

\* score_sequence
SequenceScores(rows) ==
    IF Cardinality(rows) >= Limits.leastSequence THEN ScoresOf("seismic_ae") ELSE {Null}

Mainshock(rows) == CHOOSE m \in rows : \A e \in rows : m.magnitude >= e.magnitude

\* Nobody stores an anomaly score, so that the average of them is unknown.
EarthquakeAnswers(read) ==
    LET shocks == read.mainshocks
        hours == Mainshock(shocks).age
    IN  {[count |-> Cardinality(read.quakes),
          in24h |-> IF shocks = {} THEN Null ELSE Omori(Mainshock(shocks).magnitude, hours),
          in7d |-> IF shocks = {} THEN Null ELSE Omori(Mainshock(shocks).magnitude, hours - 144),
          anomaly |-> s] : s \in SequenceScores(read.sequence)}

-----------------------------------------------------------------------------
(***************************************************************************)
(* Floods: the network's forecast of seven days, or what was observed.     *)
(***************************************************************************)
FloodAnswers(read) ==
    LET rows == read.gauges
        observed == {<<e.age, OrZero(e.intensity)>> : e \in rows}
        agrees == IF rows = {} THEN "unknown"
                  ELSE IF \E e \in rows : e.intensity >= 2 THEN "yes" ELSE "no"
        passthrough == [forecast |-> observed, agrees |-> agrees]
    IN  IF Cardinality(rows) < Limits.leastHistory THEN {passthrough}
        ELSE {IF s = Null THEN passthrough
              ELSE [forecast |-> {<<24, s>>, <<48, s>>, <<72, s>>}, agrees |-> agrees]
              : s \in ScoresOf("flood_lstm")}

-----------------------------------------------------------------------------
(***************************************************************************)
(* Cyclones.                                                               *)
(***************************************************************************)
WindRadius(wind) ==
    IF wind >= 221 THEN 250 ELSE IF wind >= 167 THEN 200
    ELSE IF wind >= 118 THEN 150 ELSE IF wind >= 89 THEN 100 ELSE 50

NoTrack == [points |-> <<>>, radius |-> 0]

\* extrapolate_track: the last move goes on, whichever storms made it.
Extrapolated(rows, horizon, step) ==
    LET last == CHOOSE e \in rows : \A f \in rows \ {e} : Newer(e, f)
        prev == CHOOSE e \in rows \ {last} : \A f \in rows \ {e, last} : Newer(e, f)
        hours == prev.age - last.age
    IN  IF Cardinality(rows) < 2 THEN NoTrack
        ELSE IF hours <= 0 THEN NoTrack
        ELSE [points |-> [k \in 1..(horizon \div step) |->
                             last.at + ((last.at - prev.at) * k * step) \div hours],
              radius |-> WindRadius(Largest({e.wind : e \in rows}))]

CycloneAnswers(read) ==
    LET latest == CHOOSE e \in read.storms : \A f \in read.storms \ {e} : Newer(e, f)
    IN  IF read.storms = {} THEN {[storm |-> "none"]}
        ELSE {[storm |-> latest.id, at |-> latest.at, wind |-> latest.wind,
               track |-> Extrapolated(read.storms, 12, 3)]}

-----------------------------------------------------------------------------
(***************************************************************************)
(* Wildfires.  A tenth of a degree is more than the 5 km within which      *)
(* hotspots are neighbours: those of a cluster are in one position here.   *)
(***************************************************************************)
\* The power is averaged over the hotspots whose power is known.
FireLevel(size, known, frp) ==
    IF size > 50 \/ frp > 200 * known THEN "extreme"
    ELSE IF size >= 20 \/ frp > 100 * known THEN "high"
    ELSE IF size >= 5 \/ frp > 30 * known THEN "moderate" ELSE "low"

\* cluster_hotspots
Measured(S) == {e \in S : e.intensity # Null}
Clusters(rows) ==
    {[at |-> p, size |-> Cardinality({e \in rows : e.at = p}),
      level |-> FireLevel(Cardinality({e \in rows : e.at = p}),
                          Cardinality(Measured({e \in rows : e.at = p})),
                          SumOver(Measured({e \in rows : e.at = p}), LAMBDA e : e.intensity))]
     : p \in {p \in {e.at : e \in rows} :
                 Cardinality({e \in rows : e.at = p}) >= Limits.leastCluster}}

WildfireAnswers(read) == {[total |-> Cardinality(read.fires), clusters |-> Clusters(read.fires)]}

-----------------------------------------------------------------------------
(***************************************************************************)
(* The composite risk of a place: only a booster scores it, and a place    *)
(* without a score is LOW.  "extreme" landslides do not count.             *)
(***************************************************************************)
RiskAnswers(q, read) ==
    {LET features ==
            [count |-> Cardinality(read.quakes),
             magnitude |-> Largest({e.magnitude : e \in read.quakes}),
             flood |-> Largest({e.intensity : e \in read.floods}),
             rain |-> OrZero(rain),
             fires |-> Cardinality(read.fires),
             wind |-> Largest({e.wind : e \in read.cyclones}),
             landslide |-> IF Landslide(q.at, OrZero(rain)).level = "high" THEN 1 ELSE 0]
     IN  [features |-> features, risk |-> s, tier |-> RiskTier(OrZero(s) * (RiskUnit \div 100))]
     : rain \in Rainfalls, s \in ScoresOf("risk_index")}

-----------------------------------------------------------------------------
(***************************************************************************)
(* The grid of risks.  PostGIS snaps to multiples of the step, a half to   *)
(* the even one; the cells start at the corner of the request.             *)
(***************************************************************************)
Snap(at, step) ==
    LET n == at \div step
        r == at % step
    IN  IF 2 * r < step \/ (2 * r = step /\ n % 2 = 0) THEN n * step ELSE (n + 1) * step

\* Variant: the last cell is left out.
Cells_HalfOpen(q) == {q.from + i * q.step : i \in 0..((q.to - q.from - 1) \div q.step)}

Cells(q) == {q.from + i * q.step : i \in 0..((q.to - q.from) \div q.step)}

TectonicBands == << Box(280, 370, 55), Box(240, 280, 35), Box(80, 210, 30), Box(80, 140, 25) >>
BaselineRisk(at) == InFirst(TectonicBands, at, 10)

\* What the events of one cell weigh, in RiskUnit \div 100.
EventSignal(quakes, magnitudes, floods, fires, cyclones) ==
    Least(165 * Largest({e.magnitude : e \in magnitudes})
            + 220 * Least(Cardinality(quakes), 30)
            + 1320 * Largest({e.intensity : e \in floods})
            + 66 * Least(Cardinality(fires), 50)
            + 15 * Largest({e.wind : e \in cyclones}),
          RiskUnit \div 100)

\* The baseline, raised by the signal's share of what is left.
Composite(cell, signal) ==
    LET base == BaselineRisk(cell)
    IN  Least(base * (RiskUnit \div 100) + signal * (100 - base), RiskUnit)

GridAnswers(q, read) ==
    LET In(rows, cell) == {e \in rows : Snap(e.at, q.step) = cell}
        live(c) == EventSignal(In(read.quakes, c), In(read.magnitudes, c), In(read.floods, c),
                               In(read.fires, c), In(read.cyclones, c))
    IN  {[risk |-> [c \in Cells(q) |->
              Composite(c, IF s = Null \/ s * (RiskUnit \div 10000) < live(c) THEN live(c)
                           ELSE s * (RiskUnit \div 10000))]]
         : s \in ScoresOf("risk_index")}

-----------------------------------------------------------------------------
\* The SELECTs of an endpoint, in their order.
PredictSelects(endpoint) ==
    CASE endpoint = "earthquake" -> <<"quakes", "mainshocks", "sequence">>
      [] endpoint = "flood" -> <<"gauges">>
      [] endpoint = "cyclone" -> <<"storms">>
      [] endpoint = "wildfire" -> <<"fires">>
      [] endpoint = "risk" -> <<"quakes", "floods", "fires", "cyclones">>
      [] endpoint = "grid" -> <<"quakes", "magnitudes", "floods", "fires", "cyclones">>

\* A radius around a place is the stretch from q.from to q.to as well.
PredictRows(select, q) ==
    LET In(S) == Between(S, q.from, q.to) IN
    CASE select \in {"quakes", "magnitudes"} -> In(Of("earthquake", 720))
      [] select = "mainshocks" -> {e \in In(Of("earthquake", 168)) : e.magnitude >= 45}
      [] select = "sequence" -> First(In(Of("earthquake", 720)), Limits.sequence, Newer)
      [] select = "gauges" -> First({e \in Of("flood", 168) : e.basin = q.basin}, Limits.gauges, Newer)
      [] select = "storms" -> First({e \in events : e.hazard = "cyclone"}, Limits.storms, Newer)
      [] select = "floods" -> In(Of("flood", 72))
      [] select = "fires" -> In(Of("wildfire", 24))
      [] select = "cyclones" -> In(Of("cyclone", 48))

PredictAnswers(q, read) ==
    CASE q.endpoint = "earthquake" -> EarthquakeAnswers(read)
      [] q.endpoint = "flood" -> FloodAnswers(read)
      [] q.endpoint = "cyclone" -> CycloneAnswers(read)
      [] q.endpoint = "wildfire" -> WildfireAnswers(read)
      [] q.endpoint = "risk" -> RiskAnswers(q, read)
      [] q.endpoint = "grid" -> GridAnswers(q, read)

\* predict_landslide reads no table: the forecast of 24 hours decides.
LandslideAnswers(q) == {Landslide(q.at, rain) : rain \in Rainfalls}
=============================================================================
