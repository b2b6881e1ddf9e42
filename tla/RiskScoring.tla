---------------------------- MODULE RiskScoring ----------------------------
(***************************************************************************)
(* From a stored event to its alert: what publish_hazard_events puts on    *)
(* the stream, what a consumer reads from it, and the risk it scores       *)
(* (backend/app/ingestion/common/stream.py, backend/app/processing).       *)
(*                                                                         *)
(* ProcessingWorkers takes the tier of an event as given; here it is       *)
(* computed from the readings of the source.  A score is a fraction of     *)
(* Unit, which every divisor in score_event divides, so that nothing is    *)
(* rounded.                                                                *)
(***************************************************************************)
EXTENDS Sources

CONSTANT MaxRetries \* bound: events whose processing fails

VARIABLES
    published,   \* events on the stream that no consumer has read
    claimed,     \* keys that SET NX has claimed for a day
    scored,      \* what the consumers made of the events they read
    deadLetters, \* processing:dlq: the events that did not validate
    retries      \* hazard:events:retry: the events whose processing failed

consumerVars == <<claimed, scored, deadLetters, retries>>
scoringVars == <<sourceVars, published, consumerVars>>

ScoringInit ==
    /\ SourcesInit
    /\ published = {} /\ claimed = {} /\ scored = {} /\ deadLetters = {} /\ retries = {}

Unit == 397800000
AtMost(x, limit) == IF x > limit THEN limit ELSE x
AtLeast(x, limit) == IF x < limit THEN limit ELSE x

AlertTier(score) ==
    IF score >= 85 * (Unit \div 100) THEN "CRITICAL"
    ELSE IF score >= 65 * (Unit \div 100) THEN "HIGH"
    ELSE IF score >= 35 * (Unit \div 100) THEN "MEDIUM" ELSE "LOW"

Rank(tier) ==
    CASE tier = "LOW" -> 0 [] tier = "MEDIUM" -> 1 [] tier = "HIGH" -> 2 [] tier = "CRITICAL" -> 3

-----------------------------------------------------------------------------
(***************************************************************************)
(* score_event.  The normalized payload of the consumer is a copy of the   *)
(* raw payload: that of the parser is not on the stream.                   *)
(***************************************************************************)
Value(e, key) == IF key \in DOMAIN e.raw THEN e.raw[key] ELSE Missing

\* Variant: the bands of the depth are read from the other end.
ShallowBonus_Deep(depth) ==
    IF depth >= 70 THEN 18 * (Unit \div 100)
    ELSE IF depth >= 20 THEN 8 * (Unit \div 100) ELSE 0

ShallowBonus(depth) ==
    IF depth <= 20 THEN 18 * (Unit \div 100)
    ELSE IF depth <= 70 THEN 8 * (Unit \div 100) ELSE 0

ScoreQuake(e) ==
    LET magnitude == IF e.magnitude = Missing THEN 0 ELSE e.magnitude
        depth == IF e.depth = Missing THEN 70 ELSE e.depth
    IN  AtMost(AtMost(AtLeast((magnitude - 30) * (Unit \div 45), 0), Unit) + ShallowBonus(depth), Unit)

ScoreFlood(e) ==
    LET severity == Value(e, "severity")
        level == Value(e, "water_level_m")
        danger == Value(e, "danger_level_m")
    IN  IF severity # Missing THEN AtMost(AtLeast(severity * (Unit \div 3), 0), Unit)
        ELSE IF level # Missing /\ danger # Missing
             THEN Unit \div 4 + AtLeast(level - danger, 0) * (Unit \div 200)
             ELSE Unit \div 4

\* The confidence is a percentage, of which the code adds a thousandth.
ScoreWildfire(e) ==
    LET frp == Value(e, "frp")
        base == IF frp = Missing THEN Unit \div 4 ELSE AtMost(frp * (Unit \div 80), Unit)
    IN  IF e.confidence = Missing THEN base
        ELSE AtMost(base + AtLeast(e.confidence, 0) * (Unit \div 100000), Unit)

ScoreCyclone(e) ==
    LET wind == IF Value(e, "wind_speed_kmh") # Missing THEN Value(e, "wind_speed_kmh")
                ELSE Value(e, "wind_kmh")
        pressure == Value(e, "pressure_hpa")
        base == IF wind = Missing THEN 35 * (Unit \div 100) ELSE AtMost(wind * (Unit \div 221), Unit)
    IN  IF pressure = Missing THEN base
        ELSE AtMost(base + AtLeast(1000 - pressure, 0) * (Unit \div 250), Unit)

Score(e) ==
    CASE e.hazard = "earthquake" -> ScoreQuake(e)
      [] e.hazard = "flood" -> ScoreFlood(e)
      [] e.hazard = "wildfire" -> ScoreWildfire(e)
      [] e.hazard = "cyclone" -> ScoreCyclone(e)
      [] OTHER -> Unit \div 5

-----------------------------------------------------------------------------
\* A committed batch is published, or its publication fails.
StoreAndPublish ==
    /\ StoreChunk
    /\ published' \in {published, published \cup {Head(chunks)[i] : i \in DOMAIN Head(chunks)}}
    /\ UNCHANGED consumerVars

\* validate: of any hazard the coordinates, if there are some, of an earthquake
\* its magnitude, too.
Validates(e) ==
    /\ e.point # OffTheMap
    /\ e.hazard = "earthquake" => e.magnitude # Missing /\ e.magnitude \in 0..100

Take(e) ==
    /\ e \in published
    /\ published' = published \ {e}
    /\ UNCHANGED sourceVars

\* process_event: of the events of one key the first is claimed, before it is
\* known whether it validates; it is then scored or moved to the dead letters.
Consume(e) ==
    /\ Take(e)
    /\ claimed' = claimed \cup {SourceKey(e)}
    /\ UNCHANGED retries
    /\ \/ SourceKey(e) \in claimed /\ UNCHANGED <<scored, deadLetters>>
       \/ /\ SourceKey(e) \notin claimed /\ Validates(e)
          /\ scored' = scored \cup {[event |-> e, tier |-> AlertTier(Score(e))]}
          /\ UNCHANGED deadLetters
       \/ /\ SourceKey(e) \notin claimed /\ ~Validates(e)
          /\ deadLetters' = deadLetters \cup {e}
          /\ UNCHANGED scored

\* SET NX or what follows it raises: the event goes to the retries, which
\* nobody reads, and its key may be claimed.
ConsumeFails(e) ==
    /\ Take(e)
    /\ Cardinality(retries) < MaxRetries
    /\ retries' = retries \cup {e}
    /\ claimed' \in {claimed, claimed \cup {SourceKey(e)}}
    /\ UNCHANGED <<scored, deadLetters>>

\* Everything of Sources but the storing of a batch.
SourcesElse ==
    \/ \E v \in Visits : BeginIngest(v)
    \/ FetchPage \/ FetchFails \/ StoreFails \/ FinishIngest \/ TimePasses

ScoringNext ==
    \/ SourcesElse /\ UNCHANGED <<published, consumerVars>>
    \/ StoreAndPublish
    \/ \E e \in published : Consume(e) \/ ConsumeFails(e)

ScoringSpec == ScoringInit /\ [][ScoringNext]_scoringVars

-----------------------------------------------------------------------------
Alerted(s) == s.tier \in {"MEDIUM", "HIGH", "CRITICAL"}

\* e is at least as bad as f by what the sources measure of both.
Known(x, y) == x # Missing /\ y # Missing
AtLeastAsBad(e, f) ==
    \/ /\ e.hazard = "earthquake" /\ f.hazard = "earthquake"
       /\ Known(e.magnitude, f.magnitude) /\ e.magnitude >= f.magnitude
       /\ Known(e.depth, f.depth) /\ e.depth <= f.depth
    \/ /\ e.hazard = "wildfire" /\ f.hazard = "wildfire"
       /\ Known(e.intensity, f.intensity) /\ e.intensity >= f.intensity
       /\ Known(e.confidence, f.confidence) /\ e.confidence >= f.confidence

\* Of two earthquakes the stronger and shallower one, of two fires the more
\* powerful and more certain one never gets the milder tier, through all the
\* bands and caps of the score, whichever page, batch or run each came with;
\* and it is no dead letter, unless its magnitude is above 10.
WorseIsNeverMilder ==
    /\ \A s, t \in scored :
          AtLeastAsBad(s.event, t.event) => Rank(s.tier) >= Rank(t.tier)
    /\ \A s \in scored, d \in deadLetters :
          AtLeastAsBad(d, s.event) => d.magnitude > 100

\* A flood at its danger level, whose severity is the highest there is, is alerted.
DangerIsAlerted ==
    \A s \in scored : s.event.hazard = "flood" /\ s.event.intensity = 3 => Alerted(s)
=============================================================================
