----------------------------- MODULE MCScoring -----------------------------
(***************************************************************************)
(* The Central Water Commission reports a river a metre above its danger   *)
(* level, then one below its warning level.                                *)
(***************************************************************************)
EXTENDS RiskScoring

Gauge(s, level) ==
    [station |-> s, time |-> 2, point |-> "Delhi", level |-> level,
     warning |-> 700, danger |-> 800]
MCVisits == { [service |-> "cwc", pages |-> <<<<Gauge("s1", 900)>>>>],
              [service |-> "cwc", pages |-> <<<<Gauge("s1", 600), Gauge("s2", 850)>>>>] }
=============================================================================
