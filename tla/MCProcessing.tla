---------------------------- MODULE MCProcessing ----------------------------
(***************************************************************************)
(* Small instances of ProcessingWorkers.  Feeds differ in how many dedupe  *)
(* keys and tiers the published events have.                               *)
(***************************************************************************)
EXTENDS ProcessingWorkers, TLC

CONSTANTS w1, w2, k1, k2

WorkersDef == {w1, w2}
KeysDef == {k1, k2}

P(k, t, v, n) == [key |-> k, tier |-> t, valid |-> v, retries |-> n]

\* One event that alerts, published again with a revised tier; a second event.
RevisedFeed == {P(k1, "HIGH", TRUE, 0), P(k1, "LOW", TRUE, 0),
                P(k2, "MEDIUM", TRUE, 0)}

\* A second event that validation rejects, or whose retries are used up.
FailingFeed == {P(k1, "HIGH", TRUE, 0), P(k2, "MEDIUM", FALSE, 0),
                P(k2, "LOW", TRUE, 1)}

\* Plain events of two keys.
PlainFeed == {P(k1, "HIGH", TRUE, 0), P(k2, "LOW", TRUE, 0)}

Symmetry == Permutations({w1, w2})
=============================================================================
