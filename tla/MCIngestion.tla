---------------------------- MODULE MCIngestion ----------------------------
(***************************************************************************)
(* Small instances of Ingestion: two runs that may overlap, two events,    *)
(* two revisions, one of which the validator rejects.                      *)
(***************************************************************************)
EXTENDS Ingestion, TLC

CONSTANTS r1, r2, k1, k2

RunsDef == {r1, r2}
KeysDef == {k1, k2}
RejectedDef == {[key |-> k2, revision |-> 1]}
=============================================================================
