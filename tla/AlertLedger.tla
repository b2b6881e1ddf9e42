---------------------------- MODULE AlertLedger ----------------------------
(***************************************************************************)
(* What the processing pipeline promises about alerts: a dedupe key is     *)
(* claimed once per dedupe window, and a claim ends in at most one         *)
(* outcome -- an alert, or a failure record on the retry or dead-letter    *)
(* stream -- that is never taken back or changed into the other.           *)
(***************************************************************************)
EXTENDS Integers

CONSTANTS Keys, Entries, MaxWindows

VARIABLES claims,   \* [Keys -> number of windows opened]
          alerted,  \* claims that ended in an alert
          failed    \* claims that ended in a failure record

ledgerVars == <<claims, alerted, failed>>

Claim == [entry: Entries, key: Keys, window: 0..MaxWindows]

SameClaim(a, b) == a.key = b.key /\ a.window = b.window

\* Claims that have been handed out and have no outcome yet.
Open == {c \in Claim :
            /\ c.window \in 1..claims[c.key]
            /\ \A r \in alerted \cup failed : ~SameClaim(r, c)}

Init ==
    /\ claims = [k \in Keys |-> 0]
    /\ alerted = {}
    /\ failed = {}

OpenWindow(k) ==
    /\ claims[k] < MaxWindows
    /\ claims' = [claims EXCEPT ![k] = @ + 1]
    /\ UNCHANGED <<alerted, failed>>

\* One transaction alerts several claims at once.
RecordAlerts(S) ==
    /\ \A c, d \in S : SameClaim(c, d) => c = d
    /\ alerted' = alerted \cup S
    /\ UNCHANGED <<claims, failed>>

RecordFailure(c) ==
    /\ failed' = failed \cup {c}
    /\ UNCHANGED <<claims, alerted>>

Next ==
    \/ \E k \in Keys : OpenWindow(k)
    \/ \E S \in SUBSET Open : RecordAlerts(S)
    \/ \E c \in Open : RecordFailure(c)

Spec == Init /\ [][Next]_ledgerVars
=============================================================================
