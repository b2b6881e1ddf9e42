---------------------------- MODULE MCLiveAlerts ----------------------------
(***************************************************************************)
(* Small instances of LiveAlerts.                                          *)
(***************************************************************************)
EXTENDS LiveAlerts, TLC

CONSTANTS p1, s1, s2

OnePage == {p1}
SocketsDef == {s1, s2}
=============================================================================
