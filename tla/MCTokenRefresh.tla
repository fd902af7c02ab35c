--------------------------- MODULE MCTokenRefresh ---------------------------
(***************************************************************************)
(* Instances of TokenRefresh for TLC. Two Loads, one with the overview's   *)
(* headroom: a holder of the lock and a waiter with a stale read. Two      *)
(* grants: a reconnection during a refresh. The last rotation never ages.  *)
(***************************************************************************)
EXTENDS TokenRefresh

CONSTANTS p1, p2, g1, g2

TwoProcs == {p1, p2}
OneGrant == {g1}
TwoGrants == {g1, g2}
OneLong == {p1}

EveryFault == {"crash", "answer", "persist", "session"}
NoFaults == {}
=============================================================================
