--------------------------- MODULE MCReceiverMetrics ---------------------------
(***************************************************************************)
(* An instance of ReceiverMetrics for TLC: two senders, one of which       *)
(* started long before the other.                                          *)
(***************************************************************************)
EXTENDS ReceiverMetrics

CONSTANTS s1, s2

MCSenders == {s1, s2}
MCClockOf == [s \in MCSenders |-> IF s = s1 THEN 0 ELSE 10]
=============================================================================
