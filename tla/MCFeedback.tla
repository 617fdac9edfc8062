------------------------------ MODULE MCFeedback ------------------------------
(* An audio packet that is sent to the feedback port, cut to the listener's   *)
(* buffer of 256 bytes.                                                       *)
EXTENDS Feedback

MCDrifts == {-3, 3}
ASSUME MCRatesAssumption == RatesFit

MCStrays == {SubSeq(PacketBytes(Header(1, 2, 60, 3, 4), [i \in 1 .. 120 |-> i]), 1, 256)}
=============================================================================
