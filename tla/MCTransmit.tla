---------------------------- MODULE MCTransmit ----------------------------
(* Instance of LHRTransmit for TLC. *)
EXTENDS LHRTransmit

\* A short frame, one that is almost a millisecond longer, and a long one.
MCFrames == {[ms |-> 1, rest |-> 0], [ms |-> 1, rest |-> 1], [ms |-> 2, rest |-> 1]}
=============================================================================
