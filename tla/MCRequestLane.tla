--------------------------- MODULE MCRequestLane ---------------------------
(* Small instances of RequestLane.                                         *)
EXTENDS RequestLane
============================================================================
