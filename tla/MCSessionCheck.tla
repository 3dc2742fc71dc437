--------------------------- MODULE MCSessionCheck ---------------------------
(* Small instances of SessionCheck.                                        *)
EXTENDS SessionCheck
============================================================================
