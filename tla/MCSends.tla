------------------------------ MODULE MCSends ------------------------------
(***************************************************************************)
(* A channel's sender alone: what the twilio adapter leaves out.           *)
(***************************************************************************)
EXTENDS SendWindow

Spec == SendInit /\ [][SendNext]_sendVars
=============================================================================
