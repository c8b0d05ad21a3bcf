------------------------------ MODULE MCUloop ------------------------------
(***************************************************************************)
(* Instances of Uloop for TLC.                                             *)
(***************************************************************************)
EXTENDS Uloop

CONSTANTS t1, t2, f1, f2
=============================================================================
