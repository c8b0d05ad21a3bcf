---------------------------- MODULE MCLineCodec ----------------------------
(***************************************************************************)
(* Instances of LineCodec for TLC.                                         *)
(***************************************************************************)
EXTENDS LineCodec

CONSTANTS server, modem
=============================================================================
