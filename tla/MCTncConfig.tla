---------------------------- MODULE MCTncConfig ----------------------------
(***************************************************************************)
(* An instance of TncConfig for TLC: parameters of three bytes and call    *)
(* data of two, some of them to be escaped.  resp has room for six bytes   *)
(* and a length is counted modulo six.  Radio frames: as long as an        *)
(* answer; with a FEND first; passing for parameters; as long as resp;     *)
(* and two bytes longer, so that its length is that of call data again.    *)
(***************************************************************************)
EXTENDS TncConfig

MCSettings == {<< 1, 2, 3 >>, << FEND, 0, FESC >>, << TFEND, FESC, TFESC >>}
MCCallData == {<< 65, 66 >>, << FESC, FEND >>}
MCRadio == {<< 1, 2, 3, 4 >>, << FEND, 0, 9, 9 >>, << 7 >>,
            << 5, FEND, 6, CalcCrc(<< 5, FEND, 6 >>), 9 >>,
            << 1, 2, 3, 4, 5, 6 >>, << 1, 2, 3, 4, 5, 6, 7, 8 >>}
=============================================================================
