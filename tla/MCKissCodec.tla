---------------------------- MODULE MCKissCodec ----------------------------
(***************************************************************************)
(* Instances of KissCodec for TLC: data and control frames, with and       *)
(* without bytes to escape, up to two bytes longer than the buffer.         *)
(***************************************************************************)
EXTENDS KissCodec

Data(payload) == [cmd |-> 0, payload |-> payload, crcOk |-> TRUE]
Control(payload, ok) == [cmd |-> 1, payload |-> payload, crcOk |-> ok]

MCFrames ==
  {Data(<< >>), Data(<< 65 >>), Data(<< FEND, FESC, 65 >>), Data(<< TFEND, TFESC >>),
   Data(<< 65, 0, 66, 67 >>), Data(<< 65, 0, 66, 67, 68 >>),
   Data(<< 65, 0, 66, 67, 68, 69 >>),
   Control(<< >>, TRUE), Control(<< 7, 200 >>, TRUE), Control(<< 7, 200 >>, FALSE),
   Control(<< FESC >>, TRUE), Control(<< 7, FEND >>, TRUE)}
=============================================================================
