----------------------------- MODULE KissFrame -----------------------------
(***************************************************************************)
(* KISS frames as tnc_config.c encodes them, for its own requests and, in  *)
(* these models, for all a TNC sends: kiss_encode_ex and calc_crc.         *)
(***************************************************************************)
EXTENDS Integers, Sequences, SequencesExt

FEND  == 192
FESC  == 219
TFEND == 220
TFESC == 221
Byte  == 0 .. 255

Escaped(c) == CASE c = FEND -> << FESC, TFEND >>
                [] c = FESC -> << FESC, TFESC >>
                [] OTHER    -> << c >>

\* kiss_encode_append
EncodeAppend(payload) == FlattenSeq([i \in DOMAIN payload |-> Escaped(payload[i])])

\* kiss_encode_ex, for port 0: the head byte is the command.
Encode(cmd, payload) == << FEND, cmd >> \o EncodeAppend(payload) \o << FEND >>

\* The sum of the first k bytes.
Sum8(bytes) ==
  LET sum[k \in 0 .. Len(bytes)] == IF k = 0 THEN 0 ELSE (sum[k - 1] + bytes[k]) % 256
  IN  sum

CalcCrc(payload) == 255 - Sum8(payload)[Len(payload)]
=============================================================================
