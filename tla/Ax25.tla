-------------------------------- MODULE Ax25 --------------------------------
(***************************************************************************)
(* ax25.c: an AX.25 UI frame taken apart, and what of it is printed in     *)
(* TNC-2 monitor format.  The operators are pure.                          *)
(*                                                                         *)
(* A frame is the sequence of its bytes.  Its addresses are CallLen        *)
(* characters, each one bit to the left, and a byte with the SSID, the     *)
(* has-been-repeated bit and the bit that marks the last address.          *)
(* ax25_decode does not look where the frame ends: the operators are for   *)
(* frames that hold the addresses, the control byte and the PID.           *)
(***************************************************************************)
EXTENDS Integers, Sequences

CONSTANTS
  CallLen,  \* characters of a call sign (6)
  MaxRpt    \* AX25_MAX_RPT: repeaters in a message (8)

ASSUME Ax25Assumption == CallLen \in Nat \ {0} /\ MaxRpt \in Nat

CtrlUI == 3            \* AX25_CTRL_UI
PidNoLayer3 == 240     \* AX25_PID_NOLAYER3
Space == 32

AddrLen == CallLen + 1

\* The 17 bytes of two addresses, control, PID and one of payload.
MinLen == 2 * AddrLen + 3

\* What a C function that stops at a NUL sees of s.
UpToNul(s) ==
  LET nuls == {i \in DOMAIN s : s[i] = 0}
  IN  IF nuls = {} THEN s ELSE SubSeq(s, 1, (CHOOSE i \in nuls : \A j \in nuls : i <= j) - 1)

\* Where the k-th address begins, and where its last byte is.
AddrAt(k) == (k - 1) * AddrLen + 1
SsidAt(k) == k * AddrLen

\* DECODE_CALL: a space ends the call sign.
DecodeCall(data, k) ==
  UpToNul([i \in 1 .. CallLen |-> LET c == data[AddrAt(k) + i - 1] \div 2
                                  IN  IF c = Space THEN 0 ELSE c])

DecodeAddr(data, k) ==
  [call |-> DecodeCall(data, k), ssid |-> (data[SsidAt(k)] \div 2) % 16]

\* Is the k-th address the last?
EndOfAddrs(data, k) == data[SsidAt(k)] % 2 = 1

\* Repeaters follow the source until an address is marked, MaxRpt at most.
RptCount(data) ==
  CHOOSE n \in 0 .. MaxRpt :
    /\ n = MaxRpt \/ EndOfAddrs(data, n + 2)
    /\ \A i \in 0 .. n - 1 : ~EndOfAddrs(data, i + 2)

\* The k-th repeater; bit 7 says that it has repeated the packet.
DecodeRpt(data, k) ==
  [call |-> DecodeCall(data, k + 2), ssid |-> (data[SsidAt(k + 2)] \div 2) % 16,
   repeated |-> data[SsidAt(k + 2)] >= 128]

\* Where the control byte is.
CtrlAt(data) == AddrAt(RptCount(data) + 3)

\* ax25_decode: one message, or none.
Decode(data) ==
  IF Len(data) < MinLen THEN << >>
  ELSE IF data[CtrlAt(data)] # CtrlUI \/ data[CtrlAt(data) + 1] # PidNoLayer3 THEN << >>
  ELSE << [dst  |-> DecodeAddr(data, 1),
           src  |-> DecodeAddr(data, 2),
           rpt  |-> [k \in 1 .. RptCount(data) |-> DecodeRpt(data, k)],
           info |-> SubSeq(data, CtrlAt(data) + 2, Len(data))] >>

\* Lines ax25_decode logs: the stations, every repeater, the payload or the
\* reason why there is none.
DecodeLines(data) == IF Len(data) < MinLen THEN 0 ELSE RptCount(data) + 2

\* ax25_print, as the fields of "SRC>DST,PATH*:payload": the payload is printed
\* up to a NUL.
Printed(msg) ==
  [src |-> msg.src, dst |-> msg.dst, path |-> msg.rpt, info |-> UpToNul(msg.info)]

-----------------------------------------------------------------------------
(* The station that sent the frame.                                        *)

\* Call signs are printable and not padded; a packet names as many repeaters
\* as a message has room for.
CallSign == {c \in Seq((1 .. 127) \ {Space}) : Len(c) <= CallLen}
Address == [call : CallSign, ssid : 0 .. 15]
Repeater == [call : CallSign, ssid : 0 .. 15, repeated : BOOLEAN]
AnyPacket ==
  [dst : Address, src : Address, rpt : {r \in Seq(Repeater) : Len(r) <= MaxRpt},
   ctrl : 0 .. 255, pid : 0 .. 255, info : Seq(0 .. 255)]

EncodeAddr(a, repeated, last) ==
  [i \in 1 .. CallLen |-> 2 * (IF i <= Len(a.call) THEN a.call[i] ELSE Space)]
    \o << (IF repeated THEN 128 ELSE 0) + 2 * a.ssid + (IF last THEN 1 ELSE 0) >>

\* The bytes of packet p: [dst, src, rpt, ctrl, pid, info].
EncodeFrame(p) ==
  LET rpts[k \in 0 .. Len(p.rpt)] ==
        IF k = 0 THEN << >>
        ELSE rpts[k - 1] \o EncodeAddr(p.rpt[k], p.rpt[k].repeated, k = Len(p.rpt))
  IN  EncodeAddr(p.dst, FALSE, FALSE) \o EncodeAddr(p.src, FALSE, p.rpt = << >>)
        \o rpts[Len(p.rpt)] \o << p.ctrl, p.pid >> \o p.info
=============================================================================
