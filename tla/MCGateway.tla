----------------------------- MODULE MCGateway -----------------------------
(***************************************************************************)
(* An instance of Gateway for TLC.  Call signs have two characters, the    *)
(* path three repeaters at most; a beacon is due every three ticks.        *)
(***************************************************************************)
EXTENDS Gateway

\* The characters of call signs and payloads.
A == 65  B == 66  N == 78  T == 84  W == 87  Query == 63  Third == 125

MCNoRelaySrc == {<< N, B >>, << W >>}
MCNoRelayVia == {<< T, A >>, << N, B >>}
MCNoRelayPrefix == {Query, Third}

Station(call, ssid) == [call |-> call, ssid |-> ssid]
Via(call, ssid, repeated) == [call |-> call, ssid |-> ssid, repeated |-> repeated]
Packet(src, rpt, ctrl, info) ==
  [dst |-> Station(<< A >>, 0), src |-> src, rpt |-> rpt, ctrl |-> ctrl, pid |-> PidNoLayer3, info |-> info]
Heard(src, rpt, info) == Packet(src, rpt, CtrlUI, info)

Wide == Via(<< W >>, 1, FALSE)
Digi == Via(<< B, A >>, 15, TRUE)
Tcpip == Via(<< T, A >>, 0, TRUE)

MCPackets ==
  { Heard(Station(<< A, B >>, 9), << >>, << A >>),                \* to be gated
    Heard(Station(<< A >>, 0), << Digi, Wide >>, << B, 0, A >>),  \* to be gated
    Heard(Station(<< W >>, 0), << Digi >>, << A >>),              \* source
    Heard(Station(<< A, B >>, 9), << Digi, Tcpip >>, << A >>),    \* path
    Heard(Station(<< A >>, 0), << >>, << Third, A >>),            \* third party
    Heard(Station(<< A >>, 0), << >>, << Query >>),               \* query
    Heard(Station(<< A >>, 0), << Wide >>, << >>),                \* no payload
    Heard(Station(<< A >>, 0), << Digi, Digi, Wide >>, << A >>),  \* a full path
    Packet(Station(<< A >>, 0), << >>, 63, << A >>),              \* no UI frame
    Heard(Station(<< A >>, 0), << >>, << >>) }                    \* too short
=============================================================================
