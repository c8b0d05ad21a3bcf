------------------------------ MODULE Gateway ------------------------------
(***************************************************************************)
(* The daemon at work: tinyaprsd.c relays what the TNC hears to the        *)
(* server, beacon.c announces the gate, log.c keeps the record, in the     *)
(* mode main() has chosen.  The session with the server (Tier2Client) is   *)
(* reduced to what tier2_client_publish asks of it, and the TNC (Modem) to *)
(* the frames it hands over.                                               *)
(*                                                                         *)
(* Time passes in ticks while no timer without a delay is due.  A callback *)
(* that blocks, such as a connect(), holds the beacon's timer up by at     *)
(* most MaxLate ticks.                                                     *)
(***************************************************************************)
EXTENDS Ax25, LogFile

CONSTANTS
  Packets,         \* what stations may send: [dst, src, rpt, ctrl, pid, info]
  NoRelaySrc,      \* APRS_RX_NO_RELAY_SRC
  NoRelayVia,      \* APRS_RX_NO_RELAY_VIA
  NoRelayPrefix,   \* APRS_RX_NO_RELAY_PAYLOAD_PREFIX: "?" and "}"
  BeaconFirst,     \* ticks until the first beacon (30 s)
  BEACON_INTERVAL, \* ticks between beacons (300 s)
  MaxLate,         \* bound: ticks the beacon's callback may be late
  MaxThere,        \* bound: the longest log file an earlier daemon left
  Left             \* the lengths its log files may have, a part of 0 .. MaxThere

ASSUME GatewayAssumption ==
  /\ BeaconFirst \in Nat /\ BEACON_INTERVAL \in Nat \ {0} /\ MaxLate \in Nat
  /\ MaxThere \in Nat /\ Left \subseteq 0 .. MaxThere
  /\ BeaconFirst <= BEACON_INTERVAL

ASSUME PacketsAssumption == Packets \subseteq AnyPacket

VARIABLES
  mode,      \* "start", "gateway", "tncMonitor", "serverMonitor", "exited"
  session,   \* "up": verified; "broken": verified, but the stream has a write
             \* error its state_change timer has yet to tell; "down": else
  beaconIn,  \* ticks until the beacon's timer is due, late when below 0
  log,       \* the log file
  heard,     \* what the last step heard: nothing or [packet, session, failed]
  sent,      \* what it wrote to the server's stream: nothing or one packet
  upFor,     \* ticks the session has been up
  quiet      \* ticks since the last beacon was written

beaconVars == << beaconIn, upFor, quiet >>
ghosts == << heard, sent >>
vars == << mode, session, beaconVars, log, ghosts >>

\* Ticks are counted up to the first that BeaconPaced can tell apart from
\* all later ones.
Forever == BEACON_INTERVAL + MaxLate + 1
OneMore(n) == IF n < Forever THEN n + 1 ELSE n

-----------------------------------------------------------------------------
(* Start and end                                                           *)

\* main behind the options and the configuration: the log is opened, whatever is
\* in it and with or without success, then the mode's components are initialised; one that fails
\* ends the daemon, and the beacon is only there in gateway mode.
Start ==
  /\ mode = "start"
  /\ mode' \in {"gateway", "tncMonitor", "serverMonitor", "exited"}
  /\ \E ok \in BOOLEAN : log' = LogInit(log.file, log.old, ok)
  /\ beaconIn' = BeaconFirst
  /\ UNCHANGED << session, upFor, quiet, ghosts >>

\* A signal ends uloop_run.
Stop ==
  /\ mode \notin {"start", "exited"}
  /\ mode' = "exited" /\ session' = "down" /\ upFor' = 0
  /\ heard' = << >> /\ sent' = << >>
  /\ UNCHANGED << beaconIn, quiet, log >>

-----------------------------------------------------------------------------
(* The session, as far as publishing goes                                  *)

HasClient == mode \in {"gateway", "serverMonitor"}

\* The server verified the login.
Verified ==
  /\ HasClient /\ session = "down"
  /\ session' = "up"
  /\ heard' = << >> /\ sent' = << >>
  /\ UNCHANGED << mode, beaconVars, log >>

\* The connection is closed, or the write error found out.
Lost ==
  /\ session # "down"
  /\ session' = "down" /\ upFor' = 0
  /\ heard' = << >> /\ sent' = << >>
  /\ UNCHANGED << mode, beaconIn, quiet, log >>

(***************************************************************************)
(* tier2_client_publish of m: -1 unless verified, else what ustream_write  *)
(* says.  A write may fail; after that the stream takes 0 bytes, which is  *)
(* no error to the caller.                                                 *)
(***************************************************************************)
Publish(m, fails) ==
  /\ sent' = IF session = "up" /\ ~fails THEN << m >> ELSE << >>
  /\ session' = IF session = "up" /\ fails THEN "broken" ELSE session
  /\ upFor' = IF session = "up" /\ fails THEN 0 ELSE upFor

\* Only what is written may fail.
MayFail == {FALSE, session = "up"}

\* Lines it logs: none of a message written, one of a session not verified, of
\* a failed write or of one that took nothing.
PublishLines(fails) == IF session = "up" /\ ~fails THEN 0 ELSE 1

-----------------------------------------------------------------------------
(* Relay                                                                   *)

\* Faulty variant: only the first repeater of a packet is looked at.
MayRelayFirstVia(msg) ==
  /\ msg.info # << >>
  /\ Len(msg.rpt) # MaxRpt
  /\ msg.src.call \notin NoRelaySrc
  /\ msg.rpt # << >> => msg.rpt[1].call \notin NoRelayVia
  /\ msg.info[1] \notin NoRelayPrefix

\* relay_ax25_message up to the printing.  Call signs are compared without
\* their SSID, to the end of either.
MayRelay(msg) ==
  /\ msg.info # << >>
  /\ Len(msg.rpt) # MaxRpt
  /\ msg.src.call \notin NoRelaySrc
  /\ \A i \in DOMAIN msg.rpt : msg.rpt[i].call \notin NoRelayVia
  /\ msg.info[1] \notin NoRelayPrefix

\* The frames of the packets, and what ax25_decode makes of each.
Frame == [p \in Packets |-> EncodeFrame(p)]
Message == [p \in Packets |-> Decode(Frame[p])]

\* Lines relay_ax25_message logs: none of a packet without a payload or with a
\* full path, one of any other it refuses.
RelayLines(msg, fails) ==
  IF MayRelay(msg) THEN PublishLines(fails)
  ELSE IF msg.info = << >> \/ Len(msg.rpt) = MaxRpt THEN 0 ELSE 1

\* A frame that is no packet: "bytes received", what ax25_decode says,
\* "Unsupported frame", and its bytes in hex.  The first line is there when built
\* with -DDEBUG, as the Makefile does.
Unsupported(data, io) ==
  /\ log' = LogDump(LogLines(log, 2 + DecodeLines(data), io))
  /\ sent' = << >>
  /\ UNCHANGED << session, upFor >>

\* tnc_ax25_message_received: the packet is logged, and relayed unless the
\* daemon is a monitor.  Success or failure of the relay is logged, too.
Received(data, msg, io, fails) ==
  LET relayed == mode = "gateway" /\ MayRelay(msg)
      more == IF mode = "gateway" THEN RelayLines(msg, fails) + 1 ELSE 0
  IN  /\ log' = LogLines(log, 2 + DecodeLines(data) + more, io)
      /\ IF relayed THEN Publish(Printed(msg), fails)
         ELSE sent' = << >> /\ UNCHANGED << session, upFor >>

\* on_modem_read in KISS mode, of the frame in which p was sent.
Hear(p) ==
  /\ mode \in {"gateway", "tncMonitor"}
  /\ \E io \in Io, fails \in MayFail :
       /\ IF Message[p] = << >> THEN Unsupported(Frame[p], io)
          ELSE Received(Frame[p], Message[p][1], io, fails)
       /\ heard' = << [packet |-> p, session |-> session, failed |-> fails] >>
  /\ UNCHANGED << mode, beaconIn, quiet >>

-----------------------------------------------------------------------------
(* Beacon                                                                  *)

\* CALLSIGN>APTBGW,TCPIP*: with what the configuration says.
BeaconPacket == "beacon"

\* Lines beacon_run logs.
BeaconLines(fails) ==
  IF session = "down" THEN 0 ELSE 1 + PublishLines(fails) + IF fails THEN 1 ELSE 0

\* Faulty variant: a beacon sent is followed by the next a tick later.
BeaconDueSoon ==
  /\ mode = "gateway" /\ beaconIn <= 0
  /\ beaconIn' = IF session = "up" THEN 1 ELSE BEACON_INTERVAL
  /\ \E io \in Io, fails \in MayFail :
       Publish(BeaconPacket, fails) /\ log' = LogLines(log, BeaconLines(fails), io)
  /\ quiet' = IF sent' # << >> THEN 0 ELSE quiet
  /\ heard' = << >>
  /\ UNCHANGED mode

\* on_timer_update: beacon_run, which does nothing without a verified session,
\* and the timer again, whatever came of it.
BeaconDue ==
  /\ mode = "gateway" /\ beaconIn <= 0
  /\ beaconIn' = BEACON_INTERVAL
  /\ \E io \in Io, fails \in MayFail :
       Publish(BeaconPacket, fails) /\ log' = LogLines(log, BeaconLines(fails), io)
  /\ quiet' = IF sent' # << >> THEN 0 ELSE quiet
  /\ heard' = << >>
  /\ UNCHANGED mode

-----------------------------------------------------------------------------

\* Any other line of the log, of this or another module.
LogOther ==
  /\ mode \notin {"start", "exited"}
  /\ \E io \in Io : log' = LogLine(log, io)
  /\ heard' = << >> /\ sent' = << >>
  /\ UNCHANGED << mode, session, beaconVars >>

\* Time passes.  The state_change timer of a broken stream has no delay.
Tick ==
  /\ mode \notin {"start", "exited"} /\ session # "broken"
  /\ beaconIn > -MaxLate \/ mode # "gateway"
  /\ beaconIn' = IF mode = "gateway" THEN beaconIn - 1 ELSE beaconIn
  /\ upFor' = IF session = "up" THEN OneMore(upFor) ELSE upFor
  /\ quiet' = OneMore(quiet)
  /\ heard' = << >> /\ sent' = << >>
  /\ UNCHANGED << mode, session, log >>

Init ==
  /\ mode = "start" /\ session = "down"
  /\ beaconIn = BeaconFirst /\ upFor = 0 /\ quiet = Forever
  /\ \E there, old \in Left : log = LogInit(there, old, FALSE)
  /\ heard = << >> /\ sent = << >>

Next ==
  \/ Start \/ Stop
  \/ Verified \/ Lost
  \/ \E p \in Packets : Hear(p)
  \/ BeaconDue
  \/ LogOther
  \/ Tick

Spec == Init /\ [][Next]_vars

-----------------------------------------------------------------------------
(* Properties                                                              *)

\* There is a session only where there is a client, and the beacon's timer is
\* never further off than an interval, nor later than its callback may be.
TypeOK ==
  /\ mode \in {"start", "gateway", "tncMonitor", "serverMonitor", "exited"}
  /\ session \in {"up", "broken", "down"}
  /\ session # "down" => HasClient
  /\ beaconIn \in -MaxLate .. BEACON_INTERVAL
  /\ upFor \in 0 .. Forever /\ quiet \in 0 .. Forever

\* What the gate may take from the air to the server, by what the station sent.
Gateable(p) ==
  /\ p.ctrl = CtrlUI /\ p.pid = PidNoLayer3 /\ p.info # << >>
  /\ Len(p.rpt) < MaxRpt
  /\ p.src.call \notin NoRelaySrc
  /\ {p.rpt[i].call : i \in DOMAIN p.rpt} \cap NoRelayVia = {}
  /\ p.info[1] \notin NoRelayPrefix

\* A packet that may be gated is written, as its station sent it, when the
\* session takes it; nothing else that is heard is, and in a monitor nothing.
RelayedAsSent ==
  heard # << >> =>
    LET h == heard[1]
    IN  sent = IF /\ Gateable(h.packet) /\ mode = "gateway"
                  /\ h.session = "up" /\ ~h.failed
               THEN << [dst |-> h.packet.dst, src |-> h.packet.src,
                        path |-> h.packet.rpt, info |-> UpToNul(h.packet.info)] >>
               ELSE << >>

\* The beacon, over reconnects and failed writes: a session that has been up
\* for longer than an interval was told of the gate within that time, however
\* the beacon fell between sessions; and none is due within an interval of
\* the last.
BeaconPaced ==
  mode = "gateway" =>
    /\ upFor > BEACON_INTERVAL + MaxLate => quiet <= BEACON_INTERVAL + MaxLate
    /\ beaconIn <= 0 => quiet >= BEACON_INTERVAL

(***************************************************************************)
(* Why BeaconPaced holds.  BEACON_INTERVAL - beaconIn is the time since    *)
(* the timer was last due: no beacon was written since then, and if the    *)
(* session is up for longer, that one was written.                         *)
(***************************************************************************)
PaceInv ==
  /\ TypeOK
  /\ session # "up" => upFor = 0
  /\ mode = "start" => beaconIn = BeaconFirst /\ quiet = Forever
  /\ mode = "gateway" =>
       /\ quiet + beaconIn >= BEACON_INTERVAL
       /\ upFor + beaconIn <= BEACON_INTERVAL \/ quiet + beaconIn <= BEACON_INTERVAL

\* However many frames are dumped to the log without being counted, each comes
\* with lines that are: the log and its predecessor stay within a bound, also
\* when files cannot be removed, moved or opened, unless an earlier daemon left
\* more; then they grow by the one line that rotates the log.
MostLogged == Threshold + DumpSize * ((Threshold + 1) \div 2)
Longest == IF MostLogged > MaxThere THEN MostLogged ELSE MaxThere + 1
LogBounded == log.file <= Longest /\ log.old <= Longest

(***************************************************************************)
(* Why LogBounded holds.  The file is longer than what was counted by the  *)
(* frames dumped to it, and two lines were counted for every dump but the  *)
(* first: l holds so with lines written since the last dump.  A longer     *)
(* file of an earlier daemon is rotated by the first line.                 *)
(***************************************************************************)
LogHolds(l, lines) ==
  /\ l.old <= Longest
  /\ ~l.open => l.file <= Longest
  /\ l.open => \E dumps \in 0 .. Threshold :
       /\ l.file <= l.size + DumpSize * dumps
       /\ dumps = 0 \/ 2 * dumps + lines <= l.size + 2
       /\ l.size < Threshold \/ (l.size <= MaxThere /\ dumps = 0 /\ lines = 0)

LogInv == log \in Log /\ LogHolds(log, 0)
=============================================================================
