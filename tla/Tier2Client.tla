---------------------------- MODULE Tier2Client ----------------------------
(***************************************************************************)
(* tier2_client.c: the daemon's session with an APRS-IS (tier 2) server,   *)
(* on top of one ustream, together with the server at the other end of the *)
(* TCP connection and the process that runs it.                            *)
(*                                                                         *)
(* The daemon is one thread in one event loop, so every callback is one    *)
(* action: the 5 ms timer, a line read from the server, the end of the     *)
(* stream, the descriptor becoming writable, the stream's state_change     *)
(* timer, and a report published by the beacon or by the relay of a packet *)
(* heard on the radio.  The server, the network and time move in between.  *)
(*                                                                         *)
(* Time is kept as ages (time(NULL) - c->last_xxx) that stop counting just *)
(* past the largest value they are compared with.                          *)
(***************************************************************************)
EXTENDS Ustream, FiniteSets

CONSTANTS
  Reports,            \* the position reports and relayed packets to publish
  RECONNECT_WAITTIME, \* first reconnect delay, and the step it grows by
  KEEPALIVE_TIMEOUT,
  IDLE_TIMEOUT,
  MaxWait,            \* bound: the reconnect delay grows no further
  MaxFds,             \* descriptors the process may have open here
  MaxFails,           \* bound: connection attempts that fail, per run of the model
  MaxQueue,           \* bound: messages on their way to the server
  MaxLines            \* bound: lines on their way to the client

ASSUME Tier2Assumption ==
  /\ {"login", "keepalive"} \cap Reports = {}
  /\ RECONNECT_WAITTIME \in Nat \ {0}
  /\ KEEPALIVE_TIMEOUT \in Nat \ {0}
  /\ IDLE_TIMEOUT \in Nat \ {0}
  /\ MaxWait \in Nat /\ MaxWait >= RECONNECT_WAITTIME
  /\ MaxFds \in Nat \ {0}
  /\ MaxFails \in Nat
  /\ MaxQueue \in Nat \ {0}
  /\ MaxLines \in Nat

VARIABLES
  proc,           \* the process: "stopped", "running", "exited", "crashed"
  state,          \* c->state
  sockfd,         \* c->sockfd
  stream,         \* c->stream.stream_fd
  sinceRecv,      \* age of c->last_recv
  sinceReconnect, \* age of c->last_reconnect
  sinceKeepalive, \* age of c->last_keepalive
  waittime,       \* current_reconnect_waittime
  openFds,        \* descriptors the kernel holds open for this client
  fails,          \* connection attempts that failed so far
  peer,           \* the TCP connection, seen from its far end
  phase,          \* what the server knows of this connection's login
  commented,      \* the server commented on this connection before its answer
  lines,          \* lines on their way to the client, each with its LF
  wire            \* messages the kernel took and the server did not read yet

clocks == << sinceRecv, sinceReconnect, sinceKeepalive >>
net    == << peer, phase, commented, lines, wire >>
fdvars == << sockfd, openFds >>
vars   == << proc, state, stream, waittime, fails, clocks, net, fdvars >>

-----------------------------------------------------------------------------
(* Helpers                                                                 *)

ClientStates == {"disconnected", "connected", "server_prompt",
                 "server_unverified", "server_verified"}
Message      == {"login", "keepalive"} \cup Reports
LineKinds    == {"greeting", "verified", "unverified", "comment", "blank"}
NoFd         == -1

AtMost(n, bound) == IF n > bound THEN bound ELSE n

\* socket() hands out the lowest descriptor that fds leaves free.
NewSocket(fd, fds) ==
  LET free == (1 .. MaxFds) \ fds
  IN  fd \in free /\ \A k \in free : fd <= k

\* Everything handed to the current connection that the server has not read.
Outgoing == IF state = "disconnected" THEN << >> ELSE wire \o stream.wbuf

NoConnection ==
  /\ peer' = "none" /\ phase' = "none" /\ commented' = FALSE
  /\ lines' = << >> /\ wire' = << >>

\* The process is gone: the kernel closes what it had open.
ProcessEnds(how) ==
  /\ proc' = how
  /\ state' = "disconnected"
  /\ sockfd' = NoFd /\ openFds' = {}
  /\ stream' = ZeroStream
  /\ sinceRecv' = 0 /\ sinceReconnect' = 0 /\ sinceKeepalive' = 0
  /\ waittime' = RECONNECT_WAITTIME
  /\ NoConnection

Init ==
  /\ proc = "stopped"
  /\ state = "disconnected"
  /\ sockfd = NoFd /\ openFds = {}
  /\ stream = ZeroStream
  /\ sinceRecv = 0 /\ sinceReconnect = 0 /\ sinceKeepalive = 0
  /\ waittime = RECONNECT_WAITTIME
  /\ fails = 0
  /\ peer = "none" /\ phase = "none" /\ commented = FALSE
  /\ lines = << >> /\ wire = << >>

-----------------------------------------------------------------------------
(* tier2_client_open, from a client in state_disconnected.  str, fds and   *)
(* fd are the stream, the open descriptors and sockfd it starts from, and  *)
(* waitIfOpen, waitIfNot the reconnect delay its caller ends up with.      *)

\* resolve_host fails for now, after last_reconnect and before last_recv.
ResolveFails(str, fds, fd) ==
  /\ fails < MaxFails
  /\ fails' = fails + 1
  /\ state' = "disconnected"
  /\ stream' = str /\ openFds' = fds /\ sockfd' = fd
  /\ UNCHANGED sinceRecv
  /\ NoConnection

\* socket() finds no descriptor: sockfd is -1.
SocketFails(str, fds) ==
  /\ (1 .. MaxFds) \subseteq fds
  /\ state' = "disconnected"
  /\ stream' = str /\ openFds' = fds /\ sockfd' = NoFd
  /\ sinceRecv' = 0
  /\ UNCHANGED fails
  /\ NoConnection

\* connect() fails.  tier2_client_close returns at once, for the state is
\* still state_disconnected: the new descriptor stays open and in sockfd.
ConnectFails(str, fds) ==
  /\ fails < MaxFails
  /\ fails' = fails + 1
  /\ state' = "disconnected"
  /\ stream' = str
  /\ \E fd \in 1 .. MaxFds :
       NewSocket(fd, fds) /\ sockfd' = fd /\ openFds' = fds \cup {fd}
  /\ sinceRecv' = 0
  /\ NoConnection

\* Faulty variant: last_recv is not set on opening.
ConnectSucceedsStale(str, fds) ==
  /\ UNCHANGED << fails, sinceRecv >>
  /\ state' = "connected"
  /\ stream' = FreshStream
  /\ \E fd \in 1 .. MaxFds :
       NewSocket(fd, fds) /\ sockfd' = fd /\ openFds' = fds \cup {fd}
  /\ peer' = "up" /\ phase' = "banner" /\ commented' = FALSE
  /\ lines' = << >> /\ wire' = << >>

\* connect() succeeds and xstream_crlf_init zeroes the stream.
ConnectSucceeds(str, fds) ==
  /\ UNCHANGED fails
  /\ state' = "connected"
  /\ stream' = FreshStream
  /\ \E fd \in 1 .. MaxFds :
       NewSocket(fd, fds) /\ sockfd' = fd /\ openFds' = fds \cup {fd}
  /\ sinceRecv' = 0
  /\ peer' = "up" /\ phase' = "banner" /\ commented' = FALSE
  /\ lines' = << >> /\ wire' = << >>

Open(str, fds, fd, waitIfOpen, waitIfNot) ==
  /\ sinceReconnect' = 0 /\ sinceKeepalive' = 0
  /\ UNCHANGED proc
  /\ \/ ResolveFails(str, fds, fd) /\ waittime' = waitIfNot
     \/ SocketFails(str, fds) /\ waittime' = waitIfNot
     \/ ConnectFails(str, fds) /\ waittime' = waitIfNot
     \/ ~str.stateChange /\ ConnectSucceeds(str, fds) /\ waittime' = waitIfOpen

\* connect() succeeds while the old stream's state_change timer is still
\* linked into uloop's list: the memset cuts the list, and the next
\* uloop_timeout_set, the client's own, walks off its end.
OpenOverLinkedTimer(str, fds) ==
  /\ str.stateChange
  /\ (1 .. MaxFds) \ fds # {}
  /\ ProcessEnds("crashed")
  /\ UNCHANGED fails

\* Faulty variant: sockfd is zeroed, not set to -1.
CloseZeroed(str) ==
  /\ state' = "disconnected"
  /\ stream' = XstreamFree(str)
  /\ openFds' = openFds \ {sockfd}
  /\ sockfd' = 0
  /\ NoConnection

\* Faulty variant: the descriptor is forgotten, not closed.
CloseForgets(str) ==
  /\ state' = "disconnected"
  /\ stream' = XstreamFree(str)
  /\ UNCHANGED openFds
  /\ sockfd' = NoFd
  /\ NoConnection

\* tier2_client_close of a client that is not disconnected.
Close(str) ==
  /\ state' = "disconnected"
  /\ stream' = XstreamFree(str)
  /\ openFds' = openFds \ {sockfd}
  /\ sockfd' = NoFd
  /\ NoConnection

\* tier2_client_send, not used without a socket.  The kernel may refuse for
\* now while earlier output is unsent, and fail once the peer is gone.
Send(m) ==
  IF Len(Outgoing) >= MaxQueue
  THEN UNCHANGED << stream, wire >>
  ELSE \E w \in Write(stream, m, wire # << >>, peer # "up") :
         /\ stream' = w.stream
         /\ wire' = wire \o w.sent

-----------------------------------------------------------------------------
(* tier2_client_init, called by main.  An address that does not resolve or *)
(* a server that cannot be reached is tolerated, anything else is not.     *)
StartClient ==
  /\ proc # "running"
  /\ proc' = "running"
  /\ sinceReconnect' = 0 /\ sinceKeepalive' = 0
  /\ UNCHANGED waittime
  /\ \/ ResolveFails(ZeroStream, {}, NoFd)
     \/ ConnectFails(ZeroStream, {})
     \/ ConnectSucceeds(ZeroStream, {})

\* resolve_host rejects the configured address (-EINVAL) and main exits.
StartRefused ==
  /\ proc = "stopped"
  /\ ProcessEnds("exited")
  /\ UNCHANGED fails

\* SIGINT or SIGTERM: uloop_run returns between two callbacks, then main.
Terminate ==
  /\ proc = "running"
  /\ ProcessEnds("exited")
  /\ UNCHANGED fails

-----------------------------------------------------------------------------
(* timeout_handler and tier2_client_run, every 5 ms                        *)

\* Faulty variant: only a client without a descriptor reconnects.
ReconnectDueNoFd == state = "disconnected" /\ sockfd = NoFd /\ sinceReconnect > waittime

ReconnectDue == state = "disconnected" /\ sinceReconnect > waittime
\* Faulty variants: the idle check leaves out a client that is logging in.
IdleTooLongGreeted  == state \notin {"disconnected", "connected"} /\ sinceRecv > IDLE_TIMEOUT
IdleTooLongAnswered ==
  /\ state \in {"connected", "server_verified", "server_unverified"}
  /\ sinceRecv > IDLE_TIMEOUT

IdleTooLong  == state # "disconnected" /\ sinceRecv > IDLE_TIMEOUT

TimerReconnects ==
  /\ proc = "running"
  /\ ReconnectDue
  /\ LET grown == AtMost(waittime + RECONNECT_WAITTIME, MaxWait)
     IN  \/ Open(stream, openFds, sockfd, grown, grown)
         \/ OpenOverLinkedTimer(stream, openFds)

\* Close and open in one call; an open that succeeded also resets the delay.
TimerGivesUpIdle ==
  /\ proc = "running"
  /\ IdleTooLong
  /\ LET freed == XstreamFree(stream)
         fds   == openFds \ {sockfd}
     IN  \/ Open(freed, fds, NoFd, RECONNECT_WAITTIME, waittime)
         \/ OpenOverLinkedTimer(freed, fds)

TimerResetsWait ==
  /\ proc = "running"
  /\ state = "connected" /\ ~IdleTooLong
  /\ waittime # RECONNECT_WAITTIME
  /\ waittime' = RECONNECT_WAITTIME
  /\ UNCHANGED << proc, state, stream, fails, clocks, net, fdvars >>

TimerKeepsAlive ==
  /\ proc = "running"
  /\ state \in {"server_verified", "server_unverified"} /\ ~IdleTooLong
  /\ sinceKeepalive > KEEPALIVE_TIMEOUT
  /\ Send("keepalive")
  /\ sinceKeepalive' = 0
  /\ UNCHANGED << proc, state, waittime, fails, sinceRecv, sinceReconnect,
                  peer, phase, commented, lines, fdvars >>

TimerRun == TimerReconnects \/ TimerGivesUpIdle \/ TimerResetsWait \/ TimerKeepsAlive

-----------------------------------------------------------------------------
(* The stream's callbacks                                                  *)

\* on_stream_read: the crlf codec also ends a line at the LF after each CR,
\* so every line is followed by an empty one, which is ignored.
ReadBlank ==
  /\ Head(lines) = "blank"
  /\ UNCHANGED << state, stream, sinceRecv, wire >>

\* tier2_client_receive of the greeting: log in.
ReadGreeting ==
  /\ Head(lines) # "blank" /\ state = "connected"
  /\ state' = "server_prompt"
  /\ sinceRecv' = 0
  /\ Send("login")

\* Faulty variant: whatever the server answers counts as verified.
ReadVerdictTrusting ==
  /\ Head(lines) # "blank" /\ state = "server_prompt"
  /\ state' = "server_verified"
  /\ sinceRecv' = 0
  /\ UNCHANGED << stream, wire >>

\* Faulty variant: the empty line after the greeting's CR is not ignored.
ReadVerdictBlank ==
  /\ state = "server_prompt"
  /\ state' = IF Head(lines) = "verified" THEN "server_verified" ELSE "server_unverified"
  /\ sinceRecv' = 0
  /\ UNCHANGED << stream, wire >>

\* tier2_client_receive of the answer: any line that is not the positive
\* login response makes the client unverified.
ReadVerdict ==
  /\ Head(lines) # "blank" /\ state = "server_prompt"
  /\ state' = IF Head(lines) = "verified" THEN "server_verified" ELSE "server_unverified"
  /\ sinceRecv' = 0
  /\ UNCHANGED << stream, wire >>

\* tier2_client_receive of the feed: printed, nothing else.
ReadFeed ==
  /\ Head(lines) # "blank" /\ state \in {"server_verified", "server_unverified"}
  /\ sinceRecv' = 0
  /\ UNCHANGED << state, stream, wire >>

ReadLine ==
  /\ proc = "running"
  /\ state # "disconnected" /\ PollsRead(stream)
  /\ lines # << >>
  /\ lines' = Tail(lines)
  /\ ReadBlank \/ ReadGreeting \/ ReadVerdict \/ ReadFeed
  /\ UNCHANGED << proc, waittime, fails, sinceReconnect, sinceKeepalive,
                  peer, phase, commented, fdvars >>

ReadEnd ==
  /\ proc = "running"
  /\ state # "disconnected" /\ PollsRead(stream)
  /\ lines = << >> /\ peer \in {"closing", "reset"}
  /\ stream' = ReadEof(stream, peer = "reset")
  /\ UNCHANGED << proc, state, waittime, fails, clocks, net, fdvars >>

WriteReady ==
  /\ proc = "running"
  /\ state # "disconnected" /\ PollsWrite(stream)
  /\ \E w \in Flush(stream, peer # "up") :
       /\ stream' = w.stream
       /\ wire' = wire \o w.sent
  /\ UNCHANGED << proc, state, waittime, fails, clocks, peer, phase, commented, lines, fdvars >>

\* ustream_state_change_cb: on_stream_error closes the client.
StateChangeTimer ==
  /\ proc = "running"
  /\ stream.stateChange
  /\ IF state = "disconnected"
     THEN stream' = StateChanged(stream) /\ UNCHANGED << state, fdvars, net >>
     ELSE Close(StateChanged(stream))
  /\ UNCHANGED << proc, waittime, fails, clocks >>

\* Faulty variant: a socket is enough to publish.
PublishConnected(m) ==
  /\ proc = "running"
  /\ state # "disconnected"
  /\ Len(Outgoing) < MaxQueue
  /\ Send(m)
  /\ UNCHANGED << proc, state, waittime, fails, clocks, peer, phase, commented, lines, fdvars >>

\* tier2_client_publish of a verified client, for beacon_run and for
\* relay_ax25_message; otherwise it returns -1 and changes nothing.
Publish(m) ==
  /\ proc = "running"
  /\ state = "server_verified"
  /\ Len(Outgoing) < MaxQueue
  /\ Send(m)
  /\ UNCHANGED << proc, state, waittime, fails, clocks, peer, phase, commented, lines, fdvars >>

-----------------------------------------------------------------------------
(* Environment: the clock, the server and the network                      *)

Tick ==
  /\ proc = "running"
  /\ sinceRecv' = AtMost(sinceRecv + 1, IDLE_TIMEOUT + 1)
  /\ sinceReconnect' = AtMost(sinceReconnect + 1, MaxWait + 1)
  /\ sinceKeepalive' = AtMost(sinceKeepalive + 1, KEEPALIVE_TIMEOUT + 1)
  /\ clocks' # clocks
  /\ UNCHANGED << proc, state, stream, waittime, fails, net, fdvars >>

client == << proc, state, stream, waittime, fails, clocks, fdvars >>

\* A line and the LF of its CRLF.
SendLine(kind) ==
  /\ Len(lines) + 2 <= MaxLines
  /\ lines' = lines \o << kind, "blank" >>

ServerGreets ==
  /\ peer = "up" /\ phase = "banner"
  /\ phase' = "login"
  /\ SendLine("greeting")
  /\ UNCHANGED << peer, commented, wire, client >>

\* Comments go to every client, one still waiting for its verdict included.
\* The feed of a client that logged in is no different here.
ServerTalks ==
  /\ peer = "up"
  /\ phase \in {"login", "verified", "unverified"}
  /\ SendLine("comment")
  /\ commented' = (commented \/ phase = "login")
  /\ UNCHANGED << peer, phase, wire, client >>

ServerReads ==
  /\ peer = "up" /\ wire # << >>
  /\ wire' = Tail(wire)
  /\ IF Head(wire) = "login" /\ phase = "login"
     THEN \E v \in {"verified", "unverified"} : phase' = v /\ SendLine(v)
     ELSE UNCHANGED << phase, lines >>
  /\ UNCHANGED << peer, commented, client >>

\* The server closes, the connection is reset, or the peer goes silent.
ConnectionBreaks ==
  /\ peer = "up"
  /\ peer' \in {"closing", "reset", "dead"}
  /\ lines' = IF peer' = "reset" THEN << >> ELSE lines
  /\ UNCHANGED << phase, commented, wire, client >>

Environment == Tick \/ ServerGreets \/ ServerTalks \/ ServerReads \/ ConnectionBreaks

Daemon ==
  \/ StartClient \/ StartRefused \/ Terminate
  \/ TimerRun
  \/ ReadLine \/ ReadEnd \/ WriteReady \/ StateChangeTimer
  \/ \E m \in Reports : Publish(m)

Next == Daemon \/ Environment

Spec == Init /\ [][Next]_vars

-----------------------------------------------------------------------------
(* Properties                                                              *)

\* The ranges of the client's fields and statics, of its descriptors and of
\* the connection it has.
TypeOK ==
  /\ proc \in {"stopped", "running", "exited", "crashed"}
  /\ state \in ClientStates
  /\ sockfd \in {NoFd} \cup 1 .. MaxFds
  /\ stream \in StreamOver(Message)
  /\ sinceRecv \in 0 .. IDLE_TIMEOUT + 1
  /\ sinceReconnect \in 0 .. MaxWait + 1
  /\ sinceKeepalive \in 0 .. KEEPALIVE_TIMEOUT + 1
  /\ waittime \in RECONNECT_WAITTIME .. MaxWait
  /\ openFds \in SUBSET (1 .. MaxFds)
  /\ fails \in 0 .. MaxFails
  /\ peer \in {"none", "up", "closing", "reset", "dead"}
  /\ phase \in {"none", "banner", "login", "verified", "unverified"}
  /\ commented \in BOOLEAN
  /\ lines \in Seq(LineKinds)
  /\ wire \in Seq(Message)

\* Why the two invariants below hold: until the server accepts the login, no
\* positive answer is on its way to the client, and nothing but the login
\* and keepalives is on its way to the server or waits in the write buffer.
Courtesies == {"login", "keepalive"}
AdmissionInv ==
  /\ state = "server_verified" => phase = "verified"
  /\ phase # "verified" =>
       /\ lines \in Seq(LineKinds \ {"verified"})
       /\ state # "disconnected" =>
            wire \in Seq(Courtesies) /\ stream \in StreamOver(Courtesies)

\* Why the client implements the abstract session: a new connection carries
\* nothing, one that waits for its verdict at most the login, and that only
\* until the server accepts it.
LoginInv ==
  /\ state = "connected" => Outgoing = << >> /\ phase \in {"banner", "login"}
  /\ state = "server_prompt" =>
       \/ Outgoing = << >>
       \/ Outgoing = << "login" >> /\ phase # "verified"

\* Why a refused login has a cause: unless a comment came in between, a server
\* that accepted the login has its answer on the way, behind empty lines only.
AnswerPending ==
  \E i \in 1 .. Len(lines) :
    lines[i] = "verified" /\ \A j \in 1 .. i - 1 : lines[j] = "blank"

AnsweredInOrder ==
  /\ state = "connected" =>
       \/ phase = "banner" /\ lines = << >>
       \/ phase = "login" /\ lines \in {<< >>, << "greeting", "blank" >>}
  /\ state = "server_prompt" =>
       \/ phase = "login" /\ lines \in Seq({"blank"})
       \/ phase = "verified" /\ AnswerPending
       \/ phase = "verified" /\ lines = << >> /\ peer = "reset"
       \/ phase = "unverified"
  /\ state = "server_unverified" => phase = "unverified"

RefusedInv == commented \/ AnsweredInOrder

\* Why attempts are spaced: a connection's last line is never older than the
\* attempt that opened it, as far as the two ages still count.
SpacingInv ==
  /\ proc # "running" => state = "disconnected" /\ sinceReconnect = 0
  /\ state # "disconnected" =>
       sinceRecv <= sinceReconnect \/ sinceReconnect = MaxWait + 1

\* A client that takes itself for verified is connected to a server that
\* accepted the login of this very connection: no line, flag or buffered
\* byte of an earlier connection is ever taken for the answer.
VerifiedMeansAccepted == state = "server_verified" => phase = "verified"

\* A report is on its way to a server only when that server has accepted
\* this connection's login: nothing published on an earlier connection, and
\* nothing published too early, is ever flushed into a new one.
ReportsOnlyToAcceptingServer ==
  \A i \in 1 .. Len(Outgoing) : Outgoing[i] \in Reports => phase = "verified"

\* The client takes a login for refused only when the server of this very
\* connection refused it, or commented before its answer; that comment is taken
\* for the answer, and then the message of tier2_client_publish, "publish message
\* aborted because callsign %.9s is NOT verified.", may be wrong.  Nothing else,
\* no empty line and nothing of an earlier connection, is taken for a refusal.
RefusalHasCause == state = "server_unverified" => phase = "unverified" \/ commented

\* tier2_client_init: "Connect to '%s' temporarily failed, will re-connect
\* later."  A disconnected client still finds a descriptor to do so with.
CanReconnect ==
  proc = "running" /\ state = "disconnected" => (1 .. MaxFds) \ openFds # {}

\* The abstract session: what the queue holds is what a server may still
\* read, and the client's state is how far its login got.
Session == INSTANCE GatedSession WITH
  admission <- CASE state = "server_prompt" -> "asked"
                 [] state = "server_verified" -> "granted"
                 [] state = "server_unverified" -> "refused"
                 [] OTHER -> "none",
  queue <- Outgoing

\* The client implements the abstract session: one login, first; reports
\* only after it was accepted; in order, none twice, none across connections.
ImplementsSession == Session!Spec

\* Connection attempts of one process start more than the shorter of the
\* first reconnect delay and the idle timeout apart, whichever mix of failed
\* attempts, lost connections and idle servers led to them.
AttemptSpacing ==
  [][sinceReconnect' < sinceReconnect /\ proc' = "running"
     => sinceReconnect > AtMost(RECONNECT_WAITTIME, IDLE_TIMEOUT)]_vars

(* Liveness, under the fairness of the event loop: a due timer, a readable *)
(* stream and a pending state change are all served, and time goes on.     *)

Fairness ==
  /\ WF_vars(TimerRun)
  /\ WF_vars(ReadLine \/ ReadEnd)
  /\ WF_vars(StateChangeTimer)
  /\ WF_vars(Tick)

FairSpec == Spec /\ Fairness

\* A connection that its far end closed, reset or silently abandoned is
\* noticed and given up, whatever the client was waiting for on it.
LostPeerAbandoned ==
  \A how \in {"closing", "reset", "dead"} : (peer = how) ~> (peer # how)

\* A login is not waited for for ever, even if the server never answers.
LoginDecided == (state = "server_prompt") ~> (state # "server_prompt")

\* Once connection attempts stop failing, a disconnected client connects.
Reconnects ==
  (proc = "running" /\ state = "disconnected")
    ~> (proc # "running" \/ state # "disconnected")
=============================================================================
