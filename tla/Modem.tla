------------------------------- MODULE Modem -------------------------------
(***************************************************************************)
(* modem.c: the daemon's session with the TNC on a serial port, over one   *)
(* ustream and its codec, together with the TNC and the port.              *)
(*                                                                         *)
(* Every callback is one action: the 5 ms timer, a piece of input, the     *)
(* end of the stream, the state_change timer, the descriptor becoming      *)
(* writable and the timer that switches to KISS mode.                      *)
(*                                                                         *)
(* Input comes in pieces: "info", the line that identifies the TNC; "text",*)
(* any other line; "part", text without its line end; "frame", a KISS      *)
(* frame, which has no line end either.  What is inside a line is          *)
(* LineCodec's matter, what is inside a frame KissCodec's.                 *)
(***************************************************************************)
EXTENDS Ustream

CONSTANTS
  REOPEN_WAIT,    \* reopen_wait_time
  REOPEN_STEP,    \* what each attempt adds to it (30)
  INIT_WAIT,      \* init_wait_time
  KEEPALIVE_WAIT, \* keepalive_wait_time, 0 for none
  SWITCH_DELAY,   \* from the detection to KISS mode (5 s)
  BufSize,        \* pieces the read buffer holds
  MaxWait,        \* bound: the reopen delay grows no further
  MaxQueue,       \* bound: messages in the write buffer
  MaxInput        \* bound: pieces on their way from the TNC

ASSUME ModemAssumption ==
  /\ REOPEN_WAIT \in Nat /\ REOPEN_STEP \in Nat
  /\ INIT_WAIT \in Nat /\ KEEPALIVE_WAIT \in Nat /\ SWITCH_DELAY \in Nat
  /\ MaxWait \in Nat /\ MaxWait >= REOPEN_WAIT
  /\ BufSize \in Nat \ {0} /\ MaxQueue \in Nat \ {0} /\ MaxInput \in Nat

VARIABLES
  proc,           \* the process: "stopped", "running", "crashed"
  state,          \* close, open, init_request, ready
  stream,         \* stream.stream_fd
  codec,          \* stream._codec: "crlf" or "kiss"
  kissMode,
  obj,            \* _ctx.currentObj: "none", "line" (objbuf), "frame" (_framebuf)
  held,           \* pieces of a pending line in the read buffer
  switchIn,       \* time left of switch_mode_timer, or Unset
  sinceReopen,    \* age of last_reopen
  sinceInit,      \* age of last_init_req
  sinceKeepalive, \* age of last_keepalive, or Unset
  waittime,       \* current_reopen_wait_time
  attached,       \* the port is there and can be opened
  port,           \* the port the process has open: "none", "up", "hup"
  input           \* pieces the TNC sent and the process did not read

codecvars == << codec, obj, held >>
ages      == << sinceReopen, sinceInit, sinceKeepalive >>
line      == << attached, port, input >>
vars == << proc, state, stream, kissMode, switchIn, waittime, codecvars, ages, line >>

Unset   == -1
Pieces  == {"info", "text", "part", "frame"}
Message == {"query", "keepalive"}

AtMost(n, bound) == IF n > bound THEN bound ELSE n

\* A full read buffer: READ_BLOCKED_FULL.
Blocked == held = BufSize

\* A blocked stream is polled only while it has output.
Polled(s) == IF Blocked /\ s.wbuf = << >> THEN [s EXCEPT !.registered = FALSE] ELSE s

Init ==
  /\ proc = "stopped"
  /\ state = "close"
  /\ stream = ZeroStream
  /\ codec = "crlf" /\ obj = "none" /\ held = 0
  /\ kissMode = FALSE
  /\ switchIn = Unset
  /\ sinceReopen = 0 /\ sinceInit = 0 /\ sinceKeepalive = Unset
  /\ waittime = REOPEN_WAIT
  /\ attached \in BOOLEAN /\ port = "none" /\ input = << >>

-----------------------------------------------------------------------------
(* modem_open and modem_close                                              *)

\* serial_open fails.
OpenFails ==
  /\ ~attached
  /\ state' = "close"
  /\ UNCHANGED << stream, codecvars, sinceInit, sinceKeepalive, line >>

\* serial_open succeeds; xstream_crlf_init zeroes the stream, its codec and its
\* context and makes the port non-blocking (uloop_fd_add); tnc_send_init_cmds
\* sends the query or leaves it in the write buffer.  If it fails, the port is
\* gone already.
OpenSucceeds ==
  /\ attached
  /\ codec' = "crlf" /\ obj' = "none" /\ held' = 0
  /\ sinceInit' = 0 /\ sinceKeepalive' = Unset
  /\ input' = << >>
  /\ \E w \in Write(FreshStream, "query", TRUE, TRUE) :
       /\ stream' = w.stream
       /\ state' = IF w.stream.writeError THEN "open" ELSE "init_request"
       /\ attached' = ~w.stream.writeError
       /\ port' = IF w.stream.writeError THEN "hup" ELSE "up"

Open ==
  /\ sinceReopen' = 0
  /\ OpenFails \/ OpenSucceeds

\* Faulty variant: the stream is not freed.
CloseKeepsStream(s) ==
  /\ state' = "close"
  /\ stream' = s
  /\ port' = "none" /\ input' = << >>

\* modem_close of an open modem.  The codec, kissMode and switch_mode_timer
\* stay as they are.
Close(s) ==
  /\ state' = "close"
  /\ stream' = XstreamFree(s)
  /\ port' = "none" /\ input' = << >>

\* modem_init
StartModem ==
  /\ proc # "running"
  /\ proc' = "running"
  /\ Open
  /\ UNCHANGED << kissMode, switchIn, waittime >>

\* The process is gone.
Crash ==
  /\ proc' = "crashed"
  /\ state' = "close"
  /\ stream' = ZeroStream
  /\ codec' = "crlf" /\ obj' = "none" /\ held' = 0
  /\ kissMode' = FALSE /\ switchIn' = Unset
  /\ sinceReopen' = 0 /\ sinceInit' = 0 /\ sinceKeepalive' = Unset
  /\ waittime' = REOPEN_WAIT
  /\ port' = "none" /\ input' = << >>
  /\ UNCHANGED attached

-----------------------------------------------------------------------------
(* timeout_handler and modem_run, every 5 ms                               *)

\* Faulty variant: the modem gives up after a number of attempts.
TimerReopensGivesUp ==
  /\ proc = "running" /\ state = "close"
  /\ sinceReopen > waittime /\ waittime < MaxWait
  /\ waittime' = AtMost(waittime + REOPEN_STEP, MaxWait)
  /\ Open
  /\ UNCHANGED << proc, kissMode, switchIn >>

TimerReopens ==
  /\ proc = "running" /\ state = "close"
  /\ sinceReopen > waittime
  /\ waittime' = AtMost(waittime + REOPEN_STEP, MaxWait)
  /\ Open
  /\ UNCHANGED << proc, kissMode, switchIn >>

\* Faulty variant: a modem that answered something is waited for on.
TimerInitTimeoutSilent ==
  /\ proc = "running" /\ state = "init_request"
  /\ sinceInit > INIT_WAIT
  /\ held = 0
  /\ state' = "ready"
  /\ codec' = "kiss" /\ kissMode' = TRUE
  /\ UNCHANGED << proc, stream, obj, held, switchIn, waittime, ages, line >>

\* The TNC did not answer in time: ready all the same, in KISS mode.
TimerInitTimeout ==
  /\ proc = "running" /\ state = "init_request"
  /\ sinceInit > INIT_WAIT
  /\ state' = "ready"
  /\ codec' = "kiss" /\ kissMode' = TRUE
  /\ UNCHANGED << proc, stream, obj, held, switchIn, waittime, ages, line >>

\* tnc_send of the keepalive.
SendKeepalive ==
  IF Len(stream.wbuf) = MaxQueue THEN UNCHANGED stream
  ELSE \E w \in Write(stream, "keepalive", TRUE, port = "hup") : stream' = w.stream

\* A ready modem resets the reopen delay and, if so configured, pings the TNC.
TimerReady ==
  /\ proc = "running" /\ state = "ready"
  /\ waittime' = REOPEN_WAIT
  /\ IF KEEPALIVE_WAIT = 0 THEN UNCHANGED << stream, sinceKeepalive >>
     ELSE IF sinceKeepalive > KEEPALIVE_WAIT THEN SendKeepalive /\ sinceKeepalive' = 0
     ELSE /\ sinceKeepalive' = IF sinceKeepalive = Unset THEN 0 ELSE sinceKeepalive
          /\ UNCHANGED stream
  /\ UNCHANGED << proc, state, kissMode, switchIn, codecvars, sinceReopen, sinceInit, line >>

TimerRun == TimerReopens \/ TimerInitTimeout \/ TimerReady

-----------------------------------------------------------------------------
(* The stream's callbacks and the switch timer                             *)

\* Faulty variant: a line of the new session leaves kissMode as it was.
IdentifyKeepsMode(identified) ==
  /\ UNCHANGED kissMode
  /\ state' = IF identified THEN "ready" ELSE "init_request"
  /\ switchIn' = IF identified THEN SWITCH_DELAY ELSE switchIn

\* tnc_received in state_init_request: is it what the TNC calls itself?
Identify(identified) ==
  /\ kissMode' = FALSE
  /\ state' = IF identified THEN "ready" ELSE "init_request"
  /\ switchIn' = IF identified THEN SWITCH_DELAY ELSE switchIn

\* tnc_received of what may (if so) be the TNC's name for itself: only
\* state_init_request looks.  A ready modem prints a line and decodes a
\* frame, which changes nothing here.
Received(maybeName) ==
  IF state = "init_request" THEN \E identified \in maybeName : Identify(identified)
  ELSE UNCHANGED << state, kissMode, switchIn >>

\* crlf codec, a piece with a line end: the pending line and the piece are
\* one line.
ReadLine(piece) ==
  /\ codec = "crlf" /\ piece \in {"info", "text"}
  /\ obj' = "none" /\ held' = 0
  /\ Received({piece = "info"})
  /\ UNCHANGED << proc, stream >>

\* crlf codec, a piece without one: it stays in the buffer, and a buffer that
\* is full with it is not read any further.
ReadPart(piece) ==
  /\ codec = "crlf" /\ piece \in {"part", "frame"}
  /\ obj' = "line" /\ held' = held + 1
  /\ stream' = IF held + 1 = BufSize /\ stream.wbuf = << >>
               THEN [stream EXCEPT !.registered = FALSE] ELSE stream
  /\ UNCHANGED << proc, state, kissMode, switchIn >>

\* kiss codec in its own object: only frames count, everything is consumed.
\* A frame's payload may read like anything.
ReadKiss(piece) ==
  /\ codec = "kiss" /\ obj # "line"
  /\ obj' = IF piece = "frame" THEN "none" ELSE "frame"
  /\ UNCHANGED held
  /\ IF piece = "frame" THEN Received(BOOLEAN) ELSE UNCHANGED << state, kissMode, switchIn >>
  /\ UNCHANGED << proc, stream >>

\* kiss codec in the object of the line that was pending when the codec was
\* switched: it takes what lies behind objbuf for the state of its decoder.
\* Nothing may come of it, or a frame.
ReadKissAstray ==
  /\ codec = "kiss" /\ obj = "line"
  /\ held' = 0
  /\ \/ obj' = "line" /\ UNCHANGED << state, kissMode, switchIn >>
     \/ obj' = "none" /\ Received(BOOLEAN)
  /\ UNCHANGED << proc, stream >>

\* Faulty variant: a poll for output reads a blocked stream too.
ReadUnblocked ==
  /\ proc = "running"
  /\ state # "close" /\ PollsRead(stream)
  /\ input # << >>
  /\ input' = Tail(input)
  /\ LET piece == Head(input)
     IN  ReadLine(piece) \/ ReadPart(piece) \/ ReadKiss(piece) \/ ReadKissAstray
  /\ UNCHANGED << codec, waittime, ages, attached, port >>

Read ==
  /\ proc = "running"
  /\ state # "close" /\ PollsRead(stream) /\ ~Blocked
  /\ input # << >>
  /\ input' = Tail(input)
  /\ LET piece == Head(input)
     IN  ReadLine(piece) \/ ReadPart(piece) \/ ReadKiss(piece) \/ ReadKissAstray
  /\ UNCHANGED << codec, waittime, ages, attached, port >>

\* ... or it writes through the wild pointers it finds there.
ReadCrashes ==
  /\ proc = "running"
  /\ state # "close" /\ PollsRead(stream) /\ ~Blocked
  /\ input # << >>
  /\ codec = "kiss" /\ obj = "line"
  /\ Crash

ReadEnd ==
  /\ proc = "running"
  /\ state # "close" /\ PollsRead(stream) /\ ~Blocked
  /\ port = "hup" /\ input = << >>
  /\ \E hup \in BOOLEAN : stream' = ReadEof(stream, hup)
  /\ UNCHANGED << proc, state, kissMode, switchIn, waittime, codecvars, ages, line >>

WriteReady ==
  /\ proc = "running"
  /\ state # "close" /\ PollsWrite(stream)
  /\ \E w \in Flush(stream, port = "hup") : stream' = Polled(w.stream)
  /\ UNCHANGED << proc, state, kissMode, switchIn, waittime, codecvars, ages, line >>

\* Faulty variant: the end of the input alone does not close the modem.
StateChangeAtWriteError ==
  /\ proc = "running"
  /\ stream.stateChange
  /\ IF stream.writeError THEN Close(StateChanged(stream))
     ELSE stream' = StateChanged(stream) /\ UNCHANGED << state, port, input >>
  /\ UNCHANGED << proc, kissMode, switchIn, waittime, codecvars, ages, attached >>

\* ustream_state_change_cb: on_stream_error closes the modem.
StateChangeTimer ==
  /\ proc = "running"
  /\ stream.stateChange
  /\ Close(StateChanged(stream))
  /\ UNCHANGED << proc, kissMode, switchIn, waittime, codecvars, ages, attached >>

\* Faulty variant: the switch waits for the pending line.
SwitchPatient ==
  /\ proc = "running"
  /\ switchIn = 0
  /\ switchIn' = Unset
  /\ codec' = IF obj = "line" THEN codec ELSE "kiss"
  /\ kissMode' = (obj # "line")
  /\ UNCHANGED << proc, state, stream, obj, held, waittime, ages, line >>

\* on_switch_mode, whatever became of the modem that was detected.
SwitchMode ==
  /\ proc = "running"
  /\ switchIn = 0
  /\ switchIn' = Unset
  /\ codec' = "kiss" /\ kissMode' = TRUE
  /\ UNCHANGED << proc, state, stream, obj, held, waittime, ages, line >>

-----------------------------------------------------------------------------
(* Environment: time, the TNC and its cable                                *)

Older(age, limit) == IF age = Unset THEN Unset ELSE AtMost(age + 1, limit + 1)

Tick ==
  /\ proc = "running"
  /\ sinceReopen' = Older(sinceReopen, MaxWait)
  /\ sinceInit' = Older(sinceInit, INIT_WAIT)
  /\ sinceKeepalive' = Older(sinceKeepalive, KEEPALIVE_WAIT)
  /\ switchIn' = IF switchIn > 0 THEN switchIn - 1 ELSE switchIn
  /\ << ages, switchIn >>' # << ages, switchIn >>
  /\ UNCHANGED << proc, state, stream, kissMode, waittime, codecvars, line >>

TncSends(piece) ==
  /\ port = "up" /\ Len(input) < MaxInput
  /\ input' = Append(input, piece)
  /\ UNCHANGED << proc, state, stream, kissMode, switchIn, waittime, codecvars, ages, attached, port >>

\* The TNC is unplugged: the terminal hangs up and its input is gone.
Unplug ==
  /\ attached
  /\ attached' = FALSE
  /\ port' = IF port = "up" THEN "hup" ELSE port
  /\ input' = << >>
  /\ UNCHANGED << proc, state, stream, kissMode, switchIn, waittime, codecvars, ages >>

Plug ==
  /\ ~attached
  /\ attached' = TRUE
  /\ UNCHANGED << proc, state, stream, kissMode, switchIn, waittime, codecvars, ages, port, input >>

Next ==
  \/ StartModem \/ TimerRun
  \/ Read \/ ReadCrashes \/ ReadEnd \/ WriteReady \/ StateChangeTimer \/ SwitchMode
  \/ Tick \/ Unplug \/ Plug
  \/ \E piece \in Pieces : TncSends(piece)

Spec == Init /\ [][Next]_vars

\* The event loop serves every due timer and readable stream, and time goes on.
Fairness ==
  /\ WF_vars(TimerRun)
  /\ WF_vars(Read \/ ReadCrashes \/ ReadEnd)
  /\ WF_vars(StateChangeTimer)
  /\ WF_vars(SwitchMode)
  /\ WF_vars(Tick)

FairSpec == Spec /\ Fairness

-----------------------------------------------------------------------------
(* Properties                                                              *)

\* The ranges of the modem's statics, its stream and its port.
TypeOK ==
  /\ proc \in {"stopped", "running", "crashed"}
  /\ state \in {"close", "open", "init_request", "ready"}
  /\ stream \in StreamOver(Message)
  /\ codec \in {"crlf", "kiss"} /\ obj \in {"none", "line", "frame"}
  /\ held \in 0 .. BufSize
  /\ kissMode \in BOOLEAN
  /\ switchIn \in {Unset} \cup 0 .. SWITCH_DELAY
  /\ sinceReopen \in 0 .. MaxWait + 1
  /\ sinceInit \in 0 .. INIT_WAIT + 1
  /\ sinceKeepalive \in {Unset} \cup 0 .. KEEPALIVE_WAIT + 1
  /\ waittime \in REOPEN_WAIT .. MaxWait
  /\ attached \in BOOLEAN
  /\ port \in {"none", "up", "hup"}
  /\ input \in Seq(Pieces)

\* A modem is closed only from its stream's state change, so that, unlike
\* the client, it never leaves a timer in the event loop that the next open
\* would zero (modem.c:108-110, xstream.h: "detach from the uloop").
ClosedMeansDetached == state = "close" => Detached(stream)

\* Why: a process that does not run has no session, and every other step
\* that closes has taken the state_change timer off the list first.
DetachInv ==
  /\ stream \in StreamOver(Message)
  /\ proc # "running" => state = "close"
  /\ ClosedMeansDetached

\* A line of text is never decoded as an AX.25 frame: kissMode, which opening
\* and closing leave alone, holds in a ready modem only with the kiss codec,
\* although the switch timer of an earlier session may fire in this one.
TextIsNotAx25 == (state = "ready" /\ kissMode) => codec = "kiss"

\* The TNC is not waited for for ever, whatever it sends instead of an answer.
InitEnds == (state = "init_request") ~> (state # "init_request")

\* A modem that was detected or not gets to KISS mode if it stays ready.
GetsToKiss == (state = "ready") ~> (state # "ready" \/ (kissMode /\ codec = "kiss"))

\* A TNC that was unplugged is noticed and its port closed, unless its stream
\* is blocked by a buffer full of one unfinished line.
UnpluggedIsClosed == (port = "hup" /\ ~Blocked) ~> (port # "hup" \/ Blocked)

\* A closed port that can be opened is opened again.
Reopens ==
  (proc = "running" /\ state = "close" /\ attached)
    ~> (state # "close" \/ ~attached)
=============================================================================
