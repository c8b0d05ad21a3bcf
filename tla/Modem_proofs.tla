---------------------------- MODULE Modem_proofs ----------------------------
(***************************************************************************)
(* Theorems about the modem session, for every value of its constants: a   *)
(* closed modem leaves nothing in the event loop, and text is never taken  *)
(* for an AX.25 frame.                                                     *)
(***************************************************************************)
EXTENDS Modem, Lemmas

LEMMA InitDetached == Init => DetachInv
BY FreshStreamType DEF Init, DetachInv, ClosedMeansDetached, Detached, ZeroStream, FreshStream

\* Opening leaves a stream of its own or, failing, the one it found.
LEMMA OpenDetached ==
  ASSUME stream \in StreamOver(Message), ClosedMeansDetached, state = "close", Open
  PROVE  stream' \in StreamOver(Message) /\ ClosedMeansDetached'
<1>1. CASE OpenFails
  BY <1>1 DEF OpenFails, ClosedMeansDetached
<1>2. CASE OpenSucceeds
  <2> PICK w \in Write(FreshStream, "query", TRUE, TRUE) :
           /\ stream' = w.stream
           /\ state' = IF w.stream.writeError THEN "open" ELSE "init_request"
    BY <1>2 DEF OpenSucceeds
  <2>1. w.stream \in StreamOver(Message)
    BY FreshStreamType, WriteType DEF Message
  <2>2. state' # "close"
    BY Zenon
  <2> QED BY <2>1, <2>2 DEF ClosedMeansDetached
<1> QED BY <1>1, <1>2 DEF Open

\* xstream_free of a stream without a state_change timer detaches it.
LEMMA CloseDetached ==
  ASSUME stream \in StreamOver(Message), Close(StateChanged(stream))
  PROVE  stream' \in StreamOver(Message) /\ ClosedMeansDetached'
<1>1. StateChanged(stream) \in StreamOver(Message) /\ StateChanged(stream).stateChange = FALSE
  BY StreamStepType DEF StreamOver, StateChanged
<1>2. ASSUME NEW s \in StreamOver(Message), s.stateChange = FALSE
      PROVE  Detached(XstreamFree(s))
  BY <1>2 DEF StreamOver, XstreamFree, Detached
<1>3. XstreamFree(StateChanged(stream)) \in StreamOver(Message)
  BY <1>1, StreamStepType
<1> QED BY <1>1, <1>2, <1>3 DEF Close, ClosedMeansDetached

LEMMA TimerDetached == DetachInv /\ TimerRun => DetachInv'
<1> SUFFICES ASSUME DetachInv, TimerRun PROVE DetachInv'
  OBVIOUS
<1>1. CASE TimerReopens
  BY <1>1, OpenDetached DEF TimerReopens, DetachInv
<1>2. CASE TimerInitTimeout
  BY <1>2 DEF TimerInitTimeout, DetachInv, ClosedMeansDetached
<1>3. CASE TimerReady
  <2>1. stream' \in StreamOver(Message)
    <3>1. CASE UNCHANGED stream
      BY <3>1 DEF DetachInv
    <3>2. CASE \E w \in Write(stream, "keepalive", TRUE, port = "hup") : stream' = w.stream
      <4> PICK w \in Write(stream, "keepalive", TRUE, port = "hup") : stream' = w.stream
        BY <3>2
      <4> QED BY WriteType DEF DetachInv, Message
    <3> QED BY <1>3, <3>1, <3>2 DEF TimerReady, SendKeepalive
  <2> QED BY <1>3, <2>1 DEF TimerReady, DetachInv, ClosedMeansDetached
<1> QED BY <1>1, <1>2, <1>3 DEF TimerRun

\* Input changes neither the process nor, except for its place in the event
\* loop, the stream, and never closes the modem.
LEMMA ReadDetached ==
  ASSUME DetachInv, Read
  PROVE  DetachInv'
<1>1. state # "close" /\ proc = "running"
  BY DEF Read
<1>2. PICK piece : ReadLine(piece) \/ ReadPart(piece) \/ ReadKiss(piece) \/ ReadKissAstray
  BY DEF Read
<1>3. ASSUME NEW maybe, Received(maybe) PROVE state' # "close"
  BY <1>1, <1>3 DEF Received, Identify
<1>4. proc' = proc /\ state' # "close"
  BY <1>1, <1>2, <1>3 DEF ReadLine, ReadPart, ReadKiss, ReadKissAstray
<1>5. stream' = stream \/ stream' = [stream EXCEPT !.registered = FALSE]
  BY <1>2 DEF ReadLine, ReadPart, ReadKiss, ReadKissAstray
<1>6. stream' \in StreamOver(Message)
  BY <1>5 DEF DetachInv, StreamOver
<1> QED BY <1>1, <1>4, <1>6 DEF DetachInv, ClosedMeansDetached

LEMMA WriteDetached ==
  ASSUME DetachInv, WriteReady
  PROVE  DetachInv'
<1> PICK w \in Flush(stream, port = "hup") : stream' = Polled(w.stream)
  BY DEF WriteReady
<1>1. w.stream \in StreamOver(Message)
  BY FlushType DEF DetachInv
<1>2. stream' \in StreamOver(Message)
  BY <1>1 DEF StreamOver, Polled
<1> QED BY <1>2 DEF WriteReady, DetachInv, ClosedMeansDetached

LEMMA StepDetached == DetachInv /\ [Next]_vars => DetachInv'
<1> SUFFICES ASSUME DetachInv, [Next]_vars PROVE DetachInv'
  OBVIOUS
<1>1. CASE StartModem
  BY <1>1, OpenDetached DEF StartModem, DetachInv
<1>2. CASE TimerRun
  BY <1>2, TimerDetached
<1>3. CASE Read
  BY <1>3, ReadDetached
<1>4. CASE ReadCrashes
  BY <1>4, FreshStreamType
     DEF ReadCrashes, Crash, DetachInv, ClosedMeansDetached, Detached, ZeroStream, FreshStream
<1>5. CASE ReadEnd
  <2> PICK hup \in BOOLEAN : stream' = ReadEof(stream, hup)
    BY <1>5 DEF ReadEnd
  <2>1. stream' \in StreamOver(Message)
    BY StreamStepType DEF DetachInv
  <2> QED BY <1>5, <2>1 DEF ReadEnd, DetachInv, ClosedMeansDetached
<1>6. CASE WriteReady
  BY <1>6, WriteDetached
<1>7. CASE StateChangeTimer
  BY <1>7, CloseDetached DEF StateChangeTimer, DetachInv, Close
<1>8. CASE SwitchMode
  BY <1>8 DEF SwitchMode, DetachInv, ClosedMeansDetached
<1>9. CASE Tick \/ Unplug \/ Plug \/ \E piece \in Pieces : TncSends(piece)
  BY <1>9 DEF Tick, Unplug, Plug, TncSends, DetachInv, ClosedMeansDetached
<1>10. CASE UNCHANGED vars
  BY <1>10 DEF vars, DetachInv, ClosedMeansDetached
<1> QED BY <1>1, <1>2, <1>3, <1>4, <1>5, <1>6, <1>7, <1>8, <1>9, <1>10 DEF Next

\* A closed modem has no descriptor and no state_change timer in the event
\* loop: whatever ended its session, on_stream_error ran after the timer that
\* announced the end (modem.c:108-110, :143-157).
THEOREM ClosedIsDetached == Spec => []ClosedMeansDetached
<1>1. DetachInv => ClosedMeansDetached
  BY DEF DetachInv
<1> QED BY <1>1, InitDetached, StepDetached, PTL DEF Spec

-----------------------------------------------------------------------------

LEMMA StepTextIsNotAx25 == TextIsNotAx25 /\ [Next]_vars => TextIsNotAx25'
<1> SUFFICES ASSUME TextIsNotAx25, [Next]_vars PROVE TextIsNotAx25'
  OBVIOUS
<1>2. ASSUME OpenFails PROVE state' # "ready"
  BY <1>2 DEF OpenFails
<1>3. ASSUME OpenSucceeds PROVE state' # "ready"
  BY <1>3, Zenon DEF OpenSucceeds
<1>4. CASE StartModem \/ TimerReopens
  BY <1>2, <1>3, <1>4 DEF StartModem, TimerReopens, Open, TextIsNotAx25
<1>5. CASE TimerInitTimeout \/ SwitchMode
  BY <1>5 DEF TimerInitTimeout, SwitchMode, TextIsNotAx25
<1>6. CASE Read
  <2>1. PICK piece : ReadLine(piece) \/ ReadPart(piece) \/ ReadKiss(piece) \/ ReadKissAstray
    BY <1>6 DEF Read
  <2>2. ASSUME NEW maybe, Received(maybe) PROVE kissMode' = FALSE \/ UNCHANGED << state, kissMode >>
    BY <2>2 DEF Received, Identify
  <2>3. kissMode' = FALSE \/ UNCHANGED << state, kissMode >>
    BY <2>1, <2>2 DEF ReadLine, ReadPart, ReadKiss, ReadKissAstray
  <2> QED BY <1>6, <2>3 DEF Read, TextIsNotAx25
<1>7. CASE ReadCrashes \/ StateChangeTimer
  BY <1>7 DEF ReadCrashes, Crash, StateChangeTimer, Close, TextIsNotAx25
<1>8. CASE TimerReady \/ ReadEnd \/ WriteReady
  BY <1>8 DEF TimerReady, ReadEnd, WriteReady, codecvars, TextIsNotAx25
<1>9. CASE Tick \/ Unplug \/ Plug \/ \E piece \in Pieces : TncSends(piece)
  BY <1>9 DEF Tick, Unplug, Plug, TncSends, codecvars, TextIsNotAx25
<1>10. CASE UNCHANGED vars
  BY <1>10 DEF vars, codecvars, TextIsNotAx25
<1> QED BY <1>4, <1>5, <1>6, <1>7, <1>8, <1>9, <1>10 DEF Next, TimerRun

\* In a ready modem kissMode implies the kiss codec, whichever session the
\* switch timer or kissMode itself was left over from (modem.c:159-167).
THEOREM TextStaysText == Spec => []TextIsNotAx25
<1>1. Init => TextIsNotAx25
  BY DEF Init, TextIsNotAx25
<1> QED BY <1>1, StepTextIsNotAx25, PTL DEF Spec

-----------------------------------------------------------------------------

\* The types without the stream's, which DetachInv gives.
ModesTyped ==
  /\ proc \in {"stopped", "running", "crashed"}
  /\ state \in {"close", "open", "init_request", "ready"}
  /\ codec \in {"crlf", "kiss"} /\ obj \in {"none", "line", "frame"}
  /\ held \in 0 .. BufSize
  /\ kissMode \in BOOLEAN

ClocksTyped ==
  /\ switchIn \in {Unset} \cup 0 .. SWITCH_DELAY
  /\ sinceReopen \in 0 .. MaxWait + 1
  /\ sinceInit \in 0 .. INIT_WAIT + 1
  /\ sinceKeepalive \in {Unset} \cup 0 .. KEEPALIVE_WAIT + 1
  /\ waittime \in REOPEN_WAIT .. MaxWait

LineTyped ==
  /\ attached \in BOOLEAN
  /\ port \in {"none", "up", "hup"}
  /\ input \in Seq(Pieces)

TypeInv == ModesTyped /\ ClocksTyped /\ LineTyped

LEMMA Zeros ==
  /\ 0 \in 0 .. BufSize /\ 0 \in 0 .. MaxWait + 1 /\ 0 \in 0 .. INIT_WAIT + 1
  /\ 0 \in 0 .. KEEPALIVE_WAIT + 1 /\ 0 \in 0 .. SWITCH_DELAY
  /\ REOPEN_WAIT \in REOPEN_WAIT .. MaxWait /\ SWITCH_DELAY \in 0 .. SWITCH_DELAY
BY ModemAssumption

LEMMA InitTyped == Init => TypeInv
<1> SUFFICES ASSUME Init PROVE TypeInv
  OBVIOUS
<1>1. ModesTyped
  BY Zeros DEF Init, ModesTyped
<1>2. ClocksTyped
  BY Zeros DEF Init, ClocksTyped
<1>3. LineTyped
  BY DEF Init, LineTyped
<1> QED BY <1>1, <1>2, <1>3 DEF TypeInv

\* Opening; the delay and the switch timer are the caller's.
LEMMA OpenTyped ==
  ASSUME TypeInv, Open
  PROVE  /\ state' \in {"close", "open", "init_request", "ready"}
         /\ codec' \in {"crlf", "kiss"} /\ obj' \in {"none", "line", "frame"}
         /\ held' \in 0 .. BufSize
         /\ sinceReopen' \in 0 .. MaxWait + 1 /\ sinceInit' \in 0 .. INIT_WAIT + 1
         /\ sinceKeepalive' \in {Unset} \cup 0 .. KEEPALIVE_WAIT + 1
         /\ LineTyped'
<1>1. sinceReopen' = 0
  BY DEF Open
<1>2. CASE OpenFails
  BY <1>1, <1>2, Zeros
     DEF OpenFails, TypeInv, ModesTyped, ClocksTyped, LineTyped, codecvars, line
<1>3. CASE OpenSucceeds
  <2>1. PICK w \in Write(FreshStream, "query", TRUE, TRUE) :
          /\ state' = IF w.stream.writeError THEN "open" ELSE "init_request"
          /\ attached' = ~w.stream.writeError
          /\ port' = IF w.stream.writeError THEN "hup" ELSE "up"
    BY <1>3 DEF OpenSucceeds
  <2>2. attached' \in BOOLEAN
    BY <2>1
  <2>3. state' \in {"close", "open", "init_request", "ready"} /\ port' \in {"none", "up", "hup"}
    <3>1. CASE w.stream.writeError
      BY <2>1, <3>1
    <3>2. CASE ~w.stream.writeError
      BY <2>1, <3>2
    <3> QED BY <3>1, <3>2
  <2>4. /\ codec' = "crlf" /\ obj' = "none" /\ held' = 0 /\ input' = << >>
        /\ sinceInit' = 0 /\ sinceKeepalive' = Unset
    BY <1>3 DEF OpenSucceeds
  <2> QED BY <1>1, <2>2, <2>3, <2>4, Zeros DEF LineTyped
<1> QED BY <1>2, <1>3 DEF Open

LEMMA TimerTyped == TypeInv /\ TimerRun => TypeInv'
<1> SUFFICES ASSUME TypeInv, TimerRun PROVE TypeInv'
  OBVIOUS
<1>1. CASE TimerReopens
  <2>1. waittime' \in REOPEN_WAIT .. MaxWait
    <3>1. waittime' = AtMost(waittime + REOPEN_STEP, MaxWait)
      BY <1>1 DEF TimerReopens
    <3> QED BY <3>1, ModemAssumption DEF AtMost, TypeInv, ClocksTyped
  <2>2. proc' = proc /\ kissMode' = kissMode /\ switchIn' = switchIn /\ Open
    BY <1>1 DEF TimerReopens
  <2> QED BY <2>1, <2>2, OpenTyped DEF TypeInv, ModesTyped, ClocksTyped
<1>2. CASE TimerInitTimeout
  BY <1>2 DEF TimerInitTimeout, TypeInv, ModesTyped, ClocksTyped, LineTyped, ages, line
<1>3. CASE TimerReady
  <2>1. sinceKeepalive' \in {sinceKeepalive, 0}
    BY <1>3 DEF TimerReady
  <2> QED BY <1>3, <2>1, Zeros
          DEF TimerReady, TypeInv, ModesTyped, ClocksTyped, LineTyped, codecvars, line
<1> QED BY <1>1, <1>2, <1>3 DEF TimerRun

LEMMA ReadTyped == TypeInv /\ Read => TypeInv'
<1> SUFFICES ASSUME TypeInv, Read PROVE TypeInv'
  OBVIOUS
<1>1. Head(input) \in Pieces /\ input' \in Seq(Pieces)
  BY DEF Read, TypeInv, LineTyped
<1>2. PICK piece \in Pieces : ReadLine(piece) \/ ReadPart(piece) \/ ReadKiss(piece) \/ ReadKissAstray
  BY <1>1 DEF Read
<1>3. ASSUME NEW maybe, Received(maybe)
      PROVE  /\ state' \in {"close", "open", "init_request", "ready"} /\ kissMode' \in BOOLEAN
             /\ switchIn' \in {Unset} \cup 0 .. SWITCH_DELAY
  BY <1>3, Zeros DEF Received, Identify, TypeInv, ModesTyped, ClocksTyped
<1>4. /\ state' \in {"close", "open", "init_request", "ready"} /\ kissMode' \in BOOLEAN
      /\ switchIn' \in {Unset} \cup 0 .. SWITCH_DELAY
  BY <1>2, <1>3 DEF ReadLine, ReadPart, ReadKiss, ReadKissAstray, TypeInv, ModesTyped, ClocksTyped
<1>5. held' \in 0 .. BufSize
  <2>1. held' \in {0, held, held + 1}
    BY <1>2 DEF ReadLine, ReadPart, ReadKiss, ReadKissAstray
  <2>2. held # BufSize /\ held \in 0 .. BufSize
    BY DEF Read, Blocked, TypeInv, ModesTyped
  <2> QED BY <2>1, <2>2, ModemAssumption
<1>6. obj' \in {"none", "line", "frame"} /\ proc' = proc
  BY <1>2 DEF ReadLine, ReadPart, ReadKiss, ReadKissAstray
<1> QED BY <1>1, <1>4, <1>5, <1>6 DEF Read, TypeInv, ModesTyped, ClocksTyped, LineTyped, ages

LEMMA TickTyped == TypeInv /\ Tick => TypeInv'
<1> SUFFICES ASSUME TypeInv, Tick PROVE TypeInv'
  OBVIOUS
<1>1. ASSUME NEW limit \in Nat, NEW age \in {Unset} \cup 0 .. limit + 1
      PROVE  /\ Older(age, limit) \in {Unset} \cup 0 .. limit + 1
             /\ age # Unset => Older(age, limit) # Unset
  BY DEF Older, AtMost, Unset
<1>2. /\ sinceReopen' = Older(sinceReopen, MaxWait) /\ sinceInit' = Older(sinceInit, INIT_WAIT)
      /\ sinceKeepalive' = Older(sinceKeepalive, KEEPALIVE_WAIT)
      /\ switchIn' = IF switchIn > 0 THEN switchIn - 1 ELSE switchIn
  BY DEF Tick
<1>3. sinceReopen # Unset /\ sinceInit # Unset
  BY ModemAssumption DEF TypeInv, ClocksTyped, Unset
<1>4. sinceReopen' \in 0 .. MaxWait + 1
  BY <1>1, <1>2, <1>3, ModemAssumption DEF TypeInv, ClocksTyped
<1>5. sinceInit' \in 0 .. INIT_WAIT + 1
  BY <1>1, <1>2, <1>3, ModemAssumption DEF TypeInv, ClocksTyped
<1>6. sinceKeepalive' \in {Unset} \cup 0 .. KEEPALIVE_WAIT + 1
  BY <1>1, <1>2, ModemAssumption DEF TypeInv, ClocksTyped
<1>7. switchIn' \in {Unset} \cup 0 .. SWITCH_DELAY
  BY <1>2, ModemAssumption DEF TypeInv, ClocksTyped, Unset
<1> QED BY <1>4, <1>5, <1>6, <1>7
        DEF Tick, TypeInv, ModesTyped, ClocksTyped, LineTyped, codecvars, line

LEMMA StepTyped == TypeInv /\ [Next]_vars => TypeInv'
<1> SUFFICES ASSUME TypeInv, [Next]_vars PROVE TypeInv'
  OBVIOUS
<1>1. CASE StartModem
  <2>1. proc' = "running" /\ UNCHANGED << kissMode, switchIn, waittime >> /\ Open
    BY <1>1 DEF StartModem
  <2> QED BY <2>1, OpenTyped DEF TypeInv, ModesTyped, ClocksTyped
<1>2. CASE TimerRun
  BY <1>2, TimerTyped
<1>3. CASE Read
  BY <1>3, ReadTyped
<1>4. CASE ReadCrashes
  <2>1. ModesTyped'
    BY <1>4, Zeros DEF ReadCrashes, Crash, ModesTyped
  <2>2. ClocksTyped'
    BY <1>4, Zeros DEF ReadCrashes, Crash, ClocksTyped
  <2>3. LineTyped'
    BY <1>4 DEF ReadCrashes, Crash, TypeInv, LineTyped
  <2> QED BY <2>1, <2>2, <2>3 DEF TypeInv
<1>5. CASE ReadEnd \/ WriteReady
  BY <1>5 DEF ReadEnd, WriteReady, TypeInv, ModesTyped, ClocksTyped, LineTyped, codecvars, ages, line
<1>6. CASE StateChangeTimer
  BY <1>6 DEF StateChangeTimer, Close, TypeInv, ModesTyped, ClocksTyped, LineTyped, codecvars, ages
<1>7. CASE SwitchMode
  BY <1>7 DEF SwitchMode, TypeInv, ModesTyped, ClocksTyped, LineTyped, ages, line
<1>8. CASE Tick
  BY <1>8, TickTyped
<1>9. CASE Unplug \/ Plug
  <2>1. ModesTyped' /\ ClocksTyped'
    BY <1>9 DEF Unplug, Plug, TypeInv, ModesTyped, ClocksTyped, codecvars, ages
  <2>2. attached' \in BOOLEAN /\ input' \in Seq(Pieces)
    <3>1. attached' = FALSE \/ attached' = TRUE
      BY <1>9, Zenon DEF Unplug, Plug
    <3>2. input' = << >> \/ input' = input
      BY <1>9, Zenon DEF Unplug, Plug
    <3>3. input' \in Seq(Pieces)
      <4>1. << >> \in Seq(Pieces)
        OBVIOUS
      <4>2. input \in Seq(Pieces)
        BY DEF TypeInv, LineTyped
      <4> QED BY <3>2, <4>1, <4>2, Zenon
    <3>4. attached' \in BOOLEAN
      BY <3>1, Zenon
    <3> QED BY <3>3, <3>4
  <2>3. port' = port \/ port' = "hup"
    BY <1>9 DEF Unplug, Plug
  <2>4. LineTyped'
    BY <2>2, <2>3 DEF TypeInv, LineTyped
  <2> QED BY <2>1, <2>4 DEF TypeInv
<1>10. ASSUME NEW piece \in Pieces, TncSends(piece) PROVE TypeInv'
  BY <1>10 DEF TncSends, TypeInv, ModesTyped, ClocksTyped, LineTyped, codecvars, ages
<1>11. CASE UNCHANGED vars
  BY <1>11 DEF vars, TypeInv, ModesTyped, ClocksTyped, LineTyped, codecvars, ages, line
<1> QED BY <1>1, <1>2, <1>3, <1>4, <1>5, <1>6, <1>7, <1>8, <1>9, <1>10, <1>11 DEF Next

\* The modem's statics stay in their ranges, the pending pieces in the read
\* buffer among them, which only a stream that is not blocked adds to.
THEOREM TypeCorrect == Spec => []TypeOK
<1>1. DetachInv /\ TypeInv => TypeOK
  BY DEF DetachInv, TypeInv, ModesTyped, ClocksTyped, LineTyped, TypeOK
<1> QED BY <1>1, InitDetached, StepDetached, InitTyped, StepTyped, PTL DEF Spec
=============================================================================
