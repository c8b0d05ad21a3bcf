----------------------------- MODULE TncConfig -----------------------------
(***************************************************************************)
(* tnc_config.c, the tool that reads the configuration of a TNC: it opens  *)
(* the serial port, asks for the parameters, then for the call data, each  *)
(* with one KISS frame, and takes the first bytes it finds for the answer. *)
(* The bytes of an answer arrive one at a time, and a radio frame that the *)
(* TNC forwards may come before it.                                        *)
(***************************************************************************)
EXTENDS KissFrame

CONSTANTS
  Settings,   \* the SettingsData a TNC may hold, as byte sequences
  CallData,   \* the CallData a TNC may hold
  Radio,      \* payloads of the radio frames it may forward, of any length
  LineSize,   \* sizeof(frame.data): bytes one read takes at most (5120)
  RespSize,   \* sizeof(resp): what a frame is decoded into (256)
  LenRange,   \* values of the uint8_t that holds a payload's length (256)
  MaxRadio    \* bound: radio frames forwarded

ParamsCmd == 13    \* KISS_CMD_CONFIG_PARAMS
CallCmd   == 12

\* sizeof(SettingsData) and sizeof(CallData), 11 and 28: every value has one
\* size, which fits the uint8_t that holds it and, with its check sum, resp.
SettingsSize == Len(CHOOSE s \in Settings : TRUE)
CallDataSize == Len(CHOOSE c \in CallData : TRUE)

ASSUME TncConfigAssumption ==
  /\ Settings # {} /\ CallData # {}
  /\ \A s \in Settings : s \in Seq(Byte) /\ Len(s) = SettingsSize
  /\ \A c \in CallData : c \in Seq(Byte) /\ Len(c) = CallDataSize
  /\ LineSize \in Nat \ {0} /\ RespSize \in Nat /\ LenRange \in Nat \ {0}
  /\ SettingsSize \in 1 .. LenRange - 1 /\ SettingsSize < RespSize
  /\ CallDataSize \in 1 .. LenRange - 1 /\ CallDataSize <= RespSize
  /\ Radio \subseteq Seq(Byte) /\ MaxRadio \in Nat

VARIABLES
  pc,        \* what the tool does next; "overrun": it wrote behind resp; "hung":
             \* it reads a line that was hung up, for ever
  settings,  \* tncData.settings, << >> until it was read
  calldata,  \* tncData.calldata
  tnc,       \* what the TNC holds: [settings, calldata]
  request,   \* the command the TNC has received and not answered, 0 for none
  sending,   \* the bytes the TNC has still to send
  arrived,   \* the bytes on the line that were not read
  forwarded, \* radio frames forwarded so far
  healthy    \* so far every answer came in time, whole and alone

tool == << pc, settings, calldata >>
wire == << tnc, request, sending, arrived, forwarded >>
tncVars == << tool, wire, healthy >>

-----------------------------------------------------------------------------
(* Decoding a frame                                                        *)

\* Faulty variant: an escaped FEND is taken for a FEND that was not escaped.
DecodeExByteNoFend(d, c) ==
  CASE c = FESC                -> [d EXCEPT !.escaped = TRUE]
    [] c = TFESC /\ d.escaped  -> [out |-> Append(d.out, FESC), escaped |-> FALSE]
    [] OTHER                   -> [out |-> Append(d.out, c), escaped |-> FALSE]

\* One byte in the loop of kiss_decode_ex.
DecodeExByte(d, c) ==
  CASE c = FESC                -> [d EXCEPT !.escaped = TRUE]
    [] c = TFESC /\ d.escaped  -> [out |-> Append(d.out, FESC), escaped |-> FALSE]
    [] c = TFEND /\ d.escaped  -> [out |-> Append(d.out, FEND), escaped |-> FALSE]
    [] OTHER                   -> [out |-> Append(d.out, c), escaped |-> FALSE]

\* That loop over bytes without a FEND, by the number of turns done.
Decoding(bytes) ==
  LET done[k \in 0 .. Len(bytes)] ==
        IF k = 0 THEN [out |-> << >>, escaped |-> FALSE] ELSE DecodeExByte(done[k - 1], bytes[k])
  IN  done

\* kiss_decode_ex: what is between the command and the first FEND, or the end
\* of what was read.  The command is not looked at.
Decoded(bytes) ==
  LET body  == SubSeq(bytes, 3, Len(bytes))
      ends  == {i \in DOMAIN body : body[i] = FEND}
      first == IF ends = {} THEN Len(body) + 1 ELSE CHOOSE i \in ends : \A j \in ends : i <= j
  IN  Decoding(SubSeq(body, 1, first - 1))[first - 1].out

Frame(bytes) == Len(bytes) >= 3 /\ bytes[1] = FEND

\* The loop does not look at the size of resp.  What the tool does once it wrote
\* behind it is undefined; here it stops.
Overruns(bytes) == Frame(bytes) /\ Len(Decoded(bytes)) > RespSize

\* The payload's length goes into a uint8_t.
Uint8(n) == n % LenRange

\* Faulty variant: the caller does not compare the length.
ResponseAnySize(bytes, size, checkcrc) ==
  LET out == Decoded(bytes)
      len == Uint8(IF checkcrc THEN Len(out) - 1 ELSE Len(out))
      crcOk == checkcrc => CalcCrc(SubSeq(out, 1, len)) = out[len + 1]
  IN  IF Frame(bytes) /\ out # << >> /\ crcOk THEN << SubSeq(out, 1, len) >> ELSE << >>

\* Faulty variant: the check sum of the parameters is not looked at.
ResponseNoCrc(bytes, size, checkcrc) ==
  LET out == Decoded(bytes)
      len == Uint8(IF checkcrc THEN Len(out) - 1 ELSE Len(out))
  IN  IF Frame(bytes) /\ out # << >> /\ len = size
      THEN << SubSeq(out, 1, len) >> ELSE << >>

\* _read_config_response of the bytes read, and the length check of its
\* caller: one payload, or none.
Response(bytes, size, checkcrc) ==
  LET out == Decoded(bytes)
      len == Uint8(IF checkcrc THEN Len(out) - 1 ELSE Len(out))
      crcOk == checkcrc => CalcCrc(SubSeq(out, 1, len)) = out[len + 1]
  IN  IF Frame(bytes) /\ out # << >> /\ crcOk /\ len = size
      THEN << SubSeq(out, 1, len) >> ELSE << >>

-----------------------------------------------------------------------------
(* The tool                                                                *)

\* main: only "read" does anything; no argument prints the usage, "write" a
\* note that it is to be done.
Main ==
  /\ pc = "main"
  /\ \E command \in {"read", "write", "none"} :
       pc' = IF command = "read" THEN "open" ELSE "exit"
  /\ UNCHANGED << settings, calldata, wire, healthy >>

\* init: the port opens, or the tool gives up.
OpenPort ==
  /\ pc = "open"
  /\ \E ok \in BOOLEAN :
       /\ pc' = IF ok THEN "askParams" ELSE "failed"
       /\ healthy' = (healthy /\ ok)
  /\ UNCHANGED << settings, calldata, wire >>

\* _read_config up to the answer.  Nothing empties the line first.  The write
\* may time out or be cut short: the TNC then gets no whole frame.
Ask(from, cmd, to) ==
  /\ pc = from
  /\ \/ pc' = to /\ request' = cmd /\ UNCHANGED healthy
     \/ pc' = "failed" /\ healthy' = FALSE /\ UNCHANGED request
  /\ UNCHANGED << settings, calldata, tnc, sending, arrived, forwarded >>

AskParams == Ask("askParams", ParamsCmd, "readParams")
AskCall == Ask("askCall", CallCmd, "readCall")

\* What read_from_serial returns: whatever is there, as far as it has room for it.
LineRead == SubSeq(arrived, 1, IF Len(arrived) < LineSize THEN Len(arrived) ELSE LineSize)

\* It returns as soon as something is there.
TakeLine ==
  /\ arrived # << >>
  /\ arrived' = SubSeq(arrived, Len(LineRead) + 1, Len(arrived))
  /\ UNCHANGED << tnc, request, sending, forwarded >>

\* What the TNC answers: the parameters with their check sum, the call data
\* without one.
Answer(cmd) ==
  IF cmd = ParamsCmd THEN Encode(cmd, Append(tnc.settings, CalcCrc(tnc.settings)))
  ELSE Encode(cmd, tnc.calldata)

ReadParams ==
  /\ pc = "readParams" /\ TakeLine
  /\ LET got == Response(LineRead, SettingsSize, TRUE)
         ok  == got # << >> /\ ~Overruns(LineRead)
     IN  /\ settings' = IF ok THEN got[1] ELSE settings
         /\ pc' = IF Overruns(LineRead) THEN "overrun" ELSE IF ok THEN "askCall" ELSE "failed"
  /\ healthy' = (healthy /\ LineRead = Answer(ParamsCmd))
  /\ UNCHANGED calldata

ReadCall ==
  /\ pc = "readCall" /\ TakeLine
  /\ LET got == Response(LineRead, CallDataSize, FALSE)
         ok  == got # << >> /\ ~Overruns(LineRead)
     IN  /\ calldata' = IF ok THEN got[1] ELSE calldata
         /\ pc' = IF Overruns(LineRead) THEN "overrun" ELSE IF ok THEN "done" ELSE "failed"
  /\ healthy' = (healthy /\ LineRead = Answer(CallCmd))
  /\ UNCHANGED settings

\* Two seconds without a byte.  If the line is hung up, select calls it readable
\* and read returns nothing, again and again.
ReadTimesOut ==
  /\ pc \in {"readParams", "readCall"} /\ arrived = << >>
  /\ pc' \in {"failed", "hung"} /\ healthy' = FALSE
  /\ UNCHANGED << settings, calldata, wire >>

-----------------------------------------------------------------------------
(* The TNC                                                                 *)

\* It answers the request behind what it is already sending.
Reply ==
  /\ request # 0
  /\ sending' = sending \o Answer(request)
  /\ request' = 0
  /\ UNCHANGED << tool, tnc, arrived, forwarded, healthy >>

\* It forwards a frame from the radio, also one heard before the port was open.
Forward ==
  /\ forwarded < MaxRadio /\ pc \notin {"done", "failed", "exit", "overrun", "hung"}
  /\ \E p \in Radio : sending' = sending \o Encode(0, p)
  /\ forwarded' = forwarded + 1
  /\ UNCHANGED << tool, tnc, request, arrived, healthy >>

\* A byte gets across.
Arrive ==
  /\ sending # << >>
  /\ arrived' = Append(arrived, Head(sending))
  /\ sending' = Tail(sending)
  /\ UNCHANGED << tool, tnc, request, forwarded, healthy >>

TncInit ==
  /\ pc = "main"
  /\ settings = << >> /\ calldata = << >>
  /\ tnc \in [settings : Settings, calldata : CallData]
  /\ request = 0
  /\ sending = << >> /\ arrived = << >>
  /\ forwarded = 0
  /\ healthy = TRUE

Tool == Main \/ OpenPort \/ AskParams \/ AskCall \/ ReadParams \/ ReadCall \/ ReadTimesOut
Tnc == Reply \/ Forward \/ Arrive
TncNext == Tool \/ Tnc

TncSpec == TncInit /\ [][TncNext]_tncVars

-----------------------------------------------------------------------------
(* Properties                                                              *)

\* What is kept of an answer has the size of the struct it is copied to, and
\* call data is there only when the tool ended well.
TncTypeOK ==
  /\ pc \in {"main", "open", "askParams", "readParams", "askCall", "readCall",
             "done", "failed", "exit", "overrun", "hung"}
  /\ settings # << >> => Len(settings) = SettingsSize
  /\ calldata # << >> => pc = "done" /\ Len(calldata) = CallDataSize
  /\ tnc \in [settings : Settings, calldata : CallData]
  /\ request \in {0, ParamsCmd, CallCmd}
  /\ sending \in Seq(Byte) /\ arrived \in Seq(Byte)
  /\ forwarded \in 0 .. MaxRadio
  /\ healthy \in BOOLEAN

\* A payload that passes for parameters where it is cut behind its check sum.  The
\* sum has eight bits, and the tool looks at nothing else, not at the command.
PassesForSettings(p) ==
  Len(p) > SettingsSize /\ CalcCrc(SubSeq(p, 1, SettingsSize)) = p[SettingsSize + 1]

\* tnc_config.c says "TNC params read OK" (:397) only of what one frame held: of the
\* parameters of the TNC, or of what the radio heard and passes for parameters, and
\* never of a part of an answer, of two frames joined, or of bytes an escape or the
\* length in eight bits made up; and it overruns resp there only for a payload
\* from the radio that is longer than resp, never for two frames or an answer.
SettingsOfOneFrame ==
  /\ settings # << >> =>
       \/ settings = tnc.settings
       \/ \E p \in Radio : PassesForSettings(p) /\ settings = SubSeq(p, 1, SettingsSize)
  /\ pc = "overrun" /\ settings = << >> => \E p \in Radio : Len(p) > RespSize

\* An exchange in which every answer came in time, whole and alone succeeds,
\* with what the TNC holds, whichever of its bytes had to be escaped.
HealthyExchangeSucceeds ==
  healthy /\ pc \in {"done", "failed", "overrun", "hung"} =>
    pc = "done" /\ settings = tnc.settings /\ calldata = tnc.calldata
=============================================================================
