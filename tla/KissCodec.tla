----------------------------- MODULE KissCodec -----------------------------
(***************************************************************************)
(* kiss_codec.c: how the daemon finds KISS frames in what the TNC sends.   *)
(* The encoder of tnc_config.c stands for the TNC's own.                   *)
(*                                                                         *)
(* One step takes one byte.  The bytes of one read are decoded in a row,   *)
(* but a read may end anywhere, so between any two bytes the receive timer *)
(* may fire: one second after the FEND that opened the frame.              *)
(***************************************************************************)
EXTENDS KissFrame

CONSTANTS
  Frames,  \* what the TNC may send: [cmd, payload, crcOk]
  MaxData  \* dataSizeMax: bytes the frame buffer holds (512)

ASSUME KissAssumption ==
  /\ Frames \subseteq [cmd : 0 .. 15, payload : Seq(Byte), crcOk : BOOLEAN]
  /\ MaxData \in Nat \ {0}

VARIABLES
  sent,    \* the frame the TNC sent last
  line,    \* those of its bytes that were not decoded yet
  frame,   \* _framebuf: state, cmd, data, crc, escape
  filled,  \* dataLen as the last byte left it for the check of the room
  timer,   \* the receive timer is pending
  handed,  \* what the last byte decoded handed to on_read_cb: nothing or one frame
  inSync,  \* sent's first byte found the decoder idle, nothing reset it since
  calm     \* frames begun since the decoder last gave one up, 2 for more

vars == << sent, line, frame, filled, timer, handed, inSync, calm >>

-----------------------------------------------------------------------------
(* The TNC's frames                                                        *)

\* A data frame is its payload, any other frame ends with a CRC.
Body(f) ==
  IF f.cmd = 0 THEN f.payload
  ELSE Append(f.payload, IF f.crcOk THEN CalcCrc(f.payload) ELSE (CalcCrc(f.payload) + 1) % 256)

\* The bytes of frame f on the line.
OnLine(f) == Encode(f.cmd, Body(f))

-----------------------------------------------------------------------------
(* kiss_codec.c                                                            *)

\* kiss_reset; the receive timer is cancelled with it.
ResetFrame == [state |-> "idle", cmd |-> 0, data |-> << >>, crc |-> 0, escape |-> FALSE]

\* calculate the crc: after every byte, also after one that stored nothing.
WithCrc(f) ==
  IF f.data = << >> THEN f ELSE [f EXCEPT !.crc = (@ + Last(f.data)) % 256]

\* A byte goes into the buffer, whether there is room for it or not.
Stored(f, c) == [f EXCEPT !.data = Append(@, c)]

\* Faulty variant: the buffer check comes another byte late.
CheckedLate(f) == IF Len(f.data) > MaxData + 1 THEN ResetFrame ELSE WithCrc(f)

\* finally check buffer overflow: a frame with one byte more than there is room
\* for is given up.  That byte was written behind the buffer by then.
Checked(f) == IF Len(f.data) > MaxData THEN ResetFrame ELSE WithCrc(f)

\* STATE_IDLE: anything but a FEND is ignored, and a FEND starts a frame.
InIdle(c) ==
  /\ frame.state = "idle"
  /\ frame' = IF c = FEND THEN [ResetFrame EXCEPT !.state = "head"] ELSE frame
  /\ timer' = (timer \/ c = FEND)
  /\ filled' = 0
  /\ handed' = << >>

\* STATE_FRAME_HEAD: any byte, a FEND too, is the command (and the port).
InHead(c) ==
  /\ frame.state = "head"
  /\ frame' = [frame EXCEPT !.state = "body", !.cmd = c % 16]
  /\ filled' = 0
  /\ handed' = << >>
  /\ UNCHANGED timer

\* A data frame is taken as it is, any other only with the sum of its bytes,
\* the CRC included, 0xff.
Acceptable == frame.cmd = 0 \/ frame.crc = 255

\* Faulty variant: the FEND that ends a frame also begins the next one.
BodyEndBegins(c) ==
  /\ frame.state = "body" /\ c = FEND
  /\ filled' = 0
  /\ frame' = [ResetFrame EXCEPT !.state = "head"]
  /\ timer' = TRUE
  /\ handed' = IF Acceptable THEN << frame.data >> ELSE << >>

\* Faulty variant: the crc of a frame is not looked at.
BodyEndNoCrc(c) ==
  /\ frame.state = "body" /\ c = FEND
  /\ filled' = 0
  /\ frame' = ResetFrame
  /\ timer' = FALSE
  /\ handed' = << frame.data >>

\* Faulty variant: a frame that is handed over leaves its timer pending.
BodyEndKeepsTimer(c) ==
  /\ frame.state = "body" /\ c = FEND
  /\ filled' = 0
  /\ frame' = ResetFrame
  /\ timer' = (timer /\ Acceptable)
  /\ handed' = IF Acceptable THEN << frame.data >> ELSE << >>

\* STATE_FRAME_BODY, FEND.  The buffer of a frame handed over is cleared by
\* the next call of kiss_decode, before it looks at a byte.
BodyEnd(c) ==
  /\ frame.state = "body" /\ c = FEND
  /\ filled' = 0
  /\ frame' = ResetFrame
  /\ timer' = FALSE
  /\ handed' = IF Acceptable THEN << frame.data >> ELSE << >>

\* STATE_FRAME_BODY, any other byte c: the frame that is then checked.
Taken(c) ==
  CASE c = FESC                  -> [frame EXCEPT !.escape = TRUE]
    [] c = TFESC /\ frame.escape -> Stored([frame EXCEPT !.escape = FALSE], FESC)
    [] c = TFEND /\ frame.escape -> Stored([frame EXCEPT !.escape = FALSE], FEND)
    [] OTHER                     -> Stored(frame, c)

InBody(c) ==
  /\ frame.state = "body" /\ c # FEND
  /\ frame' = Checked(Taken(c))
  /\ filled' = Len(Taken(c).data)
  /\ timer' = (timer /\ frame'.state = "body")
  /\ handed' = << >>

\* Part of sent was decoded, part of it was not.
MidFrame == line # << >> /\ line # OnLine(sent)

\* The decoder gives up a frame that still has bytes to come.
GivesUp == frame.state = "body" /\ frame'.state = "idle" /\ Len(line) > 1

DecodeByte ==
  /\ line # << >>
  /\ line' = Tail(line)
  /\ LET c == Head(line) IN InIdle(c) \/ InHead(c) \/ BodyEnd(c) \/ InBody(c)
  /\ inSync' = IF MidFrame THEN inSync /\ ~GivesUp ELSE frame.state = "idle"
  /\ calm' = CASE GivesUp              -> 0
               [] ~GivesUp /\ MidFrame -> calm
               [] OTHER                -> IF calm = 0 THEN 1 ELSE 2
  /\ UNCHANGED sent

\* kiss_decode_timeout
DecodeTimeout ==
  /\ timer
  /\ timer' = FALSE
  /\ frame' = ResetFrame
  /\ filled' = 0
  /\ handed' = << >>
  /\ inSync' = (inSync /\ ~MidFrame)
  /\ calm' = IF MidFrame THEN 0 ELSE calm
  /\ UNCHANGED << sent, line >>

\* The TNC sends its next frame.  The decoder takes the bytes in order, so it
\* is the same to it whether the frame before was decoded already.
TncSends(f) ==
  /\ line = << >>
  /\ sent' = f
  /\ line' = OnLine(f)
  /\ filled' = 0 /\ handed' = << >>
  /\ UNCHANGED << frame, timer, inSync, calm >>

\* The port is opened while the TNC sends or not, anywhere in a frame.
Init ==
  /\ sent \in Frames
  /\ line \in {SubSeq(OnLine(sent), k, Len(OnLine(sent))) : k \in 2 .. Len(OnLine(sent)) + 1}
  /\ frame = ResetFrame
  /\ filled = 0
  /\ timer = FALSE
  /\ handed = << >>
  /\ inSync = FALSE
  /\ calm = IF line = << >> THEN 1 ELSE 0

Next ==
  \/ DecodeByte
  \/ DecodeTimeout
  \/ \E f \in Frames : TncSends(f)

Spec == Init /\ [][Next]_vars

-----------------------------------------------------------------------------
(* Properties                                                              *)

\* Room: between two bytes the frame buffer never holds more than it has room
\* for (kiss_codec.c:125).  The check comes after the byte was stored (:115-121),
\* so that one byte, never two, may go behind the buffer; and however frames are
\* cut and misread, only one that is as long on the line as the buffer and the
\* three bytes around a payload can do it.
Room ==
  /\ Len(frame.data) <= MaxData /\ filled <= MaxData + 1
  /\ filled > MaxData => frame = ResetFrame /\ Len(OnLine(sent)) >= MaxData + 3

\* The types, and the room of the frame buffer.
TypeOK ==
  /\ sent \in Frames
  /\ line \in Seq(Byte)
  /\ frame \in [state : {"idle", "head", "body"}, cmd : 0 .. 15, data : Seq(Byte),
                crc : Byte, escape : BOOLEAN]
  /\ filled \in Nat /\ Room
  /\ timer \in BOOLEAN
  /\ handed \in Seq(Seq(Byte)) /\ Len(handed) <= 1
  /\ inSync \in BOOLEAN
  /\ calm \in 0 .. 2

\* An unfinished frame is always watched by the timer, so that the decoder
\* never waits for ever in the middle of one; and a timer never outlives its
\* frame, so that it cannot cut off a later one (kiss_codec.c:80, :107, :46-48).
TimerWatchesFrame == timer <=> frame.state # "idle"

\* After a disturbance (the port opened in the middle of a frame, a timeout in
\* one, a frame too long) at most one frame is misread before the decoder is
\* again in step with the frames on the line, although a single FEND put it
\* in the head state and the next one is then taken for a command.
ResyncAfterOneFrame == (calm = 2 /\ MidFrame) => inSync

\* Why: a decoder that did not give up since the last frame began is idle
\* between frames, and in a frame where its bytes say, unless that frame is
\* the first and its opening FEND was taken for a command.
CalmInv ==
  calm > 0 =>
    IF ~MidFrame THEN frame.state = "idle"
    ELSE IF inSync
    THEN frame.state = IF Len(OnLine(sent)) - Len(line) = 1 THEN "head" ELSE "body"
    ELSE frame.state = "body" /\ calm = 1

\* The last byte of the frame on the line is decoded in this step.
Completes == Len(line) = 1 /\ line' = << >>

\* A frame decoded in step with the line is handed over whole and unchanged or
\* not at all: a data frame always; a control frame whose bytes need no escape
\* if and only if its CRC is right; any other control frame as its sum turns out,
\* which is wrong for most (kiss_codec.c:141 counts the byte before an escape
\* twice).  The command is not handed on: modem.c does not look at it.
Intact ==
  [][(Completes /\ inSync) =>
       /\ handed' \in {<< >>, << Body(sent) >>}
       /\ sent.cmd = 0 => handed' = << sent.payload >>
       /\ sent.cmd # 0 /\ EncodeAppend(Body(sent)) = Body(sent) =>
            (handed' # << >> <=> sent.crcOk)]_vars

(***************************************************************************)
(* Why Intact holds.  In step with the line, what is decoded is the begin  *)
(* of the body, and the bytes it took on the line are those that are gone  *)
(* from it; as long as none of them was escaped, the crc is their sum.     *)
(***************************************************************************)
\* Bytes on the line of the first k bytes.
Stuffed(bytes) ==
  LET size[k \in 0 .. Len(bytes)] == IF k = 0 THEN 0 ELSE size[k - 1] + Len(Escaped(bytes[k]))
  IN  size

\* The decoder's frame, read, behind the first bytes of f on the line.
Reads(read, f, bytes) ==
  LET body == Body(f)
      n    == Len(read.data)
      esc  == IF read.escape THEN 1 ELSE 0
  IN  IF bytes = 1 THEN read = [ResetFrame EXCEPT !.state = "head"]
      ELSE /\ read.state = "body" /\ read.cmd = f.cmd
           /\ n <= Len(body) /\ \A i \in 1 .. n : read.data[i] = body[i]
           /\ bytes = 2 + Stuffed(body)[n] + esc
           /\ read.escape => n < Len(body) /\ Len(Escaped(body[n + 1])) = 2
           /\ ~read.escape /\ Stuffed(body)[n] = n => read.crc = Sum8(body)[n]

InStep == inSync /\ MidFrame => Reads(frame, sent, Len(OnLine(sent)) - Len(line))
=============================================================================
