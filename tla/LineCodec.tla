----------------------------- MODULE LineCodec -----------------------------
(***************************************************************************)
(* How the daemon cuts what it reads into lines: the read buffer of        *)
(* ustream.c, read_pending of ustream-fd.c and the crlf codec of xstream.c *)
(* for the streams of the process, the connection to the server and the    *)
(* serial line.  Each stream has its own buffer and its own flag that a    *)
(* line is being parsed, but all of them parse into the one objbuf, whose  *)
(* dataLen is the offset up to which the pending line was searched.        *)
(*                                                                         *)
(* A byte is "end" (a CR or a LF) or "text".  One Read is one read() of    *)
(* the loop in ustream_fd_read_pending with what notify_read does to the   *)
(* bytes it got: what the next read() of that loop finds may as well have  *)
(* arrived later.                                                          *)
(***************************************************************************)
EXTENDS Integers, Sequences, SequencesExt

CONSTANTS
  Streams,  \* the streams that use the crlf codec
  BufSize,  \* bytes in a read buffer (4096)
  MaxBytes  \* bound: bytes sent over one stream

ASSUME LineAssumption ==
  /\ BufSize \in Nat \ {0}
  /\ MaxBytes \in Nat

VARIABLES
  sent,      \* bytes the far end sent on the open stream, oldest first
  unread,    \* those the process did not read yet
  buf,       \* s->r: bytes read and not consumed
  blocked,   \* read_blocked has READ_BLOCKED_FULL
  parsing,   \* ctx->currentObj is set (to &objbuf)
  dataLen,   \* objbuf.dataLen
  delivered  \* lines handed to on_read_cb, without their CR or LF

vars == << sent, unread, buf, blocked, parsing, dataLen, delivered >>

Bytes == {"text", "end"}

Init ==
  /\ sent = [s \in Streams |-> << >>]
  /\ unread = [s \in Streams |-> << >>]
  /\ buf = [s \in Streams |-> << >>]
  /\ blocked = [s \in Streams |-> FALSE]
  /\ parsing = [s \in Streams |-> FALSE]
  /\ dataLen = 0
  /\ delivered = [s \in Streams |-> << >>]

-----------------------------------------------------------------------------
(* xstream_decode_crlf                                                     *)

\* The lines found in the first i bytes of data by a search that skips offset
\* bytes, and the start of the line that follows.  A line leaves out its end.
Scan(data, offset) ==
  LET found[i \in 0 .. Len(data)] ==
        IF i = 0 THEN [lines |-> << >>, start |-> 1]
        ELSE IF i > offset /\ data[i] = "end"
        THEN [lines |-> Append(found[i - 1].lines, SubSeq(data, found[i - 1].start, i - 1)),
              start |-> i + 1]
        ELSE found[i - 1]
  IN  found

\* Faulty variant: the CR or LF itself is not consumed.
RestWithEnd(data, start) == SubSeq(data, IF start > 1 THEN start - 1 ELSE 1, Len(data))

\* What stays in the buffer when the bytes before start were consumed.
Rest(data, start) == SubSeq(data, start, Len(data))

(***************************************************************************)
(* on_ustream_notify_read of data, the whole content of the buffer.  The   *)
(* first line is searched from the offset kept in objbuf, if the stream    *)
(* has one pending, the lines behind it from their first byte.             *)
(***************************************************************************)
NotifyRead(s, data) ==
  LET offset == IF parsing[s] THEN dataLen ELSE 0
      found  == Scan(data, offset)[Len(data)]
      rest   == Rest(data, found.start)
  IN  /\ delivered' = [delivered EXCEPT ![s] = @ \o found.lines]
      /\ buf' = [buf EXCEPT ![s] = rest]
      /\ parsing' = [parsing EXCEPT ![s] = rest # << >>]
      /\ dataLen' = IF found.lines = << >> THEN Max({offset, Len(data)})
                    ELSE IF rest # << >> THEN Len(rest)
                    ELSE Len(Last(found.lines))

-----------------------------------------------------------------------------

\* Faulty variant: the room left in the buffer is not looked at.
ReadOverfull(s) ==
  /\ ~blocked[s]
  /\ \E n \in 1 .. Len(unread[s]) :
       /\ NotifyRead(s, buf[s] \o SubSeq(unread[s], 1, n))
       /\ unread' = [unread EXCEPT ![s] = SubSeq(@, n + 1, Len(@))]
  /\ blocked' = [blocked EXCEPT ![s] = Len(buf'[s]) = BufSize]
  /\ UNCHANGED sent

\* One read() and its notify_read.  A buffer without room for another byte
\* blocks the stream: ustream_fd_set_uloop then no longer asks for READ.
Read(s) ==
  /\ ~blocked[s]
  /\ \E n \in 1 .. Len(unread[s]) :
       /\ Len(buf[s]) + n <= BufSize
       /\ NotifyRead(s, buf[s] \o SubSeq(unread[s], 1, n))
       /\ unread' = [unread EXCEPT ![s] = SubSeq(@, n + 1, Len(@))]
  /\ blocked' = [blocked EXCEPT ![s] = Len(buf'[s]) = BufSize]
  /\ UNCHANGED sent

\* Faulty variant: opening does not clear the stream's codec context.
ReopenKeepsObj(s) ==
  /\ sent' = [sent EXCEPT ![s] = << >>]
  /\ unread' = [unread EXCEPT ![s] = << >>]
  /\ buf' = [buf EXCEPT ![s] = << >>]
  /\ blocked' = [blocked EXCEPT ![s] = FALSE]
  /\ delivered' = [delivered EXCEPT ![s] = << >>]
  /\ UNCHANGED << parsing, dataLen >>

\* The stream is closed and opened again: xstream_init zeroes the stream and
\* its codec context, objbuf stays as it is.
Reopen(s) ==
  /\ sent' = [sent EXCEPT ![s] = << >>]
  /\ unread' = [unread EXCEPT ![s] = << >>]
  /\ buf' = [buf EXCEPT ![s] = << >>]
  /\ blocked' = [blocked EXCEPT ![s] = FALSE]
  /\ parsing' = [parsing EXCEPT ![s] = FALSE]
  /\ delivered' = [delivered EXCEPT ![s] = << >>]
  /\ UNCHANGED dataLen

\* The far end sends another byte.
Arrive(s, b) ==
  /\ Len(sent[s]) < MaxBytes
  /\ sent' = [sent EXCEPT ![s] = Append(@, b)]
  /\ unread' = [unread EXCEPT ![s] = Append(@, b)]
  /\ UNCHANGED << buf, blocked, parsing, dataLen, delivered >>

Next ==
  \E s \in Streams :
    \/ Read(s)
    \/ Reopen(s)
    \/ \E b \in Bytes : Arrive(s, b)

Spec == Init /\ [][Next]_vars

-----------------------------------------------------------------------------
(* Properties                                                              *)

\* The bytes of lines, each with the end that closed it.
WithEnds(lines) == FlattenSeq([i \in DOMAIN lines |-> Append(lines[i], "end")])

\* Buffers within their size, a search offset within what a line may hold.
TypeOK ==
  /\ sent \in [Streams -> Seq(Bytes)]
  /\ unread \in [Streams -> Seq(Bytes)]
  /\ buf \in [Streams -> Seq(Bytes)] /\ \A s \in Streams : Len(buf[s]) <= BufSize
  /\ blocked \in [Streams -> BOOLEAN]
  /\ parsing \in [Streams -> BOOLEAN]
  /\ dataLen \in 0 .. BufSize
  /\ delivered \in [Streams -> Seq(Seq(Bytes))]

\* No byte is lost, repeated or reordered between the far end and the lines
\* handed to the client, however the bytes arrive and are read.
BytesKept == \A s \in Streams : WithEnds(delivered[s]) \o buf[s] \o unread[s] = sent[s]

\* xstream.c: the crlf codec will "parse each byte and notify delegate when
\* CR/LF is met": no line contains an end, and no complete line stays behind
\* in the buffer.
LinesFramed ==
  \A s \in Streams :
    /\ \A i \in DOMAIN delivered[s] : \A j \in DOMAIN delivered[s][i] : delivered[s][i][j] # "end"
    /\ \A j \in DOMAIN buf[s] : buf[s][j] # "end"

\* Why LinesFramed holds of a stream that has objbuf for its own: the bytes a
\* search skips are some that were searched before.
SkipsSearched == \A s \in Streams : parsing[s] => dataLen <= Len(buf[s])
=============================================================================
