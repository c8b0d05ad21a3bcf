------------------------------ MODULE Ustream ------------------------------
(***************************************************************************)
(* The part of libubox/ustream.c, ustream-fd.c and xstream.c that the      *)
(* daemon's two clients (tier2_client.c and modem.c) lean on: one ustream  *)
(* over one descriptor, its write buffer, its error flags, its membership  *)
(* of the event loop and its zero-delay state_change timer.  The operators *)
(* are pure: they map a stream to the streams the code may leave behind.   *)
(*                                                                         *)
(* A written message stands for its bytes.  A message that the kernel took *)
(* only in part counts as still buffered: its last byte leaves from there. *)
(***************************************************************************)
EXTENDS Integers, Sequences

(***************************************************************************)
(* registered  fd.registered: the descriptor is in the epoll set           *)
(* eof         read() returned 0 or failed                                 *)
(* writeError  write() failed, or the poll reported an error               *)
(* stateChange the state_change timer is linked into uloop's timeouts list *)
(* wbuf        the messages in s->w, oldest first                          *)
(***************************************************************************)
StreamOver(Message) ==
  [registered : BOOLEAN, eof : BOOLEAN, writeError : BOOLEAN,
   stateChange : BOOLEAN, wbuf : Seq(Message)]

\* xstream_crlf_init: memset of the whole xstream, then ustream_fd_init,
\* which registers the descriptor for reading.
FreshStream ==
  [registered |-> TRUE, eof |-> FALSE, writeError |-> FALSE,
   stateChange |-> FALSE, wbuf |-> << >>]

\* The zeroed xstream of a client that never opened its connection.
ZeroStream == [FreshStream EXCEPT !.registered = FALSE]

\* ustream_fd_set_uloop: register for what is still of interest, or drop
\* out of the event loop when nothing is (uloop_fd_add without READ/WRITE).
SetUloop(s, write) ==
  [s EXCEPT !.registered =
     \/ ~s.eof
     \/ write
     \/ s.wbuf # << >> /\ ~s.writeError]

\* ustream_state_change: (re)arm the zero-delay timer.
StateChange(s) == [s EXCEPT !.stateChange = TRUE]

\* ustream_write_error
WriteError(s) == [StateChange(s) EXCEPT !.writeError = TRUE]

\* What a write left behind: the stream, and the messages the kernel took.
Written(s, sent) == [stream |-> s, sent |-> sent]

\* Faulty variant: a write does not wait for what is already buffered.
WriteAhead(s, m, mayBlock, mayFail) ==
  LET Buffered == [s EXCEPT !.wbuf = Append(@, m)]
  IN  IF s.writeError THEN {Written(s, << >>)}
      ELSE {Written(s, << m >>)}
           \cup (IF mayBlock THEN {Written(SetUloop(Buffered, TRUE), << >>)} ELSE {})
           \cup (IF mayFail THEN {Written(WriteError(s), << >>)} ELSE {})

(***************************************************************************)
(* ustream_write of message m.  With a write error nothing happens.  With  *)
(* something already buffered m goes behind it.  Otherwise write() takes   *)
(* it, refuses it with EAGAIN (the rest is buffered and the descriptor is  *)
(* registered for writing again, also after an EOF took it out), or fails. *)
(***************************************************************************)
Write(s, m, mayBlock, mayFail) ==
  LET Buffered == [s EXCEPT !.wbuf = Append(@, m)]
  IN  IF s.writeError THEN {Written(s, << >>)}
      ELSE IF s.wbuf # << >> THEN {Written(Buffered, << >>)}
      ELSE {Written(s, << m >>)}
           \cup (IF mayBlock THEN {Written(SetUloop(Buffered, TRUE), << >>)} ELSE {})
           \cup (IF mayFail THEN {Written(WriteError(s), << >>)} ELSE {})

(***************************************************************************)
(* The event loop reports the descriptor writable: ustream_write_pending   *)
(* sends a prefix of the buffer.  A buffer sent to its end drops the WRITE *)
(* interest, and after an EOF announces the state change once more.        *)
(***************************************************************************)
Flush(s, mayFail) ==
  LET Sent(k) == SubSeq(s.wbuf, 1, k)
      Left(k) == [s EXCEPT !.wbuf = SubSeq(@, k + 1, Len(@))]
      Drained == LET d == Left(Len(s.wbuf))
                 IN  SetUloop(IF s.eof THEN StateChange(d) ELSE d, FALSE)
  IN  {Written(Left(k), Sent(k)) : k \in 1 .. Len(s.wbuf) - 1}
      \cup {Written(Drained, s.wbuf)}
      \cup (IF mayFail THEN {Written(WriteError(s), << >>)} ELSE {})

\* Is the descriptor polled for writing?  EPOLLOUT comes only then.
PollsWrite(s) == s.registered /\ s.wbuf # << >> /\ ~s.writeError

\* Is the descriptor polled for reading?
PollsRead(s) == s.registered /\ ~s.eof

(***************************************************************************)
(* read() returned 0 or an error: __ustream_fd_poll with ULOOP_READ.  When *)
(* the poll also reported EPOLLERR/EPOLLHUP (hup) and the stream left the  *)
(* event loop, fd.error is still set and counts as a write error;          *)
(* re-registering for the buffered output clears it (uloop_fd_add).        *)
(***************************************************************************)
ReadEof(s, hup) ==
  LET e == SetUloop([StateChange(s) EXCEPT !.eof = TRUE], FALSE)
  IN  IF hup /\ ~e.registered THEN [e EXCEPT !.writeError = TRUE] ELSE e

\* ustream_state_change_cb up to notify_state: the timer was taken off the
\* list, and a write error gives up the buffered output.
StateChanged(s) ==
  [s EXCEPT !.stateChange = FALSE,
            !.wbuf = IF s.writeError THEN << >> ELSE @]

\* xstream_free: ustream_free, but only for a registered descriptor.
XstreamFree(s) ==
  IF s.registered
  THEN [s EXCEPT !.registered = FALSE, !.stateChange = FALSE, !.wbuf = << >>]
  ELSE s

\* Nothing in the event loop refers to the stream any more.
Detached(s) == ~s.registered /\ ~s.stateChange
=============================================================================
