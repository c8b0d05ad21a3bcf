----------------------------- MODULE UstreamBuf -----------------------------
(***************************************************************************)
(* The chunked buffers of libubox/ustream.c.  A stream has two lists of    *)
(* fixed-size chunks, s->r filled by read() and emptied by the client, and *)
(* s->w filled by the client and emptied by write().  Drained chunks are   *)
(* recycled or freed, half-used ones squeezed, and bytes never carry a     *)
(* position: order is all there is.  Module Ustream takes the outcome, one *)
(* queue of messages, for granted; here it is checked.                     *)
(*                                                                         *)
(* A byte is its number in its direction, modulo Wrap.                     *)
(***************************************************************************)
EXTENDS Integers, Sequences, SequencesExt

CONSTANTS
  ReadLen, ReadMin, ReadMax,     \* buffer_len, min_buffers, max_buffers of s->r
  WriteLen, WriteMin, WriteMax,  \* and of s->w; a maximum of 0 or less is none
  Few,         \* 32: so little data is moved to the front early
  Wrap,        \* bound: bytes are numbered modulo Wrap
  MaxWrite,    \* bound: bytes of one write
  MaxPending   \* bound: bytes waiting in s->w

ASSUME UstreamBufAssumption ==
  /\ {ReadLen, ReadMin, WriteLen, WriteMin, Wrap, MaxWrite, MaxPending} \subseteq Nat \ {0}
  /\ ReadMax \in Int /\ WriteMax \in Int /\ Few \in Nat
  /\ ReadMax > 0 /\ Wrap > ReadMax * ReadLen /\ Wrap > MaxPending

VARIABLES
  r, w,         \* the two lists of chunks
  readBlocked,  \* read_blocked: a subset of {"full", "user"}
  eof,
  writeError,
  stateChange,  \* the zero-delay state_change timer is set
  readIn,       \* number of the next byte read() will get
  readOut,      \* number of the next byte the client is due
  writeIn,      \* number of the next byte the client will write
  writeOut      \* number of the next byte the kernel is due

flags == << eof, writeError, stateChange >>
readSide == << r, readBlocked, readIn, readOut >>
writeSide == << w, writeIn, writeOut >>
bufVars == << readSide, writeSide, flags >>

-----------------------------------------------------------------------------
(* One list of chunks: bufs, oldest first; tail, the index of data_tail (0 *)
(* for NULL); and the counters data_bytes and buffers.                     *)

ReadGeometry == [len |-> ReadLen, min |-> ReadMin, max |-> ReadMax]
WriteGeometry == [len |-> WriteLen, min |-> WriteMin, max |-> WriteMax]

EmptyList == [bufs |-> << >>, tail |-> 0, bytes |-> 0, buffers |-> 0]

\* ustream_init_buf
FreshBuf == [off |-> 0, data |-> << >>]

\* buf->end - buf->tail
Room(g, b) == g.len - b.off - Len(b.data)

\* ustream_can_alloc
CanAlloc(g, l) == g.max <= 0 \/ l.buffers < g.max

\* Faulty variant: a list that was empty gets no data_tail.
AddBufNoTail(l) == [l EXCEPT !.bufs = Append(@, FreshBuf), !.buffers = @ + 1]

\* ustream_add_buf, of a chunk just allocated or recycled.
AddBuf(l) ==
  [l EXCEPT !.bufs = Append(@, FreshBuf),
            !.buffers = @ + 1,
            !.tail = IF @ = 0 THEN 1 ELSE @]

\* ustream_free_buf of the head: down to min_buffers it is freed, below them
\* it goes, empty, to the end of the list.
FreeBuf(g, l) ==
  LET rest == [l EXCEPT !.bufs = Tail(@), !.buffers = @ - 1,
                        !.tail = IF Len(l.bufs) = 1 THEN 0
                                 ELSE IF @ = 1 THEN 1 ELSE @ - 1]
  IN  IF rest.buffers >= g.min THEN rest ELSE AddBuf(rest)

\* ustream_should_move: is the data of the tail chunk moved to its front,
\* before len more bytes are put behind it?
ShouldMove(g, l, len) ==
  LET b == l.bufs[l.tail]
  IN  /\ b.off > 0
      /\ \/ b.off > g.len \div 2
         \/ Len(b.data) < Few /\ b.off > g.len \div 4
         \/ l.tail = Len(l.bufs) /\ ~CanAlloc(g, l) /\ Room(g, b) < len

\* The memmove of ustream_prepare_buf.
Squeeze(g, l, len) ==
  IF l.tail # 0 /\ ShouldMove(g, l, len) THEN [l EXCEPT !.bufs[l.tail].off = 0] ELSE l

Prepared(ok, l) == [ok |-> ok, list |-> l]

\* ustream_prepare_buf: data_tail with room in it, if there can be one.
Prepare(g, l, len) ==
  LET q == Squeeze(g, l, len)
  IN  IF q.tail # 0 /\ Room(g, q.bufs[q.tail]) > 0 THEN Prepared(TRUE, q)
      ELSE IF q.tail # 0 /\ q.tail < Len(q.bufs) THEN Prepared(TRUE, [q EXCEPT !.tail = @ + 1])
      ELSE IF CanAlloc(g, q) THEN Prepared(TRUE, [AddBuf(q) EXCEPT !.tail = Len(q.bufs) + 1])
      ELSE Prepared(FALSE, q)

\* More bytes at the end of the tail chunk.
Fill(l, data) ==
  [l EXCEPT !.bufs[l.tail].data = @ \o data, !.bytes = @ + Len(data)]

\* Faulty variant: a chunk drained to its last byte stays in the list.
TakeOnceKeepsEmpty(g, a) ==
  LET b == Head(a.list.bufs)
  IN  IF a.left = 0 THEN a
      ELSE IF a.left <= Len(b.data)
      THEN [list |-> [a.list EXCEPT !.bufs[1] = [off |-> b.off + a.left,
                                                 data |-> SubSeq(b.data, a.left + 1, Len(b.data))]],
            left |-> 0]
      ELSE [list |-> FreeBuf(g, a.list), left |-> a.left - Len(b.data)]

\* One chunk of the loop in ustream_consume, and in ustream_write_pending when
\* write() took as much; "left" bytes are still to go.
TakeOnce(g, a) ==
  LET b == Head(a.list.bufs)
  IN  IF a.left = 0 THEN a
      ELSE IF a.left < Len(b.data)
      THEN [list |-> [a.list EXCEPT !.bufs[1] = [off |-> b.off + a.left,
                                                 data |-> SubSeq(b.data, a.left + 1, Len(b.data))]],
            left |-> 0]
      ELSE [list |-> FreeBuf(g, a.list), left |-> a.left - Len(b.data)]

\* The first n bytes of list l leave it.
Take(g, l, n) ==
  LET after[k \in 0 .. Len(l.bufs)] ==
        IF k = 0 THEN [list |-> [l EXCEPT !.bytes = @ - n], left |-> n]
        ELSE TakeOnce(g, after[k - 1])
  IN  after[Len(l.bufs)].list

\* All bytes of the list, and those up to the first empty chunk: no loop over
\* the chunks gets past one.
Contents(l) == FlattenSeq([i \in DOMAIN l.bufs |-> l.bufs[i].data])
Leading(l) ==
  LET solid == {k \in DOMAIN l.bufs : \A i \in 1 .. k : l.bufs[i].data # << >>}
  IN  FlattenSeq([i \in solid |-> l.bufs[i].data])

\* n bytes from number first on.
Numbered(first, n) == [i \in 1 .. n |-> (first + i - 1) % Wrap]

-----------------------------------------------------------------------------
(* Reading                                                                 *)

\* One turn of the loop in ustream_fd_read_pending: ustream_reserve, read()
\* of any number of bytes (0: EAGAIN), ustream_fill_read.
ReadPending ==
  /\ readBlocked = {} /\ ~eof
  /\ LET p == Prepare(ReadGeometry, r, 1)
     IN  \/ /\ p.ok
            /\ \E n \in 0 .. Room(ReadGeometry, p.list.bufs[p.list.tail]) :
                 /\ r' = Fill(p.list, Numbered(readIn, n))
                 /\ readIn' = (readIn + n) % Wrap
            /\ UNCHANGED readBlocked
         \/ /\ ~p.ok
            /\ r' = p.list
            /\ readBlocked' = readBlocked \cup {"full"}
            /\ UNCHANGED readIn
  /\ UNCHANGED << readOut, writeSide, flags >>

\* Faulty variant: the stream stays blocked.
ConsumeKeepsBlocked(n) ==
  /\ r' = Take(ReadGeometry, r, n)
  /\ readOut' = (readOut + n) % Wrap
  /\ UNCHANGED << readBlocked, readIn, writeSide, flags >>

\* The n oldest bytes go to the client, and there is room again.
ConsumeBytes(n) ==
  /\ r' = Take(ReadGeometry, r, n)
  /\ readOut' = (readOut + n) % Wrap
  /\ readBlocked' = readBlocked \ {"full"}
  /\ UNCHANGED << readIn, writeSide, flags >>

\* ustream_consume.  It aborts the process when less was read.
Consume(n) == n <= r.bytes /\ ConsumeBytes(n)

\* ustream_read into a buffer of n bytes: chunk by chunk what the head holds.
ReadInto(n) ==
  LET there == Len(Leading(r))
  IN  there > 0 /\ ConsumeBytes(IF n < there THEN n ELSE there)

\* ustream_set_read_blocked, by the client.
SetReadBlocked ==
  /\ \E set \in BOOLEAN : readBlocked' = (readBlocked \ {"user"}) \cup (IF set THEN {"user"} ELSE {})
  /\ UNCHANGED << r, readIn, readOut, writeSide, flags >>

\* read() returns 0.
Eof ==
  /\ ~eof /\ readBlocked = {}
  /\ eof' = TRUE /\ stateChange' = TRUE
  /\ UNCHANGED << readSide, writeSide, writeError >>

-----------------------------------------------------------------------------
(* Writing                                                                 *)

\* One turn of the loop in ustream_write_buffered.
StoreOnce(a) ==
  LET p == Prepare(WriteGeometry, a.list, Len(a.left))
      b == p.list.bufs[p.list.tail]
      n == IF Room(WriteGeometry, b) < Len(a.left) THEN Room(WriteGeometry, b) ELSE Len(a.left)
  IN  IF a.left = << >> THEN a
      ELSE IF ~p.ok THEN [a EXCEPT !.list = p.list]
      ELSE [list |-> Fill(p.list, SubSeq(a.left, 1, n)),
            left |-> SubSeq(a.left, n + 1, Len(a.left))]

\* ustream_write_buffered: the list, and what did not fit.
Store(l, data) ==
  LET after[k \in 0 .. Len(data)] ==
        IF k = 0 THEN [list |-> l, left |-> data] ELSE StoreOnce(after[k - 1])
  IN  after[Len(data)]

\* What the client is told of a write of n bytes was written: all but what
\* did not fit.
Accept(a, n) ==
  /\ w' = a.list
  /\ writeIn' = (writeIn + n - Len(a.left)) % Wrap

\* ustream_write_error
FailWrite ==
  /\ writeError' = TRUE /\ stateChange' = TRUE
  /\ UNCHANGED << readSide, writeSide, eof >>

(***************************************************************************)
(* ustream_write of n bytes, and ustream_printf when nothing waits: what   *)
(* the kernel does not take at once is buffered.  Behind buffered bytes    *)
(* nothing is offered to the kernel.  After a write error nothing happens. *)
(***************************************************************************)
UstreamWrite(n) ==
  /\ ~writeError /\ w.bytes + n <= MaxPending
  /\ \/ /\ \E k \in (IF w.bytes = 0 THEN 0 .. n ELSE {0}) :
             /\ Accept(Store(w, Numbered(writeIn + k, n - k)), n)
             /\ writeOut' = (writeOut + k) % Wrap
        /\ UNCHANGED << readSide, flags >>
     \/ w.bytes = 0 /\ FailWrite

\* ustream_vprintf behind buffered bytes: it formats straight into the tail
\* chunk, whose last byte vsnprintf spends on a NUL, and stores the rest.
Printf(n) ==
  /\ ~writeError /\ w.bytes > 0 /\ w.bytes + n <= MaxPending
  /\ LET p    == Prepare(WriteGeometry, w, 1)
         room == Room(WriteGeometry, p.list.bufs[p.list.tail])
         k    == IF n < room THEN n ELSE room - 1
     IN  IF p.ok
         THEN Accept(Store(Fill(p.list, Numbered(writeIn, k)), Numbered(writeIn + k, n - k)), n)
         ELSE w' = p.list /\ UNCHANGED writeIn
  /\ UNCHANGED << readSide, writeOut, flags >>

\* ustream_write_pending: write() takes the chunks in turn, the last perhaps
\* in part, and may fail behind any whole chunk.
WritePending ==
  /\ ~writeError /\ w.bytes > 0
  /\ \E n \in 0 .. Len(Leading(w)), fails \in BOOLEAN :
       /\ w' = Take(WriteGeometry, w, n)
       /\ writeOut' = (writeOut + n) % Wrap
       /\ fails => \E k \in 0 .. Len(w.bufs) : n = Len(FlattenSeq([i \in 1 .. k |-> w.bufs[i].data])) /\ n < w.bytes
       /\ writeError' = fails
       /\ stateChange' = (stateChange \/ fails \/ (eof /\ n > 0 /\ n = w.bytes))
  /\ UNCHANGED << readSide, writeIn, eof >>

\* ustream_state_change_cb: a write error gives up the buffered output.
\* ustream_free_buffers leaves the counters as they are.
StateChangeCb ==
  /\ stateChange
  /\ stateChange' = FALSE
  /\ w' = IF writeError THEN [w EXCEPT !.bufs = << >>, !.tail = 0] ELSE w
  /\ UNCHANGED << readSide, writeIn, writeOut, eof, writeError >>

\* ustream_free, and ustream_init_defaults of the next connection's stream.
InitDefaults ==
  /\ eof \/ writeError
  /\ r' = EmptyList /\ w' = EmptyList
  /\ readBlocked' = {}
  /\ eof' = FALSE /\ writeError' = FALSE /\ stateChange' = FALSE
  /\ readIn' = 0 /\ readOut' = 0 /\ writeIn' = 0 /\ writeOut' = 0

BufInit ==
  /\ r = EmptyList /\ w = EmptyList
  /\ readBlocked = {}
  /\ eof = FALSE /\ writeError = FALSE /\ stateChange = FALSE
  /\ readIn = 0 /\ readOut = 0 /\ writeIn = 0 /\ writeOut = 0

BufNext ==
  \/ ReadPending
  \/ \E n \in 1 .. ReadMax * ReadLen : Consume(n) \/ ReadInto(n)
  \/ SetReadBlocked
  \/ Eof
  \/ \E n \in 1 .. MaxWrite : UstreamWrite(n) \/ Printf(n)
  \/ WritePending
  \/ StateChangeCb
  \/ InitDefaults

BufSpec == BufInit /\ [][BufNext]_bufVars

-----------------------------------------------------------------------------
(* Properties                                                              *)

\* s->w was given up after a write error: its counters no longer mean anything.
GivenUp == writeError /\ w.bufs = << >>

ListOK(g, l) ==
  /\ \A i \in DOMAIN l.bufs :
       /\ l.bufs[i].off \in 0 .. g.len
       /\ l.bufs[i].data \in Seq(0 .. Wrap - 1)
       /\ Room(g, l.bufs[i]) >= 0
  /\ l.tail \in 0 .. Len(l.bufs) /\ (l.tail = 0 <=> l.bufs = << >>)
  /\ g.max > 0 => Len(l.bufs) <= g.max

\* Chunks within their size, data_tail one of them, no more than max_buffers,
\* and the counters data_bytes and buffers true to the list.
BufTypeOK ==
  /\ ListOK(ReadGeometry, r) /\ ListOK(WriteGeometry, w)
  /\ r.buffers = Len(r.bufs) /\ r.bytes = Len(Contents(r))
  /\ ~GivenUp => w.buffers = Len(w.bufs) /\ w.bytes = Len(Contents(w))
  /\ readBlocked \subseteq {"full", "user"}
  /\ {eof, writeError, stateChange} \subseteq BOOLEAN
  /\ {readIn, readOut, writeIn, writeOut} \subseteq 0 .. Wrap - 1

\* The loops over the chunks and ustream_get_read_buf look at the head: a byte
\* behind an empty chunk is one that nobody finds, one behind data_tail is
\* overwritten.
DataAtHead(l) ==
  /\ Leading(l) = Contents(l)
  /\ \A i \in DOMAIN l.bufs : i > l.tail => l.bufs[i] = FreshBuf

\* Recycled, squeezed, allocated or skipped, the chunks hold exactly the bytes
\* between what the one end put in and the other took out, each once, in order,
\* and where the code looks for them.
InOrder ==
  /\ DataAtHead(r) /\ DataAtHead(w)
  /\ Contents(r) = Numbered(readOut, (readIn - readOut) % Wrap)
  /\ ~GivenUp => Contents(w) = Numbered(writeOut, (writeIn - writeOut) % Wrap)

\* A stream blocked for want of room has bytes the client can consume (and so
\* unblock it), and not a byte of room left in its last chunk.
BlockedOnlyWhenFull ==
  "full" \in readBlocked =>
    /\ r.bytes > 0 /\ ~CanAlloc(ReadGeometry, r)
    /\ r.tail = Len(r.bufs) /\ Room(ReadGeometry, r.bufs[r.tail]) = 0
=============================================================================
