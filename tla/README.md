# A TLA+ model of tinyaprsd

`tinyaprsd` is an APRS gateway daemon. It reads packets heard on the radio from
a TNC on a serial port, in text lines first and in KISS frames once the TNC is
initialised, and publishes them, together with position beacons of its own, to
an APRS-IS ("tier 2") server over TCP. It is one thread: everything happens in
callbacks of the event loop `libubox/uloop.c`. This directory models it in
TLA+, checks the model with TLC and proves part of it with TLAPS. Paths below
are relative to the repository; `PROJECT.json` maps every definition to the
lines it stands for.

## 1. The system

| Part | Source | State | Operations |
|---|---|---|---|
| Tier 2 client | `src/tier2_client.c` | `state`, `sockfd`, the stream, `last_recv`, `last_reconnect`, `last_keepalive`, `current_reconnect_waittime` | init, 5 ms timer, line received, stream error, publish |
| Buffered stream | `src/libubox/ustream.c`, `ustream-fd.c`, `xstream.c` | read and write buffer, `eof`, `write_error`, `read_blocked`, the `state_change` timer, the codec context | write, flush, read, consume, free |
| KISS codec | `src/kiss_codec.c` | one frame buffer and state, one receive timer | decode a byte, time out |
| Modem session | `src/modem.c`, `src/serial.c` | `state`, `kissMode`, timers, reopen delay | open, initialise, detect, switch mode, reset, receive |
| Event loop | `src/libubox/uloop.c`, `uloop-epoll.c` | sorted timers, polled descriptors, the batch of fetched events, processes, signals | add, delete, run |
| Relay and main | `src/tinyaprsd.c` | the options, the mode | parse options, daemonise, filter and publish a packet heard; start, stop |
| AX.25 decoder | `src/ax25.c` | none | decode, print |
| Beacon | `src/beacon.c` | its timer | publish a position every 300 s |
| Log file | `src/log.c` | the file, its count of bytes | write a line, dump a frame, rotate |
| Configuration | `src/config.c` | `config`, the shadow `overwriteConfig` and the list of keys in it | take an option, read the file |
| TNC tool | `src/tnc_config.c` | the settings read | ask the TNC, take its answer |

How they interact. `main` initialises log, configuration, modem, client and
beacon and enters the loop. The client and the modem own one `ustream_fd` each;
bytes go through a codec (`crlf` or `kiss`) of `xstream.c` and come back as
lines or frames by callback. The modem hands an AX.25 frame to the relay, the
relay and the beacon call `tier2_client_publish`. All of it shares the one
timer list of the loop, one static object per codec (`objbuf`, `_framebuf`) and
the process's file descriptors.

What is hard here. Nothing runs in parallel, but everything interleaves:

- a callback may leave a timer or an event behind that fires for what came after
  it (end of stream noticed by one callback, acted on by a zero-delay timer);
- writes are accepted, buffered in part or refused, and what is buffered goes out
  later, maybe after the session moved on;
- the server and the network fail, fall silent or speak out of turn at any moment;
- reconnecting shares state with everything before it: delay, clocks, descriptors;
- the decoders see the bytes in pieces cut anywhere, and are entered mid-frame;
- a stream's bytes wander through chunks that are squeezed, recycled and freed
  while both ends move, and carry no position;
- options, file and defaults meet in one struct, and the order in which they were
  given must not decide who wins.

What makes each part correct: the client publishes only on a connection whose
login was accepted, never mixes up two connections, always gives up a dead one
and connects again, not too often; the stream delivers what it accepted, in
order, once, and nothing after it is freed; the codecs deliver exactly what was
sent once they are in step, and get into step by themselves; the relay passes on what
may be gated, as it was sent, and nothing else; the beacon keeps its pace over
reconnects; the log stays bounded; the daemon runs with the configuration it was
given; the TNC tool shows what the TNC holds or fails.

## 2. Modules

| Module | Models | Runs |
|---|---|---|
| `GatedSession` | abstract: a session that logs in first and publishes only when admitted | property `ImplementsSession` |
| `Ustream` | the write side and the life of a stream, as operators on a record | through `Tier2Client`, `Modem` |
| `Tier2Client` | the client, the stream under it, server, network, clock and process | `tier2`, `tier2_socket_leak` |
| `UstreamBuf` | the chunked read and write buffers of a stream | `ustream_buffer` |
| `LineCodec` | read buffer, blocking and crlf codec of one or two streams | `lines_one_stream`, `lines_two_streams` |
| `KissFrame` | KISS frames as `tnc_config.c` encodes them, as operators | through `KissCodec`, `TncConfig` |
| `KissCodec` | the KISS byte machine, its timer, its CRC and the frames of the TNC | `kiss_frames` |
| `Modem` | the modem session, the stream and codec under it, the TNC and its cable | `modem_session` |
| `Uloop` | timers, polled descriptors, the batch of events, waker pipe and signals | `uloop` |
| `Ax25`, `LogFile` | decoder and printer of frames; the log file, both as operators | through `Gateway` |
| `Gateway` | relay, beacon and log in the mode `main` chose, over a session that comes and goes | `gateway` |
| `Config` | options, daemonising and the configuration file | `config`, `config_no_file` |
| `TncConfig` | the tool `tnc_config read` and the TNC it asks | `tnc_config` |
| `Lemmas` | induction, loops, joined and flattened sequences; what writing and flushing keep and hand over | |
| `Tier2Client_proofs` | types, admission, refusal, spacing of attempts; `Tier2Client` implements `GatedSession` | |
| `Stream_proofs` | `LineCodec`: types; no byte is lost; one stream's lines are cut at their ends. `UstreamBuf`: types; bytes stay in order; blocked only when full | |
| `Kiss_proofs` | `KissCodec`: types; the timer is the frame's; getting back into step; frames arrive intact or not at all. `TncConfig`: types; the parameters are those of one frame; a healthy exchange succeeds | |
| `Modem_proofs` | types; closed means detached; text stays text | |
| `Uloop_proofs` | types; the list stays sorted; no stale event | |
| `Gateway_proofs` | types; the pace of the beacon; the bound of the log; the relay is faithful | |
| `Config_proofs` | every field holds what fits it, and what was given | |
| `MC*` | constants and symmetry for TLC | |

### Tier2Client and Ustream

One action is one callback, from its entry to its return: `TimerReconnects`,
`TimerGivesUpIdle`, `TimerResetsWait` and `TimerKeepsAlive` are the cases of
`tier2_client_run`; `ReadGreeting`, `ReadVerdict`, `ReadFeed` and `ReadBlank`
those of `on_stream_read` by state; `ReadEnd` is the read that meets the end of
the stream, `StateChangeTimer` the zero-delay timer that then tells the client,
`WriteReady` the descriptor that became writable, and `Publish` the call of
relay or beacon. `Open` is `tier2_client_open` with its four outcomes.
`ServerGreets`, `ServerReads`, `ServerTalks`, `ConnectionBreaks` and `Tick` are
the world outside.

- A message is one token. `tier2_client_send` may be taken whole by the kernel,
  be refused for now (then it is buffered), or fail. A message that goes out in
  part counts as buffered until its last byte: the kernel keeps the bytes of one
  stream in order, so nothing else differs.
- A clock is the age of `last_recv`, `last_reconnect` or `last_keepalive`, capped
  just past the largest value it is compared with, so every age beyond is one state.
- The crlf codec ends a line at CR and again at LF, so each line of the server
  is followed by a "blank" one, as in the code, which must ignore it.
- `OpenOverLinkedTimer` is the one step whose outcome in C is undefined (a
  linked list entry is overwritten with zeroes and then walked): it ends the
  process. `StartClient` starts it again.
- Descriptors are numbers `1..MaxFds`; `socket()` gives the lowest free one.
- The server comments whenever it likes, also between greeting and verdict. `commented` records that it
  did so on this connection before its answer; the code keeps no such thing.
- A reset (`ConnectionBreaks`) takes the lines with it that the client had not read: the kernel may drop them.

### LineCodec

Bytes are "text" or "end" (CR or LF). One `Read` is one `read()` of at least one
byte and at most the room left, with all `on_ustream_notify_read` makes of it.
Every stream has its own buffer and `currentObj`, and all share `dataLen`, the
offset in the static `objbuf` up to which a pending line was searched. `Scan` is the
loop of `xstream_decode_crlf`, called as often as it returns a line. The
delivered lines are kept, so that `LinesFramed` can compare them with what was sent.

### KissCodec

One step decodes one byte; between two bytes the receive timer may fire. The TNC
sends frame after frame without end, encoded as `tnc_config.c` encodes them, and
the port may be opened anywhere in one. `inSync` and `calm` record what the
decoder itself cannot know: whether it entered the frame on the line at its
first byte, and how many frames began since it last gave one up. The code stores a byte and then
looks for room (`kiss_codec.c:115-127`): `Taken` stores it, `Checked` is the check, and `filled` keeps
the length the check saw, so that the byte written behind the buffer shows. The model gives the byte
no effect of its own: with the build of the Makefile, what follows `__buf[512]` in memory is the beginning of
`overwriteConfig` in `config.c`, which is read only while the daemon starts.

### Modem

Again one action is one callback: `TimerReopens`, `TimerInitTimeout` and
`TimerReady` are the cases of `modem_run`, `SwitchMode` is the timer armed when the
TNC was detected, `Read` a piece of input through the codec in force, `ReadEnd` the
hang-up of the terminal, `StateChangeTimer` the close. Input is abstracted to four
kinds of pieces: what is inside a line is the matter of `LineCodec`, what is
inside a frame that of `KissCodec`; here it matters whether a piece ends a
line and whether it identifies the TNC. `obj` is `ctx->currentObj`, which outlives
a change of codec. If the kiss codec finds the object of a pending line, what it
does is undefined: `ReadKissAstray` and `ReadCrashes` take what the build can make of
it, namely nothing, a frame, or a crash. `attached` says that the port can be opened. The port is
non-blocking by the time the query is sent (`uloop_fd_add`), so that the query may be left in the write buffer as well.

### Uloop

`NewLap`, `FireTimer`, `TimersDone`, `Fetch` and `Serve` are the steps of
`uloop_run_timeout` between two points at which something else can happen: a
callback (`running`, ended by `Return`), a signal or time. A callback may call
`TimeoutSet`, `TimeoutCancel`, `FdAdd` and `FdDelete` for any timer and any descriptor,
any number of times. Times are relative to the loop's last look at the clock (`Rebase`) in
half milliseconds, so that `TvDiff` shows what `tv_diff` does: it cuts off seconds and
microseconds separately, and what is left of a millisecond goes either way. What
is a millisecond or more in the past is one value. `valid` records what the loop itself
does not keep: which descriptors of the batch are registered since before it was fetched.

### UstreamBuf

`Ustream` takes one queue of messages for granted; `UstreamBuf` checks the code that
makes one: lists of chunks with `data_tail`, `data_bytes` and `buffers`, and for every
operation of `ustream.c` the loop it runs over them. `Fill`, `Take` and `Store` are those
loops; `Squeeze` is the `memmove` of `ustream_prepare_buf`, `FreeBuf` the decision to
recycle or free. A byte is its number modulo `Wrap`, so that a byte lost, repeated
or out of place shows. The kernel takes any part of a write. `BufNext` is any order of calls:
`ReadPending` and `WritePending` are what `ustream-fd.c` does when the descriptor is ready,
`UstreamWrite`, `Printf` and `ConsumeBytes` what a client may call, `StateChangeCb` the timer
that frees what a write error left.

### Gateway, Ax25 and LogFile

`Hear` is `on_modem_read` in KISS mode with all that follows from it: the frame of a
station's packet is decoded (`Decode`), logged, judged by the relay (`MayRelay`), printed and
written. `EncodeFrame` is the station. `BeaconDue` is the beacon's timer callback, which is late
by as much as another callback blocks; `Publish` is `tier2_client_publish`. The session of
`Tier2Client` is reduced to what publishing asks of it: verified, broken by a write, or
neither. The log is part of the state because every frame heard writes lines into it, which
count, and bytes of a dump, which do not. A daemon starts on what an earlier one left, files of the
lengths in `Left`. `Io` is what may come of the calls of a rotation: `remove` and `rename` may fail without
anyone looking, and so may the `fopen` that follows, which empties a file that was not moved.
One such outcome serves all lines of a step, since the lines of a step are far fewer than the code's log holds. `Unsupported` counts the line of
`DBG`, which is there because the Makefile builds with `-DDEBUG`. `heard` and `sent` hold what the last step
heard and wrote, `upFor` and `quiet` how long the session is up and the beacon
silent; the code keeps none of the four.

### Config

`OptionKv`, `OptionLocation`, `OptionApp` and `OptionExit` are the options of `parse_args`,
in any order and number up to `MaxArgs`; then the daemon goes to the background, and with it
to another directory, opens the file named, and takes its lines one by one. A file is a
sequence of what `fgets` returns, so a line longer than its buffer is two pieces, the
second of which may look like a line of its own.

### TncConfig

The tool's steps are its calls; between them the TNC answers, forwards a radio frame,
and bytes arrive one at a time, so that a read may find any part of what was sent.
`healthy` records that every answer so far came in time, whole and alone. `DecodeExByte` is one
turn of the loop of `kiss_decode_ex`, `Decoding` the loop, `Decoded` what it leaves, `Response` what
`_read_config_response` and the length check of its caller make of that. `LineSize`, `RespSize` and `LenRange` are
the 5120 bytes one read takes, the 256 of `resp` and the 256 values of the `uint8_t` a length goes into. A frame that
decodes to more than `RespSize` bytes overruns `resp`; what the tool does then is undefined, and the model stops
there (`pc = "overrun"`). On a line that was hung up `read_from_serial` reads for ever (`"hung"`).

## 3. What the runs show

| Run | Instance | Shows |
|---|---|---|
| `tier2` | 2 reports, 2 descriptors, 1 failing attempt, queue 2, 4 lines | types; verified means accepted by this connection's server; reports only on accepted connections; unverified means refused, or a comment taken for the answer; `GatedSession` is implemented; attempts are spaced; a lost peer is given up; a login never waits for ever; a disconnected client connects again |
| `tier2_socket_leak` (violated) | as many failing attempts as descriptors | a failed `connect` leaks its socket until no retry can succeed |
| `ustream_buffer` | chunks of 3 and 4 bytes, 2 of each at most, writes of up to 4 | counters and chunks agree; bytes stay in order and where the loops look for them; a stream is blocked only when it is full and the client can unblock it |
| `lines_one_stream` | 1 stream, buffer 4, 8 bytes | no byte is lost or duplicated and lines are cut exactly at their ends, however the reads fall and across reopening |
| `lines_two_streams` (violated) | 2 streams, 4 bytes each | a pending line of one stream hides the end of a line of the other |
| `kiss_frames` | 12 kinds of frames, buffer of 4 | frames read in step arrive intact or, as control frames, not at all; at most one byte goes behind the buffer, in a frame too long for it; after a disturbance at most one is misread; the timer is pending exactly while a frame is unfinished |
| `modem_session` | reopen and init wait 1, switch delay 3, keepalive 1, buffer of 2 pieces | the session is initialised, gets to KISS mode, is closed when unplugged and opened again; closed means detached; text is never decoded as AX.25 |
| `uloop` | 2 timers, 2 descriptors, delays of 0 and 1 ms, at most 1 ms between two looks at the clock | the timer list stays sorted although comparisons are rough; no old event reaches a deleted or re-added descriptor; neither timers nor events starve; a signal ends the loop wherever it comes |
| `gateway` | 10 packets, paths of up to 3, call signs of 2, beacon every 3 ticks and 1 late, log of 4 lines, dumps of 2, files of 0 or 9 left | what reaches the server is what may, as its station sent it; the beacon keeps its pace; the log and its predecessor stay bounded, whichever removes, renames and opens fail |
| `config` | 4 keys, 5 values, 4 files, 2 options | what `main` gets is, key by key, what options, file and defaults say, and fits |
| `config_no_file` (violated) | the same | options are forgotten when there is no file |
| `tnc_config` | 3 settings of 3 bytes, 2 call data of 2, 6 radio frames of up to 8 bytes, 2 of them in one exchange, `resp` of 6, lengths modulo 6 | what the tool takes for the parameters is the TNC's or one radio frame that passes for them; `resp` is overrun only by a radio frame longer than it; the exchange succeeds when the answers come whole and alone |

The violated runs are the findings of `PROJECT.json`, each with the comment or
message of the repository that says otherwise. `tier2` allows one
failing attempt with two descriptors because of the first of them: with as many
failures as descriptors the client never connects again.

### Further disagreements

Met while modelling; the model takes the code's side in each, and no run is spent on them.

- `xstream.h:79` says of `xstream_free` that it will "detach from the uloop", but
  `xstream.c:201-205` leaves the `state_change` timer linked. A client closed between end of
  stream and state change zeroes a linked timer when it opens again (`OpenOverLinkedTimer`).
- `tier2_client_publish` reports "callsign %.9s is NOT verified" also of a login the server
  accepted, when a comment came before the verdict (`tier2_client.c:240`, `:282`; `:114` says that the server
  sends one every 20 s). `ServerTalks` is that comment, and `RefusalHasCause` names it as the one other cause.
- `kiss_codec.c:124` says "finally check buffer overflow", one byte after it (`filled`).
- `tnc_config.c:192` promises "0 if timeout", but a line that was hung up is readable for ever and the loop of
  `:198-203` does not end.
- A frame of more than 256 bytes on the line overruns `resp` in `tnc_config.c:386`, whose size `kiss_decode_ex` is never told.
- The CRC of a control frame is updated once more for every FESC in it (`kiss_codec.c:140`), so a
  frame with an escaped byte and a right CRC is refused; `Intact` says of it only that it is not altered.
- When the codec is switched while a text line is pending, the kiss codec is handed the object of
  the crlf codec (`kiss_codec.c:155-156`; `ReadKissAstray`, `ReadCrashes`).
- The tool says "TNC calldata read OK" of any frame of the right length, since call data has no
  check sum (`tnc_config.c:412`), so a piece of a radio frame will do.
- `publish` returning 0 for a stream that failed is logged as success (`tinyaprsd.c:171`, `:189`).
- `config.c:354` promises `foo='bar'`, but the quotes stay in the value; `do_daemonize` goes to `/tmp`
  before a relative path of the file is opened (`utils.c:88`).
- `serial.c:87` leaves a descriptor open when the port cannot be set up; a log that fails to reopen
  stays closed (`log.c:60`); `aprsutil_hash` takes `argv[1]` (`aprs_util.c:31-35`), its own name.

Bounds. The time constants of `Tier2Client` are 1, 2 and 3 and keep the order of
the code's (reconnect 15 s, idle 90 s, keepalive 120 s). Two reports show order and
duplication. A queue of two holds the login and what follows it, or two reports, or a
keepalive and a report. A failed attempt shows the growing delay and
its reset. Four lines are the greeting and the verdict with their blanks, so the
server may answer before the client read its greeting. In `LineCodec` a buffer of
four fills with and without an end in it, twice over eight bytes. In `KissCodec`
frames are empty, full to the byte, one and two too long, and there is no bound on
their number. In `Modem` the switch delay is longer than a close, a wait and a
reopening, so the switch timer of one session fires in the next, in every state;
a buffer of two pieces fills before the switch. In `Uloop` two timers
show order and two descriptors a batch with an entry behind the one served; there is no
bound on laps or calls. In `UstreamBuf` two chunks show every place a byte can be in: a drained
head, a full head before a tail, a tail with room, and a limit; `Wrap` is larger than what
the buffers hold, so that no two bytes in them have the same number. In `Gateway` there
is one packet for each reason not to relay one, and one that is too short and one
that is no UI frame; the beacon is first due earlier than its interval, as in the code, and a log of
four lines is rotated in the middle of what one frame writes; `MaxThere` is more than one daemon writes, so that a
restart finds a file longer than any limit, and `Left` has it and an empty one. In `Config` there is a value that
fits, one that is cut, an empty one, a negative number and a text for a number; files repeat keys, hold unknown ones and
a line cut in two. In `TncConfig` every special byte of KISS occurs in some value,
and radio frames have the length of an answer, pass for one, are as long as `resp`, and two bytes longer, so that
the length modulo six is that of call data. In `Tier2Client` four lines also hold a comment between greeting and verdict. The clocks need no bound on the
number of steps. Deadlock is checked wherever the system runs for ever; `gateway`, `config` and
`tnc_config` do end, by a signal, with the file read, and with the tool.

Fairness, in the `FairSpec` of `Tier2Client` and of `Modem`: weak fairness of the
timer's work, of reading, of the state change timer, of the mode switch timer and
of time. `uloop_run` polls with the time to the next timer as its limit and serves
all expired timers and all ready descriptors before it polls again, and no
callback blocks for ever; so what stays due is served. `Uloop` shows that
the loop does so; it assumes itself only that the thread is scheduled, that callbacks
return and that time goes on. No fairness of the server,
the network, the TNC, the relay or of writing is assumed. `UnpluggedIsClosed`
excepts a stream blocked by a read buffer full of one unfinished line: the code
never leaves that state by itself.

## 4. What is proved

All eight proof modules are checked for every value of the constants that
satisfies the ASSUMEs of their modules; what a theorem assumes beyond those is in its
statement and named below.

How loops are proved. The operators of the models are recursive functions or folds, and
the proofs need what they compute for every input. `Lemmas` derives induction from the
library's well-founded order of the numbers: a non-empty set of numbers has a least one
(`WFMin`, `NatLessThanWellFounded`), so a set that holds 0 and with `n` also `n + 1` is `Nat`
(`SetInduction`; from `a` to `b`: `InductionUpTo`). It is stated of a set, because the provers
cannot instantiate the library's theorems, which take an operator. `LoopExists` gives
from it that a function defined turn by turn exists, so that the CHOOSE a recursive
definition stands for has that function's values. `FlattenAppend` does the same for the fold of `FlattenSeq`.

**Tier 2 client.**

- `Lemmas` says that every stream operator keeps a stream that holds only messages
  of some set so, and hands only such messages to the kernel. The set is a
  parameter: with all messages this is type correctness, with logins and keepalives
  it is half of `AdmissionInv`. `WriteAppends` and `FlushMoves` add the order: what is sent
  plus what stays buffered is what was there, plus the message unless it was dropped.
- `TypeCorrect`: `Spec => []TypeOK`.
- `AdmissionInvariant`, `VerifiedIsAccepted`, `ReportsReachAcceptingServer`.
  The two properties are not inductive alone. `AdmissionInv` adds why: until the
  server accepts, no positive answer is on its way to the client, and the wire
  and the write buffer hold nothing but logins and keepalives.
- `RefusalIsTheServers`: a client that is unverified was refused, or its server commented before the verdict; no
  blank line, greeting or line of an earlier connection makes it so. `RefusedInv` adds that without such a comment nothing but
  empty lines is in front of a verdict the client waits for, so a client whose server accepted it reads
  that before anything else. That the comment does make it unverified is a further disagreement.
- `AttemptsAreSpaced`, from `SpacingInv`: the last line of a connection is never
  older than the attempt that opened it, so giving it up for idleness implies
  that the attempt is at least as long ago.
- `LoginInvariant` and `ClientImplementsSession`: a new connection carries
  nothing, one that waits for its verdict at most the login; with that every step
  of the client is a step of `GatedSession` or leaves it alone.

**Lines** (`LineCodec`).

- `TypeCorrect`, for any number of streams: with `Read` taking no more than there is room for,
  what the search leaves is no longer than what it searched, and so is the offset it keeps.
- `NothingLost`, for any number of streams: `AllFound` is the loop invariant of `Scan`. After `i`
  bytes, the lines found with their ends and the bytes behind the last are the
  first `i` bytes. It holds for every offset: a shared `objbuf` misplaces ends, but loses nothing.
- `OneStreamFramed`, assuming `Streams = {only}`; for two the run `lines_two_streams` refutes it. It needs
  `SkipsSearched`: the bytes a search skips are in the buffer since an earlier search,
  which found no end in them.

**Chunked buffers** (`UstreamBuf`).

- The invariant is `BufInv`. `Shape` says where the code's loops may rely on finding bytes: no chunk before
  `data_tail` is empty, and those behind it are fresh, as `ustream_free_buf` leaves them.
  `Holds` says which bytes: the contents of the list are the numbers from the next one due to one end
  up to the next one from the other, and `data_bytes` and `buffers` count them. A write list that the
  state change timer freed after an error is excepted: the code leaves its counters
  as they were. `InOrder` alone does not say that no byte hides behind an empty chunk.
- One lemma per loop carries it: `TakeKeeps` (consume and flush, over any number of chunks),
  `StoreKeeps` (a write over as many chunks as the maximum allows), `PrepareKeeps` (squeeze, take the
  next chunk, or allocate one), `FillKeeps`. `LoopExists` gives the loops, `ModShift` the numbers modulo `Wrap`.
- `BufTypeCorrect`, `BytesInOrder` and `BlockedWhenFull`, for every length and minimum of a chunk, every
  maximum of the read side and any or none of the write side. Assumed is that `Wrap` is more than
  the lists hold, without which two bytes would have one number; `MaxPending` bounds
  what a write side without a maximum holds.

**KISS frames** (`KissCodec`).

- `TypeCorrect` has the room of the buffer in it (`Room`): no more than `MaxData` bytes between two bytes of the line, and
  behind the buffer never more than one, only in a frame that is given up. That such a frame is at least the buffer
  and three bytes long on the line, however the decoder came into it, follows from the bytes that are gone from it.
- `TimerIsTheFrames` and `Resynchronises`. What is left on the
  line is always the end of a frame with a FEND at either end and none between; from that,
  `CalmInv` follows byte by byte: a decoder that gave nothing up since the last frame began is idle
  between frames, and within one it is where the frame's bytes say, unless that frame is the
  first after the disturbance. That escaping leaves no FEND in a body is `StuffedStuffs`, proved over
  the encoder's fold.
- `ArrivesIntact`, from `InStep`: a decoder that entered the frame on the line at its first byte
  holds what the bytes read so far stand for, the escape that is open, and the sum
  of the payload so far if nothing was escaped. `Intact` is about the payload: the command is not handed on, and `modem.c` does
  not look at it. Data frames always arrive, control frames without an escaped byte if and only if their CRC is right; those
  with one arrive unaltered or, as the code counts bytes twice, not at all. `EncodeLaid` and `OnLineLaid` say where on
  the line each byte of the payload is; the check sum is a loop (`Sum8Sums`).

**TNC tool** (`TncConfig`).

- `PrefixDecodes` is what the loop of `kiss_decode_ex` makes of the first bytes of an escaped payload, wherever
  they end: the first bytes of the payload, and all of it if none is missing. An escape may be open
  (`Has`). `EndsSomewhere` and `DecodedIs` find the FEND or the end of what was read; with them `FrameStart` says what
  is decoded of the beginning of a frame, cut anywhere or followed by others.
- `TncTypeCorrect`, from `TakenSize`: of a payload that passes, `resp_len` bytes are there. Radio frames may have any length,
  but one that overruns `resp` stops the model's tool: of a real one that goes on nothing is proved.
- `HealthySucceeds`, from `HealthyInv` and `RoundTrip`. It is here that parameters and call data must fit
  the `uint8_t` of their length (11 and 28 bytes do), and have at least one byte.
- `ParamsOfOneFrame`: the parameters taken are the TNC's, or the beginning of one payload from the radio behind whose
  first `SettingsSize` bytes their check sum follows (`PassesForSettings`). Such a payload is taken, since the tool
  looks neither at the command of a frame nor empties the line, and a sum has eight bits. Nothing else is: no part of an
  answer, no two frames joined, no length cut to eight bits. And the read of the parameters overruns `resp` only for
  one payload from the radio that is longer. Nothing is assumed of the radio's frames.
  `SettingsInv` adds that, until the first read, the line is empty or begins
  with the whole answer or a whole radio frame, and nothing but the parameters was asked for. `PassesFor` shows that a
  cut of a payload passes only if the payload does.

**Modem.**

- `TypeCorrect`, from `DetachInv` and `TypeInv`: pieces are added to the read buffer only by a
  stream that is not blocked.
- `ClosedIsDetached`, from `DetachInv`: the modem closes only after the state change
  timer was taken off the loop's list, and a process that does not run has no session.
- `TextStaysText`: `TextIsNotAx25` is inductive; every step that makes a modem ready
  also settles `kissMode`, and `kissMode` is set only with the codec.

**Event loop** (`Uloop`).

- `TypeCorrect`, `ListStaysSorted` and `NoEventIsStale`, from `LoopInv`. That a list stays sorted
  rests on two facts about `tv_diff`: it is never off by a millisecond or more, and an insertion stops at
  the first entry it finds later, so an error is one of a pair and does not add up along the
  list. `BatchInv` is why no event is stale: deleting a descriptor clears its entries behind
  the one being served, so what is left was fetched for the registration that is there. Assumed:
  timers and descriptors are different objects, and there are finitely many descriptors.

**Relay, beacon and log** (`Gateway`).

- `TypeCorrect` and `BeaconIsPaced`, from `PaceInv`: the time since the beacon was last due
  is `BEACON_INTERVAL - beaconIn`; none was written since, and a session that is up for longer was there
  when it was due. `BeaconPaced` alone does not say when the timer was set.
- `LogStaysBounded`, from `LogInv`, for every outcome of `remove`, `rename` and `fopen`, over files of up to `MaxThere` lines left by an
  earlier daemon. `Longest` is the larger of what one daemon can write and `MaxThere + 1`, the old file with the line that rotates it. Dumps are written without being counted, so the file may be longer
  than its limit; but two lines were counted for every dump except the first, which bounds the number of
  dumps (`LogHolds`). A frame heard writes several lines and rotates the log between any two, so the
  invariant is carried over that loop. `DumpSize` is at least 1.
- `RelayIsFaithful`: decoding undoes what the station's encoder does, for call signs of any length up to
  `CallLen`, SSIDs, any number of repeaters up to `MaxRpt` and any payload. `FrameLaid` gives the place of each byte
  of an encoded frame by induction over the repeaters; `CallDecoded`, `AddrDecoded`, `RptsCounted` and
  `FrameDecoded` read them back; `MessageGated` shows that the filter judges the decoded message as it should judge
  the packet. Assumed: packets are ones a station can encode (`AnyPacket`): printable 7-bit call
  signs without spaces, bytes, no more repeaters than `MaxRpt`.

**Configuration** (`Config`).

- `TypeCorrect`, from `CutFits` and `SetKvFits`: a value that is stored, from the command line,
  the file or the shadow configuration, leaves its field as it should be, whichever comes first. It rests on
  the keys in `given` being keys of options: through the shadow value of any other, a
  number would be taken for a text.
- `ConfigIsWhatWasGiven`, from `LoadInv`: after `n` pieces of the file every key has what `Loaded` says of
  those `n`. `PairLoads` is the step: an option's value is stored again without being cut,
  since it was cut to the same field when the option was parsed.

Only model-checked: the liveness properties and the fairness they rest on, which are out of the prover's
reach; and the three properties the code violates. Every invariant and every
action property of a passing run is also a theorem.

## 5. Not modelled

- The third-party `json.c`, `slre.c`, `hash.c`, and `list.h` of libubox.
- Code the daemon's build leaves out: `kiss.c`, `iokit.c`, `fifobuf.h`, `usock.c`, `ser_test.c`; kqueue.
- Nested loops, child processes and their signals in `uloop`: the daemon has none.
- A set-up of the serial port that fails behind its `open` (`serial.c:87-91`): `OpenFails` is a port that is not there.
- A log over several daemons whose `rename` and `fopen` both fail time and again: each may add the one line that rotates it.
- `malloc` that fails, in `ustream.c` and elsewhere.
- `aprs_util.c`, the printing of settings in `tnc_config.c`, the texts of `log.c`, the beacon's text,
  `setsockopt`, terminal attributes: formatting and I/O without state.
- What the code does beyond the end of an array: behind `resp` in `tnc_config.c`, where the model stops; a
  frame shorter than its own addresses in `ax25_decode`, more than 64 options in `config.c`, and an argument of 31
  characters and more that leaves the buffer of `parse_location_arg` (`tinyaprsd.c:198-201`) without its end. But for the first, the
  inputs of the models stay below these limits, by `MaxArgs` and the instances.

`Gateway` composes relay, beacon and log with a session reduced to three values; it does not
share its state with `Tier2Client` and `Modem`, whose product is out of TLC's reach. What joins
them is `Publish`, which in both is the report a verified client writes to its stream.
