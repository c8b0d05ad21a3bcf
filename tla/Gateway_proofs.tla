--------------------------- MODULE Gateway_proofs ---------------------------
(***************************************************************************)
(* The beacon keeps its pace for every interval, every delay of its timer  *)
(* and every set of packets; the log stays within its bound for every      *)
(* threshold and every size of a dump; the relay writes what the stations  *)
(* sent, for every set of packets and of exceptions.                       *)
(***************************************************************************)
EXTENDS Gateway, Lemmas

\* PaceInv without sets, for the arithmetic.
LEMMA PaceFacts ==
  ASSUME PaceInv
  PROVE  /\ beaconIn \in Int /\ -MaxLate <= beaconIn /\ beaconIn <= BEACON_INTERVAL
         /\ upFor \in Nat /\ upFor <= Forever /\ quiet \in Nat /\ quiet <= Forever
         /\ Forever \in Nat /\ Forever = BEACON_INTERVAL + MaxLate + 1
         /\ BEACON_INTERVAL \in Nat /\ MaxLate \in Nat
BY GatewayAssumption DEF PaceInv, TypeOK, Forever

LEMMA InitPaced == Init => PaceInv
BY GatewayAssumption DEF Init, PaceInv, TypeOK, Forever

\* A session is broken by a write, never made: the invariant outlives a publish
\* that leaves the beacon's timer alone.
LEMMA PublishPaced ==
  ASSUME PaceInv, NEW m, NEW fails \in BOOLEAN, Publish(m, fails),
         UNCHANGED << mode, beaconIn, quiet >>
  PROVE  PaceInv'
<1>1. session' \in {"up", "broken", "down"} /\ (session' # "down" => session # "down")
  BY DEF Publish, PaceInv, TypeOK
<1>2. upFor' \in {0, upFor} /\ (session' # "up" => upFor' = 0)
  BY DEF Publish, PaceInv
<1>3. TypeOK'
  BY <1>1, <1>2, GatewayAssumption DEF PaceInv, TypeOK, HasClient, Forever
<1>4. beaconIn' = beaconIn /\ quiet' = quiet
  OBVIOUS
<1>5. ASSUME mode = "gateway"
      PROVE  /\ quiet' + beaconIn' >= BEACON_INTERVAL
             /\ upFor' + beaconIn' <= BEACON_INTERVAL \/ quiet' + beaconIn' <= BEACON_INTERVAL
  <2>1. CASE upFor' = 0
    BY <1>4, <1>5, <2>1, PaceFacts DEF PaceInv
  <2>2. CASE upFor' = upFor
    BY <1>5, <2>2 DEF PaceInv
  <2> QED BY <1>2, <2>1, <2>2
<1> QED
  BY <1>2, <1>3, <1>5 DEF PaceInv

LEMMA HearPaced ==
  ASSUME PaceInv, NEW p \in Packets, Hear(p)
  PROVE  PaceInv'
<1>1. UNCHANGED << mode, beaconIn, quiet >>
  BY DEF Hear
<1>2. CASE UNCHANGED << session, upFor >>
  BY <1>1, <1>2 DEF PaceInv, TypeOK, HasClient
<1>3. CASE \E m : \E fails \in BOOLEAN : Publish(m, fails)
  BY <1>1, <1>3, PublishPaced
<1> QED
  BY <1>2, <1>3 DEF Hear, Unsupported, Received, MayFail

\* The beacon is due: the time since then is zero again, and either it is
\* written or no session is up any more.
LEMMA BeaconDuePaced == PaceInv /\ BeaconDue => PaceInv'
<1> SUFFICES ASSUME PaceInv, BeaconDue PROVE PaceInv'
  OBVIOUS
<1> PICK fails \in BOOLEAN : Publish(BeaconPacket, fails)
  BY DEF BeaconDue, MayFail
<1>1. session' \in {"up", "broken", "down"} /\ mode' = mode /\ mode = "gateway"
  BY DEF Publish, BeaconDue, PaceInv, TypeOK
<1>2. upFor' \in {0, upFor} /\ (session' # "up" => upFor' = 0)
  BY DEF Publish, PaceInv
<1>3. quiet' \in {0, quiet} /\ (quiet' = 0 \/ upFor' = 0)
  <2>1. CASE session = "up" /\ ~fails
    BY <2>1 DEF Publish, BeaconDue
  <2>2. CASE ~(session = "up" /\ ~fails)
    BY <2>2 DEF Publish, BeaconDue, PaceInv
  <2> QED BY <2>1, <2>2
<1>4. beaconIn' = BEACON_INTERVAL
  BY DEF BeaconDue
<1>5. TypeOK'
  BY <1>1, <1>2, <1>3, <1>4, PaceFacts DEF PaceInv, TypeOK, HasClient
<1>6. /\ quiet' + beaconIn' >= BEACON_INTERVAL
      /\ upFor' + beaconIn' <= BEACON_INTERVAL \/ quiet' + beaconIn' <= BEACON_INTERVAL
  BY <1>3, <1>4, PaceFacts
<1> QED
  BY <1>1, <1>2, <1>5, <1>6 DEF PaceInv

\* A tick moves both counters and the timer by one, or finds a counter at its
\* end, where it is behind every time the timer can be at.
LEMMA TickPaced == PaceInv /\ Tick => PaceInv'
<1> SUFFICES ASSUME PaceInv, Tick PROVE PaceInv'
  OBVIOUS
<1>1. /\ upFor' \in 0 .. Forever /\ quiet' \in 0 .. Forever
      /\ upFor' <= upFor + 1 /\ quiet' <= quiet + 1
      /\ quiet' = Forever \/ quiet' = quiet + 1
      /\ session' # "up" => upFor' = 0
  BY GatewayAssumption DEF Tick, OneMore, PaceInv, TypeOK, Forever
<1>2. UNCHANGED << mode, session >> /\ mode # "start"
  BY DEF Tick
<1>3. CASE mode = "gateway"
  <2>1. beaconIn' = beaconIn - 1 /\ beaconIn' \in -MaxLate .. BEACON_INTERVAL
    BY <1>3, GatewayAssumption DEF Tick, PaceInv, TypeOK
  <2>2. quiet' + beaconIn' >= BEACON_INTERVAL
    <3>1. quiet + beaconIn >= BEACON_INTERVAL
      BY <1>3 DEF PaceInv
    <3> QED BY <1>1, <2>1, <3>1, PaceFacts
  <2>3. upFor' + beaconIn' <= BEACON_INTERVAL \/ quiet' + beaconIn' <= BEACON_INTERVAL
    <3>1. upFor + beaconIn <= BEACON_INTERVAL \/ quiet + beaconIn <= BEACON_INTERVAL
      BY <1>3 DEF PaceInv
    <3> QED BY <1>1, <2>1, <3>1, PaceFacts
  <2> QED BY <1>1, <1>2, <1>3, <2>1, <2>2, <2>3 DEF PaceInv, TypeOK, HasClient
<1>4. CASE mode # "gateway"
  <2>1. beaconIn' = beaconIn
    BY <1>4 DEF Tick
  <2> QED BY <1>1, <1>2, <1>4, <2>1 DEF PaceInv, TypeOK, HasClient
<1> QED BY <1>3, <1>4

LEMMA StartPaced == PaceInv /\ Start => PaceInv'
<1> SUFFICES ASSUME PaceInv, Start PROVE PaceInv'
  OBVIOUS
<1>1. session = "down" /\ upFor = 0 /\ beaconIn = BeaconFirst /\ quiet = Forever
  BY DEF Start, PaceInv, TypeOK, HasClient
<1>2. /\ UNCHANGED << session, upFor, quiet, beaconIn >>
      /\ mode' \in {"gateway", "tncMonitor", "serverMonitor", "exited"}
  BY <1>1 DEF Start
<1>3. TypeOK'
  BY <1>1, <1>2 DEF PaceInv, TypeOK, HasClient
<1>4. /\ quiet' + beaconIn' >= BEACON_INTERVAL
      /\ upFor' + beaconIn' <= BEACON_INTERVAL
  BY <1>1, <1>2, PaceFacts
<1> QED
  BY <1>1, <1>2, <1>3, <1>4 DEF PaceInv

\* Every step keeps the pace.
LEMMA NextPaced == PaceInv /\ [Next]_vars => PaceInv'
<1> SUFFICES ASSUME PaceInv, [Next]_vars PROVE PaceInv'
  OBVIOUS
<1>1. CASE Start
  BY <1>1, StartPaced
<1>2. CASE Stop
  BY <1>2, PaceFacts DEF Stop, PaceInv, TypeOK, HasClient
<1>3. CASE Verified
  BY <1>3 DEF Verified, PaceInv, TypeOK, HasClient, beaconVars
<1>4. CASE Lost
  BY <1>4, PaceFacts DEF Lost, PaceInv, TypeOK, HasClient
<1>5. CASE \E p \in Packets : Hear(p)
  BY <1>5, HearPaced
<1>6. CASE BeaconDue
  BY <1>6, BeaconDuePaced
<1>7. CASE LogOther
  BY <1>7 DEF LogOther, PaceInv, TypeOK, HasClient, beaconVars
<1>8. CASE Tick
  BY <1>8, TickPaced
<1>9. CASE UNCHANGED vars
  BY <1>9 DEF vars, beaconVars, PaceInv, TypeOK, HasClient
<1> QED
  BY <1>1, <1>2, <1>3, <1>4, <1>5, <1>6, <1>7, <1>8, <1>9 DEF Next

LEMMA PacedThroughout == Spec => []PaceInv
<1> QED BY InitPaced, NextPaced, PTL DEF Spec

\* beacon.c and tinyaprsd.c: there is a session only in a mode with a client,
\* and the beacon's timer stays between its latest and its earliest.
THEOREM TypeCorrect == Spec => []TypeOK
<1>1. PaceInv => TypeOK
  BY DEF PaceInv
<1> QED BY <1>1, PacedThroughout, PTL

\* beacon.c, on_timer_update: a session up for longer than an interval was told
\* of the gate within that time, and no beacon comes within an interval of
\* the last.
THEOREM BeaconIsPaced == Spec => []BeaconPaced
<1>1. PaceInv => BeaconPaced
  BY GatewayAssumption DEF PaceInv, TypeOK, BeaconPaced, Forever
<1> QED BY <1>1, PacedThroughout, PTL

-----------------------------------------------------------------------------
(* The log                                                                 *)

\* A factor keeps the order, and a sum can be multiplied out.
LEMMA Multiples ==
  ASSUME NEW a \in Nat, NEW b \in Nat, NEW c \in Nat, b <= c
  PROVE  a * b <= a * c /\ a * (b + 1) = a * b + a /\ a * b \in Nat
<1>1. PICK d \in Nat : c = b + d
  <2>1. c - b \in Nat /\ c = b + (c - b)
    OBVIOUS
  <2> QED BY <2>1
<1>2. a * (b + d) = a * b + a * d /\ a * d \in Nat
  OBVIOUS
<1> QED BY <1>1, <1>2

\* A line of log_log before the rotation.
Longer(l) == [l EXCEPT !.size = IF l.open \/ @ < Threshold THEN @ + 1 ELSE @,
                       !.file = IF l.open THEN @ + 1 ELSE @]

LEMMA LongerType ==
  ASSUME NEW l \in Log
  PROVE  /\ Longer(l) \in Log /\ Longer(l).open = l.open /\ Longer(l).old = l.old
         /\ l.open => Longer(l).size = l.size + 1 /\ Longer(l).file = l.file + 1
         /\ ~l.open => Longer(l).file = l.file
<1>1. l.size \in Nat /\ l.file \in Nat /\ l.old \in Nat /\ l.open \in BOOLEAN
  BY DEF Log
<1> DEFINE s == IF l.open \/ l.size < Threshold THEN l.size + 1 ELSE l.size
           f == IF l.open THEN l.file + 1 ELSE l.file
<1>2. s \in Nat /\ f \in Nat
  BY <1>1
<1>3. /\ l.open => s = l.size + 1 /\ f = l.file + 1
      /\ ~l.open => f = l.file
  OBVIOUS
<1>4. Longer(l) = [l EXCEPT !.size = s, !.file = f]
  BY DEF Longer
<1> HIDE DEF s, f
<1> DEFINE n == [l EXCEPT !.size = s, !.file = f]
<1>5. n \in Log /\ n.open = l.open /\ n.old = l.old /\ n.size = s /\ n.file = f
  BY <1>2 DEF Log
<1> QED BY <1>3, <1>4, <1>5

LEMMA LogLineIs ==
  ASSUME NEW l \in Log, NEW io \in Io
  PROVE  LogLine(l, io) =
           IF Longer(l).size >= Threshold THEN Rotate(Longer(l), io) ELSE Longer(l)
BY DEF LogLine, Longer

\* What a rotation leaves of an open log, whatever comes of its calls.
LEMMA RotateLeaves ==
  ASSUME NEW l \in Log, l.open, NEW io \in Io
  PROVE  /\ Rotate(l, io) \in Log
         /\ Rotate(l, io).open => Rotate(l, io).size = 0 /\ Rotate(l, io).file = 0
         /\ Rotate(l, io).file \in {0, l.file}
         /\ Rotate(l, io).old \in {0, l.file, l.old}
<1>1. io.opened \in BOOLEAN /\ io.moved \in BOOLEAN /\ io.removed \in BOOLEAN
  BY DEF Io
<1>2. l.size \in Nat /\ l.file \in Nat /\ l.old \in Nat
  BY DEF Log
<1> DEFINE size == IF io.opened THEN 0 ELSE l.size
           file == IF io.moved \/ io.opened THEN 0 ELSE l.file
           old == IF io.moved THEN l.file ELSE IF io.removed THEN 0 ELSE l.old
           n == [open |-> io.opened, size |-> size, file |-> file, old |-> old]
<1>3. /\ size \in Nat /\ file \in {0, l.file} /\ old \in {0, l.file, l.old}
      /\ io.opened => size = 0 /\ file = 0
  BY <1>2
<1>4. Rotate(l, io) = n
  BY DEF Rotate
<1> HIDE DEF size, file, old
<1>5. n.open = io.opened /\ n.size = size /\ n.file = file /\ n.old = old /\ n \in Log
  BY <1>1, <1>2, <1>3 DEF Log
<1> HIDE DEF n
<1> QED BY <1>3, <1>4, <1>5

LEMMA LineType ==
  ASSUME NEW l \in Log, NEW io \in Io
  PROVE  LogLine(l, io) \in Log
<1>1. Longer(l) \in Log
  BY LongerType
<1>2. ASSUME NEW n \in Log PROVE Rotate(n, io) \in Log
  <2>1. CASE n.open
    BY <2>1, RotateLeaves
  <2>2. CASE ~n.open
    BY <2>2 DEF Rotate
  <2> QED BY <2>1, <2>2
<1> QED BY <1>1, <1>2, LogLineIs

\* The bound, against what is logged and what is found.
LEMMA LongestIs ==
  /\ Longest \in Nat /\ MostLogged \in Nat /\ MostLogged <= Longest
  /\ MaxThere \in Nat /\ MaxThere + 1 <= Longest /\ Threshold < MostLogged
<1> USE LogAssumption, GatewayAssumption
<1> DEFINE half == (Threshold + 1) \div 2
           y == DumpSize * half
<1>1. half \in Nat /\ half >= 1
  OBVIOUS
<1>2. DumpSize * 1 <= y /\ y \in Nat /\ DumpSize * 1 = DumpSize
  <2> HIDE DEF half
  <2> QED BY <1>1, Multiples
<1>3. MostLogged = Threshold + y
  BY DEF MostLogged
<1> HIDE DEF y, half
<1>4. MostLogged \in Nat /\ Threshold < MostLogged
  BY <1>2, <1>3
<1> QED BY <1>4 DEF Longest

\* So many dumps fit into a log that has not been rotated.
LEMMA DumpsFit ==
  ASSUME NEW dumps \in Nat, 2 * dumps <= Threshold + 1
  PROVE  Threshold + DumpSize * dumps <= MostLogged /\ DumpSize * dumps \in Nat
<1> USE LogAssumption
<1> DEFINE half == (Threshold + 1) \div 2
<1>1. half \in Nat /\ dumps <= half
  OBVIOUS
<1> HIDE DEF half
<1>2. DumpSize * dumps <= DumpSize * half /\ DumpSize * dumps \in Nat /\ DumpSize * half \in Nat
  BY <1>1, Multiples
<1> QED BY <1>2 DEF MostLogged, half

\* log_log keeps the bound and counts for the next dump.
LEMMA LineHolds ==
  ASSUME NEW l \in Log, NEW lines \in Nat, LogHolds(l, lines), NEW io \in Io
  PROVE  LogLine(l, io) \in Log /\ LogHolds(LogLine(l, io), lines + 1)
<1> DEFINE n == Longer(l)
<1> USE LogAssumption
<1>1. CASE ~l.open
  <2>1. n \in Log /\ n.open = FALSE /\ n.file = l.file /\ n.old = l.old
    BY <1>1, LongerType DEF Log
  <2>2. LogLine(l, io) = n
    BY <2>1, LogLineIs DEF Rotate
  <2> HIDE DEF n
  <2> QED BY <1>1, <2>1, <2>2 DEF LogHolds
<1>2. CASE l.open
  <2>1. PICK dumps \in 0 .. Threshold :
          /\ l.file <= l.size + DumpSize * dumps
          /\ dumps = 0 \/ 2 * dumps + lines <= l.size + 2
          /\ l.size < Threshold \/ (l.size <= MaxThere /\ dumps = 0 /\ lines = 0)
    BY <1>2 DEF LogHolds
  <2>2. /\ n \in Log /\ n.open = TRUE /\ n.size = l.size + 1 /\ n.file = l.file + 1
        /\ n.old = l.old /\ l.size \in Nat /\ l.file \in Nat /\ n.size \in Nat
        /\ n.file \in Nat
    BY <1>2, LongerType DEF Log
  <2> HIDE DEF n
  <2>3. CASE n.size < Threshold
    <3>1. LogLine(l, io) = n
      BY <2>2, <2>3, LogLineIs DEF n
    <3>2. /\ n.file <= n.size + DumpSize * dumps
          /\ dumps = 0 \/ 2 * dumps + (lines + 1) <= n.size + 2
      <4>1. DumpSize * dumps \in Nat
        BY Multiples
      <4> QED BY <2>1, <2>2, <4>1
    <3>3. n.old <= Longest
      BY <2>2 DEF LogHolds
    <3>4. LogHolds(n, lines + 1)
      BY <2>1, <2>2, <2>3, <3>2, <3>3 DEF LogHolds
    <3> QED BY <2>2, <3>1, <3>4
  <2>4. CASE ~(n.size < Threshold)
    <3>1. LogLine(l, io) = Rotate(n, io)
      BY <2>2, <2>4, LogLineIs DEF n
    <3>2. n.file <= Longest
      <4>1. CASE l.size <= MaxThere /\ dumps = 0
        <5>1. DumpSize * dumps = 0
          BY <4>1
        <5>2. n.file <= MaxThere + 1
          BY <2>1, <2>2, <4>1, <5>1, LongestIs
        <5> QED BY <2>2, <5>2, LongestIs
      <4>2. CASE l.size < Threshold
        <5>1. l.size = Threshold - 1
          BY <2>2, <2>4, <4>2
        <5>2. 2 * dumps <= Threshold + 1 /\ dumps \in Nat
          BY <2>1, <5>1
        <5>3. Threshold + DumpSize * dumps <= MostLogged /\ DumpSize * dumps \in Nat
          BY <5>2, DumpsFit
        <5> QED BY <2>1, <2>2, <5>1, <5>3, LongestIs
      <4> QED BY <2>1, <4>1, <4>2
    <3> DEFINE r == Rotate(n, io)
    <3>3. /\ r \in Log /\ (r.open => r.size = 0 /\ r.file = 0)
          /\ r.file \in {0, n.file} /\ r.old \in {0, n.file, l.old}
      BY <2>2, RotateLeaves
    <3> HIDE DEF r
    <3>4. DumpSize * 0 = 0 /\ l.old <= Longest
      BY DEF LogHolds
    <3>5. r.file <= Longest /\ r.old <= Longest
      BY <3>2, <3>3, <3>4, LongestIs
    <3>6. r.open => \E more \in 0 .. Threshold :
            /\ r.file <= r.size + DumpSize * more
            /\ more = 0 \/ 2 * more + (lines + 1) <= r.size + 2
            /\ r.size < Threshold \/ (r.size <= MaxThere /\ more = 0 /\ lines + 1 = 0)
      <4>1. 0 \in 0 .. Threshold
        OBVIOUS
      <4> QED BY <3>3, <3>4, <4>1
    <3>7. r \in Log /\ LogHolds(r, lines + 1)
      BY <3>3, <3>5, <3>6 DEF LogHolds
    <3> QED BY <3>1, <3>7 DEF r
  <2> QED BY <2>3, <2>4
<1> QED BY <1>1, <1>2 DEF Log

\* So do n lines in a row.
LEMMA LinesHold ==
  ASSUME NEW l \in Log, LogHolds(l, 0), NEW n \in Nat, NEW io \in Io
  PROVE  LogLines(l, n, io) \in Log /\ LogHolds(LogLines(l, n, io), n)
<1> DEFINE Good(x, k) == x \in Log /\ LogHolds(x, k)
           after == CHOOSE a : a = [k \in 0 .. n |-> IF k = 0 THEN l ELSE LogLine(a[k - 1], io)]
<1>1. \E a : a = [k \in 0 .. n |-> IF k = 0 THEN l ELSE LogLine(a[k - 1], io)]
  <2> DEFINE turn == [k \in 1 .. n |-> [x \in Log |-> LogLine(x, io)]]
  <2>1. \A k \in 1 .. n : \A x \in Log : turn[k][x] = LogLine(x, io)
    OBVIOUS
  <2>2. \A x \in Log : LogLine(x, io) \in Log
    BY LineType
  <2> HIDE DEF turn
  <2>3. \A k \in 1 .. n : \A x \in Log : turn[k][x] \in Log
    BY <2>1, <2>2
  <2>4. PICK f : f \in LoopRuns(Log, n, l, turn)
    BY <2>3, LoopExists
  <2>5. f \in [0 .. n -> Log] /\ f[0] = l /\ \A k \in 1 .. n : f[k] = turn[k][f[k - 1]]
    BY <2>4 DEF LoopRuns
  <2>6. \A k \in 1 .. n : f[k] = LogLine(f[k - 1], io)
    BY <2>1, <2>5
  <2>7. f = [k \in 0 .. n |-> IF k = 0 THEN l ELSE LogLine(f[k - 1], io)]
    BY <2>5, <2>6
  <2> QED BY <2>7
<1>2. after = [k \in 0 .. n |-> IF k = 0 THEN l ELSE LogLine(after[k - 1], io)]
  BY <1>1
<1>3. LogLines(l, n, io) = after[n]
  BY DEF LogLines
<1> HIDE DEF after
<1> DEFINE G == {k \in 0 .. n : Good(after[k], k)}
<1>4. 0 \in G
  BY <1>2
<1>5. ASSUME NEW k \in 0 .. n - 1, k \in G PROVE k + 1 \in G
  <2>1. k + 1 \in 0 .. n /\ k \in Nat /\ (k + 1) - 1 = k /\ k + 1 # 0
    OBVIOUS
  <2>2. after[k + 1] = LogLine(after[k], io)
    BY <1>2, <2>1
  <2>3. Good(after[k], k)
    BY <1>5
  <2>4. Good(LogLine(after[k], io), k + 1)
    BY <2>1, <2>3, LineHolds
  <2> QED BY <2>1, <2>2, <2>4
<1>6. \A k \in 0 .. n : k \in G
  <2> HIDE DEF G
  <2>1. 0 \in Int /\ n \in Int /\ (0 <= n => 0 \in G)
    BY <1>4
  <2>2. \A k \in 0 .. n - 1 : k \in G => k + 1 \in G
    BY <1>5
  <2> QED BY ONLY <2>1, <2>2, InductionUpTo
<1>7. Good(after[n], n)
  BY <1>6
<1> QED BY <1>3, <1>7

\* Lines written since the last dump are not needed.
LEMMA HoldsAgain ==
  ASSUME NEW l, NEW lines \in Nat, l \in Log, LogHolds(l, lines)
  PROVE  LogHolds(l, 0)
<1>1. CASE l.open
  <2>1. PICK dumps \in 0 .. Threshold :
          /\ l.file <= l.size + DumpSize * dumps
          /\ dumps = 0 \/ 2 * dumps + lines <= l.size + 2
          /\ l.size < Threshold \/ (l.size <= MaxThere /\ dumps = 0 /\ lines = 0)
    BY <1>1 DEF LogHolds
  <2>2. dumps = 0 \/ 2 * dumps + 0 <= l.size + 2
    BY <2>1, LogAssumption DEF Log
  <2> QED BY <1>1, <2>1, <2>2 DEF LogHolds
<1>2. CASE ~l.open
  BY <1>2 DEF LogHolds
<1> QED BY <1>1, <1>2

\* Any row of lines keeps the bound.
LEMMA RowLogs ==
  ASSUME NEW l \in Log, LogHolds(l, 0), NEW n \in Nat, NEW io \in Io
  PROVE  LogLines(l, n, io) \in Log /\ LogHolds(LogLines(l, n, io), 0)
<1>1. LogLines(l, n, io) \in Log /\ LogHolds(LogLines(l, n, io), n)
  BY LinesHold
<1> QED BY <1>1, HoldsAgain

\* A dump behind two lines or more keeps the bound.
LEMMA DumpHolds ==
  ASSUME NEW l \in Log, NEW lines \in Nat, lines >= 2, LogHolds(l, lines)
  PROVE  LogDump(l) \in Log /\ LogHolds(LogDump(l), 0)
<1> USE LogAssumption
<1>1. CASE ~l.open
  BY <1>1, HoldsAgain DEF LogDump
<1>2. CASE l.open
  <2>1. PICK dumps \in 0 .. Threshold :
          /\ l.file <= l.size + DumpSize * dumps
          /\ dumps = 0 \/ 2 * dumps + lines <= l.size + 2
          /\ l.size < Threshold
    BY <1>2 DEF LogHolds
  <2> DEFINE r == LogDump(l)
  <2>2. /\ r \in Log /\ r.open = TRUE /\ r.size = l.size /\ r.old = l.old
        /\ r.file = l.file + DumpSize /\ l.size \in Nat /\ l.file \in Nat
    BY <1>2 DEF LogDump, Log
  <2> HIDE DEF r
  <2>3. 2 * (dumps + 1) <= l.size + 2 /\ dumps + 1 \in 0 .. Threshold
    BY <2>1, <2>2
  <2>4. DumpSize * (dumps + 1) = DumpSize * dumps + DumpSize /\ DumpSize * dumps \in Nat
    BY Multiples
  <2>5. r.file <= r.size + DumpSize * (dumps + 1) /\ 2 * (dumps + 1) + 0 <= r.size + 2
    BY <2>1, <2>2, <2>3, <2>4
  <2>6. LogHolds(r, 0)
    BY <1>2, <2>1, <2>2, <2>3, <2>5 DEF LogHolds
  <2> QED BY <2>2, <2>6 DEF r
<1> QED BY <1>1, <1>2

\* ax25_decode logs no line for a frame that is too short, otherwise two and
\* one for every repeater.
LEMMA RptCountType ==
  ASSUME NEW data
  PROVE  RptCount(data) \in 0 .. MaxRpt
<1> DEFINE Ends(n) == n = MaxRpt \/ EndOfAddrs(data, n + 2)
           S == {n \in 0 .. MaxRpt : Ends(n)}
<1>1. S \in SUBSET Nat /\ MaxRpt \in S
  BY Ax25Assumption
<1>2. PICK n \in S : \A m \in S : n <= m
  <2> HIDE DEF S
  <2> QED BY <1>1, LeastNumber
<1>3. n \in 0 .. MaxRpt /\ Ends(n)
  OBVIOUS
<1>4. ASSUME NEW i \in 0 .. n - 1 PROVE ~EndOfAddrs(data, i + 2)
  <2>1. i \in 0 .. MaxRpt /\ ~(n <= i)
    BY <1>3, Ax25Assumption
  <2>2. i \notin S
    BY <1>2, <2>1
  <2> QED BY <2>1, <2>2
<1>5. \E k \in 0 .. MaxRpt :
        /\ k = MaxRpt \/ EndOfAddrs(data, k + 2)
        /\ \A i \in 0 .. k - 1 : ~EndOfAddrs(data, i + 2)
  BY <1>3, <1>4
<1> QED BY <1>5, Zenon DEF RptCount

\* The lines relaying a packet adds.
LEMMA RelayLinesType ==
  ASSUME NEW msg, NEW fails
  PROVE  RelayLines(msg, fails) \in Nat /\ BeaconLines(fails) \in Nat
BY DEF RelayLines, BeaconLines, PublishLines

LEMMA HearLogs ==
  ASSUME LogInv, NEW p \in Packets, Hear(p)
  PROVE  LogInv'
<1>1. PICK io \in Io, fails \in MayFail :
        IF Message[p] = << >> THEN Unsupported(Frame[p], io)
        ELSE Received(Frame[p], Message[p][1], io, fails)
  BY DEF Hear
<1> DEFINE d == DecodeLines(Frame[p])
           more == IF mode = "gateway" THEN RelayLines(Message[p][1], fails) + 1 ELSE 0
<1>2. d \in Nat
  BY RptCountType, Ax25Assumption DEF DecodeLines
<1>3. more \in Nat
  BY RelayLinesType
<1> HIDE DEF d, more
<1>4. log \in Log /\ LogHolds(log, 0)
  BY DEF LogInv
<1>5. CASE Message[p] = << >>
  <2>1. log' = LogDump(LogLines(log, 2 + d, io))
    BY <1>1, <1>5 DEF Unsupported, d
  <2>2. 2 + d \in Nat /\ 2 + d >= 2
    BY <1>2
  <2>3. LogLines(log, 2 + d, io) \in Log /\ LogHolds(LogLines(log, 2 + d, io), 2 + d)
    BY <1>4, <2>2, LinesHold
  <2> QED BY <2>1, <2>2, <2>3, DumpHolds DEF LogInv
<1>6. CASE Message[p] # << >>
  <2>1. log' = LogLines(log, 2 + d + more, io)
    BY <1>1, <1>6 DEF Received, d, more
  <2>2. 2 + d + more \in Nat
    BY <1>2, <1>3
  <2> QED BY <1>4, <2>1, <2>2, RowLogs DEF LogInv
<1> QED BY <1>5, <1>6

\* What log_init finds need not be within the threshold.
LEMMA InitHolds ==
  ASSUME NEW there \in 0 .. MaxThere, NEW old \in Nat, old <= Longest, NEW ok \in BOOLEAN
  PROVE  LogInit(there, old, ok) \in Log /\ LogHolds(LogInit(there, old, ok), 0)
<1> USE LogAssumption, GatewayAssumption
<1> DEFINE r == LogInit(there, old, ok)
<1>1. /\ r \in Log /\ r.open = ok /\ r.file = there /\ r.old = old
      /\ ok => r.size = there
  BY DEF LogInit, Log
<1>2. DumpSize * 0 = 0 /\ there <= Longest
  BY LongestIs
<1> HIDE DEF r
<1>3. LogHolds(r, 0)
  <2>1. 0 \in 0 .. Threshold
    OBVIOUS
  <2> QED BY <1>1, <1>2, <2>1 DEF LogHolds
<1> QED BY <1>1, <1>3 DEF r

\* Before the start the files are what an earlier daemon left.
FilesInv ==
  /\ LogInv
  /\ mode = "start" => log.file <= MaxThere

LEMMA LogStays == Spec => []FilesInv
<1>1. Init => FilesInv
  <2> SUFFICES ASSUME Init PROVE FilesInv
    OBVIOUS
  <2> PICK there \in Left, old \in Left : log = LogInit(there, old, FALSE)
    BY DEF Init
  <2>1. /\ there \in 0 .. MaxThere /\ old \in Nat /\ old <= Longest /\ FALSE \in BOOLEAN
        /\ log.file = there /\ there <= MaxThere
    BY GatewayAssumption, LongestIs DEF LogInit
  <2>2. log \in Log /\ LogHolds(log, 0)
    BY <2>1, InitHolds
  <2> QED BY <2>1, <2>2 DEF FilesInv, LogInv
<1>2. FilesInv /\ [Next]_vars => FilesInv'
  <2> SUFFICES ASSUME FilesInv, [Next]_vars PROVE FilesInv'
    OBVIOUS
  <2>1. CASE Start
    <3> PICK ok \in BOOLEAN : log' = LogInit(log.file, log.old, ok)
      BY <2>1 DEF Start
    <3>1. log.file \in 0 .. MaxThere /\ log.old \in Nat /\ log.old <= Longest
      BY <2>1, GatewayAssumption DEF Start, FilesInv, LogInv, LogHolds, Log
    <3>2. log' \in Log /\ LogHolds(log', 0)
      BY <3>1, InitHolds
    <3>3. mode' # "start"
      BY <2>1 DEF Start
    <3> QED BY <3>2, <3>3 DEF FilesInv, LogInv
  <2>2. ASSUME NEW p \in Packets, Hear(p) PROVE FilesInv'
    <3>1. LogInv' /\ mode' # "start"
      BY <2>2, HearLogs DEF Hear, FilesInv
    <3> QED BY <3>1 DEF FilesInv
  <2>3. CASE BeaconDue \/ LogOther
    <3>1. PICK io \in Io, n \in Nat : log' = LogLine(log, io) \/ log' = LogLines(log, n, io)
      <4>1. CASE BeaconDue
        BY <4>1, RelayLinesType DEF BeaconDue
      <4>2. CASE LogOther
        <5>1. 0 \in Nat
          OBVIOUS
        <5> QED BY <4>2, <5>1 DEF LogOther
      <4> QED BY <2>3, <4>1, <4>2
    <3>2. LogInv'
      <4>1. log \in Log /\ LogHolds(log, 0)
        BY DEF FilesInv, LogInv
      <4>2. LogLine(log, io) \in Log /\ LogHolds(LogLine(log, io), 0 + 1)
        BY <4>1, LineHolds
      <4>3. LogHolds(LogLine(log, io), 0)
        BY <4>2, HoldsAgain
      <4>4. LogLines(log, n, io) \in Log /\ LogHolds(LogLines(log, n, io), 0)
        BY <4>1, RowLogs
      <4> QED BY <3>1, <4>2, <4>3, <4>4 DEF LogInv
    <3>3. mode' # "start"
      BY <2>3 DEF BeaconDue, LogOther
    <3> QED BY <3>2, <3>3 DEF FilesInv
  <2>4. CASE Stop \/ Verified \/ Lost \/ Tick \/ UNCHANGED vars
    <3>1. log' = log /\ (mode' = "start" => mode = "start")
      BY <2>4 DEF Stop, Verified, Lost, Tick, vars
    <3> QED BY <3>1 DEF FilesInv, LogInv
  <2> QED BY <2>1, <2>2, <2>3, <2>4 DEF Next
<1> QED BY <1>1, <1>2, PTL DEF Spec

\* log.c, for every threshold and every size of a dump: the log and the file it
\* replaced stay within a bound, though dumps are not counted, whichever removes,
\* renames and opens of a rotation fail, and whatever an earlier daemon left, up
\* to MaxThere lines.
THEOREM LogStaysBounded == Spec => []LogBounded
<1>1. FilesInv => LogBounded
  <2> USE LogAssumption
  <2> SUFFICES ASSUME FilesInv PROVE log.file <= Longest
    BY DEF FilesInv, LogInv, LogHolds, LogBounded
  <2>1. CASE ~log.open
    BY <2>1 DEF FilesInv, LogInv, LogHolds
  <2>2. CASE log.open
    <3>1. PICK dumps \in 0 .. Threshold :
            /\ log.file <= log.size + DumpSize * dumps
            /\ dumps = 0 \/ 2 * dumps + 0 <= log.size + 2
            /\ log.size < Threshold \/ (log.size <= MaxThere /\ dumps = 0)
      BY <2>2 DEF FilesInv, LogInv, LogHolds
    <3>2. log.size \in Nat /\ log.file \in Nat
      BY DEF FilesInv, LogInv, Log
    <3>3. CASE dumps = 0
      <4>1. DumpSize * dumps = 0
        BY <3>3
      <4> QED BY <3>1, <3>2, <4>1, LongestIs
    <3>4. CASE dumps # 0
      <4>1. 2 * dumps <= Threshold + 1 /\ log.size < Threshold /\ dumps \in Nat
        BY <3>1, <3>2, <3>4
      <4>2. Threshold + DumpSize * dumps <= MostLogged /\ DumpSize * dumps \in Nat
        BY <4>1, DumpsFit
      <4> QED BY <3>1, <3>2, <4>1, <4>2, LongestIs
    <3> QED BY <3>3, <3>4
  <2> QED BY <2>1, <2>2
<1> QED BY <1>1, LogStays, PTL

-----------------------------------------------------------------------------
(* Frames: what a station encodes, the daemon decodes                      *)

\* One address in its bytes.
LEMMA AddrBytes ==
  ASSUME NEW a, a.call \in CallSign, a.ssid \in 0 .. 15, NEW r \in BOOLEAN, NEW last \in BOOLEAN
  PROVE  LET e == EncodeAddr(a, r, last)
         IN  /\ e \in Seq(Nat) /\ Len(e) = AddrLen
             /\ \A i \in 1 .. CallLen :
                  e[i] = 2 * (IF i <= Len(a.call) THEN a.call[i] ELSE Space)
             /\ e[AddrLen] = (IF r THEN 128 ELSE 0) + 2 * a.ssid + (IF last THEN 1 ELSE 0)
<1> DEFINE c == [i \in 1 .. CallLen |-> 2 * (IF i <= Len(a.call) THEN a.call[i] ELSE Space)]
           s == (IF r THEN 128 ELSE 0) + 2 * a.ssid + (IF last THEN 1 ELSE 0)
<1> USE Ax25Assumption
<1>1. a.call \in Seq(Nat) /\ Len(a.call) \in Nat
  <2>1. a.call \in Seq((1 .. 127) \ {Space})
    BY DEF CallSign
  <2>2. (1 .. 127) \ {Space} \subseteq Nat
    OBVIOUS
  <2> QED BY <2>1, <2>2, SeqMonotonic, LenProperties
<1>2. ASSUME NEW i \in 1 .. CallLen
      PROVE  2 * (IF i <= Len(a.call) THEN a.call[i] ELSE Space) \in Nat
  <2>1. CASE i <= Len(a.call)
    <3>1. a.call[i] \in Nat
      BY <1>1, <2>1, ElementOfSeq
    <3> QED BY <2>1, <3>1
  <2>2. CASE ~(i <= Len(a.call))
    BY <2>2 DEF Space
  <2> QED BY <2>1, <2>2
<1>3. c \in [1 .. CallLen -> Nat] /\ CallLen \in Nat
  BY <1>2
<1>4. s \in Nat
  OBVIOUS
<1>5. \A i \in 1 .. CallLen : c[i] = 2 * (IF i <= Len(a.call) THEN a.call[i] ELSE Space)
  OBVIOUS
<1>6. EncodeAddr(a, r, last) = c \o << s >>
  BY DEF EncodeAddr
<1> HIDE DEF c, s
<1>7. c \in Seq(Nat) /\ Len(c) = CallLen /\ << s >> \in Seq(Nat) /\ Len(<< s >>) = 1
  BY <1>3, <1>4
<1>8. /\ c \o << s >> \in Seq(Nat) /\ Len(c \o << s >>) = CallLen + 1
      /\ \A i \in 1 .. CallLen + 1 : (c \o << s >>)[i] = IF i <= CallLen THEN c[i] ELSE << s >>[i - CallLen]
  BY <1>7, ConcatProperties
<1>9. (c \o << s >>)[CallLen + 1] = s
  <2>1. CallLen + 1 \in 1 .. CallLen + 1 /\ ~(CallLen + 1 <= CallLen) /\ (CallLen + 1) - CallLen = 1
    OBVIOUS
  <2>2. (c \o << s >>)[CallLen + 1] = << s >>[1]
    BY <1>8, <2>1
  <2> QED BY <2>2
<1>10. \A i \in 1 .. CallLen : (c \o << s >>)[i] = c[i]
  BY <1>8
<1> DEFINE e == EncodeAddr(a, r, last)
<1>11. e \in Seq(Nat) /\ Len(e) = AddrLen /\ e[AddrLen] = s
  BY <1>6, <1>8, <1>9 DEF AddrLen
<1>12. \A i \in 1 .. CallLen : e[i] = 2 * (IF i <= Len(a.call) THEN a.call[i] ELSE Space)
  BY <1>5, <1>6, <1>10
<1> HIDE DEF e
<1> QED BY <1>11, <1>12 DEF e, s

\* f[k] holds the first k blocks, each w long, one behind the other.
InARow(f, block, n, w) ==
  \A k \in 0 .. n :
    /\ f[k] \in Seq(Nat) /\ Len(f[k]) = w * k
    /\ \A j \in 1 .. k : \A i \in 1 .. w : f[k][w * (j - 1) + i] = block[j][i]

\* A loop that appends blocks of one length lays them out so.
LEMMA BlocksInARow ==
  ASSUME NEW n \in Nat, NEW w \in Nat, NEW f, NEW block, f[0] = << >>,
         \A k \in 1 .. n : /\ block[k] \in Seq(Nat) /\ Len(block[k]) = w
                           /\ f[k] = f[k - 1] \o block[k]
  PROVE  InARow(f, block, n, w)
<1> DEFINE Laid(k) ==
             /\ f[k] \in Seq(Nat) /\ Len(f[k]) = w * k
             /\ \A j \in 1 .. k : \A i \in 1 .. w : f[k][w * (j - 1) + i] = block[j][i]
           G == {k \in 0 .. n : Laid(k)}
<1>1. 0 \in G
  <2>1. f[0] \in Seq(Nat) /\ Len(f[0]) = 0
    BY EmptySeq
  <2>2. w * 0 = 0 /\ 0 \in 0 .. n
    OBVIOUS
  <2>3. Laid(0)
    BY <2>1, <2>2
  <2> QED BY <2>2, <2>3
<1>2. ASSUME NEW k \in 0 .. n - 1, k \in G PROVE k + 1 \in G
  <2>1. k + 1 \in 1 .. n /\ k \in Nat /\ (k + 1) - 1 = k /\ k + 1 \in 0 .. n
    OBVIOUS
  <2>2. Laid(k)
    BY <1>2
  <2>3. /\ block[k + 1] \in Seq(Nat) /\ Len(block[k + 1]) = w
        /\ f[k + 1] = f[k] \o block[k + 1]
    BY <2>1
  <2>4. /\ f[k + 1] \in Seq(Nat) /\ Len(f[k + 1]) = w * k + w
        /\ \A i \in 1 .. w * k + w :
             f[k + 1][i] = IF i <= w * k THEN f[k][i] ELSE block[k + 1][i - w * k]
    <3> DEFINE x == w * k
               b == block[k + 1]
               g == f[k]
    <3>1. g \in Seq(Nat) /\ Len(g) = x /\ b \in Seq(Nat) /\ Len(b) = w
      BY <2>2, <2>3
    <3> HIDE DEF x, b, g
    <3>2. /\ g \o b \in Seq(Nat) /\ Len(g \o b) = x + w
          /\ \A i \in 1 .. x + w : (g \o b)[i] = IF i <= x THEN g[i] ELSE b[i - x]
      BY <3>1, ConcatProperties
    <3>3. f[k + 1] = g \o b
      BY <2>3 DEF g, b
    <3>4. /\ f[k + 1] \in Seq(Nat) /\ Len(f[k + 1]) = x + w
          /\ \A i \in 1 .. x + w : f[k + 1][i] = IF i <= x THEN g[i] ELSE b[i - x]
      BY <3>2, <3>3
    <3> QED BY <3>4 DEF x, b, g
  <2>5. w * (k + 1) = w * k + w /\ w * k \in Nat
    BY <2>1, Multiples
  <2>6. ASSUME NEW j \in 1 .. k + 1, NEW i \in 1 .. w
        PROVE  f[k + 1][w * (j - 1) + i] = block[j][i]
    <3>1. CASE j \in 1 .. k
      <4>1. j - 1 \in Nat /\ j - 1 <= k /\ j <= k /\ j \in Nat /\ (j - 1) + 1 = j
        BY <3>1
      <4>2. w * j <= w * k /\ w * ((j - 1) + 1) = w * (j - 1) + w /\ w * (j - 1) \in Nat
        BY <2>1, <4>1, Multiples
      <4>3. w * j = w * (j - 1) + w
        BY <4>1, <4>2
      <4> DEFINE x == w * (j - 1) + i
      <4>4. x \in 1 .. w * k + w /\ x <= w * k
        BY <2>5, <4>2, <4>3
      <4> HIDE DEF x
      <4>5. f[k + 1][x] = f[k][x]
        BY <2>4, <4>4
      <4> QED BY <2>2, <3>1, <4>5 DEF x
    <3>2. CASE j = k + 1
      <4>1. w * (j - 1) = w * k
        BY <2>1, <3>2
      <4>2. w * k + i \in 1 .. w * k + w /\ ~(w * k + i <= w * k) /\ (w * k + i) - w * k = i
        BY <2>5
      <4>3. f[k + 1][w * k + i] = block[k + 1][i]
        BY <2>4, <4>2
      <4> QED BY <3>2, <4>1, <4>3
    <3> QED BY <2>1, <3>1, <3>2
  <2>7. Laid(k + 1)
    BY <2>4, <2>5, <2>6
  <2> QED BY <2>1, <2>7
<1>3. \A k \in 0 .. n : k \in G
  <2> HIDE DEF G
  <2>1. 0 \in Int /\ n \in Int /\ (0 <= n => 0 \in G)
    BY <1>1
  <2>2. \A k \in 0 .. n - 1 : k \in G => k + 1 \in G
    BY <1>2
  <2> QED BY ONLY <2>1, <2>2, InductionUpTo
<1> QED BY <1>3 DEF InARow

\* The addresses of packet p, in the order of the frame.
EncodedAt(p, k) ==
  IF k = 1 THEN EncodeAddr(p.dst, FALSE, FALSE)
  ELSE IF k = 2 THEN EncodeAddr(p.src, FALSE, p.rpt = << >>)
  ELSE EncodeAddr(p.rpt[k - 2], p.rpt[k - 2].repeated, k - 2 = Len(p.rpt))

LEMMA PacketFacts ==
  ASSUME NEW p \in AnyPacket
  PROVE  /\ Len(p.rpt) \in Nat /\ Len(p.rpt) <= MaxRpt /\ p.rpt \in Seq(Repeater)
         /\ p.rpt = << >> <=> Len(p.rpt) = 0
         /\ \A k \in 1 .. Len(p.rpt) : /\ p.rpt[k].call \in CallSign /\ p.rpt[k].ssid \in 0 .. 15
                                       /\ p.rpt[k].repeated \in BOOLEAN
                                       /\ p.rpt[k] \in Repeater
         /\ p.dst \in Address /\ p.dst.call \in CallSign /\ p.dst.ssid \in 0 .. 15
         /\ p.src \in Address /\ p.src.call \in CallSign /\ p.src.ssid \in 0 .. 15
         /\ p.ctrl \in Nat /\ p.pid \in Nat /\ p.info \in Seq(Nat)
<1>1. p.rpt \in Seq(Repeater) /\ Len(p.rpt) <= MaxRpt
  BY DEF AnyPacket
<1>2. Len(p.rpt) \in Nat /\ \A k \in 1 .. Len(p.rpt) : p.rpt[k] \in Repeater
  BY <1>1, LenProperties, ElementOfSeq
<1>3. p.rpt = << >> <=> Len(p.rpt) = 0
  BY <1>1, EmptySeq
<1>4. p.info \in Seq(0 .. 255) /\ 0 .. 255 \subseteq Nat
  BY DEF AnyPacket
<1>5. p.info \in Seq(Nat)
  BY <1>4, SeqMonotonic
<1>6. /\ p.dst \in Address /\ p.src \in Address /\ p.ctrl \in Nat /\ p.pid \in Nat
  <2>1. p.dst \in Address /\ p.src \in Address /\ p.ctrl \in 0 .. 255 /\ p.pid \in 0 .. 255
    BY DEF AnyPacket
  <2> QED BY <2>1
<1> QED BY <1>1, <1>2, <1>3, <1>5, <1>6 DEF Address, Repeater

LEMMA EncodedBytes ==
  ASSUME NEW p \in AnyPacket, NEW k \in 1 .. Len(p.rpt) + 2
  PROVE  EncodedAt(p, k) \in Seq(Nat) /\ Len(EncodedAt(p, k)) = AddrLen
<1>1. CASE k = 1
  BY <1>1, AddrBytes, PacketFacts DEF EncodedAt
<1>2. CASE k = 2
  BY <1>2, AddrBytes, PacketFacts DEF EncodedAt
<1>3. CASE k \in 3 .. Len(p.rpt) + 2
  <2>1. k - 2 \in 1 .. Len(p.rpt) /\ k # 1 /\ k # 2
    BY <1>3, PacketFacts
  <2> DEFINE j == k - 2
  <2> HIDE DEF j
  <2>2. EncodedAt(p, k) = EncodeAddr(p.rpt[j], p.rpt[j].repeated, j = Len(p.rpt))
    BY <2>1 DEF EncodedAt, j
  <2>3. p.rpt[j].call \in CallSign /\ p.rpt[j].ssid \in 0 .. 15 /\ p.rpt[j].repeated \in BOOLEAN
    BY <2>1, PacketFacts DEF j
  <2> DEFINE a == p.rpt[j]
             r == p.rpt[j].repeated
             last == j = Len(p.rpt)
  <2>4. a.call \in CallSign /\ a.ssid \in 0 .. 15 /\ r \in BOOLEAN /\ last \in BOOLEAN
    BY <2>3
  <2> HIDE DEF a, r, last
  <2>5. EncodeAddr(a, r, last) \in Seq(Nat) /\ Len(EncodeAddr(a, r, last)) = AddrLen
    BY <2>4, AddrBytes
  <2> QED BY <2>2, <2>5 DEF a, r, last
<1> QED BY <1>1, <1>2, <1>3, PacketFacts

\* The repeaters' part of the frame.
LEMMA RepeatersLaid ==
  ASSUME NEW p \in AnyPacket
  PROVE  \E r \in Seq(Nat) :
           /\ EncodeFrame(p) = EncodedAt(p, 1) \o EncodedAt(p, 2) \o r \o << p.ctrl, p.pid >> \o p.info
           /\ Len(r) = AddrLen * Len(p.rpt)
           /\ \A j \in 1 .. Len(p.rpt) : \A i \in 1 .. AddrLen :
                r[AddrLen * (j - 1) + i] = EncodedAt(p, j + 2)[i]
<1> DEFINE n == Len(p.rpt)
           enc(k) == EncodeAddr(p.rpt[k], p.rpt[k].repeated, k = Len(p.rpt))
           Is(f) == f = [k \in 0 .. n |-> IF k = 0 THEN << >> ELSE f[k - 1] \o enc(k)]
           rpts == CHOOSE f : Is(f)
           block == [k \in 1 .. n |-> EncodedAt(p, k + 2)]
<1>1. n \in Nat
  BY PacketFacts
<1>2. \A k \in 1 .. n : block[k] = enc(k) /\ block[k] \in Seq(Nat) /\ Len(block[k]) = AddrLen
  <2> SUFFICES ASSUME NEW k \in 1 .. n
               PROVE  /\ EncodedAt(p, k + 2) = enc(k) /\ EncodedAt(p, k + 2) \in Seq(Nat)
                      /\ Len(EncodedAt(p, k + 2)) = AddrLen
    OBVIOUS
  <2>1. k + 2 \in 1 .. Len(p.rpt) + 2 /\ (k + 2) - 2 = k /\ k + 2 # 1 /\ k + 2 # 2
    BY <1>1
  <2> QED BY <2>1, EncodedBytes DEF EncodedAt
<1>3. \E f : Is(f)
  <2> DEFINE turn == [k \in 1 .. n |-> [s \in Seq(Nat) |-> s \o block[k]]]
  <2>1. \A k \in 1 .. n : \A s \in Seq(Nat) : turn[k][s] = s \o block[k]
    OBVIOUS
  <2>2. \A k \in 1 .. n : \A s \in Seq(Nat) : s \o block[k] \in Seq(Nat)
    BY <1>2, ConcatProperties
  <2> HIDE DEF turn, n, block, enc
  <2>3. \A k \in 1 .. n : \A s \in Seq(Nat) : turn[k][s] \in Seq(Nat)
    BY <2>1, <2>2
  <2>4. << >> \in Seq(Nat)
    BY EmptySeq
  <2>5. PICK f : f \in LoopRuns(Seq(Nat), n, << >>, turn)
    BY <1>1, <2>3, <2>4, LoopExists
  <2>6. /\ f \in [0 .. n -> Seq(Nat)] /\ f[0] = << >>
        /\ \A k \in 1 .. n : f[k] = turn[k][f[k - 1]]
    BY <2>5 DEF LoopRuns
  <2>7. ASSUME NEW k \in 1 .. n PROVE f[k] = f[k - 1] \o enc(k)
    <3>1. k - 1 \in 0 .. n
      BY <1>1
    <3>2. f[k - 1] \in Seq(Nat)
      BY <2>6, <3>1
    <3> QED BY <1>2, <2>1, <2>6, <3>2
  <2>8. f = [k \in 0 .. n |-> IF k = 0 THEN << >> ELSE f[k - 1] \o enc(k)]
    BY <2>6, <2>7
  <2> QED BY <2>8
<1>4. Is(rpts)
  <2> HIDE DEF Is
  <2> QED BY <1>3
<1>5. EncodeFrame(p) = EncodedAt(p, 1) \o EncodedAt(p, 2) \o rpts[n] \o << p.ctrl, p.pid >> \o p.info
  BY DEF EncodeFrame, EncodedAt
<1> HIDE DEF rpts, block, enc, n
<1>6. rpts[0] = << >> /\ \A k \in 1 .. n : rpts[k] = rpts[k - 1] \o enc(k)
  <2>1. \A k \in 0 .. n : rpts[k] = IF k = 0 THEN << >> ELSE rpts[k - 1] \o enc(k)
    BY <1>4
  <2>2. 0 \in 0 .. n /\ \A k \in 1 .. n : k \in 0 .. n /\ k # 0
    BY <1>1
  <2> QED BY <2>1, <2>2
<1>7. AddrLen \in Nat
  BY Ax25Assumption DEF AddrLen
<1>8. \A k \in 1 .. n : /\ block[k] \in Seq(Nat) /\ Len(block[k]) = AddrLen
                        /\ rpts[k] = rpts[k - 1] \o block[k]
  BY <1>2, <1>6
<1>9. InARow(rpts, block, n, AddrLen)
  BY <1>1, <1>6, <1>7, <1>8, BlocksInARow
<1>10. n \in 0 .. n
  BY <1>1
<1>11. \A j \in 1 .. n : block[j] = EncodedAt(p, j + 2)
  BY DEF block
<1>12. /\ rpts[n] \in Seq(Nat) /\ Len(rpts[n]) = AddrLen * n
       /\ \A j \in 1 .. n : \A i \in 1 .. AddrLen :
            rpts[n][AddrLen * (j - 1) + i] = EncodedAt(p, j + 2)[i]
  BY <1>9, <1>10, <1>11, ZenonT(60) DEF InARow
<1> QED BY <1>5, <1>12 DEF n

\* t holds the five parts of a frame, of lengths w, w, x, 2 and Len(d).
HoldsParts(a, b, r, c, d, w, x, t) ==
  /\ t \in Seq(Nat) /\ Len(t) = w + w + x + 2 + Len(d)
  /\ \A i \in 1 .. w : t[i] = a[i] /\ t[w + i] = b[i]
  /\ \A i \in 1 .. x : t[w + w + i] = r[i]
  /\ t[w + w + x + 1] = c[1] /\ t[w + w + x + 2] = c[2]
  /\ SubSeq(t, w + w + x + 3, Len(t)) = d

LEMMA PartsLaid ==
  ASSUME NEW a \in Seq(Nat), NEW b \in Seq(Nat), NEW r \in Seq(Nat), NEW c \in Seq(Nat),
         NEW d \in Seq(Nat), NEW w \in Nat, NEW x \in Nat,
         Len(a) = w, Len(b) = w, Len(r) = x, Len(c) = 2,
         NEW t, t = a \o b \o r \o c \o d
  PROVE  HoldsParts(a, b, r, c, d, w, x, t)
<1> DEFINE ab == a \o b
           abr == ab \o r
           abrc == abr \o c
<1>0. Len(d) \in Nat
  BY LenProperties
<1>1. /\ ab \in Seq(Nat) /\ Len(ab) = w + w
      /\ \A i \in 1 .. w : ab[i] = a[i]
      /\ \A i \in 1 .. w : ab[w + i] = b[i]
  <2>1. Joins(Nat, a, w, b, w, ab)
    BY ConcatAt
  <2> QED BY <2>1 DEF Joins
<1>t. t = abrc \o d
  OBVIOUS
<1> HIDE DEF ab
<1>2. /\ abr \in Seq(Nat) /\ Len(abr) = w + w + x
      /\ \A i \in 1 .. w + w : abr[i] = ab[i]
      /\ \A i \in 1 .. x : abr[w + w + i] = r[i]
  <2>1. w + w \in Nat
    OBVIOUS
  <2>2. Joins(Nat, ab, w + w, r, x, abr)
    BY <1>1, <2>1, ConcatAt
  <2> QED BY <2>2 DEF Joins
<1> HIDE DEF abr
<1>3. /\ abrc \in Seq(Nat) /\ Len(abrc) = w + w + x + 2
      /\ \A i \in 1 .. w + w + x : abrc[i] = abr[i]
      /\ \A i \in 1 .. 2 : abrc[w + w + x + i] = c[i]
  <2>1. w + w + x \in Nat /\ 2 \in Nat
    OBVIOUS
  <2>2. Joins(Nat, abr, w + w + x, c, 2, abrc)
    BY <1>2, <2>1, ConcatAt
  <2> QED BY <2>2 DEF Joins
<1> HIDE DEF abrc
<1>4. /\ t \in Seq(Nat) /\ Len(t) = w + w + x + 2 + Len(d)
      /\ \A i \in 1 .. w + w + x + 2 : t[i] = abrc[i]
      /\ \A i \in 1 .. Len(d) : t[w + w + x + 2 + i] = d[i]
  <2>1. w + w + x + 2 \in Nat
    OBVIOUS
  <2>2. Joins(Nat, abrc, w + w + x + 2, d, Len(d), t)
    BY <1>0, <1>3, <1>t, <2>1, ConcatAt
  <2> QED BY <2>2 DEF Joins
<1>5. ASSUME NEW i \in 1 .. w PROVE t[i] = a[i] /\ t[w + i] = b[i]
  <2> DEFINE j == w + i
  <2>1. /\ i \in 1 .. w + w /\ i \in 1 .. w + w + x /\ i \in 1 .. w + w + x + 2
        /\ j \in 1 .. w + w /\ j \in 1 .. w + w + x /\ j \in 1 .. w + w + x + 2
    OBVIOUS
  <2>2. ab[j] = b[i]
    BY <1>1
  <2> HIDE DEF j
  <2>3. t[i] = abrc[i] /\ abrc[i] = abr[i] /\ abr[i] = ab[i] /\ ab[i] = a[i]
    BY <1>1, <1>2, <1>3, <1>4, <2>1
  <2>4. t[j] = abrc[j] /\ abrc[j] = abr[j] /\ abr[j] = ab[j]
    BY <1>2, <1>3, <1>4, <2>1
  <2> QED BY <2>2, <2>3, <2>4 DEF j
<1>6. ASSUME NEW i \in 1 .. x PROVE t[w + w + i] = r[i]
  <2> DEFINE j == w + w + i
  <2>1. j \in 1 .. w + w + x /\ j \in 1 .. w + w + x + 2
    OBVIOUS
  <2>2. abr[j] = r[i]
    BY <1>2
  <2> HIDE DEF j
  <2>3. t[j] = r[i]
    BY <1>3, <1>4, <2>1, <2>2
  <2> QED BY <2>3 DEF j
<1>7. ASSUME NEW i \in 1 .. 2 PROVE t[w + w + x + i] = c[i]
  <2> DEFINE j == w + w + x + i
  <2>1. j \in 1 .. w + w + x + 2
    OBVIOUS
  <2>2. abrc[j] = c[i]
    BY <1>3
  <2> HIDE DEF j
  <2>3. t[j] = c[i]
    BY <1>4, <2>1, <2>2
  <2> QED BY <2>3 DEF j
<1>8. SubSeq(t, w + w + x + 3, Len(t)) = d
  <2> DEFINE m == w + w + x + 3
             s == SubSeq(t, m, Len(t))
  <2>1. /\ m \in Int /\ Len(t) \in Int /\ m >= 1 /\ Len(t) - m + 1 = Len(d)
        /\ m <= Len(t) + 1 /\ \A i \in Int : m + i - 1 = w + w + x + 2 + i
    BY <1>0, <1>4
  <2> HIDE DEF m
  <2>2. \A i \in m .. Len(t) : t[i] \in Nat
    <3> SUFFICES ASSUME NEW i \in m .. Len(t) PROVE t[i] \in Nat
      OBVIOUS
    <3>1. i \in 1 .. Len(t)
      BY <2>1
    <3> QED BY <1>4, <3>1, ElementOfSeq
  <2>3. /\ s \in Seq(Nat) /\ Len(s) = IF m <= Len(t) THEN Len(t) - m + 1 ELSE 0
        /\ \A i \in 1 .. Len(t) - m + 1 : s[i] = t[m + i - 1]
    BY <2>1, <2>2, SubSeqProperties, SMTT(30)
  <2> HIDE DEF s
  <2>4. Len(s) = Len(d)
    BY <1>0, <2>1, <2>3
  <2>5. ASSUME NEW i \in 1 .. Len(s) PROVE s[i] = d[i]
    <3>1. i \in 1 .. Len(d) /\ m + i - 1 = w + w + x + 2 + i
      BY <1>0, <2>1, <2>4
    <3>2. s[i] = t[w + w + x + 2 + i]
      BY <2>1, <2>3, <3>1
    <3> QED BY <1>4, <3>1, <3>2
  <2>6. s = d
    BY <2>3, <2>4, <2>5, SeqEqual
  <2> QED BY <2>6 DEF s, m
<1>9. t[w + w + x + 1] = c[1] /\ t[w + w + x + 2] = c[2]
  <2>1. 1 \in 1 .. 2 /\ 2 \in 1 .. 2
    OBVIOUS
  <2> QED BY <1>7, <2>1
<1> QED BY <1>4, <1>5, <1>6, <1>8, <1>9 DEF HoldsParts

LEMMA TwoMore ==
  ASSUME NEW w \in Nat, NEW n \in Nat
  PROVE  w * (n + 2) = w + w + w * n
<1> DEFINE x == w * n
           m == n + 1
           y == w * m
           z == w * (m + 1)
<1>1. x \in Nat /\ w * (n + 1) = x + w
  BY Multiples
<1>2. m \in Nat /\ m + 1 = n + 2
  OBVIOUS
<1>3. y = x + w
  BY <1>1
<1> HIDE DEF m
<1>4. z = y + w
  BY <1>2, Multiples
<1>5. w * (n + 2) = z
  BY <1>2
<1> HIDE DEF x, y, z
<1>6. z = w + w + x
  BY <1>1, <1>3, <1>4
<1> QED BY <1>5, <1>6 DEF x

\* d holds the addresses of p, which are x bytes, then the rest of p.
FrameHolds(p, d, x) ==
  /\ d \in Seq(Nat) /\ Len(d) = x + 2 + Len(p.info)
  /\ \A k \in 1 .. Len(p.rpt) + 2 : \A i \in 1 .. AddrLen :
       d[AddrLen * (k - 1) + i] = EncodedAt(p, k)[i]
  /\ d[x + 1] = p.ctrl /\ d[x + 2] = p.pid
  /\ SubSeq(d, x + 3, Len(d)) = p.info

LEMMA FrameLaid ==
  ASSUME NEW p \in AnyPacket, NEW d, d = EncodeFrame(p), NEW n, n = Len(p.rpt),
         NEW l, l = AddrLen * (n + 2)
  PROVE  FrameHolds(p, d, l)
<1> DEFINE a == EncodedAt(p, 1)
           b == EncodedAt(p, 2)
           c == << p.ctrl, p.pid >>
           w == AddrLen
           x == w * n
<1>1. n \in Nat /\ w \in Nat /\ x \in Nat
  <2>1. n \in Nat /\ w \in Nat
    BY PacketFacts, Ax25Assumption DEF AddrLen
  <2> QED BY <2>1, Multiples
<1>2. a \in Seq(Nat) /\ Len(a) = w /\ b \in Seq(Nat) /\ Len(b) = w
  BY <1>1, EncodedBytes
<1>3. c \in Seq(Nat) /\ Len(c) = 2 /\ c[1] = p.ctrl /\ c[2] = p.pid
  BY PacketFacts
<1>4. PICK r \in Seq(Nat) :
        /\ EncodeFrame(p) = a \o b \o r \o c \o p.info
        /\ Len(r) = x
        /\ \A j \in 1 .. n : \A i \in 1 .. w : r[w * (j - 1) + i] = EncodedAt(p, j + 2)[i]
  BY RepeatersLaid
<1>5. p.info \in Seq(Nat)
  BY PacketFacts
<1>d. d = a \o b \o r \o c \o p.info
  BY <1>4
<1>x. w * (n + 2) = w + w + x
  BY <1>1, TwoMore
<1> HIDE DEF a, b, c, w, x
<1>6. /\ d \in Seq(Nat) /\ Len(d) = w + w + x + 2 + Len(p.info)
      /\ \A i \in 1 .. w : d[i] = a[i] /\ d[w + i] = b[i]
      /\ \A i \in 1 .. x : d[w + w + i] = r[i]
      /\ d[w + w + x + 1] = c[1] /\ d[w + w + x + 2] = c[2]
      /\ SubSeq(d, w + w + x + 3, Len(d)) = p.info
  <2>1. HoldsParts(a, b, r, c, p.info, w, x, d)
    BY <1>1, <1>2, <1>3, <1>4, <1>5, <1>d, PartsLaid
  <2> QED BY <2>1 DEF HoldsParts
<1>7. w * (n + 2) = w + w + x
  BY <1>x
<1>8. ASSUME NEW k \in 1 .. n + 2, NEW i \in 1 .. w
      PROVE  d[w * (k - 1) + i] = EncodedAt(p, k)[i]
  <2>1. CASE k = 1
    <3>1. w * (k - 1) + i = i
      BY <1>1, <2>1
    <3> QED BY <1>6, <2>1, <3>1 DEF a
  <2>2. CASE k = 2
    <3>1. w * (k - 1) + i = w + i
      BY <1>1, <2>2
    <3> QED BY <1>6, <2>2, <3>1 DEF b
  <2>3. CASE k \in 3 .. n + 2
    <3> DEFINE j == k - 2
               y == w * (j - 1)
    <3>1. j \in 1 .. n /\ j + 2 = k /\ j - 1 \in Nat /\ (j - 1) + 1 <= n /\ (j - 1) + 1 \in Nat
      BY <1>1, <2>3
    <3>2. w * ((j - 1) + 1) <= w * n /\ w * ((j - 1) + 1) = y + w /\ y \in Nat
      BY <1>1, <3>1, Multiples
    <3>3. w * (k - 1) = w + w + y
      <4>1. k - 1 = (j - 1) + 2
        BY <1>1, <2>3
      <4>2. w * ((j - 1) + 2) = w * (j - 1) + w + w
        BY <1>1, <3>1
      <4> QED BY <4>1, <4>2, <3>1, <1>1
    <3>4. y + i \in 1 .. x
      <4>1. y + w <= x
        BY ONLY <3>2 DEF x
      <4>2. y \in Nat
        BY <3>2
      <4> HIDE DEF y
      <4> QED BY <1>1, <4>1, <4>2
    <3>5. r[y + i] = EncodedAt(p, j + 2)[i]
      BY <1>4, <3>1
    <3> HIDE DEF j, y
    <3>6. d[w + w + (y + i)] = r[y + i]
      BY <1>6, <3>4
    <3>7. w * (k - 1) + i = w + w + (y + i)
      BY <1>1, <3>2, <3>3
    <3> QED BY <3>1, <3>5, <3>6, <3>7
  <2> QED BY <1>1, <2>1, <2>2, <2>3
<1>9. l = w + w + x
  BY <1>7 DEF w
<1>10. /\ Len(d) = l + 2 + Len(p.info) /\ SubSeq(d, l + 3, Len(d)) = p.info
       /\ d[l + 1] = p.ctrl /\ d[l + 2] = p.pid
  BY <1>3, <1>6, <1>9
<1> QED BY <1>6, <1>8, <1>10 DEF w, FrameHolds

\* A padded call sign, read up to its padding.
LEMMA CallDecoded ==
  ASSUME NEW c \in CallSign, NEW t,
         t = [i \in 1 .. CallLen |-> IF i <= Len(c) THEN c[i] ELSE 0]
  PROVE  UpToNul(t) = c
<1>n. PICK n \in Nat : n = Len(c)
  BY LenProperties DEF CallSign
<1> DEFINE nuls == {i \in DOMAIN t : t[i] = 0}
           least == CHOOSE i \in nuls : \A j \in nuls : i <= j
<1> USE Ax25Assumption
<1>1. /\ c \in Seq(Nat) /\ n <= CallLen
      /\ \A i \in 1 .. n : c[i] \in Nat /\ c[i] # 0
  <2>1. c \in Seq((1 .. 127) \ {Space}) /\ n <= CallLen
    BY <1>n DEF CallSign
  <2>2. \A x \in (1 .. 127) \ {Space} : x \in Nat /\ x # 0
    OBVIOUS
  <2>3. \A i \in 1 .. n : c[i] \in (1 .. 127) \ {Space}
    BY <1>n, <2>1, ElementOfSeq
  <2>4. c \in Seq(Nat)
    <3>1. (1 .. 127) \ {Space} \subseteq Nat
      BY <2>2
    <3> QED BY <2>1, <3>1, SeqMonotonic
  <2> QED BY <2>1, <2>2, <2>3, <2>4, LenProperties
<1>2. t \in Seq(Nat) /\ Len(t) = CallLen
  <2>1. t \in [1 .. CallLen -> Nat]
    BY <1>n, <1>1
  <2> QED BY <2>1
<1>3. /\ \A i \in 1 .. n : t[i] = c[i]
      /\ nuls = n + 1 .. CallLen
  <2>1. DOMAIN t = 1 .. CallLen
    OBVIOUS
  <2>2. \A i \in 1 .. CallLen : t[i] = IF i <= n THEN c[i] ELSE 0
    BY <1>n
  <2>3. \A i \in 1 .. n : i \in 1 .. CallLen /\ i <= n
    BY <1>1
  <2>4. \A i \in 1 .. CallLen : t[i] = 0 <=> i > n
    <3> SUFFICES ASSUME NEW i \in 1 .. CallLen PROVE t[i] = 0 <=> i > n
      OBVIOUS
    <3>1. CASE i <= n
      <4>1. i \in 1 .. n
        BY <3>1
      <4> QED BY <1>1, <2>2, <3>1, <4>1
    <3>2. CASE ~(i <= n)
      BY <1>1, <2>2, <3>2
    <3> QED BY <3>1, <3>2
  <2>5. nuls = {i \in 1 .. CallLen : i > n}
    BY <2>1, <2>4
  <2> HIDE DEF nuls
  <2>6. nuls = n + 1 .. CallLen
    BY <1>1, <2>5
  <2> QED BY <2>2, <2>3, <2>6
<1>4. UpToNul(t) = IF nuls = {} THEN t ELSE SubSeq(t, 1, least - 1)
  BY DEF UpToNul
<1> HIDE DEF nuls
<1>5. CASE n = CallLen
  <2>1. nuls = {}
    BY <1>1, <1>3, <1>5
  <2>2. t = c
    BY <1>1, <1>2, <1>3, <1>5, <1>n, SeqEqual
  <2> QED BY <1>4, <2>1, <2>2
<1>6. CASE n < CallLen
  <2>0. nuls = n + 1 .. CallLen
    BY ONLY <1>3
  <2>1. n + 1 \in nuls /\ \A j \in nuls : n + 1 <= j
    <3>1. n + 1 \in n + 1 .. CallLen /\ \A j \in n + 1 .. CallLen : n + 1 <= j
      BY <1>6
    <3> QED BY <2>0, <3>1
  <2>2. nuls \subseteq Int
    BY <2>0
  <2>3. least \in nuls /\ \A j \in nuls : least <= j
    BY <2>1
  <2>4. least = n + 1 /\ nuls # {}
    <3> HIDE DEF least
    <3> QED BY <1>1, <2>1, <2>2, <2>3
  <2> HIDE DEF least
  <2> DEFINE s == SubSeq(t, 1, n)
  <2>5. s \in Seq(Nat) /\ Len(s) = n /\ \A i \in 1 .. n : s[i] = t[i]
    <3>1. \A i \in 1 .. n : t[i] \in Nat
      BY <1>1, <1>3
    <3>2. \A i \in 1 .. n : t[i] \in Nat
      BY <3>1
    <3>3. 1 \in Int /\ n \in Int
      BY <1>1
    <3>4. /\ s \in Seq(Nat) /\ Len(s) = IF 1 <= n THEN n - 1 + 1 ELSE 0
          /\ \A i \in 1 .. n - 1 + 1 : s[i] = t[1 + i - 1]
      BY ONLY <3>2, <3>3, SubSeqProperties
    <3>5. n \in Nat
      OBVIOUS
    <3> HIDE DEF s
    <3> QED BY ONLY <3>4, <3>5
  <2> HIDE DEF s
  <2>6. s = c
    BY <1>1, <1>3, <2>5, <1>n, SeqEqual
  <2>7. least - 1 = n
    BY <1>1, <2>4
  <2> QED BY <1>4, <2>4, <2>6, <2>7 DEF s
<1> QED BY <1>1, <1>5, <1>6

\* Address a, as the k-th of frame d, is decoded.
Decodes(d, k, a, r, last) ==
  /\ DecodeCall(d, k) = a.call
  /\ (d[SsidAt(k)] \div 2) % 16 = a.ssid
  /\ d[SsidAt(k)] >= 128 <=> r
  /\ EndOfAddrs(d, k) <=> last

LEMMA AddrDecoded ==
  ASSUME NEW a, a.call \in CallSign, a.ssid \in 0 .. 15, NEW r \in BOOLEAN, NEW last \in BOOLEAN,
         NEW d, NEW k \in Nat \ {0},
         \A i \in 1 .. AddrLen : d[AddrLen * (k - 1) + i] = EncodeAddr(a, r, last)[i]
  PROVE  Decodes(d, k, a, r, last)
<1> DEFINE e == EncodeAddr(a, r, last)
           c == a.call
           s == (IF r THEN 128 ELSE 0) + 2 * a.ssid + (IF last THEN 1 ELSE 0)
           at == AddrLen * (k - 1)
<1> USE Ax25Assumption
<1>1. /\ \A i \in 1 .. CallLen : e[i] = 2 * (IF i <= Len(c) THEN c[i] ELSE Space)
      /\ e[AddrLen] = s
  BY AddrBytes, ZenonT(60)
<1>2. AddrLen \in Nat /\ AddrLen = CallLen + 1 /\ at \in Nat /\ AddrAt(k) = at + 1
      /\ SsidAt(k) = at + AddrLen
  <2>1. AddrLen \in Nat /\ AddrLen = CallLen + 1
    BY DEF AddrLen
  <2>2. k - 1 \in Nat /\ (k - 1) + 1 = k
    OBVIOUS
  <2>3. AddrLen * ((k - 1) + 1) = at + AddrLen /\ at \in Nat
    BY <2>1, <2>2, Multiples
  <2>4. (k - 1) * AddrLen = at /\ k * AddrLen = AddrLen * k
    BY <2>1, <2>2
  <2>5. AddrLen * k = at + AddrLen
    BY <2>2, <2>3
  <2> HIDE DEF at
  <2> QED BY <2>1, <2>3, <2>4, <2>5 DEF AddrAt, SsidAt
<1>3. \A i \in 1 .. AddrLen : d[at + i] = e[i]
  OBVIOUS
<1> HIDE DEF e, at
<1>4. d[SsidAt(k)] = s
  BY <1>1, <1>2, <1>3
<1>5. /\ (s \div 2) % 16 = a.ssid
      /\ s >= 128 <=> r
      /\ s % 2 = 1 <=> last
  <2>1. PICK x \in 0 .. 15 : x = a.ssid
    OBVIOUS
  <2>2. CASE r /\ last
    BY <2>1, <2>2
  <2>3. CASE r /\ ~last
    BY <2>1, <2>3
  <2>4. CASE ~r /\ last
    BY <2>1, <2>4
  <2>5. CASE ~r /\ ~last
    BY <2>1, <2>5
  <2> QED BY <2>2, <2>3, <2>4, <2>5
<1>6. DecodeCall(d, k) = c
  <2> DEFINE Read(i) == LET b == d[AddrAt(k) + i - 1] \div 2 IN IF b = Space THEN 0 ELSE b
  <2>1. c \in Seq((1 .. 127) \ {Space})
    BY DEF CallSign
  <2>2. ASSUME NEW i \in 1 .. CallLen
        PROVE  Read(i) = IF i <= Len(c) THEN c[i] ELSE 0
    <3>1. i \in 1 .. AddrLen /\ AddrAt(k) + i - 1 = at + i
      BY <1>2
    <3>2. d[AddrAt(k) + i - 1] = 2 * (IF i <= Len(c) THEN c[i] ELSE Space)
      BY <1>1, <1>3, <3>1
    <3>3. CASE i <= Len(c)
      <4>1. i \in 1 .. Len(c)
        BY <2>1, <3>3, LenProperties
      <4>2. c[i] \in (1 .. 127) \ {Space}
        BY <2>1, <4>1, ElementOfSeq
      <4>3. (2 * c[i]) \div 2 = c[i] /\ c[i] # Space
        <5>1. PICK x \in 1 .. 127 : x = c[i]
          BY <4>2
        <5>2. (2 * x) \div 2 = x
          OBVIOUS
        <5> QED BY <4>2, <5>1, <5>2
      <4> QED BY <3>2, <3>3, <4>3
    <3>4. CASE ~(i <= Len(c))
      <4>1. (2 * Space) \div 2 = Space
        BY DEF Space
      <4> QED BY <3>2, <3>4, <4>1
    <3> QED BY <3>3, <3>4
  <2>3. DecodeCall(d, k) = UpToNul([i \in 1 .. CallLen |-> Read(i)])
    BY DEF DecodeCall
  <2> HIDE DEF Read
  <2>4. [i \in 1 .. CallLen |-> Read(i)] = [i \in 1 .. CallLen |-> IF i <= Len(c) THEN c[i] ELSE 0]
    BY <2>2
  <2> DEFINE t == [i \in 1 .. CallLen |-> IF i <= Len(c) THEN c[i] ELSE 0]
  <2>5. c \in CallSign
    OBVIOUS
  <2>6. UpToNul(t) = c
    BY <2>5, CallDecoded
  <2> QED BY <2>3, <2>4, <2>6
<1> HIDE DEF s
<1> QED BY <1>4, <1>5, <1>6 DEF Decodes, EndOfAddrs, e

\* The addresses of p's frame, each by its place.
LEMMA StationsDecoded ==
  ASSUME NEW p \in AnyPacket, NEW d, d = EncodeFrame(p)
  PROVE  /\ Decodes(d, 1, p.dst, FALSE, FALSE)
         /\ Decodes(d, 2, p.src, FALSE, p.rpt = << >>)
         /\ \A j \in 1 .. Len(p.rpt) :
              Decodes(d, j + 2, p.rpt[j], p.rpt[j].repeated, j = Len(p.rpt))
<1> DEFINE n == Len(p.rpt)
<1>1. n \in Nat
  BY PacketFacts
<1>2. \A k \in 1 .. n + 2 : \A i \in 1 .. AddrLen :
        d[AddrLen * (k - 1) + i] = EncodedAt(p, k)[i]
  <2>1. FrameHolds(p, d, AddrLen * (n + 2))
    BY FrameLaid
  <2> QED BY <2>1 DEF FrameHolds
<1>3. 1 \in 1 .. n + 2 /\ 2 \in 1 .. n + 2
  BY <1>1
<1>4. Decodes(d, 1, p.dst, FALSE, FALSE)
  <2>1. EncodedAt(p, 1) = EncodeAddr(p.dst, FALSE, FALSE)
    BY DEF EncodedAt
  <2>2. \A i \in 1 .. AddrLen : d[AddrLen * (1 - 1) + i] = EncodeAddr(p.dst, FALSE, FALSE)[i]
    BY ONLY <1>2, <1>3, <2>1
  <2>3. p.dst.call \in CallSign /\ p.dst.ssid \in 0 .. 15 /\ 1 \in Nat \ {0}
    BY PacketFacts
  <2> QED BY <2>2, <2>3, AddrDecoded
<1>5. Decodes(d, 2, p.src, FALSE, p.rpt = << >>)
  <2> DEFINE last == p.rpt = << >>
  <2>1. EncodedAt(p, 2) = EncodeAddr(p.src, FALSE, last)
    BY DEF EncodedAt
  <2>2. last \in BOOLEAN
    OBVIOUS
  <2> HIDE DEF last
  <2>3. \A i \in 1 .. AddrLen : d[AddrLen * (2 - 1) + i] = EncodeAddr(p.src, FALSE, last)[i]
    BY ONLY <1>2, <1>3, <2>1
  <2>4. p.src.call \in CallSign /\ p.src.ssid \in 0 .. 15 /\ 2 \in Nat \ {0}
    BY PacketFacts
  <2>5. Decodes(d, 2, p.src, FALSE, last)
    BY <2>2, <2>3, <2>4, AddrDecoded
  <2> QED BY <2>5 DEF last
<1>6. ASSUME NEW j \in 1 .. n
      PROVE  Decodes(d, j + 2, p.rpt[j], p.rpt[j].repeated, j = n)
  <2> DEFINE a == p.rpt[j]
             r == p.rpt[j].repeated
             last == j = n
             k == j + 2
  <2>1. a.call \in CallSign /\ a.ssid \in 0 .. 15 /\ r \in BOOLEAN /\ last \in BOOLEAN
    BY PacketFacts
  <2>2. k \in 1 .. n + 2 /\ k \in Nat \ {0} /\ k # 1 /\ k # 2 /\ k - 2 = j
    BY <1>1
  <2>3. EncodedAt(p, k) = EncodeAddr(a, r, last)
    BY <2>2 DEF EncodedAt
  <2> HIDE DEF a, r, last, k, n
  <2>4. \A i \in 1 .. AddrLen : d[AddrLen * (k - 1) + i] = EncodeAddr(a, r, last)[i]
    BY <1>2, <2>2, <2>3
  <2>5. Decodes(d, k, a, r, last)
    BY <2>1, <2>2, <2>4, AddrDecoded
  <2> QED BY <2>5 DEF a, r, last, k
<1> QED BY <1>4, <1>5, <1>6

LEMMA RptsCounted ==
  ASSUME NEW p \in AnyPacket, NEW d, d = EncodeFrame(p)
  PROVE  RptCount(d) = Len(p.rpt)
<1> DEFINE n == Len(p.rpt)
           Ends(k) == EndOfAddrs(d, k + 2)
           Fits(m) == (m = MaxRpt \/ Ends(m)) /\ \A i \in 0 .. m - 1 : ~Ends(i)
<1>1. n \in Nat /\ n <= MaxRpt /\ MaxRpt \in Nat
  BY PacketFacts, Ax25Assumption
<1>2. ASSUME NEW k \in 0 .. n PROVE Ends(k) <=> k = n
  <2>1. CASE k = 0
    <3>1. EndOfAddrs(d, 2) <=> p.rpt = << >>
      BY StationsDecoded DEF Decodes
    <3>2. k + 2 = 2
      BY <2>1
    <3> QED BY <2>1, <3>1, <3>2, PacketFacts
  <2>2. CASE k \in 1 .. n
    BY <2>2, StationsDecoded DEF Decodes
  <2> QED BY <1>1, <2>1, <2>2
<1>3. RptCount(d) = CHOOSE m \in 0 .. MaxRpt : Fits(m)
  BY DEF RptCount
<1> HIDE DEF n, Ends
<1>4. n \in 0 .. MaxRpt /\ Fits(n)
  BY <1>1, <1>2
<1>5. ASSUME NEW m \in 0 .. MaxRpt, Fits(m) PROVE m = n
  <2>1. CASE m < n
    <3>1. m \in 0 .. n /\ m # n /\ m # MaxRpt
      BY <1>1, <2>1
    <3> QED BY <1>2, <1>5, <3>1
  <2>2. CASE m > n
    <3>1. n \in 0 .. m - 1 /\ n \in 0 .. n
      BY <1>1, <2>2
    <3> QED BY <1>2, <1>5, <3>1
  <2> QED BY <1>1, <2>1, <2>2
<1> HIDE DEF Fits
<1> QED BY <1>3, <1>4, <1>5 DEF n

\* The message that is p's.
MessageOf(p) == [dst |-> p.dst, src |-> p.src, rpt |-> p.rpt, info |-> p.info]

\* Of the frame of a packet, the daemon decodes the packet, unless the packet is
\* no UI frame, has a layer 3, or has neither a repeater nor a payload.
LEMMA FrameDecoded ==
  ASSUME NEW p \in AnyPacket, NEW d, d = EncodeFrame(p)
  PROVE  Decode(d) = IF /\ p.ctrl = CtrlUI /\ p.pid = PidNoLayer3
                        /\ p.rpt # << >> \/ p.info # << >>
                     THEN << MessageOf(p) >> ELSE << >>
<1> DEFINE n == Len(p.rpt)
           w == AddrLen
           x == w * (n + 2)
           m == [dst  |-> DecodeAddr(d, 1),
                 src  |-> DecodeAddr(d, 2),
                 rpt  |-> [k \in 1 .. RptCount(d) |-> DecodeRpt(d, k)],
                 info |-> SubSeq(d, CtrlAt(d) + 2, Len(d))]
<1>1. /\ n \in Nat /\ w \in Nat /\ w >= 2 /\ Len(p.info) \in Nat
      /\ p.info = << >> <=> Len(p.info) = 0
      /\ p.rpt = << >> <=> n = 0
  <2>1. w \in Nat /\ w >= 2
    BY Ax25Assumption DEF AddrLen
  <2>2. p.info \in Seq(Nat)
    BY PacketFacts
  <2>3. p.info = << >> <=> Len(p.info) = 0
    BY <2>2, EmptySeq
  <2> QED BY <2>1, <2>2, <2>3, PacketFacts, LenProperties
<1>2. RptCount(d) = n
  BY RptsCounted
<1>3. x = w + w + w * n /\ w * n \in Nat /\ (n = 0 => w * n = 0) /\ (n # 0 => w * n >= w)
  <2>1. x = w + w + w * n /\ w * n \in Nat
    <3> HIDE DEF w, n
    <3>1. w * (n + 2) = w + w + w * n
      BY <1>1, TwoMore
    <3>2. w * n \in Nat
      BY <1>1, Multiples
    <3> QED BY <3>1, <3>2
  <2>2. n = 0 => w * n = 0
    BY <1>1
  <2>3. ASSUME n # 0 PROVE w * n >= w
    <3>1. 1 \in Nat /\ 1 <= n
      BY <1>1, <2>3
    <3>2. w * 1 <= w * n
      BY <1>1, <3>1, Multiples
    <3>3. w * 1 = w
      BY <1>1
    <3> DEFINE y == w * n
    <3>4. y \in Nat /\ w <= y
      BY <2>1, <3>2, <3>3
    <3> QED BY <1>1, <3>4
  <2> QED BY <2>1, <2>2, <2>3
<1>4. /\ d \in Seq(Nat) /\ Len(d) = x + 2 + Len(p.info)
      /\ d[x + 1] = p.ctrl /\ d[x + 2] = p.pid /\ SubSeq(d, x + 3, Len(d)) = p.info
  <2>1. FrameHolds(p, d, x)
    BY FrameLaid
  <2> HIDE DEF x
  <2> QED BY <2>1 DEF FrameHolds
<1>5. CtrlAt(d) = x + 1
  <2>1. (n + 3) - 1 = n + 2
    BY <1>1
  <2>2. (n + 2) * w = x
    BY <1>1
  <2> QED BY <1>2, <2>1, <2>2 DEF CtrlAt, AddrAt
<1>6. Len(d) < MinLen <=> p.rpt = << >> /\ p.info = << >>
  <2> DEFINE y == w * n
             l == Len(d)
             i == Len(p.info)
  <2>1. l = w + w + y + 2 + i /\ y \in Nat /\ i \in Nat /\ w \in Nat /\ w >= 2
    BY <1>1, <1>3, <1>4
  <2>2. MinLen = w + w + 3
    BY <1>1 DEF MinLen
  <2>3. n = 0 => y = 0
    BY <1>3
  <2>4. n # 0 => y >= w
    BY <1>3
  <2> HIDE DEF y, l, i, w
  <2>5. CASE n = 0
    <3>1. y = 0
      BY <2>3, <2>5
    <3>2. l < w + w + 3 <=> i = 0
      BY <2>1, <3>1
    <3> QED BY <1>1, <2>2, <2>5, <3>2 DEF l, i
  <2>6. CASE n # 0
    <3>1. y >= w
      BY <2>4, <2>6
    <3>2. ~(l < w + w + 3)
      BY <2>1, <3>1
    <3> QED BY <1>1, <2>2, <2>6, <3>2 DEF l
  <2> QED BY <2>5, <2>6
<1>7. m = MessageOf(p)
  <2>1. DecodeAddr(d, 1) = p.dst
    <3>1. p.dst \in Address
      BY PacketFacts
    <3>2. p.dst = [call |-> p.dst.call, ssid |-> p.dst.ssid]
      BY <3>1 DEF Address
    <3> QED BY <3>2, StationsDecoded DEF Decodes, DecodeAddr
  <2>2. DecodeAddr(d, 2) = p.src
    <3>1. p.src \in Address
      BY PacketFacts
    <3>2. p.src = [call |-> p.src.call, ssid |-> p.src.ssid]
      BY <3>1 DEF Address
    <3> QED BY <3>2, StationsDecoded DEF Decodes, DecodeAddr
  <2>3. [k \in 1 .. n |-> DecodeRpt(d, k)] = p.rpt
    <3>1. ASSUME NEW k \in 1 .. n PROVE DecodeRpt(d, k) = p.rpt[k]
      <4>1. /\ p.rpt[k] \in Repeater /\ p.rpt[k].repeated \in BOOLEAN
        BY PacketFacts
      <4>2. p.rpt[k] = [call |-> p.rpt[k].call, ssid |-> p.rpt[k].ssid,
                        repeated |-> p.rpt[k].repeated]
        BY <4>1 DEF Repeater
      <4>3. Decodes(d, k + 2, p.rpt[k], p.rpt[k].repeated, k = n)
        BY StationsDecoded
      <4>4. (d[SsidAt(k + 2)] >= 128) = p.rpt[k].repeated
        BY <4>1, <4>3 DEF Decodes
      <4> QED BY <4>2, <4>3, <4>4 DEF Decodes, DecodeRpt
    <3>2. p.rpt = [k \in 1 .. n |-> p.rpt[k]]
      BY PacketFacts
    <3> QED BY <3>1, <3>2
  <2>4. SubSeq(d, CtrlAt(d) + 2, Len(d)) = p.info
    <3>1. CtrlAt(d) + 2 = x + 3
      <4> DEFINE y == w * n
      <4>1. x \in Nat
        BY <1>1, <1>3
      <4> HIDE DEF x
      <4> QED BY <1>5, <4>1
    <3> QED BY <1>4, <3>1
  <2> QED BY <1>2, <2>1, <2>2, <2>3, <2>4 DEF MessageOf
<1>8. Decode(d) = IF Len(d) < MinLen THEN << >>
                  ELSE IF d[CtrlAt(d)] # CtrlUI \/ d[CtrlAt(d) + 1] # PidNoLayer3 THEN << >>
                  ELSE << m >>
  BY DEF Decode
<1>9. d[CtrlAt(d)] = p.ctrl /\ d[CtrlAt(d) + 1] = p.pid
  <2>1. x \in Nat
    BY <1>1, <1>3
  <2> HIDE DEF x
  <2>2. (x + 1) + 1 = x + 2
    BY <2>1
  <2> QED BY <1>4, <1>5, <2>2
<1> HIDE DEF m, x, w, n
<1> QED BY <1>6, <1>7, <1>8, <1>9

\* What is written of a packet, and when.
Copy(p) == [dst |-> p.dst, src |-> p.src, path |-> p.rpt, info |-> UpToNul(p.info)]

LEMMA MessageGated ==
  ASSUME NEW p \in AnyPacket
  PROVE  /\ Printed(MessageOf(p)) = Copy(p)
         /\ Gateable(p) <=> /\ p.ctrl = CtrlUI /\ p.pid = PidNoLayer3
                            /\ p.rpt # << >> \/ p.info # << >>
                            /\ MayRelay(MessageOf(p))
<1>1. Printed(MessageOf(p)) = Copy(p)
  BY DEF Printed, MessageOf, Copy
<1>2. Len(p.rpt) # MaxRpt <=> Len(p.rpt) < MaxRpt
  BY PacketFacts, Ax25Assumption
<1>3. {p.rpt[i].call : i \in DOMAIN p.rpt} \cap NoRelayVia = {}
        <=> \A i \in DOMAIN p.rpt : p.rpt[i].call \notin NoRelayVia
  OBVIOUS
<1> QED BY <1>1, <1>2, <1>3 DEF MayRelay, MessageOf, Gateable

\* What a step heard has been dealt with in that step.
RelayInv == (mode = "start" => heard = << >>) /\ RelayedAsSent

LEMMA HearRelays ==
  ASSUME NEW p \in Packets, Hear(p)
  PROVE  RelayInv'
<1>1. p \in AnyPacket
  BY PacketsAssumption
<1> DEFINE m == MessageOf(p)
           decoded == /\ p.ctrl = CtrlUI /\ p.pid = PidNoLayer3
                      /\ p.rpt # << >> \/ p.info # << >>
<1>2. Message[p] = IF decoded THEN << m >> ELSE << >>
  BY <1>1, FrameDecoded DEF Message, Frame
<1>3. /\ Printed(m) = Copy(p)
      /\ Gateable(p) <=> decoded /\ MayRelay(m)
  BY <1>1, MessageGated
<1>4. PICK io \in Io, fails \in MayFail :
        /\ IF Message[p] = << >> THEN Unsupported(Frame[p], io)
           ELSE Received(Frame[p], Message[p][1], io, fails)
        /\ heard' = << [packet |-> p, session |-> session, failed |-> fails] >>
  BY DEF Hear
<1>5. mode' = mode /\ mode # "start"
  BY DEF Hear
<1> HIDE DEF m, decoded
<1>6. sent' = IF Gateable(p) /\ mode = "gateway" /\ session = "up" /\ ~fails
              THEN << Copy(p) >> ELSE << >>
  <2>1. CASE ~decoded
    <3>1. Message[p] = << >>
      BY <1>2, <2>1
    <3>2. sent' = << >>
      BY <1>4, <3>1 DEF Unsupported
    <3> QED BY <1>3, <2>1, <3>2
  <2>2. CASE decoded
    <3>1. Message[p] # << >> /\ Message[p][1] = m
      BY <1>2, <2>2
    <3>2. Received(Frame[p], m, io, fails)
      BY <1>4, <3>1
    <3>3. IF mode = "gateway" /\ MayRelay(m) THEN Publish(Printed(m), fails) ELSE sent' = << >>
      BY <3>2 DEF Received
    <3>4. CASE mode = "gateway" /\ MayRelay(m)
      BY <1>3, <2>2, <3>3, <3>4 DEF Publish
    <3>5. CASE ~(mode = "gateway" /\ MayRelay(m))
      BY <1>3, <2>2, <3>3, <3>5
    <3> QED BY <3>4, <3>5
  <2> QED BY <2>1, <2>2
<1>7. /\ heard'[1].packet = p /\ heard'[1].session = session /\ heard'[1].failed = fails
      /\ Len(heard') = 1
  BY <1>4
<1> QED BY <1>5, <1>6, <1>7 DEF RelayInv, RelayedAsSent, Copy

LEMMA RelayStays == Spec => []RelayInv
<1>1. Init => RelayInv
  BY DEF Init, RelayInv, RelayedAsSent
<1>2. RelayInv /\ [Next]_vars => RelayInv'
  <2> SUFFICES ASSUME RelayInv, [Next]_vars PROVE RelayInv'
    OBVIOUS
  <2>1. ASSUME NEW p \in Packets, Hear(p) PROVE RelayInv'
    BY <2>1, HearRelays
  <2>2. CASE Start
    BY <2>2 DEF Start, ghosts, RelayInv, RelayedAsSent
  <2>3. CASE Stop \/ Verified \/ Lost \/ BeaconDue \/ LogOther \/ Tick
    <3>1. heard' = << >>
      BY <2>3 DEF Stop, Verified, Lost, BeaconDue, LogOther, Tick
    <3> QED BY <3>1 DEF RelayInv, RelayedAsSent
  <2>4. CASE UNCHANGED vars
    BY <2>4 DEF vars, ghosts, RelayInv, RelayedAsSent
  <2> QED BY <2>1, <2>2, <2>3, <2>4 DEF Next
<1> QED BY <1>1, <1>2, PTL DEF Spec

\* What goes to the server is what a station sent, and all of what it sent that
\* may be gated: the frame a station encodes is decoded (ax25_decode), selected
\* (relay_ax25_message), printed and published without a change, for every set of
\* packets and of exceptions, every length of a call sign and number of repeaters.
THEOREM RelayIsFaithful == Spec => []RelayedAsSent
<1>1. RelayInv => RelayedAsSent
  BY DEF RelayInv
<1> QED BY <1>1, RelayStays, PTL
=============================================================================
