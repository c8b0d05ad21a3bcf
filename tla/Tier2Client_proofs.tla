------------------------- MODULE Tier2Client_proofs -------------------------
(***************************************************************************)
(* Theorems about the tier 2 client, for every value of its constants:     *)
(* type correctness; the admission invariant and the two safety properties *)
(* that rest on it; the spacing of connection attempts; that the client    *)
(* implements the abstract session GatedSession; and that it takes a login *)
(* for refused only when the server refused it.                            *)
(***************************************************************************)
EXTENDS Tier2Client, Lemmas

LEMMA NoConnectionType ==
  ASSUME NoConnection
  PROVE  /\ peer' \in {"none", "up", "closing", "reset", "dead"}
         /\ phase' \in {"none", "banner", "login", "verified", "unverified"}
         /\ commented' \in BOOLEAN
         /\ lines' \in Seq(LineKinds)
         /\ wire' \in Seq(Message)
<1>1. commented' \in BOOLEAN
  BY Zenon DEF NoConnection
<1> QED BY <1>1 DEF NoConnection

LEMMA ProcessEndsType ==
  ASSUME NEW how \in {"exited", "crashed"}, TypeOK, ProcessEnds(how), UNCHANGED fails
  PROVE  TypeOK'
<1>1. stream' \in StreamOver(Message)
  BY FreshStreamType DEF ProcessEnds
<1>2. NoConnection
  BY DEF ProcessEnds
<1> QED BY <1>1, <1>2, NoConnectionType, Tier2Assumption
        DEF ProcessEnds, TypeOK, ClientStates, NoFd

\* The four ways an attempt to connect may end.
LEMMA AttemptType ==
  ASSUME NEW STATE str, NEW STATE fds, NEW STATE fd,
         str \in StreamOver(Message), fds \in SUBSET (1 .. MaxFds),
         fd \in {NoFd} \cup 1 .. MaxFds, TypeOK,
         \/ ResolveFails(str, fds, fd) \/ SocketFails(str, fds)
         \/ ConnectFails(str, fds) \/ ConnectSucceeds(str, fds)
  PROVE  /\ state' \in ClientStates
         /\ sockfd' \in {NoFd} \cup 1 .. MaxFds
         /\ stream' \in StreamOver(Message)
         /\ sinceRecv' \in 0 .. IDLE_TIMEOUT + 1
         /\ openFds' \in SUBSET (1 .. MaxFds)
         /\ fails' \in 0 .. MaxFails
         /\ peer' \in {"none", "up", "closing", "reset", "dead"}
         /\ phase' \in {"none", "banner", "login", "verified", "unverified"}
         /\ commented' \in BOOLEAN
         /\ lines' \in Seq(LineKinds)
         /\ wire' \in Seq(Message)
<1> USE Tier2Assumption
<1>1. CASE ResolveFails(str, fds, fd)
  <2>1. NoConnection
    BY <1>1 DEF ResolveFails
  <2> QED BY <1>1, <2>1, NoConnectionType DEF ResolveFails, TypeOK, ClientStates
<1>2. CASE SocketFails(str, fds)
  <2>1. NoConnection
    BY <1>2 DEF SocketFails
  <2> QED BY <1>2, <2>1, NoConnectionType DEF SocketFails, TypeOK, ClientStates
<1>3. CASE ConnectFails(str, fds)
  <2>1. NoConnection
    BY <1>3 DEF ConnectFails
  <2> QED BY <1>3, <2>1, NoConnectionType DEF ConnectFails, TypeOK, ClientStates
<1>4. CASE ConnectSucceeds(str, fds)
  <2>1. stream' \in StreamOver(Message)
    BY <1>4, FreshStreamType DEF ConnectSucceeds
  <2>2. lines' \in Seq(LineKinds) /\ wire' \in Seq(Message)
    BY <1>4, EmptySeq DEF ConnectSucceeds
  <2>3. commented' \in BOOLEAN
    BY <1>4, Zenon DEF ConnectSucceeds
  <2> QED BY <1>4, <2>1, <2>2, <2>3 DEF ConnectSucceeds, TypeOK, ClientStates
<1> QED BY <1>1, <1>2, <1>3, <1>4

LEMMA OpenType ==
  ASSUME NEW STATE str, NEW STATE fds, NEW STATE fd, NEW STATE w1, NEW STATE w2,
         str \in StreamOver(Message), fds \in SUBSET (1 .. MaxFds),
         fd \in {NoFd} \cup 1 .. MaxFds,
         w1 \in RECONNECT_WAITTIME .. MaxWait, w2 \in RECONNECT_WAITTIME .. MaxWait,
         TypeOK, Open(str, fds, fd, w1, w2)
  PROVE  TypeOK'
<1>1. \/ ResolveFails(str, fds, fd) \/ SocketFails(str, fds)
      \/ ConnectFails(str, fds) \/ ConnectSucceeds(str, fds)
  BY DEF Open
<1>2. waittime' \in RECONNECT_WAITTIME .. MaxWait
  BY DEF Open
<1>3. /\ sinceReconnect' \in 0 .. MaxWait + 1
      /\ sinceKeepalive' \in 0 .. KEEPALIVE_TIMEOUT + 1
      /\ proc' = proc
  BY Tier2Assumption DEF Open
<1> QED BY <1>1, <1>2, <1>3, AttemptType DEF TypeOK

\* What Send leaves in the write buffer and hands to the kernel.
LEMMA SendType ==
  ASSUME NEW M, NEW m \in M, stream \in StreamOver(M), wire \in Seq(M), Send(m)
  PROVE  stream' \in StreamOver(M) /\ wire' \in Seq(M)
<1>1. CASE UNCHANGED << stream, wire >>
  BY <1>1
<1>2. CASE \E w \in Write(stream, m, wire # << >>, peer # "up") :
             stream' = w.stream /\ wire' = wire \o w.sent
  <2> PICK w \in Write(stream, m, wire # << >>, peer # "up") :
             stream' = w.stream /\ wire' = wire \o w.sent
    BY <1>2
  <2>1. w.stream \in StreamOver(M) /\ w.sent \in Seq(M)
    BY WriteType
  <2> QED BY <2>1, ConcatProperties
<1> QED BY <1>1, <1>2 DEF Send

LEMMA CloseType ==
  ASSUME NEW STATE str, str \in StreamOver(Message), TypeOK, Close(str),
         UNCHANGED << proc, waittime, fails, clocks >>
  PROVE  TypeOK'
<1>1. stream' \in StreamOver(Message)
  BY StreamStepType DEF Close
<1>2. NoConnection
  BY DEF Close
<1> QED BY <1>1, <1>2, NoConnectionType DEF Close, TypeOK, ClientStates, clocks, NoFd

LEMMA SendLineType ==
  ASSUME NEW K, lines \in Seq(K), NEW kind \in K, "blank" \in K, SendLine(kind)
  PROVE  lines' \in Seq(K)
<1>1. << kind, "blank" >> \in Seq(K)
  OBVIOUS
<1> QED BY <1>1, ConcatProperties DEF SendLine

LEMMA TimerType == TypeOK /\ TimerRun => TypeOK'
<1> SUFFICES ASSUME TypeOK, TimerRun PROVE TypeOK'
  OBVIOUS
<1> USE Tier2Assumption
<1>1. CASE TimerReconnects
  <2> DEFINE grown == AtMost(waittime + RECONNECT_WAITTIME, MaxWait)
  <2>1. grown \in RECONNECT_WAITTIME .. MaxWait
    BY DEF TypeOK, AtMost
  <2>2. CASE Open(stream, openFds, sockfd, grown, grown)
    <3> HIDE DEF grown
    <3>1. /\ stream \in StreamOver(Message) /\ openFds \in SUBSET (1 .. MaxFds)
          /\ sockfd \in {NoFd} \cup 1 .. MaxFds
      BY DEF TypeOK
    <3> QED BY <2>1, <2>2, <3>1, OpenType
  <2>3. CASE OpenOverLinkedTimer(stream, openFds)
    BY <2>3, ProcessEndsType DEF OpenOverLinkedTimer
  <2> QED BY <1>1, <2>2, <2>3 DEF TimerReconnects
<1>2. CASE TimerGivesUpIdle
  <2> DEFINE freed == XstreamFree(stream)
             fds   == openFds \ {sockfd}
  <2>1. freed \in StreamOver(Message) /\ fds \in SUBSET (1 .. MaxFds)
    BY StreamStepType DEF TypeOK
  <2>2. CASE Open(freed, fds, NoFd, RECONNECT_WAITTIME, waittime)
    <3>1. /\ RECONNECT_WAITTIME \in RECONNECT_WAITTIME .. MaxWait
          /\ waittime \in RECONNECT_WAITTIME .. MaxWait
          /\ NoFd \in {NoFd} \cup 1 .. MaxFds
      BY DEF TypeOK
    <3> HIDE DEF freed, fds
    <3> QED BY <2>1, <2>2, <3>1, OpenType
  <2>3. CASE OpenOverLinkedTimer(freed, fds)
    BY <2>3, ProcessEndsType DEF OpenOverLinkedTimer
  <2> QED BY <1>2, <2>2, <2>3 DEF TimerGivesUpIdle
<1>3. CASE TimerResetsWait
  BY <1>3 DEF TimerResetsWait, TypeOK, clocks, net, fdvars
<1>4. CASE TimerKeepsAlive
  <2>1. stream' \in StreamOver(Message) /\ wire' \in Seq(Message)
    BY <1>4, SendType DEF TimerKeepsAlive, TypeOK, Message
  <2> QED BY <1>4, <2>1 DEF TimerKeepsAlive, TypeOK, fdvars
<1> QED BY <1>1, <1>2, <1>3, <1>4 DEF TimerRun

LEMMA CallbackType ==
  TypeOK /\ (ReadLine \/ ReadEnd \/ WriteReady \/ StateChangeTimer
             \/ \E m \in Reports : Publish(m)) => TypeOK'
<1> SUFFICES ASSUME TypeOK,
                    ReadLine \/ ReadEnd \/ WriteReady \/ StateChangeTimer
                    \/ \E m \in Reports : Publish(m)
             PROVE  TypeOK'
  OBVIOUS
<1> USE Tier2Assumption
<1>1. CASE ReadLine
  <2>1. lines' \in Seq(LineKinds)
    BY <1>1, HeadTailProperties DEF ReadLine, TypeOK
  <2>2. /\ state' \in ClientStates /\ sinceRecv' \in 0 .. IDLE_TIMEOUT + 1
        /\ stream' \in StreamOver(Message) /\ wire' \in Seq(Message)
    <3>1. CASE ReadBlank
      BY <3>1 DEF ReadBlank, TypeOK
    <3>2. CASE ReadGreeting
      <4>1. stream' \in StreamOver(Message) /\ wire' \in Seq(Message)
        BY <3>2, SendType DEF ReadGreeting, TypeOK, Message
      <4> QED BY <3>2, <4>1 DEF ReadGreeting, ClientStates
    <3>3. CASE ReadVerdict
      BY <3>3 DEF ReadVerdict, TypeOK, ClientStates
    <3>4. CASE ReadFeed
      BY <3>4 DEF ReadFeed, TypeOK
    <3> QED BY <1>1, <3>1, <3>2, <3>3, <3>4 DEF ReadLine
  <2> QED BY <1>1, <2>1, <2>2 DEF ReadLine, TypeOK, fdvars
<1>2. CASE ReadEnd
  <2>1. stream' \in StreamOver(Message)
    BY <1>2, StreamStepType DEF ReadEnd, TypeOK
  <2> QED BY <1>2, <2>1 DEF ReadEnd, TypeOK, clocks, net, fdvars
<1>3. CASE WriteReady
  <2> PICK w \in Flush(stream, peer # "up") : stream' = w.stream /\ wire' = wire \o w.sent
    BY <1>3 DEF WriteReady
  <2>1. w.stream \in StreamOver(Message) /\ w.sent \in Seq(Message)
    BY FlushType DEF TypeOK
  <2>2. wire' \in Seq(Message)
    BY <2>1, ConcatProperties DEF TypeOK
  <2> QED BY <1>3, <2>1, <2>2 DEF WriteReady, TypeOK, clocks, fdvars
<1>4. CASE StateChangeTimer
  <2>1. StateChanged(stream) \in StreamOver(Message)
    BY StreamStepType DEF TypeOK
  <2>2. CASE state = "disconnected"
    BY <1>4, <2>1, <2>2 DEF StateChangeTimer, TypeOK, clocks, net, fdvars
  <2>3. CASE state # "disconnected"
    BY <1>4, <2>1, <2>3, CloseType DEF StateChangeTimer
  <2> QED BY <2>2, <2>3
<1>5. CASE \E m \in Reports : Publish(m)
  <2> PICK m \in Reports : Publish(m)
    BY <1>5
  <2>1. stream' \in StreamOver(Message) /\ wire' \in Seq(Message)
    BY SendType DEF Publish, TypeOK, Message
  <2> QED BY <2>1 DEF Publish, TypeOK, clocks, fdvars
<1> QED BY <1>1, <1>2, <1>3, <1>4, <1>5

LEMMA EnvironmentType == TypeOK /\ Environment => TypeOK'
<1> SUFFICES ASSUME TypeOK, Environment PROVE TypeOK'
  OBVIOUS
<1> USE Tier2Assumption
<1>1. CASE Tick
  BY <1>1 DEF Tick, AtMost, TypeOK, net, fdvars
<1>2. CASE ServerGreets
  <2>1. lines' \in Seq(LineKinds)
    BY <1>2, SendLineType DEF ServerGreets, TypeOK, LineKinds
  <2> QED BY <1>2, <2>1 DEF ServerGreets, client, TypeOK, clocks, fdvars
<1>3. CASE ServerTalks
  <2>1. lines' \in Seq(LineKinds)
    BY <1>3, SendLineType DEF ServerTalks, TypeOK, LineKinds
  <2> QED BY <1>3, <2>1 DEF ServerTalks, client, TypeOK, clocks, fdvars
<1>4. CASE ServerReads
  <2>1. wire' \in Seq(Message)
    BY <1>4, HeadTailProperties DEF ServerReads, TypeOK
  <2>2. lines' \in Seq(LineKinds) /\ phase' \in {"none", "banner", "login", "verified", "unverified"}
    BY <1>4, SendLineType DEF ServerReads, TypeOK, LineKinds
  <2> QED BY <1>4, <2>1, <2>2 DEF ServerReads, client, TypeOK, clocks, fdvars
<1>5. CASE ConnectionBreaks
  <2>1. lines' \in Seq(LineKinds)
    BY <1>5, EmptySeq DEF ConnectionBreaks, TypeOK
  <2> QED BY <1>5, <2>1 DEF ConnectionBreaks, client, TypeOK, clocks, fdvars
<1> QED BY <1>1, <1>2, <1>3, <1>4, <1>5 DEF Environment

LEMMA StartType == TypeOK /\ (StartClient \/ StartRefused \/ Terminate) => TypeOK'
<1> SUFFICES ASSUME TypeOK, StartClient \/ StartRefused \/ Terminate PROVE TypeOK'
  OBVIOUS
<1> USE Tier2Assumption
<1>1. CASE StartClient
  <2>1. ZeroStream \in StreamOver(Message) /\ {} \in SUBSET (1 .. MaxFds)
    BY FreshStreamType
  <2>2. \/ ResolveFails(ZeroStream, {}, NoFd) \/ ConnectFails(ZeroStream, {})
        \/ ConnectSucceeds(ZeroStream, {})
    BY <1>1 DEF StartClient
  <2>3. /\ state' \in ClientStates
        /\ sockfd' \in {NoFd} \cup 1 .. MaxFds
        /\ stream' \in StreamOver(Message)
        /\ sinceRecv' \in 0 .. IDLE_TIMEOUT + 1
        /\ openFds' \in SUBSET (1 .. MaxFds)
        /\ fails' \in 0 .. MaxFails
        /\ peer' \in {"none", "up", "closing", "reset", "dead"}
        /\ phase' \in {"none", "banner", "login", "verified", "unverified"}
        /\ commented' \in BOOLEAN
        /\ lines' \in Seq(LineKinds)
        /\ wire' \in Seq(Message)
    BY <2>1, <2>2, AttemptType
  <2> QED BY <1>1, <2>3 DEF StartClient, TypeOK
<1>2. CASE StartRefused \/ Terminate
  BY <1>2, ProcessEndsType DEF StartRefused, Terminate
<1> QED BY <1>1, <1>2

LEMMA InitType == Init => TypeOK
<1>1. Init => commented \in BOOLEAN
  BY Zenon DEF Init
<1> QED BY <1>1, FreshStreamType, EmptySeq, Tier2Assumption DEF Init, TypeOK, ClientStates, NoFd

\* Every behaviour of the daemon, the server and the network keeps every
\* variable in its type, for all timeouts and bounds.
THEOREM TypeCorrect == Spec => []TypeOK
<1>1. TypeOK /\ [Next]_vars => TypeOK'
  <2> SUFFICES ASSUME TypeOK, [Next]_vars PROVE TypeOK'
    OBVIOUS
  <2>1. CASE UNCHANGED vars
    BY <2>1 DEF TypeOK, vars, clocks, net, fdvars
  <2>2. CASE Next
    BY <2>2, TimerType, CallbackType, EnvironmentType, StartType DEF Next, Daemon
  <2> QED BY <2>1, <2>2
<1> QED BY <1>1, InitType, PTL DEF Spec

-----------------------------------------------------------------------------
(* Admission                                                               *)

\* A client without a connection has nothing to answer for.
LEMMA LostAdmission ==
  ASSUME NoConnection, state' = "disconnected"
  PROVE  AdmissionInv'
<1>1. lines' \in Seq(LineKinds \ {"verified"})
  BY EmptySeq DEF NoConnection
<1> QED BY <1>1 DEF NoConnection, AdmissionInv

\* A new connection starts with empty buffers on both sides.
LEMMA FreshAdmission ==
  ASSUME NEW STATE str, NEW STATE fds, ConnectSucceeds(str, fds)
  PROVE  AdmissionInv'
<1>1. stream' \in StreamOver(Courtesies)
  BY FreshStreamType DEF ConnectSucceeds
<1>2. lines' \in Seq(LineKinds \ {"verified"}) /\ wire' \in Seq(Courtesies)
  BY EmptySeq DEF ConnectSucceeds
<1> QED BY <1>1, <1>2 DEF ConnectSucceeds, AdmissionInv

LEMMA AttemptAdmission ==
  ASSUME NEW STATE str, NEW STATE fds, NEW STATE fd,
         \/ ResolveFails(str, fds, fd) \/ SocketFails(str, fds)
         \/ ConnectFails(str, fds) \/ ConnectSucceeds(str, fds)
  PROVE  AdmissionInv'
<1>1. CASE ConnectSucceeds(str, fds)
  BY <1>1, FreshAdmission
<1>2. CASE ResolveFails(str, fds, fd)
  BY <1>2, LostAdmission DEF ResolveFails
<1>3. CASE SocketFails(str, fds)
  BY <1>3, LostAdmission DEF SocketFails
<1>4. CASE ConnectFails(str, fds)
  BY <1>4, LostAdmission DEF ConnectFails
<1> QED BY <1>1, <1>2, <1>3, <1>4

LEMMA OpenAdmission ==
  ASSUME NEW STATE str, NEW STATE fds, NEW STATE fd, NEW STATE w1, NEW STATE w2,
         Open(str, fds, fd, w1, w2) \/ OpenOverLinkedTimer(str, fds)
  PROVE  AdmissionInv'
<1>1. CASE OpenOverLinkedTimer(str, fds)
  BY <1>1, LostAdmission DEF OpenOverLinkedTimer, ProcessEnds
<1>2. CASE Open(str, fds, fd, w1, w2)
  BY <1>2, AttemptAdmission DEF Open
<1> QED BY <1>1, <1>2

LEMMA TimerAdmission == TypeOK /\ AdmissionInv /\ TimerRun => AdmissionInv'
<1> SUFFICES ASSUME TypeOK, AdmissionInv, TimerRun PROVE AdmissionInv'
  OBVIOUS
<1>1. CASE TimerReconnects
  BY <1>1, OpenAdmission DEF TimerReconnects
<1>2. CASE TimerGivesUpIdle
  BY <1>2, OpenAdmission DEF TimerGivesUpIdle
<1>3. CASE TimerResetsWait
  BY <1>3 DEF TimerResetsWait, AdmissionInv, net
<1>4. CASE TimerKeepsAlive
  <2>1. phase # "verified" => wire' \in Seq(Courtesies) /\ stream' \in StreamOver(Courtesies)
    BY <1>4, SendType DEF TimerKeepsAlive, AdmissionInv, Courtesies
  <2> QED BY <1>4, <2>1 DEF TimerKeepsAlive, AdmissionInv
<1> QED BY <1>1, <1>2, <1>3, <1>4 DEF TimerRun

LEMMA ReadAdmission == TypeOK /\ AdmissionInv /\ ReadLine => AdmissionInv'
<1> SUFFICES ASSUME TypeOK, AdmissionInv, ReadLine PROVE AdmissionInv'
  OBVIOUS
<1>1. phase # "verified" => /\ Head(lines) # "verified"
                            /\ lines' \in Seq(LineKinds \ {"verified"})
  BY HeadTailProperties DEF ReadLine, AdmissionInv
<1>2. phase' = phase /\ state # "disconnected"
  BY DEF ReadLine
<1>3. CASE ReadBlank
  BY <1>1, <1>2, <1>3 DEF ReadBlank, AdmissionInv
<1>4. CASE ReadGreeting
  <2>1. phase # "verified" => wire' \in Seq(Courtesies) /\ stream' \in StreamOver(Courtesies)
    BY <1>2, <1>4, SendType DEF ReadGreeting, AdmissionInv, Courtesies
  <2> QED BY <1>1, <1>2, <1>4, <2>1 DEF ReadGreeting, AdmissionInv
<1>5. CASE ReadVerdict
  BY <1>1, <1>2, <1>5 DEF ReadVerdict, AdmissionInv
<1>6. CASE ReadFeed
  BY <1>1, <1>2, <1>6 DEF ReadFeed, AdmissionInv
<1> QED BY <1>3, <1>4, <1>5, <1>6 DEF ReadLine

LEMMA CallbackAdmission ==
  TypeOK /\ AdmissionInv /\ (ReadEnd \/ WriteReady \/ StateChangeTimer
             \/ \E m \in Reports : Publish(m)) => AdmissionInv'
<1> SUFFICES ASSUME TypeOK, AdmissionInv,
                    ReadEnd \/ WriteReady \/ StateChangeTimer
                    \/ \E m \in Reports : Publish(m)
             PROVE  AdmissionInv'
  OBVIOUS
<1>1. CASE ReadEnd
  <2>1. phase # "verified" => stream' \in StreamOver(Courtesies)
    BY <1>1, StreamStepType DEF ReadEnd, AdmissionInv
  <2> QED BY <1>1, <2>1 DEF ReadEnd, AdmissionInv, net
<1>2. CASE WriteReady
  <2> PICK w \in Flush(stream, peer # "up") : stream' = w.stream /\ wire' = wire \o w.sent
    BY <1>2 DEF WriteReady
  <2>1. ASSUME phase # "verified"
        PROVE  wire' \in Seq(Courtesies) /\ stream' \in StreamOver(Courtesies)
    <3>1. wire \in Seq(Courtesies) /\ stream \in StreamOver(Courtesies)
      BY <1>2, <2>1 DEF WriteReady, AdmissionInv
    <3>2. w.stream \in StreamOver(Courtesies) /\ w.sent \in Seq(Courtesies)
      BY <3>1, FlushType
    <3> QED BY <3>1, <3>2, ConcatProperties
  <2> QED BY <1>2, <2>1 DEF WriteReady, AdmissionInv
<1>3. CASE StateChangeTimer
  <2>1. CASE state = "disconnected"
    BY <1>3, <2>1 DEF StateChangeTimer, AdmissionInv, net
  <2>2. CASE state # "disconnected"
    BY <1>3, <2>2, LostAdmission DEF StateChangeTimer, Close
  <2> QED BY <2>1, <2>2
<1>4. CASE \E m \in Reports : Publish(m)
  <2>1. phase = "verified"
    BY <1>4 DEF Publish, AdmissionInv
  <2> QED BY <1>4, <2>1 DEF Publish, AdmissionInv
<1> QED BY <1>1, <1>2, <1>3, <1>4

LEMMA EnvironmentAdmission == TypeOK /\ AdmissionInv /\ Environment => AdmissionInv'
<1> SUFFICES ASSUME TypeOK, AdmissionInv, Environment PROVE AdmissionInv'
  OBVIOUS
<1>1. CASE Tick
  BY <1>1 DEF Tick, AdmissionInv, net
<1>2. CASE ServerGreets
  <2>1. lines' \in Seq(LineKinds \ {"verified"})
    BY <1>2, SendLineType DEF ServerGreets, AdmissionInv, LineKinds
  <2> QED BY <1>2, <2>1 DEF ServerGreets, client, AdmissionInv
<1>3. CASE ServerTalks
  <2>1. phase # "verified" => lines' \in Seq(LineKinds \ {"verified"})
    BY <1>3, SendLineType DEF ServerTalks, AdmissionInv, LineKinds
  <2> QED BY <1>3, <2>1 DEF ServerTalks, client, AdmissionInv
<1>4. CASE ServerReads
  <2>1. phase # "verified" /\ state # "disconnected" => wire' \in Seq(Courtesies)
    BY <1>4, HeadTailProperties DEF ServerReads, AdmissionInv
  <2>2. CASE UNCHANGED << phase, lines >>
    BY <1>4, <2>1, <2>2 DEF ServerReads, client, AdmissionInv
  <2>3. CASE phase = "login" /\ phase' = "verified"
    BY <1>4, <2>3 DEF ServerReads, client, AdmissionInv
  <2>4. CASE phase = "login" /\ phase' = "unverified" /\ SendLine("unverified")
    <3>1. lines' \in Seq(LineKinds \ {"verified"})
      BY <2>4, SendLineType DEF AdmissionInv, LineKinds
    <3> QED BY <1>4, <2>1, <2>4, <3>1 DEF ServerReads, client, AdmissionInv
  <2> QED BY <1>4, <2>2, <2>3, <2>4 DEF ServerReads
<1>5. CASE ConnectionBreaks
  <2>1. phase # "verified" => lines' \in Seq(LineKinds \ {"verified"})
    BY <1>5, EmptySeq DEF ConnectionBreaks, AdmissionInv
  <2> QED BY <1>5, <2>1 DEF ConnectionBreaks, client, AdmissionInv
<1> QED BY <1>1, <1>2, <1>3, <1>4, <1>5 DEF Environment

LEMMA StartAdmission == StartClient \/ StartRefused \/ Terminate => AdmissionInv'
<1>1. ASSUME StartClient PROVE AdmissionInv'
  BY <1>1, AttemptAdmission DEF StartClient
<1>2. ASSUME StartRefused \/ Terminate PROVE AdmissionInv'
  BY <1>2, LostAdmission DEF StartRefused, Terminate, ProcessEnds
<1> QED BY <1>1, <1>2

\* Until the server accepts the login, neither a positive answer nor a report
\* is anywhere between client and server.
THEOREM AdmissionInvariant == Spec => []AdmissionInv
<1>1. Init => AdmissionInv
  BY EmptySeq DEF Init, AdmissionInv
<1>2. TypeOK /\ AdmissionInv /\ [Next]_vars => AdmissionInv'
  <2> SUFFICES ASSUME TypeOK, AdmissionInv, [Next]_vars PROVE AdmissionInv'
    OBVIOUS
  <2>1. CASE UNCHANGED vars
    BY <2>1 DEF AdmissionInv, vars, net
  <2>2. CASE Next
    BY <2>2, TimerAdmission, ReadAdmission, CallbackAdmission,
       EnvironmentAdmission, StartAdmission DEF Next, Daemon
  <2> QED BY <2>1, <2>2
<1> QED BY <1>1, <1>2, TypeCorrect, PTL DEF Spec

\* A client that takes itself for verified is connected to a server that
\* accepted the login of this connection.
THEOREM VerifiedIsAccepted == Spec => []VerifiedMeansAccepted
<1>1. AdmissionInv => VerifiedMeansAccepted
  BY DEF AdmissionInv, VerifiedMeansAccepted
<1> QED BY <1>1, AdmissionInvariant, PTL

\* A report is on its way only to a server that accepted this connection's
\* login, whatever was buffered, lost or retried before.
THEOREM ReportsReachAcceptingServer == Spec => []ReportsOnlyToAcceptingServer
<1>1. TypeOK /\ AdmissionInv => ReportsOnlyToAcceptingServer
  <2> SUFFICES ASSUME TypeOK, AdmissionInv, phase # "verified",
                      NEW i \in 1 .. Len(Outgoing)
               PROVE  Outgoing[i] \notin Reports
    BY DEF ReportsOnlyToAcceptingServer
  <2>1. CASE state = "disconnected"
    <3>1. Outgoing = << >>
      BY <2>1 DEF Outgoing
    <3> QED BY <3>1, EmptySeq
  <2>2. CASE state # "disconnected"
    <3>1. Outgoing = wire \o stream.wbuf
      BY <2>2 DEF Outgoing
    <3>2. wire \in Seq(Courtesies) /\ stream.wbuf \in Seq(Courtesies)
      BY <2>2 DEF AdmissionInv, StreamOver
    <3>3. Outgoing \in Seq(Courtesies)
      BY <3>1, <3>2, ConcatProperties
    <3>4. Outgoing[i] \in Courtesies
      BY <3>3, ElementOfSeq
    <3> QED BY <3>4, Tier2Assumption DEF Courtesies
  <2> QED BY <2>1, <2>2
<1> QED BY <1>1, TypeCorrect, AdmissionInvariant, PTL

-----------------------------------------------------------------------------
(* Spacing of connection attempts                                          *)

\* A TimerRun that attempts to connect does so after a long enough pause.
LEMMA TimerPause ==
  ASSUME TypeOK, SpacingInv, TimerRun, proc' = "running", sinceReconnect' < sinceReconnect
  PROVE  sinceReconnect > AtMost(RECONNECT_WAITTIME, IDLE_TIMEOUT)
<1> USE Tier2Assumption
<1>1. CASE TimerReconnects
  BY <1>1 DEF TimerReconnects, ReconnectDue, TypeOK, AtMost
<1>2. CASE TimerGivesUpIdle
  <2>1. state # "disconnected" /\ sinceRecv > IDLE_TIMEOUT
    BY <1>2 DEF TimerGivesUpIdle, IdleTooLong
  <2>2. sinceReconnect > IDLE_TIMEOUT \/ sinceReconnect > RECONNECT_WAITTIME
    BY <2>1 DEF SpacingInv, TypeOK
  <2> QED BY <2>2 DEF AtMost, TypeOK
<1>3. CASE TimerResetsWait \/ TimerKeepsAlive
  BY <1>3 DEF TimerResetsWait, TimerKeepsAlive, clocks, TypeOK
<1> QED BY <1>1, <1>2, <1>3 DEF TimerRun

\* An attempt sets both ages to zero, unless it ends without a connection.
LEMMA AttemptAges ==
  ASSUME NEW STATE str, NEW STATE fds, NEW STATE fd, SpacingInv, sinceReconnect' = 0,
         proc' = "running",
         \/ ResolveFails(str, fds, fd) \/ SocketFails(str, fds)
         \/ ConnectFails(str, fds) \/ ConnectSucceeds(str, fds)
  PROVE  SpacingInv'
BY DEF ResolveFails, SocketFails, ConnectFails, ConnectSucceeds, SpacingInv

LEMMA SpacingStep == TypeOK /\ SpacingInv /\ [Next]_vars => SpacingInv'
<1> SUFFICES ASSUME TypeOK, SpacingInv, [Next]_vars PROVE SpacingInv'
  OBVIOUS
<1> USE Tier2Assumption
<1>1. CASE UNCHANGED vars
  BY <1>1 DEF SpacingInv, vars, clocks
<1>2. CASE StartClient
  <2>1. \/ ResolveFails(ZeroStream, {}, NoFd) \/ ConnectFails(ZeroStream, {})
        \/ ConnectSucceeds(ZeroStream, {})
    BY <1>2 DEF StartClient
  <2> QED BY <1>2, <2>1, AttemptAges DEF StartClient
<1>3. CASE StartRefused \/ Terminate
  BY <1>3 DEF StartRefused, Terminate, ProcessEnds, SpacingInv
<1>4. CASE TimerReconnects
  BY <1>4, AttemptAges DEF TimerReconnects, Open, OpenOverLinkedTimer, ProcessEnds, SpacingInv
<1>5. CASE TimerGivesUpIdle
  BY <1>5, AttemptAges DEF TimerGivesUpIdle, Open, OpenOverLinkedTimer, ProcessEnds, SpacingInv
<1>6. CASE TimerResetsWait \/ TimerKeepsAlive
  BY <1>6 DEF TimerResetsWait, TimerKeepsAlive, SpacingInv, clocks
<1>7. CASE ReadLine
  <2>1. /\ proc' = "running" /\ sinceReconnect' = sinceReconnect
        /\ sinceRecv' = sinceRecv \/ sinceRecv' = 0
        /\ state # "disconnected"
    BY <1>7 DEF ReadLine, ReadBlank, ReadGreeting, ReadVerdict, ReadFeed
  <2> QED BY <2>1 DEF SpacingInv, TypeOK
<1>8. CASE ReadEnd \/ WriteReady \/ \E m \in Reports : Publish(m)
  BY <1>8 DEF ReadEnd, WriteReady, Publish, SpacingInv, clocks
<1>9. CASE StateChangeTimer
  BY <1>9 DEF StateChangeTimer, Close, SpacingInv, clocks
<1>10. CASE Tick
  BY <1>10 DEF Tick, SpacingInv, TypeOK, AtMost
<1>11. CASE ServerGreets \/ ServerTalks \/ ServerReads \/ ConnectionBreaks
  BY <1>11 DEF ServerGreets, ServerTalks, ServerReads, ConnectionBreaks, client, clocks, SpacingInv
<1> QED BY <1>1, <1>2, <1>3, <1>4, <1>5, <1>6, <1>7, <1>8, <1>9, <1>10, <1>11
        DEF Next, Daemon, TimerRun, Environment

\* Two connection attempts of one process never start closer together than
\* the shorter of the first reconnect delay and the idle timeout.
THEOREM AttemptsAreSpaced == Spec => AttemptSpacing
<1>1. Init => SpacingInv
  BY DEF Init, SpacingInv
<1>2. TypeOK /\ SpacingInv /\ [Next]_vars =>
        [sinceReconnect' < sinceReconnect /\ proc' = "running"
         => sinceReconnect > AtMost(RECONNECT_WAITTIME, IDLE_TIMEOUT)]_vars
  <2> SUFFICES ASSUME TypeOK, SpacingInv, Next, proc' = "running",
                      sinceReconnect' < sinceReconnect
               PROVE  sinceReconnect > AtMost(RECONNECT_WAITTIME, IDLE_TIMEOUT)
    OBVIOUS
  <2> USE Tier2Assumption
  <2>1. CASE TimerRun
    BY <2>1, TimerPause
  <2>2. CASE StartClient \/ StartRefused \/ Terminate
    BY <2>2 DEF StartClient, StartRefused, Terminate, ProcessEnds, SpacingInv
  <2>3. CASE ReadLine \/ ReadEnd \/ WriteReady \/ StateChangeTimer
             \/ \E m \in Reports : Publish(m)
    BY <2>3 DEF ReadLine, ReadEnd, WriteReady, StateChangeTimer, Publish, TypeOK, clocks
  <2>4. CASE Tick
    BY <2>4 DEF Tick, AtMost, TypeOK
  <2>5. CASE ServerGreets \/ ServerTalks \/ ServerReads \/ ConnectionBreaks
    BY <2>5 DEF ServerGreets, ServerTalks, ServerReads, ConnectionBreaks, client, clocks, TypeOK
  <2> QED BY <2>1, <2>2, <2>3, <2>4, <2>5 DEF Next, Daemon, Environment
<1> QED BY <1>1, <1>2, SpacingStep, TypeCorrect, PTL DEF Spec, AttemptSpacing

-----------------------------------------------------------------------------
(* Messages under way                                                      *)

Under == wire \o stream.wbuf

-----------------------------------------------------------------------------
(* What the stream operators do to the messages under way                  *)

LEMMA WriteAppends ==
  ASSUME NEW M, NEW s \in StreamOver(M), NEW m \in M, NEW q \in Seq(M),
         NEW mayBlock \in BOOLEAN, NEW mayFail \in BOOLEAN,
         NEW w \in Write(s, m, mayBlock, mayFail)
  PROVE  \/ (q \o w.sent) \o w.stream.wbuf = q \o s.wbuf
         \/ (q \o w.sent) \o w.stream.wbuf = Append(q \o s.wbuf, m)
<1>1. s.wbuf \in Seq(M) /\ q \o s.wbuf \in Seq(M)
  BY ConcatProperties DEF StreamOver
<1>2. \/ w.sent = << >> /\ w.stream.wbuf = s.wbuf
      \/ w.sent = << >> /\ w.stream.wbuf = Append(s.wbuf, m)
      \/ w.sent = << m >> /\ w.stream.wbuf = << >> /\ s.wbuf = << >>
  <2> DEFINE Buffered == [s EXCEPT !.wbuf = Append(@, m)]
  <2>1. \/ w = Written(s, << >>)
        \/ w = Written(Buffered, << >>)
        \/ w = Written(s, << m >>) /\ s.wbuf = << >>
        \/ w = Written(SetUloop(Buffered, TRUE), << >>)
        \/ w = Written(WriteError(s), << >>)
    BY Zenon DEF Write
  <2>2. /\ Buffered.wbuf = Append(s.wbuf, m)
        /\ SetUloop(Buffered, TRUE).wbuf = Append(s.wbuf, m)
        /\ WriteError(s).wbuf = s.wbuf
    BY DEF StreamOver, SetUloop, WriteError, StateChange
  <2> HIDE DEF Buffered
  <2>3. CASE w = Written(s, << >>)
    BY <2>3 DEF Written
  <2>4. CASE w = Written(Buffered, << >>)
    BY <2>2, <2>4 DEF Written
  <2>5. CASE w = Written(s, << m >>) /\ s.wbuf = << >>
    BY <2>5 DEF Written
  <2>6. CASE w = Written(SetUloop(Buffered, TRUE), << >>)
    BY <2>2, <2>6 DEF Written
  <2>7. CASE w = Written(WriteError(s), << >>)
    BY <2>2, <2>7 DEF Written
  <2> QED BY <2>1, <2>3, <2>4, <2>5, <2>6, <2>7
<1>3. CASE w.sent = << >> /\ w.stream.wbuf = s.wbuf
  BY <1>3, ConcatEmptySeq
<1>4. CASE w.sent = << >> /\ w.stream.wbuf = Append(s.wbuf, m)
  <2>1. q \o Append(s.wbuf, m) = Append(q \o s.wbuf, m)
    BY <1>1, AppendIsConcat, ConcatAssociative, ConcatProperties
  <2> QED BY <1>4, <2>1, ConcatEmptySeq
<1>5. CASE w.sent = << m >> /\ w.stream.wbuf = << >> /\ s.wbuf = << >>
  <2>1. q \o << m >> = Append(q, m) /\ Append(q, m) \in Seq(M)
    BY AppendIsConcat, AppendProperties
  <2> QED BY <1>5, <2>1, ConcatEmptySeq
<1> QED BY <1>2, <1>3, <1>4, <1>5

LEMMA FlushMoves ==
  ASSUME NEW M, NEW s \in StreamOver(M), NEW q \in Seq(M), NEW mayFail \in BOOLEAN,
         NEW w \in Flush(s, mayFail)
  PROVE  (q \o w.sent) \o w.stream.wbuf = q \o s.wbuf
<1> DEFINE n == Len(s.wbuf)
<1>1. s.wbuf \in Seq(M) /\ n \in Nat
  BY LenProperties DEF StreamOver
<1>2. \/ \E k \in 1 .. n - 1 : /\ w.sent = SubSeq(s.wbuf, 1, k)
                               /\ w.stream.wbuf = SubSeq(s.wbuf, k + 1, n)
      \/ w.sent = s.wbuf /\ w.stream.wbuf = SubSeq(s.wbuf, n + 1, n)
      \/ w.sent = << >> /\ w.stream.wbuf = s.wbuf
  <2> DEFINE Sent(k) == SubSeq(s.wbuf, 1, k)
             Left(k) == [s EXCEPT !.wbuf = SubSeq(@, k + 1, Len(@))]
             d == Left(Len(s.wbuf))
             Drained == SetUloop(IF s.eof THEN StateChange(d) ELSE d, FALSE)
  <2>1. \/ \E k \in 1 .. n - 1 : w = Written(Left(k), Sent(k))
        \/ w = Written(Drained, s.wbuf)
        \/ w = Written(WriteError(s), << >>)
    BY Zenon DEF Flush
  <2>2. Drained.wbuf = SubSeq(s.wbuf, n + 1, n) /\ WriteError(s).wbuf = s.wbuf
    BY DEF StreamOver, SetUloop, WriteError, StateChange
  <2>3. ASSUME NEW k \in 1 .. n - 1 PROVE Left(k).wbuf = SubSeq(s.wbuf, k + 1, n)
    BY DEF StreamOver
  <2> HIDE DEF Left, Drained, d
  <2>4. CASE \E k \in 1 .. n - 1 : w = Written(Left(k), Sent(k))
    <3> PICK k \in 1 .. n - 1 : w = Written(Left(k), Sent(k))
      BY <2>4
    <3>1. w.sent = SubSeq(s.wbuf, 1, k) /\ w.stream.wbuf = SubSeq(s.wbuf, k + 1, n)
      BY <2>3 DEF Written
    <3> QED BY <3>1
  <2>5. CASE w = Written(Drained, s.wbuf)
    BY <2>2, <2>5 DEF Written
  <2>6. CASE w = Written(WriteError(s), << >>)
    BY <2>2, <2>6 DEF Written
  <2> QED BY <2>1, <2>4, <2>5, <2>6
<1>3. w.sent \o w.stream.wbuf = s.wbuf /\ w.sent \in Seq(M) /\ w.stream.wbuf \in Seq(M)
  <2>1. w.sent \in Seq(M) /\ w.stream \in StreamOver(M)
    BY FlushType
  <2>2. CASE \E k \in 1 .. n - 1 : /\ w.sent = SubSeq(s.wbuf, 1, k)
                                   /\ w.stream.wbuf = SubSeq(s.wbuf, k + 1, n)
    BY <1>1, <2>1, <2>2, ConcatAdjacentSubSeq, SubSeqFull DEF StreamOver
  <2>3. CASE w.sent = s.wbuf /\ w.stream.wbuf = SubSeq(s.wbuf, n + 1, n)
    BY <1>1, <2>1, <2>3, SubSeqEmpty, ConcatEmptySeq
  <2>4. CASE w.sent = << >> /\ w.stream.wbuf = s.wbuf
    BY <1>1, <2>1, <2>4, ConcatEmptySeq
  <2> QED BY <1>2, <2>1, <2>2, <2>3, <2>4 DEF StreamOver
<1>4. \A S : \A t, u, v \in Seq(S) : (t \o u) \o v = t \o (u \o v)
  BY ConcatAssociative
<1>5. \A x, y \in Seq(M) : (q \o x) \o y = q \o (x \o y)
  BY ONLY q \in Seq(M), <1>4
<1> DEFINE a == w.sent
           b == w.stream.wbuf
<1>6. a \in Seq(M) /\ b \in Seq(M) /\ a \o b = s.wbuf
  BY <1>3, Zenon
<1> HIDE DEF a, b
<1>7. (q \o a) \o b = q \o (a \o b)
  BY ONLY <1>5, <1>6
<1>8. (q \o a) \o b = q \o s.wbuf
  BY <1>6, <1>7
<1> QED BY <1>8 DEF a, b

LEMMA SendAppends ==
  ASSUME TypeOK, NEW m \in Message, Send(m)
  PROVE  Under' = Under \/ Under' = Append(Under, m)
<1>1. CASE UNCHANGED << stream, wire >>
  BY <1>1 DEF Under
<1>2. CASE \E w \in Write(stream, m, wire # << >>, peer # "up") :
             stream' = w.stream /\ wire' = wire \o w.sent
  <2> PICK w \in Write(stream, m, wire # << >>, peer # "up") :
             stream' = w.stream /\ wire' = wire \o w.sent
    BY <1>2
  <2>1. stream \in StreamOver(Message) /\ wire \in Seq(Message)
    BY DEF TypeOK
  <2>2. \/ (wire \o w.sent) \o w.stream.wbuf = wire \o stream.wbuf
        \/ (wire \o w.sent) \o w.stream.wbuf = Append(wire \o stream.wbuf, m)
    BY <2>1, WriteAppends
  <2> QED BY <2>2 DEF Under
<1> QED BY <1>1, <1>2 DEF Send

LEMMA ReadTakesHead ==
  ASSUME TypeOK, wire # << >>
  PROVE  Under # << >> /\ Tail(wire) \o stream.wbuf = Tail(Under) /\ Head(Under) = Head(wire)
<1>1. wire \in Seq(Message) /\ stream.wbuf \in Seq(Message)
  BY DEF TypeOK, StreamOver
<1>2. Under \in Seq(Message) /\ Under # << >>
  BY <1>1, ConcatProperties, ConcatEqualIffEmpty DEF Under
<1>3. Tail(wire) \in Seq(Message) /\ Tail(Under) \in Seq(Message)
  BY <1>1, <1>2, HeadTailProperties
<1>4. Head(Under) = Head(wire)
  <2>1. Len(wire) \in Nat \ {0} /\ Under[1] = wire[1]
    BY <1>1, EmptySeq, ConcatProperties, LenProperties DEF Under
  <2> QED BY <2>1, <1>1, <1>2
<1>5. Tail(wire) \o stream.wbuf = Tail(Under)
  <2> DEFINE l == Tail(wire) \o stream.wbuf
             r == Tail(Under)
  <2>0. Len(wire) \in Nat \ {0} /\ Len(stream.wbuf) \in Nat
    BY <1>1, EmptySeq, LenProperties
  <2>1. /\ Len(Tail(wire)) = Len(wire) - 1
        /\ \A i \in 1 .. Len(wire) - 1 : Tail(wire)[i] = wire[i + 1]
    BY <1>1, HeadTailProperties
  <2>2. /\ l \in Seq(Message) /\ Len(l) = Len(wire) - 1 + Len(stream.wbuf)
        /\ \A i \in 1 .. Len(wire) - 1 + Len(stream.wbuf) :
             l[i] = IF i <= Len(wire) - 1 THEN Tail(wire)[i]
                    ELSE stream.wbuf[i - (Len(wire) - 1)]
    BY <1>1, <1>3, <2>1, ConcatProperties
  <2>3. /\ Len(Under) = Len(wire) + Len(stream.wbuf)
        /\ \A i \in 1 .. Len(wire) + Len(stream.wbuf) :
             Under[i] = IF i <= Len(wire) THEN wire[i] ELSE stream.wbuf[i - Len(wire)]
    BY <1>1, ConcatProperties DEF Under
  <2>4. /\ r \in Seq(Message) /\ Len(r) = Len(Under) - 1
        /\ \A i \in 1 .. Len(Under) - 1 : r[i] = Under[i + 1]
    BY <1>2, HeadTailProperties
  <2> HIDE DEF l, r
  <2>5. Len(l) = Len(r)
    BY <2>0, <2>2, <2>3, <2>4
  <2>6. ASSUME NEW i \in 1 .. Len(l) PROVE l[i] = r[i]
    <3>1. i \in 1 .. Len(wire) - 1 + Len(stream.wbuf) /\ i + 1 \in 1 .. Len(wire) + Len(stream.wbuf)
      BY <2>0, <2>2
    <3>2. r[i] = IF i + 1 <= Len(wire) THEN wire[i + 1] ELSE stream.wbuf[i + 1 - Len(wire)]
      BY <2>0, <2>3, <2>4, <3>1
    <3>3. CASE i <= Len(wire) - 1
      BY <2>0, <2>1, <2>2, <3>1, <3>2, <3>3
    <3>4. CASE ~(i <= Len(wire) - 1)
      <4>1. i - (Len(wire) - 1) = i + 1 - Len(wire)
        BY <2>0
      <4> QED BY <2>0, <2>2, <3>1, <3>2, <3>4, <4>1
    <3> QED BY <3>3, <3>4
  <2>7. l = r
    BY <2>2, <2>4, <2>5, <2>6, SeqEqual
  <2> QED BY <2>7 DEF l, r
<1> QED BY <1>2, <1>4, <1>5

-----------------------------------------------------------------------------
(* The login                                                               *)

\* A step that leaves the client without a connection, or on a new one.
Restarts ==
  \/ state' = "disconnected"
  \/ /\ state' = "connected" /\ phase' = "banner"
     /\ wire' = << >> /\ stream' = FreshStream

LEMMA AttemptRestarts ==
  ASSUME NEW STATE str, NEW STATE fds, NEW STATE fd,
         \/ ResolveFails(str, fds, fd) \/ SocketFails(str, fds)
         \/ ConnectFails(str, fds) \/ ConnectSucceeds(str, fds)
  PROVE  Restarts
BY DEF ResolveFails, SocketFails, ConnectFails, ConnectSucceeds, Restarts

LEMMA ActionRestarts ==
  ASSUME StartClient \/ StartRefused \/ Terminate \/ TimerReconnects \/ TimerGivesUpIdle
         \/ (StateChangeTimer /\ state # "disconnected")
  PROVE  Restarts
<1>1. CASE StartClient
  <2>1. \/ ResolveFails(ZeroStream, {}, NoFd) \/ ConnectFails(ZeroStream, {})
        \/ ConnectSucceeds(ZeroStream, {})
    BY <1>1 DEF StartClient
  <2> QED BY <2>1, AttemptRestarts
<1>2. CASE StartRefused \/ Terminate
  BY <1>2 DEF StartRefused, Terminate, ProcessEnds, Restarts
<1>3. CASE TimerReconnects
  BY <1>3, AttemptRestarts DEF TimerReconnects, Open, OpenOverLinkedTimer, ProcessEnds, Restarts
<1>4. CASE TimerGivesUpIdle
  BY <1>4, AttemptRestarts DEF TimerGivesUpIdle, Open, OpenOverLinkedTimer, ProcessEnds, Restarts
<1>5. CASE StateChangeTimer /\ state # "disconnected"
  BY <1>5 DEF StateChangeTimer, Close, Restarts
<1> QED BY <1>1, <1>2, <1>3, <1>4, <1>5

LEMMA RestartEmpties ==
  Restarts => Outgoing' = << >>
BY ConcatEmptySeq, EmptySeq DEF Restarts, Outgoing, FreshStream

LEMMA EmptyAppend == \A m : Append(<< >>, m) = << m >>
OBVIOUS

LEMMA StreamKeepsBuffer ==
  ASSUME TypeOK, ReadEnd \/ WriteReady
  PROVE  Under' = Under
<1>1. CASE ReadEnd
  <2>1. ReadEof(stream, peer = "reset").wbuf = stream.wbuf
    BY DEF ReadEof, SetUloop, StateChange, TypeOK, StreamOver
  <2> QED BY <1>1, <2>1 DEF ReadEnd, net, Under
<1>2. CASE WriteReady
  <2> PICK w \in Flush(stream, peer # "up") : stream' = w.stream /\ wire' = wire \o w.sent
    BY <1>2 DEF WriteReady
  <2>1. (wire \o w.sent) \o w.stream.wbuf = wire \o stream.wbuf
    BY FlushMoves DEF TypeOK
  <2> QED BY <2>1 DEF Under
<1> QED BY <1>1, <1>2

LEMMA LoginStep == TypeOK /\ LoginInv /\ [Next]_vars => LoginInv'
<1> SUFFICES ASSUME TypeOK, LoginInv, [Next]_vars PROVE LoginInv'
  OBVIOUS
<1>1. CASE UNCHANGED vars
  BY <1>1 DEF vars, net, LoginInv, Outgoing
<1>2. CASE StartClient \/ StartRefused \/ Terminate \/ TimerReconnects \/ TimerGivesUpIdle
           \/ (StateChangeTimer /\ state # "disconnected")
  BY <1>2, ActionRestarts, RestartEmpties DEF LoginInv, Restarts
<1>3. CASE StateChangeTimer /\ state = "disconnected"
  BY <1>3 DEF StateChangeTimer, LoginInv
<1>4. CASE TimerResetsWait \/ Tick
  BY <1>4 DEF TimerResetsWait, Tick, net, LoginInv, Outgoing
<1>5. CASE TimerKeepsAlive \/ \E m \in Reports : Publish(m)
  BY <1>5 DEF TimerKeepsAlive, Publish, LoginInv
<1>6. CASE ReadLine
  <2>1. CASE ReadBlank
    BY <1>6, <2>1 DEF ReadLine, ReadBlank, LoginInv, Outgoing
  <2>2. CASE ReadGreeting
    <3>1. Under = << >>
      BY <2>2 DEF ReadGreeting, LoginInv, Outgoing, Under
    <3>2. Under' = << >> \/ Under' = << "login" >>
      BY <2>2, <3>1, SendAppends, EmptyAppend DEF ReadGreeting, Message
    <3>3. << "login" >> # << >> /\ state' = "server_prompt" /\ phase' = phase
      BY <1>6, <2>2 DEF ReadGreeting, ReadLine
    <3>4. Outgoing' = Under'
      BY <3>3 DEF Outgoing, Under
    <3>5. phase # "verified"
      BY <2>2 DEF ReadGreeting, LoginInv
    <3> QED BY <3>2, <3>3, <3>4, <3>5 DEF LoginInv
  <2>3. CASE ReadVerdict \/ ReadFeed
    BY <2>3 DEF ReadVerdict, ReadFeed, LoginInv
  <2> QED BY <1>6, <2>1, <2>2, <2>3 DEF ReadLine
<1>7. CASE ReadEnd \/ WriteReady
  <2>1. state' = state /\ phase' = phase /\ Under' = Under
    BY <1>7, StreamKeepsBuffer DEF ReadEnd, WriteReady, net
  <2>2. Outgoing' = Outgoing
    BY <2>1 DEF Outgoing, Under
  <2> QED BY <2>1, <2>2 DEF LoginInv
<1>8. CASE ServerGreets \/ ServerTalks \/ ConnectionBreaks
  <2>1. /\ state' = state /\ Outgoing' = Outgoing
        /\ phase' = phase \/ (phase = "banner" /\ phase' = "login")
    BY <1>8 DEF ServerGreets, ServerTalks, ConnectionBreaks, client, Outgoing
  <2> QED BY <2>1 DEF LoginInv
<1>9. CASE ServerReads
  <2>1. /\ state' = state /\ stream' = stream /\ wire # << >> /\ wire' = Tail(wire)
        /\ phase' # phase => Head(wire) = "login" /\ phase' \in {"verified", "unverified"}
    BY <1>9 DEF ServerReads, client
  <2>2. Under # << >> /\ Under' = Tail(Under) /\ Head(Under) = Head(wire)
    BY <2>1, ReadTakesHead DEF Under
  <2>3. CASE state = "connected"
    BY <2>2, <2>3 DEF LoginInv, Outgoing, Under
  <2>4. CASE state = "server_prompt"
    <3>1. Under = << "login" >>
      BY <2>2, <2>4 DEF LoginInv, Outgoing, Under
    <3>2. Outgoing' = << >>
      BY <2>1, <2>2, <2>4, <3>1 DEF Outgoing, Under
    <3> QED BY <2>1, <2>4, <3>2 DEF LoginInv
  <2> QED BY <2>1, <2>3, <2>4 DEF LoginInv
<1> QED BY <1>1, <1>2, <1>3, <1>4, <1>5, <1>6, <1>7, <1>8, <1>9
        DEF Next, Daemon, TimerRun, Environment

\* A connection carries nothing before the login and, until the verdict, at
\* most the login.
THEOREM LoginInvariant == Spec => []LoginInv
<1>1. Init => LoginInv
  BY DEF Init, LoginInv
<1> QED BY <1>1, LoginStep, TypeCorrect, PTL DEF Spec

-----------------------------------------------------------------------------
(* The refinement                                                          *)

Admission ==
  CASE state = "server_prompt" -> "asked"
    [] state = "server_verified" -> "granted"
    [] state = "server_unverified" -> "refused"
    [] OTHER -> "none"

LEMMA AdmissionOf ==
  /\ state \in {"disconnected", "connected"} => Admission = "none"
  /\ state = "server_prompt" => Admission = "asked"
  /\ state = "server_verified" => Admission = "granted"
  /\ state = "server_unverified" => Admission = "refused"
BY DEF Admission

LEMMA InitImplements == Init => Session!Init
BY DEF Init, Session!Init, Outgoing

LEMMA RestartImplements == Restarts => Session!Lose
<1> SUFFICES ASSUME Restarts PROVE Session!Lose
  OBVIOUS
<1>1. Outgoing' = << >>
  BY RestartEmpties
<1>2. Admission' = "none"
  BY DEF Restarts, Admission
<1> QED BY <1>1, <1>2 DEF Session!Lose, Admission

LEMMA SendImplements ==
  ASSUME TypeOK, state \in {"server_verified", "server_unverified"}, state' = state,
         NEW m \in Message, m = "keepalive" \/ (m \in Reports /\ state = "server_verified"),
         Send(m)
  PROVE  Session!Next \/ UNCHANGED Session!vars
<1>1. Admission' = Admission /\ Admission \in {"granted", "refused"}
      /\ (state = "server_verified" => Admission = "granted")
  BY DEF Admission
<1>2. Outgoing' = Outgoing \/ Outgoing' = Append(Outgoing, m)
  BY SendAppends DEF Outgoing, Under
<1>3. CASE Outgoing' = Outgoing
  BY <1>1, <1>3 DEF Session!vars, Admission
<1>4. CASE Outgoing' = Append(Outgoing, m) /\ m = "keepalive"
  <2>1. Session!KeepAlive
    BY <1>1, <1>4 DEF Session!KeepAlive, Admission
  <2> QED BY <2>1 DEF Session!Next
<1>5. CASE Outgoing' = Append(Outgoing, m) /\ m \in Reports /\ state = "server_verified"
  <2>1. Session!SendReport(m)
    BY <1>1, <1>5 DEF Session!SendReport, Admission
  <2> QED BY <1>5, <2>1 DEF Session!Next
<1> QED BY <1>2, <1>3, <1>4, <1>5

LEMMA ReadImplements ==
  ASSUME TypeOK, AdmissionInv, LoginInv, ReadLine
  PROVE  Session!Next \/ UNCHANGED Session!vars
<1>0. phase # "verified" => Head(lines) # "verified"
  BY HeadTailProperties DEF ReadLine, AdmissionInv
<1>1. CASE ReadBlank \/ ReadFeed
  <2>1. Admission' = Admission /\ Outgoing' = Outgoing
    BY <1>1 DEF ReadBlank, ReadFeed, Admission, Outgoing
  <2> QED BY <2>1 DEF Session!vars, Admission
<1>2. CASE ReadGreeting
  <2>1. Outgoing = << >> /\ Under = << >> /\ Admission = "none" /\ Admission' = "asked"
    BY <1>2 DEF ReadGreeting, LoginInv, Outgoing, Under, Admission
  <2>2. Under' = << >> \/ Under' = << "login" >>
    BY <1>2, <2>1, SendAppends, EmptyAppend DEF ReadGreeting, Message
  <2>3. Outgoing' = Under'
    BY <1>2 DEF ReadGreeting, Outgoing, Under
  <2>4. Session!Ask
    BY <2>1, <2>2, <2>3 DEF Session!Ask, Admission
  <2> QED BY <2>4 DEF Session!Next
<1>3. CASE ReadVerdict
  <2>1. Admission = "asked" /\ Outgoing' = Outgoing
    BY <1>3 DEF ReadVerdict, Admission, Outgoing
  <2>2. CASE Head(lines) = "verified"
    <3>1. Admission' = "granted" /\ Outgoing = << >>
      BY <1>0, <1>3, <2>2 DEF ReadVerdict, Admission, LoginInv
    <3>2. Session!Granted
      BY <2>1, <3>1 DEF Session!Granted, Admission
    <3> QED BY <3>2 DEF Session!Next
  <2>3. CASE Head(lines) # "verified"
    <3>1. Admission' = "refused"
      BY <1>3, <2>3 DEF ReadVerdict, Admission
    <3>2. Session!Refused
      BY <2>1, <3>1 DEF Session!Refused, Admission
    <3> QED BY <3>2 DEF Session!Next
  <2> QED BY <2>2, <2>3
<1> QED BY <1>1, <1>2, <1>3 DEF ReadLine

LEMMA StepImplements ==
  TypeOK /\ AdmissionInv /\ LoginInv /\ [Next]_vars => [Session!Next]_(Session!vars)
<1> SUFFICES ASSUME TypeOK, AdmissionInv, LoginInv, [Next]_vars
             PROVE  Session!Next \/ UNCHANGED Session!vars
  OBVIOUS
<1>1. CASE StartClient \/ StartRefused \/ Terminate \/ TimerReconnects \/ TimerGivesUpIdle
           \/ (StateChangeTimer /\ state # "disconnected")
  <2>1. Session!Lose
    BY <1>1, ActionRestarts, RestartImplements
  <2> QED BY <2>1 DEF Session!Next
<1>2. CASE UNCHANGED vars \/ TimerResetsWait \/ Tick \/ ServerGreets \/ ServerTalks
           \/ ConnectionBreaks \/ (StateChangeTimer /\ state = "disconnected")
  <2>1. Admission' = Admission /\ Outgoing' = Outgoing
    BY <1>2 DEF vars, net, TimerResetsWait, Tick, ServerGreets, ServerTalks,
                ConnectionBreaks, StateChangeTimer, client, Admission, Outgoing
  <2> QED BY <2>1 DEF Session!vars, Admission
<1>3. CASE ReadEnd \/ WriteReady
  <2>1. state' = state /\ Under' = Under
    BY <1>3, StreamKeepsBuffer DEF ReadEnd, WriteReady
  <2>2. Admission' = Admission /\ Outgoing' = Outgoing
    BY <2>1 DEF Admission, Outgoing, Under
  <2> QED BY <2>2 DEF Session!vars, Admission
<1>4. CASE TimerKeepsAlive
  BY <1>4, SendImplements DEF TimerKeepsAlive, Message
<1>5. CASE \E m \in Reports : Publish(m)
  BY <1>5, SendImplements DEF Publish, Message
<1>6. CASE ReadLine
  BY <1>6, ReadImplements
<1>7. CASE ServerReads
  <2>1. state' = state /\ stream' = stream /\ wire # << >> /\ wire' = Tail(wire)
    BY <1>7 DEF ServerReads, client
  <2>2. Admission' = Admission
    BY <2>1 DEF Admission
  <2>3. Under # << >> /\ Under' = Tail(Under)
    BY <2>1, ReadTakesHead DEF Under
  <2>4. CASE state = "disconnected"
    <3>1. Outgoing' = Outgoing
      BY <2>1, <2>4 DEF Outgoing
    <3> QED BY <2>2, <3>1 DEF Session!vars, Admission
  <2>5. CASE state # "disconnected"
    <3>1. Outgoing # << >> /\ Outgoing' = Tail(Outgoing)
      BY <2>1, <2>3, <2>5 DEF Outgoing, Under
    <3>2. Session!Receive
      BY <2>2, <3>1 DEF Session!Receive, Admission
    <3> QED BY <3>2 DEF Session!Next
  <2> QED BY <2>4, <2>5
<1> QED BY <1>1, <1>2, <1>3, <1>4, <1>5, <1>6, <1>7
        DEF Next, Daemon, TimerRun, Environment

\* The client, its buffers, retries and lost connections included, is a
\* GatedSession: one login and first, reports only after it was granted, in
\* order, none twice, and none carried over to another connection.
THEOREM ClientImplementsSession == Spec => ImplementsSession
<1> QED BY InitImplements, StepImplements, TypeCorrect, AdmissionInvariant,
           LoginInvariant, PTL DEF Spec, ImplementsSession, Session!Spec

-----------------------------------------------------------------------------
(* Refusal                                                                 *)

\* A connection starts with no line on its way.
LEMMA RestartRefusal ==
  ASSUME StartClient \/ StartRefused \/ Terminate \/ TimerReconnects \/ TimerGivesUpIdle
         \/ (StateChangeTimer /\ state # "disconnected")
  PROVE  AnsweredInOrder'
<1>1. ASSUME NEW STATE str, NEW STATE fds, NEW STATE fd,
             \/ ResolveFails(str, fds, fd) \/ SocketFails(str, fds)
             \/ ConnectFails(str, fds) \/ ConnectSucceeds(str, fds)
      PROVE  AnsweredInOrder'
  BY <1>1 DEF ResolveFails, SocketFails, ConnectFails, ConnectSucceeds, AnsweredInOrder
<1>2. CASE StartClient
  BY <1>1, <1>2 DEF StartClient
<1>3. CASE StartRefused \/ Terminate
  BY <1>3 DEF StartRefused, Terminate, ProcessEnds, AnsweredInOrder
<1>4. CASE TimerReconnects
  BY <1>1, <1>4 DEF TimerReconnects, Open, OpenOverLinkedTimer, ProcessEnds, AnsweredInOrder
<1>5. CASE TimerGivesUpIdle
  BY <1>1, <1>5 DEF TimerGivesUpIdle, Open, OpenOverLinkedTimer, ProcessEnds, AnsweredInOrder
<1>6. CASE StateChangeTimer /\ state # "disconnected"
  BY <1>6 DEF StateChangeTimer, Close, AnsweredInOrder
<1> QED BY <1>2, <1>3, <1>4, <1>5, <1>6

\* An empty line read leaves the answer pending, and the first line that is
\* not empty is the answer.
LEMMA ReadPending ==
  ASSUME TypeOK, AnswerPending, lines' = Tail(lines)
  PROVE  /\ Head(lines) \in {"blank", "verified"}
         /\ Head(lines) = "blank" => AnswerPending'
<1>1. PICK i \in 1 .. Len(lines) :
        lines[i] = "verified" /\ \A j \in 1 .. i - 1 : lines[j] = "blank"
  BY DEF AnswerPending
<1>2. lines \in Seq(LineKinds) /\ Len(lines) \in Nat /\ lines # << >>
  BY <1>1, LenProperties DEF TypeOK
<1>3. /\ Head(lines) = lines[1] /\ Len(lines') = Len(lines) - 1
      /\ \A j \in 1 .. Len(lines) - 1 : lines'[j] = lines[j + 1]
  BY <1>2, HeadTailProperties
<1>4. CASE i = 1
  BY <1>1, <1>3, <1>4
<1>5. CASE i # 1
  <2>1. i - 1 \in 1 .. Len(lines') /\ lines'[i - 1] = "verified"
    BY <1>1, <1>2, <1>3, <1>5
  <2>2. \A j \in 1 .. (i - 1) - 1 : lines'[j] = "blank"
    BY <1>1, <1>2, <1>3
  <2>3. Head(lines) = "blank"
    BY <1>1, <1>3, <1>5
  <2> QED BY <2>1, <2>2, <2>3 DEF AnswerPending
<1> QED BY <1>4, <1>5

\* Lines that follow do not change that.
LEMMA SendKeepsPending ==
  ASSUME TypeOK, AnswerPending, NEW kind \in LineKinds, SendLine(kind)
  PROVE  AnswerPending'
<1>1. PICK i \in 1 .. Len(lines) :
        lines[i] = "verified" /\ \A j \in 1 .. i - 1 : lines[j] = "blank"
  BY DEF AnswerPending
<1>2. lines \in Seq(LineKinds) /\ << kind, "blank" >> \in Seq(LineKinds)
  BY DEF TypeOK, LineKinds
<1>3. Len(lines') = Len(lines) + 2 /\ \A j \in 1 .. Len(lines) : lines'[j] = lines[j]
  BY <1>2, ConcatProperties DEF SendLine
<1> QED BY <1>1, <1>2, <1>3, LenProperties DEF AnswerPending

\* The answer to the login is the first line that is not empty.
LEMMA AnswerBecomesPending ==
  ASSUME lines \in Seq({"blank"}), SendLine("verified")
  PROVE  AnswerPending'
<1>1. << "verified", "blank" >> \in Seq(LineKinds) /\ lines \in Seq(LineKinds)
  BY SeqMonotonic DEF LineKinds
<1>2. Len(lines) \in Nat /\ \A j \in 1 .. Len(lines) : lines[j] = "blank"
  BY LenProperties, ElementOfSeq
<1>3. /\ Len(lines') = Len(lines) + 2 /\ lines'[Len(lines) + 1] = "verified"
      /\ \A j \in 1 .. Len(lines) : lines'[j] = lines[j]
  BY <1>1, <1>2, ConcatProperties DEF SendLine
<1> QED BY <1>2, <1>3 DEF AnswerPending

LEMMA ReadRefusal == TypeOK /\ AnsweredInOrder /\ ReadLine => AnsweredInOrder'
<1> SUFFICES ASSUME TypeOK, AnsweredInOrder, ReadLine PROVE AnsweredInOrder'
  OBVIOUS
<1>1. /\ lines # << >> /\ lines' = Tail(lines) /\ phase' = phase /\ peer' = peer
      /\ lines \in Seq(LineKinds)
  BY DEF ReadLine, TypeOK
<1>2. lines \in Seq({"blank"}) => lines' \in Seq({"blank"}) /\ Head(lines) = "blank"
  BY <1>1, HeadTailProperties
<1>3. lines = << "greeting", "blank" >> =>
        lines' \in Seq({"blank"}) /\ Head(lines) = "greeting"
  BY <1>1
<1>4. AnswerPending => /\ Head(lines) \in {"blank", "verified"}
                       /\ Head(lines) = "blank" => AnswerPending'
  BY <1>1, ReadPending
<1>5. CASE ReadBlank
  <2>1. Head(lines) = "blank" /\ state' = state
    BY <1>5 DEF ReadBlank
  <2> QED BY <1>1, <1>2, <1>3, <1>4, <2>1 DEF AnsweredInOrder
<1>6. CASE ReadGreeting
  BY <1>1, <1>3, <1>6 DEF ReadGreeting, AnsweredInOrder
<1>7. CASE ReadVerdict
  <2>1. /\ state = "server_prompt" /\ Head(lines) # "blank"
        /\ state' = IF Head(lines) = "verified" THEN "server_verified" ELSE "server_unverified"
    BY <1>7 DEF ReadVerdict
  <2> QED BY <1>1, <1>2, <1>4, <2>1 DEF AnsweredInOrder
<1>8. CASE ReadFeed
  BY <1>1, <1>8 DEF ReadFeed, AnsweredInOrder
<1> QED BY <1>5, <1>6, <1>7, <1>8 DEF ReadLine

\* As long as the server does not comment.
LEMMA EnvironmentRefusal ==
  ASSUME TypeOK, LoginInv, AnsweredInOrder, Environment, ~commented'
  PROVE  AnsweredInOrder'
<1>1. CASE Tick
  BY <1>1 DEF Tick, AnsweredInOrder, AnswerPending, net
<1>2. CASE ServerGreets
  <2>1. /\ state' = state /\ phase = "banner" /\ phase' = "login"
        /\ lines' = lines \o << "greeting", "blank" >>
    BY <1>2 DEF ServerGreets, client, SendLine
  <2>2. << >> \o << "greeting", "blank" >> = << "greeting", "blank" >>
    OBVIOUS
  <2> QED BY <2>1, <2>2 DEF AnsweredInOrder
<1>3. CASE ServerTalks
  <2>1. /\ state' = state /\ phase' = phase /\ phase \in {"verified", "unverified"}
        /\ peer' = peer /\ peer = "up"
        /\ SendLine("comment")
    BY <1>3 DEF ServerTalks, client
  <2>2. AnswerPending => AnswerPending'
    BY <2>1, SendKeepsPending DEF LineKinds
  <2> QED BY <2>1, <2>2 DEF AnsweredInOrder
<1>4. CASE ServerReads
  <2>1. state' = state /\ stream' = stream /\ wire # << >> /\ peer' = peer
    BY <1>4 DEF ServerReads, client
  <2>2. CASE UNCHANGED << phase, lines >>
    BY <2>1, <2>2 DEF AnsweredInOrder, AnswerPending
  <2>3. CASE phase = "login" /\ \E v \in {"verified", "unverified"} : phase' = v /\ SendLine(v)
    <3>1. state # "connected"
      <4>1. Under # << >>
        BY <2>1, ReadTakesHead
      <4> QED BY <4>1 DEF LoginInv, Outgoing, Under
    <3>2. lines \in Seq({"blank"}) /\ phase' = "verified" => AnswerPending'
      BY <2>3, AnswerBecomesPending
    <3> QED BY <2>1, <2>3, <3>1, <3>2 DEF AnsweredInOrder
  <2> QED BY <1>4, <2>2, <2>3 DEF ServerReads
<1>5. CASE ConnectionBreaks
  <2>1. /\ state' = state /\ phase' = phase
        /\ lines' = lines \/ (lines' = << >> /\ peer' = "reset")
        /\ peer = "up"
    BY <1>5 DEF ConnectionBreaks, client
  <2>2. lines' = lines => (AnswerPending => AnswerPending')
    BY DEF AnswerPending
  <2>3. << >> \in Seq({"blank"})
    BY EmptySeq
  <2> QED BY <2>1, <2>2, <2>3 DEF AnsweredInOrder
<1> QED BY <1>1, <1>2, <1>3, <1>4, <1>5 DEF Environment

\* A login the client takes for refused was refused, unless the server of this
\* very connection commented before its answer (tier2_client_receive): no empty
\* line, greeting or line of an earlier connection is ever taken for a refusal.
THEOREM RefusalIsTheServers == Spec => []RefusalHasCause
<1>1. Init => RefusedInv
  BY DEF Init, RefusedInv, AnsweredInOrder
<1>2. TypeOK /\ LoginInv /\ RefusedInv /\ [Next]_vars => RefusedInv'
  <2> SUFFICES ASSUME TypeOK, LoginInv, RefusedInv, [Next]_vars PROVE RefusedInv'
    OBVIOUS
  <2>1. CASE UNCHANGED vars
    BY <2>1 DEF vars, net, RefusedInv, AnsweredInOrder, AnswerPending
  <2>2. CASE StartClient \/ StartRefused \/ Terminate \/ TimerReconnects \/ TimerGivesUpIdle
             \/ (StateChangeTimer /\ state # "disconnected")
    BY <2>2, RestartRefusal DEF RefusedInv
  <2>3. CASE \/ StateChangeTimer /\ state = "disconnected"
             \/ TimerResetsWait \/ TimerKeepsAlive \/ ReadEnd \/ WriteReady
             \/ \E m \in Reports : Publish(m)
    <3>1. UNCHANGED << state, phase, commented, lines, peer >>
      BY <2>3 DEF StateChangeTimer, TimerResetsWait, TimerKeepsAlive, ReadEnd, WriteReady,
                  Publish, net
    <3> QED BY <3>1 DEF RefusedInv, AnsweredInOrder, AnswerPending
  <2>4. CASE ReadLine
    <3>1. commented' = commented
      BY <2>4 DEF ReadLine
    <3> QED BY <2>4, <3>1, ReadRefusal DEF RefusedInv
  <2>5. CASE Environment
    <3>1. commented => commented'
      BY <2>5 DEF Environment, Tick, ServerGreets, ServerTalks, ServerReads, ConnectionBreaks, net
    <3> QED BY <2>5, <3>1, EnvironmentRefusal DEF RefusedInv
  <2> QED BY <2>1, <2>2, <2>3, <2>4, <2>5 DEF Next, Daemon, TimerRun
<1>3. RefusedInv => RefusalHasCause
  BY DEF RefusedInv, AnsweredInOrder, RefusalHasCause
<1> QED BY <1>1, <1>2, <1>3, TypeCorrect, LoginInvariant, PTL DEF Spec
=============================================================================
