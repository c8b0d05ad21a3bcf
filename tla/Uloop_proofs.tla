---------------------------- MODULE Uloop_proofs ----------------------------
(***************************************************************************)
(* The event loop, for any number of timers, descriptors and delays: its   *)
(* types, the order of its timers, and that no event outlives its          *)
(* descriptor's registration.                                              *)
(***************************************************************************)
EXTENDS Uloop, SequenceTheorems, FiniteSetTheorems, TLAPS

-----------------------------------------------------------------------------
(* The list of timers                                                      *)

LEMMA WithoutFacts ==
  ASSUME NEW q \in Seq(Timers), NEW t, Contains(q, t)
  PROVE  /\ Without(q, t) \in Seq(Timers)
         /\ \E k \in 1 .. Len(q) :
              /\ q[k] = t
              /\ Len(Without(q, t)) = Len(q) - 1
              /\ \A i \in 1 .. Len(q) - 1 : Without(q, t)[i] = IF i < k THEN q[i] ELSE q[i + 1]
<1> DEFINE k == CHOOSE i \in DOMAIN q : q[i] = t
           a == SubSeq(q, 1, k - 1)
           b == SubSeq(q, k + 1, Len(q))
<1>1. k \in 1 .. Len(q) /\ q[k] = t
  BY DEF Contains
<1>2. Without(q, t) = a \o b
  BY DEF Without, RemoveAt
<1> HIDE DEF k
<1>3. a \in Seq(Timers) /\ Len(a) = k - 1 /\ \A i \in 1 .. k - 1 : a[i] = q[i]
  BY <1>1
<1>4. b \in Seq(Timers) /\ Len(b) = Len(q) - k /\ \A i \in 1 .. Len(q) - k : b[i] = q[k + i]
  BY <1>1
<1> HIDE DEF a, b
<1>5. /\ a \o b \in Seq(Timers) /\ Len(a \o b) = Len(a) + Len(b)
      /\ \A i \in 1 .. Len(a) + Len(b) : (a \o b)[i] = IF i <= Len(a) THEN a[i] ELSE b[i - Len(a)]
  BY <1>3, <1>4, ConcatProperties
<1>6. Len(a) + Len(b) = Len(q) - 1 /\ Len(q) \in Nat
  BY <1>1, <1>3, <1>4
<1>7. ASSUME NEW i \in 1 .. Len(q) - 1
      PROVE  Without(q, t)[i] = IF i < k THEN q[i] ELSE q[i + 1]
  <2>1. CASE i < k
    BY <1>1, <1>2, <1>3, <1>5, <1>6, <2>1
  <2>2. CASE i >= k
    <3>1. i - (k - 1) \in 1 .. Len(q) - k /\ k + (i - (k - 1)) = i + 1
      BY <1>1, <1>6, <2>2
    <3>2. i \in 1 .. Len(a) + Len(b) /\ ~(i <= Len(a))
      BY <1>1, <1>3, <1>6, <2>2
    <3>3. (a \o b)[i] = b[i - Len(a)]
      BY <1>5, <3>2
    <3>4. b[i - (k - 1)] = q[k + (i - (k - 1))]
      BY <1>4, <3>1
    <3>5. ~(i < k)
      BY <1>1, <2>2
    <3> QED BY <1>2, <1>3, <3>1, <3>3, <3>4, <3>5
  <2> QED BY <1>1, <2>1, <2>2
<1> QED BY <1>1, <1>2, <1>5, <1>6, <1>7

LEMMA InsertFacts ==
  ASSUME NEW q \in Seq(Timers), NEW t \in Timers, NEW k \in 1 .. Len(q) + 1
  PROVE  /\ InsertAt(q, k, t) \in Seq(Timers)
         /\ Len(InsertAt(q, k, t)) = Len(q) + 1
         /\ \A i \in 1 .. Len(q) + 1 :
              InsertAt(q, k, t)[i] = IF i < k THEN q[i] ELSE IF i = k THEN t ELSE q[i - 1]
<1> DEFINE a == SubSeq(q, 1, k - 1)
           b == SubSeq(q, k, Len(q))
           c == a \o << t >>
<1>1. a \in Seq(Timers) /\ Len(a) = k - 1 /\ \A i \in 1 .. k - 1 : a[i] = q[i]
  OBVIOUS
<1>2. b \in Seq(Timers) /\ Len(b) = Len(q) - k + 1 /\ \A i \in 1 .. Len(q) - k + 1 : b[i] = q[k + i - 1]
  OBVIOUS
<1>3. InsertAt(q, k, t) = c \o b
  BY DEF InsertAt
<1> HIDE DEF a, b
<1>4. c \in Seq(Timers) /\ Len(c) = k /\ (\A i \in 1 .. k - 1 : c[i] = q[i]) /\ c[k] = t
  BY <1>1
<1> HIDE DEF c
<1>5. /\ c \o b \in Seq(Timers) /\ Len(c \o b) = Len(c) + Len(b)
      /\ \A i \in 1 .. Len(c) + Len(b) : (c \o b)[i] = IF i <= Len(c) THEN c[i] ELSE b[i - Len(c)]
  BY <1>2, <1>4, ConcatProperties
<1>6. Len(c) + Len(b) = Len(q) + 1 /\ Len(q) \in Nat
  BY <1>2, <1>4
<1>7. ASSUME NEW i \in 1 .. Len(q) + 1
      PROVE  (c \o b)[i] = IF i < k THEN q[i] ELSE IF i = k THEN t ELSE q[i - 1]
  <2>1. CASE i <= k
    BY <1>4, <1>5, <1>6, <2>1
  <2>2. CASE i > k
    <3>1. i - k \in 1 .. Len(q) - k + 1 /\ k + (i - k) - 1 = i - 1
      BY <1>6, <2>2
    <3>2. i \in 1 .. Len(c) + Len(b) /\ ~(i <= Len(c))
      BY <1>4, <1>6, <2>2
    <3>3. (c \o b)[i] = b[i - Len(c)]
      BY <1>5, <3>2
    <3>4. b[i - k] = q[k + (i - k) - 1]
      BY <1>2, <3>1
    <3>5. ~(i < k) /\ i # k
      BY <2>2
    <3>6. (c \o b)[i] = q[i - 1]
      BY <1>4, <3>1, <3>3, <3>4
    <3> QED BY <3>5, <3>6
  <2> QED BY <1>6, <2>1, <2>2
<1> QED BY <1>3, <1>5, <1>6, <1>7

\* The list as TypeOK wants it: every timer once.
IsList(q) == q \in Seq(Timers) /\ IsInjective(q)

\* SortedToTheMillisecond of any list and any times.
Ordered(q, tm) == \A i, j \in DOMAIN q : i < j => tm[q[i]] < tm[q[j]] + Res

LEMMA WithoutKeeps ==
  ASSUME NEW q, IsList(q), NEW t, NEW tm \in [Timers -> Int], Ordered(q, tm)
  PROVE  IsList(Without(q, t)) /\ ~Contains(Without(q, t), t) /\ Ordered(Without(q, t), tm)
<1>1. CASE ~Contains(q, t)
  BY <1>1 DEF Without
<1>2. CASE Contains(q, t)
  <2> DEFINE w == Without(q, t)
  <2>1. PICK k \in 1 .. Len(q) :
          /\ q[k] = t
          /\ Len(w) = Len(q) - 1
          /\ \A i \in 1 .. Len(q) - 1 : w[i] = IF i < k THEN q[i] ELSE q[i + 1]
    BY <1>2, WithoutFacts DEF IsList
  <2>2. w \in Seq(Timers) /\ Len(q) \in Nat /\ DOMAIN w = 1 .. Len(q) - 1 /\ DOMAIN q = 1 .. Len(q)
    BY <1>2, <2>1, WithoutFacts DEF IsList
  <2> HIDE DEF w
  <2> DEFINE at(i) == IF i < k THEN i ELSE i + 1
  <2>3. \A i \in DOMAIN w : at(i) \in DOMAIN q /\ at(i) # k /\ w[i] = q[at(i)]
    BY <2>1, <2>2
  <2>4. \A i, j \in DOMAIN w : i < j => at(i) < at(j)
    BY <2>1, <2>2
  <2>5. \A i, j \in DOMAIN w : at(i) = at(j) => i = j
    BY <2>1, <2>2
  <2> HIDE DEF at
  <2>6. IsInjective(w)
    BY <2>3, <2>5 DEF IsInjective, IsList
  <2>7. ~Contains(w, t)
    BY <2>1, <2>2, <2>3 DEF Contains, IsInjective, IsList
  <2>8. Ordered(w, tm)
    BY <2>3, <2>4 DEF Ordered
  <2> QED BY <2>2, <2>6, <2>7, <2>8 DEF IsList, w
<1> QED BY <1>1, <1>2

\* tv_diff of two times says "later" only of a later one, and "not later" only
\* of one that is earlier, equal or less than a millisecond later.
LEMMA TvDiffFacts ==
  ASSUME NEW a \in Int, NEW b \in Int
  PROVE  /\ (\E d \in TvDiff(a, b) : d <= 0) => a < b + Res
         /\ (\E d \in TvDiff(a, b) : d > 0) => b < a
BY DEF TvDiff, Res

LEMMA InsertKeeps ==
  ASSUME NEW q, IsList(q), NEW t \in Timers, ~Contains(q, t), NEW when \in Int,
         NEW tm \in [Timers -> Int], Ordered(q, tm),
         NEW k \in 1 .. Len(q) + 1,
         \A i \in 1 .. k - 1 : \E d \in TvDiff(tm[q[i]], when) : d <= 0,
         k <= Len(q) => \E d \in TvDiff(tm[q[k]], when) : d > 0
  PROVE  /\ IsList(InsertAt(q, k, t))
         /\ Ordered(InsertAt(q, k, t), [tm EXCEPT ![t] = when])
<1> DEFINE w == InsertAt(q, k, t)
           new == [tm EXCEPT ![t] = when]
           from(i) == IF i < k THEN i ELSE i - 1
<1>1. /\ w \in Seq(Timers) /\ Len(w) = Len(q) + 1
      /\ \A i \in 1 .. Len(q) + 1 : w[i] = IF i < k THEN q[i] ELSE IF i = k THEN t ELSE q[i - 1]
  BY InsertFacts DEF IsList
<1>2. Len(q) \in Nat /\ DOMAIN q = 1 .. Len(q) /\ DOMAIN w = 1 .. Len(q) + 1
  BY <1>1 DEF IsList
<1> HIDE DEF w
<1>3. \A i \in DOMAIN w : i # k => from(i) \in DOMAIN q /\ w[i] = q[from(i)] /\ w[i] # t
  BY <1>1, <1>2 DEF Contains
<1>4. w[k] = t /\ k \in DOMAIN w
  BY <1>1, <1>2
<1>5. \A i, j \in DOMAIN w : i # k /\ j # k =>
         /\ i < j => from(i) < from(j)
         /\ from(i) = from(j) => i = j
  BY <1>2
<1>6. IsInjective(w)
  <2> SUFFICES ASSUME NEW i \in DOMAIN w, NEW j \in DOMAIN w, w[i] = w[j]
               PROVE  i = j
    BY DEF IsInjective
  <2>1. CASE i = k \/ j = k
    BY <1>3, <1>4, <2>1
  <2>2. CASE i # k /\ j # k
    BY <1>3, <1>5, <2>2 DEF IsInjective, IsList
  <2> QED BY <2>1, <2>2
<1>7. \A i \in DOMAIN q : q[i] \in Timers /\ tm[q[i]] \in Int
  BY DEF IsList
<1>8. \A i \in DOMAIN q : i < k => tm[q[i]] < when + Res
  <2> SUFFICES ASSUME NEW i \in DOMAIN q, i < k PROVE tm[q[i]] < when + Res
    OBVIOUS
  <2>1. i \in 1 .. k - 1
    BY <1>2
  <2> QED BY <1>7, <2>1, TvDiffFacts
<1>9. \A i \in DOMAIN q : i >= k => when < tm[q[i]] + Res
  <2> SUFFICES ASSUME NEW i \in DOMAIN q, i >= k PROVE when < tm[q[i]] + Res
    OBVIOUS
  <2>1. k \in DOMAIN q
    BY <1>2
  <2>2. tm[q[k]] \in Int /\ tm[q[i]] \in Int
    BY <1>7, <2>1
  <2>3. when < tm[q[k]]
    BY <1>2, <2>1, <2>2, TvDiffFacts
  <2>4. i = k \/ tm[q[k]] < tm[q[i]] + Res
    BY <1>2, <2>1 DEF Ordered
  <2> QED BY <2>2, <2>3, <2>4 DEF Res
<1>10. Ordered(w, new)
  <2> SUFFICES ASSUME NEW i \in DOMAIN w, NEW j \in DOMAIN w, i < j
               PROVE  new[w[i]] < new[w[j]] + Res
    BY DEF Ordered
  <2>1. new[t] = when /\ \A s \in Timers : s # t => new[s] = tm[s]
    OBVIOUS
  <2> HIDE DEF new
  <2>2. CASE i # k /\ j # k
    <3>1. from(i) \in DOMAIN q /\ from(j) \in DOMAIN q /\ from(i) < from(j)
      BY <1>3, <1>5, <2>2
    <3>2. new[w[i]] = tm[q[from(i)]] /\ new[w[j]] = tm[q[from(j)]]
      BY <1>3, <1>7, <2>1, <2>2
    <3> HIDE DEF from
    <3> QED BY <3>1, <3>2 DEF Ordered
  <2>3. CASE i = k
    <3>1. j # k /\ from(j) \in DOMAIN q /\ from(j) >= k
      BY <1>2, <1>3, <2>3
    <3>2. new[w[i]] = when /\ new[w[j]] = tm[q[from(j)]]
      BY <1>3, <1>4, <1>7, <2>1, <2>3, <3>1
    <3> HIDE DEF from
    <3> QED BY <1>9, <3>1, <3>2
  <2>4. CASE j = k
    <3>1. i # k /\ from(i) \in DOMAIN q /\ from(i) < k
      BY <1>2, <1>3, <2>4
    <3>2. new[w[j]] = when /\ new[w[i]] = tm[q[from(i)]]
      BY <1>3, <1>4, <1>7, <2>1, <2>4, <3>1
    <3> HIDE DEF from
    <3> QED BY <1>8, <3>1, <3>2
  <2> QED BY <2>2, <2>3, <2>4
<1> QED BY <1>1, <1>6, <1>10 DEF IsList, w

-----------------------------------------------------------------------------
(* Timers                                                                  *)

TimersOK ==
  /\ IsList(timeouts) /\ Ordered(timeouts, time)
  /\ time \in [Timers -> Int]
  /\ passed \in 0 .. MaxLap

\* A look at the clock moves all times by the same, and those that would get
\* further behind than a millisecond stay together.
LEMMA RebaseKeeps == TimersOK /\ Rebase /\ UNCHANGED timeouts => TimersOK'
<1> SUFFICES ASSUME TimersOK, Rebase, UNCHANGED timeouts PROVE TimersOK'
  OBVIOUS
<1>1. MaxLap \in Nat /\ passed \in Int
  BY UloopAssumption DEF TimersOK
<1>2. passed' \in 0 .. MaxLap
  BY <1>1 DEF Rebase
<1>3. time' \in [Timers -> Int]
  <2>1. \A t \in Timers : time[t] \in Int
    BY DEF TimersOK
  <2> QED BY <1>1, <2>1 DEF Rebase, Res
<1>4. \A i \in DOMAIN timeouts :
        /\ timeouts[i] \in Timers /\ time[timeouts[i]] \in Int
        /\ time'[timeouts[i]] = IF time[timeouts[i]] - passed < -Res THEN -Res
                                ELSE time[timeouts[i]] - passed
  <2> SUFFICES ASSUME NEW i \in DOMAIN timeouts
               PROVE  /\ timeouts[i] \in Timers /\ time[timeouts[i]] \in Int
                      /\ time'[timeouts[i]] = IF time[timeouts[i]] - passed < -Res THEN -Res
                                              ELSE time[timeouts[i]] - passed
    OBVIOUS
  <2>1. timeouts[i] \in Timers /\ time[timeouts[i]] \in Int
    BY DEF TimersOK, IsList
  <2>2. Pending(timeouts[i])
    BY DEF Pending, Contains, TimersOK, IsList
  <2> QED BY <2>1, <2>2 DEF Rebase
<1>5. Ordered(timeouts, time')
  <2> SUFFICES ASSUME NEW i \in DOMAIN timeouts, NEW j \in DOMAIN timeouts, i < j
               PROVE  time'[timeouts[i]] < time'[timeouts[j]] + Res
    BY DEF Ordered
  <2>1. time[timeouts[i]] < time[timeouts[j]] + Res
    BY DEF TimersOK, Ordered
  <2> QED BY <1>1, <1>4, <2>1 DEF Res
<1> QED BY <1>2, <1>3, <1>5 DEF TimersOK

LEMMA TimeoutSetKeeps ==
  ASSUME TimersOK, NEW t \in Timers, NEW delay \in Delays, TimeoutSet(t, delay)
  PROVE  TimersOK'
<1> DEFINE when == passed + delay * Res
           others == Without(timeouts, t)
<1>1. when \in Int
  BY UloopAssumption DEF TimersOK, Res
<1>2. IsList(others) /\ ~Contains(others, t) /\ Ordered(others, time)
  BY WithoutKeeps DEF TimersOK
<1>3. PICK k \in Slots(others, when) : timeouts' = InsertAt(others, k, t)
  BY DEF TimeoutSet
<1>4. time' = [time EXCEPT ![t] = when] /\ passed' = passed
  BY DEF TimeoutSet
<1> HIDE DEF when, others
<1>5. /\ k \in 1 .. Len(others) + 1
      /\ \A i \in 1 .. k - 1 : \E d \in TvDiff(time[others[i]], when) : d <= 0
      /\ k <= Len(others) => \E d \in TvDiff(time[others[k]], when) : d > 0
  BY DEF Slots
<1>6. IsList(timeouts') /\ Ordered(timeouts', time')
  BY <1>1, <1>2, <1>3, <1>4, <1>5, InsertKeeps DEF TimersOK
<1>7. time' \in [Timers -> Int]
  BY <1>1, <1>4 DEF TimersOK
<1> QED BY <1>4, <1>6, <1>7 DEF TimersOK

LEMMA TimeoutCancelKeeps ==
  ASSUME TimersOK, NEW t \in Timers, TimeoutCancel(t)
  PROVE  TimersOK'
<1>1. IsList(timeouts') /\ ~Contains(timeouts', t) /\ Ordered(timeouts', time)
  BY WithoutKeeps DEF TimersOK, TimeoutCancel
<1>2. time' = [time EXCEPT ![t] = 0] /\ passed' = passed
  BY DEF TimeoutCancel
<1>3. \A i \in DOMAIN timeouts' : time'[timeouts'[i]] = time[timeouts'[i]]
  BY <1>1, <1>2 DEF Contains, IsList, TimersOK
<1> QED BY <1>1, <1>2, <1>3 DEF TimersOK, Ordered

LEMMA FireTimerKeeps == TimersOK /\ FireTimer => TimersOK'
<1> SUFFICES ASSUME TimersOK, FireTimer PROVE TimersOK'
  OBVIOUS
<1> DEFINE t == Head(timeouts)
           rest == Tail(timeouts)
<1>1. /\ timeouts \in Seq(Timers) /\ Len(timeouts) \in Nat /\ DOMAIN timeouts = 1 .. Len(timeouts)
      /\ t = timeouts[1] /\ 1 \in DOMAIN timeouts /\ t \in Timers
      /\ rest \in Seq(Timers) /\ DOMAIN rest = 1 .. Len(timeouts) - 1
      /\ \A i \in DOMAIN rest : rest[i] = timeouts[i + 1] /\ i + 1 \in DOMAIN timeouts
  BY DEF TimersOK, IsList, FireTimer
<1>2. timeouts' = rest /\ time' = [time EXCEPT ![t] = 0] /\ passed' = passed
  BY DEF FireTimer
<1> HIDE DEF t, rest
<1>3. IsInjective(rest)
  BY <1>1 DEF IsInjective, TimersOK, IsList
<1>4. \A i \in DOMAIN rest : rest[i] # t
  BY <1>1, SMTT(30) DEF IsInjective, TimersOK, IsList
<1>5. \A i \in DOMAIN rest : rest[i] \in Timers /\ time'[rest[i]] = time[timeouts[i + 1]]
  BY <1>1, <1>2, <1>4 DEF TimersOK
<1>6. Ordered(rest, time')
  <2> SUFFICES ASSUME NEW i \in DOMAIN rest, NEW j \in DOMAIN rest, i < j
               PROVE  time'[rest[i]] < time'[rest[j]] + Res
    BY DEF Ordered
  <2>1. i + 1 \in DOMAIN timeouts /\ j + 1 \in DOMAIN timeouts /\ i + 1 < j + 1
    BY <1>1
  <2>2. time[timeouts[i + 1]] < time[timeouts[j + 1]] + Res
    BY <2>1 DEF Ordered, TimersOK
  <2> QED BY <1>5, <2>2
<1> QED BY <1>1, <1>2, <1>3, <1>6 DEF TimersOK, IsList

LEMMA InitTimers == Init => TimersOK
BY UloopAssumption DEF Init, TimersOK, IsList, IsInjective, Ordered

LEMMA NextTimers == TimersOK /\ [Next]_vars => TimersOK'
<1> SUFFICES ASSUME TimersOK, [Next]_vars PROVE TimersOK'
  OBVIOUS
<1>1. CASE UNCHANGED << timeouts, clock >>
  BY <1>1 DEF TimersOK, clock
<1>2. CASE Calls
  <2>1. ASSUME NEW t \in Timers, NEW d \in Delays, TimeoutSet(t, d) PROVE TimersOK'
    BY <2>1, TimeoutSetKeeps
  <2>2. ASSUME NEW t \in Timers, TimeoutCancel(t) PROVE TimersOK'
    BY <2>2, TimeoutCancelKeeps
  <2>3. ASSUME NEW f \in Fds, FdAdd(f) \/ FdDelete(f) PROVE TimersOK'
    BY <1>1, <2>3 DEF FdAdd, FdDelete
  <2> QED BY <1>2, <2>1, <2>2, <2>3 DEF Calls
<1>3. CASE NewLap \/ TimersDone
  <2>1. UNCHANGED timeouts /\ (Rebase \/ UNCHANGED clock)
    BY <1>3 DEF NewLap, TimersDone
  <2> QED BY <1>1, <2>1, RebaseKeeps
<1>4. CASE FireTimer
  BY <1>4, FireTimerKeeps
<1>5. CASE RunStarts \/ Return \/ Fetch \/ Serve
  BY <1>1, <1>5 DEF RunStarts, Return, Fetch, Serve
<1>6. CASE Restart
  BY <1>6, UloopAssumption DEF Restart, TimersOK, IsList, IsInjective, Ordered
<1>7. CASE Tick
  BY <1>7, UloopAssumption DEF Tick, TimersOK
<1>8. CASE Signal \/ \E f \in Fds : Happens(f)
  BY <1>1, <1>8 DEF Signal, Happens
<1>9. CASE UNCHANGED vars
  BY <1>1, <1>9 DEF vars
<1> QED
  BY <1>2, <1>3, <1>4, <1>5, <1>6, <1>7, <1>8, <1>9 DEF Next, Loop

-----------------------------------------------------------------------------
(* Events                                                                  *)

BatchOK ==
  /\ registered \in SUBSET Fds /\ edge \in SUBSET registered
  /\ curFds \in Seq(Fds \cup {"none", "waker"}) /\ curFd \in 0 .. Len(curFds)
  /\ valid \in SUBSET registered
  /\ BatchInv

\* A batch has every descriptor that was ready once.
LEMMA FetchKeeps == BatchOK /\ Fetch => BatchOK'
<1> SUFFICES ASSUME BatchOK, Fetch PROVE BatchOK'
  OBVIOUS
<1>1. IsFiniteSet(Ready) /\ Ready \subseteq Fds \cup {"waker"} /\ Ready \cap Fds \subseteq edge
  <2>1. edge \subseteq Fds
    BY DEF BatchOK
  <2>2. IsFiniteSet(edge)
    BY <2>1, FS_Subset, UloopAssumption
  <2>3. IsFiniteSet(edge \cup {"waker"})
    BY <2>2, FS_AddElement
  <2> QED BY <2>1, <2>2, <2>3, UloopAssumption DEF Ready
<1>2. Cardinality(Ready) \in Nat
  BY <1>1, FS_CardinalityType
<1>3. /\ curFds' \in [1 .. Cardinality(Ready) -> Ready]
      /\ \A i, j \in 1 .. Cardinality(Ready) : i # j => curFds'[i] # curFds'[j]
      /\ curFd' = 0 /\ valid' = edge /\ edge' = {} /\ registered' = registered
  BY DEF Fetch, SetToSeqs
<1>4. /\ curFds' \in Seq(Fds \cup {"none", "waker"})
      /\ DOMAIN curFds' = 1 .. Cardinality(Ready) /\ Len(curFds') = Cardinality(Ready)
  BY <1>1, <1>2, <1>3
<1>5. \A i \in DOMAIN curFds' : curFds'[i] \in Fds => curFds'[i] \in valid'
  BY <1>1, <1>3, <1>4
<1>6. \A i, j \in DOMAIN curFds' : j > i => curFds'[j] # curFds'[i]
  BY <1>2, <1>3, <1>4
<1>7. BatchInv'
  BY <1>5, <1>6 DEF BatchInv
<1>8. curFd' \in 0 .. Len(curFds')
  BY <1>2, <1>3, <1>4
<1> QED BY <1>3, <1>4, <1>7, <1>8 DEF BatchOK

LEMMA FdDeleteKeeps ==
  ASSUME BatchOK, NEW f \in Fds, FdDelete(f)
  PROVE  BatchOK'
<1>1. /\ curFds \in Seq(Fds \cup {"none", "waker"}) /\ curFd \in 0 .. Len(curFds)
      /\ Len(curFds) \in Nat /\ DOMAIN curFds = 1 .. Len(curFds)
  BY DEF BatchOK
<1>2. /\ curFds' = [i \in DOMAIN curFds |->
                      IF i > curFd /\ curFds[i] = f THEN "none" ELSE curFds[i]]
      /\ curFd' = curFd /\ valid' = valid \ {f}
      /\ registered' = registered \ {f} /\ edge' = edge \ {f}
  BY DEF FdDelete
<1>3. \A i \in DOMAIN curFds : curFds[i] \in Fds \cup {"none", "waker"}
  BY <1>1
<1>4. /\ curFds' \in Seq(Fds \cup {"none", "waker"})
      /\ DOMAIN curFds' = DOMAIN curFds /\ Len(curFds') = Len(curFds)
  BY <1>1, <1>2, <1>3
<1>5. \A i \in DOMAIN curFds' : i > curFd' /\ curFds'[i] \in Fds => curFds'[i] = curFds[i] /\ curFds[i] # f
  BY <1>2, <1>4, UloopAssumption
<1>6. \A i \in DOMAIN curFds' : curFds'[i] \in {curFds[i], "none"}
  BY <1>2, <1>4
<1>7. BatchInv'
  <2> SUFFICES ASSUME NEW i \in DOMAIN curFds', i > curFd', curFds'[i] \in Fds
               PROVE  /\ curFds'[i] \in valid'
                      /\ \A j \in DOMAIN curFds' : j > i => curFds'[j] # curFds'[i]
    BY DEF BatchInv
  <2>1. /\ curFds[i] \in valid /\ curFds[i] # f /\ curFds'[i] = curFds[i]
        /\ \A j \in DOMAIN curFds : j > i => curFds[j] # curFds[i]
    BY <1>2, <1>4, <1>5 DEF BatchOK, BatchInv
  <2> QED BY <1>2, <1>4, <1>6, <2>1, UloopAssumption
<1> QED BY <1>1, <1>2, <1>4, <1>7 DEF BatchOK

\* The entry served is in no later place of the batch.
LEMMA ServeKeeps == BatchOK /\ Serve => BatchOK'
<1> SUFFICES ASSUME BatchOK, Serve PROVE BatchOK'
  OBVIOUS
<1> DEFINE f == curFds[curFd + 1]
<1>1. /\ curFds \in Seq(Fds \cup {"none", "waker"}) /\ curFd \in Nat
      /\ Len(curFds) \in Nat /\ DOMAIN curFds = 1 .. Len(curFds)
      /\ curFd + 1 \in DOMAIN curFds
  BY DEF BatchOK, Serve, Left
<1>2. valid' = valid \ {f} /\ UNCHANGED << registered, edge >>
  BY DEF Serve, polls
<1>3. CASE Left = 1
  BY <1>2, <1>3 DEF Serve, BatchOK, BatchInv
<1>4. CASE Left # 1
  <2>1. curFds' = curFds /\ curFd' = curFd + 1
    BY <1>4 DEF Serve
  <2>2. BatchInv'
    <3> SUFFICES ASSUME NEW i \in DOMAIN curFds, i > curFd + 1, curFds[i] \in Fds
                 PROVE  /\ curFds[i] \in valid'
                        /\ \A j \in DOMAIN curFds : j > i => curFds[j] # curFds[i]
      BY <2>1 DEF BatchInv
    <3>1. i > curFd
      BY <1>1
    <3>2. /\ curFds[i] \in valid
          /\ \A j \in DOMAIN curFds : j > i => curFds[j] # curFds[i]
      BY <3>1 DEF BatchOK, BatchInv
    <3>3. f # curFds[i]
      <4>1. CASE f \in Fds
        BY <1>1, <4>1 DEF BatchOK, BatchInv
      <4>2. CASE f \notin Fds
        BY <4>2
      <4> QED BY <4>1, <4>2
    <3> QED BY <1>2, <3>2, <3>3
  <2> QED BY <1>1, <1>2, <2>1, <2>2 DEF BatchOK
<1> QED BY <1>3, <1>4

LEMMA InitBatch == Init => BatchOK
BY DEF Init, BatchOK, BatchInv

LEMMA NextBatch == BatchOK /\ [Next]_vars => BatchOK'
<1> SUFFICES ASSUME BatchOK, [Next]_vars PROVE BatchOK'
  OBVIOUS
<1>1. CASE UNCHANGED << polls, batch >>
  BY <1>1 DEF BatchOK, BatchInv, polls, batch
<1>2. CASE Calls
  <2>1. ASSUME NEW t \in Timers, NEW d \in Delays, TimeoutSet(t, d) PROVE BatchOK'
    BY <1>1, <2>1 DEF TimeoutSet
  <2>2. ASSUME NEW f \in Fds, FdAdd(f) PROVE BatchOK'
    BY <2>2 DEF FdAdd, BatchOK, BatchInv, batch
  <2>3. ASSUME NEW f \in Fds, FdDelete(f) PROVE BatchOK'
    BY <2>3, FdDeleteKeeps
  <2>4. ASSUME NEW t \in Timers, TimeoutCancel(t) PROVE BatchOK'
    BY <1>1, <2>4 DEF TimeoutCancel
  <2> QED BY <1>2, <2>1, <2>2, <2>3, <2>4 DEF Calls
<1>3. CASE RunStarts \/ Return \/ NewLap \/ FireTimer \/ TimersDone \/ Tick \/ Signal
  BY <1>1, <1>3 DEF RunStarts, Return, NewLap, FireTimer, TimersDone, Tick, Signal
<1>4. CASE Fetch
  BY <1>4, FetchKeeps
<1>5. CASE Serve
  BY <1>5, ServeKeeps
<1>6. CASE Restart
  BY <1>6 DEF Restart, BatchOK, BatchInv
<1>7. CASE \E f \in Fds : Happens(f)
  BY <1>7 DEF Happens, BatchOK, BatchInv, batch
<1>8. CASE UNCHANGED vars
  BY <1>1, <1>8 DEF vars
<1> QED
  BY <1>2, <1>3, <1>4, <1>5, <1>6, <1>7, <1>8 DEF Next, Loop

-----------------------------------------------------------------------------
(* Theorems                                                                *)

\* What runs, and the flags.
ControlOK ==
  /\ pc \in {"init", "lap", "timeouts", "events", "stopped"}
  /\ running \in Timers \cup Fds \cup {"nobody"}
  /\ cancelled \in BOOLEAN /\ woken \in BOOLEAN

LEMMA NextControl == ControlOK /\ TimersOK /\ BatchOK /\ [Next]_vars => ControlOK'
<1> SUFFICES ASSUME ControlOK, TimersOK, BatchOK, [Next]_vars PROVE ControlOK'
  OBVIOUS
<1>1. CASE Calls
  BY <1>1 DEF Calls, TimeoutCancel, TimeoutSet, FdAdd, FdDelete, ControlOK
<1>2. CASE RunStarts \/ Return \/ NewLap \/ TimersDone \/ Fetch \/ Tick \/ Signal
  BY <1>2 DEF RunStarts, Return, NewLap, TimersDone, Fetch, Tick, Signal, ControlOK
<1>3. CASE FireTimer
  <2>1. Head(timeouts) \in Timers
    BY <1>3 DEF FireTimer, TimersOK, IsList
  <2> QED BY <1>3, <2>1 DEF FireTimer, ControlOK
<1>4. CASE Serve
  <2>1. curFds[curFd + 1] \in Fds \cup {"none", "waker"}
    BY <1>4 DEF Serve, Left, BatchOK
  <2> QED BY <1>4, <2>1 DEF Serve, ControlOK
<1>5. CASE Restart \/ (\E f \in Fds : Happens(f)) \/ UNCHANGED vars
  BY <1>5 DEF Restart, Happens, vars, ControlOK
<1> QED BY <1>1, <1>2, <1>3, <1>4, <1>5 DEF Next, Loop

LoopInv == ControlOK /\ TimersOK /\ BatchOK

LEMMA LoopInvariant == Spec => []LoopInv
<1>1. Init => LoopInv
  BY InitTimers, InitBatch DEF LoopInv, Init, ControlOK
<1>2. LoopInv /\ [Next]_vars => LoopInv'
  BY NextTimers, NextBatch, NextControl DEF LoopInv
<1> QED BY <1>1, <1>2, PTL DEF Spec

\* uloop.c: every static of the loop stays in its range, and no timer is in the
\* list twice, whatever callbacks do.
THEOREM TypeCorrect == Spec => []TypeOK
<1>1. LoopInv => TypeOK
  BY DEF LoopInv, ControlOK, TimersOK, BatchOK, IsList, TypeOK
<1> QED BY <1>1, LoopInvariant, PTL

\* uloop_timeout_add: errors of tv_diff do not add up along the list, which
\* stays sorted to the millisecond however many timers it has.
THEOREM ListStaysSorted == Spec => []SortedToTheMillisecond
<1>1. LoopInv => SortedToTheMillisecond
  BY DEF LoopInv, TimersOK, Ordered, SortedToTheMillisecond
<1> QED BY <1>1, LoopInvariant, PTL

\* uloop_fd_delete and uloop_run_events: a callback only gets an event of its
\* descriptor's present registration, for any number of descriptors.
THEOREM NoEventIsStale == Spec => NoStaleEvent
<1>1. LoopInv /\ [Next]_vars => (\A f \in Fds : running # f /\ running' = f => f \in valid)
  <2> SUFFICES ASSUME LoopInv, [Next]_vars, NEW f \in Fds, running # f, running' = f
               PROVE  f \in valid
    OBVIOUS
  <2>1. CASE Serve
    <3>1. curFd + 1 \in DOMAIN curFds /\ curFds[curFd + 1] = f /\ curFd + 1 > curFd
      BY <2>1, UloopAssumption DEF Serve, Left, LoopInv, BatchOK
    <3> QED BY <3>1 DEF LoopInv, BatchOK, BatchInv
  <2>2. CASE FireTimer
    <3>1. Head(timeouts) \in Timers
      BY <2>2 DEF FireTimer, LoopInv, TimersOK, IsList
    <3> QED BY <2>2, <3>1, UloopAssumption DEF FireTimer
  <2>3. CASE Return \/ Restart
    BY <2>3, UloopAssumption DEF Return, Restart
  <2>4. CASE UNCHANGED running
    BY <2>4
  <2>5. CASE Calls
    BY <2>4, <2>5 DEF Calls, TimeoutCancel, TimeoutSet, FdAdd, FdDelete
  <2>6. CASE RunStarts \/ NewLap \/ TimersDone \/ Fetch \/ Tick \/ Signal \/ \E g \in Fds : Happens(g)
    BY <2>4, <2>6 DEF RunStarts, NewLap, TimersDone, Fetch, Tick, Signal, Happens
  <2> QED BY <2>1, <2>2, <2>3, <2>4, <2>5, <2>6 DEF Next, Loop, vars
<1> QED BY <1>1, LoopInvariant, PTL DEF Spec, NoStaleEvent
=============================================================================
