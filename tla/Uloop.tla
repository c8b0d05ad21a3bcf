------------------------------- MODULE Uloop -------------------------------
(***************************************************************************)
(* libubox/uloop.c on epoll: the one thread that runs every callback of    *)
(* the daemon.  A lap of uloop_run takes the time, runs the timers that    *)
(* are due, waits for events if none are left of the last batch, and runs  *)
(* one event's callback.  A callback may do anything to any timer and any  *)
(* descriptor, the one that runs it and those of the batch included.       *)
(*                                                                         *)
(* Loops do not nest and no child is forked in this program, so the stack  *)
(* of running descriptors and the processes are left out.  Its descriptors *)
(* are edge-triggered and report errors to their callback, except for the  *)
(* waker pipe, and there are fewer than ULOOP_MAX_EVENTS.                  *)
(***************************************************************************)
EXTENDS Integers, SequencesExt

CONSTANTS
  Timers, \* the uloop_timeouts
  Fds,    \* the uloop_fds, without the waker's
  Delays, \* the milliseconds a callback asks for
  MaxLap  \* bound: time counts no further between two looks at the clock

\* Clock units in a millisecond, which is all that tv_diff tells apart.
Res == 2

ASSUME UloopAssumption ==
  /\ IsFiniteSet(Fds)
  /\ Timers \cap Fds = {} /\ {"nobody", "none", "waker"} \cap (Timers \cup Fds) = {}
  /\ Delays \subseteq Nat
  /\ MaxLap \in Nat /\ \A d \in Delays : d * Res <= MaxLap

VARIABLES
  pc,         \* "init" before uloop_run; "lap", "timeouts", "events"; "stopped"
  running,    \* whose callback runs: a timer, a descriptor or "nobody"
  timeouts,   \* the pending timers, in the order of the list
  time,       \* their time, relative to the last look at the clock (tv)
  passed,     \* now, relative to the same
  registered, \* the descriptors in the epoll set
  edge,       \* those epoll has an event for
  curFds,     \* cur_fds: the batch, an entry taken back is "none"
  curFd,      \* entries of it that were taken
  valid,      \* those in the batch that are registered since before it was fetched
  cancelled,  \* uloop_cancelled
  woken       \* there is something in the waker pipe

batch == << curFds, curFd, valid >>
clock == << time, passed >>
polls == << registered, edge >>
vars  == << pc, running, timeouts, clock, polls, batch, cancelled, woken >>

Pending(t) == Contains(timeouts, t)

\* list_del: the list q without t.
Without(q, t) ==
  IF Contains(q, t) THEN RemoveAt(q, CHOOSE i \in DOMAIN q : q[i] = t) ELSE q

\* What tv_diff may make of two times a and b: seconds and microseconds are
\* divided one by one, so the result is cut towards zero or away from it.
TvDiff(a, b) == {(a - b) \div Res, -((b - a) \div Res)}

\* A look at the clock: times a millisecond and more ago are all the same.
Rebase ==
  /\ time' = [t \in Timers |->
                IF ~Pending(t) THEN 0
                ELSE IF time[t] - passed < -Res THEN -Res
                ELSE time[t] - passed]
  /\ passed' = 0

Init ==
  /\ pc = "init"
  /\ running = "nobody"
  /\ timeouts = << >>
  /\ time = [t \in Timers |-> 0] /\ passed = 0
  /\ registered = {} /\ edge = {}
  /\ curFds = << >> /\ curFd = 0 /\ valid = {}
  /\ cancelled = FALSE /\ woken = FALSE

-----------------------------------------------------------------------------
(* What callbacks, and main before uloop_run, may call                     *)

InCallback == pc = "init" \/ running # "nobody"

\* Faulty variant: a timer is put at the head of the list.
SlotsFirst(q, when) == {1}

\* Faulty variant: the scan goes on past the first later timer.
SlotsLast(q, when) ==
  {k \in 1 .. Len(q) + 1 : k > 1 => \E d \in TvDiff(time[q[k - 1]], when) : d > 0}

\* The places of a list where uloop_timeout_add may put a timer for when: in
\* front of the first that tv_diff says is later.
Slots(q, when) ==
  {k \in 1 .. Len(q) + 1 :
     /\ \A i \in 1 .. k - 1 : \E d \in TvDiff(time[q[i]], when) : d <= 0
     /\ k <= Len(q) => \E d \in TvDiff(time[q[k]], when) : d > 0}

\* Faulty variant: a pending timer is not taken off the list first.
TimeoutSetTwice(t, delay) ==
  /\ InCallback
  /\ LET when == passed + delay * Res
     IN  /\ \E k \in Slots(timeouts, when) : timeouts' = InsertAt(timeouts, k, t)
         /\ time' = [time EXCEPT ![t] = when]
  /\ UNCHANGED << pc, running, passed, polls, batch, cancelled, woken >>

\* uloop_timeout_set and uloop_timeout_add
TimeoutSet(t, delay) ==
  /\ InCallback
  /\ LET when   == passed + delay * Res
         others == Without(timeouts, t)
     IN  /\ \E k \in Slots(others, when) : timeouts' = InsertAt(others, k, t)
         /\ time' = [time EXCEPT ![t] = when]
  /\ UNCHANGED << pc, running, passed, polls, batch, cancelled, woken >>

\* uloop_timeout_cancel
TimeoutCancel(t) ==
  /\ InCallback /\ Pending(t)
  /\ timeouts' = Without(timeouts, t)
  /\ time' = [time EXCEPT ![t] = 0]
  /\ UNCHANGED << pc, running, passed, polls, batch, cancelled, woken >>

\* uloop_fd_add; what is ready already Happens to it (again).
FdAdd(f) ==
  /\ InCallback
  /\ registered' = registered \cup {f}
  /\ UNCHANGED << pc, running, timeouts, clock, edge, batch, cancelled, woken >>

\* Faulty variant: the batch is searched from its first entry, not from the
\* first that is left.
FdDeleteFromStart(f) ==
  /\ InCallback /\ f \in registered
  /\ curFds' = [i \in DOMAIN curFds |->
                  IF i <= Len(curFds) - curFd /\ curFds[i] = f THEN "none" ELSE curFds[i]]
  /\ registered' = registered \ {f} /\ edge' = edge \ {f}
  /\ valid' = valid \ {f}
  /\ UNCHANGED << pc, running, timeouts, clock, curFd, cancelled, woken >>

\* uloop_fd_delete: the entries of the batch that are left go too.
FdDelete(f) ==
  /\ InCallback /\ f \in registered
  /\ curFds' = [i \in DOMAIN curFds |->
                  IF i > curFd /\ curFds[i] = f THEN "none" ELSE curFds[i]]
  /\ registered' = registered \ {f} /\ edge' = edge \ {f}
  /\ valid' = valid \ {f}
  /\ UNCHANGED << pc, running, timeouts, clock, curFd, cancelled, woken >>

Calls ==
  \/ \E t \in Timers : TimeoutCancel(t) \/ \E d \in Delays : TimeoutSet(t, d)
  \/ \E f \in Fds : FdAdd(f) \/ FdDelete(f)

Return ==
  /\ running # "nobody"
  /\ running' = "nobody"
  /\ UNCHANGED << pc, timeouts, clock, polls, batch, cancelled, woken >>

-----------------------------------------------------------------------------
(* uloop_run                                                               *)

\* main enters the loop: a signal that came before is forgotten.
RunStarts ==
  /\ pc = "init"
  /\ pc' = "lap"
  /\ cancelled' = FALSE
  /\ UNCHANGED << running, timeouts, clock, polls, batch, woken >>

NewLap ==
  /\ pc = "lap" /\ running = "nobody"
  /\ IF cancelled THEN pc' = "stopped" /\ UNCHANGED clock
     ELSE pc' = "timeouts" /\ Rebase
  /\ UNCHANGED << running, timeouts, polls, batch, cancelled, woken >>

\* uloop_process_timeouts: the first of the list, if it is due.
FireTimer ==
  /\ pc = "timeouts" /\ running = "nobody"
  /\ timeouts # << >>
  /\ \E d \in TvDiff(time[Head(timeouts)], 0) : d <= 0
  /\ running' = Head(timeouts)
  /\ timeouts' = Tail(timeouts)
  /\ time' = [time EXCEPT ![Head(timeouts)] = 0]
  /\ UNCHANGED << pc, passed, polls, batch, cancelled, woken >>

\* No timer is due (any more); uloop_run looks at the clock once more.
TimersDone ==
  /\ pc = "timeouts" /\ running = "nobody"
  /\ timeouts # << >> => \E d \in TvDiff(time[Head(timeouts)], 0) : d > 0
  /\ IF cancelled THEN pc' = "stopped" /\ UNCHANGED clock
     ELSE pc' = "events" /\ Rebase
  /\ UNCHANGED << running, timeouts, polls, batch, cancelled, woken >>

Left  == Len(curFds) - curFd
Ready == edge \cup (IF woken THEN {"waker"} ELSE {})

\* The wait of uloop_get_next_timeout is over.
WaitOver == timeouts # << >> /\ \E d \in TvDiff(time[Head(timeouts)], 0) : d * Res <= passed

\* Faulty variant: a new batch is fetched in every lap.
FetchOver ==
  /\ pc = "events"
  /\ Ready # {} \/ WaitOver
  /\ curFds' \in SetToSeqs(Ready) /\ curFd' = 0
  /\ valid' = edge /\ edge' = {}
  /\ pc' = IF Ready = {} THEN "lap" ELSE pc
  /\ UNCHANGED << running, timeouts, clock, registered, cancelled, woken >>

\* uloop_fetch_events: epoll_wait returns with events, or without at the next
\* timer's time.
Fetch ==
  /\ pc = "events" /\ Left = 0
  /\ Ready # {} \/ WaitOver
  /\ curFds' \in SetToSeqs(Ready) /\ curFd' = 0
  /\ valid' = edge /\ edge' = {}
  /\ pc' = IF Ready = {} THEN "lap" ELSE pc
  /\ UNCHANGED << running, timeouts, clock, registered, cancelled, woken >>

\* uloop_run_events: the next entry of the batch.  An entry taken back is
\* passed over; the waker's callback empties its pipe.
Serve ==
  /\ pc = "events" /\ Left > 0
  /\ LET f == curFds[curFd + 1]
     IN  /\ running' = IF f \in {"none", "waker"} THEN "nobody" ELSE f
         /\ pc' = IF f = "none" /\ Left > 1 THEN pc ELSE "lap"
         /\ woken' = (woken /\ f # "waker")
         /\ valid' = valid \ {f}
  /\ curFds' = IF Left = 1 THEN << >> ELSE curFds
  /\ curFd' = IF Left = 1 THEN 0 ELSE curFd + 1
  /\ UNCHANGED << timeouts, clock, polls, cancelled >>

\* main returned or the process was killed, and the daemon is started again.
Restart ==
  /\ pc # "init"
  /\ pc' = "init" /\ running' = "nobody"
  /\ timeouts' = << >> /\ time' = [t \in Timers |-> 0] /\ passed' = 0
  /\ registered' = {} /\ edge' = {}
  /\ curFds' = << >> /\ curFd' = 0 /\ valid' = {}
  /\ cancelled' = FALSE /\ woken' = FALSE

Loop == RunStarts \/ Return \/ NewLap \/ FireTimer \/ TimersDone \/ Fetch \/ Serve

-----------------------------------------------------------------------------
(* Environment                                                             *)

Tick ==
  /\ passed < MaxLap /\ pc # "stopped"
  /\ passed' = passed + 1
  /\ UNCHANGED << pc, running, timeouts, time, polls, batch, cancelled, woken >>

\* Bytes, room or an error come to a descriptor.
Happens(f) ==
  /\ f \in registered \ edge
  /\ edge' = edge \cup {f}
  /\ UNCHANGED << pc, running, timeouts, clock, registered, batch, cancelled, woken >>

\* Faulty variant: the handler does not write to the waker pipe.
SignalQuiet ==
  /\ pc # "stopped" /\ ~cancelled
  /\ cancelled' = TRUE
  /\ pc' \in IF pc = "events" /\ Left = 0 THEN {"events", "lap"} ELSE {pc}
  /\ UNCHANGED << running, timeouts, clock, polls, batch, woken >>

\* SIGINT or SIGTERM, between any two steps: also between the look at
\* uloop_cancelled and the wait, or in the wait, which it then interrupts.
Signal ==
  /\ pc # "stopped" /\ ~cancelled
  /\ cancelled' = TRUE /\ woken' = TRUE
  /\ pc' \in IF pc = "events" /\ Left = 0 THEN {"events", "lap"} ELSE {pc}
  /\ UNCHANGED << running, timeouts, clock, polls, batch >>

Next ==
  \/ Calls \/ Loop \/ Restart
  \/ Tick \/ Signal
  \/ \E f \in Fds : Happens(f)

Spec == Init /\ [][Next]_vars

\* The thread is scheduled, callbacks return, and time goes on.
FairSpec == Spec /\ WF_vars(Loop) /\ WF_vars(Tick)

-----------------------------------------------------------------------------
(* Properties                                                              *)

\* The ranges of the loop's statics; no timer is in the list twice.
TypeOK ==
  /\ pc \in {"init", "lap", "timeouts", "events", "stopped"}
  /\ running \in Timers \cup Fds \cup {"nobody"}
  /\ timeouts \in Seq(Timers) /\ IsInjective(timeouts)
  /\ time \in [Timers -> Int]
  /\ passed \in 0 .. MaxLap
  /\ registered \in SUBSET Fds /\ edge \in SUBSET registered
  /\ curFds \in Seq(Fds \cup {"none", "waker"}) /\ curFd \in 0 .. Len(curFds)
  /\ valid \in SUBSET registered
  /\ cancelled \in BOOLEAN /\ woken \in BOOLEAN

\* The list is sorted as far as a millisecond: no timer waits behind one that
\* is due a millisecond or more after it, although tv_diff cuts off less and
\* the list is searched with nothing but tv_diff (uloop.c:252-278).
SortedToTheMillisecond ==
  \A i, j \in DOMAIN timeouts : i < j => time[timeouts[i]] < time[timeouts[j]] + Res

\* An event is handed to a callback only while its descriptor is registered
\* and has been since before the event was fetched: not after a callback in
\* between deleted it, and not if it was added again since (uloop.c:237-242).
NoStaleEvent ==
  [][\A f \in Fds : running # f /\ running' = f => f \in valid]_vars

\* Why: what is left of the batch is registered since before it was fetched,
\* and no descriptor is in it twice, so that serving one spoils no other.
BatchInv ==
  \A i \in DOMAIN curFds : i > curFd /\ curFds[i] \in Fds =>
    /\ curFds[i] \in valid
    /\ \A j \in DOMAIN curFds : j > i => curFds[j] # curFds[i]

Due(t) == Pending(t) /\ time[t] <= passed

\* While the loop runs a timer that is due does not stay so for ever, unless
\* callbacks set it anew again and again: no stream of events and no other
\* timer, whatever its callback does to itself, keeps it from being run.
DueTimerRuns ==
  \A t \in Timers :
    \/ []<>(~Due(t) \/ pc = "stopped")
    \/ []<><< \E d \in Delays : TimeoutSet(t, d) >>_vars

\* An event is handed to its descriptor's callback, unless the descriptor is
\* deleted before: none is lost between fetching and serving.
EventServed ==
  \A f \in Fds : (f \in edge) ~> (running = f \/ f \notin registered \/ pc = "stopped")

\* A signal that comes while the loop runs ends it, also when it comes
\* between the look at uloop_cancelled and the wait.
SignalEndsLoop == (cancelled /\ pc # "init") ~> (pc \in {"stopped", "init"})
=============================================================================
