------------------------------ MODULE Scheduler ------------------------------
(***************************************************************************)
(* nitrocoro::Scheduler (include/nitrocoro/core/Scheduler.h,               *)
(* src/Scheduler.cc): one thread runs the event loop, any thread may       *)
(* schedule a coroutine, start a timer or stop the loop.                   *)
(*                                                                         *)
(* readyQueue_ and pendingTimers_ are seen as PublishQueue gives them      *)
(* (MpscQueue is proved to implement it): a push by a foreign thread       *)
(* reserves a slot in one step and publishes it in another.  A push by the *)
(* loop thread is one step, because only that thread pops.  The eventfd is *)
(* set or clear, which is all that a level-triggered epoll reports.  The   *)
(* clock ticks in units of 1/TicksPerMs milliseconds.  Of what a resumed   *)
(* coroutine does, only what touches the scheduler is modelled; file       *)
(* descriptors are seen as sources of schedule() calls in the loop thread. *)
(***************************************************************************)
EXTENDS Integers, Sequences

CONSTANTS Threads,     \* threads other than the loop's
          Coros,       \* coroutines
          None,        \* not a coroutine
          Delays,      \* sleeping times, in ticks
          TicksPerMs,  \* ticks in a millisecond, the unit of epoll_wait
          DefaultMs,   \* kDefaultTimeoutMs
          IntSpan,     \* number of values of the int that epoll_wait takes (2^32)
          MaxTime,     \* bound: no timer is set beyond it
          MaxOps       \* bound: number of pushes to the two queues

ASSUME SchedulerAssumption ==
    /\ None \notin Coros
    /\ Delays \subseteq Nat
    /\ TicksPerMs \in Nat \ {0}
    /\ DefaultMs \in Nat
    /\ IntSpan \in Nat \ {0}

VARIABLES ready,     \* readyQueue_: sequence of [co, due, st]; due is 0 unless a timer fired
          pending,   \* pendingTimers_: sequence of [co, due, st]
          timers,    \* timers_: set of [co, due]
          busy,      \* coroutines that are queued, sleeping, being pushed or running
          eventfd,   \* wakeupFd_: "set" or "clear"
          running,   \* running_
          loop,      \* where run() is
          cur,       \* the coroutine that process_ready_queue() has resumed
          woken,     \* the batch of epoll events holds the eventfd's
          timeout,   \* timeout_ms (a local that is out of scope is 0, here and below)
          wakeAt,    \* when epoll_wait returns by itself, or Forever
          snap,      \* the local now of process_timers
          tpc,       \* where each foreign thread is
          pushing,   \* the coroutine it is pushing
          now, ops

vars == <<ready, pending, timers, busy, eventfd, running, loop, cur, woken, timeout, wakeAt,
          snap, tpc, pushing, now, ops>>
\* What only the loop thread touches, apart from where it is, and what only foreign threads do.
loopLocals == <<cur, woken, timeout, wakeAt, snap>>
threadVars == <<tpc, pushing>>
queues == <<ready, pending, timers, busy, ops>>

Forever == -1

Init ==
    /\ ready = << >> /\ pending = << >> /\ timers = {} /\ busy = {}
    /\ eventfd = "clear"
    /\ running = "no"
    /\ loop = "init" /\ cur = None /\ woken = "no"
    /\ timeout = 0 /\ wakeAt = 0 /\ snap = 0
    /\ tpc = [t \in Threads |-> "idle"]
    /\ pushing = [t \in Threads |-> None]
    /\ now = 0 /\ ops = 0

Slot(c, due, st) == [co |-> c, due |-> due, st |-> st]

\* One of the bounded pushes is spent.
Spend == ops < MaxOps /\ ops' = ops + 1

\* c is scheduled by whoever holds its handle, so it is nowhere else.
Claim(c) == c \notin busy /\ busy' = busy \cup {c} /\ Spend

-----------------------------------------------------------------------------
\* Foreign threads: isInOwnThread() is false, as it is for every thread before run().

\* schedule(), spawn() and dispatch(): first half of readyQueue_.push.
ScheduleReserve(t, c) ==
    /\ tpc[t] = "idle"
    /\ Claim(c)
    /\ ready' = Append(ready, Slot(c, 0, "reserved"))
    /\ pushing' = [pushing EXCEPT ![t] = c]
    /\ tpc' = [tpc EXCEPT ![t] = "linkReady"]
    /\ UNCHANGED <<pending, timers, eventfd, running, loop, loopLocals, now>>

\* schedule_at(): first half of pendingTimers_.push.
ScheduleAtReserve(t, c, d) ==
    /\ tpc[t] = "idle"
    /\ now + d <= MaxTime
    /\ Claim(c)
    /\ pending' = Append(pending, Slot(c, now + d, "reserved"))
    /\ pushing' = [pushing EXCEPT ![t] = c]
    /\ tpc' = [tpc EXCEPT ![t] = "linkTimer"]
    /\ UNCHANGED <<ready, timers, eventfd, running, loop, loopLocals, now>>

Published(q, c) ==
    [i \in DOMAIN q |-> IF q[i].co = c THEN Slot(c, q[i].due, "published") ELSE q[i]]

\* Bug: schedule() does not call wakeup() after the push.
PushReadyLink_NoWakeup(t) ==
    /\ tpc[t] = "linkReady"
    /\ ready' = Published(ready, pushing[t])
    /\ pushing' = [pushing EXCEPT ![t] = None]
    /\ tpc' = [tpc EXCEPT ![t] = "idle"]
    /\ UNCHANGED <<pending, timers, busy, ops, eventfd, running, loop, loopLocals, now>>

\* Second half of readyQueue_.push; the call of wakeup() follows.
PushReadyLink(t) ==
    /\ tpc[t] = "linkReady"
    /\ ready' = Published(ready, pushing[t])
    /\ pushing' = [pushing EXCEPT ![t] = None]
    /\ tpc' = [tpc EXCEPT ![t] = "wake"]
    /\ UNCHANGED <<pending, timers, busy, ops, eventfd, running, loop, loopLocals, now>>

\* Second half of pendingTimers_.push; the call of wakeup() follows.
PushTimerLink(t) ==
    /\ tpc[t] = "linkTimer"
    /\ pending' = Published(pending, pushing[t])
    /\ pushing' = [pushing EXCEPT ![t] = None]
    /\ tpc' = [tpc EXCEPT ![t] = "wake"]
    /\ UNCHANGED <<ready, timers, busy, ops, eventfd, running, loop, loopLocals, now>>

\* wakeup().
Wakeup(t) ==
    /\ tpc[t] = "wake"
    /\ eventfd' = "set"
    /\ tpc' = [tpc EXCEPT ![t] = "idle"]
    /\ UNCHANGED <<queues, running, loop, loopLocals, pushing, now>>

\* Bug: stop() does not wake the loop.
Stop_NoWakeup(t) ==
    /\ tpc[t] = "idle"
    /\ running' = "no"
    /\ UNCHANGED <<queues, eventfd, loop, loopLocals, threadVars, now>>

\* stop(); the call of wakeup() follows.
Stop(t) ==
    /\ tpc[t] = "idle"
    /\ running' = "no"
    /\ tpc' = [tpc EXCEPT ![t] = "wake"]
    /\ UNCHANGED <<queues, eventfd, loop, loopLocals, pushing, now>>

-----------------------------------------------------------------------------
\* The loop thread.

\* run() up to the loop: whatever stop() said before is overwritten.
RunStart ==
    /\ loop = "init"
    /\ running' = "yes"
    /\ loop' = "check"
    /\ UNCHANGED <<queues, eventfd, loopLocals, threadVars, now>>

\* while (running_).
CheckRunning ==
    /\ loop = "check"
    /\ loop' = IF running = "yes" THEN "drain" ELSE "done"
    /\ UNCHANGED <<queues, eventfd, running, loopLocals, threadVars, now>>

\* MpscQueue::pop() has a result.
Poppable(q) == q /= << >> /\ Head(q).st = "published"

\* Bug: the popped timer is not pushed to timers_ when another one is there.
DrainPending_Drops ==
    /\ loop = "drain"
    /\ Poppable(pending)
    /\ timers' = IF timers = {} THEN {[co |-> Head(pending).co, due |-> Head(pending).due]} ELSE timers
    /\ pending' = Tail(pending)
    /\ UNCHANGED <<ready, busy, ops, eventfd, running, loop, loopLocals, threadVars, now>>

\* get_next_timeout(): one round of the loop over pendingTimers_.
DrainPending ==
    /\ loop = "drain"
    /\ Poppable(pending)
    /\ timers' = timers \cup {[co |-> Head(pending).co, due |-> Head(pending).due]}
    /\ pending' = Tail(pending)
    /\ UNCHANGED <<ready, busy, ops, eventfd, running, loop, loopLocals, threadVars, now>>

\* static_cast<int> of a 64-bit count of milliseconds.
ToInt(ms) == ((ms + IntSpan \div 2) % IntSpan) - IntSpan \div 2

\* timers_.top(), up to the choice among equal deadlines.
IsTop(x) == x \in timers /\ \A y \in timers : x.due <= y.due

\* What get_next_timeout() returns when x is the next timer.
MsUntil(x) == IF x.due <= now THEN 0 ELSE (x.due - now) \div TicksPerMs

\* Bug: the timeout is computed before the new timers are taken in.
GetNextTimeout_BeforeDrain ==
    /\ loop = "drain"
    /\ \/ timers = {} /\ timeout' = ToInt(DefaultMs)
       \/ \E x \in timers : IsTop(x) /\ timeout' = ToInt(MsUntil(x))
    /\ loop' = "enter"
    /\ UNCHANGED <<queues, eventfd, running, cur, woken, wakeAt, snap, threadVars, now>>

\* get_next_timeout(), after the loop.
GetNextTimeout ==
    /\ loop = "drain"
    /\ ~Poppable(pending)
    /\ \/ timers = {} /\ timeout' = ToInt(DefaultMs)
       \/ \E x \in timers : IsTop(x) /\ timeout' = ToInt(MsUntil(x))
    /\ loop' = "enter"
    /\ UNCHANGED <<queues, eventfd, running, cur, woken, wakeAt, snap, threadVars, now>>

\* process_io_events(): epoll_wait starts; a negative timeout waits without end.
EpollEnter ==
    /\ loop = "enter"
    /\ wakeAt' = IF timeout < 0 THEN Forever ELSE now + timeout * TicksPerMs
    /\ timeout' = 0
    /\ loop' = "wait"
    /\ UNCHANGED <<queues, eventfd, running, cur, woken, snap, threadVars, now>>

TimedOut == wakeAt /= Forever /\ wakeAt <= now

InBatch == IF eventfd = "set" THEN "yes" ELSE "no"

\* epoll_wait returns because of the eventfd or of the timeout.
EpollReturn ==
    /\ loop = "wait"
    /\ eventfd = "set" \/ TimedOut
    /\ woken' = InBatch
    /\ wakeAt' = 0
    /\ loop' = "io"
    /\ UNCHANGED <<queues, eventfd, running, cur, timeout, snap, threadVars, now>>

\* epoll_wait returns -1 (a signal): there is no batch.
EpollInterrupted ==
    /\ loop = "wait"
    /\ wakeAt' = 0
    /\ loop' = "io"
    /\ UNCHANGED <<queues, eventfd, running, cur, woken, timeout, snap, threadVars, now>>

\* The handler of a ready file descriptor schedules the coroutine that waits for it; the event
\* is the first one of a batch that epoll_wait returns, or a later one.
IoEvent(c) ==
    /\ \/ loop = "wait" /\ loop' = "io" /\ woken' = InBatch /\ wakeAt' = 0
       \/ loop = "io" /\ UNCHANGED <<loop, woken, wakeAt>>
    /\ Claim(c)
    /\ ready' = Append(ready, Slot(c, 0, "published"))
    /\ UNCHANGED <<pending, timers, eventfd, running, cur, timeout, snap, threadVars, now>>

\* The eventfd's entry of the batch: read() resets it.
ReadEventfd ==
    /\ loop = "io"
    /\ woken = "yes"
    /\ eventfd' = "clear"
    /\ woken' = "no"
    /\ UNCHANGED <<queues, running, loop, cur, timeout, wakeAt, snap, threadVars, now>>

\* End of the batch; process_timers() reads the clock.
ProcessIoDone ==
    /\ loop = "io"
    /\ woken = "no"
    /\ snap' = now
    /\ loop' = "timers"
    /\ UNCHANGED <<queues, eventfd, running, cur, woken, timeout, wakeAt, threadVars, now>>

\* Bug: a timer fires when less than a millisecond is left.
ProcessTimer_RoundsUp ==
    /\ loop = "timers"
    /\ \E x \in timers :
        /\ IsTop(x)
        /\ x.due < snap + TicksPerMs
        /\ timers' = timers \ {x}
        /\ ready' = Append(ready, Slot(x.co, x.due, "published"))
    /\ UNCHANGED <<pending, busy, ops, eventfd, running, loop, loopLocals, threadVars, now>>

\* process_timers(): one round of the loop.
ProcessTimer ==
    /\ loop = "timers"
    /\ \E x \in timers :
        /\ IsTop(x)
        /\ x.due <= snap
        /\ timers' = timers \ {x}
        /\ ready' = Append(ready, Slot(x.co, x.due, "published"))
    /\ UNCHANGED <<pending, busy, ops, eventfd, running, loop, loopLocals, threadVars, now>>

ProcessTimersDone ==
    /\ loop = "timers"
    /\ \A x \in timers : x.due > snap
    /\ snap' = 0
    /\ loop' = "ready"
    /\ UNCHANGED <<queues, eventfd, running, cur, woken, timeout, wakeAt, threadVars, now>>

\* process_ready_queue(): pop the head and resume it.
PopReady ==
    /\ loop = "ready"
    /\ Poppable(ready)
    /\ ready' = Tail(ready)
    /\ cur' = Head(ready).co
    /\ loop' = "body"
    /\ UNCHANGED <<pending, timers, busy, ops, eventfd, running, woken, timeout, wakeAt, snap, threadVars, now>>

ReadyQueueDone ==
    /\ loop = "ready"
    /\ ~Poppable(ready)
    /\ loop' = "check"
    /\ UNCHANGED <<queues, eventfd, running, loopLocals, threadVars, now>>

-----------------------------------------------------------------------------
\* The resumed coroutine, in the loop thread: no wakeup() follows a push.

\* It schedules another one: spawn(), a promise, a mutex.
BodySchedule(c) ==
    /\ loop = "body"
    /\ Claim(c)
    /\ ready' = Append(ready, Slot(c, 0, "published"))
    /\ UNCHANGED <<pending, timers, eventfd, running, loop, loopLocals, threadVars, now>>

\* It calls stop().
BodyStop ==
    /\ loop = "body"
    /\ running = "yes"
    /\ running' = "no"
    /\ UNCHANGED <<queues, eventfd, loop, loopLocals, threadVars, now>>

Leave ==
    /\ loop = "body"
    /\ cur' = None
    /\ loop' = "ready"
    /\ UNCHANGED <<timers, eventfd, running, woken, timeout, wakeAt, snap, threadVars, now>>

\* It ends, or suspends on something outside the scheduler.
BodySuspend == Leave /\ busy' = busy \ {cur} /\ UNCHANGED <<ready, pending, ops>>

\* It suspends after schedule() of itself.
BodyYield ==
    /\ Leave
    /\ Spend
    /\ ready' = Append(ready, Slot(cur, 0, "published"))
    /\ UNCHANGED <<pending, busy>>

\* It sleeps: TimerAwaiter calls schedule_at().
BodySleep(d) ==
    /\ Leave
    /\ Spend
    /\ now + d <= MaxTime
    /\ pending' = Append(pending, Slot(cur, now + d, "published"))
    /\ UNCHANGED <<ready, busy>>

-----------------------------------------------------------------------------
LoopStep ==
    \/ CheckRunning \/ DrainPending \/ GetNextTimeout \/ EpollEnter
    \/ EpollReturn \/ ReadEventfd \/ ProcessIoDone
    \/ ProcessTimer \/ ProcessTimersDone \/ PopReady \/ ReadyQueueDone
    \/ BodyStop \/ BodySuspend \/ BodyYield
    \/ \E c \in Coros : BodySchedule(c)
    \/ \E d \in Delays : BodySleep(d)

ThreadStep(t) == PushReadyLink(t) \/ PushTimerLink(t) \/ Wakeup(t)

\* Beyond MaxTime the clock goes on only as long as epoll_wait waits for a timer.
Tick ==
    /\ now < MaxTime \/ (loop = "wait" /\ now < wakeAt /\ timers /= {})
    /\ now' = now + 1
    /\ UNCHANGED <<queues, eventfd, running, loop, loopLocals, threadVars>>

Next ==
    \/ \E t \in Threads :
        \/ \E c \in Coros : ScheduleReserve(t, c)
        \/ \E c \in Coros, d \in Delays : ScheduleAtReserve(t, c, d)
        \/ ThreadStep(t)
        \/ Stop(t)
    \/ RunStart
    \/ LoopStep
    \/ EpollInterrupted
    \/ \E c \in Coros : IoEvent(c)
    \/ Tick

Spec == Init /\ [][Next]_vars

\* The threads and the loop keep running, the loop is started and time passes.  Nothing is
\* assumed of I/O, of signals, of stop() or of anybody scheduling anything.
Fairness ==
    /\ WF_vars(RunStart) /\ WF_vars(LoopStep) /\ WF_vars(Tick)
    /\ \A t \in Threads : WF_vars(ThreadStep(t))

FairSpec == Spec /\ Fairness

-----------------------------------------------------------------------------
Slots == [co : Coros, due : Nat, st : {"reserved", "published"}]

\* Types of the state of the scheduler.
TypeOK ==
    /\ ready \in Seq(Slots) /\ pending \in Seq(Slots)
    /\ timers \subseteq [co : Coros, due : Nat]
    /\ busy \subseteq Coros
    /\ eventfd \in {"set", "clear"}
    /\ running \in {"yes", "no"}
    /\ loop \in {"init", "check", "drain", "enter", "wait", "io", "timers", "ready", "body", "done"}
    /\ cur \in Coros \cup {None} /\ (loop = "body" => cur \in Coros)
    /\ woken \in {"yes", "no"}
    /\ timeout \in Int /\ wakeAt \in Int /\ snap \in Nat
    /\ tpc \in [Threads -> {"idle", "linkReady", "linkTimer", "wake"}]
    /\ pushing \in [Threads -> Coros \cup {None}]
    /\ \A t \in Threads : tpc[t] \in {"linkReady", "linkTimer"} => pushing[t] \in Coros
    /\ now \in Nat /\ ops \in Nat

\* Somebody will end the wait: the eventfd is set, or a thread is on its way to set it.
WakeupComing == eventfd = "set" \/ \E t \in Threads : tpc[t] /= "idle"

\* No lost wakeup: while the loop is about to wait or waits in epoll_wait (Scheduler.cc:143),
\* a coroutine in readyQueue_, a timer not yet taken from pendingTimers_ or a stop() request
\* means that wakeup() has been called or is still to be called by the thread that pushed it.
NoLostWakeup ==
    /\ loop \in {"enter", "wait"}
    /\ ready /= << >> \/ pending /= << >> \/ running = "no"
    => WakeupComing

\* No early timer: a coroutine that sleep_for(), sleep_until() or schedule_at() suspended is
\* not in readyQueue_ before its time (process_timers, Scheduler.cc:203).
NoEarlyTimer == \A i \in DOMAIN ready : ready[i].due <= now

\* A reserved slot belongs to a thread that is about to publish it.
Owned(q, label) ==
    \A i \in DOMAIN q : q[i].st = "reserved" => \E t \in Threads : tpc[t] = label /\ pushing[t] = q[i].co

\* The inductive invariant behind NoLostWakeup and NoEarlyTimer: the announcement of a wakeup
\* is there from the moment the loop has looked at a queue, or at running_, for the last time.
IInv ==
    /\ TypeOK
    /\ Owned(ready, "linkReady") /\ Owned(pending, "linkTimer")
    /\ loop \in {"init", "check", "drain", "enter", "wait"} /\ ready /= << >> => WakeupComing
    /\ loop \in {"enter", "wait"} /\ pending /= << >> => WakeupComing
    /\ loop \in {"drain", "enter", "wait"} /\ running = "no" => WakeupComing
    /\ NoEarlyTimer
    /\ snap <= now

Coroutines(q) == {q[i].co : i \in DOMAIN q}

\* No coroutine is lost or duplicated: each one that was scheduled or put to sleep is in
\* exactly one of readyQueue_, pendingTimers_ and timers_, or is the one that runs.
Conservation ==
    LET places == <<Coroutines(ready), Coroutines(pending), {x.co : x \in timers}, {cur} \ {None}>>
    IN  /\ busy = UNION {places[i] : i \in DOMAIN places}
        /\ \A i, j \in DOMAIN places : i /= j => places[i] \cap places[j] = {}
        /\ \A i, j \in DOMAIN ready : ready[i].co = ready[j].co => i = j
        /\ \A i, j \in DOMAIN pending : pending[i].co = pending[j].co => i = j
        /\ \A x, y \in timers : x.co = y.co => x = y

\* Every coroutine that is scheduled or sleeps is resumed, until it ends or suspends on
\* something else, unless the loop is stopped: no interleaving of foreign threads with
\* get_next_timeout(), epoll_wait and process_ready_queue() leaves it waiting.
EveryCoroutineRuns == \A c \in Coros : c \in busy ~> (c \notin busy \/ loop = "done")

\* A stop() of a loop that has been started ends run().
StopEndsRun == (running = "no" /\ loop /= "init") ~> (loop = "done")
=============================================================================
