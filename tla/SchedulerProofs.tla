--------------------------- MODULE SchedulerProofs ---------------------------
(***************************************************************************)
(* The event loop loses no wakeup, fires no timer early, and neither loses *)
(* nor duplicates a coroutine, for any number of threads and coroutines,   *)
(* any delays and without the bounds of TLC's runs being needed.           *)
(***************************************************************************)
EXTENDS Scheduler, TLAPS

\* What a queue holds after a push, slot by slot (MpscQueue::push).
LEMMA AppendFacts ==
    ASSUME NEW S, NEW q \in Seq(S), NEW e \in S
    PROVE  /\ Append(q, e) \in Seq(S)
           /\ \A i \in DOMAIN Append(q, e) :
                Append(q, e)[i] = e \/ (i \in DOMAIN q /\ Append(q, e)[i] = q[i])
<1>1. Append(q, e) \in Seq(S)
  OBVIOUS
<1>2. ASSUME NEW i \in DOMAIN Append(q, e)
      PROVE  Append(q, e)[i] = e \/ (i \in DOMAIN q /\ Append(q, e)[i] = q[i])
  <2>1. i \in 1 .. Len(q) + 1 /\ Len(q) \in Nat /\ DOMAIN q = 1 .. Len(q)
    BY <1>2
  <2>2. i = Len(q) + 1 \/ i \in 1 .. Len(q)
    BY <2>1
  <2> QED
    BY <2>1, <2>2
<1> QED
  BY <1>1, <1>2

\* The head of a queue, and what it holds after a pop, slot by slot (MpscQueue::pop).
LEMMA TailFacts ==
    ASSUME NEW S, NEW q \in Seq(S), q /= << >>
    PROVE  /\ Tail(q) \in Seq(S) /\ Head(q) = q[1] /\ q[1] \in S /\ 1 \in DOMAIN q
           /\ \A i \in DOMAIN Tail(q) : i + 1 \in DOMAIN q /\ Tail(q)[i] = q[i + 1]
<1>1. Len(q) \in Nat \ {0} /\ DOMAIN q = 1 .. Len(q)
  OBVIOUS
<1>2. Tail(q) \in Seq(S) /\ Len(Tail(q)) = Len(q) - 1 /\ Head(q) = q[1]
  OBVIOUS
<1>3. q[1] \in S /\ 1 \in DOMAIN q
  BY <1>1
<1>4. ASSUME NEW i \in DOMAIN Tail(q)
      PROVE  i + 1 \in DOMAIN q /\ Tail(q)[i] = q[i + 1]
  BY <1>1, <1>2
<1> QED
  BY <1>2, <1>3, <1>4

\* Publishing changes the state of the slots of one coroutine and nothing else.
LEMMA PublishedFacts ==
    ASSUME NEW q \in Seq(Slots), NEW c \in Coros
    PROVE  /\ Published(q, c) \in Seq(Slots)
           /\ DOMAIN Published(q, c) = DOMAIN q
           /\ q = << >> => Published(q, c) = << >>
           /\ \A i \in DOMAIN q : /\ Published(q, c)[i].co = q[i].co
                                  /\ Published(q, c)[i].due = q[i].due
                                  /\ Published(q, c)[i].st = IF q[i].co = c THEN "published" ELSE q[i].st
<1>1. \A i \in DOMAIN q : q[i] \in Slots
  OBVIOUS
<1>2. \A i \in DOMAIN q : Published(q, c)[i] = IF q[i].co = c THEN Slot(c, q[i].due, "published") ELSE q[i]
  BY DEF Published
<1>3. DOMAIN Published(q, c) = 1 .. Len(q) /\ DOMAIN q = 1 .. Len(q) /\ Len(q) \in Nat
  BY DEF Published
<1>4. ASSUME NEW i \in DOMAIN q
      PROVE  /\ Published(q, c)[i] \in Slots
             /\ Published(q, c)[i].co = q[i].co
             /\ Published(q, c)[i].due = q[i].due
             /\ Published(q, c)[i].st = IF q[i].co = c THEN "published" ELSE q[i].st
  <2>1. q[i] \in Slots
    BY <1>1, <1>4
  <2>2. CASE q[i].co = c
    <3>1. Published(q, c)[i] = Slot(c, q[i].due, "published")
      BY <1>2, <2>2
    <3> QED
      BY <2>1, <2>2, <3>1 DEF Slots, Slot
  <2>3. CASE q[i].co /= c
    <3>1. Published(q, c)[i] = q[i]
      BY <1>2, <2>3
    <3> QED
      BY <2>1, <2>3, <3>1
  <2> QED
    BY <2>2, <2>3
<1>5. Published(q, c) \in Seq(Slots)
  BY <1>3, <1>4 DEF Published
<1>7. q = << >> => Published(q, c) = << >>
  BY <1>3, <1>5
<1> QED
  BY <1>3, <1>4, <1>5, <1>7

\* The conversion to int gives an int.
LEMMA ToIntType == ASSUME NEW ms \in Int PROVE ToInt(ms) \in Int
  BY SchedulerAssumption DEF ToInt

\* A push of a well-formed slot.
LEMMA PushFacts ==
    ASSUME NEW q \in Seq(Slots), NEW c \in Coros, NEW d \in Nat, NEW st \in {"reserved", "published"}
    PROVE  /\ Append(q, Slot(c, d, st)) \in Seq(Slots)
           /\ \A i \in DOMAIN Append(q, Slot(c, d, st)) :
                \/ Append(q, Slot(c, d, st))[i] = Slot(c, d, st)
                \/ i \in DOMAIN q /\ Append(q, Slot(c, d, st))[i] = q[i]
<1>1. Slot(c, d, st) \in Slots
  BY DEF Slot, Slots
<1> QED
  BY <1>1, AppendFacts

\* A pop that has a result.
LEMMA PopFacts ==
    ASSUME NEW q \in Seq(Slots), Poppable(q)
    PROVE  /\ Tail(q) \in Seq(Slots) /\ Head(q).co \in Coros /\ Head(q).due \in Nat
           /\ Head(q) = q[1] /\ 1 \in DOMAIN q
           /\ \A i \in DOMAIN Tail(q) : i + 1 \in DOMAIN q /\ Tail(q)[i] = q[i + 1]
<1>1. q /= << >>
  BY DEF Poppable
<1>2. Head(q) \in Slots
  BY <1>1, TailFacts
<1>3. Head(q).co \in Coros /\ Head(q).due \in Nat
  BY <1>2 DEF Slots
<1> QED
  BY <1>1, <1>3, TailFacts

\* A queue that is not empty and has no result starts with a reserved slot.
LEMMA StuckFacts ==
    ASSUME NEW q \in Seq(Slots), ~Poppable(q), q /= << >>
    PROVE  1 \in DOMAIN q /\ q[1].st = "reserved"
<1>1. Head(q) = q[1] /\ q[1] \in Slots /\ 1 \in DOMAIN q
  BY TailFacts
<1> QED
  BY <1>1 DEF Slots, Poppable

\* The values that the actions store have the types of their variables.
LEMMA TypeStep == TypeOK /\ [Next]_vars => TypeOK'
<1> SUFFICES ASSUME TypeOK, [Next]_vars PROVE TypeOK'
  OBVIOUS
<1> USE DEF TypeOK, queues, loopLocals, threadVars
<1>1. ASSUME NEW t \in Threads, NEW c \in Coros, ScheduleReserve(t, c) PROVE TypeOK'
  <2>1. ready' \in Seq(Slots)
    BY <1>1, PushFacts DEF ScheduleReserve
  <2> QED
    BY <1>1, <2>1 DEF ScheduleReserve, Claim, Spend
<1>2. ASSUME NEW t \in Threads, NEW c \in Coros, NEW d \in Delays, ScheduleAtReserve(t, c, d) PROVE TypeOK'
  <2>1. now + d \in Nat
    BY SchedulerAssumption
  <2>2. pending' \in Seq(Slots)
    BY <1>2, <2>1, PushFacts DEF ScheduleAtReserve
  <2> QED
    BY <1>2, <2>2 DEF ScheduleAtReserve, Claim, Spend
<1>3. ASSUME NEW t \in Threads, PushReadyLink(t) PROVE TypeOK'
  <2>1. ready' \in Seq(Slots)
    BY <1>3, PublishedFacts DEF PushReadyLink
  <2> QED
    BY <1>3, <2>1 DEF PushReadyLink
<1>4. ASSUME NEW t \in Threads, PushTimerLink(t) PROVE TypeOK'
  <2>1. pending' \in Seq(Slots)
    BY <1>4, PublishedFacts DEF PushTimerLink
  <2> QED
    BY <1>4, <2>1 DEF PushTimerLink
<1>5. ASSUME NEW t \in Threads, Wakeup(t) \/ Stop(t) PROVE TypeOK'
  BY <1>5 DEF Wakeup, Stop
<1>6. CASE RunStart \/ CheckRunning \/ EpollEnter \/ EpollReturn \/ EpollInterrupted \/ ReadEventfd
           \/ ProcessIoDone \/ ProcessTimersDone \/ ReadyQueueDone \/ BodyStop
  BY <1>6, SchedulerAssumption
     DEF RunStart, CheckRunning, EpollEnter, EpollReturn, EpollInterrupted, ReadEventfd, InBatch,
         ProcessIoDone, ProcessTimersDone, ReadyQueueDone, BodyStop, Forever
<1>7. CASE DrainPending
  <2>1. pending \in Seq(Slots) /\ Poppable(pending) /\ pending' = Tail(pending)
    BY <1>7 DEF DrainPending
  <2>2. pending' \in Seq(Slots) /\ Head(pending).co \in Coros /\ Head(pending).due \in Nat
    BY <2>1, PopFacts
  <2> QED
    BY <1>7, <2>2 DEF DrainPending
<1>8. CASE GetNextTimeout
  <2>1. DefaultMs \in Int /\ \A x \in timers : MsUntil(x) \in Int
    BY SchedulerAssumption DEF MsUntil
  <2>2. timeout' \in Int
    BY <1>8, <2>1, ToIntType DEF GetNextTimeout
  <2> QED
    BY <1>8, <2>2 DEF GetNextTimeout
<1>9. ASSUME NEW c \in Coros, IoEvent(c) \/ BodySchedule(c) PROVE TypeOK'
  <2>1. ready \in Seq(Slots) /\ ready' = Append(ready, Slot(c, 0, "published"))
    BY <1>9 DEF IoEvent, BodySchedule
  <2>2. ready' \in Seq(Slots)
    BY <2>1, PushFacts
  <2> QED
    BY <1>9, <2>2 DEF IoEvent, BodySchedule, Claim, Spend, InBatch
<1>10. CASE ProcessTimer
  <2>1. PICK x \in timers : timers' = timers \ {x} /\ ready' = Append(ready, Slot(x.co, x.due, "published"))
    BY <1>10 DEF ProcessTimer
  <2>2. ready' \in Seq(Slots)
    BY <2>1, PushFacts
  <2> QED
    BY <1>10, <2>1, <2>2 DEF ProcessTimer
<1>11. CASE PopReady
  <2>1. ready \in Seq(Slots) /\ Poppable(ready) /\ ready' = Tail(ready)
    BY <1>11 DEF PopReady
  <2>2. ready' \in Seq(Slots) /\ Head(ready).co \in Coros
    BY <2>1, PopFacts
  <2> QED
    BY <1>11, <2>2 DEF PopReady
<1>12. CASE BodySuspend
  BY <1>12 DEF BodySuspend, Leave
<1>13. CASE BodyYield
  <2>1. ready' \in Seq(Slots)
    BY <1>13, PushFacts DEF BodyYield, Leave
  <2> QED
    BY <1>13, <2>1 DEF BodyYield, Leave, Spend
<1>14. ASSUME NEW d \in Delays, BodySleep(d) PROVE TypeOK'
  <2>1. now + d \in Nat
    BY SchedulerAssumption
  <2>2. pending' \in Seq(Slots)
    BY <1>14, <2>1, PushFacts DEF BodySleep, Leave
  <2> QED
    BY <1>14, <2>2 DEF BodySleep, Leave, Spend
<1>15. CASE Tick
  BY <1>15 DEF Tick
<1>16. CASE UNCHANGED vars
  BY <1>16 DEF vars
<1> QED
  BY <1>1, <1>2, <1>3, <1>4, <1>5, <1>6, <1>7, <1>8, <1>9, <1>10, <1>11, <1>12, <1>13, <1>14, <1>15, <1>16
     DEF Next, LoopStep, ThreadStep

\* The owner of a reserved slot of readyQueue_ leaves only after publishing it.
LEMMA ReadyOwnedStep == IInv /\ [Next]_vars => Owned(ready, "linkReady")'
<1> SUFFICES ASSUME IInv, [Next]_vars,
                    NEW i \in DOMAIN ready', ready'[i].st = "reserved"
             PROVE  \E t \in Threads : tpc'[t] = "linkReady" /\ pushing'[t] = ready'[i].co
  BY DEF Owned
<1>0. /\ ready \in Seq(Slots) /\ tpc \in [Threads -> {"idle", "linkReady", "linkTimer", "wake"}]
      /\ pushing \in [Threads -> Coros \cup {None}]
  BY DEF IInv, TypeOK
<1>1. \A j \in DOMAIN ready : ready[j].st = "reserved" =>
          \E t \in Threads : tpc[t] = "linkReady" /\ pushing[t] = ready[j].co
  BY DEF IInv, Owned
<1>2. CASE UNCHANGED <<ready, tpc, pushing>>
  BY <1>1, <1>2
<1>3. ASSUME NEW t \in Threads, NEW c \in Coros, ScheduleReserve(t, c)
      PROVE  \E u \in Threads : tpc'[u] = "linkReady" /\ pushing'[u] = ready'[i].co
  <2>1. ready' = Append(ready, Slot(c, 0, "reserved"))
    BY <1>3 DEF ScheduleReserve
  <2>2. ready'[i] = Slot(c, 0, "reserved") \/ (i \in DOMAIN ready /\ ready'[i] = ready[i])
    BY <1>0, <2>1, PushFacts
  <2>3. CASE ready'[i] = Slot(c, 0, "reserved")
    BY <1>0, <1>3, <2>3 DEF ScheduleReserve, Slot
  <2>4. CASE i \in DOMAIN ready /\ ready'[i] = ready[i]
    <3>1. PICK u \in Threads : tpc[u] = "linkReady" /\ pushing[u] = ready[i].co
      BY <1>1, <2>4
    <3>2. u /= t
      BY <1>3, <3>1 DEF ScheduleReserve
    <3> QED
      BY <1>0, <1>3, <2>4, <3>1, <3>2 DEF ScheduleReserve
  <2> QED
    BY <2>2, <2>3, <2>4
<1>4. ASSUME NEW t \in Threads, PushReadyLink(t)
      PROVE  \E u \in Threads : tpc'[u] = "linkReady" /\ pushing'[u] = ready'[i].co
  <2>1. pushing[t] \in Coros /\ ready' = Published(ready, pushing[t])
    BY <1>4 DEF PushReadyLink, IInv, TypeOK
  <2>2. /\ i \in DOMAIN ready /\ ready'[i].co = ready[i].co
        /\ ready'[i].st = IF ready[i].co = pushing[t] THEN "published" ELSE ready[i].st
    BY <1>0, <2>1, PublishedFacts
  <2>3. ready[i].co /= pushing[t] /\ ready[i].st = "reserved"
    BY <2>2
  <2>4. PICK u \in Threads : tpc[u] = "linkReady" /\ pushing[u] = ready[i].co
    BY <1>1, <2>2, <2>3
  <2> QED
    BY <1>0, <1>4, <2>2, <2>3, <2>4 DEF PushReadyLink
<1>5. ASSUME NEW t \in Threads,
             \/ \E c \in Coros, d \in Delays : ScheduleAtReserve(t, c, d)
             \/ PushTimerLink(t) \/ Wakeup(t) \/ Stop(t)
      PROVE  \E u \in Threads : tpc'[u] = "linkReady" /\ pushing'[u] = ready'[i].co
  <2>1. ready' = ready /\ tpc[t] /= "linkReady"
        /\ \A u \in Threads \ {t} : tpc'[u] = tpc[u] /\ pushing'[u] = pushing[u]
    BY <1>0, <1>5 DEF ScheduleAtReserve, PushTimerLink, Wakeup, Stop, queues
  <2> QED
    BY <1>1, <2>1
<1>6. ASSUME NEW c \in Coros, NEW d \in Nat, ready' = Append(ready, Slot(c, d, "published")),
             UNCHANGED <<tpc, pushing>>
      PROVE  \E u \in Threads : tpc'[u] = "linkReady" /\ pushing'[u] = ready'[i].co
  <2>1. ready'[i] = Slot(c, d, "published") \/ (i \in DOMAIN ready /\ ready'[i] = ready[i])
    BY <1>0, <1>6, PushFacts
  <2>2. ready'[i] /= Slot(c, d, "published")
    BY DEF Slot
  <2> QED
    BY <1>1, <1>6, <2>1, <2>2
<1>7. CASE PopReady
  <2>1. ready' = Tail(ready) /\ Poppable(ready) /\ UNCHANGED <<tpc, pushing>>
    BY <1>7 DEF PopReady, threadVars
  <2>2. i + 1 \in DOMAIN ready /\ ready'[i] = ready[i + 1]
    BY <1>0, <2>1, PopFacts
  <2> QED
    BY <1>1, <2>1, <2>2
<1>8. ASSUME NEW c \in Coros, IoEvent(c) \/ BodySchedule(c)
      PROVE  \E u \in Threads : tpc'[u] = "linkReady" /\ pushing'[u] = ready'[i].co
  BY <1>6, <1>8 DEF IoEvent, BodySchedule, threadVars
<1>9. CASE ProcessTimer
  <2>1. PICK x \in timers : ready' = Append(ready, Slot(x.co, x.due, "published"))
    BY <1>9 DEF ProcessTimer
  <2>2. x.co \in Coros /\ x.due \in Nat
    BY DEF IInv, TypeOK
  <2> QED
    BY <1>6, <1>9, <2>1, <2>2 DEF ProcessTimer, threadVars
<1>10. CASE BodyYield
  BY <1>6, <1>10 DEF BodyYield, Leave, threadVars, IInv, TypeOK
<1>11. CASE \/ RunStart \/ CheckRunning \/ DrainPending \/ GetNextTimeout \/ EpollEnter
            \/ EpollReturn \/ EpollInterrupted \/ ReadEventfd \/ ProcessIoDone \/ ProcessTimersDone
            \/ ReadyQueueDone \/ BodyStop \/ BodySuspend \/ (\E d \in Delays : BodySleep(d))
            \/ Tick \/ UNCHANGED vars
  <2>1. UNCHANGED <<ready, tpc, pushing>>
    BY <1>11 DEF RunStart, CheckRunning, DrainPending, GetNextTimeout, EpollEnter, EpollReturn,
         EpollInterrupted, ReadEventfd, ProcessIoDone, ProcessTimersDone, ReadyQueueDone, BodyStop,
         BodySuspend, BodySleep, Leave, Tick, vars, queues, threadVars
  <2> QED
    BY <1>2, <2>1
<1> QED
  BY <1>3, <1>4, <1>5, <1>7, <1>8, <1>9, <1>10, <1>11 DEF Next, LoopStep, ThreadStep

\* The owner of a reserved slot of pendingTimers_ leaves only after publishing it.
LEMMA PendingOwnedStep == IInv /\ [Next]_vars => Owned(pending, "linkTimer")'
<1> SUFFICES ASSUME IInv, [Next]_vars,
                    NEW i \in DOMAIN pending', pending'[i].st = "reserved"
             PROVE  \E t \in Threads : tpc'[t] = "linkTimer" /\ pushing'[t] = pending'[i].co
  BY DEF Owned
<1>0. /\ pending \in Seq(Slots) /\ tpc \in [Threads -> {"idle", "linkReady", "linkTimer", "wake"}]
      /\ pushing \in [Threads -> Coros \cup {None}] /\ now \in Nat
  BY DEF IInv, TypeOK
<1>1. \A j \in DOMAIN pending : pending[j].st = "reserved" =>
          \E t \in Threads : tpc[t] = "linkTimer" /\ pushing[t] = pending[j].co
  BY DEF IInv, Owned
<1>2. ASSUME NEW t \in Threads, NEW c \in Coros, NEW d \in Delays, ScheduleAtReserve(t, c, d)
      PROVE  \E u \in Threads : tpc'[u] = "linkTimer" /\ pushing'[u] = pending'[i].co
  <2>1. now + d \in Nat /\ pending' = Append(pending, Slot(c, now + d, "reserved"))
    BY <1>0, <1>2, SchedulerAssumption DEF ScheduleAtReserve
  <2>2. pending'[i] = Slot(c, now + d, "reserved") \/ (i \in DOMAIN pending /\ pending'[i] = pending[i])
    BY <1>0, <2>1, PushFacts
  <2>3. CASE pending'[i] = Slot(c, now + d, "reserved")
    BY <1>0, <1>2, <2>3 DEF ScheduleAtReserve, Slot
  <2>4. CASE i \in DOMAIN pending /\ pending'[i] = pending[i]
    <3>1. PICK u \in Threads : tpc[u] = "linkTimer" /\ pushing[u] = pending[i].co
      BY <1>1, <2>4
    <3>2. u /= t
      BY <1>2, <3>1 DEF ScheduleAtReserve
    <3> QED
      BY <1>0, <1>2, <2>4, <3>1, <3>2 DEF ScheduleAtReserve
  <2> QED
    BY <2>2, <2>3, <2>4
<1>3. ASSUME NEW t \in Threads, PushTimerLink(t)
      PROVE  \E u \in Threads : tpc'[u] = "linkTimer" /\ pushing'[u] = pending'[i].co
  <2>1. pushing[t] \in Coros /\ pending' = Published(pending, pushing[t])
    BY <1>3 DEF PushTimerLink, IInv, TypeOK
  <2>2. /\ i \in DOMAIN pending /\ pending'[i].co = pending[i].co
        /\ pending'[i].st = IF pending[i].co = pushing[t] THEN "published" ELSE pending[i].st
    BY <1>0, <2>1, PublishedFacts
  <2>3. pending[i].co /= pushing[t] /\ pending[i].st = "reserved"
    BY <2>2
  <2>4. PICK u \in Threads : tpc[u] = "linkTimer" /\ pushing[u] = pending[i].co
    BY <1>1, <2>2, <2>3
  <2> QED
    BY <1>0, <1>3, <2>2, <2>3, <2>4 DEF PushTimerLink
<1>4. ASSUME NEW t \in Threads,
             (\E c \in Coros : ScheduleReserve(t, c)) \/ PushReadyLink(t) \/ Wakeup(t) \/ Stop(t)
      PROVE  \E u \in Threads : tpc'[u] = "linkTimer" /\ pushing'[u] = pending'[i].co
  <2>1. pending' = pending /\ tpc[t] /= "linkTimer"
        /\ \A u \in Threads \ {t} : tpc'[u] = tpc[u] /\ pushing'[u] = pushing[u]
    BY <1>0, <1>4 DEF ScheduleReserve, PushReadyLink, Wakeup, Stop, queues
  <2> QED
    BY <1>1, <2>1
<1>5. ASSUME NEW d \in Delays, BodySleep(d)
      PROVE  \E u \in Threads : tpc'[u] = "linkTimer" /\ pushing'[u] = pending'[i].co
  <2>1. /\ now + d \in Nat /\ cur \in Coros /\ UNCHANGED <<tpc, pushing>>
        /\ pending' = Append(pending, Slot(cur, now + d, "published"))
    BY <1>0, <1>5, SchedulerAssumption DEF BodySleep, Leave, threadVars, IInv, TypeOK
  <2>2. pending'[i] = Slot(cur, now + d, "published") \/ (i \in DOMAIN pending /\ pending'[i] = pending[i])
    BY <1>0, <2>1, PushFacts
  <2>3. pending'[i] /= Slot(cur, now + d, "published")
    BY DEF Slot
  <2> QED
    BY <1>1, <2>1, <2>2, <2>3
<1>6. CASE DrainPending
  <2>1. pending' = Tail(pending) /\ Poppable(pending) /\ UNCHANGED <<tpc, pushing>>
    BY <1>6 DEF DrainPending, threadVars
  <2>2. i + 1 \in DOMAIN pending /\ pending'[i] = pending[i + 1]
    BY <1>0, <2>1, PopFacts
  <2> QED
    BY <1>1, <2>1, <2>2
<1>7. CASE \/ RunStart \/ CheckRunning \/ GetNextTimeout \/ EpollEnter \/ EpollReturn
           \/ EpollInterrupted \/ (\E c \in Coros : IoEvent(c) \/ BodySchedule(c)) \/ ReadEventfd
           \/ ProcessIoDone \/ ProcessTimer \/ ProcessTimersDone \/ PopReady \/ ReadyQueueDone
           \/ BodyStop \/ BodySuspend \/ BodyYield \/ Tick \/ UNCHANGED vars
  <2>1. UNCHANGED <<pending, tpc, pushing>>
    BY <1>7 DEF RunStart, CheckRunning, GetNextTimeout, EpollEnter, EpollReturn, EpollInterrupted,
         IoEvent, BodySchedule, ReadEventfd, ProcessIoDone, ProcessTimer, ProcessTimersDone, PopReady,
         ReadyQueueDone, BodyStop, BodySuspend, BodyYield, Leave, Tick, vars, queues, threadVars
  <2> QED
    BY <1>1, <2>1
<1> QED
  BY <1>2, <1>3, <1>4, <1>5, <1>6, <1>7 DEF Next, LoopStep, ThreadStep

\* The part of the invariant about wakeups.
WakeupInv ==
    /\ loop \in {"init", "check", "drain", "enter", "wait"} /\ ready /= << >> => WakeupComing
    /\ loop \in {"enter", "wait"} /\ pending /= << >> => WakeupComing
    /\ loop \in {"drain", "enter", "wait"} /\ running = "no" => WakeupComing

\* A foreign thread that pushes or stops leaves a wakeup behind; the loop thread goes to wait
\* only past queues that are empty or blocked by a push whose wakeup is still to come.
LEMMA WakeupStep == IInv /\ [Next]_vars => WakeupInv'
<1> SUFFICES ASSUME IInv, [Next]_vars PROVE WakeupInv'
  OBVIOUS
<1>0. /\ ready \in Seq(Slots) /\ pending \in Seq(Slots)
      /\ tpc \in [Threads -> {"idle", "linkReady", "linkTimer", "wake"}]
      /\ running \in {"yes", "no"}
  BY DEF IInv, TypeOK
<1>a. WakeupInv
  BY DEF IInv, WakeupInv
<1>1. ASSUME NEW t \in Threads,
             \/ \E c \in Coros : ScheduleReserve(t, c)
             \/ \E c \in Coros, d \in Delays : ScheduleAtReserve(t, c, d)
             \/ PushReadyLink(t) \/ PushTimerLink(t) \/ Wakeup(t) \/ Stop(t)
      PROVE  WakeupInv'
  <2>1. WakeupComing'
    BY <1>0, <1>1
       DEF WakeupComing, ScheduleReserve, ScheduleAtReserve, PushReadyLink, PushTimerLink, Wakeup, Stop
  <2> QED
    BY <2>1 DEF WakeupInv
<1>2. CASE GetNextTimeout
  <2>1. pending /= << >> => WakeupComing
    <3> SUFFICES ASSUME pending /= << >> PROVE WakeupComing
      OBVIOUS
    <3>1. 1 \in DOMAIN pending /\ pending[1].st = "reserved"
      BY <1>0, <1>2, StuckFacts DEF GetNextTimeout
    <3>2. \E t \in Threads : tpc[t] = "linkTimer"
      BY <3>1 DEF IInv, Owned
    <3> QED
      BY <3>2 DEF WakeupComing
  <2> QED
    BY <1>2, <1>a, <2>1 DEF GetNextTimeout, WakeupInv, WakeupComing, queues, threadVars
<1>3. CASE ReadyQueueDone
  <2>1. ready /= << >> => WakeupComing
    <3> SUFFICES ASSUME ready /= << >> PROVE WakeupComing
      OBVIOUS
    <3>1. 1 \in DOMAIN ready /\ ready[1].st = "reserved"
      BY <1>0, <1>3, StuckFacts DEF ReadyQueueDone
    <3>2. \E t \in Threads : tpc[t] = "linkReady"
      BY <3>1 DEF IInv, Owned
    <3> QED
      BY <3>2 DEF WakeupComing
  <2> QED
    BY <1>3, <2>1 DEF ReadyQueueDone, WakeupInv, WakeupComing, queues, threadVars
<1>4. CASE RunStart \/ CheckRunning \/ DrainPending \/ EpollEnter \/ Tick \/ UNCHANGED vars
  BY <1>0, <1>4, <1>a
     DEF RunStart, CheckRunning, DrainPending, EpollEnter, Tick, vars, WakeupInv, WakeupComing,
         queues, threadVars, loopLocals
<1>5. CASE \/ EpollReturn \/ EpollInterrupted \/ (\E c \in Coros : IoEvent(c) \/ BodySchedule(c))
           \/ ReadEventfd \/ ProcessIoDone \/ ProcessTimer \/ ProcessTimersDone \/ PopReady
           \/ BodyStop \/ BodySuspend \/ BodyYield \/ (\E d \in Delays : BodySleep(d))
  <2>1. loop' \in {"io", "timers", "ready", "body"}
    BY <1>5 DEF EpollReturn, EpollInterrupted, IoEvent, BodySchedule, ReadEventfd, ProcessIoDone,
         ProcessTimer, ProcessTimersDone, PopReady, BodyStop, BodySuspend, BodyYield, BodySleep, Leave
  <2> QED
    BY <2>1 DEF WakeupInv
<1> QED
  BY <1>1, <1>2, <1>3, <1>4, <1>5 DEF Next, LoopStep, ThreadStep

\* A timer's coroutine enters readyQueue_ only past its deadline, and time does not go back.
LEMMA TimerStep == IInv /\ [Next]_vars => (NoEarlyTimer /\ snap <= now)'
<1> SUFFICES ASSUME IInv, [Next]_vars PROVE (NoEarlyTimer /\ snap <= now)'
  OBVIOUS
<1>0. /\ ready \in Seq(Slots) /\ now \in Nat /\ snap \in Nat /\ snap <= now
      /\ \A j \in DOMAIN ready : ready[j].due <= now
      /\ \A j \in DOMAIN ready : ready[j] \in Slots
  BY DEF IInv, TypeOK, NoEarlyTimer
<1>1. ASSUME NEW c \in Coros, NEW d \in Nat, NEW st \in {"reserved", "published"}, d <= now,
             ready' = Append(ready, Slot(c, d, st)), now' = now
      PROVE  NoEarlyTimer'
  <2> SUFFICES ASSUME NEW i \in DOMAIN ready' PROVE ready'[i].due <= now'
    BY DEF NoEarlyTimer
  <2>1. ready'[i] = Slot(c, d, st) \/ (i \in DOMAIN ready /\ ready'[i] = ready[i])
    BY <1>0, <1>1, PushFacts
  <2> QED
    BY <1>0, <1>1, <2>1 DEF Slot
<1>2. ASSUME NEW t \in Threads, NEW c \in Coros, ScheduleReserve(t, c)
      PROVE  (NoEarlyTimer /\ snap <= now)'
  BY <1>0, <1>1, <1>2 DEF ScheduleReserve, loopLocals
<1>3. ASSUME NEW t \in Threads, PushReadyLink(t)
      PROVE  (NoEarlyTimer /\ snap <= now)'
  <2>1. pushing[t] \in Coros /\ ready' = Published(ready, pushing[t]) /\ UNCHANGED <<snap, now>>
    BY <1>3 DEF PushReadyLink, loopLocals, IInv, TypeOK
  <2>2. \A i \in DOMAIN ready' : i \in DOMAIN ready /\ ready'[i].due = ready[i].due
    BY <1>0, <2>1, PublishedFacts
  <2> QED
    BY <1>0, <2>1, <2>2 DEF NoEarlyTimer
<1>4. ASSUME NEW c \in Coros, IoEvent(c) \/ BodySchedule(c)
      PROVE  (NoEarlyTimer /\ snap <= now)'
  <2>1. ready' = Append(ready, Slot(c, 0, "published")) /\ UNCHANGED <<snap, now>>
    BY <1>4 DEF IoEvent, BodySchedule, loopLocals
  <2> QED
    BY <1>0, <1>1, <2>1
<1>5. CASE ProcessTimer
  <2>1. PICK x \in timers : x.due <= snap /\ ready' = Append(ready, Slot(x.co, x.due, "published"))
    BY <1>5 DEF ProcessTimer
  <2>2. x.co \in Coros /\ x.due \in Nat /\ UNCHANGED <<snap, now>>
    BY <1>5 DEF IInv, TypeOK, ProcessTimer, loopLocals
  <2>3. x.due <= now
    BY <1>0, <2>1, <2>2
  <2> QED
    BY <1>0, <1>1, <2>1, <2>2, <2>3
<1>6. CASE PopReady
  <2>1. ready' = Tail(ready) /\ Poppable(ready) /\ UNCHANGED <<snap, now>>
    BY <1>6 DEF PopReady
  <2>2. \A i \in DOMAIN ready' : i + 1 \in DOMAIN ready /\ ready'[i] = ready[i + 1]
    BY <1>0, <2>1, PopFacts
  <2> QED
    BY <1>0, <2>1, <2>2 DEF NoEarlyTimer
<1>7. CASE BodyYield
  <2>1. /\ cur \in Coros /\ ready' = Append(ready, Slot(cur, 0, "published"))
        /\ UNCHANGED <<snap, now>>
    BY <1>7 DEF BodyYield, Leave, IInv, TypeOK
  <2> QED
    BY <1>0, <1>1, <2>1
<1>8. CASE Tick
  <2>1. ready' = ready /\ snap' = snap /\ now' = now + 1
    BY <1>8 DEF Tick, queues, loopLocals
  <2>2. \A j \in DOMAIN ready : ready[j].due \in Nat
    BY <1>0 DEF Slots
  <2> QED
    BY <1>0, <2>1, <2>2 DEF NoEarlyTimer
<1>9. CASE ProcessIoDone \/ ProcessTimersDone
  BY <1>0, <1>9 DEF ProcessIoDone, ProcessTimersDone, queues, NoEarlyTimer
<1>10. CASE \/ \E t \in Threads : \/ \E c \in Coros, d \in Delays : ScheduleAtReserve(t, c, d)
                                  \/ PushTimerLink(t) \/ Wakeup(t) \/ Stop(t)
            \/ RunStart \/ CheckRunning \/ DrainPending \/ GetNextTimeout \/ EpollEnter \/ EpollReturn
            \/ EpollInterrupted \/ ReadEventfd \/ ReadyQueueDone \/ BodyStop \/ BodySuspend
            \/ (\E d \in Delays : BodySleep(d)) \/ UNCHANGED vars
  <2>1. UNCHANGED <<ready, snap, now>>
    BY <1>10 DEF ScheduleAtReserve, PushTimerLink, Wakeup, Stop, RunStart, CheckRunning, DrainPending,
         GetNextTimeout, EpollEnter, EpollReturn, EpollInterrupted, ReadEventfd, ReadyQueueDone,
         BodyStop, BodySuspend, BodySleep, Leave, vars, queues, loopLocals
  <2> QED
    BY <1>0, <2>1 DEF NoEarlyTimer
<1> QED
  BY <1>2, <1>3, <1>4, <1>5, <1>6, <1>7, <1>8, <1>9, <1>10 DEF Next, LoopStep, ThreadStep

\* The invariant holds before run() and before anything is scheduled.
LEMMA InitIInv == Init => IInv
<1> SUFFICES ASSUME Init PROVE IInv
  OBVIOUS
<1>1. ready = << >> /\ pending = << >> /\ loop = "init" /\ snap = 0 /\ now = 0
  BY DEF Init
<1>2. TypeOK
  <2>1. ready \in Seq(Slots) /\ pending \in Seq(Slots)
    BY <1>1
  <2>2. tpc \in [Threads -> {"idle", "linkReady", "linkTimer", "wake"}]
    BY DEF Init
  <2>3. pushing \in [Threads -> Coros \cup {None}]
    BY DEF Init
  <2>4. \A t \in Threads : tpc[t] = "idle"
    BY DEF Init
  <2> QED
    BY <2>1, <2>2, <2>3, <2>4 DEF Init, TypeOK
<1>3. Owned(ready, "linkReady") /\ Owned(pending, "linkTimer") /\ NoEarlyTimer
  BY <1>1 DEF Owned, NoEarlyTimer
<1>4. snap <= now
  BY <1>1
<1> QED
  BY <1>1, <1>2, <1>3, <1>4 DEF IInv

\* IInv is an invariant of the scheduler, whatever the threads and coroutines.
THEOREM SchedulerInvariant == Spec => []IInv
<1>1. IInv /\ [Next]_vars => IInv'
  <2> SUFFICES ASSUME IInv, [Next]_vars PROVE IInv'
    OBVIOUS
  <2>1. TypeOK'
    BY TypeStep DEF IInv
  <2>2. Owned(ready, "linkReady")' /\ Owned(pending, "linkTimer")'
    BY ReadyOwnedStep, PendingOwnedStep
  <2>3. WakeupInv' /\ (NoEarlyTimer /\ snap <= now)'
    BY WakeupStep, TimerStep
  <2> QED
    BY <2>1, <2>2, <2>3 DEF IInv, WakeupInv
<1> QED
  BY <1>1, InitIInv, PTL DEF Spec

\* The loop never waits in epoll_wait over work, or over a stop(), that nobody will announce.
THEOREM NoLostWakeupHolds == Spec => []NoLostWakeup
<1>1. IInv => NoLostWakeup
  BY DEF IInv, NoLostWakeup
<1> QED
  BY <1>1, SchedulerInvariant, PTL

\* No sleeping coroutine is put in readyQueue_ before its deadline.
THEOREM NoEarlyTimerHolds == Spec => []NoEarlyTimer
<1>1. IInv => NoEarlyTimer
  BY DEF IInv
<1> QED
  BY <1>1, SchedulerInvariant, PTL

-----------------------------------------------------------------------------
\* Conservation.  Each step moves at most one coroutine from one place to another.

Single(q) == \A i, j \in DOMAIN q : q[i].co = q[j].co => i = j
Asleep    == {x.co : x \in timers}

Apart(b, r, p, t, c) ==
    /\ b = r \cup p \cup t \cup ({c} \ {None})
    /\ r \cap p = {} /\ r \cap t = {} /\ p \cap t = {} 
    /\ c /= None => c \notin r /\ c \notin p /\ c \notin t

Held ==
    /\ Apart(busy, Coroutines(ready), Coroutines(pending), Asleep, cur)
    /\ Single(ready) /\ Single(pending) /\ \A x, y \in timers : x.co = y.co => x = y
    /\ loop /= "body" => cur = None

\* A push of a coroutine that the queue does not hold.
LEMMA PushHolds ==
    ASSUME NEW q \in Seq(Slots), NEW c \in Coros, NEW d \in Nat, NEW st \in {"reserved", "published"},
           NEW q2, q2 = Append(q, Slot(c, d, st))
    PROVE  /\ Coroutines(q2) = Coroutines(q) \cup {c}
           /\ Single(q) /\ c \notin Coroutines(q) => Single(q2)
<1> DEFINE e == Slot(c, d, st)
<1>1. e \in Slots /\ e.co = c
  BY DEF Slot, Slots
<1>2. /\ DOMAIN q = 1..Len(q) /\ Len(q) \in Nat /\ DOMAIN q2 = 1..Len(q) + 1
      /\ q2[Len(q) + 1] = e /\ \A i \in 1..Len(q) : q2[i] = q[i]
  BY <1>1
<1> HIDE DEF e
<1>3. \A i \in DOMAIN q2 : i \in DOMAIN q \/ i = Len(q) + 1
  BY <1>2
<1>4. \A i \in DOMAIN q : i \in DOMAIN q2 /\ q2[i] = q[i] /\ i /= Len(q) + 1
  BY <1>2
<1>5. Len(q) + 1 \in DOMAIN q2
  BY <1>2
<1>6. Coroutines(q2) = Coroutines(q) \cup {c}
  BY <1>1, <1>2, <1>3, <1>4, <1>5 DEF Coroutines
<1>7. ASSUME Single(q), c \notin Coroutines(q), NEW i \in DOMAIN q2, NEW j \in DOMAIN q2, q2[i].co = q2[j].co
      PROVE  i = j
  <2>1. \A k \in DOMAIN q : q2[k].co /= c
    BY <1>4, <1>7 DEF Coroutines
  <2>2. q2[Len(q) + 1].co = c
    BY <1>1, <1>2
  <2>3. CASE i \in DOMAIN q /\ j \in DOMAIN q
    BY <1>4, <1>7, <2>3 DEF Single
  <2> QED BY <1>3, <1>7, <2>1, <2>2, <2>3
<1> QED BY <1>6, <1>7 DEF Single

\* A pop of a queue that holds each coroutine once.
LEMMA PopHolds ==
    ASSUME NEW q \in Seq(Slots), Poppable(q), Single(q)
    PROVE  /\ Coroutines(Tail(q)) = Coroutines(q) \ {Head(q).co} /\ Single(Tail(q))
           /\ Head(q).co \in Coroutines(q)
<1> DEFINE w == Tail(q)
<1>1. /\ Head(q) = q[1] /\ 1 \in DOMAIN q
      /\ \A i \in DOMAIN w : i + 1 \in DOMAIN q /\ w[i] = q[i + 1]
  BY PopFacts
<1>2. DOMAIN q = 1..Len(q) /\ Len(q) \in Nat /\ q /= << >> /\ DOMAIN w = 1..Len(q) - 1
  BY DEF Poppable
<1>3. \A i \in DOMAIN q : i = 1 \/ (i - 1 \in DOMAIN w /\ w[i - 1] = q[i])
  <2>1. \A i \in DOMAIN q : i = 1 \/ i - 1 \in DOMAIN w
    BY <1>2
  <2>2. \A i \in DOMAIN w : (i + 1) - 1 = i
    BY <1>2
  <2> QED BY <1>1, <1>2, <2>1, <2>2
<1>4. \A i \in DOMAIN w : i + 1 /= 1 /\ \A j \in DOMAIN w : i + 1 = j + 1 => i = j
  BY <1>2
<1> HIDE DEF w
<1>5. Coroutines(w) = Coroutines(q) \ {q[1].co}
  <2>1. \A i \in DOMAIN q : q[i].co = q[1].co => i = 1
    BY <1>1 DEF Single
  <2>2. ASSUME NEW i \in DOMAIN w PROVE w[i].co \in Coroutines(q) /\ w[i].co /= q[1].co
    BY <1>1, <1>4, <2>1 DEF Coroutines
  <2>3. ASSUME NEW i \in DOMAIN q, q[i].co /= q[1].co PROVE q[i].co \in Coroutines(w)
    BY <1>3, <2>3 DEF Coroutines
  <2> QED BY <2>2, <2>3 DEF Coroutines
<1>6. Single(w)
  BY <1>1, <1>4 DEF Single
<1> QED BY <1>1, <1>5, <1>6 DEF w, Coroutines

\* Publishing a slot moves no coroutine.
LEMMA PublishHolds ==
    ASSUME NEW q \in Seq(Slots), NEW c \in Coros
    PROVE  Coroutines(Published(q, c)) = Coroutines(q) /\ (Single(q) => Single(Published(q, c)))
  BY PublishedFacts DEF Coroutines, Single

\* A coroutine that is nowhere is scheduled, by any thread.
LEMMA ClaimHolds ==
    ASSUME TypeOK, Held, NEW c \in Coros, Claim(c), NEW d \in Nat, NEW st \in {"reserved", "published"},
           UNCHANGED <<timers, cur>>, loop' = "body" <=> loop = "body",
           \/ ready' = Append(ready, Slot(c, d, st)) /\ pending' = pending
           \/ pending' = Append(pending, Slot(c, d, st)) /\ ready' = ready
    PROVE  Held'
<1>1. ready \in Seq(Slots) /\ pending \in Seq(Slots) /\ c /= None
  BY SchedulerAssumption DEF TypeOK
<1>2. /\ c \notin busy /\ busy' = busy \cup {c} /\ Asleep' = Asleep
      /\ c \notin Coroutines(ready) /\ c \notin Coroutines(pending)
  BY DEF Claim, Held, Apart, Asleep
<1>3. \/ /\ Coroutines(ready)' = Coroutines(ready) \cup {c} /\ Single(ready)'
         /\ Coroutines(pending)' = Coroutines(pending) /\ Single(pending)'
      \/ /\ Coroutines(pending)' = Coroutines(pending) \cup {c} /\ Single(pending)'
         /\ Coroutines(ready)' = Coroutines(ready) /\ Single(ready)'
  BY <1>1, <1>2, PushHolds DEF Held
<1>4. Apart(busy, Coroutines(ready), Coroutines(pending), Asleep, cur)'
  BY <1>1, <1>2, <1>3 DEF Held, Apart
<1> QED BY <1>3, <1>4 DEF Held

\* Every step of the loop and of the threads keeps every coroutine in one place.
LEMMA HeldStep == TypeOK /\ Held /\ [Next]_vars => Held'
<1> SUFFICES ASSUME TypeOK, Held, [Next]_vars PROVE Held'
  OBVIOUS
<1> USE DEF queues, loopLocals, threadVars
<1>1. ready \in Seq(Slots) /\ pending \in Seq(Slots) /\ Single(ready) /\ Single(pending)
  BY DEF TypeOK, Held
<1>2. ASSUME NEW t \in Threads, NEW c \in Coros, ScheduleReserve(t, c) PROVE Held'
  BY <1>2, ClaimHolds DEF ScheduleReserve
<1>3. ASSUME NEW t \in Threads, NEW c \in Coros, NEW d \in Delays, ScheduleAtReserve(t, c, d) PROVE Held'
  <2>1. now + d \in Nat
    BY SchedulerAssumption DEF TypeOK
  <2> QED BY <1>3, <2>1, ClaimHolds DEF ScheduleAtReserve
<1>4. ASSUME NEW c \in Coros, IoEvent(c) \/ BodySchedule(c) PROVE Held'
  <2>1. /\ Claim(c) /\ ready' = Append(ready, Slot(c, 0, "published"))
        /\ UNCHANGED <<pending, timers, cur>> /\ (loop' = "body" <=> loop = "body")
    BY <1>4 DEF IoEvent, BodySchedule
  <2> QED BY <2>1, ClaimHolds
<1>5. ASSUME NEW t \in Threads, PushReadyLink(t) PROVE Held'
  <2>1. pushing[t] \in Coros /\ ready' = Published(ready, pushing[t]) /\ UNCHANGED <<pending, timers, busy, cur, loop>>
    BY <1>5 DEF TypeOK, PushReadyLink
  <2>2. Coroutines(ready)' = Coroutines(ready) /\ Single(ready)'
    BY <1>1, <2>1, PublishHolds
  <2>3. Asleep' = Asleep /\ Coroutines(pending)' = Coroutines(pending) /\ Single(pending)'
    BY <1>1, <2>1 DEF Asleep
  <2>4. Apart(busy, Coroutines(ready), Coroutines(pending), Asleep, cur)'
    BY <2>1, <2>2, <2>3 DEF Held
  <2> QED BY <2>1, <2>2, <2>3, <2>4 DEF Held
<1>6. ASSUME NEW t \in Threads, PushTimerLink(t) PROVE Held'
  <2>1. pushing[t] \in Coros /\ pending' = Published(pending, pushing[t]) /\ UNCHANGED <<ready, timers, busy, cur, loop>>
    BY <1>6 DEF TypeOK, PushTimerLink
  <2>2. Coroutines(pending)' = Coroutines(pending) /\ Single(pending)'
    BY <1>1, <2>1, PublishHolds
  <2>3. Asleep' = Asleep /\ Coroutines(ready)' = Coroutines(ready) /\ Single(ready)'
    BY <1>1, <2>1 DEF Asleep
  <2>4. Apart(busy, Coroutines(ready), Coroutines(pending), Asleep, cur)'
    BY <2>1, <2>2, <2>3 DEF Held
  <2> QED BY <2>1, <2>2, <2>3, <2>4 DEF Held
<1>7. CASE DrainPending
  <2> DEFINE c == Head(pending).co
  <2> DEFINE x == [co |-> c, due |-> Head(pending).due]
  <2>1. /\ Poppable(pending) /\ timers' = timers \cup {x} /\ pending' = Tail(pending)
        /\ UNCHANGED <<ready, busy, cur, loop>>
    BY <1>7 DEF DrainPending
  <2>2. /\ Coroutines(pending)' = Coroutines(pending) \ {c} /\ Single(pending)' /\ c \in Coroutines(pending)
    BY <1>1, <2>1, PopHolds DEF Held
  <2>3. Asleep' = Asleep \cup {c} /\ c \notin Asleep /\ x.co = c
    <3>1. c \notin Asleep
      BY <2>2 DEF Held, Apart
    <3>2. x.co = c
      OBVIOUS
    <3> HIDE DEF x, c
    <3> QED BY <2>1, <3>1, <3>2 DEF Asleep
  <2> HIDE DEF x, c
  <2>4. Apart(busy, Coroutines(ready), Coroutines(pending), Asleep, cur)'
    BY <2>1, <2>2, <2>3 DEF Held, Apart
  <2>5. \A y, z \in timers' : y.co = z.co => y = z
    BY <2>1, <2>3 DEF Asleep, Held
  <2> QED BY <2>1, <2>2, <2>4, <2>5 DEF Held
<1>8. CASE ProcessTimer
  <2>1. PICK x \in timers : timers' = timers \ {x} /\ ready' = Append(ready, Slot(x.co, x.due, "published"))
    BY <1>8 DEF ProcessTimer
  <2>2. x.co \in Coros /\ x.due \in Nat /\ UNCHANGED <<pending, busy, cur, loop>>
    BY <1>8, <2>1 DEF TypeOK, ProcessTimer
  <2>3. x.co \in Asleep /\ x.co \notin Coroutines(ready)
    BY <2>1 DEF Asleep, Held, Apart
  <2>4. Coroutines(ready)' = Coroutines(ready) \cup {x.co} /\ Single(ready)'
    <3>1. PICK q, c, d, st, q2 : q = ready /\ c = x.co /\ d = x.due /\ st = "published" /\ q2 = ready'
      OBVIOUS
    <3>2. /\ q \in Seq(Slots) /\ c \in Coros /\ d \in Nat /\ q2 = Append(q, Slot(c, d, st))
          /\ Single(q) /\ c \notin Coroutines(q) /\ st \in {"reserved", "published"}
      BY <1>1, <2>1, <2>2, <2>3, <3>1
    <3>3. Coroutines(q2) = Coroutines(q) \cup {c} /\ Single(q2)
      BY <3>2, PushHolds
    <3> QED BY <3>1, <3>3
  <2>5. Asleep' = Asleep \ {x.co}
    BY <2>1 DEF Asleep, Held
  <2>6. Apart(busy, Coroutines(ready), Coroutines(pending), Asleep, cur)'
    BY <2>2, <2>3, <2>4, <2>5 DEF Held, Apart
  <2> QED BY <2>1, <2>2, <2>4, <2>6 DEF Held
<1>9. CASE PopReady
  <2> DEFINE c == Head(ready).co
  <2>1. /\ Poppable(ready) /\ ready' = Tail(ready) /\ cur' = c /\ loop' = "body" /\ cur = None
        /\ UNCHANGED <<pending, timers, busy>>
    BY <1>9 DEF PopReady, Held
  <2>2. /\ Coroutines(ready)' = Coroutines(ready) \ {c} /\ Single(ready)' /\ c \in Coroutines(ready)
    BY <1>1, <2>1, PopHolds DEF Held
  <2>3. c /= None
    BY <1>1, <2>1, PopFacts, SchedulerAssumption
  <2> HIDE DEF c
  <2>4. Apart(busy, Coroutines(ready), Coroutines(pending), Asleep, cur)'
    BY <2>1, <2>2, <2>3 DEF Held, Apart, Asleep
  <2> QED BY <2>1, <2>2, <2>4 DEF Held
<1>10. CASE BodySuspend \/ BodyYield \/ \E d \in Delays : BodySleep(d)
  <2>1. cur \in Coros /\ cur /= None /\ cur' = None /\ timers' = timers /\ loop' = "ready" /\ Asleep' = Asleep
    BY <1>10, SchedulerAssumption DEF TypeOK, BodySuspend, BodyYield, BodySleep, Leave, Asleep
  <2>2. cur \notin Coroutines(ready) /\ cur \notin Coroutines(pending)
    BY <2>1 DEF Held, Apart
  <2>3. CASE BodySuspend
    <3>1. busy' = busy \ {cur} /\ UNCHANGED <<ready, pending>>
      BY <2>3 DEF BodySuspend
    <3>2. Coroutines(ready)' = Coroutines(ready) /\ Coroutines(pending)' = Coroutines(pending)
      BY <3>1
    <3>3. Apart(busy, Coroutines(ready), Coroutines(pending), Asleep, cur)'
      BY <2>1, <3>1, <3>2 DEF Held, Apart
    <3> QED BY <2>1, <3>1, <3>3 DEF Held
  <2>4. CASE BodyYield
    <3>1. ready' = Append(ready, Slot(cur, 0, "published")) /\ UNCHANGED <<pending, busy>>
      BY <2>4 DEF BodyYield
    <3>2. Coroutines(ready)' = Coroutines(ready) \cup {cur} /\ Single(ready)'
      <4>1. PICK q, c, e, st, q2 : q = ready /\ c = cur /\ e = 0 /\ st = "published" /\ q2 = ready'
        OBVIOUS
      <4>2. /\ q \in Seq(Slots) /\ c \in Coros /\ e \in Nat /\ q2 = Append(q, Slot(c, e, st))
            /\ Single(q) /\ c \notin Coroutines(q) /\ st \in {"reserved", "published"}
        BY <1>1, <2>1, <2>2, <3>1, <4>1
      <4>3. Coroutines(q2) = Coroutines(q) \cup {c} /\ Single(q2)
        BY <4>2, PushHolds
      <4> QED BY <4>1, <4>3
    <3>3. Coroutines(pending)' = Coroutines(pending) /\ Single(pending)'
      BY <1>1, <3>1
    <3>4. Apart(busy, Coroutines(ready), Coroutines(pending), Asleep, cur)'
      BY <2>1, <2>2, <3>1, <3>2, <3>3 DEF Held, Apart
    <3> QED BY <2>1, <3>2, <3>3, <3>4 DEF Held
  <2>5. ASSUME NEW d \in Delays, BodySleep(d) PROVE Held'
    <3>1. pending' = Append(pending, Slot(cur, now + d, "published")) /\ UNCHANGED <<ready, busy>> /\ now + d \in Nat
      BY <2>5, SchedulerAssumption DEF BodySleep, TypeOK
    <3>2. Coroutines(pending)' = Coroutines(pending) \cup {cur} /\ Single(pending)'
      <4>1. PICK q, c, e, st, q2 : q = pending /\ c = cur /\ e = now + d /\ st = "published" /\ q2 = pending'
        OBVIOUS
      <4>2. /\ q \in Seq(Slots) /\ c \in Coros /\ e \in Nat /\ q2 = Append(q, Slot(c, e, st))
            /\ Single(q) /\ c \notin Coroutines(q) /\ st \in {"reserved", "published"}
        BY <1>1, <2>1, <2>2, <3>1, <4>1
      <4>3. Coroutines(q2) = Coroutines(q) \cup {c} /\ Single(q2)
        BY <4>2, PushHolds
      <4> QED BY <4>1, <4>3
    <3>3. Coroutines(ready)' = Coroutines(ready) /\ Single(ready)'
      BY <1>1, <3>1
    <3>4. Apart(busy, Coroutines(ready), Coroutines(pending), Asleep, cur)'
      BY <2>1, <2>2, <3>1, <3>2, <3>3 DEF Held, Apart
    <3> QED BY <2>1, <3>2, <3>3, <3>4 DEF Held
  <2> QED BY <1>10, <2>3, <2>4, <2>5
<1>11. ASSUME UNCHANGED <<ready, pending, timers, busy, cur>>, loop' = "body" <=> loop = "body" PROVE Held'
  BY <1>11 DEF Held, Asleep
<1>12. ASSUME NEW t \in Threads, Wakeup(t) \/ Stop(t) PROVE Held'
  BY <1>11, <1>12 DEF Wakeup, Stop
<1>13. CASE \/ RunStart \/ CheckRunning \/ GetNextTimeout \/ EpollEnter \/ EpollReturn \/ ReadEventfd
            \/ ProcessIoDone \/ ProcessTimersDone \/ ReadyQueueDone \/ BodyStop \/ EpollInterrupted \/ Tick
  BY <1>11, <1>13 DEF RunStart, CheckRunning, GetNextTimeout, EpollEnter, EpollReturn, ReadEventfd,
                      ProcessIoDone, ProcessTimersDone, ReadyQueueDone, BodyStop, EpollInterrupted, Tick
<1>14. CASE UNCHANGED vars
  BY <1>11, <1>14 DEF vars
<1> QED
  BY <1>2, <1>3, <1>4, <1>5, <1>6, <1>7, <1>8, <1>9, <1>10, <1>12, <1>13, <1>14 DEF Next, LoopStep, ThreadStep

\* No coroutine is lost or duplicated on its way through readyQueue_, pendingTimers_ and timers_,
\* whatever the threads and coroutines.
THEOREM ConservationHolds == Spec => []Conservation
<1>1. Init => Held
  <2> SUFFICES ASSUME Init PROVE Held
    OBVIOUS
  <2>1. DOMAIN ready = {} /\ DOMAIN pending = {} /\ timers = {} /\ cur = None /\ busy = {}
    BY DEF Init
  <2> QED BY <2>1 DEF Held, Apart, Asleep, Single, Coroutines
<1>2. IInv /\ Held /\ [Next]_vars => Held'
  BY HeldStep DEF IInv
<1>3. Held => Conservation
  <2> SUFFICES ASSUME Held PROVE Conservation
    OBVIOUS
  <2> DEFINE places == <<Coroutines(ready), Coroutines(pending), Asleep, {cur} \ {None}>>
  <2>1. /\ DOMAIN places = {1, 2, 3, 4} /\ places[1] = Coroutines(ready) /\ places[2] = Coroutines(pending)
        /\ places[3] = Asleep /\ places[4] = {cur} \ {None}
    OBVIOUS
  <2> HIDE DEF places
  <2>2. UNION {places[i] : i \in DOMAIN places} = places[1] \cup places[2] \cup places[3] \cup places[4]
    BY <2>1
  <2>3. busy = UNION {places[i] : i \in DOMAIN places}
    BY <2>1, <2>2 DEF Held, Apart
  <2>4. \A i, j \in DOMAIN places : i /= j => places[i] \cap places[j] = {}
    BY <2>1 DEF Held, Apart
  <2> QED BY <2>3, <2>4 DEF Conservation, places, Asleep, Held, Single
<1> QED
  BY <1>1, <1>2, <1>3, SchedulerInvariant, PTL DEF Spec
=============================================================================
