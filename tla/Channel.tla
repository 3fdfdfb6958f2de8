------------------------------- MODULE Channel -------------------------------
(***************************************************************************)
(* A Channel on a socket (include/nitrocoro/io/Channel.h, src/Channel.cc)  *)
(* with its BufferReader and BufferWriter adapters, one reader and one     *)
(* writer.  Everything of the program runs on the scheduler's thread: a    *)
(* coroutine goes on until it suspends.  The kernel does not wait for it:  *)
(* data, space, a shutdown or an error of the socket may come between any  *)
(* two steps, in particular between a system call that returned EAGAIN and *)
(* the statement that clears the readiness flag.                           *)
(*                                                                         *)
(* The socket and epoll are external.  An fd is on epoll's ready list      *)
(* (armed) when an event it is interested in happened, or when EPOLL_CTL_  *)
(* ADD/MOD found it ready; epoll_wait reports what is ready at that time   *)
(* and, when edge-triggered, takes the fd off the list.  A socket wakes    *)
(* epoll for space only after a writer or a poll met a full buffer.        *)
(***************************************************************************)
EXTENDS Naturals, FiniteSets

CONSTANTS Cap,   \* bound: bytes a socket buffer holds
          Len    \* bytes of a write

ASSUME ChannelAssumption == Cap \in Nat \ {0} /\ Len \in Nat \ {0}

Dirs == {"read", "write"}

VARIABLES inq, outFree, peer, err, nospace,   \* the socket
          armed,                              \* the fd is on epoll's ready list
          batch,                              \* events of the last epoll_wait, not yet handled
          events,                             \* events_
          ready,                              \* IoState::readable and writable
          errored, peerClosed,                \* IoState
          mode,                               \* triggerMode_, given to the constructor
          waiter,                             \* readableWaiter and writableWaiter are set
          canceled,                           \* readCanceled and writeCanceled
          pc, wait,                           \* performImpl of each direction; pendingWait
          wrote                               \* wroteLen_ of the current write

socket == <<inq, outFree, peer, err, nospace>>
epoll  == <<armed, events>>
flags  == <<errored, peerClosed, mode>>
state  == <<ready, flags, waiter, canceled>>
coro   == <<pc, wait, wrote>>
vars   == <<socket, epoll, batch, state, coro>>

Init ==
    /\ inq \in 0 .. Cap /\ outFree = Cap /\ peer = "open" /\ err = "none" /\ nospace = "no"
    /\ armed = "no" /\ batch = {} /\ events = {}
    /\ ready = [d \in Dirs |-> IF d = "write" THEN "yes" ELSE "no"]
    /\ errored = "no" /\ peerClosed = "no" /\ mode \in {"edge", "level"}
    /\ waiter = [d \in Dirs |-> "no"] /\ canceled = [d \in Dirs |-> "no"]
    /\ pc = [d \in Dirs |-> "idle"] /\ wait = [d \in Dirs |-> "no"]
    /\ wrote = 0

-----------------------------------------------------------------------------
\* The socket and epoll.

\* What the socket's poll reports for interest E; errors and hang-ups are always reported.
Poll(E) ==
    (E \cap ((IF inq > 0 \/ peer = "shut" \/ err /= "none" THEN {"IN"} ELSE {})
             \cup (IF outFree > 0 \/ err /= "none" THEN {"OUT"} ELSE {})))
    \cup (IF peer = "shut" \/ err /= "none" THEN {"RDHUP"} ELSE {})
    \cup (IF err = "pending" THEN {"ERR"} ELSE {})
    \cup (IF err /= "none" THEN {"HUP"} ELSE {})

\* A poll that finds no space asks for a wakeup.
PollNospace == IF outFree = 0 THEN "yes" ELSE nospace

\* The socket wakes epoll when key is of interest.
Arm(key) ==
    armed' = IF events /= {} /\ (key \in events \/ key \in {"RDHUP", "ERR"}) THEN "yes" ELSE armed

DataArrives ==
    /\ inq < Cap /\ peer = "open" /\ err = "none"
    /\ inq' = inq + 1 /\ Arm("IN")
    /\ UNCHANGED <<outFree, peer, err, nospace, events, batch, state, coro>>

PeerShuts ==
    /\ peer = "open" /\ err = "none"
    /\ peer' = "shut" /\ Arm("RDHUP")
    /\ UNCHANGED <<inq, outFree, err, nospace, events, batch, state, coro>>

Drain ==
    /\ outFree < Cap /\ err = "none"
    /\ outFree' = outFree + 1 /\ nospace' = "no"
    /\ IF nospace = "yes" THEN Arm("OUT") ELSE UNCHANGED armed
    /\ UNCHANGED <<inq, peer, err, events, batch, state, coro>>

SocketFails ==
    /\ err = "none"
    /\ err' = "pending" /\ Arm("ERR")
    /\ UNCHANGED <<inq, outFree, peer, nospace, events, batch, state, coro>>

\* updateIo(): events E are asked of epoll (events_ changes with it).
UpdateIo(E) ==
    /\ events' = E
    /\ armed' = IF E = {} THEN "no" ELSE IF Poll(E) /= {} THEN "yes" ELSE armed
    /\ nospace' = IF E = {} THEN nospace ELSE PollNospace

-----------------------------------------------------------------------------
\* The scheduler's thread.

\* No coroutine is between two suspension points.
LoopRuns == \A d \in Dirs : pc[d] \in {"idle", "waiting", "ready"}

\* enableReading(), by the owner of the channel.
EnableReading ==
    /\ LoopRuns /\ "IN" \notin events
    /\ UpdateIo(events \cup {"IN"})
    /\ UNCHANGED <<inq, outFree, peer, err, batch, state, coro>>

\* epoll_wait() in process_io_events().
EpollWait ==
    /\ LoopRuns /\ batch = {} /\ armed = "yes"
    /\ batch' = Poll(events)
    /\ armed' = IF mode = "level" /\ Poll(events) /= {} THEN "yes" ELSE "no"
    /\ nospace' = PollNospace
    /\ UNCHANGED <<inq, outFree, peer, err, events, state, coro>>

\* The directions whose waiter handleIoEvents() schedules on events ev.
Wakes(ev) ==
    {d \in Dirs : \/ "ERR" \in ev
                  \/ d = "read" /\ ev \cap {"IN", "HUP", "RDHUP"} /= {}
                  \/ d = "write" /\ "OUT" \in ev}

\* Bug: an error is remembered and wakes nobody.
HandleIoEvents_ErrorWakesNobody ==
    /\ LoopRuns /\ batch /= {}
    /\ batch' = {}
    /\ LET woken == IF "ERR" \in batch THEN {} ELSE {d \in Wakes(batch) : waiter[d] = "yes"}
       IN  /\ waiter' = [d \in Dirs |-> IF d \in woken THEN "no" ELSE waiter[d]]
           /\ pc' = [d \in Dirs |-> IF d \in woken THEN "ready" ELSE pc[d]]
    /\ errored' = IF "ERR" \in batch THEN "yes" ELSE errored
    /\ peerClosed' = IF "RDHUP" \in batch THEN "yes" ELSE peerClosed
    /\ ready' = [d \in Dirs |-> IF d \in Wakes(batch \ {"ERR"}) THEN "yes" ELSE ready[d]]
    /\ UNCHANGED <<socket, epoll, mode, canceled, wait, wrote>>

\* Bug: a waiter is scheduled and stays registered.
HandleIoEvents_KeepsWaiter ==
    /\ LoopRuns /\ batch /= {}
    /\ batch' = {}
    /\ LET woken == {d \in Wakes(batch) : waiter[d] = "yes"}
       IN  pc' = [d \in Dirs |-> IF d \in woken THEN "ready" ELSE pc[d]]
    /\ errored' = IF "ERR" \in batch THEN "yes" ELSE errored
    /\ peerClosed' = IF "RDHUP" \in batch THEN "yes" ELSE peerClosed
    /\ ready' = [d \in Dirs |-> IF d \in Wakes(batch \ {"ERR"}) THEN "yes" ELSE ready[d]]
    /\ UNCHANGED <<socket, epoll, mode, waiter, canceled, wait, wrote>>

\* handleIoEvents(): an error marks no direction ready, the other events do.
HandleIoEvents ==
    /\ LoopRuns /\ batch /= {}
    /\ batch' = {}
    /\ LET woken == {d \in Wakes(batch) : waiter[d] = "yes"}
       IN  /\ waiter' = [d \in Dirs |-> IF d \in woken THEN "no" ELSE waiter[d]]
           /\ pc' = [d \in Dirs |-> IF d \in woken THEN "ready" ELSE pc[d]]
    /\ errored' = IF "ERR" \in batch THEN "yes" ELSE errored
    /\ peerClosed' = IF "RDHUP" \in batch THEN "yes" ELSE peerClosed
    /\ ready' = [d \in Dirs |-> IF d \in Wakes(batch \ {"ERR"}) THEN "yes" ELSE ready[d]]
    /\ UNCHANGED <<socket, epoll, mode, canceled, wait, wrote>>

\* Bug: the flag is set although no operation waits.
Cancel_Always(D) ==
    /\ LoopRuns
    /\ canceled' = [d \in Dirs |-> IF d \in D THEN "yes" ELSE canceled[d]]
    /\ waiter' = [d \in Dirs |-> IF d \in D THEN "no" ELSE waiter[d]]
    /\ pc' = [d \in Dirs |-> IF d \in D /\ waiter[d] = "yes" THEN "ready" ELSE pc[d]]
    /\ UNCHANGED <<socket, epoll, batch, ready, flags, wait, wrote>>

\* cancelRead(), cancelWrite() and cancelAll(), for the directions D.
Cancel(D) ==
    LET hit == {d \in D : waiter[d] = "yes"}
    IN  /\ LoopRuns /\ hit /= {}
        /\ canceled' = [d \in Dirs |-> IF d \in hit THEN "yes" ELSE canceled[d]]
        /\ waiter' = [d \in Dirs |-> IF d \in hit THEN "no" ELSE waiter[d]]
        /\ pc' = [d \in Dirs |-> IF d \in hit THEN "ready" ELSE pc[d]]
        /\ UNCHANGED <<socket, epoll, batch, ready, flags, wait, wrote>>

-----------------------------------------------------------------------------
\* performImpl().

Goto(d, l) == pc' = [pc EXCEPT ![d] = l]

\* The operation ends and its coroutine goes on; which IoResult it gets is not kept.
Return(d) ==
    /\ Goto(d, "idle")
    /\ wait' = [wait EXCEPT ![d] = "no"]
    /\ wrote' = IF d = "write" THEN 0 ELSE wrote

\* performRead() or performWrite() is called on the scheduler's thread, or switched to it.
Perform(d) ==
    /\ LoopRuns /\ pc[d] = "idle"
    /\ Goto(d, "test")
    /\ wait' = [wait EXCEPT ![d] = "yes"]
    /\ UNCHANGED <<socket, epoll, batch, state, wrote>>

\* The head of the loop with the awaiters' await_ready() and await_suspend().
Test(d) ==
    /\ pc[d] = "test"
    /\ LET suspends == wait[d] = "yes" /\ ready[d] = "no" /\ errored = "no"
       IN  \/ suspends /\ Goto(d, "waiting") /\ waiter' = [waiter EXCEPT ![d] = "yes"]
           \/ ~suspends /\ Goto(d, "call") /\ UNCHANGED waiter
    /\ UNCHANGED <<socket, epoll, batch, ready, flags, canceled, wait, wrote>>

\* The scheduler resumes the coroutine: it was cancelled or calls again.
Resume(d) ==
    /\ LoopRuns /\ pc[d] = "ready"
    /\ canceled' = [canceled EXCEPT ![d] = "no"]
    /\ \/ canceled[d] = "yes" /\ Return(d)
       \/ canceled[d] = "no" /\ Goto(d, "call") /\ UNCHANGED <<wait, wrote>>
    /\ UNCHANGED <<socket, epoll, batch, ready, flags, waiter>>

\* BufferReader: read() gives data, end of file, an error (once) or EAGAIN.
CallRead ==
    /\ pc["read"] = "call"
    /\ \/ /\ inq > 0
          /\ \E n \in 1 .. inq : inq' = inq - n
          /\ Return("read") /\ UNCHANGED err
       \/ /\ inq = 0 /\ (peer = "shut" \/ err /= "none")
          /\ err' = IF err = "pending" THEN "taken" ELSE err
          /\ Return("read") /\ UNCHANGED inq
       \/ /\ inq = 0 /\ err = "none" /\ peer = "open"
          /\ Goto("read", "again") /\ UNCHANGED <<inq, err, wait, wrote>>
    /\ UNCHANGED <<outFree, peer, nospace, epoll, batch, state>>

\* BufferWriter: write() takes some of what is left, fails or gives EAGAIN; a write that is not
\* complete calls again.
CallWrite ==
    /\ pc["write"] = "call"
    /\ \/ /\ outFree > 0 /\ err = "none"
          /\ \E n \in 1 .. outFree :
              /\ wrote + n <= Len
              /\ outFree' = outFree - n
              /\ wrote' = wrote + n
          /\ Goto("write", IF wrote' = Len THEN "written" ELSE "test")
          /\ wait' = [wait EXCEPT !["write"] = "no"]
          /\ UNCHANGED <<err, nospace>>
       \/ /\ err /= "none"
          /\ err' = "taken"
          /\ Return("write") /\ UNCHANGED <<outFree, nospace>>
       \/ /\ outFree = 0 /\ err = "none"
          /\ nospace' = "yes"
          /\ Goto("write", "again") /\ UNCHANGED <<outFree, err, wait, wrote>>
    /\ UNCHANGED <<inq, peer, epoll, batch, state>>

\* The write is complete: disableWriting() and Success.
Written ==
    /\ pc["write"] = "written"
    /\ Return("write")
    /\ \/ "OUT" \in events /\ UpdateIo(events \ {"OUT"})
       \/ "OUT" \notin events /\ UNCHANGED <<epoll, nospace>>
    /\ UNCHANGED <<inq, outFree, peer, err, batch, state>>

\* A system call is interrupted: IoStatus::Retry.
Interrupted(d) ==
    /\ pc[d] = "call"
    /\ Goto(d, "test") /\ wait' = [wait EXCEPT ![d] = "no"]
    /\ UNCHANGED <<socket, epoll, batch, state, wrote>>

\* Bug: the fd is taken off the ready list when the flag is cleared.
Again_Disarms(d) ==
    /\ pc[d] = "again"
    /\ ready' = [ready EXCEPT ![d] = "no"]
    /\ wait' = [wait EXCEPT ![d] = "yes"] /\ Goto(d, "test")
    /\ armed' = "no"
    /\ UNCHANGED <<socket, events, batch, flags, waiter, canceled, wrote>>

\* EAGAIN: the writer calls enableWriting(), performImpl clears the flag and waits.
Again(d) ==
    /\ pc[d] = "again"
    /\ ready' = [ready EXCEPT ![d] = "no"]
    /\ wait' = [wait EXCEPT ![d] = "yes"] /\ Goto(d, "test")
    /\ \/ d = "write" /\ "OUT" \notin events /\ UpdateIo(events \cup {"OUT"})
       \/ (d = "read" \/ "OUT" \in events) /\ UNCHANGED <<epoll, nospace>>
    /\ UNCHANGED <<inq, outFree, peer, err, batch, flags, waiter, canceled, wrote>>

Kernel == DataArrives \/ PeerShuts \/ Drain \/ SocketFails

Next ==
    \/ Kernel \/ EnableReading \/ EpollWait \/ HandleIoEvents \/ CallRead \/ CallWrite \/ Written
    \/ \E D \in SUBSET Dirs : Cancel(D)
    \/ \E d \in Dirs : Perform(d) \/ Test(d) \/ Resume(d) \/ Interrupted(d) \/ Again(d)

Spec == Init /\ [][Next]_vars

LoopPolls == EpollWait \/ HandleIoEvents
CoroCalls == CallRead \/ CallWrite
CoroRuns == Written \/ \E d \in Dirs : Test(d) \/ Again(d)

\* The loop goes on, a coroutine runs until it suspends, no call is interrupted for ever, the
\* peer goes on reading.  LoopRuns is true again and again: hence SF for what the loop starts.
\* One coroutine runs at a time, so that fairness of their steps together is fairness of each.
FairSpec ==
    /\ Spec
    /\ SF_vars(LoopPolls) /\ SF_vars(CoroCalls) /\ WF_vars(CoroRuns) /\ WF_vars(Drain)
    /\ \A d \in Dirs : SF_vars(Resume(d))

-----------------------------------------------------------------------------
Flag == {"yes", "no"}

\* Types of the state of the channel and of its socket.
TypeOK ==
    /\ inq \in 0 .. Cap /\ outFree \in 0 .. Cap /\ peer \in {"open", "shut"}
    /\ err \in {"none", "pending", "taken"} /\ nospace \in Flag /\ armed \in Flag
    /\ batch \subseteq {"IN", "OUT", "RDHUP", "HUP", "ERR"} /\ events \subseteq {"IN", "OUT"}
    /\ ready \in [Dirs -> Flag] /\ errored \in Flag /\ peerClosed \in Flag
    /\ mode \in {"edge", "level"}
    /\ waiter \in [Dirs -> Flag] /\ canceled \in [Dirs -> Flag]
    /\ pc \in [Dirs -> {"idle", "test", "call", "again", "written", "waiting", "ready"}]
    /\ wait \in [Dirs -> Flag] /\ wrote \in 0 .. Len

\* The stored handle is that of the suspended operation, no other: a handle left in the state
\* would resume a coroutine that has gone on (Channel.cc:53-64, 80-85, 181-187).  The state is well
\* typed.
HandleIsSuspended == TypeOK /\ \A d \in Dirs : waiter[d] = "yes" <=> pc[d] = "waiting"

\* The readiness flag that performImpl clears after EAGAIN never hides an event.  A reader that
\* waits while there is data, end of file or an error to read will be told by epoll.  A writer
\* that waits has asked epoll for EPOLLOUT, and when there is space it will be told:
\* disableWriting() of an earlier write, cancelWrite() and a stale event do not lose it.
NoLostReadiness ==
    /\ waiter["read"] = "yes" /\ "IN" \in events /\ Poll({"IN"}) /= {}
        => armed = "yes" \/ "read" \in Wakes(batch)
    /\ waiter["write"] = "yes"
        => /\ "OUT" \in events
           /\ outFree > 0 => armed = "yes" \/ "write" \in Wakes(batch)
           /\ outFree = 0 => nospace = "yes"

\* A cancellation is for the operation that waited when it was made: the flag never stays
\* for a later one (Channel.h:188-191, Channel.cc:183).
CancelIsForTheWaiter == \A d \in Dirs : canceled[d] = "yes" => pc[d] = "ready"

\* Once reading is enabled, a read that has data, end of file or an error to report ends.
\* Every write ends when the peer goes on reading, also when the socket fails meanwhile.
Due(d) == pc[d] /= "idle" /\ (d = "read" => "IN" \in events /\ Poll({"IN"}) /= {})
Over(d) == pc[d] = "idle"
OperationsEnd == \A d \in Dirs : Due(d) ~> Over(d)
=============================================================================
