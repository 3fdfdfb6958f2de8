-------------------------------- MODULE Pipe --------------------------------
(***************************************************************************)
(* The multi-producer single-consumer pipe of include/nitrocoro/core/Pipe.h*)
(*                                                                         *)
(* queue_ is seen as PublishQueue gives it: a push reserves a slot, then   *)
(* publishes it.  A sender is a thread that holds the PipeSender; the last *)
(* one to let go of it runs the destructor, which closes the pipe.  The    *)
(* receiver is one coroutine, on the thread of the pipe's scheduler, so it *)
(* is resumed only after its await_suspend() has returned.  waiter_.store  *)
(* is a release store: it may reach the other threads after the loads that *)
(* follow it, as x86 and the C++ memory model allow.  early remembers that *)
(* this happened.                                                          *)
(***************************************************************************)
EXTENDS Naturals, Sequences

CONSTANTS Senders,      \* threads that share the PipeSender
          MaxSends      \* bound: number of send() calls

VARIABLES queue,    \* queue_: sequence of [val, st]
          closed,   \* closed_
          waiter,   \* waiter_: "null" or "set"
          buffer,   \* "full": the store to waiter_ is still in the receiver's store buffer
          early,    \* "yes": the second look came before the store had left the buffer
          spc,      \* where each sender is
          item,     \* what it is pushing
          queued,   \* number of times the receiver is in its scheduler's ready queue
          rpc,      \* where the receiver is
          rx,       \* the PipeReceiver: "there" or "gone"
          sent,     \* number of sends so far: the values are 1, 2, ...
          received, \* what recv() returned, nullopt left out
          eof       \* what was true when recv() last returned nullopt

vars == <<queue, closed, waiter, buffer, early, spc, item, queued, rpc, rx, sent, received, eof>>
receiverVars == <<queued, rpc, rx, received, eof, early>>

Init ==
    /\ queue = << >> /\ closed = "no"
    /\ waiter = "null" /\ buffer = "empty" /\ early = "no"
    /\ spc = [s \in Senders |-> "idle"]
    /\ item = [s \in Senders |-> 0]
    /\ queued = 0 /\ rpc = "idle" /\ rx = "there"
    /\ sent = 0 /\ received = << >> /\ eof = "never"

-----------------------------------------------------------------------------
\* The senders.

\* Bug: the newest value is put in front.
SendReserve_Front(s) ==
    /\ spc[s] = "idle"
    /\ sent < MaxSends
    /\ sent' = sent + 1
    /\ closed = "no"
    /\ queue' = <<[val |-> sent + 1, st |-> "reserved"]>> \o queue
    /\ item' = [item EXCEPT ![s] = sent + 1]
    /\ spc' = [spc EXCEPT ![s] = "link"]
    /\ UNCHANGED <<closed, waiter, buffer, receiverVars>>

\* send(): the test of closed_ and the first half of push().  closed_ is never set while a
\* sender is left, so the test does not fail.
SendReserve(s) ==
    /\ spc[s] = "idle"
    /\ sent < MaxSends
    /\ sent' = sent + 1
    /\ closed = "no"
    /\ queue' = Append(queue, [val |-> sent + 1, st |-> "reserved"])
    /\ item' = [item EXCEPT ![s] = sent + 1]
    /\ spc' = [spc EXCEPT ![s] = "link"]
    /\ UNCHANGED <<closed, waiter, buffer, receiverVars>>

\* Second half of push().
SendLink(s) ==
    /\ spc[s] = "link"
    /\ queue' = [i \in DOMAIN queue |->
                   IF queue[i].val = item[s] THEN [val |-> item[s], st |-> "published"] ELSE queue[i]]
    /\ item' = [item EXCEPT ![s] = 0]
    /\ spc' = [spc EXCEPT ![s] = "wake"]
    /\ UNCHANGED <<closed, waiter, buffer, receiverVars, sent>>

\* Where a sender goes when wakeReceiver() is over.
AfterWake == IF closed = "yes" THEN "gone" ELSE "idle"

\* wakeReceiver(): the exchange of waiter_.
WakeExchange(s) ==
    /\ spc[s] = "wake"
    /\ waiter' = "null"
    /\ spc' = [spc EXCEPT ![s] = IF waiter = "set" THEN "schedule" ELSE AfterWake]
    /\ UNCHANGED <<queue, closed, buffer, item, receiverVars, sent>>

\* wakeReceiver(): schedule() of the handle that was there.
WakeSchedule(s) ==
    /\ spc[s] = "schedule"
    /\ queued' = queued + 1
    /\ spc' = [spc EXCEPT ![s] = AfterWake]
    /\ UNCHANGED <<queue, closed, waiter, buffer, item, rpc, rx, sent, received, eof, early>>

IsLast(s) == \A r \in Senders \ {s} : spc[r] = "gone"

\* Bug: close() does not wake the receiver.
Release_NoWakeup(s) ==
    /\ spc[s] = "idle"
    /\ closed' = IF IsLast(s) THEN "yes" ELSE closed
    /\ spc' = [spc EXCEPT ![s] = "gone"]
    /\ UNCHANGED <<queue, waiter, buffer, item, receiverVars, sent>>

\* A sender lets go of the PipeSender; the last one enters close().
Release(s) ==
    /\ spc[s] = "idle"
    /\ \/ /\ IsLast(s)
          /\ closed' = "yes"
          /\ spc' = [spc EXCEPT ![s] = "wake"]
       \/ /\ ~IsLast(s)
          /\ spc' = [spc EXCEPT ![s] = "gone"]
          /\ UNCHANGED closed
    /\ UNCHANGED <<queue, waiter, buffer, item, receiverVars, sent>>

-----------------------------------------------------------------------------
\* The receiver.

HasItem == queue /= << >> /\ Head(queue).st = "published"

\* await_ready() of RecvAwaiter.
AwaitReady ==
    /\ rpc = "idle" /\ rx = "there"
    /\ rpc' = IF HasItem \/ closed = "yes" THEN "resume" ELSE "store"
    /\ UNCHANGED <<queue, closed, waiter, buffer, spc, item, queued, rx, sent, received, eof, early>>

\* await_suspend(): waiter_.store, which goes to memory by way of the store buffer.
StoreWaiter ==
    /\ rpc = "store"
    /\ buffer' = "full"
    /\ rpc' = "recheck"
    /\ UNCHANGED <<queue, closed, waiter, spc, item, queued, rx, sent, received, eof, early>>

\* The store buffer drains.
FlushBuffer ==
    /\ buffer = "full"
    /\ buffer' = "empty"
    /\ waiter' = "set"
    /\ UNCHANGED <<queue, closed, spc, item, receiverVars, sent>>

\* Bug: await_suspend() does not look at the queue again.
Recheck_Skipped ==
    /\ rpc = "recheck"
    /\ rpc' = "suspended"
    /\ UNCHANGED <<queue, closed, waiter, buffer, spc, item, queued, rx, sent, received, eof, early>>

\* await_suspend(): the second look at queue_ and closed_.
Recheck ==
    /\ rpc = "recheck"
    /\ rpc' = IF HasItem \/ closed = "yes" THEN "retract" ELSE "suspended"
    /\ early' = IF buffer = "full" THEN "yes" ELSE early
    /\ UNCHANGED <<queue, closed, waiter, buffer, spc, item, queued, rx, sent, received, eof>>

\* Bug: the receiver goes on although a sender took its handle.
Retract_Ignored ==
    /\ rpc = "retract"
    /\ buffer = "empty"
    /\ waiter' = "null"
    /\ rpc' = "resume"
    /\ UNCHANGED <<queue, closed, buffer, spc, item, queued, rx, sent, received, eof, early>>

\* await_suspend(): the compare-exchange (which drains the store buffer) takes the handle back,
\* unless a sender has it.
Retract ==
    /\ rpc = "retract"
    /\ buffer = "empty"
    /\ waiter' = "null"
    /\ rpc' = IF waiter = "set" THEN "resume" ELSE "suspended"
    /\ UNCHANGED <<queue, closed, buffer, spc, item, queued, rx, sent, received, eof, early>>

\* What recv() finds when there is no value: the end of the stream, or a push under way.
WhyEmpty == IF closed = "yes" /\ queue = << >> THEN "eof" ELSE "open"

\* await_resume(), at once or when the scheduler resumes the coroutine: pop().  The receiver
\* calls recv() again until the stream really ends.
AwaitResume ==
    /\ \/ rpc = "resume" /\ UNCHANGED queued
       \/ rpc = "suspended" /\ queued > 0 /\ queued' = queued - 1
    /\ \/ /\ HasItem
          /\ queue' = Tail(queue)
          /\ received' = Append(received, Head(queue).val)
          /\ rpc' = "idle"
          /\ UNCHANGED eof
       \/ /\ ~HasItem
          /\ eof' = WhyEmpty
          /\ rpc' = IF WhyEmpty = "eof" THEN "stopped" ELSE "idle"
          /\ UNCHANGED <<queue, received>>
    /\ UNCHANGED <<closed, waiter, buffer, early, spc, item, rx, sent>>

\* The PipeReceiver is destroyed while it does not wait.
DropReceiver ==
    /\ rpc \in {"idle", "stopped"} /\ rx = "there"
    /\ rx' = "gone"
    /\ UNCHANGED <<queue, closed, waiter, buffer, spc, item, queued, rpc, sent, received, eof, early>>

-----------------------------------------------------------------------------
SenderStep(s) == SendLink(s) \/ WakeExchange(s) \/ WakeSchedule(s)
ReceiverStep == AwaitReady \/ StoreWaiter \/ FlushBuffer \/ Recheck \/ Retract \/ AwaitResume

Next ==
    \/ \E s \in Senders : SendReserve(s) \/ Release(s) \/ SenderStep(s)
    \/ ReceiverStep
    \/ DropReceiver

Spec == Init /\ [][Next]_vars

\* Threads inside send() or close() go on, and so does the receiver when it can run.
Fairness ==
    /\ WF_vars(ReceiverStep)
    /\ \A s \in Senders : WF_vars(SenderStep(s)) /\ WF_vars(Release(s))

FairSpec == Spec /\ Fairness

-----------------------------------------------------------------------------
\* Types of the state of the pipe.
TypeOK ==
    /\ queue \in Seq([val : Nat, st : {"reserved", "published"}])
    /\ closed \in {"yes", "no"}
    /\ waiter \in {"null", "set"}
    /\ buffer \in {"empty", "full"} /\ early \in {"yes", "no"}
    /\ spc \in [Senders -> {"idle", "link", "wake", "schedule", "gone"}]
    /\ item \in [Senders -> Nat]
    /\ rpc \in {"idle", "store", "recheck", "retract", "suspended", "resume", "stopped"}
    /\ queued \in 0 .. 1
    /\ rx \in {"there", "gone"}
    /\ sent \in Nat
    /\ received \in Seq(Nat)
    /\ eof \in {"never", "eof", "open"}

\* The places that hold the handle of the receiver: waiter_ (or the store to it), senders that
\* took it from there, the ready queue.
Handles ==
    (IF waiter = "set" \/ buffer = "full" THEN 1 ELSE 0)
    + (IF \E s \in Senders : spc[s] = "schedule" THEN 1 ELSE 0) + queued

\* The receiver is resumed exactly once for each suspension: its handle is in one place while
\* it is suspended and nowhere while it runs (Pipe.h:74: it takes the handle back only if no
\* sender did), and no two senders have it.  The state is well typed.
HandleInOnePlace ==
    /\ TypeOK
    /\ \A s, t \in Senders : spc[s] = "schedule" /\ spc[t] = "schedule" => s = t
    /\ rpc = "suspended" => Handles = 1
    /\ rpc \in {"idle", "store", "resume", "stopped"} => Handles = 0

\* Pipe.h:71: "Re-check to avoid missing a send/close that raced before store": a receiver that
\* is suspended while a value is there, or after the close, is about to be woken, as long as its
\* stores were visible before the second look.
NoMissedSend ==
    early = "no" /\ rpc = "suspended" /\ (HasItem \/ closed = "yes") =>
        queued > 0 \/ \E s \in Senders : spc[s] \in {"wake", "schedule"}

\* Values arrive in the order of their slots, and none is lost or doubled: what was received,
\* then what is queued, are the values sent so far.
NothingLost ==
    received \o [i \in DOMAIN queue |-> queue[i].val] = [i \in 1 .. sent |-> i]

\* Pipe.h:8 and :144: recv() "suspends if empty; returns nullopt on EOF", and only then.
NulloptMeansEof == eof /= "open"

\* Once the senders are gone, a receiver that is not dropped has received every value and has
\* seen the end of the stream, as long as its stores were visible before its second looks.
Over == rx = "gone" \/ early = "yes" \/ (rpc = "stopped" /\ Len(received) = sent)
ReceiverEnds == <>Over
=============================================================================
