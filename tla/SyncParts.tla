----------------------------- MODULE SyncParts ------------------------------
(***************************************************************************)
(* Future and Promise, Pipe and withTimeout(), each with variables of its  *)
(* own, and what each of them promises.  They share no state; where two of *)
(* the modules have a variable of the same name, one is renamed here.      *)
(***************************************************************************)

CONSTANTS Waiters, Setters, Dtor, Nil, Closed,                                \* Future
          Senders, MaxSends,                                                  \* Pipe
          Depth                                                               \* Timeout

VARIABLES head, next, live, result, wpc, cur, got, spc, n,                    \* Future
          queue, closed, waiter, buffer, early, sender, item, queued, rpc, rx,
          sent, received, eof,                                                \* Pipe
          caller, done, timedOut, stored, inner, timer, scheduled, outcome    \* Timeout

F == INSTANCE Future WITH Null <- Nil
P == INSTANCE Pipe WITH spc <- sender
T == INSTANCE Timeout WITH queued <- scheduled, result <- outcome

futureVars == <<head, next, live, result, wpc, cur, got, spc, n>>
pipeVars == <<queue, closed, waiter, buffer, early, sender, item, queued, rpc, rx, sent, received, eof>>
timeoutVars == <<caller, done, timedOut, stored, inner, timer, scheduled, outcome>>

-----------------------------------------------------------------------------
\* Future: resumeAll() walks only over awaiters that still exist, a suspended awaiter is in the
\* list or about to be resumed, and a waiter that was resumed finds the result.
FutureSafe == F!WalksLiveNodes /\ F!SuspendedIsListed /\ F!WokenSeesResult

\* Pipe: the receiver's handle is in one place, no send is missed when the receiver's store is
\* visible in time, and every value sent is received or still queued, in order.
PipeSafe == P!HandleInOnePlace /\ P!NoMissedSend /\ P!NothingLost

\* withTimeout(): the caller is resumed once, by the winner of the race, with a result.
TimeoutSafe == T!ResumedOnce /\ T!ResultIsThere /\ T!WinnerDecides
=============================================================================
