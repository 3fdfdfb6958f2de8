------------------------------ MODULE FifoLock ------------------------------
(***************************************************************************)
(* What nitrocoro::Mutex promises: a lock with one owner and a first-come  *)
(* first-served queue of suspended coroutines.  Ownership goes directly    *)
(* from the owner to the head of the queue; the lock becomes free only     *)
(* when nobody is queued, so a newcomer can never overtake a waiter.       *)
(***************************************************************************)
EXTENDS Sequences

CONSTANTS Coros,    \* the coroutines that use the mutex
          NoOwner   \* "nobody holds the lock"

VARIABLES owner, queue

Init == owner = NoOwner /\ queue = << >>

\* A free lock is taken.
Acquire(c) ==
    /\ owner = NoOwner
    /\ owner' = c
    /\ UNCHANGED queue

\* The lock is busy: the coroutine suspends at the end of the queue.
Enqueue(c) ==
    /\ owner /= NoOwner
    /\ queue' = Append(queue, c)
    /\ UNCHANGED owner

\* Unlock with waiters: the head of the queue is the next owner.
HandOver ==
    /\ queue /= << >>
    /\ owner' = Head(queue)
    /\ queue' = Tail(queue)

\* Unlock without waiters.
Release ==
    /\ owner /= NoOwner
    /\ queue = << >>
    /\ owner' = NoOwner
    /\ UNCHANGED queue

Next ==
    \/ \E c \in Coros : Acquire(c) \/ Enqueue(c)
    \/ HandOver
    \/ Release

Spec == Init /\ [][Next]_<<owner, queue>>
=============================================================================
