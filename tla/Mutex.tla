-------------------------------- MODULE Mutex --------------------------------
(***************************************************************************)
(* nitrocoro::Mutex (include/nitrocoro/core/Mutex.h), the coroutine mutex. *)
(*                                                                         *)
(* The atomic word state_ is unlockedValue() when unlocked, nullptr when   *)
(* locked with an empty stack, and otherwise points to the newest of a     *)
(* LIFO chain of awaiters; that chain is the sequence `stack', newest      *)
(* first.  waiters_ is the FIFO chain only the lock holder touches.  An    *)
(* awaiter lives in the frame of its coroutine and is named by it, so the  *)
(* address of an awaiter is reused when the coroutine locks again.         *)
(*                                                                         *)
(* One step is one atomic access of state_ with the thread-local code      *)
(* around it.  A spurious failure of compare_exchange_weak re-reads an     *)
(* unchanged word and is a stuttering step.                                *)
(***************************************************************************)
EXTENDS Naturals, Sequences

CONSTANTS Coros,      \* coroutines that lock and unlock
          Unlocked,   \* unlockedValue()
          Null        \* nullptr

ASSUME PointerAssumption == Unlocked \notin Coros /\ Null \notin Coros /\ Unlocked /= Null

VARIABLES state,     \* "unlocked" when state_ is unlockedValue(), else "locked"
          stack,     \* awaiters pushed on state_ and not yet collected, newest first
          waiters,   \* waiters_, oldest first
          pc,        \* where each coroutine is
          old        \* the local oldValue of asynclockImpl

vars == <<state, stack, waiters, pc, old>>

\* The value of the atomic word state_.
StatePtr ==
    IF state = "unlocked" THEN Unlocked ELSE IF stack = << >> THEN Null ELSE stack[1]

Init ==
    /\ state = "unlocked"
    /\ stack = << >>
    /\ waiters = << >>
    /\ pc = [c \in Coros |-> "idle"]
    /\ old = [c \in Coros |-> Null]

Goto(c, l) == pc' = [pc EXCEPT ![c] = l]

\* try_lock(): one compare_exchange_strong; a failed one changes nothing.
TryLock(c) ==
    /\ pc[c] = "idle"
    /\ state = "unlocked"
    /\ state' = "locked"
    /\ Goto(c, "holding")
    /\ UNCHANGED <<stack, waiters, old>>

\* co_await lock(): await_ready() saw the mutex locked, await_suspend() loads state_ later.
AwaitSuspend(c) ==
    /\ pc[c] = "idle"
    /\ state = "locked"
    /\ Goto(c, "load")
    /\ UNCHANGED <<state, stack, waiters, old>>

AsyncLockLoad(c) ==
    /\ pc[c] = "load"
    /\ old' = [old EXCEPT ![c] = StatePtr]
    /\ Goto(c, "cas")
    /\ UNCHANGED <<state, stack, waiters>>

\* asynclockImpl, oldValue == unlockedValue(): the lock became free, take it without suspending.
AsyncLockTake(c) ==
    /\ pc[c] = "cas"
    /\ old[c] = Unlocked
    /\ StatePtr = Unlocked
    /\ state' = "locked"
    /\ Goto(c, "holding")
    /\ UNCHANGED <<stack, waiters, old>>

\* asynclockImpl, oldValue != unlockedValue(): link behind the awaiter read and suspend.
AsyncLockPush(c) ==
    /\ pc[c] = "cas"
    /\ old[c] /= Unlocked
    /\ StatePtr = old[c]
    /\ stack' = <<c>> \o stack
    /\ Goto(c, "waiting")
    /\ UNCHANGED <<state, waiters, old>>

\* asynclockImpl, the word changed since it was read: compare_exchange reloads oldValue.
AsyncLockRetry(c) ==
    /\ pc[c] = "cas"
    /\ StatePtr /= old[c]
    /\ old' = [old EXCEPT ![c] = StatePtr]
    /\ UNCHANGED <<state, stack, waiters, pc>>

\* unlock(): read waiters_ and, when it is empty, load state_.
UnlockStart(c) ==
    /\ pc[c] = "holding"
    /\ \/ waiters /= << >> /\ Goto(c, "handoff")
       \/ waiters = << >> /\ StatePtr = Null /\ Goto(c, "release")
       \/ waiters = << >> /\ StatePtr /= Null /\ Goto(c, "collect")
    /\ UNCHANGED <<state, stack, waiters, old>>

\* Bug: the word is stored, not exchanged.
UnlockRelease_PlainStore(c) ==
    /\ pc[c] = "release"
    /\ state' = "unlocked"
    /\ stack' = << >>
    /\ Goto(c, "idle")
    /\ UNCHANGED <<waiters, old>>

\* unlock(): compare_exchange_strong(nullptr -> unlockedValue()), or a waiter came meanwhile.
UnlockRelease(c) ==
    /\ pc[c] = "release"
    /\ \/ StatePtr = Null /\ state' = "unlocked" /\ Goto(c, "idle")
       \/ StatePtr /= Null /\ Goto(c, "collect") /\ UNCHANGED state
    /\ UNCHANGED <<stack, waiters, old>>

\* The chain, newest first, with its links turned round.
Reversed(s) == [i \in 1..Len(s) |-> s[Len(s) - i + 1]]

\* Bug: the chain is not reversed.
UnlockCollect_KeepsOrder(c) ==
    /\ pc[c] = "collect"
    /\ waiters' = stack
    /\ stack' = << >>
    /\ Goto(c, "handoff")
    /\ UNCHANGED <<state, old>>

\* unlock(): exchange(nullptr) detaches the whole chain, the loop reverses it.
UnlockCollect(c) ==
    /\ pc[c] = "collect"
    /\ waiters' = Reversed(stack)
    /\ stack' = << >>
    /\ Goto(c, "handoff")
    /\ UNCHANGED <<state, old>>

\* Bug: the word is freed although the lock is handed on.
UnlockHandOff_Releases(c) ==
    /\ pc[c] = "handoff"
    /\ waiters' = Tail(waiters)
    /\ state' = "unlocked"
    /\ pc' = [pc EXCEPT ![c] = "idle", ![Head(waiters)] = "scheduled"]
    /\ UNCHANGED <<stack, old>>

\* Bug: waiters_ is reset, not advanced.
UnlockHandOff_DropsWaiters(c) ==
    /\ pc[c] = "handoff"
    /\ waiters' = << >>
    /\ pc' = [pc EXCEPT ![c] = "idle", ![Head(waiters)] = "scheduled"]
    /\ UNCHANGED <<state, stack, old>>

\* unlock(): pop waiters_ and schedule (or resume) its head, which now owns the mutex.
UnlockHandOff(c) ==
    /\ pc[c] = "handoff"
    /\ waiters' = Tail(waiters)
    /\ pc' = [pc EXCEPT ![c] = "idle", ![Head(waiters)] = "scheduled"]
    /\ UNCHANGED <<state, stack, old>>

\* The scheduled coroutine runs: await_resume(), lock held.
Resume(c) ==
    /\ pc[c] = "scheduled"
    /\ Goto(c, "holding")
    /\ UNCHANGED <<state, stack, waiters, old>>

\* The steps of a lock attempt that was started, and of the owner until it has unlocked.
Progress(c) ==
    \/ AsyncLockLoad(c)
    \/ AsyncLockTake(c)
    \/ AsyncLockPush(c)
    \/ AsyncLockRetry(c)
    \/ UnlockStart(c)
    \/ UnlockRelease(c)
    \/ UnlockCollect(c)
    \/ UnlockHandOff(c)
    \/ Resume(c)

Next == \E c \in Coros : TryLock(c) \/ AwaitSuspend(c) \/ Progress(c)

Spec == Init /\ [][Next]_vars

\* A coroutine that started to lock or holds the mutex keeps running: threads are scheduled,
\* and callers release what they lock (every use in the repository is a scoped_lock).
Fairness == \A c \in Coros : WF_vars(Progress(c))

FairSpec == Spec /\ Fairness

-----------------------------------------------------------------------------

Labels == {"idle", "load", "cas", "waiting", "scheduled", "holding",
           "release", "collect", "handoff"}

\* A coroutine owns the mutex from the step that gives it the lock until the step of
\* unlock() that frees the word or hands the lock on.
Owning == {"scheduled", "holding", "release", "collect", "handoff"}

\* Types of the state of the mutex.
TypeOK ==
    /\ state \in {"unlocked", "locked"}
    /\ stack \in Seq(Coros)
    /\ waiters \in Seq(Coros)
    /\ pc \in [Coros -> Labels]
    /\ old \in [Coros -> Coros \cup {Unlocked, Null}]

\* try_lock, asynclockImpl and unlock never let two coroutines own the mutex, counting
\* the waiter that unlock() has scheduled but that has not run yet.
MutualExclusion ==
    \A c, d \in Coros : pc[c] \in Owning /\ pc[d] \in Owning => c = d

\* The assertions of unlock() (lines 70, 87, 88 and 98) hold whenever they are reached.
UnlockAsserts ==
    \A c \in Coros :
        /\ pc[c] = "holding" => StatePtr /= Unlocked
        /\ pc[c] = "collect" => StatePtr \notin {Unlocked, Null}
        /\ pc[c] = "handoff" => waiters /= << >>

\* The coroutines queued on the mutex, the next to be resumed first.
Queue == waiters \o Reversed(stack)

\* Suspended coroutines and queued awaiters are the same, each queued once: a coroutine that
\* asynclockImpl suspended is never lost and an awaiter that has resumed (its frame may be
\* gone) is never reachable from state_ or waiters_.
NoLostWaiter ==
    /\ \A c \in Coros : pc[c] = "waiting" <=> \E i \in 1..Len(Queue) : Queue[i] = c
    /\ \A i, j \in 1..Len(Queue) : Queue[i] = Queue[j] => i = j

\* The inductive strengthening of the four invariants above.
QueueInv ==
    /\ \A i \in 1..Len(stack) : pc[stack[i]] = "waiting"
    /\ \A i \in 1..Len(waiters) : pc[waiters[i]] = "waiting"
    /\ \A i, j \in 1..Len(stack) : stack[i] = stack[j] => i = j
    /\ \A i, j \in 1..Len(waiters) : waiters[i] = waiters[j] => i = j
    /\ \A i \in 1..Len(stack), j \in 1..Len(waiters) : stack[i] /= waiters[j]
    /\ \A c \in Coros : pc[c] = "waiting" =>
            \/ \E i \in 1..Len(stack) : stack[i] = c
            \/ \E i \in 1..Len(waiters) : waiters[i] = c

OwnerInv ==
    /\ state = "locked" <=> \E c \in Coros : pc[c] \in Owning
    /\ state = "unlocked" => stack = << >> /\ waiters = << >>
    /\ \A c \in Coros :
        /\ pc[c] = "release" => waiters = << >>
        /\ pc[c] = "collect" => waiters = << >> /\ stack /= << >>
        /\ pc[c] = "handoff" => waiters /= << >>

\* MutualExclusion with what it rests on: the word is locked exactly when somebody owns the
\* mutex, and the two chains hold exactly the suspended coroutines.
IInv == TypeOK /\ MutualExclusion /\ OwnerInv /\ QueueInv

Owner ==
    IF \E c \in Coros : pc[c] \in Owning
    THEN CHOOSE c \in Coros : pc[c] \in Owning
    ELSE Null

Fifo == INSTANCE FifoLock WITH NoOwner <- Null, owner <- Owner, queue <- Queue

\* The mutex is a first-come first-served lock with direct hand-off: the order in which
\* awaiters got on state_ is the order in which unlock() resumes them, and nobody takes the
\* lock while a waiter is queued.
ImplementsFifoLock == Fifo!Spec

\* Every coroutine that asynclockImpl suspended is resumed with the lock.
EveryWaiterGetsLock == \A c \in Coros : pc[c] = "waiting" ~> pc[c] = "holding"
=============================================================================
