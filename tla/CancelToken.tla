----------------------------- MODULE CancelToken -----------------------------
(***************************************************************************)
(* Cooperative cancellation (include/nitrocoro/core/CancelToken.h): one    *)
(* CancelState shared by sources and tokens, callbacks registered with     *)
(* onCancel() and coroutines that await cancelled().                       *)
(*                                                                         *)
(* Each thread is the thread of one scheduler, or has none.  A callback    *)
(* belongs to the thread that registers it.  Between two calls a thread    *)
(* takes closures from its scheduler's ready queue, once run() has been    *)
(* entered.  waiters_ is a one-shot list whose push and close are one step *)
(* each, as Future checks of LockFreeList.h.  A call of cancel() on a      *)
(* cancelled state returns at once and is left out.                        *)
(***************************************************************************)
EXTENDS Naturals, Sequences

CONSTANTS Threads,
          Callbacks,
          NoCallback,   \* not a callback
          Home,         \* the thread of each callback
          NoScheduler,  \* threads without a scheduler: Scheduler::current() is null
          Waiters       \* coroutines that co_await cancelled()

VARIABLES cancelled,  \* "yes": waiters_ is closed
          waiters,    \* the coroutines in waiters_
          callbacks,  \* callbacks_, guarded by cbMutex_
          active,     \* the atomic_flag of each callback: "clear" or "set"
          reg,        \* the CancelRegistration of each callback
          fired,      \* how often fn was called
          inRun,      \* "yes": run() of the thread's scheduler has been entered
          ready,      \* its ready queue: closures [cb, checks]
          place,      \* where each thread is in cancel()
          cbs,        \* the local cbs of that call
          heads,      \* the waiters it took
          exec,       \* the callback whose fn the thread is in
          wpc         \* where each waiter is

cancelVars == <<cancelled, waiters, callbacks, active, reg, fired, inRun, ready, place, cbs, heads, exec, wpc>>
callVars == <<place, cbs, heads>>

CancelInit ==
    /\ cancelled = "no" /\ waiters = {} /\ callbacks = << >>
    /\ active = [c \in Callbacks |-> "clear"]
    /\ reg = [c \in Callbacks |-> "none"]
    /\ fired = [c \in Callbacks |-> 0]
    /\ inRun = [t \in Threads |-> "no"]
    /\ ready = [t \in Threads |-> << >>]
    /\ place = [t \in Threads |-> "idle"]
    /\ cbs = [t \in Threads |-> << >>]
    /\ heads = [t \in Threads |-> {}]
    /\ exec = [t \in Threads |-> NoCallback]
    /\ wpc = [w \in Waiters |-> "start"]

Idle(t) == place[t] = "idle" /\ exec[t] = NoCallback

\* Scheduler::run() of thread t is entered.
EnterRun(t) ==
    /\ Idle(t) /\ t \notin NoScheduler /\ inRun[t] = "no"
    /\ inRun' = [inRun EXCEPT ![t] = "yes"]
    /\ UNCHANGED <<cancelled, waiters, callbacks, active, reg, fired, ready, callVars, exec, wpc>>

\* Thread t calls fn of c.
Call(t, c) ==
    /\ fired' = [fired EXCEPT ![c] = @ + 1]
    /\ exec' = [exec EXCEPT ![t] = c]

\* Bug: the flag is not tested, so a callback that was unregistered is called.
CallIfActive_Always(t, c) == Call(t, c) /\ active' = [active EXCEPT ![c] = "set"]

\* if (!active->test_and_set()) fn().
CallIfActive(t, c) ==
    /\ active' = [active EXCEPT ![c] = "set"]
    /\ \/ active[c] = "clear" /\ Call(t, c)
       \/ active[c] = "set" /\ UNCHANGED <<fired, exec>>

\* fn returns.
FnEnd(t) ==
    /\ exec[t] /= NoCallback
    /\ exec' = [exec EXCEPT ![t] = NoCallback]
    /\ UNCHANGED <<cancelled, waiters, callbacks, active, reg, fired, inRun, ready, callVars, wpc>>

\* A closure for c is put in the ready queue of its thread.
Enqueue(c, checks) ==
    ready' = [ready EXCEPT ![Home[c]] = Append(@, [cb |-> c, checks |-> checks])]

\* Thread t calls a closure for c in place: c has no scheduler, or it is t's own (dispatch()).
InPlace(t, c) == Home[c] \in NoScheduler \/ (Home[c] = t /\ inRun[t] = "yes")

-----------------------------------------------------------------------------
\* onCancel() and CancelRegistration, on the thread of the callback.

\* Bug: isCancelled() is not tested under cbMutex_.
AddCallback_Unchecked(c) ==
    /\ Idle(Home[c]) /\ reg[c] = "none"
    /\ callbacks' = Append(callbacks, c)
    /\ reg' = [reg EXCEPT ![c] = "held"]
    /\ UNCHANGED <<cancelled, waiters, active, fired, inRun, ready, callVars, exec, wpc>>

\* Bug: the callback is stored although it was dispatched: the early return is missing.
AddCallback_NoReturn(c) ==
    /\ Idle(Home[c]) /\ reg[c] = "none"
    /\ callbacks' = Append(callbacks, c)
    /\ reg' = [reg EXCEPT ![c] = "held"]
    /\ \/ cancelled = "yes" /\ InPlace(Home[c], c) /\ Call(Home[c], c) /\ UNCHANGED ready
       \/ cancelled = "yes" /\ ~InPlace(Home[c], c) /\ Enqueue(c, "no") /\ UNCHANGED <<fired, exec>>
       \/ cancelled = "no" /\ UNCHANGED <<fired, exec, ready>>
    /\ UNCHANGED <<cancelled, waiters, active, inRun, callVars, wpc>>

\* addCallback(): under cbMutex_ the callback is stored unless the state is cancelled; then its
\* closure, which checks no flag, is dispatched and the registration is empty.
AddCallback(c) ==
    /\ Idle(Home[c]) /\ reg[c] = "none"
    /\ \/ /\ cancelled = "no"
          /\ callbacks' = Append(callbacks, c)
          /\ reg' = [reg EXCEPT ![c] = "held"]
          /\ UNCHANGED <<fired, exec, ready>>
       \/ /\ cancelled = "yes"
          /\ reg' = [reg EXCEPT ![c] = "empty"]
          /\ \/ InPlace(Home[c], c) /\ Call(Home[c], c) /\ UNCHANGED ready
             \/ ~InPlace(Home[c], c) /\ Enqueue(c, "no") /\ UNCHANGED <<fired, exec>>
          /\ UNCHANGED callbacks
    /\ UNCHANGED <<cancelled, waiters, active, inRun, callVars, wpc>>

\* ~CancelRegistration(), unregister().
Unregister(c) ==
    /\ Idle(Home[c]) /\ reg[c] \in {"held", "empty"}
    /\ active' = [active EXCEPT ![c] = IF reg[c] = "held" THEN "set" ELSE @]
    /\ reg' = [reg EXCEPT ![c] = IF @ = "held" THEN "unregistered" ELSE "dropped"]
    /\ UNCHANGED <<cancelled, waiters, callbacks, fired, inRun, ready, callVars, exec, wpc>>

\* The defaulted move assignment to a registration replaces its pointer and sets no flag.
AssignOver(c) ==
    /\ Idle(Home[c]) /\ reg[c] \in {"held", "empty"}
    /\ reg' = [reg EXCEPT ![c] = "overwritten"]
    /\ UNCHANGED <<cancelled, waiters, callbacks, active, fired, inRun, ready, callVars, exec, wpc>>

-----------------------------------------------------------------------------
\* cancel(), on any thread, also at the end of a cancelAfter().

\* close(): the first caller takes the waiters.
CancelClose(t) ==
    /\ Idle(t) /\ cancelled = "no"
    /\ cancelled' = "yes"
    /\ heads' = [heads EXCEPT ![t] = waiters]
    /\ waiters' = {}
    /\ place' = [place EXCEPT ![t] = "swap"]
    /\ UNCHANGED <<callbacks, active, reg, fired, inRun, ready, cbs, exec, wpc>>

\* cbs.swap(callbacks_) under cbMutex_.
CancelSwap(t) ==
    /\ place[t] = "swap"
    /\ cbs' = [cbs EXCEPT ![t] = callbacks]
    /\ callbacks' = << >>
    /\ place' = [place EXCEPT ![t] = "fire"]
    /\ UNCHANGED <<cancelled, waiters, active, reg, fired, inRun, ready, heads, exec, wpc>>

\* Bug: the callback is called on the thread of cancel(), whatever its scheduler.
CancelFire_InPlace(t) ==
    /\ place[t] = "fire" /\ exec[t] = NoCallback /\ cbs[t] /= << >>
    /\ CallIfActive(t, Head(cbs[t]))
    /\ cbs' = [cbs EXCEPT ![t] = Tail(@)]
    /\ UNCHANGED <<cancelled, waiters, callbacks, reg, inRun, ready, place, heads, wpc>>

\* One round of the loop over cbs.
CancelFire(t) ==
    /\ place[t] = "fire" /\ exec[t] = NoCallback /\ cbs[t] /= << >>
    /\ LET c == Head(cbs[t])
       IN  \/ InPlace(t, c) /\ CallIfActive(t, c) /\ UNCHANGED ready
           \/ ~InPlace(t, c) /\ Enqueue(c, "yes") /\ UNCHANGED <<active, fired, exec>>
    /\ cbs' = [cbs EXCEPT ![t] = Tail(@)]
    /\ UNCHANGED <<cancelled, waiters, callbacks, reg, inRun, place, heads, wpc>>

\* One round of the loop over the waiters.
CancelResume(t) ==
    /\ place[t] = "fire" /\ exec[t] = NoCallback /\ cbs[t] = << >>
    /\ \E w \in heads[t] :
        /\ heads' = [heads EXCEPT ![t] = @ \ {w}]
        /\ wpc' = [wpc EXCEPT ![w] = "scheduled"]
    /\ UNCHANGED <<cancelled, waiters, callbacks, active, reg, fired, inRun, ready, place, cbs, exec>>

CancelEnd(t) ==
    /\ place[t] = "fire" /\ exec[t] = NoCallback /\ cbs[t] = << >> /\ heads[t] = {}
    /\ place' = [place EXCEPT ![t] = "idle"]
    /\ UNCHANGED <<cancelled, waiters, callbacks, active, reg, fired, inRun, ready, cbs, heads, exec, wpc>>

\* process_ready_queue() of thread t takes a closure.
RunClosure(t) ==
    /\ Idle(t) /\ inRun[t] = "yes" /\ ready[t] /= << >>
    /\ LET f == Head(ready[t])
       IN  \/ f.checks = "yes" /\ CallIfActive(t, f.cb)
           \/ f.checks = "no" /\ Call(t, f.cb) /\ UNCHANGED active
    /\ ready' = [ready EXCEPT ![t] = Tail(@)]
    /\ UNCHANGED <<cancelled, waiters, callbacks, reg, inRun, callVars, wpc>>

-----------------------------------------------------------------------------
\* co_await cancelled().

\* Bug: await_suspend() does not look whether the list is closed.
Await_IgnoresClosed(w) ==
    /\ wpc[w] = "start"
    /\ waiters' = waiters \cup {w}
    /\ wpc' = [wpc EXCEPT ![w] = "suspended"]
    /\ UNCHANGED <<cancelled, callbacks, active, reg, fired, inRun, ready, callVars, exec>>

\* await_ready() and push(), whose answer decides.
Await(w) ==
    /\ wpc[w] = "start"
    /\ \/ cancelled = "yes" /\ wpc' = [wpc EXCEPT ![w] = "done"] /\ UNCHANGED waiters
       \/ /\ cancelled = "no"
          /\ waiters' = waiters \cup {w}
          /\ wpc' = [wpc EXCEPT ![w] = "suspended"]
    /\ UNCHANGED <<cancelled, callbacks, active, reg, fired, inRun, ready, callVars, exec>>

\* The scheduled coroutine goes on.
AwaitResume(w) ==
    /\ wpc[w] = "scheduled"
    /\ wpc' = [wpc EXCEPT ![w] = "done"]
    /\ UNCHANGED <<cancelled, waiters, callbacks, active, reg, fired, inRun, ready, callVars, exec>>

-----------------------------------------------------------------------------
ThreadStep(t) ==
    CancelSwap(t) \/ CancelFire(t) \/ CancelResume(t) \/ CancelEnd(t) \/ FnEnd(t) \/ RunClosure(t)

CancelNext ==
    \/ \E t \in Threads : ThreadStep(t) \/ EnterRun(t) \/ CancelClose(t)
    \/ \E c \in Callbacks : AddCallback(c) \/ Unregister(c) \/ AssignOver(c)
    \/ \E w \in Waiters : Await(w) \/ AwaitResume(w)

CancelSpec == CancelInit /\ [][CancelNext]_cancelVars

\* Threads go on with what they are in, loops are entered, scheduled coroutines run.
CancelFairness ==
    /\ \A t \in Threads : WF_cancelVars(ThreadStep(t)) /\ WF_cancelVars(EnterRun(t))
    /\ \A w \in Waiters : WF_cancelVars(AwaitResume(w))

FairCancelSpec == CancelSpec /\ CancelFairness

-----------------------------------------------------------------------------
\* Types of the state of a CancelState and its users.
CancelTypeOK ==
    /\ cancelled \in {"yes", "no"}
    /\ waiters \subseteq Waiters
    /\ callbacks \in Seq(Callbacks)
    /\ active \in [Callbacks -> {"clear", "set"}]
    /\ reg \in [Callbacks -> {"none", "held", "empty", "unregistered", "dropped", "overwritten"}]
    /\ fired \in [Callbacks -> Nat]
    /\ inRun \in [Threads -> {"yes", "no"}]
    /\ ready \in [Threads -> Seq([cb : Callbacks, checks : {"yes", "no"}])]
    /\ place \in [Threads -> {"idle", "swap", "fire"}]
    /\ cbs \in [Threads -> Seq(Callbacks)]
    /\ heads \in [Threads -> SUBSET Waiters]
    /\ exec \in [Threads -> Callbacks \cup {NoCallback}]
    /\ wpc \in [Waiters -> {"start", "suspended", "scheduled", "done"}]

\* tests/cancel_test.cc:36, "must not crash or double-fire": however cancel(), onCancel() and
\* the loops interleave, a callback is called at most once.  The state is well typed.
AtMostOnce == CancelTypeOK /\ \A c \in Callbacks : fired[c] <= 1

\* tests/cancel_test.cc:55: "onCancel callback is NOT invoked after CancelRegistration is
\* destroyed", and is not under way then either: for a registration that held a callback of a
\* thread with a scheduler.
NotAfterUnregister ==
    \A t \in Threads : exec[t] /= NoCallback /\ Home[exec[t]] \notin NoScheduler
                           => reg[exec[t]] /= "unregistered"

\* A callback that captures objects of its thread runs on that thread only (dispatch(),
\* CancelToken.h:68), unless that thread has no scheduler.
RunsAtHome ==
    \A t \in Threads : exec[t] /= NoCallback => Home[exec[t]] \in {t} \cup NoScheduler

\* Every callback is called after a cancellation, unless unregister() came before: none falls
\* between the test of isCancelled() in onCancel() and the swap in cancel().
CallbackDue(c) == cancelled = "yes" /\ reg[c] /= "none"
CallbackOver(c) == fired[c] > 0 \/ reg[c] = "unregistered"
EveryCallbackFires == \A c \in Callbacks : CallbackDue(c) ~> CallbackOver(c)

\* tests/cancel_test.cc:118: "Multiple coroutines awaiting cancelled() are all resumed".
WaiterDue(w) == cancelled = "yes" /\ wpc[w] = "suspended"
WaiterOver(w) == wpc[w] = "done"
EveryWaiterResumes == \A w \in Waiters : WaiterDue(w) ~> WaiterOver(w)

\* CancelToken: a callback runs at most once, on the thread of its scheduler, and not after its
\* registration was destroyed.
CancelSafe == AtMostOnce /\ NotAfterUnregister /\ RunsAtHome
=============================================================================
