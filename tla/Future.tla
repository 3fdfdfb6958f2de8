------------------------------- MODULE Future -------------------------------
(***************************************************************************)
(* Promise, Future and SharedFuture (include/nitrocoro/core/Future.h) over *)
(* the one-shot list of LockFreeList.h: waiters push themselves on a       *)
(* lock-free stack until the promise closes it, stores its result and      *)
(* resumes them.                                                           *)
(*                                                                         *)
(* A waiter is one co_await of the future; its node lives in the awaiter   *)
(* and dies when the co_await is over.  Setters are calls of set_value()   *)
(* and set_exception() on the promise, from any thread.  A waiter that     *)
(* resumeAll() hands to the scheduler, or resumes in place when there is   *)
(* none, runs at any later time: in place is "at once".  The stores of     *)
(* close() and of the result are separate steps, and a result read before  *)
(* the store is the empty one.                                             *)
(***************************************************************************)

CONSTANTS Waiters,  \* co_awaits of the future
          Setters,  \* calls of set_value() and set_exception()
          Dtor,     \* the destruction of the promise
          Null, Closed

VARIABLES head,     \* waiters_
          next,     \* next_ of each node
          live,     \* nodes whose co_await is not over
          result,   \* exception_ and value_: "empty", "value", "exception" or "broken"
          wpc,      \* where each co_await is
          cur,      \* the local cur of its push()
          got,      \* what its await_resume() saw
          spc,      \* where each setter, and the destructor, is
          n         \* the node that its resumeAll() has come to

vars == <<head, next, live, result, wpc, cur, got, spc, n>>
waiterVars == <<next, live, wpc, cur, got>>

Callers == Setters \cup {Dtor}

Init ==
    /\ head = Null
    /\ next = [w \in Waiters |-> Null]
    /\ live = Waiters
    /\ result = "empty"
    /\ wpc = [w \in Waiters |-> "start"]
    /\ cur = [w \in Waiters |-> Null]
    /\ got = [w \in Waiters |-> "nothing"]
    /\ spc = [s \in Callers |-> "idle"]
    /\ n = [s \in Callers |-> Null]

-----------------------------------------------------------------------------
\* A co_await.

\* await_ready().
AwaitReady(w) ==
    /\ wpc[w] = "start"
    /\ wpc' = [wpc EXCEPT ![w] = IF head = Closed THEN "resume" ELSE "load"]
    /\ UNCHANGED <<head, next, live, result, cur, got, spc, n>>

\* LockFreeListNode::push, the load.
PushLoad(w) ==
    /\ wpc[w] = "load"
    /\ cur' = [cur EXCEPT ![w] = head]
    /\ wpc' = [wpc EXCEPT ![w] = "push"]
    /\ UNCHANGED <<head, next, live, result, got, spc, n>>

\* push() finds the list closed: await_suspend() returns false, the coroutine goes on.
PushClosed(w) ==
    /\ wpc[w] = "push"
    /\ cur[w] = Closed
    /\ wpc' = [wpc EXCEPT ![w] = "resume"]
    /\ UNCHANGED <<head, next, live, result, cur, got, spc, n>>

\* Bug: the head is stored, whatever it is by now.
PushCas_PlainStore(w) ==
    /\ wpc[w] = "push"
    /\ cur[w] /= Closed
    /\ next' = [next EXCEPT ![w] = cur[w]]
    /\ head' = w
    /\ wpc' = [wpc EXCEPT ![w] = "suspended"]
    /\ UNCHANGED <<live, result, cur, got, spc, n>>

\* One round of push(): next_ = cur and the compare-exchange, which may fail without reason.
PushCas(w) ==
    /\ wpc[w] = "push"
    /\ cur[w] /= Closed
    /\ next' = [next EXCEPT ![w] = cur[w]]
    /\ \/ /\ head = cur[w]
          /\ head' = w
          /\ wpc' = [wpc EXCEPT ![w] = "suspended"]
          /\ UNCHANGED cur
       \/ /\ cur' = [cur EXCEPT ![w] = head]
          /\ UNCHANGED <<head, wpc>>
    /\ UNCHANGED <<live, result, got, spc, n>>

\* await_resume(), after which the awaiter and its node are destroyed.
AwaitResume(w) ==
    /\ wpc[w] \in {"resume", "scheduled"}
    /\ got' = [got EXCEPT ![w] = result]
    /\ wpc' = [wpc EXCEPT ![w] = IF wpc[w] = "resume" THEN "done" ELSE "woken"]
    /\ live' = live \ {w}
    /\ UNCHANGED <<head, next, result, cur, spc, n>>

-----------------------------------------------------------------------------
\* set_value() and set_exception().

\* The promise is there to be called: its destructor has not been entered, or is the caller.
CanClose(s) ==
    \/ s \in Setters /\ spc[s] = "idle" /\ spc[Dtor] = "idle"
    \/ s = Dtor /\ spc[s] = "close"

\* Bug: close() does not tell whether the list was closed before.
Close_AlwaysWins(s) ==
    /\ CanClose(s)
    /\ head' = Closed
    /\ n' = [n EXCEPT ![s] = IF head = Closed THEN Null ELSE head]
    /\ spc' = [spc EXCEPT ![s] = "store"]
    /\ UNCHANGED <<waiterVars, result>>

\* LockFreeListNode::close and the test for promise_already_satisfied.
Close(s) ==
    /\ CanClose(s)
    /\ head' = Closed
    /\ \/ head = Closed /\ spc' = [spc EXCEPT ![s] = "threw"] /\ UNCHANGED n
       \/ head /= Closed /\ spc' = [spc EXCEPT ![s] = "store"] /\ n' = [n EXCEPT ![s] = head]
    /\ UNCHANGED <<waiterVars, result>>

\* What the caller stores.
ResultOf(s) == IF s = Dtor THEN {"broken"} ELSE {"value", "exception"}

\* Bug: the waiters are resumed before the result is there.
Store_Late(s) ==
    /\ spc[s] = "store"
    /\ \/ n[s] = Null /\ \E r \in ResultOf(s) : result' = r
       \/ n[s] /= Null /\ UNCHANGED result
    /\ spc' = [spc EXCEPT ![s] = "resumeAll"]
    /\ UNCHANGED <<head, waiterVars, n>>

\* The store of value_ or exception_.
Store(s) ==
    /\ spc[s] = "store"
    /\ \E r \in ResultOf(s) : result' = r
    /\ spc' = [spc EXCEPT ![s] = "resumeAll"]
    /\ UNCHANGED <<head, waiterVars, n>>

\* Bug: next_ is read after the waiter was scheduled, when its node may be gone.
ResumeOne_ReadsLate(s) ==
    /\ spc[s] = "resumeAll"
    /\ n[s] /= Null
    /\ \/ /\ wpc[n[s]] = "suspended"
          /\ wpc' = [wpc EXCEPT ![n[s]] = "scheduled"]
          /\ UNCHANGED n
       \/ /\ wpc[n[s]] /= "suspended"
          /\ n' = [n EXCEPT ![s] = next[n[s]]]
          /\ UNCHANGED wpc
    /\ UNCHANGED <<head, next, live, result, cur, got, spc>>

\* One round of resumeAll(): next_ is read before the waiter is scheduled.
ResumeOne(s) ==
    /\ spc[s] = "resumeAll"
    /\ n[s] /= Null
    /\ wpc' = [wpc EXCEPT ![n[s]] = "scheduled"]
    /\ n' = [n EXCEPT ![s] = next[n[s]]]
    /\ UNCHANGED <<head, next, live, result, cur, got, spc>>

ResumeEnd(s) ==
    /\ spc[s] = "resumeAll"
    /\ n[s] = Null
    /\ spc' = [spc EXCEPT ![s] = "returned"]
    /\ UNCHANGED <<head, waiterVars, result, n>>

\* No call is inside the promise, which its owner may destroy.
Quiet == spc[Dtor] = "idle" /\ \A s \in Setters : spc[s] \in {"idle", "threw", "returned"}

\* Bug: the destructor does not break the promise.
Destroy_Silent ==
    /\ Quiet
    /\ spc' = [spc EXCEPT ![Dtor] = "returned"]
    /\ UNCHANGED <<head, waiterVars, result, n>>

\* ~Promise(): set_exception(broken_promise) follows unless the list is closed.
Destroy ==
    /\ Quiet
    /\ spc' = [spc EXCEPT ![Dtor] = IF head = Closed THEN "returned" ELSE "close"]
    /\ UNCHANGED <<head, waiterVars, result, n>>

-----------------------------------------------------------------------------
WaiterStep(w) == AwaitReady(w) \/ PushLoad(w) \/ PushClosed(w) \/ PushCas(w) \/ AwaitResume(w)
SetterStep(s) == Store(s) \/ ResumeOne(s) \/ ResumeEnd(s)

Next ==
    \/ \E w \in Waiters : WaiterStep(w)
    \/ \E s \in Callers : Close(s) \/ SetterStep(s)
    \/ Destroy

Spec == Init /\ [][Next]_vars

\* Coroutines that can run do, a setter that has started goes on, the promise is destroyed.
\* A compare-exchange does not fail for ever without reason.
Fairness ==
    /\ \A w \in Waiters : WF_vars(WaiterStep(w)) /\ SF_vars(PushCas(w) /\ head' = w)
    /\ \A s \in Callers : WF_vars(SetterStep(s))
    /\ WF_vars(Destroy) /\ WF_vars(Close(Dtor))

FairSpec == Spec /\ Fairness

-----------------------------------------------------------------------------
Results == {"empty", "value", "exception", "broken"}

\* Types of the state of a promise and its futures.
TypeOK ==
    /\ head \in Waiters \cup {Null, Closed}
    /\ next \in [Waiters -> Waiters \cup {Null}]
    /\ live \subseteq Waiters
    /\ result \in Results
    /\ wpc \in [Waiters -> {"start", "load", "push", "suspended", "scheduled", "resume", "woken", "done"}]
    /\ cur \in [Waiters -> Waiters \cup {Null, Closed}]
    /\ got \in [Waiters -> Results \cup {"nothing"}]
    /\ spc \in [Callers -> {"idle", "close", "threw", "store", "resumeAll", "returned"}]
    /\ n \in [Callers -> Waiters \cup {Null}]

\* The nodes from node m on, along the links nx: the smallest set with m that the links do not leave.
Follows(nx, m, D) == (m \in Waiters => m \in D) /\ \A d \in D : nx[d] \in Waiters => nx[d] \in D
Chain(nx, m) == {w \in Waiters : \A D \in SUBSET Waiters : Follows(nx, m, D) => w \in D}

\* The list that waiters_ or resumeAll() holds.
Reachable(m) == Chain(next, m)

\* resumeAll() walks over nodes whose co_await is still suspended, so it neither reads a node
\* that was destroyed nor resumes a coroutine twice (Future.h:41: next_ is read first).
\* The state is well typed.
WalksLiveNodes ==
    TypeOK /\ \A s \in Callers : \A w \in Reachable(n[s]) : w \in live /\ wpc[w] = "suspended"

\* Every suspended co_await is in the list or ahead of resumeAll(): none can be forgotten.
SuspendedIsListed ==
    \A w \in Waiters : wpc[w] = "suspended" =>
        w \in Reachable(head) \cup UNION {Reachable(n[s]) : s \in Callers}

\* A co_await that was suspended and resumed sees the result, never the empty one: set_value()
\* stores before it resumes.
WokenSeesResult == \A w \in Waiters : wpc[w] = "woken" => got[w] /= "empty"

\* The result is stored once: later calls of set_value() and set_exception(), and the
\* destructor, find the list closed.
ResultStays == result /= "empty" => result' = result
ResultIsFinal == [][ResultStays]_vars

\* Every co_await ends, at the latest when the promise is destroyed.
Over(w) == wpc[w] \in {"woken", "done"}
EveryWaiterResumes == \A w \in Waiters : <>Over(w)

\* tests/sync_test.cc:15: "A value set by Promise is received by the awaiting Future": every
\* co_await that ends has a result.
AwaitSeesResult == \A w \in Waiters : got[w] /= "empty"
=============================================================================
