------------------------------ MODULE Coroutine ------------------------------
(***************************************************************************)
(* Coroutine frames and the objects that own them: Task, AsyncGenerator    *)
(* and Generator (include/nitrocoro/core/Task.h, Generator.h).             *)
(*                                                                         *)
(* A variable of type Task or AsyncGenerator lives in a frame and holds    *)
(* the handle of another one; when a frame goes, its variables go, and the *)
(* frames they hold.  `cur' is the coroutine that runs: symmetric transfer *)
(* makes it the awaited one and, at the end, the awaiting one.  A          *)
(* coroutine suspended for something else (I/O, a timer) is resumed by the *)
(* scheduler.  A Generator runs inside the call that resumes it.           *)
(***************************************************************************)
EXTENDS Naturals, Sequences

CONSTANTS Roots,     \* coroutines the scheduler runs
          Tasks,     \* coroutines that return a Task
          Async,     \* coroutines that return an AsyncGenerator
          Sync,      \* coroutines that return a Generator
          Slots,     \* variables that hold one of them
          None,
          MaxYield,  \* bound: values of a generator
          MaxAwaits  \* bound: times a task is awaited

VARIABLES frame,  \* per coroutine: where it is, its promise, and the exception or value it left
          slot,   \* per variable: the frame it lives in and the handle it holds
          cur,    \* the coroutine that runs
          ready,  \* handles the scheduler has been given to resume
          seen    \* history: per coroutine, what those who waited for it were given

vars == <<frame, slot, cur, ready, seen>>

Called == Tasks \union Async \union Sync
Frames == Roots \union Called

Undeclared == [in |-> None, handle |-> None, param |-> FALSE]

Init ==
    /\ frame = [f \in Frames |-> [st |-> IF f \in Roots THEN "suspended" ELSE "none",
                                  cont |-> None, value |-> 0, result |-> "none"]]
    /\ slot = [x \in Slots |-> Undeclared]
    /\ cur = None /\ ready = Roots
    /\ seen = [f \in Called |-> <<>>]

Alive(f)   == frame[f].st \notin {"none", "destroyed"}
Holder(f)  == {x \in Slots : slot[x].handle = f}
Mine(x)    == cur # None /\ slot[x].in = cur
Done(f)    == frame[f].st = "done"

-----------------------------------------------------------------------------
\* Ownership

\* The frames that go with those of S: what their variables hold, and so on
Doomed(S) ==
    LET Held(D) == {slot[x].handle : x \in {y \in Slots : slot[y].in \in D}} \ {None}
    IN  {f \in Frames : \A D \in SUBSET Frames : S \subseteq D /\ Held(D) \subseteq D => f \in D}

\* handle_.destroy(): the frames end, and so do the variables in them
Destroyed(fr, D) == [f \in Frames |-> IF f \in D THEN [fr[f] EXCEPT !.st = "destroyed"] ELSE fr[f]]
Without(sl, D)   == [x \in Slots |-> IF sl[x].in \in D THEN Undeclared ELSE sl[x]]

\* A call of a coroutine: get_return_object() puts the suspended frame into a variable of the caller
Call(x, f) ==
    /\ cur # None /\ slot[x].in = None /\ f \in Called /\ frame[f].st = "none"
    /\ slot' = [slot EXCEPT ![x] = [in |-> cur, handle |-> f, param |-> FALSE]]
    /\ frame' = [frame EXCEPT ![f].st = "created"]
    /\ UNCHANGED <<cur, ready, seen>>

\* ~Task(), ~AsyncGenerator(), ~Generator() of a variable of the running coroutine
Drop(x) ==
    LET D == IF slot[x].handle = None THEN {} ELSE Doomed({slot[x].handle})
    IN
    /\ Mine(x)
    /\ frame' = Destroyed(frame, D)
    /\ slot' = [Without(slot, D) EXCEPT ![x] = Undeclared]
    /\ UNCHANGED <<cur, ready, seen>>

\* Bug: the handle stays in the object it was moved from.
Emptied_Not(o) == o
Emptied(o)     == [o EXCEPT !.handle = None]

\* x = std::move(y), where x may be a variable that is only now declared
MoveAssign(x, y) ==
    LET old == slot[x].handle
        D   == IF old = None THEN {} ELSE Doomed({old})
    IN
    /\ Mine(y) /\ x # y /\ (Mine(x) \/ slot[x].in = None)
    /\ frame' = Destroyed(frame, D)
    /\ slot' = [Without(slot, D) EXCEPT ![x] = [in |-> cur, handle |-> slot[y].handle, param |-> @.param],
                                            ![y] = Emptied(@)]
    /\ UNCHANGED <<cur, ready, seen>>

\* A task given by value to a coroutine lives in the frame of that coroutine
GiveTo(x, f) ==
    /\ Mine(x) /\ slot[x].handle # f
    /\ frame[f].st = "created" /\ \E y \in Holder(f) : Mine(y)
    /\ slot' = [slot EXCEPT ![x] = [@ EXCEPT !.in = f, !.param = TRUE]]
    /\ UNCHANGED <<frame, cur, ready, seen>>

-----------------------------------------------------------------------------
\* Awaiting

\* What one who waits is given: how the coroutine ended, or an item it yielded
Ended(how) == [how |-> how, item |-> 0]
Item(i)    == [how |-> "item", item |-> i]

\* What await_resume() of a task makes of the promise: the exception or the value
\* Bug: result() looks at the value only.
TaskOutcome_Value(p) == Ended("value")
TaskOutcome(p)       == Ended(p.result)

\* What NextAwaiter::await_resume() makes of it
NextOutcome(p) == IF p.result = "exception" THEN Ended("exception")
                  ELSE IF p.st = "done" THEN Ended("end") ELSE Item(p.value)

Outcome(f, p) == IF f \in Tasks THEN TaskOutcome(p) ELSE NextOutcome(p)

\* co_await of a Task.  A finished one gives its result at once.  NextAwaiter is never ready, so a
\* generator that is done must not be asked again: the consumer stops at nullopt or an exception.
Await(x) ==
    LET f == slot[x].handle
    IN
    /\ Mine(x) /\ f \in Tasks \union Async
    /\ IF f \in Tasks /\ Done(f)
       THEN /\ Len(seen[f]) < MaxAwaits
            /\ seen' = [seen EXCEPT ![f] = Append(@, TaskOutcome(frame[f]))]
            /\ UNCHANGED <<frame, cur>>
       ELSE /\ frame[f].st \in {"created", "yielded"}
            /\ frame' = [frame EXCEPT ![f].cont = cur, ![f].st = "running", ![cur].st = "awaiting"]
            /\ cur' = f
            /\ UNCHANGED seen
    /\ UNCHANGED <<slot, ready>>

\* Control goes back to the coroutine that waits for f, which gets the outcome; none waits for a root
Transfer(fr, f) ==
    LET c == fr[f].cont
    IN  /\ cur' = c
        /\ frame' = IF c = None THEN fr ELSE [fr EXCEPT ![c].st = "running"]
        /\ seen' = IF c = None THEN seen ELSE [seen EXCEPT ![f] = Append(@, Outcome(f, fr[f]))]

\* co_yield of an AsyncGenerator: YieldAwaiter
Yield ==
    /\ cur \in Async /\ frame[cur].value < MaxYield
    /\ Transfer([frame EXCEPT ![cur].st = "yielded", ![cur].value = @ + 1], cur)
    /\ UNCHANGED <<slot, ready>>

\* Bug: final_suspend() goes back to the scheduler.
Final_Noop(fr, f) == cur' = None /\ frame' = fr /\ UNCHANGED seen
Final(fr, f)      == Transfer(fr, f)

\* The body ends, with a value or an unhandled exception.  Its variables are destroyed before
\* final_suspend(), its parameters with the frame.
Finish(f, r) ==
    LET locals == {x \in Slots : slot[x].in = f /\ ~slot[x].param}
        D      == Doomed({slot[x].handle : x \in locals} \ {None})
    IN
    /\ cur = f
    /\ Final(Destroyed([frame EXCEPT ![f] = [@ EXCEPT !.st = "done", !.result = r]], D), f)
    /\ slot' = [x \in Slots |-> IF x \in locals THEN Undeclared ELSE Without(slot, D)[x]]
    /\ UNCHANGED ready

\* The coroutine waits for something else and is resumed by the scheduler
Suspend ==
    /\ cur # None
    /\ frame' = [frame EXCEPT ![cur].st = "suspended"]
    /\ cur' = None /\ ready' = ready \union {cur}
    /\ UNCHANGED <<slot, seen>>

Resume(f) ==
    /\ cur = None /\ f \in ready
    /\ frame' = [frame EXCEPT ![f].st = "running"]
    /\ cur' = f /\ ready' = ready \ {f}
    /\ UNCHANGED <<slot, seen>>

-----------------------------------------------------------------------------
\* Generator: begin() and ++ resume the body, which yields, returns or throws

\* What begin() and operator++ make of a body that has ended: begin() looks at done() first
BeginOutcome(r) == Ended("end")
NextIteration(r) == Ended(IF r = "exception" THEN "exception" ELSE "end")

Pull(x) ==
    LET f == slot[x].handle
        first == frame[f].st = "created"
    IN
    /\ Mine(x) /\ f \in Sync /\ frame[f].st \in {"created", "yielded"}
    /\ \/ /\ frame[f].value < MaxYield
          /\ frame' = [frame EXCEPT ![f].st = "yielded", ![f].value = @ + 1]
          /\ seen' = [seen EXCEPT ![f] = Append(@, Item(frame[f].value + 1))]
       \/ \E r \in {"value", "exception"} :
            /\ frame' = [frame EXCEPT ![f].st = "done", ![f].result = r]
            /\ seen' = [seen EXCEPT ![f] = Append(@, IF first THEN BeginOutcome(r) ELSE NextIteration(r))]
    /\ UNCHANGED <<slot, cur, ready>>

Ends(f) == \E r \in {"value", "exception"} : Finish(f, r)

Next ==
    \/ Yield \/ Suspend
    \/ \E f \in Frames : Resume(f) \/ Ends(f)
    \/ \E x \in Slots : \/ Drop(x) \/ Await(x) \/ Pull(x)
                        \/ \E f \in Called : Call(x, f) \/ GiveTo(x, f)
                        \/ \E y \in Slots : MoveAssign(x, y)

Spec == Init /\ [][Next]_vars

-----------------------------------------------------------------------------
\* Every frame is owned by one object, and that object is alive, so that a frame is destroyed once
\* and never leaked; and every handle that will be resumed (the scheduler's, and the continuation_
\* or consumer_ of a coroutine on its way) belongs to a coroutine that is suspended there.
HandlesLive ==
    /\ \A f \in Called : /\ Alive(f) <=> Holder(f) # {}
                         /\ \A x, y \in Holder(f) : x = y
                         /\ \A x \in Holder(f) : Alive(slot[x].in)
    /\ \A f \in ready : frame[f].st = "suspended"
    /\ \A f \in Called : frame[f].st \in {"running", "suspended", "awaiting"} => frame[frame[f].cont].st = "awaiting"

\* "Exceptions thrown inside a Task propagate to the awaiting coroutine" (core_test.cc:22) and
\* "Exceptions thrown inside an AsyncGenerator propagate to the consumer" (:149): whoever awaited a
\* coroutine that has ended was told how it ended, and before that got its values in order.
OutcomeDelivered ==
    \A f \in Tasks \union Async :
        /\ Done(f) => /\ seen[f] # <<>>
                      /\ seen[f][Len(seen[f])] = Ended(IF f \in Async /\ frame[f].result = "value"
                                                       THEN "end" ELSE frame[f].result)
        /\ f \in Async => \A i \in 1..frame[f].value : seen[f][i] = Item(i)

\* final_suspend() of a task and co_yield of a generator give control back: a coroutine that awaits
\* goes on, if what is suspended is resumed and every body ends.
Due(f) == frame[f].st = "awaiting"
AwaiterGoesOn == \A f \in Frames : Due(f) ~> ~Due(f)

\* "Exceptions thrown inside a generator propagate to the range-for caller" (core_test.cc:99)
GeneratorThrows ==
    \A f \in Sync : frame[f].result = "exception" => seen[f][Len(seen[f])] = Ended("exception")
=============================================================================
