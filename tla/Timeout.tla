------------------------------- MODULE Timeout -------------------------------
(***************************************************************************)
(* withTimeout() (include/nitrocoro/core/Timeout.h), nested: the awaitable *)
(* of level i is a withTimeout() of level i + 1, that of the last level an *)
(* operation that may succeed, fail or never end.  Each level spawns an    *)
(* inner coroutine and a timer that race for done_; inner and timer may be *)
(* on different threads, since the operation may switch schedulers.        *)
(* Deadlines are not compared: a timer may fire at any time once it        *)
(* sleeps.  The store of timed_out_ and schedule() follow the exchange in  *)
(* a step of their own.                                                    *)
(***************************************************************************)
EXTENDS Naturals

CONSTANT Depth  \* number of levels

Levels == 1 .. Depth

VARIABLES caller,  \* state of the coroutine that awaits each level
          done,    \* done_
          timedOut,\* timed_out_
          stored,  \* value_ and exception_: "empty", "value", "exception"
          inner,   \* where timeoutInner is
          timer,   \* where timeoutTimer is
          queued,  \* how often the caller was scheduled and not resumed yet
          result   \* what await_resume() returned or threw

vars == <<caller, done, timedOut, stored, inner, timer, queued, result>>

Init ==
    /\ caller = [i \in Levels |-> "running"]
    /\ done = [i \in Levels |-> "no"]
    /\ timedOut = [i \in Levels |-> "no"]
    /\ stored = [i \in Levels |-> "empty"]
    /\ inner = [i \in Levels |-> "none"]
    /\ timer = [i \in Levels |-> "none"]
    /\ queued = [i \in Levels |-> 0]
    /\ result = [i \in Levels |-> "none"]

\* The coroutine that awaits level i has got there.
CanAwait(i) == caller[i] = "running" /\ (i > 1 => inner[i - 1] = "spawned")

\* TimeoutAwaiter::await_suspend(): both coroutines are spawned.
AwaitSuspend(i) ==
    /\ CanAwait(i)
    /\ caller' = [caller EXCEPT ![i] = "suspended"]
    /\ inner' = [j \in Levels |-> IF j = i THEN "spawned"
                                  ELSE IF j = i - 1 THEN "awaiting" ELSE inner[j]]
    /\ timer' = [timer EXCEPT ![i] = "sleeping"]
    /\ UNCHANGED <<done, timedOut, stored, queued, result>>

\* timeoutInner of the last level starts the operation.
OpStart ==
    /\ inner[Depth] = "spawned"
    /\ inner' = [inner EXCEPT ![Depth] = "awaiting"]
    /\ UNCHANGED <<caller, done, timedOut, stored, timer, queued, result>>

\* Bug: an exception is not kept.
InnerStore_DropsException(i, r) ==
    /\ stored' = [stored EXCEPT ![i] = IF r = "value" THEN r ELSE @]
    /\ inner' = [inner EXCEPT ![i] = "race"]

\* The co_await of timeoutInner of level i ends, with a value or an exception.
InnerStore(i, r) ==
    /\ stored' = [stored EXCEPT ![i] = r]
    /\ inner' = [inner EXCEPT ![i] = "race"]

OpEnd ==
    /\ inner[Depth] = "awaiting"
    /\ \E r \in {"value", "exception"} : InnerStore(Depth, r)
    /\ UNCHANGED <<caller, done, timedOut, timer, queued, result>>

\* Bug: done_ is tested and set without an exchange.
InnerRace_NoExchange(i) ==
    /\ inner[i] = "race"
    /\ done' = [done EXCEPT ![i] = "yes"]
    /\ inner' = [inner EXCEPT ![i] = "won"]
    /\ UNCHANGED <<caller, timedOut, stored, timer, queued, result>>

\* timeoutInner: the compare-exchange of done_.
InnerRace(i) ==
    /\ inner[i] = "race"
    /\ done' = [done EXCEPT ![i] = "yes"]
    /\ inner' = [inner EXCEPT ![i] = IF done[i] = "no" THEN "won" ELSE "ended"]
    /\ UNCHANGED <<caller, timedOut, stored, timer, queued, result>>

\* timeoutInner: schedule(caller_).
InnerSchedule(i) ==
    /\ inner[i] = "won"
    /\ inner' = [inner EXCEPT ![i] = "ended"]
    /\ queued' = [queued EXCEPT ![i] = @ + 1]
    /\ UNCHANGED <<caller, done, timedOut, stored, timer, result>>

\* Bug: timed_out_ is set by a timer that lost.
TimerRace_MarksAlways(i) ==
    /\ timer[i] = "sleeping"
    /\ timedOut' = [timedOut EXCEPT ![i] = "yes"]
    /\ done' = [done EXCEPT ![i] = "yes"]
    /\ timer' = [timer EXCEPT ![i] = IF done[i] = "no" THEN "won" ELSE "ended"]
    /\ UNCHANGED <<caller, stored, inner, queued, result>>

\* timeoutTimer: the sleep ends; the compare-exchange of done_.
TimerRace(i) ==
    /\ timer[i] = "sleeping"
    /\ done' = [done EXCEPT ![i] = "yes"]
    /\ timer' = [timer EXCEPT ![i] = IF done[i] = "no" THEN "won" ELSE "ended"]
    /\ UNCHANGED <<caller, timedOut, stored, inner, queued, result>>

\* Bug: a timer that won does not resume the caller.
TimerSchedule_Forgets(i) ==
    /\ timer[i] = "won"
    /\ timer' = [timer EXCEPT ![i] = "ended"]
    /\ timedOut' = [timedOut EXCEPT ![i] = "yes"]
    /\ UNCHANGED <<caller, done, stored, inner, queued, result>>

\* timeoutTimer: timed_out_ = true and schedule(caller_).
TimerSchedule(i) ==
    /\ timer[i] = "won"
    /\ timer' = [timer EXCEPT ![i] = "ended"]
    /\ timedOut' = [timedOut EXCEPT ![i] = "yes"]
    /\ queued' = [queued EXCEPT ![i] = @ + 1]
    /\ UNCHANGED <<caller, done, stored, inner, result>>

\* What await_resume() of level i gives.
Outcome(i) ==
    IF timedOut[i] = "yes" THEN "timeout" ELSE stored[i]

\* The scheduler resumes the caller of level i, which for i > 1 is timeoutInner of level i - 1:
\* a TimeoutException is an exception there.
AwaitResume(i) ==
    /\ queued[i] > 0
    /\ queued' = [queued EXCEPT ![i] = @ - 1]
    /\ caller' = [caller EXCEPT ![i] = "resumed"]
    /\ result' = [result EXCEPT ![i] = Outcome(i)]
    /\ \/ i = 1 /\ UNCHANGED <<stored, inner>>
       \/ i > 1 /\ InnerStore(i - 1, IF Outcome(i) = "value" THEN "value" ELSE "exception")
    /\ UNCHANGED <<done, timedOut, timer>>

\* What the scheduler runs by itself.
Step ==
    \/ OpStart
    \/ \E i \in Levels :
        AwaitSuspend(i) \/ InnerRace(i) \/ InnerSchedule(i)
        \/ TimerRace(i) \/ TimerSchedule(i) \/ AwaitResume(i)

Next == Step \/ OpEnd

Spec == Init /\ [][Next]_vars

\* The scheduler runs every coroutine that can run, and every sleep ends; the operation need
\* not end.
FairSpec ==
    Spec /\ \A i \in Levels : /\ WF_vars(AwaitSuspend(i)) /\ WF_vars(AwaitResume(i))
                              /\ WF_vars(InnerRace(i)) /\ WF_vars(InnerSchedule(i))
                              /\ WF_vars(TimerRace(i)) /\ WF_vars(TimerSchedule(i))

-----------------------------------------------------------------------------
\* Types of the state of the nested timeouts.
TypeOK ==
    /\ caller \in [Levels -> {"running", "suspended", "resumed"}]
    /\ done \in [Levels -> {"yes", "no"}] /\ timedOut \in [Levels -> {"yes", "no"}]
    /\ stored \in [Levels -> {"empty", "value", "exception"}]
    /\ inner \in [Levels -> {"none", "spawned", "awaiting", "race", "won", "ended"}]
    /\ timer \in [Levels -> {"none", "sleeping", "won", "ended"}]
    /\ queued \in [Levels -> Nat]
    /\ result \in [Levels -> {"none", "timeout", "empty", "value", "exception"}]

\* Each caller is resumed once: of the two coroutines that hold its handle at most one schedules
\* it, and not after it has gone on (Timeout.h:56 and :84).  The state is well typed.
ResumedOnce ==
    TypeOK /\ \A i \in Levels :
        LET winners == (IF inner[i] = "won" THEN 1 ELSE 0) + (IF timer[i] = "won" THEN 1 ELSE 0)
        IN  winners + queued[i] <= (IF caller[i] = "suspended" THEN 1 ELSE 0)

\* A caller that goes on sees the timeout, or a result that is there: the optional is never
\* read empty, at any level, whatever an inner coroutine that lost stores later.
ResultIsThere == \A i \in Levels : result[i] /= "empty"

\* No result is turned into a timeout: when the inner coroutine wins the race, the caller sees
\* what it stored.
WinnerDecides ==
    \A i \in Levels : inner[i] = "won" => Outcome(i) \in {"value", "exception"}

\* withTimeout() ends although the operation never does, also when nested.
Due == caller[1] = "suspended"
Over == caller[1] = "resumed"
CallerResumes == Due ~> Over
=============================================================================
