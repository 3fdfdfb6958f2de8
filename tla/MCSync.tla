------------------------------- MODULE MCSync -------------------------------
(***************************************************************************)
(* The ways in which coroutines wait for each other, one at a time: the    *)
(* Mutex, Future and Promise, Pipe, withTimeout() and the coroutine types. *)
(* They share no state, so a behaviour picks one of them and stays with    *)
(* it.                                                                     *)
(***************************************************************************)
EXTENDS Mutex, SyncParts, CoroutineParts, TLC

CONSTANT Running  \* the components to check

VARIABLE which  \* the component that runs, chosen at the start

all == <<which, vars, futureVars, pipeVars, timeoutVars, coroutineVars>>

\* A component that does not run stays where it begins.
MCInit ==
    /\ which \in Running
    /\ Init /\ F!Init /\ P!Init /\ T!Init /\ C!Init

\* A step of the component that runs
Base(A) == which = "mutex" /\ A /\ UNCHANGED <<which, futureVars, pipeVars, timeoutVars, coroutineVars>>
InF(A) == which = "future" /\ A /\ UNCHANGED <<which, vars, pipeVars, timeoutVars, coroutineVars>>
InP(A) == which = "pipe" /\ A /\ UNCHANGED <<which, vars, futureVars, timeoutVars, coroutineVars>>
InT(A) == which = "timeout" /\ A /\ UNCHANGED <<which, vars, futureVars, pipeVars, coroutineVars>>
InC(A) == which = "coroutine" /\ A /\ UNCHANGED <<which, vars, futureVars, pipeVars, timeoutVars>>

MCNext == \/ Base(Next)
          \/ InF(F!Next)
          \/ InP(P!Next)
          \/ InT(T!Next)
          \/ InC(C!Next)

\* Threads run, coroutines that are ready are resumed, owners unlock, promises are kept or
\* destroyed, senders are released, operations end (the README says why).
TimeoutStep == \E i \in T!Levels : \/ T!AwaitSuspend(i) \/ T!AwaitResume(i) \/ T!InnerRace(i) \/ T!InnerSchedule(i)
                                  \/ T!TimerRace(i) \/ T!TimerSchedule(i)
Steps == \/ InF(F!Destroy \/ F!Close(Dtor)) \/ InP(P!ReceiverStep) \/ InT(TimeoutStep) \/ InC(\E f \in C!Frames : C!Resume(f))
MCSpec == /\ MCInit /\ [][MCNext]_all
          /\ WF_all(Steps) /\ \A f \in Tasks \union Async : SF_all(InC(C!Ends(f)))
          /\ \A c \in Coros : WF_all(Base(Progress(c)) \/ InF(c \in Waiters /\ F!WaiterStep(c)))
          /\ \A w \in Waiters : SF_all(InF(F!PushCas(w) /\ head' = w))
          /\ \A s \in F!Callers : WF_all(InF(F!SetterStep(s)))
          /\ \A s \in Senders : WF_all(InP(P!SenderStep(s))) /\ WF_all(InP(P!Release(s)))

-----------------------------------------------------------------------------

\* Promise: the first result is final, and every awaiter resumes.
PromiseKept == [][F!ResultStays]_all /\ \A w \in Waiters : <>(which = "future" => F!Over(w))

\* "A value set by Promise is received by the awaiting Future" (tests/sync_test.cc:15): every
\* co_await on a Future that ends has a result.
AwaitSeesResult == F!AwaitSeesResult

\* Pipe: recv() "suspends if empty; returns nullopt on EOF" (Pipe.h:8 and :144), and only then.
NulloptMeansEof == P!NulloptMeansEof

\* The receiver of a Pipe comes to the end once the senders are gone, a caller of withTimeout()
\* resumes, and so does a coroutine whose awaited task has ended.
CallersGoOn == /\ <>(which = "pipe" => P!Over)
               /\ T!Due ~> T!Over
               /\ \A f \in C!Frames : C!Due(f) ~> ~C!Due(f)
=============================================================================
