----------------------------- MODULE MCThreads ------------------------------
(***************************************************************************)
(* What crosses threads, one component at a time: the queue into a         *)
(* scheduler, cancellation, the DNS resolver with its thread pool; and the *)
(* TCP server, whose stop() comes from anywhere.  A behaviour picks one    *)
(* and stays with it.                                                      *)
(***************************************************************************)
EXTENDS MpscQueue, CancelToken, Resolver, Tcp

CONSTANT Running  \* the components to check

VARIABLE which  \* the component that runs, chosen at the start

\* The scheduler's thread of each callback; t2 has no scheduler
Homes == [c1 |-> "t1", c2 |-> "t2", c3 |-> "t1"]

all == <<which, vars, cancelVars, resolverVars, tcpVars>>

\* A component that does not run stays where it begins.
MCInit ==
    /\ which \in Running
    /\ Init /\ CancelInit /\ ResolverInit /\ TcpInit
    /\ which = "queue" \/ (head = (CHOOSE s \in Nodes : TRUE) /\ value[head] = (CHOOSE v \in Values : TRUE))
    /\ which = "resolver" \/ \A c \in Calls : call[c].key = (CHOOSE k \in Keys : TRUE)

\* A step of the component that runs
Base(A) == which = "queue" /\ A /\ UNCHANGED <<which, cancelVars, resolverVars, tcpVars>>
InC(A) == which = "cancel" /\ A /\ UNCHANGED <<which, vars, resolverVars, tcpVars>>
InR(A) == which = "resolver" /\ A /\ UNCHANGED <<which, vars, cancelVars, tcpVars>>
InT(A) == which = "tcp" /\ A /\ UNCHANGED <<which, vars, cancelVars, resolverVars>>

MCNext == \/ Base(Next)
          \/ InC(CancelNext)
          \/ InR(ResolverNext)
          \/ InT(TcpNext)

\* Threads run, the pool's workers run, and the loop resumes what is ready.  The steps of a
\* CancelToken are finite in number, so that one condition serves its threads and waiters.
Steps == \/ Base(Pop) \/ InR(WorkerStep) \/ InT(TcpResume)
         \/ \E t \in Threads : InC(ThreadStep(t)) \/ InC(EnterRun(t))
         \/ \E w \in Waiters : InC(AwaitResume(w))
MCSpec == /\ MCInit /\ [][MCNext]_all
          /\ WF_all(Steps) /\ \A p \in Producers : WF_all(Base(PushLink(p)))

-----------------------------------------------------------------------------
\* Wait i of the component that runs has to end; has ended.  Callback c3 is like c1, also
\* in what is fair to it.
Due(i)  == \/ which = "cancel" /\ i \in {1, 2} /\ CallbackDue(<<"c1", "c2">>[i])
           \/ which = "cancel" /\ i = 3 /\ WaiterDue("w1")
           \/ which = "resolver" /\ i \in {1, 2} /\ AnswerDue(<<"a", "b">>[i])
           \/ which = "tcp" /\ i = 1 /\ StopDue
Over(i) == \/ which = "cancel" /\ i \in {1, 2} /\ CallbackOver(<<"c1", "c2">>[i])
           \/ which = "cancel" /\ i = 3 /\ WaiterOver("w1")
           \/ which = "resolver" /\ i \in {1, 2} /\ AnswerOver(<<"a", "b">>[i])
           \/ which = "tcp" /\ i = 1 /\ StopOver

\* A cancellation reaches every callback and every waiter; resolve() answers every caller, also
\* those that join a lookup and those whose resolver is destroyed; TcpServer::stop() returns,
\* whatever the accept loop is at.
CallsEnd == \A i \in 1..3 : Due(i) ~> Over(i)
=============================================================================
