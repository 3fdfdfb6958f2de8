----------------------------- MODULE MCStreams ------------------------------
(***************************************************************************)
(* What runs on one socket: Channel, which turns epoll events into read()  *)
(* and write(), and TlsStream, whose lock orders the records of several    *)
(* writers.  A behaviour picks one of them and stays with it.              *)
(***************************************************************************)
EXTENDS Channel

CONSTANT Running  \* the components to check

VARIABLES which,  \* the component that runs, chosen at the start
          v1, v2, v3, v4  \* the variables of one that has none of its own

T == INSTANCE Tls WITH
     Writers <- {"a", "b"}, None <- "none", MaxChunks <- 3, Unprompted <- FALSE, peer <- v1,
     tls <- v2, co <- v3, wire <- v4

\* Variables that a component with k of them does not use
slots == <<v1, v2, v3, v4>>
all == <<which, vars, slots>>

\* A variable that is not used
Idle0 == v1 = 0 /\ v2 = 0 /\ v3 = 0 /\ v4 = 0

\* A component that does not run stays where it begins.
MCInit ==
    /\ which \in Running
    /\ Init
    /\ \/ which = "channel" /\ Idle0
       \/ which = "tls" /\ T!Init
    /\ which = "channel" \/ (inq = 0 /\ mode = "edge")

\* A step of the component that runs
Base(A) == which = "channel" /\ A /\ UNCHANGED <<which, slots>>
InT(A) == which = "tls" /\ A /\ UNCHANGED <<which, vars>>

MCNext == \/ Base(Next)
          \/ InT(T!Next)

\* The fairness of Channel (see there); a TLS stream goes on.  As one component
\* runs, fairness of a disjunction over components is fairness of each of them.
MCSpec == /\ MCInit /\ [][MCNext]_all
          /\ SF_all(Base(LoopPolls)) /\ SF_all(Base(CoroCalls)) /\ WF_all(Base(Drain))
          /\ \A d \in Dirs : SF_all(Base(Resume(d)))
          /\ WF_all(Base(CoroRuns) \/ InT(T!Progress))

-----------------------------------------------------------------------------

\* Channel: the stored handle is that of the suspended operation, a cancellation is for the
\* operation that waited when it was made, and the readiness flag that performImpl() clears
\* after EAGAIN never hides an event from a coroutine that waits.
ChannelSafe == which = "channel" => HandleIsSuspended /\ CancelIsForTheWaiter /\ NoLostReadiness

\* TlsStream: records reach the socket whole and in the order in which OpenSSL made them, and
\* the end of the stream is reported after all the data that came before it.
TlsSafe == which = "tls" => T!RecordsWhole /\ T!EofAfterData

\* Wait d of the component that runs has to end; has ended.
Waits(d) == \/ which = "channel" /\ Due(d)
            \/ which = "tls" /\ T!Due(IF d = "read" THEN "a" ELSE "b")
Ended(d) == \/ which = "channel" /\ Over(d)
            \/ which = "tls" /\ T!Over(IF d = "read" THEN "a" ELSE "b")

\* Channel: a read that has something to report and a write whose peer goes on reading end.
\* TlsStream: once the peer is gone every write() ends, the one that waits for the lock included.
StreamCallsEnd == \A d \in Dirs : Waits(d) ~> Ended(d)
=============================================================================
