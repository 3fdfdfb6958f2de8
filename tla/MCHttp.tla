------------------------------- MODULE MCHttp -------------------------------
(***************************************************************************)
(* HTTP exchanges: HttpServer on one HTTP/1.x connection, HttpClient with  *)
(* its pool, Http2Session with its handlers, Http2Client with its          *)
(* sessions, and WebSocket from the upgrade of an HTTP connection to its   *)
(* messages.  A behaviour picks one of them and stays with it.             *)
(***************************************************************************)
EXTENDS HttpClient, Http2Parts

CONSTANT Running  \* the components to check

VARIABLES which,  \* the component that runs, chosen at the start
          v1, v2, v3, v4, v5, v6, v7, v8  \* the variables of one that has none of its own

Plain(m, k) == [kind |-> "plain", mode |-> m, keep |-> k, version |-> "1.1"]
Odd(k) == [kind |-> k, mode |-> "length", keep |-> "yes", version |-> "1.0"]
Shapes == {Plain("none", "yes"), Plain("chunked", "yes"), Plain("none", "no")}
              \cup {Odd(k) : k \in {"unrouted", "upgrade", "badline"}}

S == INSTANCE Http1Server WITH
     Shapes <- Shapes, MaxRequests <- 2, reqs <- v1, wire <- v2, open <- v3, buf <- v4, srv <- v5,
     readers <- v6, late <- v7, out <- v8
W == INSTANCE WebSocket WITH
     Controls <- {"ping", "close"}, MaxFrames <- 3, up <- v1, dial <- v2, peer <- v3, net <- v4,
     rcv <- v5, snd <- v6

\* Variables that a component with k of them does not use
Rest6 == <<v7, v8>>
slots == <<v1, v2, v3, v4, v5, v6, v7, v8>>
all == <<which, vars, server2Vars, client2Vars, slots>>

\* A variable that is not used
Idle6 == v7 = 0 /\ v8 = 0
Idle0 == v1 = 0 /\ v2 = 0 /\ v3 = 0 /\ v4 = 0 /\ v5 = 0 /\ v6 = 0 /\ Idle6

\* A component that does not run stays where it begins.
MCInit ==
    /\ which \in Running
    /\ Init /\ H!Init /\ D!Init
    /\ \/ which \in {"client1", "server2", "client2"} /\ Idle0
       \/ which = "server1" /\ S!Init
       \/ which = "websocket" /\ W!Init /\ Idle6

\* A step of the component that runs
Base(A) == which = "client1" /\ A /\ UNCHANGED <<which, server2Vars, client2Vars, slots>>
InH(A) == which = "server2" /\ A /\ UNCHANGED <<which, vars, client2Vars, slots>>
InD(A) == which = "client2" /\ A /\ UNCHANGED <<which, vars, server2Vars, slots>>
InS(A) == which = "server1" /\ A /\ UNCHANGED <<which, vars, server2Vars, client2Vars>>
InW(A) == which = "websocket" /\ A /\ UNCHANGED <<which, vars, server2Vars, client2Vars, Rest6>>

MCNext == \/ Base(Next)
          \/ InH(H!Next)
          \/ InD(D!Next)
          \/ InS(S!Next)
          \/ InW(W!Next)

\* The loop resumes what is ready, handlers end, a server answers or closes, and the FIFO lock
\* of HttpClient comes to call "a" in the end (the calls are alike).  What the other components
\* have to do is finite, so that one condition serves all of it.
Step == \/ InS(S!ServerStep) \/ Base(CallStep("b")) \/ InH(H!Written)
        \/ InW(W!UpgradeStep)
        \/ \E i \in H!Ids : InH(H!HandlerStep(i))
        \/ \E c \in Requests : InD(D!CallStep(c))
MCSpec == /\ MCInit /\ [][MCNext]_all
          /\ SF_all(Base(CallStep("a"))) /\ WF_all(Step)
          /\ \A k \in Conns : WF_all(Base(ServerAnswers(k) \/ ServerCloses(k)))

-----------------------------------------------------------------------------

\* HttpServer: each request is parsed from where it starts, whatever was read of the body before
\* it, and the server ends a connection of its own accord only after a response that says so.
ConnectionInStep == which = "server1" => S!RequestAligned /\ S!ClosesAsSaid

\* WsConnection::receive() returns the messages the peer meant, whole and in order, whatever
\* pings come between their fragments.
MessagesAsMeant == which = "websocket" => W!MessagesAsMeant

\* Exchange i of the component that runs is owed an end; has ended.
Owed(i) == \/ which = "server1" /\ i \in {1, 2} /\ S!Due(i)
           \/ which = "client1" /\ i = 1 /\ Due("a")
           \/ which = "server2" /\ i \in H!Ids /\ H!Due(i)
           \/ which = "client2" /\ i \in {1, 2} /\ D!Due(<<"a", "b">>[i])
           \/ which = "websocket" /\ i \in {1, 2} /\ W!Due(<<"upgrade", "accept">>[i])
Done(i) == \/ which = "server1" /\ i \in {1, 2} /\ S!Over(i)
           \/ which = "client1" /\ i = 1 /\ Over("a")
           \/ which = "server2" /\ i \in H!Ids /\ H!Over(i)
           \/ which = "client2" /\ i \in {1, 2} /\ D!Over(<<"a", "b">>[i])
           \/ which = "websocket" /\ i \in {1, 2} /\ W!Over(<<"upgrade", "accept">>[i])

\* HttpServer answers a request unless the connection ends; a call of HttpClient ends when the
\* server answers or closes; a handler that reads its body to the end gets there after
\* END_STREAM; a call of Http2Client ends once the headers of its response have come; an upgrade
\* is answered and a handler in WsServer's accept() resumes, however the handler, a middleware or
\* the write of the response ends.
ExchangesEnd == \A i \in {1, 2} \cup H!Ids : Owed(i) ~> Done(i)
=============================================================================
