--------------------------------- MODULE Tcp ---------------------------------
(***************************************************************************)
(* A TcpServer and its TcpConnections (src/TcpServer.cc, TcpConnection.cc, *)
(* Socket.cc).  Everything runs on the scheduler's thread; a coroutine     *)
(* goes on until it suspends in a read, a write, an accept, a connect or   *)
(* stop()'s wait.  Accepted connections belong to a handler; the others    *)
(* are opened by connect().                                                *)
(*                                                                         *)
(* The peer and the kernel are external: rx is what the peer did with its  *)
(* side, and accept4() fails once the listening socket was shut down.  How *)
(* a read or write waits is the subject of module Channel.                 *)
(***************************************************************************)
EXTENDS Naturals

CONSTANTS Accepted, Dialed   \* connections of the server, and those of connect()

Conns == Accepted \cup Dialed

VARIABLES state,     \* state_; "None" before the connection object exists
          rx,        \* external: "open", "fin" (peer shut down) or "rst"
          fin,       \* calls of Socket::shutdownWrite(), capped at 2
          closed,    \* forceClose() has released the channel and the socket
          rd, wr,    \* the coroutines in read() and write()
          dial,      \* the Connector: "no", "new", "connecting" or "failed"
          handler,   \* the spawned handler coroutine: "no", "running" or "returned"
          connSet,   \* *connSetPtr_
          loop,      \* start(): "no", "accepting", "scheduled", "failed" or "done"
          stopped,   \* stopped_
          stopper    \* stop(): "no", "waiting" for stopFuture_ or "done"

conn   == <<state, rx, fin, closed, rd, wr, dial>>
server == <<handler, connSet, loop, stopped, stopper>>
tcpVars == <<conn, server>>

TcpInit ==
    /\ state = [c \in Conns |-> "None"] /\ rx = [c \in Conns |-> "open"]
    /\ fin = [c \in Conns |-> 0] /\ closed = [c \in Conns |-> "no"]
    /\ rd = [c \in Conns |-> "idle"] /\ wr = [c \in Conns |-> "idle"]
    /\ dial = [c \in Conns |-> IF c \in Dialed THEN "new" ELSE "no"]
    /\ handler = [c \in Conns |-> "no"] /\ connSet = {}
    /\ loop = "no" /\ stopped = "no" /\ stopper = "no"

-----------------------------------------------------------------------------
\* TcpConnection

\* connect(): the Connector's outcomes are success, still connecting, and an error.
Connect(c) ==
    /\ dial[c] \in {"new", "connecting"}
    /\ \/ dial' = [dial EXCEPT ![c] = "no"] /\ state' = [state EXCEPT ![c] = "Connected"]
       \/ dial' = [dial EXCEPT ![c] = "connecting"] /\ UNCHANGED state
       \/ dial' = [dial EXCEPT ![c] = "failed"] /\ UNCHANGED state
    /\ UNCHANGED <<rx, fin, closed, rd, wr, server>>

PeerActs(c) ==
    /\ state[c] /= "None"
    /\ \/ rx[c] = "open" /\ rx' = [rx EXCEPT ![c] = "fin"]
       \/ rx[c] /= "rst" /\ rx' = [rx EXCEPT ![c] = "rst"]
    /\ UNCHANGED <<state, fin, closed, rd, wr, dial, server>>

\* The two compare-exchanges of the peer-closed callback, which EPOLLRDHUP calls.
AfterHangup(s) ==
    CASE s = "Connected"     -> "PeerShutdown"
      [] s = "LocalShutdown" -> "Closed"
      [] OTHER               -> s

PeerClosedCallback(c) ==
    /\ state[c] /= "None" /\ closed[c] = "no" /\ rx[c] /= "open"
    /\ state' = [state EXCEPT ![c] = AfterHangup(@)]
    /\ UNCHANGED <<rx, fin, closed, rd, wr, dial, server>>

\* The connection may be used by its handler, or by whoever dialed it.
InUse(c) == state[c] /= "None" /\ closed[c] = "no" /\ handler[c] /= "returned"

Begin(c) ==
    /\ InUse(c)
    /\ \/ rd[c] = "idle" /\ rd' = [rd EXCEPT ![c] = "busy"] /\ UNCHANGED wr
       \/ wr[c] = "idle" /\ wr' = [wr EXCEPT ![c] = "busy"] /\ UNCHANGED rd
    /\ UNCHANGED <<state, rx, fin, closed, dial, server>>

\* Bug: the end of the stream closes a connection that was not shut down here.
AfterEof_Closes(s) == "Closed"

\* The state a read that meets the end of the stream stores.
AfterEof(s) == IF s = "LocalShutdown" THEN "Closed" ELSE "PeerShutdown"

\* read(): data, the end of the stream (a reset counts as that), or an error.
EndRead(c) ==
    /\ rd[c] = "busy"
    /\ rd' = [rd EXCEPT ![c] = "idle"]
    /\ \/ UNCHANGED state
       \/ rx[c] /= "open" /\ state' = [state EXCEPT ![c] = AfterEof(@)]
       \/ rx[c] = "rst" /\ state' = [state EXCEPT ![c] = "Closed"]
    /\ UNCHANGED <<rx, fin, closed, wr, dial, server>>

\* write(): all of it, or EPIPE, ECONNRESET or another error; these close the connection.
EndWrite(c) ==
    /\ wr[c] = "busy"
    /\ wr' = [wr EXCEPT ![c] = "idle"]
    /\ \/ fin[c] = 0 /\ rx[c] /= "rst" /\ UNCHANGED state
       \/ (fin[c] > 0 \/ rx[c] = "rst") /\ state' = [state EXCEPT ![c] = "Closed"]
    /\ UNCHANGED <<rx, fin, closed, rd, dial, server>>

\* shutdown() after its switch_to(), on each connection of C.
ShutConnections(C) ==
    LET act == {c \in C : state[c] \notin {"LocalShutdown", "Closed"}}
    IN  /\ state' = [c \in Conns |-> IF c \notin act THEN state[c]
                                     ELSE IF state[c] = "PeerShutdown" THEN "Closed"
                                     ELSE "LocalShutdown"]
        /\ fin' = [c \in Conns |-> IF c \in act /\ fin[c] < 2 THEN fin[c] + 1 ELSE fin[c]]

Shutdown(c) ==
    /\ InUse(c)
    /\ ShutConnections({c})
    /\ UNCHANGED <<rx, closed, rd, wr, dial, server>>

\* forceClose(), by the owner of a dialed connection with no read or write in flight.
ForceClose(c) ==
    /\ c \in Dialed /\ InUse(c) /\ rd[c] = "idle" /\ wr[c] = "idle"
    /\ state' = [state EXCEPT ![c] = "Closed"]
    /\ closed' = [closed EXCEPT ![c] = "yes"]
    /\ UNCHANGED <<rx, fin, rd, wr, dial, server>>

-----------------------------------------------------------------------------
\* TcpServer

\* start() up to the first accept; listen() may fail.
Start ==
    /\ loop = "no"
    /\ \/ loop' = "accepting" /\ UNCHANGED stopped
       \/ loop' = "failed" /\ stopped' = "yes"
    /\ UNCHANGED <<conn, handler, connSet, stopper>>

\* The listening socket is readable and the accept loop's waiter is scheduled; or accept4()
\* finds nothing and the loop waits again.
ListenReadable ==
    /\ loop \in {"accepting", "scheduled"} /\ stopped = "no"
    /\ loop' = IF loop = "accepting" THEN "scheduled" ELSE "accepting"
    /\ UNCHANGED <<conn, handler, connSet, stopped, stopper>>

\* Bug: the connection is handed to its handler and not remembered.
Remember_Not(c) == connSet
Remember(c)     == connSet \cup {c}

\* accept4() succeeds; the loop tries the next one, or waits again.
Accept(c) ==
    /\ loop = "scheduled" /\ stopped = "no" /\ c \in Accepted /\ state[c] = "None"
    /\ state' = [state EXCEPT ![c] = "Connected"]
    /\ connSet' = Remember(c)
    /\ handler' = [handler EXCEPT ![c] = "running"]
    /\ loop' \in {"accepting", "scheduled"}
    /\ UNCHANGED <<rx, fin, closed, rd, wr, dial, stopped, stopper>>

\* The loop ends: canceled by stop(), by accept4() failing on the shut-down socket, or by
\* another accept error.  stopPromise_ is satisfied.
AcceptLoopEnds ==
    /\ loop = "scheduled"
    /\ loop' = "done"
    /\ UNCHANGED <<conn, handler, connSet, stopped, stopper>>

\* The handler returned or threw: the connection leaves the set.
HandlerReturns(c) ==
    /\ handler[c] = "running" /\ rd[c] = "idle" /\ wr[c] = "idle"
    /\ handler' = [handler EXCEPT ![c] = "returned"]
    /\ connSet' = connSet \ {c}
    /\ UNCHANGED <<conn, loop, stopped, stopper>>

\* Bug: the waiting accept is not canceled.
CancelAccept_Not(l) == l
CancelAccept(l)     == IF l = "accepting" THEN "scheduled" ELSE l

\* stop(), once start() has made the listen channel: the accept is canceled, every
\* connection of the set is shut down, and stop() waits for the loop to end.
Stop ==
    /\ loop /= "no" /\ stopper = "no"
    /\ stopped' = "yes"
    /\ IF stopped = "yes" THEN stopper' = "done" /\ UNCHANGED <<state, fin, loop>>
       ELSE /\ stopper' = "waiting" /\ ShutConnections(connSet)
            /\ loop' = CancelAccept(loop)
    /\ UNCHANGED <<rx, closed, rd, wr, dial, handler, connSet>>

StopReturns ==
    /\ stopper = "waiting" /\ loop = "done"
    /\ stopper' = "done"
    /\ UNCHANGED <<conn, handler, connSet, loop, stopped>>

-----------------------------------------------------------------------------
TcpNext ==
    \/ \E c \in Conns : \/ Connect(c) \/ PeerActs(c) \/ PeerClosedCallback(c)
                        \/ Begin(c) \/ EndRead(c) \/ EndWrite(c) \/ Shutdown(c)
                        \/ ForceClose(c) \/ Accept(c) \/ HandlerReturns(c)
    \/ Start \/ ListenReadable \/ AcceptLoopEnds \/ Stop \/ StopReturns

TcpSpec == TcpInit /\ [][TcpNext]_tcpVars

\* A stopped server's loop is resumed by the scheduler, and stop() by the promise.
TcpResume == (stopped = "yes" /\ AcceptLoopEnds) \/ StopReturns

-----------------------------------------------------------------------------
\* stop() reaches every connection: once it has begun, a connection whose handler still runs
\* was shut down (or reset by the peer), also one accepted just before.
StopReachesAll ==
    stopper \in {"waiting", "done"} /\ loop /= "failed" =>
        \A c \in Accepted : handler[c] = "running" => fin[c] > 0 \/ rx[c] = "rst"

\* state() can be believed as long as it says Connected or LocalShutdown: nothing was shut
\* down locally before the one, and the end of the stream was not read before the other.
StateIsTrue ==
    \A c \in Conns : /\ state[c] = "Connected" => fin[c] = 0 /\ closed[c] = "no"
                     /\ state[c] = "LocalShutdown" => fin[c] > 0
                     /\ state[c] = "Closed" => fin[c] > 0 \/ closed[c] = "yes" \/ rx[c] = "rst"

\* stop() returns although an accept is waiting, scheduled or failing when it is called.
StopDue == stopper = "waiting"
StopOver == stopper = "done"
StopEnds == StopDue ~> StopOver

\* "second call must be a no-op" (tests/tcp_test.cc:252): FIN is sent once per connection.
ShutdownOnce == \A c \in Conns : fin[c] <= 1

\* TcpServer and TcpConnection: stop() reaches every connection that was accepted, and the
\* state of a connection agrees with what was sent and closed.
TcpSafe == StopReachesAll /\ StateIsTrue
=============================================================================
