------------------------------ MODULE WebSocket ------------------------------
(***************************************************************************)
(* WebSocket (extensions/websocket/src): the upgrade of an HTTP request in *)
(* WsServer with the context WsContextImpl its handler gets, and the       *)
(* frames of an established WsConnection.  WsClient::connect() is the      *)
(* other side of the handshake.                                            *)
(*                                                                         *)
(* The peer is external and sends fragmented messages as RFC 6455 allows,  *)
(* with control frames between the fragments.  Of a frame the model keeps  *)
(* opcode, FIN, whether it is masked as it must be, and a number for its   *)
(* payload.                                                                *)
(***************************************************************************)
EXTENDS Naturals, Sequences, SequencesExt

CONSTANTS Controls,    \* the control frames the peer sends: "ping", "pong", "close"
          MaxFrames    \* bound: frames the peer sends

VARIABLES up,     \* handleUpgrade(), the HTTP server around it, and the two promises
          dial,   \* WsClient::connect()
          peer,   \* external: frames sent, the message begun, and the messages meant
          net,    \* frames sent by the peer and not yet read
          rcv,    \* receive(), the messages it returned and the pongs it sent
          snd     \* send(), shutdown() and forceClose() of the owner

vars == <<up, dial, peer, net, rcv, snd>>

Init ==
    /\ up = [pc |-> "new", handler |-> "none", accept |-> "none", conn |-> "none"]
    /\ dial = "new"
    /\ peer = [n |-> 0, part |-> <<>>, meant |-> <<>>, pings |-> <<>>]
    /\ net = <<>>
    /\ rcv = [pc |-> "none", payload |-> <<>>, op |-> "cont", got |-> <<>>, pongs |-> <<>>]
    /\ snd = "open"

-----------------------------------------------------------------------------
\* WsServer::handleUpgrade()

\* Not a WebSocket upgrade, no route, or no key: an error response.  Otherwise the handler is
\* spawned with the context, and the upgrade waits for accept().
HandleUpgrade ==
    /\ up.pc = "new"
    /\ \/ up' = [up EXCEPT !.pc = "refused"]
       \/ up' = [up EXCEPT !.pc = "waiting", !.handler = "running"]
    /\ UNCHANGED <<dial, peer, net, rcv, snd>>

\* WsContextImpl::accept()
Accept ==
    /\ up.handler = "running" /\ up.accept = "none"
    /\ up' = [up EXCEPT !.handler = "accepting", !.accept = "yes"]
    /\ UNCHANGED <<dial, peer, net, rcv, snd>>

\* The handler ends and the context with it: ~WsContextImpl() answers for a handler that never
\* called accept().
\* Bug: the destructor leaves the promise alone.
Destroyed_Silent(a) == a
Destroyed(a)        == IF a = "none" THEN "no" ELSE a

HandlerEnds ==
    /\ up.handler \in {"running", "connected", "failed"}
    /\ up' = [up EXCEPT !.handler = "ended", !.accept = Destroyed(@)]
    /\ UNCHANGED <<dial, peer, net, rcv, snd>>

\* handleUpgrade() returns what to do with the stream, through the middlewares.  When one of
\* these throws, or the response cannot be written, that is dropped, and the connection's
\* promise with it.
\* Bug: the promise is kept by the handler's coroutine.
Dropped_Kept(c) == c
Dropped(c)      == "broken"

UpgradeReturns ==
    /\ up.pc = "waiting" /\ up.accept /= "none"
    /\ \/ /\ up.accept = "yes"
          /\ up' = [up EXCEPT !.pc = "switched", !.conn = "value"]
          /\ rcv' = [rcv EXCEPT !.pc = "idle"]
       \/ up' = [up EXCEPT !.pc = "failed", !.conn = Dropped(@)] /\ UNCHANGED rcv
       \/ up.accept = "no" /\ up' = [up EXCEPT !.pc = "refused", !.conn = Dropped(@)] /\ UNCHANGED rcv
    /\ UNCHANGED <<dial, peer, net, snd>>

\* accept() returns the connection, or throws.
Accepted ==
    /\ up.handler = "accepting" /\ up.conn /= "none"
    /\ up' = [up EXCEPT !.handler = IF up.conn = "value" THEN "connected" ELSE "failed"]
    /\ UNCHANGED <<dial, peer, net, rcv, snd>>

-----------------------------------------------------------------------------
\* WsClient::connect(): resolve, connect, upgrade the stream, send the request, read the
\* response's headers, and look for 101 and the expected key in them.
Dial ==
    /\ \/ dial = "new" /\ dial' \in {"sent", "failed"}
       \/ dial = "sent" /\ up.pc \in {"switched", "refused", "failed"}
          /\ dial' = IF up.pc = "switched" THEN "connected" ELSE "failed"
    /\ UNCHANGED <<up, peer, net, rcv, snd>>

-----------------------------------------------------------------------------
\* The peer's frames

PeerSends ==
    /\ up.pc = "switched" /\ peer.n < MaxFrames
    /\ \/ \E fin \in BOOLEAN, kind \in {"text", "binary"} :
            LET op == IF peer.part = <<>> THEN kind ELSE "cont"
                message == IF peer.part = <<>> THEN [op |-> kind, parts |-> <<peer.n>>]
                           ELSE [op |-> peer.part[1].op, parts |-> Append(peer.part[1].parts, peer.n)]
            IN  /\ net' = Append(net, [op |-> op, fin |-> fin, n |-> peer.n, masked |-> "yes"])
                /\ peer' = [peer EXCEPT !.n = @ + 1, !.part = IF fin THEN <<>> ELSE <<message>>,
                                        !.meant = IF fin THEN Append(@, message) ELSE @]
       \/ \E c \in Controls :
            /\ net' = Append(net, [op |-> c, fin |-> TRUE, n |-> peer.n, masked |-> "yes"])
            /\ peer' = [peer EXCEPT !.n = @ + 1, !.pings = IF c = "ping" THEN Append(@, peer.n) ELSE @]
       \/ /\ net' = Append(net, [op |-> "text", fin |-> TRUE, n |-> peer.n, masked |-> "no"])
          /\ peer' = [peer EXCEPT !.n = MaxFrames]
    /\ UNCHANGED <<up, dial, rcv, snd>>

\* A call of receive() starts with an empty message.
Receive ==
    /\ rcv.pc = "idle"
    /\ rcv' = [rcv EXCEPT !.pc = "reading", !.payload = <<>>, !.op = "cont"]
    /\ UNCHANGED <<up, dial, peer, net, snd>>

Kind(op) == IF op = "binary" THEN "binary" ELSE "text"

\* A ping's payload is cut off again after the pong.
\* Bug: it stays in the message.
AfterPing_Keeps(r, f) == [r EXCEPT !.pongs = Append(@, f.n), !.payload = Append(@, f.n)]
AfterPing(r, f)       == [r EXCEPT !.pongs = Append(@, f.n)]

\* One frame in receive().  PONG is no case of its own.
ReadFrame ==
    /\ rcv.pc = "reading" /\ net /= <<>>
    /\ LET f == Head(net)
           r == [rcv EXCEPT !.payload = Append(@, f.n), !.op = IF f.op = "cont" THEN @ ELSE f.op]
       IN  rcv' = IF f.masked = "no" THEN [rcv EXCEPT !.pc = "failed"]   \* CLOSE 1002, and throw
                  ELSE IF f.op = "ping" THEN AfterPing(rcv, f)
                  ELSE IF f.op = "close" THEN [rcv EXCEPT !.pc = "closed"]
                  ELSE IF f.fin THEN [r EXCEPT !.pc = "idle",
                                      !.got = Append(@, [op |-> Kind(r.op), parts |-> r.payload])]
                  ELSE r
    /\ net' = Tail(net)
    /\ UNCHANGED <<up, dial, peer, snd>>

\* shutdown() sends CLOSE, forceClose() shuts the stream down and drops it.
Close ==
    /\ up.handler = "connected" /\ snd' \in {"shutdown", "closed"} /\ snd /= snd'
    /\ snd /= "closed"
    /\ rcv' = IF snd' = "closed" THEN [rcv EXCEPT !.pc = "failed"] ELSE rcv
    /\ UNCHANGED <<up, dial, peer, net>>

-----------------------------------------------------------------------------
UpgradeStep == HandleUpgrade \/ HandlerEnds \/ UpgradeReturns \/ Accepted

Next == UpgradeStep \/ Accept \/ Dial \/ PeerSends \/ Receive \/ ReadFrame \/ Close

-----------------------------------------------------------------------------
\* receive() returns the messages the peer meant, whole and in order, whatever control frames
\* come between their fragments.
MessagesAsMeant == IsPrefix(rcv.got, peer.meant)

\* An upgrade is answered and a handler in accept() resumes, however the handler, a middleware
\* or the response's write ends.
Due(w) == IF w = "upgrade" THEN up.pc = "waiting" ELSE up.handler = "accepting"
Over(w) == IF w = "upgrade" THEN up.pc \in {"switched", "refused", "failed"} ELSE up.handler \in {"connected", "failed", "ended"}
HandshakeEnds == \A w \in {"upgrade", "accept"} : Due(w) ~> Over(w)
=============================================================================
