----------------------------- MODULE Http1Server -----------------------------
(***************************************************************************)
(* One HTTP/1.1 connection of an HttpServer: the request parser's framing, *)
(* the body readers, the handler chain, the response sink and the          *)
(* keep-alive loop (extensions/http/src: HttpServer.cc, HttpParser.cc,     *)
(* Http1BodyReader.cc, body_reader/, Http1ResponseSink.cc, body_writer/).  *)
(*                                                                         *)
(* The client is external: it pipelines requests, and may stop in the      *)
(* middle of one.  Bytes are tokens: a header line, the blank line, a      *)
(* chunk-size line, a byte of body, a CRLF after a chunk, the last chunk   *)
(* and the end of the trailer.  A read of the stream takes any non-empty   *)
(* prefix of what has arrived, at most what was asked for.                 *)
(***************************************************************************)
EXTENDS Naturals, Sequences, SequencesExt

CONSTANTS Shapes,       \* the requests a client may send
          MaxRequests   \* bound: requests on the connection

VARIABLES reqs,     \* external: the requests sent so far
          wire,     \* external: tokens sent and not read
          open,     \* external: the client has not closed its side
          buf,      \* the connection's StringBuffer
          srv,      \* handleConnection() and handleNextRequest()
          readers,  \* the body reader of each request
          late,     \* a coroutine, spawned by a handler, that reads the body later
          out       \* the responses written

client == <<reqs, wire, open>>
vars   == <<client, buf, srv, readers, late, out>>

\* The body of a request: none, Content-Length: 2, or one chunk of two bytes.
BodyOf(mode) ==
    CASE mode = "none"    -> <<>>
      [] mode = "length"  -> <<"data", "data">>
      [] mode = "chunked" -> <<"size", "data", "data", "crlf", "last", "trailer">>

TokensOf(q) == <<"line", "blank">> \o BodyOf(q.mode)

\* HttpParser<HttpRequest>::processTransferMode() and Http1BodyReader::create(): the state of
\* a new reader.  left counts the bytes of the body, or of the current chunk.
NewReader(q) ==
    [st |-> CASE q.mode = "none"    -> "complete"
              [] q.mode = "length"  -> "data"
              [] q.mode = "chunked" -> "size",
     mode |-> q.mode, left |-> IF q.mode = "length" THEN 2 ELSE 0,
     draining |-> "no", lock |-> "free"]

NoReader == [st |-> "complete", mode |-> "none", left |-> 0, draining |-> "no", lock |-> "free"]

Init ==
    /\ reqs = <<>> /\ wire = <<>> /\ open = "yes" /\ buf = <<>> /\ out = <<>>
    /\ srv = [pc |-> "parse", n |-> 0, act |-> "Continue", close |-> "no", streamed |-> "no"]
    /\ readers = [i \in 1..MaxRequests |-> NoReader]
    /\ late = [pc |-> "none", n |-> 0]

Req == reqs[srv.n]

-----------------------------------------------------------------------------
\* The client

Send ==
    /\ open = "yes" /\ Len(reqs) < MaxRequests
    /\ \E q \in Shapes :
          /\ reqs' = Append(reqs, q)
          /\ \/ wire' = wire \o TokensOf(q) /\ UNCHANGED open
             \/ /\ open' = "no"
                /\ \E k \in 0..Len(TokensOf(q)) - 1 : wire' = wire \o SubSeq(TokensOf(q), 1, k)
    /\ UNCHANGED <<buf, srv, readers, late, out>>

ClientCloses ==
    /\ open = "yes"
    /\ open' = "no"
    /\ UNCHANGED <<reqs, wire, buf, srv, readers, late, out>>

-----------------------------------------------------------------------------
\* The stream and the buffer

Arrived == wire /= <<>> \/ open = "no"
Ended   == wire = <<>> /\ open = "no"

\* prepareWrite(), a read of the stream and commitWrite().
Fill ==
    \E k \in 1..Len(wire) : /\ buf' = buf \o SubSeq(wire, 1, k)
                            /\ wire' = SubSeq(wire, k + 1, Len(wire))

\* A reader that copies bytes takes them from the buffer, and from the stream if that is empty.
Source    == IF buf /= <<>> THEN buf ELSE wire
TakeOut(k) ==
    IF buf /= <<>> THEN buf' = SubSeq(buf, k + 1, Len(buf)) /\ UNCHANGED wire
    ELSE wire' = SubSeq(wire, k + 1, Len(wire)) /\ UNCHANGED buf

-----------------------------------------------------------------------------
\* The parser: parseNext() and HttpParser<HttpRequest>::feedLine()

ReadForParse ==
    /\ srv.pc \in {"parse", "headers"} /\ buf = <<>> /\ Arrived
    /\ IF Ended THEN srv' = [srv EXCEPT !.pc = "done"] /\ UNCHANGED <<wire, buf>>
       ELSE Fill /\ UNCHANGED srv
    /\ UNCHANGED <<reqs, open, readers, late, out>>

\* The response is to be flushed, and what handleConnection() does after it.
Flush(act, close) == [srv EXCEPT !.pc = "flush", !.act = act, !.close = close]

KeepAlive == Req.keep = "yes"
Answer    == IF KeepAlive THEN Flush("Continue", "no") ELSE Flush("Shutdown", "yes")

\* The request line; a malformed one gets 400 and the connection ends.
ParseLine ==
    /\ srv.pc = "parse" /\ buf /= <<>>
    /\ buf' = Tail(buf)
    /\ srv' = [srv EXCEPT !.n = @ + 1, !.pc = IF Head(buf) = "line" /\ reqs[srv.n + 1].kind /= "badline"
                                    THEN "headers" ELSE "flush",
                          !.act = "Close", !.close = "yes", !.streamed = "no"]
    /\ UNCHANGED <<client, readers, late, out>>

\* The blank line: a request whose headers are malformed gets 400 and no body reader; what
\* the router, the Expect header and the upgrade check decide comes next.
ParseBlank ==
    /\ srv.pc = "headers" /\ buf /= <<>>
    /\ buf' = Tail(buf)
    /\ IF Req.kind = "badheader" THEN srv' = Flush("Close", "yes") /\ UNCHANGED readers
       ELSE /\ readers' = [readers EXCEPT ![srv.n] = NewReader(Req)]
            /\ srv' = CASE Req.kind \in {"unrouted", "expectation"} -> Answer
                        [] Req.kind = "upgrade" -> [srv EXCEPT !.pc = "upgrading"]
                        [] OTHER -> [srv EXCEPT !.pc = "handler"]
    /\ UNCHANGED <<client, late, out>>

-----------------------------------------------------------------------------
\* The handler chain

\* Bug: the response to a failed request does not say that the connection closes.
Failed_Silent == Flush("Shutdown", "no")
\* An exception in the chain clears the response and closes the connection.
Failed == Flush("Shutdown", "yes")

\* The handler runs and is not suspended in a read.
InHandler == srv.pc = "handler" /\ readers[srv.n].lock /= "main"

\* The chain returns: the handler may have asked for the connection to be closed
\* (setCloseConnection) or given a BodyWriterFn; or it threw.
HandlerEnds ==
    /\ InHandler
    /\ \/ srv' = [Answer EXCEPT !.streamed = "yes"]
       \/ srv' = Answer
       \/ srv' = [Answer EXCEPT !.close = "yes"]
       \/ srv' = Failed
    /\ UNCHANGED <<client, buf, readers, late, out>>

\* The handler keeps the request and spawns a coroutine that will read its body.
SpawnLate ==
    /\ InHandler /\ late.pc = "none"
    /\ late' = [pc |-> "idle", n |-> srv.n]
    /\ UNCHANGED <<client, buf, srv, readers, out>>

\* requestUpgrader_ throws, declines, or takes over: the response goes out first and the
\* connection ends with the stream handler.
Upgrade ==
    /\ srv.pc = "upgrading"
    /\ srv' \in {Failed, Answer, [srv EXCEPT !.pc = "done"]}
    /\ UNCHANGED <<client, buf, readers, late, out>>

-----------------------------------------------------------------------------
\* The body readers.  Http1BodyReader::mutex_ is held by "main" or "late" during a read.

Finished(b) == b.draining = "yes" \/ b.st = "complete"

\* read() takes the lock; a reader that is drained or complete gives nothing.
BeginRead(who, i) ==
    /\ readers[i].lock = "free"
    /\ readers' = IF Finished(readers[i]) THEN readers ELSE [readers EXCEPT ![i].lock = who]
    /\ UNCHANGED <<client, buf, srv, out>>

MainReads == InHandler /\ BeginRead("main", srv.n) /\ UNCHANGED late
LateReads == late.pc = "idle" /\ BeginRead("late", late.n)
             /\ late' = IF Finished(readers[late.n]) THEN [late EXCEPT !.pc = "gone"] ELSE late

\* drain() takes the lock.
BeginDrain ==
    /\ srv.pc = "drain" /\ readers[srv.n].lock = "free"
    /\ LET b == readers[srv.n]
           more == b.st /= "complete"
       IN  /\ readers' = [readers EXCEPT ![srv.n].draining = "yes", ![srv.n].lock = IF more THEN "main" ELSE "free"]
           /\ srv' = [srv EXCEPT !.pc = IF more THEN "draining" ELSE "parse"]
    /\ UNCHANGED <<client, buf, late, out>>

\* Bug: a read keeps the lock.
Unlock_Not(b) == b
Unlock(b)     == [b EXCEPT !.lock = "free"]

\* readImpl() returns: read() releases the lock, drain() goes on until the body is complete.
Returned(i, b) ==
    LET more == b.lock = "main" /\ srv.pc = "draining" /\ b.st /= "complete"
    IN  /\ readers' = [readers EXCEPT ![i] = IF more THEN b ELSE Unlock(b)]
        /\ srv' = IF ~more /\ b.lock = "main" /\ srv.pc = "draining"
                  THEN [srv EXCEPT !.pc = "parse"] ELSE srv

\* readImpl() throws: in the handler, in drain(), or in the coroutine it spawned.
Throws(i) ==
    /\ readers' = [readers EXCEPT ![i].lock = "free"]
    /\ IF readers[i].lock = "late" THEN late' = [late EXCEPT !.pc = "gone"] /\ UNCHANGED srv
       ELSE /\ srv' = IF srv.pc = "draining" THEN [srv EXCEPT !.pc = "done"] ELSE Failed
            /\ UNCHANGED late

\* ContentLengthReader::readImpl() and the data of a chunk.
\* Bug: the reader takes what is there, also beyond the end of the body.
Wanted_All(b) == Len(Source)
Wanted(b) == IF b.left < Len(Source) THEN b.left ELSE Len(Source)

ReadData(i) ==
    LET b == readers[i] IN
    /\ b.lock /= "free" /\ b.st = "data" /\ Source /= <<>>
    /\ \E k \in 1..Wanted(b) :
          /\ TakeOut(k)
          /\ IF k < b.left THEN Returned(i, [b EXCEPT !.left = @ - k])
             ELSE IF b.mode = "length" THEN Returned(i, [b EXCEPT !.left = 0, !.st = "complete"])
             ELSE readers' = [readers EXCEPT ![i].left = 0, ![i].st = "crlf"] /\ UNCHANGED srv
    /\ UNCHANGED <<reqs, open, late, out>>

\* ChunkedReader: parseChunkSize(), skipCRLF() and skipTrailer() consume one token each.
ReadChunkLine(i) ==
    LET b == readers[i]
        t == Head(buf) IN
    /\ b.lock /= "free" /\ b.st \in {"size", "crlf", "trailer"} /\ buf /= <<>>
    /\ buf' = Tail(buf)
    /\ CASE b.st = "crlf" -> Returned(i, [b EXCEPT !.st = "size"]) /\ UNCHANGED late
         [] b.st = "trailer" -> Returned(i, [b EXCEPT !.st = "complete"]) /\ UNCHANGED late
         [] b.st = "size" /\ t = "size" -> /\ readers' = [readers EXCEPT ![i].st = "data", ![i].left = 2]
                                           /\ UNCHANGED <<srv, late>>
         [] b.st = "size" /\ t = "last" -> /\ readers' = [readers EXCEPT ![i].st = "trailer"]
                                           /\ UNCHANGED <<srv, late>>
         [] OTHER -> Throws(i)
    /\ UNCHANGED <<client, out>>

\* The reader needs more: it fills the buffer, or finds the connection closed and throws.
ReadMore(i) ==
    LET b == readers[i] IN
    /\ b.lock /= "free" /\ buf = <<>> /\ b.st /= "complete"
    /\ IF Ended THEN Throws(i) /\ UNCHANGED <<wire, buf>>
       ELSE b.st /= "data" /\ Fill /\ UNCHANGED <<srv, readers, late>>
    /\ UNCHANGED <<reqs, open, out>>

-----------------------------------------------------------------------------
\* The response and the keep-alive loop

\* Http1ResponseSink::buildHeaderBuf(): what the response says about the connection.
SaysClose(version) ==
    LET untilClose == srv.streamed = "yes" /\ version = "1.0"
    IN  srv.close = "yes" \/ untilClose

NextStep(act) ==
    IF act /= "Continue" THEN "done"
    ELSE IF readers[srv.n].st = "complete" THEN "parse" ELSE "drain"

\* flush() and what the action asks for; the write may fail once the client has gone.
FlushResponse ==
    /\ srv.pc = "flush"
    /\ \/ /\ out' = Append(out, [n |-> srv.n, says |-> IF SaysClose(Req.version) THEN "close" ELSE "keep"])
          /\ srv' = [srv EXCEPT !.pc = NextStep(srv.act)]
       \/ open = "no" /\ srv' = [srv EXCEPT !.pc = "done"] /\ UNCHANGED out
    /\ UNCHANGED <<client, buf, readers, late>>

-----------------------------------------------------------------------------
ServerStep ==
    \/ ReadForParse \/ ParseLine \/ ParseBlank \/ HandlerEnds \/ Upgrade \/ BeginDrain \/ FlushResponse
    \/ \E i \in 1..MaxRequests : ReadData(i) \/ ReadChunkLine(i) \/ ReadMore(i)

Next == Send \/ ClientCloses \/ SpawnLate \/ MainReads \/ LateReads \/ ServerStep

Spec == Init /\ [][Next]_vars

-----------------------------------------------------------------------------
TokensFrom(i) == FlattenSeq([j \in 1..Len(reqs) + 1 - i |-> TokensOf(reqs[i + j - 1])])

\* Each request is parsed from where it starts: whatever the handler, drain() and a coroutine
\* that outlived the handler read of the body before, and however it was framed.
RequestAligned == srv.pc = "parse" => IsPrefix(buf \o wire, TokensFrom(srv.n + 1))

\* The server ends the connection of its own accord only after a response that says so.
ClosesAsSaid ==
    srv.pc = "done" /\ open = "yes" /\ out /= <<>> /\ srv.n = Len(out) =>
        Last(out).says = "close" \/ reqs[srv.n].kind = "upgrade"

\* Every request that was sent whole is answered, unless the connection ends first.
Due(i) == Len(reqs) >= i /\ open = "yes"
Over(i) == Len(out) >= i \/ srv.pc = "done"
EveryRequestAnswered == \A i \in 1..MaxRequests : Due(i) ~> Over(i)
=============================================================================
