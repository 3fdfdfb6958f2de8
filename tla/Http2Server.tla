----------------------------- MODULE Http2Server -----------------------------
(***************************************************************************)
(* The server's side of one HTTP/2 connection (extensions/http2/src):      *)
(* Http2Session with its frame loop, its streams and their dispatch        *)
(* coroutines, Http2BodyReader and Http2ResponseSink.                      *)
(*                                                                         *)
(* The client is external and sends any frame.  Of a frame the model keeps *)
(* the type, the stream id, END_STREAM, END_HEADERS and whether payload    *)
(* and padding are well formed.  Of a header block it keeps the number     *)
(* the encoder gave it: HPACK blocks must be decoded in that order.        *)
(***************************************************************************)
EXTENDS Naturals, Sequences

CONSTANTS MaxId,      \* stream ids are 0..MaxId
          MaxFrames   \* bound: frames the client sends

Sids == {i \in 1..MaxId : i % 2 = 1}
Ids  == {0} \cup Sids   \* the ids that can get a stream; for 0 see HandleContinuation
Run  == MaxId + 1        \* run() among the writers

VARIABLES input,    \* external: frames left to send; "no" when the client has closed
          session,  \* Http2Session and its run() coroutine
          stream,   \* the Http2Stream of each id and its dispatch coroutine
          writes,   \* the coroutines in or before the write lock, first the owner
          sent      \* the header blocks on the wire

vars == <<input, session, stream, writes, sent>>

NoStream == [mapped |-> "no", sender |-> "none", data |-> 0, pc |-> "none", starts |-> 0,
             ended |-> "no"]   \* history: END_STREAM has come

Init ==
    /\ input = [left |-> MaxFrames, open |-> "yes"]
    /\ session = [pc |-> "preface", last |-> 0, cont |-> 0, only |-> "no", goaway |-> "no",
                  then |-> 0, encoded |-> 0, dangling |-> "no"]
    /\ stream = [i \in Ids |-> NoStream]
    /\ writes = <<>> /\ sent = <<>>

-----------------------------------------------------------------------------
\* Writing: every frame goes out under writeMutex_, which is first come, first served.

\* A field that the type of a frame does not look at is "no".
Frames == {f \in [type : {"Headers", "Continuation", "Data", "Settings", "WindowUpdate", "Ping",
                          "RstStream", "GoAway", "Priority", "PushPromise", "Oversized"},
                  sid : 0..MaxId, endStream : {"yes", "no"}, endHeaders : {"yes", "no"},
                  ok : {"yes", "no"}] :
              /\ f.endStream = "yes" => f.type \in {"Headers", "Data"}
              /\ f.endHeaders = "yes" => f.type \in {"Headers", "Continuation"}}

\* Bug: the waiters of the lock are served last come, first served.
Enqueue_Lifo(w) == IF writes = <<>> THEN <<w>> ELSE <<Head(writes), w>> \o Tail(writes)
Enqueue(w)      == Append(writes, w)

\* run() writes type (then: what to do with stream sid once it is out) and goes on reading;
\* after GOAWAY it ends.
RunWrites(s, type, sid) ==
    /\ writes' = Enqueue([who |-> Run, type |-> type, n |-> 0])
    /\ session' = [s EXCEPT !.pc = "write", !.then = sid,
                            !.goaway = IF type \in {"GoAway", "FrameError"} THEN "yes" ELSE @]

\* After a frameError a second GOAWAY follows the first.
GoAway(s)     == RunWrites(s, "GoAway", 0) /\ UNCHANGED <<stream, sent>>
FrameError(s) == RunWrites(s, "FrameError", 0) /\ UNCHANGED <<stream, sent>>
Reset(s)      == RunWrites(s, "RstStream", 0) /\ UNCHANGED <<stream, sent>>
Ignore(s)     == session' = s /\ UNCHANGED <<stream, writes, sent>>

-----------------------------------------------------------------------------
\* The frame handlers

\* Bug: the id of a stream that was reset is not remembered.
Seen_Not(sid) == session.last
Seen(sid)     == IF sid > session.last THEN sid ELSE session.last

\* finaliseHeaders(): a block that does not decode ends the connection, one with headers that
\* may not be there resets the stream, any other opens it and spawns its dispatch.
FinaliseHeaders(s, only) ==
    \/ GoAway([s EXCEPT !.cont = 0])
    \/ Reset([s EXCEPT !.cont = 0])
    \/ /\ stream' = [stream EXCEPT ![s.cont] =
                        [mapped |-> "yes", sender |-> IF only = "yes" THEN "closed" ELSE "open",
                         data |-> 0, pc |-> "spawned", starts |-> @.starts + 1, ended |-> only]]
       /\ session' = [s EXCEPT !.cont = 0]
       /\ UNCHANGED <<writes, sent>>

HandleHeaders(f) ==
    IF f.sid % 2 = 0 THEN GoAway(session)
    ELSE IF stream[f.sid].mapped = "no" /\ f.sid <= session.last THEN GoAway(session)
    ELSE IF stream[f.sid].mapped = "yes" THEN Reset(session)
    ELSE LET seen == [session EXCEPT !.last = Seen(f.sid)]
             s    == [seen EXCEPT !.cont = f.sid, !.only = f.endStream]
         IN  IF f.ok = "no" THEN GoAway(seen) \/ Reset(seen)
             ELSE IF f.endHeaders = "yes" THEN FinaliseHeaders(s, f.endStream)
             ELSE Ignore(s)

\* Outside a header block continuationStreamId_ is 0, so CONTINUATION on stream 0 passes the
\* test and may open stream 0 (bound: once).
HandleContinuation(f) ==
    /\ f.sid = 0 => stream[0].starts = 0
    /\ IF f.sid /= session.cont THEN GoAway(session)
       ELSE IF f.endHeaders = "yes" THEN FinaliseHeaders(session, session.only) ELSE Ignore(session)

\* Data for an open stream goes to its pipe; the window updates are written, and only then is
\* END_STREAM looked at.  A frame without data is not acknowledged.
HandleData(f) ==
    IF f.sid \notin Sids \/ stream[f.sid].mapped = "no"
    THEN IF f.sid \in 1..session.last THEN Reset(session) ELSE GoAway(session)
    ELSE IF f.ok = "no" THEN GoAway(session)
    ELSE \/ /\ stream[f.sid].sender = "open"
            /\ stream' = [stream EXCEPT ![f.sid].data = IF @ < 2 THEN @ + 1 ELSE @,
                                      ![f.sid].ended = f.endStream]
            /\ RunWrites(session, "WindowUpdate", IF f.endStream = "yes" THEN f.sid ELSE 0)
            /\ UNCHANGED sent
         \/ stream[f.sid].sender /= "open" /\ Reset(session)
         \/ /\ stream' = [stream EXCEPT ![f.sid].sender = IF f.endStream = "yes" THEN "closed" ELSE @,
                                      ![f.sid].ended = IF f.endStream = "yes" THEN "yes" ELSE @]
            /\ UNCHANGED <<session, writes, sent>>

\* SETTINGS, PING, WINDOW_UPDATE, PRIORITY, RST_STREAM, GOAWAY and PUSH_PROMISE.
HandleControl(f) ==
    CASE f.type \in {"Settings", "Ping"} ->
            IF f.sid /= 0 \/ f.ok = "no" THEN GoAway(session)
            ELSE (RunWrites(session, f.type, 0) /\ UNCHANGED <<stream, sent>>) \/ Ignore(session)
      [] f.type = "WindowUpdate" ->
            IF f.ok = "no" \/ (f.sid /= 0 /\ (f.sid \notin Sids \/ stream[f.sid].mapped = "no"))
            THEN FrameError(session) ELSE Ignore(session)
      [] f.type = "RstStream" ->
            IF f.ok = "no" \/ f.sid \notin Sids \/ stream[f.sid].mapped = "no"
            THEN FrameError(session)
            ELSE /\ stream' = [stream EXCEPT ![f.sid].mapped = "no"]
                 /\ UNCHANGED <<session, writes, sent>>
      [] f.type = "GoAway" -> Ignore([session EXCEPT !.goaway = "yes", !.pc = "done"])
      [] f.type = "Priority" ->
            IF f.sid = 0 THEN FrameError(session)
            ELSE IF f.ok = "no" THEN Reset(session) ELSE Ignore(session)
      [] OTHER -> FrameError(session)

\* run(): the client's preface, answered by the server's SETTINGS.
Preface(good) ==
    /\ session.pc = "preface" /\ input.open = "yes"
    /\ session' = [session EXCEPT !.pc = IF good = "yes" THEN "read" ELSE "done"]
    /\ UNCHANGED <<input, stream, writes, sent>>

\* run(): one frame.  Between HEADERS and END_HEADERS only CONTINUATION may come.
ReadFrame(f) ==
    /\ session.pc = "read" /\ input.open = "yes" /\ input.left > 0
    /\ input' = [input EXCEPT !.left = @ - 1]
    /\ IF f.type = "Oversized" \/ (session.cont /= 0 /\ f.type /= "Continuation")
       THEN GoAway(session)
       ELSE CASE f.type = "Headers"      -> HandleHeaders(f)
              [] f.type = "Continuation" -> HandleContinuation(f)
              [] f.type = "Data"         -> HandleData(f)
              [] OTHER                   -> HandleControl(f)

ClientCloses ==
    /\ input.open = "yes"
    /\ input' = [input EXCEPT !.open = "no"]
    /\ UNCHANGED <<session, stream, writes, sent>>

RunEnds ==
    /\ session.pc \in {"preface", "read"} /\ input.open = "no"
    /\ session' = [session EXCEPT !.pc = "done"]
    /\ UNCHANGED <<input, stream, writes, sent>>

-----------------------------------------------------------------------------
\* Dispatch and the response

\* The spawned coroutine starts; the session may be gone: run() has ended and no other
\* dispatch keeps it.
Start(i) ==
    /\ stream[i].pc = "spawned"
    /\ stream' = [stream EXCEPT ![i].pc =
         IF session.pc = "done" /\ \A j \in Ids : stream[j].pc \notin {"handler", "headers", "data", "last"}
         THEN "dropped" ELSE "handler"]
    /\ UNCHANGED <<input, session, writes, sent>>

\* The handler takes a chunk of the body from the pipe.
ReadBody(i) ==
    /\ stream[i].pc = "handler" /\ stream[i].data > 0
    /\ stream' = [stream EXCEPT ![i].data = @ - 1]
    /\ UNCHANGED <<input, session, writes, sent>>

\* The handler has read the body to its end, or did not want it; the response's headers are
\* encoded, and the write lock is asked for in the same step.
Respond(i, toEnd) ==
    /\ stream[i].pc = "handler"
    /\ toEnd = "yes" => stream[i].data = 0 /\ stream[i].sender = "closed"
    /\ session' = [session EXCEPT !.encoded = @ + 1]
    /\ writes' = Enqueue([who |-> i, type |-> "Headers", n |-> session.encoded + 1])
    /\ stream' = [stream EXCEPT ![i].pc = "headers"]
    /\ UNCHANGED <<input, sent>>

\* The handler throws: RST_STREAM.
HandlerThrows(i) ==
    /\ stream[i].pc = "handler"
    /\ writes' = Enqueue([who |-> i, type |-> "RstStream", n |-> 0])
    /\ stream' = [stream EXCEPT ![i].pc = "last"]
    /\ UNCHANGED <<input, session, sent>>

\* Erase of the stream after dispatchStream().
Erased(i) == [stream EXCEPT ![i].pc = "done", ![i].mapped = "no"]

\* The end of handleData(): END_STREAM closes the pipe.
\* Bug: END_STREAM on a frame with data is forgotten.
EndStream_Not(i) == stream
EndStream(i)     == [stream EXCEPT ![i].sender = "closed"]

\* The owner of the lock has written its frame.  A response without a body ends with its
\* headers; otherwise one DATA frame follows or two, the last with END_STREAM (or RST_STREAM,
\* when the writer of a streamed body throws).
Written ==
    /\ writes /= <<>>
    /\ LET w == Head(writes) IN
       /\ sent' = IF w.type = "Headers" THEN Append(sent, w.n) ELSE sent
       /\ \/ /\ w.who = Run
             /\ IF w.type = "FrameError"
                THEN /\ writes' = Append(Tail(writes), [w EXCEPT !.type = "GoAway"])
                     /\ UNCHANGED session
                ELSE /\ writes' = Tail(writes)
                     /\ session' = [session EXCEPT !.pc = IF session.goaway = "yes" THEN "done" ELSE "read",
                           !.then = 0,
                           !.dangling = IF session.then /= 0 /\ stream[session.then].mapped = "no"
                                        THEN "yes" ELSE @]
             /\ stream' = IF session.then /= 0 /\ stream[session.then].mapped = "yes"
                          THEN EndStream(session.then) ELSE stream
          \/ \E p \in {"data", "last"} :
               /\ w.type = "Headers" \/ (w.type = "Data" /\ stream[w.who].pc = "data" /\ p = "last")
               /\ writes' = Append(Tail(writes), [who |-> w.who, type |-> "Data", n |-> 0])
               /\ stream' = [stream EXCEPT ![w.who].pc = p]
               /\ UNCHANGED session
          \/ /\ w.type = "Headers" \/ (w.who /= Run /\ stream[w.who].pc = "last")
             /\ writes' = Tail(writes)
             /\ stream' = Erased(w.who)
             /\ UNCHANGED session
    /\ UNCHANGED input

-----------------------------------------------------------------------------
Next ==
    \/ \E f \in Frames : ReadFrame(f)
    \/ \E g \in {"yes", "no"} : Preface(g)
    \/ ClientCloses \/ RunEnds \/ Written
    \/ \E i \in Ids : Start(i) \/ ReadBody(i) \/ HandlerThrows(i) \/ \E e \in {"yes", "no"} : Respond(i, e)

Spec == Init /\ [][Next]_vars

HandlerStep(i) == Start(i) \/ ReadBody(i) \/ Respond(i, "yes")

-----------------------------------------------------------------------------
\* Header blocks reach the wire in the order in which the one encoder made them, whichever
\* handlers and control frames compete for the write lock.
BlocksInOrder == \A j \in DOMAIN sent : sent[j] = j

\* A stream id is dispatched once, also when the client reuses it after a reset.
DispatchedOnce == \A i \in Sids : stream[i].starts <= 1

\* A handler that reads its body to the end gets there once the client has sent END_STREAM,
\* whatever the client sends afterwards, and the stream is forgotten.
Due(i) == stream[i].ended = "yes"
Over(i) == stream[i].pc \in {"done", "dropped"}
HandlersEnd == \A i \in Ids : Due(i) ~> Over(i)

\* "copy shared_ptr before any co_await" (extensions/http2/src/Http2ClientSession.cc:233): a
\* frame handler uses no map entry that was erased while it waited.
EntryOutlivesAwait == session.dangling = "no"
=============================================================================
