----------------------------- MODULE Http2Client -----------------------------
(***************************************************************************)
(* Http2Client and Http2ClientSession (extensions/http2/src): calls that   *)
(* share a session, a session's frame loop and streams, and the fall-back  *)
(* to HTTP/1.1.  The server is external and sends any frame; a header      *)
(* block has a :status, as every response has, or is malformed.            *)
(***************************************************************************)
EXTENDS Naturals, FiniteSets

CONSTANTS Calls, Sessions, None

Sids == {2 * n - 1 : n \in 1..Cardinality(Calls)}

VARIABLES client,   \* Http2Client: http2Session_ and negotiatedProtocol_
          call,     \* each Http2Client::request()
          session,  \* each Http2ClientSession and its run()
          stream    \* each Http2ClientStream, by session and id

vars == <<client, call, session, stream>>

Init ==
    /\ client = [session |-> None, proto |-> "unknown"]
    /\ call = [c \in Calls |-> [pc |-> "start", session |-> None, sid |-> 0]]
    /\ session = [k \in Sessions |-> [pc |-> "none", ready |-> "no", next |-> 1, cont |-> 0,
                                      only |-> "no"]]
    /\ stream = [k \in Sessions |-> [i \in Sids |->
                   [mapped |-> "no", promise |-> "none", sender |-> "open", answered |-> "no"]]]

-----------------------------------------------------------------------------
\* Http2Client::request()

Alive(k) == session[k].pc \in {"preface", "read"}

\* getSession(): the session is reused while it is alive, otherwise the call connects.
GetSession(c) ==
    /\ call[c].pc = "start"
    /\ call' = [call EXCEPT ![c] =
          IF client.proto = "h1" THEN [@ EXCEPT !.pc = "http1"]
          ELSE IF client.session /= None /\ Alive(client.session)
               THEN [@ EXCEPT !.pc = "ready", !.session = client.session]
               ELSE [@ EXCEPT !.pc = "connecting"]]
    /\ UNCHANGED <<client, session, stream>>

\* A new session: which of the unused names it gets makes no difference.
Fresh == LET free == {k \in Sessions : session[k].pc = "none"}
         IN  IF free = {} THEN {} ELSE {CHOOSE k \in free : TRUE}

\* connect() and negotiateProtocol() end: no connection or no protocol, HTTP/1.1, or HTTP/2
\* with a new session, which replaces the one another call may have made meanwhile.
Connected(c) ==
    /\ call[c].pc = "connecting"
    /\ \/ /\ call' = [call EXCEPT ![c].pc = "error"]
          /\ UNCHANGED <<client, session>>
       \/ /\ client' = [client EXCEPT !.proto = "h1"]
          /\ call' = [call EXCEPT ![c].pc = "http1"]
          /\ UNCHANGED session
       \/ \E k \in Fresh :
            /\ session' = [session EXCEPT ![k].pc = "preface"]
            /\ client' = [session |-> k, proto |-> "h2"]
            /\ call' = [call EXCEPT ![c].pc = "ready", ![c].session = k]
    /\ UNCHANGED stream

\* External: HttpClient::request() of the fall-back client.
Http1Ends(c) ==
    /\ call[c].pc = "http1"
    /\ call' = [call EXCEPT ![c].pc = "done"]
    /\ UNCHANGED <<client, session, stream>>

\* Bug: the id is not counted on.
NextId_Same(n) == n
\* nextStreamId_ += 2
NextId(n) == n + 2

\* Http2ClientSession::request(): wait for the preface, take an id, register the stream.  The
\* call may have become an HTTP/1.1 one while it waited for getSession().
Request(c) ==
    LET k == call[c].session IN
    /\ call[c].pc = "ready"
    /\ IF client.proto = "h1"
       THEN call' = [call EXCEPT ![c].pc = "http1"] /\ UNCHANGED <<session, stream>>
       ELSE IF session[k].ready = "failed"
       THEN call' = [call EXCEPT ![c].pc = "error"] /\ UNCHANGED <<session, stream>>
       ELSE /\ session[k].ready = "yes"
            /\ session' = [session EXCEPT ![k].next = NextId(@)]
            /\ stream' = [stream EXCEPT ![k][session[k].next].mapped = "yes"]
            /\ call' = [call EXCEPT ![c].pc = "sending", ![c].sid = session[k].next]
    /\ UNCHANGED client

\* sendRequest() ends, or throws.
Sent(c) ==
    /\ call[c].pc = "sending"
    /\ \E pc \in {"waiting", "error"} : call' = [call EXCEPT ![c].pc = pc]
    /\ UNCHANGED <<client, session, stream>>

\* The response's future is ready.
Response(c) ==
    LET p == stream[call[c].session][call[c].sid].promise IN
    /\ call[c].pc = "waiting" /\ p /= "none"
    /\ call' = [call EXCEPT ![c].pc = IF p = "value" THEN "done" ELSE "error"]
    /\ UNCHANGED <<client, session, stream>>

-----------------------------------------------------------------------------
\* Http2ClientSession::run()

Preface(k) ==
    /\ session[k].pc = "preface"
    /\ \E r \in {"yes", "failed"} :
         session' = [session EXCEPT ![k].ready = r, ![k].pc = IF r = "yes" THEN "read" ELSE "done"]
    /\ UNCHANGED <<client, call, stream>>

\* HpackDecoder::applyHeader(): ":status" is refused as "response pseudo-header in request".
Decodes(status) == status = "no"

\* A block that does not decode fails the promise and forgets the stream.
\* Bug: the stream is forgotten without failing the promise.
Undecoded_Silent(s) == [s EXCEPT !.mapped = "no"]
Undecoded(s)        == [s EXCEPT !.mapped = "no", !.promise = "error"]

\* finaliseHeaders(): setting a promise a second time throws, which ends run().
FinaliseHeaders(k, i, only, status) ==
    LET s == stream[k][i] IN
    IF s.mapped = "no"
    THEN session' = [session EXCEPT ![k].cont = 0] /\ UNCHANGED stream
    ELSE IF s.promise /= "none"
    THEN /\ session' = [session EXCEPT ![k].cont = 0, ![k].pc = "done"]
         /\ stream' = [stream EXCEPT ![k][i].sender = IF Decodes(status) /\ only = "yes" THEN "closed" ELSE @]
    ELSE /\ session' = [session EXCEPT ![k].cont = 0]
         /\ stream' = [stream EXCEPT ![k][i] =
               [(IF Decodes(status)
                 THEN [s EXCEPT !.promise = "value", !.sender = IF only = "yes" THEN "closed" ELSE @]
                 ELSE Undecoded(s)) EXCEPT !.answered = "yes"]]

\* A field that the type of a frame does not look at is "no".
Frames == {f \in [type : {"Headers", "Continuation", "Data", "RstStream", "GoAway", "Other"},
                  sid : Sids, endStream : {"yes", "no"}, endHeaders : {"yes", "no"},
                  status : {"yes", "no"}] :
              /\ f.endStream = "yes" => f.type \in {"Headers", "Data"}
              /\ f.endHeaders = "yes" => f.type \in {"Headers", "Continuation"}
              /\ f.status = "yes" => f.endHeaders = "yes"}

Keep == UNCHANGED <<session, stream>>

\* One frame; a HEADERS or DATA frame for an unknown stream is answered by RST_STREAM, and
\* SETTINGS, PING, WINDOW_UPDATE and PRIORITY change nothing here.
HandleFrame(k, f) ==
    LET s == stream[k][f.sid]
        block == [session EXCEPT ![k].cont = f.sid, ![k].only = f.endStream]
    IN  CASE f.type = "Headers" ->
                IF s.mapped = "no" THEN Keep
                ELSE IF f.endHeaders = "yes" THEN FinaliseHeaders(k, f.sid, f.endStream, f.status)
                ELSE session' = block /\ UNCHANGED stream
          [] f.type = "Continuation" ->
                IF f.sid /= session[k].cont \/ f.endHeaders = "no" THEN Keep
                ELSE FinaliseHeaders(k, f.sid, session[k].only, f.status)
          [] f.type = "Data" ->
                IF s.mapped = "no" THEN Keep
                ELSE IF s.sender = "closed"      \* send() through a null pointer, or no data
                THEN \/ session' = [session EXCEPT ![k].pc = "crashed"] /\ UNCHANGED stream
                     \/ /\ stream' = [stream EXCEPT ![k][f.sid].mapped = IF f.endStream = "yes" THEN "no" ELSE @]
                        /\ UNCHANGED session
                ELSE /\ stream' = [stream EXCEPT ![k][f.sid] =
                            IF f.endStream = "yes" THEN [s EXCEPT !.sender = "closed", !.mapped = "no"] ELSE s]
                     /\ UNCHANGED session
          [] f.type = "RstStream" -> stream' = [stream EXCEPT ![k][f.sid].mapped = "no"] /\ UNCHANGED session
          [] f.type = "GoAway"    -> session' = [session EXCEPT ![k].pc = "done"] /\ UNCHANGED stream
          [] OTHER -> Keep

ReadFrame(k, f) ==
    /\ session[k].pc = "read"
    /\ IF session[k].cont /= 0 /\ f.type /= "Continuation"
       THEN session' = [session EXCEPT ![k].pc = "done"] /\ UNCHANGED stream
       ELSE HandleFrame(k, f)
    /\ UNCHANGED <<client, call>>

\* The connection ends; the calls that wait are not told.
RunEnds(k) ==
    /\ session[k].pc = "read"
    /\ session' = [session EXCEPT ![k].pc = "done"]
    /\ UNCHANGED <<client, call, stream>>

-----------------------------------------------------------------------------
CallStep(c) == GetSession(c) \/ Connected(c) \/ Http1Ends(c) \/ Request(c) \/ Sent(c) \/ Response(c)

Next == \/ \E c \in Calls : CallStep(c)
        \/ \E k \in Sessions : Preface(k) \/ RunEnds(k) \/ \E f \in Frames : ReadFrame(k, f)

Spec == Init /\ [][Next]_vars

-----------------------------------------------------------------------------
\* A call ends once the header block of its response has come, decodable or not.
Due(c) == call[c].pc = "waiting" /\ stream[call[c].session][call[c].sid].answered = "yes"
Over(c) == call[c].pc \in {"done", "error"}
AnsweredCallsEnd == \A c \in Calls : Due(c) ~> Over(c)

\* Calls on one session never share a stream.
OwnStream ==
    \A c, d \in Calls : (c /= d /\ call[c].sid /= 0 /\ call[c].session = call[d].session)
                          => call[c].sid /= call[d].sid

\* "Response promise - resolved when headers are received"
\* (extensions/http2/src/Http2ClientStream.h:21): a header block with a :status resolves it.
ResolvedByHeaders ==
    \A k \in Sessions, i \in Sids : stream[k][i].answered = "yes" => stream[k][i].promise = "value"
=============================================================================
