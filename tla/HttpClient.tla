------------------------------ MODULE HttpClient ------------------------------
(***************************************************************************)
(* HttpClient: its pool of idle connections and the requests of several    *)
(* coroutines on it (extensions/http/src/HttpClient.cc, the response       *)
(* parser of HttpParser.cc, Http1RequestSink.cc, HttpIncomingStream.cc).   *)
(*                                                                         *)
(* The server is external: it answers the requests of a connection in      *)
(* order with a response of any framing, and may close at any time, also   *)
(* in the middle of one.  What it sent is a head and pieces of body.       *)
(***************************************************************************)
EXTENDS Naturals, Sequences

CONSTANTS Calls, Conns, None,
          MaxIdle    \* HttpClientConfig::max_idle_connections

VARIABLES link,   \* the connections, with what is in flight in both directions
          call,   \* the coroutines in get(), post() or request()
          idle,   \* idleConnections_
          lock    \* the owner of mutex_

vars == <<link, call, idle, lock>>

NoLink  == [st |-> "none", up |-> <<>>, down |-> <<>>, fin |-> "no", hup |-> "no"]
NewCall == [pc |-> "idle", whole |-> "yes", k |-> None, of |-> None, mode |-> "none", left |-> 0,
            close |-> "no"]

Init ==
    /\ link = [k \in Conns |-> NoLink] /\ call = [c \in Calls |-> NewCall]
    /\ idle = <<>> /\ lock = None

-----------------------------------------------------------------------------
\* The server and the kernel

BodyOf(mode) ==
    CASE mode = "none" -> <<>> [] mode = "length" -> <<"data", "data">>
      [] mode = "chunked" -> <<"data", "last">> [] mode = "untilclose" -> <<"data">>

ServerAnswers(k) ==
    /\ link[k].up /= <<>> /\ link[k].fin = "no"
    /\ \E mode \in {"none", "length", "chunked", "untilclose"}, close \in {"yes", "no"} :
          LET head == [of |-> Head(link[k].up), mode |-> mode, close |-> close]
              tokens == [i \in 1..Len(BodyOf(mode)) |-> [head EXCEPT !.mode = BodyOf(mode)[i]]]
          IN  \E n \in 0..Len(tokens) :
                 link' = [link EXCEPT ![k].up = Tail(@), ![k].down = @ \o <<head>> \o SubSeq(tokens, 1, n),
                                      ![k].fin = IF n < Len(tokens) \/ mode = "untilclose" \/ close = "yes"
                                                 THEN "yes" ELSE "no"]
    /\ UNCHANGED <<call, idle, lock>>

ServerCloses(k) ==
    /\ link[k].st = "open" /\ link[k].fin = "no"
    /\ link' = [link EXCEPT ![k].fin = "yes"]
    /\ UNCHANGED <<call, idle, lock>>

\* The EPOLLRDHUP event that makes peerClosed() true.
Hangup(k) ==
    /\ link[k].fin = "yes" /\ link[k].hup = "no"
    /\ link' = [link EXCEPT ![k].hup = "yes"]
    /\ UNCHANGED <<call, idle, lock>>

-----------------------------------------------------------------------------
\* The client

\* A call ends; its stream is dropped, unless releaseConnection() has kept it.
Ended(c, l) == call' = [call EXCEPT ![c] = NewCall] /\ link' = l
Dropped(ks) == [k \in Conns |-> IF k \in ks THEN NoLink ELSE link[k]]

Start(c) ==
    /\ call[c].pc = "idle"
    /\ \E w \in {"yes", "no"} : call' = [call EXCEPT ![c].pc = "acquire", ![c].whole = w]
    /\ UNCHANGED <<link, idle, lock>>

\* Bug: the connection stays in the pool.
Rest_Keeps(i) == idle
Rest(i) == SubSeq(idle, i + 1, Len(idle))

\* acquireConnection(): idle connections that are too old or whose peer has closed are
\* dropped, up to the first usable one.  connect() runs with the lock held.
Acquire(c) ==
    /\ call[c].pc = "acquire" /\ lock = None
    /\ \E old \in SUBSET {idle[i] : i \in DOMAIN idle} :
          LET Usable(i) == idle[i] \notin old /\ link[idle[i]].hup = "no" IN
          \/ /\ \A i \in DOMAIN idle : ~Usable(i)
             /\ link' = Dropped({idle[i] : i \in DOMAIN idle}) /\ idle' = <<>> /\ lock' = c
             /\ call' = [call EXCEPT ![c].pc = "connect"]
          \/ \E i \in DOMAIN idle :
                /\ Usable(i) /\ \A j \in 1..i - 1 : ~Usable(j)
                /\ link' = Dropped({idle[j] : j \in 1..i - 1}) /\ idle' = Rest(i)
                /\ call' = [call EXCEPT ![c].pc = "send", ![c].k = idle[i]]
                /\ UNCHANGED lock

\* Bug: an exception of connect() leaves the pool locked.
Unlocked_Not == lock
Unlocked     == None

\* connect() and the release of the lock; resolving or connecting may throw.
Connect(c) ==
    /\ call[c].pc = "connect"
    /\ \/ \E k \in Conns : /\ link[k] = NoLink
                           /\ link' = [link EXCEPT ![k].st = "open"]
                           /\ call' = [call EXCEPT ![c].pc = "send", ![c].k = k]
                           /\ lock' = None
       \/ Ended(c, link) /\ lock' = Unlocked
    /\ UNCHANGED idle

Fail(c) == Ended(c, Dropped({call[c].k})) /\ UNCHANGED <<idle, lock>>

\* doRequest() writes the request; the write may fail when the server has gone.
SendRequest(c) ==
    LET k == call[c].k IN
    /\ call[c].pc = "send"
    /\ \/ /\ link' = [link EXCEPT ![k].up = Append(@, c)]
          /\ call' = [call EXCEPT ![c].pc = "head"]
          /\ UNCHANGED <<idle, lock>>
       \/ link[k].fin = "yes" /\ Fail(c)

\* Bug: get() and post() return the connection once the head is there.
Complete_AtHead(mode) == TRUE
\* Http1BodyReader::create() gives a body of length 0 a reader that is complete at once.
Complete(mode) == mode = "none"

\* The body is read: a connection the server keeps is released, the others are dropped.
Finish(c, r, l) ==
    IF r.whole = "yes" /\ r.close = "no"
    THEN call' = [call EXCEPT ![c] = [r EXCEPT !.pc = "release"]] /\ link' = l
    ELSE Ended(c, [l EXCEPT ![r.k] = NoLink])

\* parseResponse(): a head, the end of the stream, or something that is not a head.
ParseHead(c) ==
    LET k == call[c].k
        d == link[k].down
        h == Head(d)
        r == [call[c] EXCEPT !.pc = "body", !.of = h.of, !.mode = h.mode, !.close = h.close,
                              !.left = IF h.mode = "length" THEN 2 ELSE 0]
        l == [link EXCEPT ![k].down = Tail(@)]
    IN
    /\ call[c].pc = "head"
    /\ \/ /\ d /= <<>> /\ h.mode \notin {"data", "last"}
          /\ IF Complete(h.mode) THEN Finish(c, r, l) ELSE call' = [call EXCEPT ![c] = r] /\ link' = l
          /\ UNCHANGED <<idle, lock>>
       \/ (IF d = <<>> THEN link[k].fin = "yes" ELSE h.mode \in {"data", "last"}) /\ Fail(c)

\* readToEnd(): Content-Length ends with its last byte, chunked with the last chunk, and a
\* body without either with the connection.  A body cut short throws.
ReadBody(c) ==
    LET k == call[c].k
        d == link[k].down
        m == call[c].mode
        l == [link EXCEPT ![k].down = Tail(@)]
        last == (m = "length" /\ call[c].left = 1) \/ (m = "chunked" /\ Head(d).mode = "last")
    IN
    /\ call[c].pc = "body"
    /\ \/ /\ d /= <<>>
          /\ IF last THEN Finish(c, call[c], l)
             ELSE link' = l /\ call' = [call EXCEPT ![c].left = IF m = "length" THEN @ - 1 ELSE 0]
          /\ UNCHANGED <<idle, lock>>
       \/ /\ d = <<>> /\ link[k].fin = "yes"
          /\ IF m = "untilclose" THEN Finish(c, call[c], link) /\ UNCHANGED <<idle, lock>> ELSE Fail(c)

\* The caller of request() drops the response without reading its body.
Abandon(c) == call[c].pc = "body" /\ call[c].whole = "no" /\ Fail(c)

\* releaseConnection()
Release(c) ==
    LET k == call[c].k IN
    /\ call[c].pc = "release" /\ lock = None
    /\ IF Len(idle) < MaxIdle THEN idle' = Append(idle, k) /\ Ended(c, link)
       ELSE Ended(c, Dropped({k})) /\ UNCHANGED idle
    /\ UNCHANGED lock

-----------------------------------------------------------------------------
CallStep(c) ==
    Acquire(c) \/ Connect(c) \/ SendRequest(c) \/ ParseHead(c) \/ ReadBody(c) \/ Release(c)

Next ==
    \/ \E k \in Conns : ServerAnswers(k) \/ ServerCloses(k) \/ Hangup(k)
    \/ \E c \in Calls : Start(c) \/ Abandon(c) \/ CallStep(c)

Spec == Init /\ [][Next]_vars

-----------------------------------------------------------------------------
\* A call gets the response to its own request, also on a connection others used before.
OwnResponse == \A c \in Calls : call[c].of \in {None, c}

\* A pooled connection has nothing in flight, is pooled once and is used by no call; its peer
\* may have closed it.
PoolIsClean ==
    /\ Len(idle) <= MaxIdle
    /\ \A i, j \in DOMAIN idle : idle[i] = idle[j] => i = j
    /\ \A i \in DOMAIN idle : LET x == link[idle[i]] IN
          x.st = "open" /\ x.up = <<>> /\ x.down = <<>> /\ \A c \in Calls : call[c].k /= idle[i]

\* HttpClient: a call gets the response to its own request, and a pooled connection is clean.
ClientSafe == OwnResponse /\ PoolIsClean

\* Every call ends, with a response or an exception, when the server answers or closes.
Due(c) == call[c].pc = "acquire"
Over(c) == call[c].pc = "idle"
CallsEnd == \A c \in Calls : Due(c) ~> Over(c)
=============================================================================
