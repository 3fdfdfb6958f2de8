------------------------------ MODULE Messages ------------------------------
(***************************************************************************)
(* An HTTP/1.x message from one end to the other: the calls that build it  *)
(* (extensions/http/src/HttpOutgoingMessage.cc), the header text that      *)
(* Http1RequestSink.cc or Http1ResponseSink.cc writes, and HttpParser.cc   *)
(* that reads it line by line on the other side.                           *)
(*                                                                         *)
(* A line is a sequence of tokens: separators are tokens of their own, so  *)
(* that finding, splitting and trimming are what the code does.  The       *)
(* record close stands for !keepAlive of a request and for shouldClose of  *)
(* a response.  Set-Cookie attributes are in Cookies, bodies in            *)
(* Http1Server and HttpClient.                                             *)
(***************************************************************************)
EXTENDS Naturals, Sequences, SequencesExt, FiniteSets

CONSTANTS HeaderNames,  \* lower-case names that the application sets
          HeaderValues, \* values that it gives them, sequences of tokens
          Targets,      \* paths with their query, sequences of tokens
          CookieSets,   \* sequences of pairs <<name, value>>, names distinct
          MaxCalls      \* bound: calls of setters

VARIABLES msg,    \* data_, body_ and bodyWriterFn_ of the outgoing message
          calls,  \* how many setters have been called
          lines,  \* the lines on their way, <<>> the empty one
          st,     \* "building", then state_ of the parser
          data    \* data_ of the parser

vars == <<msg, calls, lines, st, data>>

SP == " "
NoHeaders == [n \in {} |-> <<>>]

\* The names that this code knows, and two that it does not, as it writes them
Canonical == [connection |-> "Connection", cookie |-> "Cookie", x |-> "X"]
             @@ ("content-length" :> "Content-Length") @@ ("set-cookie" :> "Set-Cookie")
             @@ ("transfer-encoding" :> "Transfer-Encoding") @@ ("a/b" :> "A/b")
ToLower(c) == CHOOSE n \in DOMAIN Canonical : Canonical[n] = c
Text(n) == <<ToString(n)>>
Stoul(v) == CHOOSE n \in 0 .. 9 : Text(n) = v

Init ==
    /\ \E dir \in {"request", "response"}, ver \in {"HTTP/1.0", "HTTP/1.1"}, t \in Targets, b \in BOOLEAN :
         msg = [dir |-> dir, version |-> ver, target |-> t, status |-> "200", headers |-> NoHeaders,
                cookies |-> <<>>, len |-> 0, fn |-> FALSE, close |-> b]
    /\ calls = 0 /\ lines = <<>> /\ st = "building"
    /\ data = [headers |-> NoHeaders, cookies |-> <<>>, query |-> <<>>, queries |-> NoHeaders, target |-> <<>>, status |-> "", version |-> "",
               mode |-> "", len |-> 0, close |-> FALSE]

-----------------------------------------------------------------------------
(* Building *)

Set(f, g) == /\ st = "building" /\ calls < MaxCalls
             /\ calls' = calls + 1 /\ msg' = f @@ g /\ UNCHANGED <<lines, st, data>>

\* insert_or_assign: the last value of a name counts
SetHeader == \E n \in HeaderNames, v \in HeaderValues : Set([headers |-> (n :> v) @@ msg.headers], msg)
SetCookies == \E c \in CookieSets : Set([cookies |-> c], msg)
SetBodyText == \E k \in 0 .. 1 : Set([len |-> k, fn |-> FALSE], msg)
SetBodyWriter == Set([len |-> 0, fn |-> TRUE], msg)
SetStatus == msg.dir = "response" /\ Set([status |-> "404"], msg)
\* clear() of a response: the version and shouldClose stay
Clear == msg.dir = "response"
         /\ Set([status |-> "200", headers |-> NoHeaders, cookies |-> <<>>, len |-> 0, fn |-> FALSE], msg)

-----------------------------------------------------------------------------
(* Writing the header *)

\* TransferMode that write() chooses
Mode == IF ~msg.fn THEN "ContentLength" ELSE IF msg.version = "HTTP/1.0" THEN "UntilClose" ELSE "Chunked"

Header(n, v) == <<Canonical[n], ":", SP>> \o v

\* Bug: the application's own Content-Length is written as well
Skipped_Te(n) == n = "transfer-encoding"
Skipped(n) == n \in {"content-length", "transfer-encoding"}

Own == LET ns == SetToSeq({n \in DOMAIN msg.headers : ~Skipped(n)})
       IN  [i \in DOMAIN ns |-> Header(ns[i], msg.headers[ns[i]])]

Framing == CASE Mode = "ContentLength" -> <<Header("content-length", Text(msg.len))>>
             [] Mode = "Chunked" /\ "transfer-encoding" \notin DOMAIN msg.headers -> <<Header("transfer-encoding", <<"chunked">>)>>
             [] OTHER -> <<>>

Pair(c) == <<c[1], "=", c[2]>>
CookieLines ==
    CASE msg.cookies = <<>> -> <<>>
      [] msg.dir = "request" -> <<Header("cookie", FlattenSeq([i \in DOMAIN msg.cookies |->
                                     (IF i = 1 THEN <<>> ELSE <<";", SP>>) \o Pair(msg.cookies[i])]))>>
      [] OTHER -> [i \in DOMAIN msg.cookies |-> Header("set-cookie", Pair(msg.cookies[i]))]

\* Bug: an HTTP/1.0 message says nothing of keeping the connection
NeedKeepAlive_Never(close) == FALSE
NeedKeepAlive(close) == ~close /\ msg.version = "HTTP/1.0"
ConnectionLine ==
    LET close == msg.close \/ (msg.dir = "response" /\ Mode = "UntilClose")
        said == IF close /\ msg.version /= "HTTP/1.0" THEN "close" ELSE IF NeedKeepAlive(close) THEN "keep-alive" ELSE ""
    IN  IF said = "" \/ "connection" \in DOMAIN msg.headers THEN <<>> ELSE <<Header("connection", <<said>>)>>

StartLine == IF msg.dir = "request" THEN <<"GET", SP>> \o msg.target \o <<SP, msg.version>>
                                    ELSE <<msg.version, SP, msg.status, SP, "reason">>

BuildHeaderBuf == /\ st = "building"
                  /\ lines' = <<StartLine>> \o Own \o Framing \o CookieLines \o ConnectionLine \o <<<<>>>>
                  /\ st' = "ExpectStatusLine" /\ UNCHANGED <<msg, calls, data>>

-----------------------------------------------------------------------------
(* Parsing *)

\* find(): the first place of t in s, 0 for npos
Find(s, t) == IF Contains(s, t) THEN SelectInSeq(s, LAMBDA e : e = t) ELSE 0
Before(s, i) == IF i = 0 THEN s ELSE SubSeq(s, 1, i - 1)
After(s, i) == SubSeq(s, i + 1, Len(s))

\* The non-empty part of s between spaces at its ends
Trim(s) == LET I == {i \in DOMAIN s : s[i] /= SP}
           IN  IF I = {} THEN <<>> ELSE SubSeq(s, CHOOSE i \in I : \A j \in I : i <= j, CHOOSE i \in I : \A j \in I : j <= i)

\* The parts of s between separators t, in the order the loops of the parsers find them
Parts(s, t) == LET at == SetToSortSeq({0} \cup {i \in DOMAIN s : s[i] = t}, <)
               IN  [k \in DOMAIN at |-> SubSeq(s, at[k] + 1, IF k < Len(at) THEN at[k + 1] - 1 ELSE Len(s))]
\* The part p as a pair
Key(p) == Before(p, Find(p, "="))
Value(p) == After(p, Find(p, "="))
HasValue(p) == Contains(p, "=")

\* %20 is a space; the rest of decoding is in Codecs
UrlDecode(s) == [i \in DOMAIN s |-> IF s[i] = "%20" THEN SP ELSE s[i]]

\* parseQueryString(): queries keeps the first value of a key
ParseQueryString(q) ==
    LET ps == SelectSeq(Parts(q, "&"), HasValue)
        First(k) == SelectInSeq(ps, LAMBDA p : UrlDecode(Key(p)) = k)
    IN  [k \in {UrlDecode(Key(ps[i])) : i \in DOMAIN ps} |-> UrlDecode(Value(ps[First(k)]))]

\* multiQueries(): parsed from the query again, all the values of a key; a key alone has none
MultiQueries(q) ==
    LET ps == SelectSeq(Parts(q, "&"), LAMBDA p : p /= <<>>)
        Of(k) == SelectSeq(ps, LAMBDA p : HasValue(p) /\ UrlDecode(Key(p)) = k)
    IN  [k \in {UrlDecode(Key(ps[i])) : i \in DOMAIN ps} |-> [j \in DOMAIN Of(k) |-> UrlDecode(Value(Of(k)[j]))]]

Fail == st' = "Error" /\ UNCHANGED data

\* parseRequestLine()
ParseRequestLine(l) ==
    LET p1 == Find(l, SP)   rest == After(l, p1)   p2 == Find(rest, SP)
        full == Before(rest, p2)   q == Find(full, "?")
        query == IF q = 0 THEN <<>> ELSE After(full, q)
        path == IF Before(full, q) = <<>> THEN <<"/">> ELSE UrlDecode(Before(full, q))
    IN  IF p1 = 0 \/ p2 = 0 \/ After(rest, p2) \notin {<<"HTTP/1.0">>, <<"HTTP/1.1">>} THEN Fail
        ELSE /\ st' = "ExpectHeader"
             /\ data' = [data EXCEPT !.version = Last(l), !.target = path, !.query = query,
                                     !.queries = ParseQueryString(query)]

\* parseStatusLine()
ParseStatusLine(l) ==
    LET p == Find(l, SP)
    IN  IF p = 0 \/ Before(l, p) \notin {<<"HTTP/1.0">>, <<"HTTP/1.1">>} THEN Fail
        ELSE st' = "ExpectHeader" /\ data' = [data EXCEPT !.version = l[1], !.status = l[3]]

IsValidToken(s) == Len(s) = 1 /\ s /= <<"A/b">>

\* parseCookies(): Cookie of a request, all pairs with a name; Set-Cookie of a response, one more
ParseCookies(v) == {<<Trim(Key(p)), Trim(Value(p))>> : p \in {p \in Range(Parts(v, ";")) : HasValue(p) /\ Trim(Key(p)) /= <<>>}}

\* Bug: the name ends at the last colon
ColonPos_Last(l) == CHOOSE i \in DOMAIN l : l[i] = ":" /\ ~Contains(After(l, i), ":")
ColonPos(l) == Find(l, ":")

\* parseHeader(): the first of several headers counts; two lengths that differ are an error in a request
ParseHeader(l) ==
    LET name == Trim(Before(l, ColonPos(l)))   v == Trim(After(l, ColonPos(l)))
    IN  IF ColonPos(l) = 0 \/ ~IsValidToken(name) THEN UNCHANGED <<st, data>>
        ELSE LET n == ToLower(name[1]) IN
             CASE <<n, msg.dir>> \in {<<"cookie", "request">>, <<"set-cookie", "response">>} ->
                    data' = [data EXCEPT !.cookies = Append(@, ParseCookies(v))] /\ UNCHANGED st
               [] n = "content-length" /\ msg.dir = "request" /\ n \in DOMAIN data.headers /\ data.headers[n] /= v -> Fail
               [] OTHER -> data' = [data EXCEPT !.headers = @ @@ (n :> v)] /\ UNCHANGED st

\* processTransferMode()
TransferMode(h) ==
    CASE "transfer-encoding" \in DOMAIN h /\ h["transfer-encoding"] = <<"chunked">> -> [mode |-> "Chunked", len |-> 0]
      [] "transfer-encoding" \in DOMAIN h /\ h["transfer-encoding"] \notin {<<"chunked">>, <<"identity">>} -> [mode |-> "Error", len |-> 0]
      [] "content-length" \in DOMAIN h /\ h["content-length"] \notin {Text(n) : n \in 0 .. 9} -> [mode |-> "Error", len |-> 0]
      [] OTHER -> IF "content-length" \in DOMAIN h THEN [mode |-> "ContentLength", len |-> Stoul(h["content-length"])]
                  ELSE [mode |-> IF msg.dir = "request" THEN "ContentLength" ELSE "UntilClose", len |-> 0]

\* processKeepAlive() and processConnectionClose()
ConnectionClose(h) ==
    IF "connection" \in DOMAIN h
    THEN IF msg.dir = "request" THEN h.connection /= <<"keep-alive">> ELSE h.connection = <<"close">>
    ELSE data.version = "HTTP/1.0"

ProcessHeaders ==
    LET m == TransferMode(data.headers)
    IN  IF m.mode = "Error" THEN Fail
        ELSE st' = "HeaderComplete" /\ data' = [data EXCEPT !.mode = m.mode, !.len = m.len, !.close = ConnectionClose(data.headers)]

FeedLine == /\ lines /= <<>> /\ st \in {"ExpectStatusLine", "ExpectHeader"}
            /\ lines' = Tail(lines)
            /\ \/ st = "ExpectStatusLine" /\ msg.dir = "request" /\ ParseRequestLine(Head(lines))
               \/ st = "ExpectStatusLine" /\ msg.dir = "response" /\ ParseStatusLine(Head(lines))
               \/ st = "ExpectHeader" /\ Head(lines) /= <<>> /\ ParseHeader(Head(lines))
               \/ st = "ExpectHeader" /\ Head(lines) = <<>> /\ ProcessHeaders
            /\ UNCHANGED <<msg, calls>>

Next == SetHeader \/ SetCookies \/ SetBodyText \/ SetBodyWriter \/ SetStatus \/ Clear \/ BuildHeaderBuf \/ FeedLine

Spec == Init /\ [][Next]_vars

-----------------------------------------------------------------------------
(* Properties *)

SentCookies == {<<<<msg.cookies[i][1]>>, <<msg.cookies[i][2]>>>> : i \in DOMAIN msg.cookies}
Valid == {n \in DOMAIN msg.headers : ~Skipped(n) /\ IsValidToken(<<Canonical[n]>>)}

\* The parser on the other side accepts every message that the sinks write, whatever the order
\* of the calls that built it, and reads back the headers, the cookies and, unless the
\* application set Connection itself, whether the connection stays open.  queries() holds the
\* first of the values that multiQueries() finds in the same text.
ParsedAsSent ==
    /\ st /= "Error"
    /\ st = "HeaderComplete" =>
         /\ \A n \in Valid : n \in DOMAIN data.headers /\ data.headers[n] = Trim(msg.headers[n])
         /\ UNION {data.cookies[i] : i \in DOMAIN data.cookies} = SentCookies
         /\ LET all == MultiQueries(data.query) IN
            /\ DOMAIN data.queries = {k \in DOMAIN all : all[k] /= <<>>}
            /\ \A k \in DOMAIN data.queries : data.queries[k] = all[k][1]
         /\ msg.dir = "response" => data.status = msg.status
         /\ "connection" \in DOMAIN msg.headers
            \/ data.close = (msg.close \/ (msg.dir = "response" /\ Mode = "UntilClose"))

\* The reader frames the body as the writer did: "setBody(fn) produces Transfer-Encoding:
\* chunked and no Content-Length" (http_outgoing_message_test.cc:65).  A streamed HTTP/1.0
\* request is left out: nothing marks the end of its body.
FramingAsSent ==
    st = "HeaderComplete" /\ ~(msg.dir = "request" /\ Mode = "UntilClose")
      => data.mode = Mode /\ data.len = msg.len
=============================================================================
