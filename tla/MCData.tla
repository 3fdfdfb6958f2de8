------------------------------- MODULE MCData -------------------------------
(***************************************************************************)
(* Tables, caches, pools and text, one component at a time: StringBuffer,  *)
(* the registration of file descriptors, the PostgreSQL pool, routing, the *)
(* cache of StaticFiles, the cookie store, HTTP/1.x messages, the codecs   *)
(* and HPACK. A behaviour picks one of them and stays with it.             *)
(***************************************************************************)
EXTENDS StringBuffer, Sequences, SequencesExt

CONSTANT Running  \* the components to check
CONSTANTS Fds,
          Extras  \* headers that Http2Session encodes after the application's own

VARIABLES which,  \* the component that runs, chosen at the start
          v1, v2, v3, v4, v5, v6, v7, v8, v9, v10, v11  \* its variables

L(t) == <<"lit", t>>
P1(n) == <<"par", n>>
W(n) == <<"wild", n>>
Routes == {<<L("a"), L("b")>>, <<L("a"), P1(1)>>, <<P1(2), L("b")>>, <<P1(1), L("b"), P1(2)>>, <<L("a"), W(3)>>,
           <<P1(1), W(3)>>, <<L("a"), L("b"), P1(3)>>, <<L("a"), P1(2), L("b")>>}
Requested == {<<"a", "b">>, <<"a", "c">>, <<"c", "b">>, <<"a", "">>, <<"a">>, <<"a", "b", "c">>, <<"a", "c", "b">>,
              <<"c", "c", "c">>, <<"a", "b", "">>, <<"a", "", "b">>}
ReMatches(r, p) == Len(p) = 1 \/ p[1] = "c"
GzOf(f) == "f.gz"
Texts == {<<"5">>, <<"close">>, <<"a", ":", "b", " ", "c">>}
Targets == {<<"/">>, <<"?", "k", "=", "%20", "&", "k">>, <<"/", "%20", "?", "k", "=", "v", "=", "w", "&", "k", "=", "u">>}
Bytes == BoundedSeq({97, 32, 43, 37, 50, 70, 47, 255}, 3) \ {<<>>}
Boundaries == {0, 1, 14, 15, 16, 30, 31, 32, 62, 63, 64, 125, 126, 127, 128, 129, 254, 255, 256, 16383, 16384,
               16510, 16511, 16512, 65535, 65536, 2097151}
Field(n, v) == [name |-> n, value |-> v]
StaticTable == <<Field("status", "200"), Field("status", "404"), Field("ct", "")>>
Fields == {Field("ct", "a"), Field("x", "a"), Field("x", "big")}
Responses == [status : {Field("status", "200"), Field("status", "500")},
              headers : {<<>>, <<Field("x", "a"), Field("ct", "a")>>} \cup {<<h>> : h \in Fields}, extras : Extras]
NoExtras == {<<>>}
SomeExtras == {<<>>, <<Field("cl", "1")>>}
SizeOf(e) == IF e.value = "big" THEN 3 ELSE 1

I == INSTANCE IoRegistry WITH
     Fds <- Fds, MaxId <- 4, nextId <- v1, fdOf <- v2, guard <- v3, home <- v4, life <- v5,
     wants <- v6, open <- v7, kern <- v8, ctx <- v9, queue <- v10, batch <- v11
P == INSTANCE Pg WITH
     Clients <- {"a", "b"}, Conns <- {"x", "y"}, MaxSize <- 1, None <- "none", pool <- v1,
     client <- v2, conn <- v3
R == INSTANCE Router WITH
     Patterns <- Routes, Regexes <- {<<<<"re", "r">>>>}, RegexMatches <- ReMatches,
     Paths <- Requested, Methods <- {"GET", "HEAD", "POST"}, MethodSets <- {{"GET"}, {"POST"}},
     MaxSegments <- 32, MaxRoutes <- 3, kind <- v1, exact <- v2, radix <- v3, regex <- v4,
     added <- v5
F == INSTANCE StaticFiles WITH
     Files <- {"f"}, Gz <- GzOf, Sizes <- {1, 2, 3}, MaxFileSize <- 2, MaxCacheSize <- 3, Ttl <- 1,
     ChunkSize <- 2, MaxVersion <- 2, MaxTime <- 2, disk <- v1, now <- v2, lru <- v3, size <- v4,
     req <- v5, resp <- v6
K == INSTANCE Cookies WITH
     Names <- {"s"}, Values <- {1, 2}, CookiePaths <- {<<"">>, <<"a">>},
     RequestPaths <- {<<"a", "x">>, <<"a">>, <<"ab">>, <<"">>}, Ages <- {-1, 0, 1},
     Dates <- {-2, -1, 1}, Https <- FALSE, MaxTime <- 2, MaxResponses <- 2, now <- v1,
     entries <- v2, meant <- v3, n <- v4
M == INSTANCE Messages WITH
     HeaderNames <- {"connection", "content-length", "x", "a/b"}, HeaderValues <- Texts,
     Targets <- Targets, CookieSets <- {<<<<"s", "1">>>>, <<<<"s", "1">>, <<"t", "2">>>>},
     MaxCalls <- 3, msg <- v1, calls <- v2, lines <- v3, st <- v4, data <- v5
C == INSTANCE Codecs WITH
     Texts <- Bytes, Numbers <- Boundaries,
     Strings <- [n : {0, 126, 127, 128, 300}, huff : {0, 126, 127, 128, 300}], case <- v1,
     wire <- v2, back <- v3
H == INSTANCE Hpack WITH
     Static <- StaticTable, Responses <- Responses, Fields <- Fields, EntrySize <- SizeOf,
     MaxTable <- 2, MaxBlocks <- 3, enc <- v1, dec <- v2, foreign <- v3, wire <- v4, wrong <- v5,
     encoded <- v6

\* Variables that a component with k of them does not use
Rest3 == <<v4, v5, v6, v7, v8, v9, v10, v11>>
Rest4 == <<v5, v6, v7, v8, v9, v10, v11>>
Rest5 == <<v6, v7, v8, v9, v10, v11>>
Rest6 == <<v7, v8, v9, v10, v11>>
slots == <<v1, v2, v3, v4, v5, v6, v7, v8, v9, v10, v11>>
all == <<vars, which, slots>>

\* A variable that is not used
Idle6 == v7 = 0 /\ v8 = 0 /\ v9 = 0 /\ v10 = 0 /\ v11 = 0
Idle5 == v6 = 0 /\ Idle6
Idle4 == v5 = 0 /\ Idle5
Idle3 == v4 = 0 /\ Idle4
Idle0 == v1 = 0 /\ v2 = 0 /\ v3 = 0 /\ Idle3

MCInit ==
    /\ Init
    /\ \/ which = "buffer" /\ Idle0
       \/ which = "registry" /\ I!Init
       \/ which = "pool" /\ P!Init /\ Idle3
       \/ which = "router" /\ R!Init /\ Idle5
       \/ which = "files" /\ F!Init /\ Idle6
       \/ which = "cookies" /\ K!Init /\ Idle4
       \/ which = "messages" /\ M!Init /\ Idle5
       \/ which = "codecs" /\ C!Init /\ Idle3
       \/ which = "hpack" /\ H!Init /\ Idle6
    /\ which \in Running

\* A step of the component that runs
Base(A) == which = "buffer" /\ A /\ UNCHANGED <<which, slots>>
InI(A) == which = "registry" /\ A /\ UNCHANGED <<which, vars>>
InP(A) == which = "pool" /\ A /\ UNCHANGED <<which, vars, Rest3>>
InR(A) == which = "router" /\ A /\ UNCHANGED <<which, vars, Rest5>>
InF(A) == which = "files" /\ A /\ UNCHANGED <<which, vars, Rest6>>
InK(A) == which = "cookies" /\ A /\ UNCHANGED <<which, vars, Rest4>>
InM(A) == which = "messages" /\ A /\ UNCHANGED <<which, vars, Rest5>>
InC(A) == which = "codecs" /\ A /\ UNCHANGED <<which, vars, Rest3>>
InH(A) == which = "hpack" /\ A /\ UNCHANGED <<which, vars, Rest6>>

MCNext == \/ Base(Next)
          \/ InI(I!Next)
          \/ InP(P!Next)
          \/ InR(R!Next)
          \/ InF(F!Next)
          \/ InK(K!Next)
          \/ InM(M!Next)
          \/ InC(C!Next)
          \/ InH(H!Next)

MCSpec == MCInit /\ [][MCNext]_all

\* No definition tells one fd number from another.
FdSymmetry == Permutations(Fds)

-----------------------------------------------------------------------------

\* Scheduler and Channel: a registration that is wanted is there, addedToEpoll is what epoll
\* thinks, an event goes to the Channel whose file it is about, removal finds its entry when
\* the Channel was made on the loop's thread with a guard, and the guard keeps the file open.
RegistrySafe == which = "registry" => /\ I!EnabledIsRegistered /\ I!AddedIsTrue /\ I!EventIsForItsFile
                                      /\ I!RemoveFindsEntry /\ I!GuardKeepsFile

\* The assert of Scheduler.cc:309, for every Channel with a guard that the loop is about to
\* remove with a queued closure.
RemoveAssert == which = "registry" => I!RemoveAssert

\* PgPool: connections are idle, lent, being made or counted once, nobody waits beside an idle
\* connection or a free place, and a pooled connection is in no transaction.
PoolSafe == which = "pool" => P!PoolAccounting /\ P!NobodyWaitsInVain /\ P!PooledIsClean

\* PgPool::acquire(): "When cancelled, the wait is aborted and PgTimeoutError is thrown"
\* (extensions/pg/include/nitrocoro/pg/PgPool.h:36), and nothing else ends by it.
CancelIsSafe == which = "pool" => P!CancelIsSafe

\* Router: a match is a route whose pattern fits the path, with its parameters, and a path
\* that some route fits is not reported as unknown.
RoutesFound == which = "router" => R!RightRoute /\ R!NoRouteMissed

\* Router: "same path registered twice with different methods -> both work"
\* (extensions/http/tests/http_router_test.cc:381): a request gets the handler of its method.
HandlerOfMethod == which = "router" => R!HandlerOfMethod

\* StaticFiles: size_ is what the cached bodies add up to and within its limit, and a hit is
\* the file as it was when its validity was last tested.
CacheSafe == which = "files" => F!CacheAccounting /\ F!HitIsCurrent

\* StaticFiles: "File exceeding cache_max_file_size is not cached: always reads from disk"
\* (extensions/http/tests/static_files_test.cc:488): such a response is the whole file.
WholeBody == which = "files" => F!WholeBody

\* MemoryCookieStore: "Remove existing entry with same name+path" (CookieStore.cc:35): of the
\* cookies of one name and path the last one counts, deleted and expired ones included.
LastCookieWins == which = "cookies" => K!LastCookieWins

\* HTTP/1.x: the parser reads back the message that the sinks wrote, and frames its body alike.
MessagesAgree == which = "messages" => M!ParsedAsSent /\ M!FramingAsSent

\* "setBody(fn) produces Transfer-Encoding: chunked and no Content-Length"
\* (extensions/http/tests/http_outgoing_message_test.cc:65).
FramingAsSent == which = "messages" => M!FramingAsSent

\* Percent encoding, base64, HPACK integers and strings, WebSocket lengths: decoding gives back
\* what was encoded, at every boundary of a prefix or a group.
CodecsRoundTrip == which = "codecs" => C!TextRoundTrip /\ C!LengthRoundTrip

\* HPACK: the table sizes are exact and within their limits, and a block is decoded to the
\* fields that were encoded.
HpackAgrees == which = "hpack" => H!SizeIsExact /\ H!DecodedAsEncoded

\* A response's headers arrive as they were set: getHeader("x-custom") is "myvalue"
\* (extensions/http2/tests/http2_client_test.cc:217), also behind a response with content-length.
DecodedAsEncoded == which = "hpack" => H!DecodedAsEncoded
=============================================================================
