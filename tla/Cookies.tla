------------------------------- MODULE Cookies -------------------------------
(***************************************************************************)
(* Cookies on their way from a server to a client's MemoryCookieStore and  *)
(* back: Cookie::toString() writes a Set-Cookie line, Cookie::fromString() *)
(* reads it, store() keeps it and load() with injectCookies() puts it into *)
(* a later request.                                                        *)
(*                                                                         *)
(* A path is the sequence of the strings between its slashes ("/a/" is     *)
(* <<"a", "">>, "/" is <<"">>, no path is <<>>).  A Set-Cookie line is the *)
(* sequence of its attributes.                                             *)
(***************************************************************************)
EXTENDS Integers, Sequences, SequencesExt

CONSTANTS Names, Values,
          CookiePaths,   \* Path attributes servers send; <<>> is none
          RequestPaths,  \* paths of requests
          Ages,          \* Max-Age: -1 is none
          Dates,         \* Expires: seconds, NoDate, or BadDate for one that cannot be parsed
          Https,         \* the client's connection is https
          MaxTime,       \* bound: seconds
          MaxResponses   \* bound: responses with cookies

VARIABLES now,      \* system_clock
          entries,  \* entries_ of the store
          meant,    \* history: the last cookie the server set, per name and path
          n         \* responses so far

vars == <<now, entries, meant, n>>

NoDate  == -2
BadDate == -1

Cookies == [name : Names, value : Values, path : CookiePaths, maxAge : Ages, expires : Dates, secure : BOOLEAN]

NoCookie == [name |-> "", value |-> "", path |-> <<>>, maxAge |-> -1, expires |-> NoDate, secure |-> FALSE]

Init == now = 0 /\ entries = <<>> /\ meant = <<>> /\ n = 0

Tick ==
    /\ now < MaxTime
    /\ now' = now + 1
    /\ UNCHANGED <<entries, meant, n>>

-----------------------------------------------------------------------------
\* The line

Attr(there, a, v) == IF there THEN <<<<a, v>>>> ELSE <<>>

CookieToString(c) ==
    <<<<c.name, c.value>>>>
    \o Attr(c.expires # NoDate, "expires", c.expires) \o Attr(c.maxAge >= 0, "max-age", c.maxAge)
    \o Attr(c.path # <<>>, "path", c.path) \o Attr(c.secure, "secure", TRUE)

\* One attribute of the line
Apply(c, a) ==
    CASE a[1] = "secure"  -> [c EXCEPT !.secure = TRUE]
      [] a[1] = "path"    -> [c EXCEPT !.path = a[2]]
      [] a[1] = "expires" -> [c EXCEPT !.expires = a[2]]
      [] a[1] = "max-age" -> [c EXCEPT !.maxAge = a[2]]
      [] OTHER            -> c

CookieFromString(line) ==
    FoldLeft(Apply, [NoCookie EXCEPT !.name = line[1][1], !.value = line[1][2]], Tail(line))

-----------------------------------------------------------------------------
\* MemoryCookieStore

Forever == MaxTime + 1

\* time_point::min() for a bad date
ParseHttpDate(d) == IF d = BadDate THEN -1 ELSE d

ExpiresAt(c) == IF c.maxAge > 0 THEN now + c.maxAge
                ELSE IF c.expires # NoDate THEN ParseHttpDate(c.expires) ELSE Forever

IsExpired(e) == now >= e.expiresAt

\* The directory of the request's path
DefaultPath(path) == Append(Front(path), "")

\* A cookie replaces the entry of its name and path, as the cookie gives it.
\* Bug: only the name is compared.
Same_Name(e, c) == e.cookie.name = c.name
Same(e, c)      == e.cookie.name = c.name /\ e.cookie.path = c.path

Entry(c, path) == [cookie |-> [c EXCEPT !.path = IF @ = <<>> THEN DefaultPath(path) ELSE @],
                   expiresAt |-> ExpiresAt(c)]

Store(path, c) ==
    LET live == SelectSeq(entries, LAMBDA e : ~IsExpired(e))
        rest == SelectSeq(live, LAMBDA e : ~Same(e, c))
    IN  entries' = IF c.maxAge = 0 THEN rest ELSE Append(rest, Entry(c, path))

\* path.starts_with(cookiePath), up to a slash
PathMatches(cookiePath, path) ==
    LET k == Len(cookiePath)
    IN  /\ Len(path) >= k
        /\ \A i \in 1..(k - 1) : path[i] = cookiePath[i]
        /\ cookiePath[k] \in {"", path[k]}

Load(path) == SelectSeq(entries, LAMBDA e : ~IsExpired(e) /\ PathMatches(e.cookie.path, path))

\* A response to a request for path sets the cookie c.
Response(path, c) ==
    LET got == CookieFromString(CookieToString(c))
        key == <<c.name, Entry(c, path).cookie.path>>
    IN
    /\ n < MaxResponses /\ n' = n + 1
    /\ Store(path, got)
    /\ meant' = [k \in DOMAIN meant \union {key} |-> IF k = key THEN Entry(c, path) ELSE meant[k]]
    /\ UNCHANGED now

\* injectCookies(): a secure cookie goes over https only
InjectCookies(path) == SelectSeq(Load(path), LAMBDA e : e.cookie.secure => Https)

Next == Tick \/ \E path \in RequestPaths, c \in Cookies : Response(path, c)

Spec == Init /\ [][Next]_vars

-----------------------------------------------------------------------------
\* What the server expects back: the last cookie it set for each name and path, unless it has
\* expired or was deleted by Max-Age=0
Wanted(path) ==
    {meant[k] : k \in {x \in DOMAIN meant : /\ meant[x].cookie.maxAge # 0 /\ ~IsExpired(meant[x])
                                            /\ meant[x].cookie.secure => Https
                                            /\ PathMatches(meant[x].cookie.path, path)}}

\* "Remove existing entry with same name+path" (CookieStore.cc:35): every later request carries the
\* last value the server set for each name and path and no other one, through replacement,
\* deletion and expiry.
LastCookieWins ==
    \A path \in RequestPaths :
        LET sent == InjectCookies(path)
        IN  /\ {sent[i] : i \in DOMAIN sent} = Wanted(path)
            /\ \A i, j \in DOMAIN sent : sent[i] = sent[j] => i = j
=============================================================================
