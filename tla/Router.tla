------------------------------- MODULE Router -------------------------------
(***************************************************************************)
(* Route registration and matching: RouterCore (exact table, radix tree,   *)
(* regular expressions) under HttpRouter and WsRouter.                     *)
(*                                                                         *)
(* A path is the sequence of the strings between its slashes, so "/a/" is  *)
(* <<"a", "">> and "/" is <<"">>.  A pattern is a sequence of segments     *)
(* <<kind, name>>; literal segments have kind "lit", ":name" is "par" and  *)
(* "*name" is "wild".  Names are numbers or strings: std::map visits the   *)
(* children of a node in the order of their names, here of the numbers.    *)
(* The radix tree is the function from the patterns that lead to its nodes *)
(* to their entries.  A registration that throws (an invalid method)       *)
(* changes nothing and is left out.                                        *)
(***************************************************************************)
EXTENDS Naturals, Sequences, SequencesExt, FiniteSets, FiniteSetsExt, Functions

CONSTANTS Patterns,        \* patterns given to addRoute()
          Regexes,         \* patterns given to addRouteRegex(): <<<<"re", name>>>>
          RegexMatches(_, _), \* std::regex_match
          Paths,           \* request paths
          Methods,         \* HTTP methods
          MethodSets,      \* method lists given to HttpRouter::addRoute()
          MaxSegments,     \* kMaxPathSegments
          MaxRoutes        \* bound: registrations

VARIABLES kind,    \* the router over this RouterCore: "http" or "ws"
          exact,   \* exactRoutes_
          radix,   \* radixRoot_
          regex,   \* regexRoutes_
          added    \* history: the registrations; the index is the route id and names the handler

vars == <<kind, exact, radix, regex, added>>

NoRoute == [routeId |-> 0, methods |-> {}]

Init ==
    /\ kind \in {"http", "ws"}
    /\ exact = <<>> /\ radix = <<>> /\ regex = <<>>
    /\ added = <<>>

\* The entry f keeps for k: operator[] makes an empty one
EntryOf(f, k) == IF k \in DOMAIN f THEN f[k] ELSE NoRoute
Put(f, k, e)  == [x \in DOMAIN f \union {k} |-> IF x = k THEN e ELSE f[x]]

-----------------------------------------------------------------------------
\* Registration

\* addMethodToEntry() for each method: GET brings HEAD along
AddMethods(e, ms) == e.methods \union ms \union (IF "GET" \in ms THEN {"HEAD"} ELSE {})

\* The entry of a pattern registered again keeps its methods and takes the new route id.
Extended(e, ms, id) == [routeId |-> id, methods |-> AddMethods(e, ms)]

\* insertRadix(): the walk ends at an empty segment or behind the first wildcard.
InsertedAt(p) ==
    LET ends == {i \in DOMAIN p : p[i][1] = "wild"}
        gaps == {i \in DOMAIN p : p[i] = <<"lit", "">>}
        last == {i \in 0..Len(p) : /\ \A j \in ends : i <= j
                                   /\ \A j \in gaps : i < j}
    IN  SubSeq(p, 1, CHOOSE i \in last : \A j \in last : j <= i)

Literal(p) == \A i \in DOMAIN p : p[i][1] = "lit"
PathOf(p)  == [i \in DOMAIN p |-> p[i][2]]

\* HttpRouter takes the caller's methods, WsRouter always GET
MethodLists == IF kind = "ws" THEN {{"GET"}} ELSE MethodSets

Register(what, ms) == added' = Append(added, [pattern |-> what, methods |-> AddMethods(NoRoute, ms)])

AddRoute(p, ms) ==
    LET id == Len(added) + 1
        at == InsertedAt(p)
    IN
    /\ id <= MaxRoutes /\ ms \in MethodLists
    /\ IF Literal(p)
       THEN exact' = Put(exact, PathOf(p), Extended(EntryOf(exact, PathOf(p)), ms, id)) /\ UNCHANGED radix
       ELSE radix' = Put(radix, at, Extended(EntryOf(radix, at), ms, id)) /\ UNCHANGED exact
    /\ Register(p, ms)
    /\ UNCHANGED <<kind, regex>>

\* Regular expressions are kept in the order of their first registration.
AddRouteRegex(r, ms) ==
    LET id == Len(added) + 1
        is == {i \in DOMAIN regex : regex[i].pattern = r}
    IN
    /\ id <= MaxRoutes /\ ms \in MethodLists
    /\ regex' = IF is = {}
                THEN Append(regex, [pattern |-> r, entry |-> Extended(NoRoute, ms, id)])
                ELSE [i \in DOMAIN regex |-> IF i \in is
                        THEN [regex[i] EXCEPT !.entry = Extended(@, ms, id)] ELSE regex[i]]
    /\ Register(r, ms)
    /\ UNCHANGED <<kind, exact, radix>>

Next ==
    \E ms \in MethodSets \union {{"GET"}} :
        \/ \E p \in Patterns : AddRoute(p, ms)
        \/ \E r \in Regexes : AddRouteRegex(r, ms)

Spec == Init /\ [][Next]_vars

-----------------------------------------------------------------------------
\* Matching

\* nextSegment(): "" at the end of the path and for an empty segment
NextSegment(rest) == IF rest = <<>> THEN "" ELSE Head(rest)

\* The names of the children of one kind, in the order of the map
Children(node, k) ==
    SetToSortSeq({p[Len(node) + 1][2] : p \in {q \in DOMAIN radix : /\ Len(q) > Len(node)
                                                                    /\ IsPrefix(node, q)
                                                                    /\ q[Len(node) + 1][1] = k}}, <)
Child(node, k, n) == Append(node, <<k, n>>)

\* The first wildcard child with an entry
Wildcards(node) ==
    SelectSeq(Children(node, "wild"), LAMBDA n : EntryOf(radix, Child(node, "wild", n)).methods # {})

Found(e, ps) == [entry |-> e, params |-> ps]
Failed(ps)   == Found(NoRoute, ps)
Hit(r)       == r.entry.methods # {}

\* A failed branch gives its parameter back and the next branch is tried.
\* Bug: the parameter of the failed branch stays.
Undo_Not(ps, n) == ps
Undo(ps, n)     == Restrict(ps, DOMAIN ps \ {n})

OrElse(r, alt) == IF Hit(r) THEN r ELSE alt

\* At the end of the path a wildcard child goes before the node's own entry.
\* Bug: only the node's own entry is looked at.
AtEnd_Own(wild, own) == own
AtEnd(wild, own)     == OrElse(wild, own)

RECURSIVE MatchRadix(_, _, _, _)
MatchRadix(node, rest, params, depth) ==
    LET seg   == NextSegment(rest)
        wilds == Wildcards(node)
        Rest(k, n, ps) == MatchRadix(Child(node, k, n), Tail(rest), ps, depth + 1)
        Wild(ps, value) ==
            IF wilds = <<>> THEN Failed(ps)
            ELSE Found(radix[Child(node, "wild", Head(wilds))], Put(ps, Head(wilds), value))
        Try(r, n) ==
            IF Hit(r) THEN r
            ELSE LET t == Rest("par", n, Put(r.params, n, <<seg>>))
                 IN  OrElse(t, Failed(Undo(t.params, n)))
        static == IF \E q \in DOMAIN radix : IsPrefix(Child(node, "lit", seg), q)
                  THEN Rest("lit", seg, params) ELSE Failed(params)
        param  == FoldLeft(Try, static, Children(node, "par"))
    IN  IF depth > MaxSegments THEN Failed(params)
        ELSE IF seg = "" THEN AtEnd(Wild(params, <<>>), Found(EntryOf(radix, node), params))
        ELSE OrElse(param, Wild(param.params, rest))

\* RouterCore::match(): exact, radix, then the regular expressions in order
Match(path) ==
    LET tree == MatchRadix(<<>>, path, <<>>, 0)
        hits == SelectSeq(regex, LAMBDA r : RegexMatches(r.pattern, path))
    IN  IF path \in DOMAIN exact THEN Found(exact[path], <<>>)
        ELSE IF Hit(tree) THEN tree
        ELSE IF hits # <<>> THEN Found(Head(hits).entry, <<>>)
        ELSE Failed(<<>>)

\* lookupMethod() and HttpRouter::route(); WsRouter::route() asks for GET and knows no 405
Route(m, path) ==
    LET r == Match(path)
    IN  [reason |-> IF m \in r.entry.methods THEN "ok"
                    ELSE IF Hit(r) /\ kind = "http" THEN "not_allowed" ELSE "not_found",
         handler |-> r.entry.routeId,
         params  |-> r.params]

-----------------------------------------------------------------------------
\* What a pattern means: a reference that knows of no tree

\* The segments of a path before its first empty one
Cut(path) == SubSeq(path, 1, Max({i \in 0..Len(path) : \A j \in 1..i : path[j] # ""}))

SegmentFits(s, x) == s[1] = "par" \/ s = <<"lit", x>>

Fits(p, path) ==
    LET q == InsertedAt(p)
        c == Cut(path)
    IN  IF p \in Regexes THEN RegexMatches(p, path)
        ELSE IF Literal(p) THEN PathOf(p) = path
        ELSE IF Last(q)[1] = "wild"
             THEN Len(c) >= Len(q) - 1 /\ \A i \in 1..(Len(q) - 1) : SegmentFits(q[i], c[i])
             ELSE Len(c) = Len(q) /\ \A i \in DOMAIN q : SegmentFits(q[i], c[i])

Captures(p, path) ==
    LET q == InsertedAt(p)
        at == {i \in DOMAIN q : q[i][1] # "lit"}
        Of(i) == IF q[i][1] = "par" THEN <<path[i]>>
                 ELSE IF Len(Cut(path)) < i THEN <<>> ELSE SubSeq(path, i, Len(path))
    IN  IF p \in Regexes THEN <<>>
        ELSE [n \in {q[i][2] : i \in at} |-> Of(CHOOSE i \in at : q[i][2] = n)]

\* A request is given to a handler only if the handler's pattern fits the path, with the
\* parameters that pattern captures and nothing left over from branches of the tree that were
\* tried before (matchRadix() erases what a failed branch has put into params).
RightRoute ==
    \A path \in Paths, m \in Methods :
        LET r == Route(m, path)
        IN  r.reason = "ok" => /\ Fits(added[r.handler].pattern, path)
                               /\ r.params = Captures(added[r.handler].pattern, path)

\* match() finds a route for every path that some registered pattern fits: the search of the tree
\* tries every branch, and no static child, parameter or table hides the pattern that fits.
NoRouteMissed ==
    \A path \in Paths :
        (\E i \in DOMAIN added : added[i].methods # {} /\ Fits(added[i].pattern, path))
            => Match(path).entry.methods # {}

\* "handler should be the HEAD-specific one, not the GET one" (http_router_test.cc:376), "same path
\* registered twice with different methods -> both work" (:381): a request is answered by the
\* handler registered last for its path and its method.
HandlerOfMethod ==
    \A path \in Paths, m \in Methods :
        LET r   == Route(m, path)
            its == {i \in DOMAIN added : /\ m \in added[i].methods
                                         /\ added[i].pattern = added[r.handler].pattern}
        IN  r.reason = "ok" => r.handler = Max(its)
=============================================================================
