-------------------------- MODULE HttpClientProofs --------------------------
(***************************************************************************)
(* HttpClient's pool for any number of calls, connections and idle places: *)
(* a pooled connection is clean, and a call gets its own response.         *)
(***************************************************************************)
EXTENDS HttpClient, Integers, TLAPS

YesNo  == {"yes", "no"}
Modes  == {"none", "length", "chunked", "untilclose"}
Msgs   == [of : Calls, mode : Modes \cup {"data", "last"}, close : YesNo]
Links  == [st : {"none", "open"}, up : Seq(Calls), down : Seq(Msgs), fin : YesNo, hup : YesNo]
Holding == {"send", "head", "body", "release"}
Records == [pc : {"idle", "acquire", "connect"} \cup Holding, whole : YesNo, k : Conns \cup {None},
            of : Calls \cup {None}, mode : Modes, left : Nat, close : YesNo]

\* No more of a body is in flight than the reader still asks for.
Fits(mode, left, d) ==
    /\ mode = "none" => d = <<>>
    /\ mode = "length" => Len(d) <= left
    /\ mode = "chunked" => \A i \in 1..Len(d) : d[i].mode = "last" => i = Len(d)

\* What is in flight on the connection x of the call c with record r.
Flight(c, r, x) ==
    /\ x.st = "open" /\ r.of \in {None, c}
    /\ r.pc \in {"send", "release"} => x.up = <<>> /\ x.down = <<>>
    /\ r.pc = "head" => \/ x.up = <<c>> /\ x.down = <<>>
                        \/ /\ x.up = <<>> /\ x.down /= <<>> /\ Head(x.down).of = c
                           /\ Fits(Head(x.down).mode, 2, Tail(x.down))
    /\ r.pc = "body" => x.up = <<>> /\ r.mode /= "none" /\ Fits(r.mode, r.left, x.down)

Typed == link \in [Conns -> Links] /\ call \in [Calls -> Records] /\ idle \in Seq(Conns)

\* A call holds a connection between acquireConnection() and the end; nobody else does.
Held ==
    /\ \A c \in Calls : call[c].pc \in Holding <=> call[c].k \in Conns
    /\ \A c \in Calls : call[c].k \in Conns => Flight(c, call[c], link[call[c].k])
    /\ \A c \in Calls : call[c].k \notin Conns => call[c].of = None
    /\ \A c, d \in Calls : c /= d /\ call[c].k \in Conns => call[c].k /= call[d].k

Pooled ==
    /\ Len(idle) <= MaxIdle
    /\ \A i, j \in 1..Len(idle) : idle[i] = idle[j] => i = j
    /\ \A i \in 1..Len(idle) : /\ link[idle[i]].st = "open" /\ link[idle[i]].up = <<>>
                               /\ link[idle[i]].down = <<>>
                               /\ \A c \in Calls : call[c].k /= idle[i]

\* Requests are in flight only on a connection that a call holds.
Asked == \A k \in Conns : link[k].up /= <<>> => \E c \in Calls : call[c].k = k

IInv == Typed /\ Held /\ Pooled /\ Asked

\* What the proofs assume of the constants.
Constant == MaxIdle \in Nat /\ None \notin Conns /\ None \notin Calls

-----------------------------------------------------------------------------
\* Facts about sequences.

\* The empty sequence has no elements.
LEMMA EmptySeq ==
    ASSUME NEW S
    PROVE  << >> \in Seq(S) /\ Len(<< >>) = 0 /\ \A s \in Seq(S) : s = << >> <=> Len(s) = 0
  OBVIOUS

\* A sequence is a function on 1..Len(s).
LEMMA LenProperties ==
    ASSUME NEW S, NEW s \in Seq(S)
    PROVE  Len(s) \in Nat /\ DOMAIN s = 1..Len(s) /\ s \in [1..Len(s) -> S] /\ \A i \in 1..Len(s) : s[i] \in S
  OBVIOUS

\* Append() keeps what was there and adds one element.
LEMMA AppendProperties ==
    ASSUME NEW S, NEW s \in Seq(S), NEW e \in S
    PROVE  /\ Append(s, e) \in Seq(S) /\ Append(s, e) # << >> /\ Len(Append(s, e)) = Len(s) + 1
           /\ Append(s, e)[Len(s) + 1] = e /\ \A i \in 1..Len(s) : Append(s, e)[i] = s[i]
  OBVIOUS

\* Head() is the first element, Tail() the others.
LEMMA HeadTailProperties ==
    ASSUME NEW S, NEW s \in Seq(S), s # << >>
    PROVE  /\ Head(s) \in S /\ Head(s) = s[1] /\ Tail(s) \in Seq(S) /\ Len(Tail(s)) = Len(s) - 1
           /\ \A i \in 1..Len(Tail(s)) : Tail(s)[i] = s[i + 1]
  OBVIOUS

\* The elements of a concatenation.
LEMMA ConcatProperties ==
    ASSUME NEW S, NEW s \in Seq(S), NEW t \in Seq(S)
    PROVE  /\ s \o t \in Seq(S) /\ Len(s \o t) = Len(s) + Len(t)
           /\ \A i \in 1..Len(s) + Len(t) : (s \o t)[i] = IF i <= Len(s) THEN s[i] ELSE t[i - Len(s)]
  OBVIOUS

\* Sequences with the same elements are equal.
LEMMA SeqEqual ==
    ASSUME NEW S, NEW s \in Seq(S), NEW t \in Seq(S), Len(s) = Len(t), \A i \in 1..Len(s) : s[i] = t[i]
    PROVE  s = t
  OBVIOUS

\* The elements of a sequence.
LEMMA ElementOfSeq ==
    ASSUME NEW S, NEW s \in Seq(S), NEW i \in 1..Len(s)
    PROVE  s[i] \in S
  OBVIOUS

\* The elements of a part of a sequence.
LEMMA SubSeqProperties ==
    ASSUME NEW S, NEW s \in Seq(S), NEW m \in 1..Len(s) + 1, NEW k \in m - 1..Len(s)
    PROVE  /\ SubSeq(s, m, k) \in Seq(S) /\ Len(SubSeq(s, m, k)) = k - m + 1
           /\ \A i \in 1..(k - m + 1) : SubSeq(s, m, k)[i] = s[m + i - 1]
  OBVIOUS

-----------------------------------------------------------------------------
\* The shapes of the steps

\* A step of the call c on its connection: to x, with the record r.
LEMMA CallMoves ==
    ASSUME IInv, NEW c \in Calls, NEW r \in Records, NEW x \in Links, call[c].k \in Conns,
           r.k = call[c].k, r.pc \in Holding, Flight(c, r, x),
           call' = [call EXCEPT ![c] = r], link' = [link EXCEPT ![call[c].k] = x], idle' = idle
    PROVE  IInv'
<1> DEFINE k == call[c].k
<1>1. Typed'
  BY DEF IInv, Typed
<1>2. /\ call'[c] = r /\ link'[k] = x /\ \A d \in Calls : d /= c => call'[d] = call[d]
      /\ \A j \in Conns : j /= k => link'[j] = link[j]
  BY DEF IInv, Typed
<1>3. \A d \in Calls : d /= c => call[d].k /= k
  BY DEF IInv, Held
<1>4. \A d \in Calls : call'[d].k = call[d].k
  BY <1>2
<1>5. \A i \in 1..Len(idle) : idle[i] /= k /\ idle[i] \in Conns
  <2>1. \A i \in 1..Len(idle) : idle[i] /= k
    BY DEF IInv, Pooled
  <2>2. \A i \in 1..Len(idle) : idle[i] \in Conns
    BY ElementOfSeq DEF IInv, Typed
  <2> QED BY <2>1, <2>2
<1> HIDE DEF k
<1>6. Held'
  <2>1. \A d \in Calls : call'[d].pc \in Holding <=> call'[d].k \in Conns
    BY <1>2 DEF IInv, Held, k
  <2>2. \A d \in Calls : call'[d].k \in Conns => Flight(d, call'[d], link'[call'[d].k])
    <3> SUFFICES ASSUME NEW d \in Calls, call'[d].k \in Conns PROVE Flight(d, call'[d], link'[call'[d].k])
      OBVIOUS
    <3>1. CASE d = c
      BY <3>1, <1>2 DEF k
    <3>2. CASE d /= c
      <4>1. call'[d] = call[d] /\ link'[call[d].k] = link[call[d].k]
        BY <3>2, <1>2, <1>3
      <4> QED BY <4>1 DEF IInv, Held
    <3> QED BY <3>1, <3>2
  <2>3. \A d \in Calls : call'[d].k \notin Conns => call'[d].of = None
    BY <1>2 DEF IInv, Held
  <2>4. \A d, e \in Calls : d /= e /\ call'[d].k \in Conns => call'[d].k /= call'[e].k
    BY <1>4 DEF IInv, Held
  <2> QED BY <2>1, <2>2, <2>3, <2>4 DEF Held
<1>7. Pooled'
  BY <1>2, <1>4, <1>5 DEF IInv, Pooled
<1>8. Asked'
  <2>1. call'[c].k = k
    BY <1>4 DEF k
  <2> QED BY <1>2, <1>4, <2>1 DEF IInv, Asked
<1> QED BY <1>1, <1>6, <1>7, <1>8 DEF IInv

\* A call ends and the connection it held is dropped.
LEMMA CallDrops ==
    ASSUME Constant, IInv, NEW c \in Calls, call[c].k \in Conns,
           call' = [call EXCEPT ![c] = NewCall], link' = [link EXCEPT ![call[c].k] = NoLink], idle' = idle
    PROVE  IInv'
<1> DEFINE k == call[c].k
<1>0. NewCall \in Records /\ NoLink \in Links /\ NewCall.k = None /\ NewCall.of = None /\ NewCall.pc \notin Holding
  <2>1. NewCall \in Records /\ NewCall.k = None /\ NewCall.of = None /\ NewCall.pc \notin Holding
    BY DEF NewCall, Records, Modes, YesNo, Holding
  <2>2. <<>> \in Seq(Calls) /\ <<>> \in Seq(Msgs)
    BY EmptySeq
  <2>3. NoLink \in Links
    BY <2>2 DEF NoLink, Links, YesNo
  <2> QED BY <2>1, <2>3
<1>1. Typed'
  BY <1>0 DEF IInv, Typed
<1>2. /\ call'[c] = NewCall /\ \A d \in Calls : d /= c => call'[d] = call[d]
      /\ \A j \in Conns : j /= k => link'[j] = link[j]
  BY DEF IInv, Typed
<1>3. \A d \in Calls : d /= c => call[d].k /= k
  BY DEF IInv, Held
<1>5. \A i \in 1..Len(idle) : idle[i] /= k /\ idle[i] \in Conns
  <2>1. \A i \in 1..Len(idle) : idle[i] /= k
    BY DEF IInv, Pooled
  <2>2. \A i \in 1..Len(idle) : idle[i] \in Conns
    BY ElementOfSeq DEF IInv, Typed
  <2> QED BY <2>1, <2>2
<1> HIDE DEF k
<1>6. Held'
  <2>1. \A d \in Calls : call'[d].pc \in Holding <=> call'[d].k \in Conns
    BY <1>0, <1>2 DEF IInv, Held, Constant
  <2>2. \A d \in Calls : call'[d].k \in Conns => Flight(d, call'[d], link'[call'[d].k])
    <3> SUFFICES ASSUME NEW d \in Calls, call'[d].k \in Conns PROVE Flight(d, call'[d], link'[call'[d].k])
      OBVIOUS
    <3>1. d /= c
      BY <1>0, <1>2 DEF Constant
    <3>2. call'[d] = call[d] /\ link'[call[d].k] = link[call[d].k]
      BY <3>1, <1>2, <1>3
    <3> QED BY <3>2 DEF IInv, Held
  <2>3. \A d \in Calls : call'[d].k \notin Conns => call'[d].of = None
    BY <1>0, <1>2 DEF IInv, Held
  <2>4. \A d, e \in Calls : d /= e /\ call'[d].k \in Conns => call'[d].k /= call'[e].k
    BY <1>0, <1>2 DEF IInv, Held, Constant
  <2> QED BY <2>1, <2>2, <2>3, <2>4 DEF Held
<1>7. Pooled'
  <2>1. \A i \in 1..Len(idle) : \A d \in Calls : call'[d].k /= idle[i]
    BY <1>0, <1>2, <1>5 DEF IInv, Pooled, Constant
  <2> QED BY <1>2, <1>5, <2>1 DEF IInv, Pooled
<1>8. Asked'
  <2>1. link'[k] = NoLink /\ NoLink.up = <<>>
    BY DEF IInv, Typed, k, NoLink
  <2>2. \A j \in Conns : j /= k /\ link[j].up /= <<>> => \E d \in Calls : d /= c /\ call[d].k = j
    BY DEF IInv, Asked, k
  <2> QED BY <1>2, <2>1, <2>2 DEF Asked
<1> QED BY <1>1, <1>6, <1>7, <1>8 DEF IInv
\* A step of the server or the kernel on the connection k.
LEMMA LinkMoves ==
    ASSUME IInv, NEW k \in Conns, NEW x \in Links, x.st = link[k].st,
           \A c \in Calls : call[c].k = k => Flight(c, call[c], x),
           link[k].up = <<>> /\ link[k].down = <<>> => x.up = <<>> /\ x.down = <<>>,
           x.up /= <<>> => link[k].up /= <<>>,
           link' = [link EXCEPT ![k] = x], call' = call, idle' = idle
    PROVE  IInv'
<1>1. Typed'
  BY DEF IInv, Typed
<1>2. link'[k] = x /\ \A j \in Conns : j /= k => link'[j] = link[j]
  BY DEF IInv, Typed
<1>3. Held'
  <2>1. \A d \in Calls : call[d].k \in Conns => Flight(d, call[d], link'[call[d].k])
    BY <1>2 DEF IInv, Held
  <2> QED BY <2>1 DEF IInv, Held
<1>4. Pooled'
  <2>1. \A i \in 1..Len(idle) : idle[i] \in Conns
    BY ElementOfSeq DEF IInv, Typed
  <2> QED BY <1>2, <2>1 DEF IInv, Pooled
<1>5. Asked'
  BY <1>2 DEF IInv, Asked
<1> QED BY <1>1, <1>3, <1>4, <1>5 DEF IInv

\* A step of the call c while it holds no connection.
LEMMA CallWaits ==
    ASSUME Constant, IInv, NEW c \in Calls, NEW r \in Records, call[c].k \notin Conns,
           r.k = None, r.of = None, r.pc \notin Holding,
           call' = [call EXCEPT ![c] = r], link' = link, idle' = idle
    PROVE  IInv'
<1>1. Typed'
  BY DEF IInv, Typed
<1>2. call'[c] = r /\ \A d \in Calls : d /= c => call'[d] = call[d]
  BY DEF IInv, Typed
<1>3. \A i \in 1..Len(idle) : idle[i] \in Conns
  BY ElementOfSeq DEF IInv, Typed
<1>4. Held'
  <2>1. \A d \in Calls : call'[d].pc \in Holding <=> call'[d].k \in Conns
    BY <1>2 DEF IInv, Held, Constant
  <2>2. \A d \in Calls : call'[d].k \in Conns => Flight(d, call'[d], link[call'[d].k])
    BY <1>2 DEF IInv, Held, Constant
  <2>3. \A d \in Calls : call'[d].k \notin Conns => call'[d].of = None
    BY <1>2 DEF IInv, Held
  <2>4. \A d, e \in Calls : d /= e /\ call'[d].k \in Conns => call'[d].k /= call'[e].k
    BY <1>2 DEF IInv, Held, Constant
  <2> QED BY <2>1, <2>2, <2>3, <2>4 DEF Held
<1>5. Pooled'
  BY <1>2, <1>3 DEF IInv, Pooled, Constant
<1>6. Asked'
  BY <1>2 DEF IInv, Asked
<1> QED BY <1>1, <1>4, <1>5, <1>6 DEF IInv

\* The pool p with the connections l, when the first n of the pool are gone.
Shrunk(n, l, p) ==
    /\ p \in Seq(Conns) /\ Len(p) <= MaxIdle
    /\ \A i, j \in 1..Len(p) : p[i] = p[j] => i = j
    /\ \A i \in 1..Len(p) : /\ l[p[i]].st = "open" /\ l[p[i]].up = <<>> /\ l[p[i]].down = <<>>
                            /\ \A c \in Calls : call[c].k /= p[i]
    /\ \A i \in 1..Len(p), j \in 1..n : p[i] /= idle[j]
    /\ \A c \in Calls : call[c].k \in Conns => l[call[c].k] = link[call[c].k]

\* Some idle connections are dropped and the pool keeps its end: what the calls hold stays.
LEMMA PoolShrinks ==
    ASSUME Constant, IInv, NEW n \in 0..Len(idle), NEW l \in [Conns -> Links],
           \A k \in Conns : (\A i \in 1..n : k /= idle[i]) => l[k] = link[k]
    PROVE  Shrunk(n, l, SubSeq(idle, n + 1, Len(idle)))
<1> DEFINE p == SubSeq(idle, n + 1, Len(idle))
<1>1. Len(idle) \in Nat /\ n \in Nat /\ \A i \in 1..Len(idle) : idle[i] \in Conns
  <2>1. idle \in Seq(Conns)
    BY DEF IInv, Typed
  <2>2. Len(idle) \in Nat
    BY <2>1, LenProperties
  <2>3. \A i \in 1..Len(idle) : idle[i] \in Conns
    BY <2>1, ElementOfSeq
  <2> QED BY <2>2, <2>3
<1>2. /\ p \in Seq(Conns) /\ Len(p) = Len(idle) - n
      /\ \A i \in 1..Len(p) : p[i] = idle[n + i]
  <2>1. idle \in Seq(Conns) /\ n + 1 \in 1..Len(idle) + 1 /\ Len(idle) \in n + 1 - 1 .. Len(idle)
    BY <1>1 DEF IInv, Typed
  <2>2. /\ p \in Seq(Conns) /\ Len(p) = Len(idle) - (n + 1) + 1
        /\ \A i \in 1 .. Len(idle) - (n + 1) + 1 : p[i] = idle[n + 1 + i - 1]
    BY <2>1, SubSeqProperties
  <2> QED BY <1>1, <2>2
<1> HIDE DEF p
<1>3. \A i \in 1..Len(p) : n + i \in 1..Len(idle) /\ p[i] = idle[n + i] /\ n + i > n
  BY <1>1, <1>2
<1>4. \A i, j \in 1..Len(idle) : idle[i] = idle[j] => i = j
  BY DEF IInv, Pooled
<1>5. \A i, j \in 1..Len(p) : p[i] = p[j] => i = j
  BY <1>1, <1>3, <1>4
<1>6. \A i \in 1..Len(p), j \in 1..n : p[i] /= idle[j]
  BY <1>1, <1>3, <1>4
<1>7. \A i \in 1..Len(p) : p[i] \in Conns /\ l[p[i]] = link[p[i]]
  BY <1>1, <1>3, <1>6
<1>8. \A i \in 1..Len(p) : /\ l[p[i]].st = "open" /\ l[p[i]].up = <<>> /\ l[p[i]].down = <<>>
                           /\ \A c \in Calls : call[c].k /= p[i]
  BY <1>3, <1>7 DEF IInv, Pooled
<1>9. \A c \in Calls : call[c].k \in Conns => l[call[c].k] = link[call[c].k]
  BY <1>1 DEF IInv, Pooled
<1>10. Len(p) <= MaxIdle
  BY <1>1, <1>2 DEF IInv, Pooled, Constant
<1> QED BY <1>2, <1>5, <1>6, <1>8, <1>9, <1>10 DEF Shrunk, p
\* The call c with record r, the connections l and the pool p: the other calls see no change.
Rearranges(c, r, l, p) ==
    /\ r \in Records /\ l \in [Conns -> Links] /\ p \in Seq(Conns) /\ Len(p) <= MaxIdle
    /\ r.pc \in Holding <=> r.k \in Conns
    /\ r.k \in Conns => Flight(c, r, l[r.k]) /\ \A d \in Calls \ {c} : call[d].k /= r.k
    /\ r.k \notin Conns => r.of = None
    /\ \A d \in Calls \ {c} : call[d].k \in Conns => l[call[d].k] = link[call[d].k]
    /\ \A i, j \in 1..Len(p) : p[i] = p[j] => i = j
    /\ \A i \in 1..Len(p) : /\ l[p[i]].st = "open" /\ l[p[i]].up = <<>> /\ l[p[i]].down = <<>>
                            /\ r.k /= p[i] /\ \A d \in Calls \ {c} : call[d].k /= p[i]
    /\ \A k \in Conns : l[k].up /= <<>> => r.k = k \/ \E d \in Calls \ {c} : call[d].k = k

\* Such a step keeps the invariant.
LEMMA Rearranged ==
    ASSUME Constant, IInv, NEW c \in Calls, NEW r, Rearranges(c, r, link', idle'),
           call' = [call EXCEPT ![c] = r]
    PROVE  IInv'
<1> USE DEF Rearranges
<1>1. Typed'
  BY DEF IInv, Typed
<1>2. call'[c] = r /\ \A d \in Calls : d /= c => call'[d] = call[d]
  BY DEF IInv, Typed
<1>3. Held'
  <2>1. \A d \in Calls : call'[d].pc \in Holding <=> call'[d].k \in Conns
    BY <1>2 DEF IInv, Held
  <2>2. \A d \in Calls : call'[d].k \in Conns => Flight(d, call'[d], link'[call'[d].k])
    <3> SUFFICES ASSUME NEW d \in Calls, call'[d].k \in Conns PROVE Flight(d, call'[d], link'[call'[d].k])
      OBVIOUS
    <3>1. CASE d = c
      BY <3>1, <1>2
    <3>2. CASE d /= c
      <4>1. call'[d] = call[d] /\ link'[call[d].k] = link[call[d].k] /\ call[d].k \in Conns
        BY <3>2, <1>2
      <4> QED BY <4>1 DEF IInv, Held
    <3> QED BY <3>1, <3>2
  <2>3. \A d \in Calls : call'[d].k \notin Conns => call'[d].of = None
    BY <1>2 DEF IInv, Held
  <2>4. \A d, e \in Calls : d /= e /\ call'[d].k \in Conns => call'[d].k /= call'[e].k
    BY <1>2 DEF IInv, Held
  <2> QED BY <2>1, <2>2, <2>3, <2>4 DEF Held
<1>4. Pooled'
  <2>1. \A i \in 1..Len(idle') : \A d \in Calls : call'[d].k /= idle'[i]
    BY <1>2
  <2> QED BY <2>1 DEF Pooled
<1>5. Asked'
  BY <1>2 DEF Asked
<1> QED BY <1>1, <1>3, <1>4, <1>5 DEF IInv

\* The initial records are of their types.
LEMMA Fresh ==
    /\ NewCall \in Records /\ NewCall.k = None /\ NewCall.of = None /\ NewCall.pc = "idle"
    /\ NoLink \in Links /\ NoLink.st = "none"
<1>1. NewCall \in Records /\ NewCall.k = None /\ NewCall.of = None /\ NewCall.pc = "idle"
  BY DEF NewCall, Records, Modes, YesNo, Holding
<1>2. <<>> \in Seq(Calls) /\ <<>> \in Seq(Msgs)
  BY EmptySeq
<1>3. NoLink \in Links /\ NoLink.st = "none"
  BY <1>2 DEF NoLink, Links, YesNo
<1> QED BY <1>1, <1>3

\* acquireConnection(): the connection it takes leaves the pool.
LEMMA AcquireKeeps ==
    ASSUME Constant, IInv, NEW c \in Calls, Acquire(c) PROVE IInv'
<1> DEFINE All == {idle[i] : i \in DOMAIN idle}
<1>0. /\ call[c] \in Records /\ call[c].pc = "acquire" /\ call[c].k \notin Conns /\ call[c].of = None
      /\ idle \in Seq(Conns) /\ link \in [Conns -> Links]
  <2>1. call[c].pc = "acquire"
    BY DEF Acquire
  <2>2. call[c].k \notin Conns /\ call[c].of = None
    BY <2>1 DEF IInv, Held, Holding
  <2> QED BY <2>1, <2>2 DEF IInv, Typed
<1>1. Len(idle) \in Nat /\ DOMAIN idle = 1..Len(idle) /\ \A i \in 1..Len(idle) : idle[i] \in Conns
  BY <1>0, LenProperties, ElementOfSeq
<1>2. \A ks : Dropped(ks) \in [Conns -> Links] /\ \A k \in Conns : k \notin ks => Dropped(ks)[k] = link[k]
  BY <1>0, Fresh DEF Dropped
<1>a. \A ks : \A k \in Conns : Dropped(ks)[k].up /= <<>> => \E d \in Calls \ {c} : call[d].k = k
  <2>1. \A ks : \A k \in Conns : Dropped(ks)[k].up /= <<>> => link[k].up /= <<>>
    BY DEF Dropped, NoLink
  <2>2. \A k \in Conns : link[k].up /= <<>> => \E d \in Calls \ {c} : call[d].k = k
    BY <1>0 DEF IInv, Asked
  <2> QED BY <2>1, <2>2
<1>3. CASE /\ link' = Dropped(All) /\ idle' = <<>> /\ call' = [call EXCEPT ![c].pc = "connect"]
  <2> DEFINE r == [call[c] EXCEPT !.pc = "connect"]
  <2>1. r \in Records /\ r.pc \notin Holding /\ r.k = call[c].k /\ r.of = None
    BY <1>0 DEF Records, Holding
  <2>2. \A d \in Calls : call[d].k \in Conns => Dropped(All)[call[d].k] = link[call[d].k]
    <3>1. \A d \in Calls : call[d].k \notin All
      BY <1>1 DEF IInv, Pooled
    <3> QED BY <3>1, <1>2
  <2>3. <<>> \in Seq(Conns) /\ Len(<<>>) = 0
    BY EmptySeq
  <2>4. call' = [call EXCEPT ![c] = r]
    BY <1>3
  <2>5. \A i \in 1..Len(<<>>) : FALSE
    BY <2>3
  <2>6. Len(<<>>) <= MaxIdle
    BY <2>3 DEF Constant
  <2> HIDE DEF r
  <2>7. Rearranges(c, r, Dropped(All), <<>>)
    BY <1>0, <1>2, <1>a, <2>1, <2>2, <2>3, <2>5, <2>6 DEF Rearranges
  <2> QED BY <1>3, <2>4, <2>7, Rearranged
<1>4. ASSUME NEW n \in DOMAIN idle, link' = Dropped({idle[j] : j \in 1..n - 1}),
             idle' = Rest(n), call' = [call EXCEPT ![c].pc = "send", ![c].k = idle[n]]
      PROVE  IInv'
  <2> DEFINE l == Dropped({idle[j] : j \in 1..n - 1})
  <2> DEFINE p == SubSeq(idle, n + 1, Len(idle))
  <2> DEFINE r == [call[c] EXCEPT !.pc = "send", !.k = idle[n]]
  <2>1. n \in 1..Len(idle) /\ n \in Nat
    BY <1>1
  <2>2. /\ r \in Records /\ r.pc = "send" /\ r.k = idle[n] /\ r.of = None /\ r.k \in Conns
        /\ call' = [call EXCEPT ![c] = r] /\ link' = l /\ idle' = p
    <3>1. r \in Records /\ r.pc = "send" /\ r.k = idle[n] /\ r.of = None /\ r.k \in Conns
      BY <1>0, <1>1, <2>1 DEF Records, Holding
    <3>2. call' = [call EXCEPT ![c] = r]
      <4>1. call \in [Calls -> Records]
        BY DEF IInv, Typed
      <4> QED BY <1>0, <1>4, <4>1
    <3> QED BY <1>4, <3>1, <3>2 DEF Rest
  <2>a. \A k \in Conns : l[k].up /= <<>> => \E d \in Calls \ {c} : call[d].k = k
    BY <1>a
  <2>3. l \in [Conns -> Links] /\ \A k \in Conns : (\A i \in 1..n - 1 : k /= idle[i]) => l[k] = link[k]
    BY <1>2
  <2> HIDE DEF l, p, r
  <2>4. l[idle[n]] = link[idle[n]]
    <3>1. \A i \in 1..n - 1 : idle[n] /= idle[i]
      BY <2>1, <1>1 DEF IInv, Pooled
    <3> QED BY <3>1, <2>1, <2>3, <1>1
  <2>5. Flight(c, r, l[r.k]) /\ \A d \in Calls : call[d].k /= r.k
    BY <2>1, <2>2, <2>4 DEF IInv, Pooled, Flight
  <2>6. Shrunk(n, l, p)
    <3>1. n \in 0..Len(idle) /\ p = SubSeq(idle, n + 1, Len(idle))
      BY <2>1, <1>1 DEF p
    <3>2. \A k \in Conns : (\A i \in 1..n : k /= idle[i]) => l[k] = link[k]
      BY <2>1, <2>3
    <3> QED BY <2>3, <3>1, <3>2, PoolShrinks
  <2>7. \A i \in 1..Len(p) : r.k /= p[i]
    BY <2>1, <2>2, <2>6 DEF Shrunk
  <2>8. r.pc \in Holding
    BY <2>2 DEF Holding
  <2>9. Rearranges(c, r, l, p)
    BY <2>2, <2>3, <2>5, <2>6, <2>7, <2>8, <2>a DEF Rearranges, Shrunk
  <2> QED BY <2>2, <2>9, Rearranged
<1> QED BY <1>3, <1>4 DEF Acquire
\* connect(): nobody holds a connection that did not exist.
LEMMA ConnectKeeps ==
    ASSUME Constant, IInv, NEW c \in Calls, Connect(c) PROVE IInv'
<1>0. /\ call[c] \in Records /\ call[c].k \notin Conns /\ call[c].of = None
      /\ idle \in Seq(Conns) /\ link \in [Conns -> Links] /\ idle' = idle
  <2>1. call[c].pc = "connect" /\ idle' = idle
    BY DEF Connect
  <2>2. call[c].k \notin Conns /\ call[c].of = None
    BY <2>1 DEF IInv, Held, Holding
  <2> QED BY <2>1, <2>2 DEF IInv, Typed
<1>1. ASSUME NEW k \in Conns, link[k] = NoLink, link' = [link EXCEPT ![k].st = "open"],
             call' = [call EXCEPT ![c].pc = "send", ![c].k = k]
      PROVE  IInv'
  <2> DEFINE r == [call[c] EXCEPT !.pc = "send", !.k = k]
  <2> DEFINE x == [NoLink EXCEPT !.st = "open"]
  <2>1. r \in Records /\ r.pc = "send" /\ r.k = k /\ r.of = None /\ r.pc \in Holding
    BY <1>0 DEF Records, Holding
  <2>2. x \in Links /\ x.st = "open" /\ x.up = <<>> /\ x.down = <<>>
    BY Fresh DEF Links, NoLink
  <2>3. call' = [call EXCEPT ![c] = r]
    <3>1. call \in [Calls -> Records]
      BY DEF IInv, Typed
    <3> QED BY <1>1, <3>1
  <2>4. link' = [link EXCEPT ![k] = x]
    BY <1>0, <1>1
  <2> HIDE DEF r, x
  <2>5. link' \in [Conns -> Links] /\ link'[k] = x /\ \A j \in Conns : j /= k => link'[j] = link[j]
    BY <1>0, <2>2, <2>4
  <2>6. link[k].st /= "open"
    BY <1>1, Fresh
  <2>7. \A d \in Calls : call[d].k /= k
    BY <2>6 DEF IInv, Held, Flight
  <2>8. \A i \in 1..Len(idle) : idle[i] /= k /\ idle[i] \in Conns
    <3>1. \A i \in 1..Len(idle) : idle[i] \in Conns
      BY <1>0, ElementOfSeq
    <3> QED BY <2>6, <3>1 DEF IInv, Pooled
  <2>9. Flight(c, r, x)
    BY <2>1, <2>2 DEF Flight
  <2>10. Rearranges(c, r, link', idle)
    <3>1. \A i \in 1..Len(idle) : /\ link'[idle[i]] = link[idle[i]] /\ r.k /= idle[i]
      BY <2>1, <2>5, <2>8
    <3>2. \A d \in Calls : call[d].k \in Conns => link'[call[d].k] = link[call[d].k]
      BY <2>5, <2>7
    <3>3. \A j \in Conns : link'[j].up /= <<>> => \E d \in Calls \ {c} : call[d].k = j
      BY <1>0, <2>2, <2>5 DEF IInv, Asked
    <3> QED BY <1>0, <2>1, <2>5, <2>7, <2>9, <3>1, <3>2, <3>3 DEF Rearranges, IInv, Pooled
  <2> QED BY <1>0, <2>3, <2>10, Rearranged
<1>2. CASE call' = [call EXCEPT ![c] = NewCall] /\ link' = link
  <2>1. NewCall \in Records /\ NewCall.k = None /\ NewCall.of = None /\ NewCall.pc \notin Holding
    BY Fresh DEF Holding
  <2> QED BY <1>0, <1>2, <2>1, CallWaits
<1> QED BY <1>1, <1>2 DEF Connect, Ended

\* A call fails: its connection goes with it.
LEMMA FailKeeps ==
    ASSUME Constant, IInv, NEW c \in Calls, call[c].k \in Conns, Fail(c) PROVE IInv'
<1>1. call' = [call EXCEPT ![c] = NewCall] /\ link' = Dropped({call[c].k}) /\ idle' = idle
  BY DEF Fail, Ended
<1>2. link \in [Conns -> Links]
  BY DEF IInv, Typed
<1>3. Dropped({call[c].k}) = [link EXCEPT ![call[c].k] = NoLink]
  BY <1>2 DEF Dropped
<1> QED BY <1>1, <1>3, CallDrops

\* The body is read and nothing is left on the connection x: released or dropped.
LEMMA FinishKeeps ==
    ASSUME Constant, IInv, NEW c \in Calls, call[c].k \in Conns, NEW r \in Records, r.k = call[c].k,
           r.of \in {None, c}, NEW x \in Links, x.st = "open", x.up = <<>>, x.down = <<>>,
           Finish(c, r, [link EXCEPT ![call[c].k] = x]), idle' = idle
    PROVE  IInv'
<1>0. link \in [Conns -> Links]
  BY DEF IInv, Typed
<1>1. CASE call' = [call EXCEPT ![c] = [r EXCEPT !.pc = "release"]] /\ link' = [link EXCEPT ![call[c].k] = x]
  <2> DEFINE q == [r EXCEPT !.pc = "release"]
  <2>1. q \in Records /\ q.pc = "release" /\ q.k = call[c].k /\ q.of = r.of /\ q.pc \in Holding
    BY DEF Records, Holding
  <2>2. call' = [call EXCEPT ![c] = q]
    BY <1>1
  <2> HIDE DEF q
  <2>3. Flight(c, q, x)
    BY <2>1 DEF Flight
  <2> QED BY <1>1, <2>1, <2>2, <2>3, CallMoves
<1>2. CASE call' = [call EXCEPT ![c] = NewCall] /\ link' = [[link EXCEPT ![call[c].k] = x] EXCEPT ![r.k] = NoLink]
  <2>1. link' = [link EXCEPT ![call[c].k] = NoLink]
    BY <1>0, <1>2
  <2> QED BY <1>2, <2>1, CallDrops
<1> QED BY <1>1, <1>2 DEF Finish, Ended

\* What the invariant says of a call that holds a connection.
LEMMA Holds ==
    ASSUME IInv, NEW c \in Calls, call[c].pc \in Holding
    PROVE  /\ call[c] \in Records /\ call[c].k \in Conns /\ link[call[c].k] \in Links
           /\ Flight(c, call[c], link[call[c].k])
<1>1. call[c].k \in Conns
  BY DEF IInv, Held
<1> QED BY <1>1 DEF IInv, Held, Typed

\* doRequest(): the request is the only thing in flight.
LEMMA SendKeeps ==
    ASSUME Constant, IInv, NEW c \in Calls, SendRequest(c) PROVE IInv'
<1> DEFINE k == call[c].k
<1>0. call[c].pc = "send" /\ call[c].pc \in Holding
  BY DEF SendRequest, Holding
<1>1. /\ call[c] \in Records /\ k \in Conns /\ link[k] \in Links /\ Flight(c, call[c], link[k])
  BY <1>0, Holds
<1>2. CASE /\ link' = [link EXCEPT ![k].up = Append(@, c)] /\ call' = [call EXCEPT ![c].pc = "head"]
           /\ idle' = idle
  <2> DEFINE x == [link[k] EXCEPT !.up = <<c>>]
  <2> DEFINE r == [call[c] EXCEPT !.pc = "head"]
  <2>1. link[k].up = <<>> /\ link[k].down = <<>> /\ link[k].st = "open" /\ call[c].of \in {None, c}
    BY <1>0, <1>1 DEF Flight
  <2>2. Append(<<>>, c) = <<c>> /\ <<c>> \in Seq(Calls)
    OBVIOUS
  <2>3. x \in Links /\ x.up = <<c>> /\ x.down = <<>> /\ x.st = "open"
    BY <1>1, <2>1, <2>2 DEF Links
  <2>4. r \in Records /\ r.pc = "head" /\ r.k = k /\ r.of = call[c].of /\ r.pc \in Holding
    BY <1>1 DEF Records, Holding
  <2>5. link' = [link EXCEPT ![k] = x] /\ call' = [call EXCEPT ![c] = r]
    BY <1>2, <2>1, <2>2
  <2> HIDE DEF x, r
  <2>6. Flight(c, r, x)
    BY <2>1, <2>3, <2>4 DEF Flight
  <2> QED BY <1>1, <1>2, <2>3, <2>4, <2>5, <2>6, CallMoves
<1>3. CASE Fail(c)
  BY <1>1, <1>3, FailKeeps
<1> QED BY <1>2, <1>3 DEF SendRequest
\* One piece less in flight: the rest is what the reader still asks for, and after the last
\* piece there is none.
LEMMA PieceRead ==
    ASSUME NEW d \in Seq(Msgs), d /= <<>>, NEW left \in Nat, NEW mode \in Modes, Fits(mode, left, d)
    PROVE  /\ Head(d) \in Msgs /\ Tail(d) \in Seq(Msgs) /\ mode /= "none"
           /\ mode = "length" => left - 1 \in Nat /\ Fits(mode, left - 1, Tail(d))
           /\ mode \in {"chunked", "untilclose"} => Fits(mode, 0, Tail(d))
           /\ mode = "length" /\ left = 1 => Tail(d) = <<>>
           /\ mode = "chunked" /\ Head(d).mode = "last" => Tail(d) = <<>>
<1> DEFINE t == Tail(d)
<1>1. /\ Head(d) \in Msgs /\ t \in Seq(Msgs) /\ Len(t) = Len(d) - 1 /\ Head(d) = d[1]
      /\ \A i \in 1..Len(t) : t[i] = d[i + 1]
  BY HeadTailProperties
<1>2. Len(d) \in Nat /\ Len(d) > 0
  BY LenProperties, EmptySeq
<1>3. Len(t) = 0 => t = <<>>
  BY <1>1, EmptySeq
<1> HIDE DEF t
<1>4. mode = "length" => left - 1 \in Nat /\ Fits(mode, left - 1, t)
  BY <1>1, <1>2 DEF Fits
<1>5. mode \in {"chunked", "untilclose"} => Fits(mode, 0, t)
  <2>1. CASE mode = "chunked"
    <3>1. \A i \in 1..Len(d) : d[i].mode = "last" => i = Len(d)
      BY <2>1 DEF Fits
    <3>2. \A i \in 1..Len(t) : i + 1 \in 1..Len(d) /\ t[i] = d[i + 1]
      BY <1>1, <1>2
    <3>3. \A i \in 1..Len(t) : t[i].mode = "last" => i = Len(t)
      BY <1>1, <1>2, <3>1, <3>2
    <3> QED BY <2>1, <3>3 DEF Fits
  <2>2. CASE mode = "untilclose"
    BY <2>2 DEF Fits
  <2> QED BY <2>1, <2>2
<1>6. mode = "length" /\ left = 1 => t = <<>>
  BY <1>1, <1>2, <1>3 DEF Fits
<1>7. mode = "chunked" /\ Head(d).mode = "last" => t = <<>>
  BY <1>1, <1>2, <1>3 DEF Fits
<1>8. mode /= "none"
  BY DEF Fits
<1> QED BY <1>1, <1>4, <1>5, <1>6, <1>7, <1>8 DEF t

\* parseResponse(): the head is the answer to this call's request.
LEMMA ParseKeeps ==
    ASSUME Constant, IInv, NEW c \in Calls, ParseHead(c) PROVE IInv'
<1> DEFINE k == call[c].k
<1> DEFINE d == link[k].down
<1> DEFINE h == Head(d)
<1> DEFINE r == [call[c] EXCEPT !.pc = "body", !.of = h.of, !.mode = h.mode, !.close = h.close,
                                !.left = IF h.mode = "length" THEN 2 ELSE 0]
<1> DEFINE x == [link[k] EXCEPT !.down = Tail(d)]
<1>0. call[c].pc = "head" /\ call[c].pc \in Holding
  BY DEF ParseHead, Holding
<1>1. /\ call[c] \in Records /\ k \in Conns /\ link[k] \in Links /\ Flight(c, call[c], link[k])
  BY <1>0, Holds
<1>2. CASE Fail(c)
  BY <1>1, <1>2, FailKeeps
<1>3. CASE /\ d /= <<>> /\ h.mode \notin {"data", "last"} /\ idle' = idle
           /\ IF Complete(h.mode) THEN Finish(c, r, [link EXCEPT ![k].down = Tail(@)])
              ELSE call' = [call EXCEPT ![c] = r] /\ link' = [link EXCEPT ![k].down = Tail(@)]
  <2>1. d \in Seq(Msgs) /\ h \in Msgs /\ Tail(d) \in Seq(Msgs)
    <3>1. d \in Seq(Msgs)
      BY <1>1 DEF Links
    <3> HIDE DEF d
    <3> QED BY <1>3, <3>1, HeadTailProperties
  <2>2. link[k].up = <<>> /\ h.of = c /\ Fits(h.mode, 2, Tail(d)) /\ link[k].st = "open"
    BY <1>0, <1>1, <1>3 DEF Flight
  <2>3. h.mode \in Modes /\ h.close \in YesNo
    <3> HIDE DEF h
    <3> QED BY <1>3, <2>1 DEF Msgs
  <2>4. [link EXCEPT ![k].down = Tail(@)] = [link EXCEPT ![k] = x]
    OBVIOUS
  <2>5. x \in Links /\ x.up = <<>> /\ x.down = Tail(d) /\ x.st = "open"
    <3>1. Tail(d) \in Seq(Msgs) /\ link[k] \in Links
      BY <1>1, <2>1
    <3> HIDE DEF d
    <3> QED BY <2>2, <3>1 DEF Links
  <2> HIDE DEF h
  <2>6. /\ r \in Records /\ r.k = k /\ r.of = c /\ r.pc = "body" /\ r.pc \in Holding /\ r.mode = h.mode
        /\ r.left = IF h.mode = "length" THEN 2 ELSE 0
    BY <1>1, <2>2, <2>3 DEF Records, Holding
  <2> HIDE DEF x, r, d
  <2>7. CASE Complete(h.mode)
    <3>1. x.down = <<>>
      BY <2>2, <2>5, <2>7 DEF Complete, Fits
    <3>2. Finish(c, r, [link EXCEPT ![k] = x])
      BY <1>3, <2>4, <2>7
    <3> QED BY <1>1, <1>3, <2>5, <2>6, <3>1, <3>2, FinishKeeps
  <2>8. CASE ~Complete(h.mode)
    <3>1. r.mode /= "none" /\ Fits(r.mode, r.left, x.down)
      BY <2>2, <2>5, <2>6, <2>8 DEF Complete, Fits
    <3>2. Flight(c, r, x)
      BY <2>5, <2>6, <3>1 DEF Flight
    <3>3. call' = [call EXCEPT ![c] = r] /\ link' = [link EXCEPT ![k] = x]
      BY <1>3, <2>4, <2>8
    <3> QED BY <1>1, <1>3, <2>5, <2>6, <3>2, <3>3, CallMoves
  <2> QED BY <2>7, <2>8
<1> QED BY <1>2, <1>3 DEF ParseHead

\* readToEnd(): after the last piece the connection is empty.
LEMMA ReadKeeps ==
    ASSUME Constant, IInv, NEW c \in Calls, ReadBody(c) PROVE IInv'
<1> DEFINE k == call[c].k
<1> DEFINE d == link[k].down
<1> DEFINE m == call[c].mode
<1> DEFINE last == (m = "length" /\ call[c].left = 1) \/ (m = "chunked" /\ Head(d).mode = "last")
<1> DEFINE r == [call[c] EXCEPT !.left = IF m = "length" THEN @ - 1 ELSE 0]
<1> DEFINE x == [link[k] EXCEPT !.down = Tail(d)]
<1>0. call[c].pc = "body" /\ call[c].pc \in Holding
  BY DEF ReadBody, Holding
<1>1. /\ call[c] \in Records /\ k \in Conns /\ link[k] \in Links /\ Flight(c, call[c], link[k])
  BY <1>0, Holds
<1>2. /\ link[k].up = <<>> /\ link[k].st = "open" /\ call[c].of \in {None, c}
      /\ m /= "none" /\ Fits(m, call[c].left, d)
  BY <1>0, <1>1 DEF Flight
<1>3. CASE Fail(c)
  BY <1>1, <1>3, FailKeeps
<1>4. CASE d = <<>> /\ Finish(c, call[c], link) /\ idle' = idle
  <2>1. link = [link EXCEPT ![k] = link[k]]
    <3>1. link \in [Conns -> Links]
      BY DEF IInv, Typed
    <3> QED BY <1>1, <3>1
  <2>2. Finish(c, call[c], [link EXCEPT ![k] = link[k]])
    BY <1>4, <2>1
  <2> QED BY <1>1, <1>2, <1>4, <2>2, FinishKeeps
<1>5. CASE /\ d /= <<>> /\ idle' = idle
           /\ IF last THEN Finish(c, call[c], [link EXCEPT ![k].down = Tail(@)])
              ELSE /\ link' = [link EXCEPT ![k].down = Tail(@)]
                   /\ call' = [call EXCEPT ![c].left = IF m = "length" THEN @ - 1 ELSE 0]
  <2>1. d \in Seq(Msgs) /\ m \in Modes /\ call[c].left \in Nat
    BY <1>1 DEF Links, Records
  <2>2. /\ Tail(d) \in Seq(Msgs)
        /\ m = "length" => call[c].left - 1 \in Nat /\ Fits(m, call[c].left - 1, Tail(d))
        /\ m \in {"chunked", "untilclose"} => Fits(m, 0, Tail(d))
        /\ last => Tail(d) = <<>>
    <3> HIDE DEF d, m
    <3> QED BY <1>2, <1>5, <2>1, PieceRead
  <2>3. [link EXCEPT ![k].down = Tail(@)] = [link EXCEPT ![k] = x]
    OBVIOUS
  <2>4. x \in Links /\ x.up = <<>> /\ x.down = Tail(d) /\ x.st = "open"
    <3> HIDE DEF d
    <3> QED BY <1>1, <1>2, <2>2 DEF Links
  <2>5. CASE last
    <3> HIDE DEF x, last
    <3>1. Finish(c, call[c], [link EXCEPT ![k] = x]) /\ x.down = <<>>
      BY <1>5, <2>2, <2>3, <2>4, <2>5
    <3> QED BY <1>1, <1>2, <1>5, <2>4, <3>1, FinishKeeps
  <2>6. CASE ~last
    <3>1. /\ r \in Records /\ r.k = k /\ r.of = call[c].of /\ r.pc = "body" /\ r.pc \in Holding /\ r.mode = m
          /\ r.left = IF m = "length" THEN call[c].left - 1 ELSE 0
      BY <1>0, <1>1, <2>2 DEF Records, Holding
    <3>2. call' = [call EXCEPT ![c] = r] /\ link' = [link EXCEPT ![k] = x]
      <4> HIDE DEF last
      <4> QED BY <1>5, <2>3, <2>6
    <3> HIDE DEF x, r, last, d
    <3>3. Fits(r.mode, r.left, x.down)
      BY <1>2, <2>1, <2>2, <2>4, <3>1 DEF Modes
    <3>4. Flight(c, r, x)
      BY <1>2, <2>4, <3>1, <3>3 DEF Flight
    <3> QED BY <1>1, <1>5, <2>4, <3>1, <3>2, <3>4, CallMoves
  <2> QED BY <2>5, <2>6
<1> QED BY <1>3, <1>4, <1>5 DEF ReadBody
\* releaseConnection(): the connection is clean when it goes to the pool.
LEMMA ReleaseKeeps ==
    ASSUME Constant, IInv, NEW c \in Calls, Release(c) PROVE IInv'
<1> DEFINE k == call[c].k
<1>0. call[c].pc = "release" /\ call[c].pc \in Holding
  BY DEF Release, Holding
<1>1. /\ call[c] \in Records /\ k \in Conns /\ link[k] \in Links /\ Flight(c, call[c], link[k])
      /\ link \in [Conns -> Links] /\ idle \in Seq(Conns)
  BY <1>0, Holds DEF IInv, Typed
<1>2. CASE Len(idle) < MaxIdle /\ idle' = Append(idle, k) /\ call' = [call EXCEPT ![c] = NewCall] /\ link' = link
  <2> DEFINE p == Append(idle, k)
  <2>1. /\ p \in Seq(Conns) /\ Len(p) = Len(idle) + 1 /\ p[Len(idle) + 1] = k /\ Len(idle) \in Nat
        /\ \A i \in 1..Len(idle) : p[i] = idle[i]
    BY <1>1, AppendProperties, LenProperties
  <2> HIDE DEF p
  <2>2. \A i \in 1..Len(p) : i = Len(idle) + 1 \/ i \in 1..Len(idle)
    BY <2>1
  <2>3. \A i \in 1..Len(idle) : /\ idle[i] /= k /\ link[idle[i]].st = "open" /\ link[idle[i]].up = <<>>
                                /\ link[idle[i]].down = <<>> /\ \A d \in Calls : call[d].k /= idle[i]
    BY DEF IInv, Pooled
  <2>4. link[k].st = "open" /\ link[k].up = <<>> /\ link[k].down = <<>>
    BY <1>0, <1>1 DEF Flight
  <2>5. \A d \in Calls \ {c} : call[d].k /= k
    BY <1>1 DEF IInv, Held
  <2>6. \A i \in 1..Len(p) : /\ link[p[i]].st = "open" /\ link[p[i]].up = <<>> /\ link[p[i]].down = <<>>
                             /\ p[i] \in Conns /\ \A d \in Calls \ {c} : call[d].k /= p[i]
    <3>1. \A i \in 1..Len(p) : p[i] \in Conns
      BY <2>1, ElementOfSeq
    <3> QED BY <2>1, <2>2, <2>3, <2>4, <2>5, <3>1
  <2>7. \A i, j \in 1..Len(p) : p[i] = p[j] => i = j
    <3>1. \A i, j \in 1..Len(idle) : idle[i] = idle[j] => i = j
      BY DEF IInv, Pooled
    <3> QED BY <2>1, <2>2, <2>3, <3>1
  <2>8. Len(p) <= MaxIdle
    BY <1>2, <2>1 DEF Constant
  <2>9. NewCall \in Records /\ NewCall.k = None /\ NewCall.of = None /\ NewCall.pc \notin Holding /\ None \notin Conns
    BY Fresh DEF Holding, Constant
  <2>a. \A j \in Conns : link[j].up /= <<>> => \E d \in Calls \ {c} : call[d].k = j
    BY <2>4 DEF IInv, Asked
  <2>b. \A d \in Calls \ {c} : call[d].k \in Conns => link[call[d].k] = link[call[d].k]
    OBVIOUS
  <2>10. Rearranges(c, NewCall, link, p)
    BY <1>1, <2>1, <2>6, <2>7, <2>8, <2>9, <2>a, <2>b DEF Rearranges
  <2> QED BY <1>2, <2>10, Rearranged DEF p
<1>3. CASE call' = [call EXCEPT ![c] = NewCall] /\ link' = Dropped({k}) /\ idle' = idle
  <2>1. Dropped({k}) = [link EXCEPT ![k] = NoLink]
    BY <1>1 DEF Dropped
  <2> QED BY <1>1, <1>3, <2>1, CallDrops
<1> QED BY <1>2, <1>3 DEF Release, Ended

\* The first n pieces of a body.
LEMMA Prefix ==
    ASSUME NEW t \in Seq(Msgs), NEW n \in 0..Len(t)
    PROVE  SubSeq(t, 1, n) \in Seq(Msgs) /\ Len(SubSeq(t, 1, n)) = n /\ \A i \in 1..n : SubSeq(t, 1, n)[i] = t[i]
<1>1. Len(t) \in Nat /\ n \in Nat /\ n <= Len(t)
  BY LenProperties
<1>2. \A i \in 1..n : t[i] \in Msgs
  BY <1>1, ElementOfSeq
<1> QED BY <1>1, <1>2, SubSeqProperties

\* A head and the pieces after it.
LEMMA HeadAndBody ==
    ASSUME NEW h \in Msgs, NEW u \in Seq(Msgs)
    PROVE  /\ <<>> \o <<h>> \o u \in Seq(Msgs) /\ <<>> \o <<h>> \o u /= <<>>
           /\ Head(<<>> \o <<h>> \o u) = h /\ Tail(<<>> \o <<h>> \o u) = u
<1> DEFINE d == <<>> \o <<h>> \o u
<1>1. <<>> \o <<h>> = <<h>> /\ <<h>> \in Seq(Msgs) /\ Len(<<h>>) = 1 /\ <<h>>[1] = h
  OBVIOUS
<1>2. d = <<h>> \o u
  BY <1>1
<1>3. Len(u) \in Nat
  BY LenProperties
<1>4. d \in Seq(Msgs) /\ Len(d) = 1 + Len(u) /\ d[1] = h /\ \A i \in 1..Len(u) : d[i + 1] = u[i]
  <2>1. /\ <<h>> \o u \in Seq(Msgs) /\ Len(<<h>> \o u) = 1 + Len(u)
        /\ \A i \in 1..1 + Len(u) : (<<h>> \o u)[i] = IF i <= 1 THEN <<h>>[i] ELSE u[i - 1]
    BY <1>1, ConcatProperties, Zenon
  <2>2. \A i \in 1..Len(u) : i + 1 \in 1..1 + Len(u) /\ ~(i + 1 <= 1) /\ (i + 1) - 1 = i
    BY <1>3
  <2>3. 1 \in 1..1 + Len(u) /\ 1 <= 1
    BY <1>3
  <2> HIDE DEF d
  <2> QED BY <1>1, <1>2, <2>1, <2>2, <2>3
<1> HIDE DEF d
<1>5. d /= <<>>
  BY <1>3, <1>4, EmptySeq
<1>6. /\ Head(d) = d[1] /\ Tail(d) \in Seq(Msgs) /\ Len(Tail(d)) = Len(d) - 1
      /\ \A i \in 1..Len(Tail(d)) : Tail(d)[i] = d[i + 1]
  BY <1>4, <1>5, HeadTailProperties
<1>7. Len(Tail(d)) = Len(u) /\ \A i \in 1..Len(Tail(d)) : Tail(d)[i] = u[i]
  BY <1>3, <1>4, <1>6
<1>8. Tail(d) = u
  BY <1>6, <1>7, SeqEqual
<1> QED BY <1>4, <1>5, <1>6, <1>8 DEF d

\* The pieces of a body.
LEMMA Bodies ==
    ASSUME NEW mode \in Modes
    PROVE  /\ Len(BodyOf(mode)) \in Nat
           /\ \A i \in 1..Len(BodyOf(mode)) : BodyOf(mode)[i] \in {"data", "last"}
           /\ mode = "none" => Len(BodyOf(mode)) = 0
           /\ mode = "length" => Len(BodyOf(mode)) = 2
           /\ mode = "chunked" => Len(BodyOf(mode)) = 2 /\ BodyOf(mode)[1] = "data"
<1>1. CASE mode = "none"
  <2>1. BodyOf(mode) = <<>> /\ Len(<<>>) = 0
    BY <1>1, EmptySeq DEF BodyOf
  <2> QED BY <1>1, <2>1
<1>2. CASE mode = "length"
  BY <1>2 DEF BodyOf
<1>3. CASE mode = "chunked"
  BY <1>3 DEF BodyOf
<1>4. CASE mode = "untilclose"
  BY <1>4 DEF BodyOf
<1> QED BY <1>1, <1>2, <1>3, <1>4 DEF Modes

\* A response as the server sends it, whole or cut short, fits the framing its head announces.
HeadOf(c, mode, close) == [of |-> c, mode |-> mode, close |-> close]
Pieces(c, mode, close) ==
    [i \in 1..Len(BodyOf(mode)) |-> [HeadOf(c, mode, close) EXCEPT !.mode = BodyOf(mode)[i]]]
Answer(c, mode, close, n) == <<>> \o <<HeadOf(c, mode, close)>> \o SubSeq(Pieces(c, mode, close), 1, n)
IsAnswer(c, d) == d \in Seq(Msgs) /\ d /= <<>> /\ Head(d).of = c /\ Fits(Head(d).mode, 2, Tail(d))

\* So every answer is one that Flight() allows.
LEMMA AnswerFits ==
    ASSUME NEW c \in Calls, NEW mode \in Modes, NEW close \in YesNo,
           NEW n \in 0..Len(Pieces(c, mode, close))
    PROVE  IsAnswer(c, Answer(c, mode, close, n))
<1> DEFINE head == HeadOf(c, mode, close)
<1> DEFINE t == Pieces(c, mode, close)
<1> DEFINE d == Answer(c, mode, close, n)
<1>1. /\ Len(BodyOf(mode)) \in Nat
      /\ \A i \in 1..Len(BodyOf(mode)) : BodyOf(mode)[i] \in {"data", "last"}
      /\ mode = "none" => Len(BodyOf(mode)) = 0
      /\ mode = "length" => Len(BodyOf(mode)) = 2
      /\ mode = "chunked" => Len(BodyOf(mode)) = 2 /\ BodyOf(mode)[1] = "data"
  BY Bodies
<1> DEFINE b == BodyOf(mode)
<1> HIDE DEF b
<1>2. head \in Msgs /\ head.of = c /\ head.mode = mode
  BY DEF Msgs, HeadOf
<1>a. t = [i \in 1..Len(BodyOf(mode)) |-> [head EXCEPT !.mode = BodyOf(mode)[i]]]
  BY DEF Pieces
<1>b. d = <<>> \o <<head>> \o SubSeq(t, 1, n)
  BY DEF Answer
<1> HIDE DEF head, t, d
<1>c. n \in 0..Len(t)
  BY DEF t
<1>3. \A i \in 1..Len(b) : b[i] \in {"data", "last"}
  BY <1>1 DEF b
<1>4. \A i \in 1..Len(b) : [head EXCEPT !.mode = b[i]] \in Msgs /\ [head EXCEPT !.mode = b[i]].mode = b[i]
  BY <1>2, <1>3 DEF Msgs
<1>5. t \in [1..Len(b) -> Msgs] /\ \A i \in 1..Len(b) : t[i].mode = b[i]
  BY <1>4, <1>a DEF b
<1>6. t \in Seq(Msgs) /\ Len(t) = Len(b)
  BY <1>1, <1>5 DEF b
<1> DEFINE u == SubSeq(t, 1, n)
<1>7. u \in Seq(Msgs) /\ Len(u) = n /\ \A i \in 1..n : u[i] = t[i]
  BY <1>6, <1>c, Prefix
<1> HIDE DEF u
<1>9. d \in Seq(Msgs) /\ d /= <<>> /\ Head(d) = head /\ Tail(d) = u
  <2>1. d = <<>> \o <<head>> \o u
    BY <1>b DEF u
  <2>2. head \in Msgs /\ u \in Seq(Msgs)
    BY <1>2, <1>7
  <2> QED BY <2>1, <2>2, HeadAndBody, Zenon
<1>10. Fits(mode, 2, u)
  <2>1. n \in Nat /\ n <= Len(b)
    BY <1>1, <1>6, <1>c DEF b
  <2>2. CASE mode = "none"
    <3>1. Len(u) = 0
      BY <1>1, <1>7, <2>1, <2>2 DEF b
    <3>2. u = <<>>
      BY <1>7, <3>1, EmptySeq
    <3> QED BY <2>2, <3>2 DEF Fits
  <2>3. CASE mode = "length"
    BY <1>1, <1>7, <2>1, <2>3 DEF Fits, b
  <2>4. CASE mode = "chunked"
    <3>1. Len(b) = 2 /\ b[1] = "data"
      BY <1>1, <2>4 DEF b
    <3>2. \A i \in 1..n : i \in 1..Len(b) /\ i \in 1..2 /\ i <= n
      BY <2>1, <3>1
    <3>4. \A i \in 1..n : u[i].mode = b[i]
      BY <1>5, <1>7, <3>2
    <3>3. \A i \in 1..Len(u) : u[i].mode = "last" => i = Len(u)
      BY <1>7, <2>1, <3>1, <3>2, <3>4
    <3> QED BY <2>4, <3>3 DEF Fits
  <2>5. CASE mode = "untilclose"
    BY <2>5 DEF Fits
  <2> QED BY <2>2, <2>3, <2>4, <2>5 DEF Modes
<1> QED BY <1>2, <1>9, <1>10 DEF IsAnswer, d

\* The server answers the one request that is in flight.
LEMMA AnswerKeeps ==
    ASSUME Constant, IInv, NEW k \in Conns, ServerAnswers(k) PROVE IInv'
<1>1. link[k].up /= <<>> /\ call' = call /\ idle' = idle /\ link \in [Conns -> Links] /\ link[k] \in Links
  BY DEF ServerAnswers, IInv, Typed
<1> DEFINE head(mode, close) == [of |-> Head(link[k].up), mode |-> mode, close |-> close]
<1> DEFINE t(mode, close) == [i \in 1..Len(BodyOf(mode)) |-> [head(mode, close) EXCEPT !.mode = BodyOf(mode)[i]]]
<1>2. PICK mode \in Modes, close \in YesNo :
        \E n \in 0..Len(t(mode, close)) :
           link' = [link EXCEPT ![k].up = Tail(@),
                                ![k].down = @ \o <<head(mode, close)>> \o SubSeq(t(mode, close), 1, n),
                                ![k].fin = IF n < Len(t(mode, close)) \/ mode = "untilclose" \/ close = "yes"
                                           THEN "yes" ELSE "no"]
  BY DEF ServerAnswers, Modes, YesNo
<1>3. PICK n \in 0..Len(t(mode, close)) :
           link' = [link EXCEPT ![k].up = Tail(@),
                                ![k].down = @ \o <<head(mode, close)>> \o SubSeq(t(mode, close), 1, n),
                                ![k].fin = IF n < Len(t(mode, close)) \/ mode = "untilclose" \/ close = "yes"
                                           THEN "yes" ELSE "no"]
  BY <1>2
<1> DEFINE d == link[k].down \o <<head(mode, close)>> \o SubSeq(t(mode, close), 1, n)
<1> DEFINE fin == IF n < Len(t(mode, close)) \/ mode = "untilclose" \/ close = "yes" THEN "yes" ELSE "no"
<1> DEFINE x == [link[k] EXCEPT !.up = Tail(link[k].up), !.down = d, !.fin = fin]
<1>4. link' = [link EXCEPT ![k] = x]
  <2> HIDE DEF t, head
  <2> QED BY <1>1, <1>3
<1>5. PICK c \in Calls : call[c].k = k
  BY <1>1 DEF IInv, Asked
<1>7. call[c].pc \in Holding /\ Flight(c, call[c], link[k])
  BY <1>5 DEF IInv, Held
<1>8. call[c].pc = "head" /\ link[k].up = <<c>> /\ link[k].down = <<>> /\ link[k].st = "open" /\ call[c].of \in {None, c}
  BY <1>1, <1>7 DEF Flight, Holding
<1>9. Head(link[k].up) = c /\ Tail(link[k].up) = <<>>
  BY <1>8
<1>10. t(mode, close) = Pieces(c, mode, close) /\ d = Answer(c, mode, close, n)
  BY <1>8, <1>9 DEF Pieces, Answer, HeadOf
<1>11. IsAnswer(c, d)
  <2> HIDE DEF d, t
  <2> QED BY <1>10, AnswerFits
<1>12. fin \in YesNo
  BY DEF YesNo
<1> HIDE DEF d, fin
<1>13. x \in Links /\ x.up = <<>> /\ x.down = d /\ x.st = link[k].st
  <2>1. <<>> \in Seq(Calls) /\ d \in Seq(Msgs)
    BY <1>11, EmptySeq DEF IsAnswer
  <2> QED BY <1>1, <1>9, <1>12, <2>1 DEF Links
<1> HIDE DEF x
<1>14. Flight(c, call[c], x)
  BY <1>8, <1>11, <1>13 DEF Flight, IsAnswer
<1>15. \A e \in Calls : call[e].k = k => e = c
  BY <1>5 DEF IInv, Held
<1>16. \A e \in Calls : call[e].k = k => Flight(e, call[e], x)
  BY <1>14, <1>15
<1> QED BY <1>1, <1>4, <1>8, <1>13, <1>16, LinkMoves
-----------------------------------------------------------------------------
\* The invariant and what it gives

\* The client starts with no connection.
LEMMA InitIInv ==
    ASSUME Constant, Init PROVE IInv
<1>1. idle = <<>> /\ idle \in Seq(Conns) /\ Len(idle) = 0
  BY EmptySeq DEF Init
<1>2. /\ \A c \in Calls : call[c] = NewCall
      /\ \A k \in Conns : link[k] = NoLink
      /\ call = [c \in Calls |-> NewCall] /\ link = [k \in Conns |-> NoLink]
  BY DEF Init
<1>3. NewCall.pc \notin Holding /\ NewCall.k = None /\ NewCall.of = None /\ None \notin Conns /\ NoLink.up = <<>>
  BY Fresh DEF Holding, Constant, NoLink
<1>4. Typed
  BY <1>1, <1>2, Fresh DEF Typed
<1>5. Held
  BY <1>2, <1>3 DEF Held
<1>6. Pooled
  BY <1>1 DEF Pooled, Constant
<1>7. Asked
  BY <1>2, <1>3 DEF Asked
<1> QED BY <1>4, <1>5, <1>6, <1>7 DEF IInv

\* The server closes, or the client's loop learns of it.
LEMMA CloseKeeps ==
    ASSUME IInv, NEW k \in Conns, ServerCloses(k) \/ Hangup(k) PROVE IInv'
<1>0. /\ link \in [Conns -> Links] /\ link[k] \in Links
      /\ \A c \in Calls : call[c].k = k => Flight(c, call[c], link[k])
  BY DEF IInv, Typed, Held
<1>1. ASSUME NEW x \in Links, x.st = link[k].st, x.up = link[k].up, x.down = link[k].down,
             link' = [link EXCEPT ![k] = x], call' = call, idle' = idle
      PROVE  IInv'
  <2>1. \A c \in Calls : call[c].k = k => Flight(c, call[c], x)
    BY <1>0, <1>1 DEF Flight
  <2> QED BY <1>1, <2>1, LinkMoves
<1>2. CASE ServerCloses(k)
  <2> DEFINE x == [link[k] EXCEPT !.fin = "yes"]
  <2>1. x \in Links /\ x.st = link[k].st /\ x.up = link[k].up /\ x.down = link[k].down
    BY <1>0 DEF Links, YesNo
  <2>2. link' = [link EXCEPT ![k] = x] /\ call' = call /\ idle' = idle
    BY <1>2 DEF ServerCloses
  <2> HIDE DEF x
  <2> QED BY <1>1, <2>1, <2>2
<1>3. CASE Hangup(k)
  <2> DEFINE x == [link[k] EXCEPT !.hup = "yes"]
  <2>1. x \in Links /\ x.st = link[k].st /\ x.up = link[k].up /\ x.down = link[k].down
    BY <1>0 DEF Links, YesNo
  <2>2. link' = [link EXCEPT ![k] = x] /\ call' = call /\ idle' = idle
    BY <1>3 DEF Hangup
  <2> HIDE DEF x
  <2> QED BY <1>1, <2>1, <2>2
<1> QED BY <1>2, <1>3

\* A call begins.
LEMMA StartKeeps ==
    ASSUME Constant, IInv, NEW c \in Calls, Start(c) PROVE IInv'
<1>1. PICK w \in YesNo : call' = [call EXCEPT ![c].pc = "acquire", ![c].whole = w]
  BY DEF Start, YesNo
<1>2. call[c].pc = "idle" /\ link' = link /\ idle' = idle
  BY DEF Start
<1>3. call \in [Calls -> Records] /\ call[c] \in Records /\ call[c].k \notin Conns /\ call[c].of = None
  BY <1>2 DEF IInv, Typed, Held, Holding
<1> DEFINE r == [call[c] EXCEPT !.pc = "acquire", !.whole = w]
<1>4. r \in Records /\ r.k = call[c].k /\ r.of = None /\ r.pc \notin Holding /\ call[c].k = None
  BY <1>3 DEF Records, Holding
<1>5. call' = [call EXCEPT ![c] = r]
  BY <1>1, <1>3
<1> HIDE DEF r
<1> QED BY <1>2, <1>3, <1>4, <1>5, CallWaits

\* Every step of a call, of the server and of the kernel keeps the invariant.
LEMMA NextIInv ==
    ASSUME Constant, IInv, [Next]_vars PROVE IInv'
<1>1. ASSUME NEW k \in Conns, ServerAnswers(k) \/ ServerCloses(k) \/ Hangup(k) PROVE IInv'
  BY <1>1, AnswerKeeps, CloseKeeps
<1>2. ASSUME NEW c \in Calls, Start(c) PROVE IInv'
  BY <1>2, StartKeeps
<1>3. ASSUME NEW c \in Calls, Abandon(c) PROVE IInv'
  <2>1. call[c].pc \in Holding /\ Fail(c)
    BY <1>3 DEF Abandon, Holding
  <2> QED BY <2>1, Holds, FailKeeps
<1>4. ASSUME NEW c \in Calls, CallStep(c) PROVE IInv'
  BY <1>4, AcquireKeeps, ConnectKeeps, SendKeeps, ParseKeeps, ReadKeeps, ReleaseKeeps DEF CallStep
<1>5. CASE UNCHANGED vars
  <2>1. link' = link /\ call' = call /\ idle' = idle
    BY <1>5 DEF vars
  <2> QED BY <2>1 DEF IInv, Typed, Held, Pooled, Asked
<1> QED BY <1>1, <1>2, <1>3, <1>4, <1>5 DEF Next

\* The invariant holds of every behaviour.
LEMMA IInvHolds ==
    ASSUME Constant PROVE Spec => []IInv
<1>1. Init => IInv
  BY InitIInv
<1>2. IInv /\ [Next]_vars => IInv'
  BY NextIInv
<1> QED BY <1>1, <1>2, PTL DEF Spec

\* For any number of calls, connections and idle places, what get(), post() and request()
\* return is the response to their own request, also on a connection that others have used, and
\* a pooled connection is open, has nothing in flight, is pooled once and is used by no call
\* (releaseConnection() and acquireConnection()); the pool is never over its limit.
THEOREM ClientSafeHolds ==
    ASSUME Constant PROVE Spec => []ClientSafe
<1>1. IInv => OwnResponse
  BY DEF IInv, Held, Flight, OwnResponse
<1>2. ASSUME IInv PROVE PoolIsClean
  <2>1. DOMAIN idle = 1..Len(idle)
    BY LenProperties DEF IInv, Typed
  <2>2. Pooled
    BY <1>2 DEF IInv
  <2> QED BY <2>1, <2>2 DEF Pooled, PoolIsClean
<1> QED BY <1>1, <1>2, IInvHolds, PTL DEF ClientSafe
=============================================================================
