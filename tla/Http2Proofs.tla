---------------------------- MODULE Http2Proofs ----------------------------
(***************************************************************************)
(* Http2Session for any number of streams and frames: header blocks reach  *)
(* the wire in the order of their encoding, and a stream id is dispatched  *)
(* once.  Http2Client for any number of calls and sessions: calls never    *)
(* share a stream.                                                         *)
(***************************************************************************)
EXTENDS Http2Parts, Integers, TLAPS

YesNo    == {"yes", "no"}
Other    == {"Data", "RstStream", "GoAway", "FrameError", "WindowUpdate", "Settings", "Ping"}
Writes   == [who : Nat, type : Other \cup {"Headers"}, n : Nat]
SessionStates == [pc : {"preface", "read", "write", "done"}, last : Nat, cont : H!Ids, only : YesNo,
             goaway : YesNo, then : H!Ids, encoded : Nat, dangling : YesNo]
Streams  == [mapped : YesNo, sender : {"none", "open", "closed"}, data : Nat,
             pc : {"none", "spawned", "dropped", "handler", "headers", "data", "last", "done"},
             starts : Nat, ended : YesNo]

\* With ws before or in the write lock and st on the wire, e blocks were encoded: those of st in
\* order, and the rest in order in ws.
Typed(ws, st, e)  == ws \in Seq(Writes) /\ st \in Seq(Nat) /\ e \in Nat
Block(ws, k)      == ws[k].type = "Headers"
OnWire(st)        == \A j \in 1..Len(st) : st[j] = j
Between(ws, m, e) == \A k \in 1..Len(ws) : Block(ws, k) => m < ws[k].n /\ ws[k].n <= e
Rising(ws)        == \A k, l \in 1..Len(ws) : Block(ws, k) /\ Block(ws, l) /\ k < l => ws[k].n < ws[l].n
Complete(ws, m, e) ==
    \A n \in Nat : m < n /\ n <= e => \E k \in 1..Len(ws) : Block(ws, k) /\ ws[k].n = n

Order(ws, st, e) ==
    /\ Typed(ws, st, e) /\ OnWire(st) /\ Len(st) <= e
    /\ Between(ws, Len(st), e) /\ Rising(ws) /\ Complete(ws, Len(st), e)

-----------------------------------------------------------------------------
\* Facts about sequences.

\* The empty sequence has no elements.
LEMMA EmptySeq ==
    ASSUME NEW S
    PROVE  << >> \in Seq(S) /\ Len(<< >>) = 0 /\ \A s \in Seq(S) : s = << >> <=> Len(s) = 0
  OBVIOUS

\* A sequence is a function on 1..Len(s).
LEMMA LenProperties ==
    ASSUME NEW S, NEW s \in Seq(S)
    PROVE  Len(s) \in Nat /\ DOMAIN s = 1..Len(s) /\ s \in [1..Len(s) -> S] /\ \A i \in 1..Len(s) : s[i] \in S
  OBVIOUS

\* Append() keeps what was there and adds one element.
LEMMA AppendProperties ==
    ASSUME NEW S, NEW s \in Seq(S), NEW e \in S
    PROVE  /\ Append(s, e) \in Seq(S) /\ Append(s, e) # << >> /\ Len(Append(s, e)) = Len(s) + 1
           /\ Append(s, e)[Len(s) + 1] = e /\ \A i \in 1..Len(s) : Append(s, e)[i] = s[i]
  OBVIOUS

\* Head() is the first element, Tail() the others.
LEMMA HeadTailProperties ==
    ASSUME NEW S, NEW s \in Seq(S), s # << >>
    PROVE  /\ Head(s) \in S /\ Head(s) = s[1] /\ Tail(s) \in Seq(S) /\ Len(Tail(s)) = Len(s) - 1
           /\ \A i \in 1..Len(Tail(s)) : Tail(s)[i] = s[i + 1]
  OBVIOUS

\* The elements of a sequence.
LEMMA ElementOfSeq ==
    ASSUME NEW S, NEW s \in Seq(S), NEW i \in 1..Len(s)
    PROVE  s[i] \in S
  OBVIOUS

-----------------------------------------------------------------------------
\* What the type of the sequences says of their lengths and elements.
LEMMA Sizes ==
    ASSUME NEW ws, NEW st, NEW e, Typed(ws, st, e)
    PROVE  /\ Len(ws) \in Nat /\ Len(st) \in Nat /\ e \in Nat
           /\ \A k \in 1..Len(ws) : ws[k].n \in Nat
<1>1. Len(ws) \in Nat /\ Len(st) \in Nat /\ e \in Nat
  BY LenProperties DEF Typed
<1>2. \A k \in 1..Len(ws) : ws[k] \in Writes
  BY ElementOfSeq DEF Typed
<1>3. \A k \in 1..Len(ws) : ws[k].n \in Nat
  BY <1>2 DEF Writes
<1> QED BY <1>1, <1>3

\* A frame that is not a header block asks for the lock.
LEMMA PutOther ==
    ASSUME NEW ws, NEW st, NEW e, Order(ws, st, e), NEW w \in Writes, w.type /= "Headers"
    PROVE  Order(Append(ws, w), st, e)
<1> DEFINE v == Append(ws, w)
<1>0. Typed(ws, st, e)
  BY DEF Order
<1>1. /\ v \in Seq(Writes) /\ Len(v) = Len(ws) + 1 /\ v[Len(ws) + 1] = w
      /\ \A k \in 1..Len(ws) : v[k] = ws[k]
  BY <1>0, AppendProperties DEF Typed
<1>2. Len(ws) \in Nat
  BY <1>0, Sizes
<1> HIDE DEF v
<1>3. Typed(v, st, e)
  BY <1>0, <1>1 DEF Typed
<1>4. \A k \in 1..Len(v) : Block(v, k) => k \in 1..Len(ws) /\ v[k] = ws[k] /\ Block(ws, k)
  BY <1>1, <1>2 DEF Block
<1>5. Between(v, Len(st), e)
  BY <1>4 DEF Order, Between
<1>6. Rising(v)
  BY <1>4 DEF Order, Rising
<1>7. \A k \in 1..Len(ws) : k \in 1..Len(v) /\ v[k] = ws[k]
  BY <1>1, <1>2
<1>8. Complete(v, Len(st), e)
  BY <1>7 DEF Order, Complete, Block
<1>9. Order(v, st, e)
  BY <1>3, <1>5, <1>6, <1>8 DEF Order
<1> QED BY <1>9 DEF v

\* A header block asks for the lock in the step that encodes it.
LEMMA PutBlock ==
    ASSUME NEW ws, NEW st, NEW e, Order(ws, st, e), NEW w \in Writes, w.type = "Headers", w.n = e + 1
    PROVE  Order(Append(ws, w), st, e + 1)
<1> DEFINE v == Append(ws, w)
<1>0. Typed(ws, st, e) /\ Len(st) <= e
  BY DEF Order
<1>1. /\ v \in Seq(Writes) /\ Len(v) = Len(ws) + 1 /\ v[Len(ws) + 1] = w
      /\ \A k \in 1..Len(ws) : v[k] = ws[k]
  BY <1>0, AppendProperties DEF Typed
<1>2. Len(ws) \in Nat /\ Len(st) \in Nat /\ e \in Nat /\ \A k \in 1..Len(ws) : ws[k].n \in Nat
  BY <1>0, Sizes
<1> HIDE DEF v
<1>3. Typed(v, st, e + 1)
  BY <1>0, <1>1 DEF Typed
<1>4. \A k \in 1..Len(v) : /\ k = Len(ws) + 1 => v[k].n = e + 1
                           /\ k /= Len(ws) + 1 => k \in 1..Len(ws) /\ v[k] = ws[k]
  BY <1>1, <1>2
<1>5. \A k \in 1..Len(ws) : Block(ws, k) => Len(st) < ws[k].n /\ ws[k].n <= e
  BY DEF Order, Between
<1>6. Between(v, Len(st), e + 1)
  BY <1>0, <1>2, <1>4, <1>5 DEF Between, Block
<1>7. Rising(v)
  <2> SUFFICES ASSUME NEW k \in 1..Len(v), NEW l \in 1..Len(v), Block(v, k), Block(v, l), k < l
               PROVE  v[k].n < v[l].n
    BY DEF Rising
  <2>1. k \in 1..Len(ws) /\ v[k] = ws[k] /\ Block(ws, k)
    BY <1>1, <1>2 DEF Block
  <2>2. CASE l = Len(ws) + 1
    BY <2>1, <2>2, <1>2, <1>4, <1>5
  <2>3. CASE l /= Len(ws) + 1
    BY <2>1, <2>3, <1>4 DEF Order, Rising, Block
  <2> QED BY <2>2, <2>3
<1>8. Complete(v, Len(st), e + 1)
  <2> SUFFICES ASSUME NEW n \in Nat, Len(st) < n, n <= e + 1
               PROVE  \E k \in 1..Len(v) : Block(v, k) /\ v[k].n = n
    BY DEF Complete
  <2>1. CASE n = e + 1
    BY <2>1, <1>1, <1>2 DEF Block
  <2>2. CASE n <= e
    <3>1. PICK k \in 1..Len(ws) : Block(ws, k) /\ ws[k].n = n
      BY <2>2 DEF Order, Complete
    <3> QED BY <3>1, <1>1, <1>2 DEF Block
  <2> QED BY <2>1, <2>2, <1>2
<1>9. Order(v, st, e + 1)
  BY <1>0, <1>2, <1>3, <1>6, <1>7, <1>8 DEF Order
<1> QED BY <1>9 DEF v

\* Without its first element a sequence keeps the others, one place earlier.
LEMMA Shift ==
    ASSUME NEW ws \in Seq(Writes), ws /= <<>>
    PROVE  /\ Tail(ws) \in Seq(Writes) /\ Head(ws) = ws[1] /\ 1 \in 1..Len(ws)
           /\ \A k \in 1..Len(Tail(ws)) : k + 1 \in 1..Len(ws) /\ Tail(ws)[k] = ws[k + 1]
           /\ \A k \in 1..Len(ws) : k /= 1 => k - 1 \in 1..Len(Tail(ws)) /\ Tail(ws)[k - 1] = ws[k]
<1> DEFINE v == Tail(ws)
<1>1. /\ v \in Seq(Writes) /\ Len(v) = Len(ws) - 1 /\ Head(ws) = ws[1]
      /\ \A k \in 1..Len(v) : v[k] = ws[k + 1]
  BY HeadTailProperties
<1>2. Len(ws) \in Nat /\ Len(ws) > 0
  BY LenProperties, EmptySeq
<1> HIDE DEF v
<1>3. \A k \in 1..Len(v) : k + 1 \in 1..Len(ws) /\ v[k] = ws[k + 1]
  BY <1>1, <1>2
<1>4. \A k \in 1..Len(ws) : k /= 1 => k - 1 \in 1..Len(v) /\ v[k - 1] = ws[k]
  BY <1>1, <1>2
<1>5. 1 \in 1..Len(ws)
  BY <1>2
<1> QED BY <1>1, <1>3, <1>4, <1>5 DEF v

\* The owner of the lock has written another frame.
LEMMA TakeOther ==
    ASSUME NEW ws, NEW st, NEW e, Order(ws, st, e), ws /= <<>>, Head(ws).type /= "Headers"
    PROVE  Order(Tail(ws), st, e)
<1> DEFINE v == Tail(ws)
<1>0. Typed(ws, st, e)
  BY DEF Order
<1>1. /\ v \in Seq(Writes) /\ Head(ws) = ws[1] /\ 1 \in 1..Len(ws)
      /\ \A k \in 1..Len(v) : k + 1 \in 1..Len(ws) /\ v[k] = ws[k + 1]
      /\ \A k \in 1..Len(ws) : k /= 1 => k - 1 \in 1..Len(v) /\ v[k - 1] = ws[k]
  BY <1>0, Shift DEF Typed
<1> HIDE DEF v
<1>2. Typed(v, st, e)
  BY <1>0, <1>1 DEF Typed
<1>3. Between(v, Len(st), e)
  BY <1>1 DEF Order, Between, Block
<1>4. Rising(v)
  <2> SUFFICES ASSUME NEW k \in 1..Len(v), NEW l \in 1..Len(v), Block(v, k), Block(v, l), k < l
               PROVE  v[k].n < v[l].n
    BY DEF Rising
  <2>1. /\ k + 1 \in 1..Len(ws) /\ l + 1 \in 1..Len(ws) /\ k + 1 < l + 1
        /\ v[k] = ws[k + 1] /\ v[l] = ws[l + 1]
    BY <1>1
  <2> QED BY <2>1 DEF Order, Rising, Block
<1>5. Complete(v, Len(st), e)
  <2> SUFFICES ASSUME NEW n \in Nat, Len(st) < n, n <= e
               PROVE  \E k \in 1..Len(v) : Block(v, k) /\ v[k].n = n
    BY DEF Complete
  <2>1. PICK k \in 1..Len(ws) : Block(ws, k) /\ ws[k].n = n
    BY DEF Order, Complete
  <2>2. k - 1 \in 1..Len(v) /\ v[k - 1] = ws[k]
    BY <2>1, <1>1 DEF Block
  <2> QED BY <2>1, <2>2 DEF Block
<1>6. Order(v, st, e)
  BY <1>2, <1>3, <1>4, <1>5 DEF Order
<1> QED BY <1>6 DEF v

\* The owner of the lock has written a header block: the one that is next.
LEMMA TakeBlock ==
    ASSUME NEW ws, NEW st, NEW e, Order(ws, st, e), ws /= <<>>, Head(ws).type = "Headers"
    PROVE  Order(Tail(ws), Append(st, Head(ws).n), e)
<1> DEFINE v == Tail(ws)
<1> DEFINE t == Append(st, Head(ws).n)
<1>0. Typed(ws, st, e) /\ Len(st) <= e
  BY DEF Order
<1>1. /\ v \in Seq(Writes) /\ Head(ws) = ws[1] /\ 1 \in 1..Len(ws)
      /\ \A k \in 1..Len(v) : k + 1 \in 1..Len(ws) /\ v[k] = ws[k + 1]
      /\ \A k \in 1..Len(ws) : k /= 1 => k - 1 \in 1..Len(v) /\ v[k - 1] = ws[k]
  BY <1>0, Shift DEF Typed
<1>2. Len(ws) \in Nat /\ Len(st) \in Nat /\ e \in Nat /\ \A k \in 1..Len(ws) : ws[k].n \in Nat
  BY <1>0, Sizes
<1>3. Block(ws, 1) /\ ws[1].n \in Nat /\ Len(st) < ws[1].n /\ ws[1].n <= e
  BY <1>1, <1>2 DEF Order, Between, Block
<1>4. ws[1].n = Len(st) + 1
  <2>1. Len(st) + 1 \in Nat /\ Len(st) < Len(st) + 1 /\ Len(st) + 1 <= e
    BY <1>2, <1>3
  <2>2. PICK k \in 1..Len(ws) : Block(ws, k) /\ ws[k].n = Len(st) + 1
    BY <2>1 DEF Order, Complete
  <2>3. k /= 1 => ws[1].n < ws[k].n
    BY <2>2, <1>1, <1>3 DEF Order, Rising
  <2> QED BY <2>2, <2>3, <1>2, <1>3
<1>5. /\ t \in Seq(Nat) /\ Len(t) = Len(st) + 1 /\ t[Len(st) + 1] = Len(st) + 1
      /\ \A j \in 1..Len(st) : t[j] = st[j]
  <2>1. st \in Seq(Nat) /\ Head(ws).n = Len(st) + 1 /\ Head(ws).n \in Nat
    BY <1>0, <1>1, <1>2, <1>4 DEF Typed
  <2> QED BY <2>1, AppendProperties
<1> HIDE DEF v, t
<1>6. Typed(v, t, e)
  BY <1>0, <1>1, <1>5 DEF Typed
<1>7. OnWire(t)
  <2>1. \A j \in 1..Len(st) : st[j] = j
    BY DEF Order, OnWire
  <2> QED BY <2>1, <1>2, <1>5 DEF OnWire
<1>8. \A k \in 1..Len(ws) : k /= 1 /\ Block(ws, k) => Len(t) < ws[k].n /\ ws[k].n <= e
  <2> SUFFICES ASSUME NEW k \in 1..Len(ws), k /= 1, Block(ws, k) PROVE Len(t) < ws[k].n /\ ws[k].n <= e
    OBVIOUS
  <2>1. ws[1].n < ws[k].n
    BY <1>1, <1>3 DEF Order, Rising
  <2>2. ws[k].n <= e
    BY DEF Order, Between
  <2> QED BY <2>1, <2>2, <1>2, <1>4, <1>5
<1>9. Between(v, Len(t), e)
  BY <1>1, <1>8 DEF Between, Block
<1>10. Rising(v)
  <2> SUFFICES ASSUME NEW k \in 1..Len(v), NEW l \in 1..Len(v), Block(v, k), Block(v, l), k < l
               PROVE  v[k].n < v[l].n
    BY DEF Rising
  <2>1. /\ k + 1 \in 1..Len(ws) /\ l + 1 \in 1..Len(ws) /\ k + 1 < l + 1
        /\ v[k] = ws[k + 1] /\ v[l] = ws[l + 1]
    BY <1>1
  <2> QED BY <2>1 DEF Order, Rising, Block
<1>11. Complete(v, Len(t), e)
  <2> SUFFICES ASSUME NEW n \in Nat, Len(t) < n, n <= e
               PROVE  \E k \in 1..Len(v) : Block(v, k) /\ v[k].n = n
    BY DEF Complete
  <2>0. Len(st) < n
    BY <1>2, <1>5
  <2>1. PICK k \in 1..Len(ws) : Block(ws, k) /\ ws[k].n = n
    BY <2>0 DEF Order, Complete
  <2>2. k /= 1
    BY <2>1, <1>2, <1>4, <1>5
  <2>3. k - 1 \in 1..Len(v) /\ v[k - 1] = ws[k]
    BY <2>2, <1>1
  <2> QED BY <2>1, <2>3 DEF Block
<1>12. Order(v, t, e)
  BY <1>2, <1>3, <1>4, <1>5, <1>6, <1>7, <1>9, <1>10, <1>11 DEF Order
<1> QED BY <1>12 DEF v, t
-----------------------------------------------------------------------------
\* The session

\* An odd id that was dispatched is not above lastStreamId_, so that HEADERS for it are
\* refused; the id whose block is still being collected was not dispatched yet.
Opened ==
    /\ session \in SessionStates /\ stream \in [H!Ids -> Streams]
    /\ \A i \in H!Sids : stream[i].starts <= 1 /\ (stream[i].starts = 1 => i <= session.last)
    /\ session.cont \in H!Sids => session.cont <= session.last /\ stream[session.cont].starts = 0

IInv == Order(writes, sent, session.encoded) /\ Opened

\* The steps that encode no block write nothing, or ask for the lock with another frame.
Quiet == UNCHANGED <<writes, sent>> /\ session'.encoded = session.encoded
Puts  == /\ sent' = sent /\ session'.encoded = session.encoded
         /\ \E w \in Writes : w.type /= "Headers" /\ writes' = Append(writes, w)

\* The session in the middle of a handler.
Fits(s) ==
    /\ s \in SessionStates /\ s.encoded = session.encoded /\ session.last <= s.last
    /\ s.cont \in H!Sids => s.cont <= s.last /\ stream[s.cont].starts = 0

\* Header blocks stay in order in a step that encodes none.
LEMMA OrderKept ==
    ASSUME Order(writes, sent, session.encoded), Quiet \/ Puts
    PROVE  Order(writes, sent, session.encoded)'
<1>1. CASE Quiet
  BY <1>1 DEF Quiet
<1>2. CASE Puts
  <2>1. PICK w \in Writes : w.type /= "Headers" /\ writes' = Append(writes, w)
    BY <1>2 DEF Puts
  <2>2. Order(Append(writes, w), sent, session.encoded)
    BY <2>1, PutOther
  <2> QED BY <2>1, <2>2, <1>2 DEF Puts
<1> QED BY <1>1, <1>2

\* run() asks for the write lock.
LEMMA RunWritesOther ==
    ASSUME MaxId \in Nat, NEW s, s \in SessionStates, s.encoded = session.encoded, NEW type \in Other,
           NEW sid \in H!Ids, H!RunWrites(s, type, sid), sent' = sent
    PROVE  /\ Puts /\ session' \in SessionStates
           /\ session'.last = s.last /\ session'.cont = s.cont
<1>1. [who |-> H!Run, type |-> type, n |-> 0] \in Writes
  BY DEF Writes, H!Run
<1>2. [who |-> H!Run, type |-> type, n |-> 0].type /= "Headers"
  BY DEF Other
<1>3. writes' = Append(writes, [who |-> H!Run, type |-> type, n |-> 0])
  BY DEF H!RunWrites, H!Enqueue
<1>4. /\ session' \in SessionStates /\ session'.encoded = session.encoded
      /\ session'.last = s.last /\ session'.cont = s.cont
  BY DEF H!RunWrites, SessionStates, YesNo
<1> QED BY <1>1, <1>2, <1>3, <1>4 DEF Puts

\* The four short ends of a handler.
LEMMA ShortEnds ==
    ASSUME MaxId \in Nat, Opened, NEW s, Fits(s), H!GoAway(s) \/ H!FrameError(s) \/ H!Reset(s) \/ H!Ignore(s)
    PROVE  Opened' /\ (Quiet \/ Puts)
<1>1. /\ session' \in SessionStates /\ session'.last = s.last /\ session'.cont = s.cont
      /\ stream' = stream /\ (Quiet \/ Puts)
  <2>0. s \in SessionStates /\ s.encoded = session.encoded /\ 0 \in H!Ids
    BY DEF Fits, H!Ids
  <2>1. CASE H!GoAway(s)
    <3>1. "GoAway" \in Other
      BY DEF Other
    <3> QED BY <2>0, <2>1, <3>1, RunWritesOther DEF H!GoAway
  <2>2. CASE H!FrameError(s)
    <3>1. "FrameError" \in Other
      BY DEF Other
    <3> QED BY <2>0, <2>2, <3>1, RunWritesOther DEF H!FrameError
  <2>3. CASE H!Reset(s)
    <3>1. "RstStream" \in Other
      BY DEF Other
    <3> QED BY <2>0, <2>3, <3>1, RunWritesOther DEF H!Reset
  <2>4. CASE H!Ignore(s)
    BY <2>0, <2>4 DEF H!Ignore, Quiet
  <2> QED BY <2>1, <2>2, <2>3, <2>4
<1>2. session.last \in Nat /\ s.last \in Nat /\ session.last <= s.last /\ H!Sids \subseteq Nat
  BY DEF Opened, Fits, SessionStates, H!Sids
<1>3. \A i \in H!Sids : stream'[i].starts <= 1 /\ (stream'[i].starts = 1 => i <= session'.last)
  BY <1>1, <1>2 DEF Opened
<1>4. session'.cont \in H!Sids => session'.cont <= session'.last /\ stream'[session'.cont].starts = 0
  BY <1>1 DEF Fits
<1>5. session' \in SessionStates /\ stream' \in [H!Ids -> Streams]
  BY <1>1 DEF Opened
<1> QED BY <1>1, <1>3, <1>4, <1>5 DEF Opened

\* finaliseHeaders(): the stream it opens was never dispatched.
LEMMA FinaliseOpens ==
    ASSUME MaxId \in Nat, Opened, NEW s, Fits(s), NEW only \in YesNo, H!FinaliseHeaders(s, only)
    PROVE  Opened' /\ (Quiet \/ Puts)
<1> DEFINE z == [s EXCEPT !.cont = 0]
<1>0. /\ z \in SessionStates /\ z.cont = 0 /\ z.last = s.last /\ z.encoded = s.encoded
      /\ 0 \notin H!Sids /\ s \in SessionStates /\ s.cont \in H!Ids
  BY DEF Fits, SessionStates, H!Ids, H!Sids
<1>1. Fits(z)
  BY <1>0 DEF Fits
<1> HIDE DEF z
<1>2. CASE H!GoAway(z) \/ H!Reset(z)
  BY <1>1, <1>2, ShortEnds
<1>3. CASE /\ stream' = [stream EXCEPT ![s.cont] =
                 [mapped |-> "yes", sender |-> IF only = "yes" THEN "closed" ELSE "open",
                  data |-> 0, pc |-> "spawned", starts |-> @.starts + 1, ended |-> only]]
           /\ session' = z /\ UNCHANGED <<writes, sent>>
  <2>1. stream \in [H!Ids -> Streams] /\ \A i \in H!Ids : stream[i].starts \in Nat
    BY DEF Opened, Streams
  <2>2. /\ stream' \in [H!Ids -> Streams] /\ stream'[s.cont].starts = stream[s.cont].starts + 1
        /\ \A i \in H!Ids : i /= s.cont => stream'[i] = stream[i]
    <3>1. [mapped |-> "yes", sender |-> IF only = "yes" THEN "closed" ELSE "open", data |-> 0,
           pc |-> "spawned", starts |-> stream[s.cont].starts + 1, ended |-> only] \in Streams
      BY <1>0, <2>1 DEF Streams, YesNo
    <3> QED BY <3>1, <1>0, <1>3, <2>1
  <2>3. session.last \in Nat /\ s.last \in Nat /\ session.last <= s.last /\ H!Sids \subseteq Nat /\ H!Sids \subseteq H!Ids
    BY DEF Opened, Fits, SessionStates, H!Sids, H!Ids
  <2>4. \A i \in H!Sids : stream'[i].starts <= 1 /\ (stream'[i].starts = 1 => i <= session'.last)
    <3> SUFFICES ASSUME NEW i \in H!Sids
                 PROVE  stream'[i].starts <= 1 /\ (stream'[i].starts = 1 => i <= session'.last)
      OBVIOUS
    <3>1. CASE i = s.cont
      BY <3>1, <1>0, <1>3, <2>2 DEF Fits
    <3>2. CASE i /= s.cont
      BY <3>2, <1>0, <1>3, <2>2, <2>3 DEF Opened
    <3> QED BY <3>1, <3>2
  <2>5. Opened'
    BY <1>0, <1>3, <2>2, <2>4 DEF Opened
  <2>6. Quiet
    BY <1>0, <1>3 DEF Quiet, Fits
  <2> QED BY <2>5, <2>6
<1> QED BY <1>2, <1>3 DEF H!FinaliseHeaders, z
\* A change of a stream that is no dispatch, with the session's ids as they are.
LEMMA StreamChanges ==
    ASSUME Opened, stream' \in [H!Ids -> Streams], \A i \in H!Ids : stream'[i].starts = stream[i].starts,
           session' \in SessionStates, session'.last = session.last, session'.cont = session.cont
    PROVE  Opened'
<1>1. H!Sids \subseteq H!Ids
  BY DEF H!Ids
<1> QED BY <1>1 DEF Opened

\* HEADERS: the id is new, or the frame is refused.
LEMMA HeadersKeep ==
    ASSUME MaxId \in Nat, Opened, NEW f \in H!Frames, H!HandleHeaders(f), session.cont = 0
    PROVE  Opened' /\ (Quiet \/ Puts)
<1>0. session \in SessionStates /\ 0 \notin H!Sids /\ f.sid \in 0..MaxId /\ f.endStream \in YesNo
  BY DEF Opened, H!Sids, H!Frames, YesNo
<1>1. Fits(session)
  BY <1>0 DEF Opened, Fits, SessionStates
<1>2. CASE H!GoAway(session) \/ H!Reset(session)
  BY <1>1, <1>2, ShortEnds
<1>3. CASE ~(H!GoAway(session) \/ H!Reset(session))
  <2> DEFINE seen == [session EXCEPT !.last = H!Seen(f.sid)]
  <2> DEFINE s == [seen EXCEPT !.cont = f.sid, !.only = f.endStream]
  <2>1. /\ f.sid % 2 /= 0 /\ stream[f.sid].mapped /= "yes" /\ ~(stream[f.sid].mapped = "no" /\ f.sid <= session.last)
        /\ \/ H!GoAway(seen) \/ H!Reset(seen) \/ H!Ignore(s) \/ H!FinaliseHeaders(s, f.endStream)
    BY <1>3 DEF H!HandleHeaders
  <2>2. f.sid \in H!Sids /\ f.sid \in H!Ids
    BY <1>0, <2>1 DEF H!Sids, H!Ids
  <2>3. stream[f.sid] \in Streams
    BY <2>2 DEF Opened
  <2>4. stream[f.sid].mapped = "no" /\ stream[f.sid].starts \in Nat
    BY <2>1, <2>3 DEF Streams, YesNo
  <2>5. session.last \in Nat /\ f.sid \in Nat /\ f.sid > session.last
    BY <1>0, <2>1, <2>4 DEF SessionStates
  <2>6. stream[f.sid].starts = 0
    BY <2>2, <2>4, <2>5 DEF Opened
  <2>7. H!Seen(f.sid) = f.sid
    BY <2>5 DEF H!Seen
  <2>8. seen \in SessionStates /\ seen.last = f.sid /\ seen.cont = 0 /\ seen.encoded = session.encoded
    BY <1>0, <2>5, <2>7 DEF SessionStates
  <2>9. Fits(seen)
    BY <1>0, <2>5, <2>8 DEF Fits
  <2>10. s \in SessionStates /\ s.last = f.sid /\ s.cont = f.sid /\ s.encoded = session.encoded
    BY <1>0, <2>2, <2>8 DEF SessionStates
  <2>11. Fits(s)
    BY <2>5, <2>6, <2>10 DEF Fits
  <2> HIDE DEF s, seen
  <2> QED BY <1>0, <2>1, <2>9, <2>11, ShortEnds, FinaliseOpens
<1> QED BY <1>2, <1>3

\* CONTINUATION: it ends the block of the id that is being collected.
LEMMA ContinuationKeeps ==
    ASSUME MaxId \in Nat, Opened, NEW f \in H!Frames, H!HandleContinuation(f)
    PROVE  Opened' /\ (Quiet \/ Puts)
<1>1. Fits(session) /\ session.only \in YesNo
  BY DEF Opened, Fits, SessionStates
<1>2. H!GoAway(session) \/ H!FinaliseHeaders(session, session.only) \/ H!Ignore(session)
  BY DEF H!HandleContinuation
<1> QED BY <1>1, <1>2, ShortEnds, FinaliseOpens

\* DATA: it changes the pipe of a stream, never its dispatch.
LEMMA DataKeeps ==
    ASSUME MaxId \in Nat, Opened, NEW f \in H!Frames, H!HandleData(f)
    PROVE  Opened' /\ (Quiet \/ Puts)
<1>0. /\ Fits(session) /\ session \in SessionStates /\ stream \in [H!Ids -> Streams]
      /\ f.endStream \in YesNo /\ H!Sids \subseteq H!Ids /\ 0 \in H!Ids
  BY DEF Opened, Fits, SessionStates, H!Frames, YesNo, H!Ids
<1>1. CASE H!GoAway(session) \/ H!Reset(session)
  BY <1>0, <1>1, ShortEnds
<1>2. CASE /\ f.sid \in H!Sids
           /\ stream' = [stream EXCEPT ![f.sid].data = IF @ < 2 THEN @ + 1 ELSE @, ![f.sid].ended = f.endStream]
           /\ H!RunWrites(session, "WindowUpdate", IF f.endStream = "yes" THEN f.sid ELSE 0)
           /\ UNCHANGED sent
  <2>1. stream' \in [H!Ids -> Streams] /\ \A i \in H!Ids : stream'[i].starts = stream[i].starts
    BY <1>0, <1>2 DEF Streams, YesNo
  <2>2. "WindowUpdate" \in Other /\ (IF f.endStream = "yes" THEN f.sid ELSE 0) \in H!Ids
    BY <1>0, <1>2 DEF Other
  <2>3. /\ Puts /\ session' \in SessionStates
        /\ session'.last = session.last /\ session'.cont = session.cont
    BY <1>0, <1>2, <2>2, RunWritesOther
  <2> QED BY <2>1, <2>3, StreamChanges
<1>3. CASE /\ f.sid \in H!Sids
           /\ stream' = [stream EXCEPT ![f.sid].sender = IF f.endStream = "yes" THEN "closed" ELSE @,
                                       ![f.sid].ended = IF f.endStream = "yes" THEN "yes" ELSE @]
           /\ UNCHANGED <<session, writes, sent>>
  <2>1. stream' \in [H!Ids -> Streams] /\ \A i \in H!Ids : stream'[i].starts = stream[i].starts
    BY <1>0, <1>3 DEF Streams, YesNo
  <2> QED BY <1>0, <1>3, <2>1, StreamChanges DEF Quiet
<1> QED BY <1>1, <1>2, <1>3 DEF H!HandleData

\* The control frames: RST_STREAM forgets a stream, and the id stays behind lastStreamId_.
LEMMA ControlKeeps ==
    ASSUME MaxId \in Nat, Opened, NEW f \in H!Frames, H!HandleControl(f)
    PROVE  Opened' /\ (Quiet \/ Puts)
<1> DEFINE g == [session EXCEPT !.goaway = "yes", !.pc = "done"]
<1>0. /\ Fits(session) /\ session \in SessionStates /\ stream \in [H!Ids -> Streams] /\ H!Sids \subseteq H!Ids /\ 0 \in H!Ids
  BY DEF Opened, Fits, SessionStates, H!Ids
<1>1. Fits(g)
  <2>1. g \in SessionStates /\ g.last = session.last /\ g.cont = session.cont /\ g.encoded = session.encoded
    BY <1>0 DEF SessionStates, YesNo
  <2> HIDE DEF g
  <2> QED BY <1>0, <2>1 DEF Fits
<1>2. CASE H!GoAway(session) \/ H!FrameError(session) \/ H!Reset(session) \/ H!Ignore(session) \/ H!Ignore(g)
  <2> HIDE DEF g
  <2> QED BY <1>0, <1>1, <1>2, ShortEnds
<1>3. CASE f.type \in {"Settings", "Ping"} /\ H!RunWrites(session, f.type, 0) /\ UNCHANGED <<stream, sent>>
  <2>1. f.type \in Other
    BY <1>3 DEF Other
  <2>2. /\ Puts /\ session' \in SessionStates
        /\ session'.last = session.last /\ session'.cont = session.cont
    BY <1>0, <1>3, <2>1, RunWritesOther
  <2> QED BY <1>0, <1>3, <2>2, StreamChanges
<1>4. CASE /\ f.sid \in H!Sids /\ stream' = [stream EXCEPT ![f.sid].mapped = "no"]
           /\ UNCHANGED <<session, writes, sent>>
  <2>1. stream' \in [H!Ids -> Streams] /\ \A i \in H!Ids : stream'[i].starts = stream[i].starts
    BY <1>0, <1>4 DEF Streams, YesNo
  <2> QED BY <1>0, <1>4, <2>1, StreamChanges DEF Quiet
<1>5. \/ f.type \in {"Settings", "Ping"} \/ f.type = "WindowUpdate" \/ f.type = "RstStream"
      \/ f.type = "GoAway" \/ f.type = "Priority"
      \/ f.type \notin {"Settings", "Ping", "WindowUpdate", "RstStream", "GoAway", "Priority"}
  OBVIOUS
<1> QED BY <1>2, <1>3, <1>4, <1>5 DEF H!HandleControl

-----------------------------------------------------------------------------
\* Replacing the stream of one id, if it has one, by one that was dispatched as often.
LEMMA OneStream ==
    ASSUME stream \in [H!Ids -> Streams], NEW i, NEW r, i \in H!Ids => r \in Streams /\ r.starts = stream[i].starts,
           stream' = [stream EXCEPT ![i] = r]
    PROVE  stream' \in [H!Ids -> Streams] /\ \A j \in H!Ids : stream'[j].starts = stream[j].starts
<1>1. CASE i \in H!Ids
  BY <1>1
<1>2. CASE i \notin H!Ids
  BY <1>2
<1> QED BY <1>1, <1>2

\* The owner of the write lock has written: what is left is in order, whether it asks for the
\* lock again or not.
LEMMA WrittenKeeps ==
    ASSUME MaxId \in Nat, IInv, H!Written
    PROVE  IInv'
<1> DEFINE w == Head(writes)
<1> DEFINE st == IF w.type = "Headers" THEN Append(sent, w.n) ELSE sent
<1>0. writes /= <<>> /\ sent' = st
  BY DEF H!Written
<1>1. w \in Writes /\ writes \in Seq(Writes)
  <2>1. writes \in Seq(Writes)
    BY DEF IInv, Order, Typed
  <2> QED BY <1>0, <2>1, HeadTailProperties
<1>2. Order(Tail(writes), st, session.encoded)
  BY <1>0, TakeBlock, TakeOther DEF IInv
<1>3. \A v \in Writes : v.type /= "Headers" => Order(Append(Tail(writes), v), st, session.encoded)
  <2> HIDE DEF st
  <2> QED BY <1>2, PutOther
<1>4. /\ session \in SessionStates /\ stream \in [H!Ids -> Streams] /\ session.then \in H!Ids
  BY DEF IInv, Opened, SessionStates
<1>5. CASE /\ IF w.type = "FrameError"
              THEN writes' = Append(Tail(writes), [w EXCEPT !.type = "GoAway"]) /\ UNCHANGED session
              ELSE /\ writes' = Tail(writes)
                   /\ session' = [session EXCEPT !.pc = IF session.goaway = "yes" THEN "done" ELSE "read",
                         !.then = 0,
                         !.dangling = IF session.then /= 0 /\ stream[session.then].mapped = "no" THEN "yes" ELSE @]
           /\ stream' = IF session.then /= 0 /\ stream[session.then].mapped = "yes"
                        THEN H!EndStream(session.then) ELSE stream
  <2>1. stream' \in [H!Ids -> Streams] /\ \A i \in H!Ids : stream'[i].starts = stream[i].starts
    <3>1. CASE stream' = stream
      BY <1>4, <3>1
    <3>2. CASE stream' = H!EndStream(session.then)
      <4> DEFINE r == [stream[session.then] EXCEPT !.sender = "closed"]
      <4>1. r \in Streams /\ r.starts = stream[session.then].starts
        BY <1>4 DEF Streams
      <4>2. stream' = [stream EXCEPT ![session.then] = r]
        BY <3>2 DEF H!EndStream
      <4> HIDE DEF r
      <4> QED BY <1>4, <4>1, <4>2, OneStream
    <3> QED BY <1>5, <3>1, <3>2
  <2>2. /\ session' \in SessionStates /\ session'.last = session.last /\ session'.cont = session.cont
        /\ session'.encoded = session.encoded
    BY <1>4, <1>5 DEF SessionStates, YesNo, H!Ids
  <2>3. Opened'
    BY <2>1, <2>2, StreamChanges DEF IInv
  <2>4. Order(writes', st, session.encoded)
    <3>1. [w EXCEPT !.type = "GoAway"] \in Writes /\ [w EXCEPT !.type = "GoAway"].type /= "Headers"
      <4> HIDE DEF w
      <4> QED BY <1>1 DEF Writes, Other
    <3> HIDE DEF w, st
    <3> QED BY <1>2, <1>3, <1>5, <3>1
  <2> QED BY <1>0, <2>2, <2>3, <2>4 DEF IInv
<1>6. ASSUME NEW p \in {"data", "last"},
             writes' = Append(Tail(writes), [who |-> w.who, type |-> "Data", n |-> 0]),
             stream' = [stream EXCEPT ![w.who].pc = p], UNCHANGED session
      PROVE  IInv'
  <2>1. stream' \in [H!Ids -> Streams] /\ \A i \in H!Ids : stream'[i].starts = stream[i].starts
    <3> DEFINE r == [stream[w.who] EXCEPT !.pc = p]
    <3> HIDE DEF w
    <3>1. w.who \in H!Ids => r \in Streams /\ r.starts = stream[w.who].starts
      BY <1>4 DEF Streams
    <3>2. stream' = [stream EXCEPT ![w.who] = r]
      BY <1>6
    <3> HIDE DEF r
    <3> QED BY <1>4, <3>1, <3>2, OneStream
  <2>2. Opened'
    BY <1>4, <1>6, <2>1, StreamChanges DEF IInv
  <2>3. [who |-> w.who, type |-> "Data", n |-> 0] \in Writes
    <3> HIDE DEF w
    <3> QED BY <1>1 DEF Writes, Other
  <2>4. Order(writes', st, session.encoded)
    <3> HIDE DEF w, st
    <3> QED BY <1>3, <1>6, <2>3
  <2> QED BY <1>0, <1>6, <2>2, <2>4 DEF IInv
<1>7. CASE writes' = Tail(writes) /\ stream' = H!Erased(w.who) /\ UNCHANGED session
  <2>1. stream' \in [H!Ids -> Streams] /\ \A i \in H!Ids : stream'[i].starts = stream[i].starts
    <3> HIDE DEF w
    <3> DEFINE r == [stream[w.who] EXCEPT !.pc = "done", !.mapped = "no"]
    <3>1. w.who \in H!Ids => r \in Streams /\ r.starts = stream[w.who].starts
      <4>1. \A q \in Streams : /\ [q EXCEPT !.pc = "done", !.mapped = "no"] \in Streams
                               /\ [q EXCEPT !.pc = "done", !.mapped = "no"].starts = q.starts
        BY DEF Streams, YesNo
      <4>2. w.who \in H!Ids => stream[w.who] \in Streams
        BY <1>4
      <4> QED BY <4>1, <4>2
    <3>2. stream' = [stream EXCEPT ![w.who] = r]
      <4>1. CASE w.who \in H!Ids
        BY <1>4, <1>7, <4>1 DEF H!Erased
      <4>2. CASE w.who \notin H!Ids
        BY <1>4, <1>7, <4>2 DEF H!Erased
      <4> QED BY <4>1, <4>2
    <3> HIDE DEF r
    <3> QED BY <1>4, <3>1, <3>2, OneStream
  <2>2. Opened'
    BY <1>4, <1>7, <2>1, StreamChanges DEF IInv
  <2> QED BY <1>0, <1>2, <1>7, <2>2 DEF IInv
<1> QED BY <1>5, <1>6, <1>7 DEF H!Written

\* Http2ResponseSink encodes a block and asks for the lock before anyone else can.
LEMMA RespondKeeps ==
    ASSUME MaxId \in Nat, IInv, NEW i \in H!Ids, NEW e, H!Respond(i, e)
    PROVE  IInv'
<1> DEFINE w == [who |-> i, type |-> "Headers", n |-> session.encoded + 1]
<1>0. /\ session \in SessionStates /\ stream \in [H!Ids -> Streams] /\ session.encoded \in Nat /\ i \in Nat
  BY DEF IInv, Opened, SessionStates, H!Ids, H!Sids
<1>1. w \in Writes /\ w.type = "Headers" /\ w.n = session.encoded + 1
  BY <1>0 DEF Writes
<1>2. /\ session' = [session EXCEPT !.encoded = @ + 1] /\ writes' = Append(writes, w)
      /\ stream' = [stream EXCEPT ![i].pc = "headers"] /\ sent' = sent
  BY DEF H!Respond, H!Enqueue
<1> HIDE DEF w
<1>3. /\ session' \in SessionStates /\ session'.last = session.last /\ session'.cont = session.cont
      /\ session'.encoded = session.encoded + 1
  <2>1. session.encoded + 1 \in Nat /\ session' = [session EXCEPT !.encoded = session.encoded + 1]
    BY <1>0, <1>2
  <2> QED BY <1>0, <2>1 DEF SessionStates
<1>4. stream' \in [H!Ids -> Streams] /\ \A j \in H!Ids : stream'[j].starts = stream[j].starts
  BY <1>0, <1>2 DEF Streams
<1>5. Opened'
  BY <1>3, <1>4, StreamChanges DEF IInv
<1>6. Order(Append(writes, w), sent, session.encoded + 1)
  BY <1>1, PutBlock DEF IInv
<1> QED BY <1>2, <1>3, <1>5, <1>6 DEF IInv

\* A new session has encoded nothing and dispatched nothing.
LEMMA InitIInv ==
    ASSUME MaxId \in Nat, H!Init PROVE IInv
<1>1. Len(<<>>) = 0 /\ <<>> \in Seq(Writes) /\ <<>> \in Seq(Nat)
  BY EmptySeq
<1>2. Order(<<>>, <<>>, 0)
  BY <1>1 DEF Order, Typed, OnWire, Between, Rising, Complete
<1>3. Order(writes, sent, session.encoded)
  BY <1>2 DEF H!Init
<1>4. session \in SessionStates /\ session.cont = 0 /\ 0 \notin H!Sids /\ H!Sids \subseteq H!Ids
  BY DEF H!Init, SessionStates, YesNo, H!Ids, H!Sids
<1>5. H!NoStream \in Streams /\ H!NoStream.starts = 0 /\ stream = [i \in H!Ids |-> H!NoStream]
  BY DEF H!Init, H!NoStream, Streams, YesNo
<1>6. Opened
  BY <1>4, <1>5 DEF Opened
<1> QED BY <1>3, <1>6 DEF IInv

\* Every step of run(), of a dispatch coroutine and of the write lock keeps the invariant.
LEMMA NextIInv ==
    ASSUME MaxId \in Nat, IInv, [H!Next]_(H!vars) PROVE IInv'
<1>0. /\ Opened /\ session \in SessionStates /\ stream \in [H!Ids -> Streams]
      /\ Order(writes, sent, session.encoded)
  BY DEF IInv, Opened
<1>a. Opened' /\ (Quiet \/ Puts) => IInv'
  BY <1>0, OrderKept DEF IInv
<1>1. ASSUME NEW f \in H!Frames, H!ReadFrame(f) PROVE IInv'
  <2>1. Fits(session)
    BY <1>0 DEF Opened, Fits, SessionStates
  <2>2. \/ H!GoAway(session)
        \/ H!HandleHeaders(f) /\ session.cont = 0
        \/ H!HandleContinuation(f) \/ H!HandleData(f) \/ H!HandleControl(f)
    BY <1>1 DEF H!ReadFrame
  <2> QED BY <1>0, <1>a, <2>1, <2>2, ShortEnds, HeadersKeep, ContinuationKeeps, DataKeeps, ControlKeeps
<1>2. ASSUME NEW g \in YesNo, H!Preface(g) PROVE IInv'
  <2>1. /\ session' \in SessionStates /\ session'.last = session.last /\ session'.cont = session.cont
        /\ session'.encoded = session.encoded
    BY <1>0, <1>2 DEF H!Preface, SessionStates
  <2> QED BY <1>0, <1>2, <1>a, <2>1, StreamChanges DEF H!Preface, Quiet
<1>3. CASE H!ClientCloses
  BY <1>0, <1>3, <1>a, StreamChanges DEF H!ClientCloses, Quiet
<1>4. CASE H!RunEnds
  <2>1. /\ session' \in SessionStates /\ session'.last = session.last /\ session'.cont = session.cont
        /\ session'.encoded = session.encoded
    BY <1>0, <1>4 DEF H!RunEnds, SessionStates
  <2> QED BY <1>0, <1>4, <1>a, <2>1, StreamChanges DEF H!RunEnds, Quiet
<1>5. CASE H!Written
  BY <1>5, WrittenKeeps
<1>6. ASSUME NEW i \in H!Ids, H!Start(i) \/ H!ReadBody(i) PROVE IInv'
  <2>1. UNCHANGED <<session, writes, sent>>
    BY <1>6 DEF H!Start, H!ReadBody
  <2>2. CASE H!Start(i)
    <3>1. stream' \in [H!Ids -> Streams] /\ \A j \in H!Ids : stream'[j].starts = stream[j].starts
      BY <1>0, <2>2 DEF H!Start, Streams
    <3> QED BY <1>0, <1>a, <2>1, <3>1, StreamChanges DEF Quiet
  <2>3. CASE H!ReadBody(i)
    <3>1. stream' \in [H!Ids -> Streams] /\ \A j \in H!Ids : stream'[j].starts = stream[j].starts
      BY <1>0, <2>3 DEF H!ReadBody, Streams
    <3> QED BY <1>0, <1>a, <2>1, <3>1, StreamChanges DEF Quiet
  <2> QED BY <1>6, <2>2, <2>3
<1>7. ASSUME NEW i \in H!Ids, H!HandlerThrows(i) PROVE IInv'
  <2> DEFINE w == [who |-> i, type |-> "RstStream", n |-> 0]
  <2>1. w \in Writes /\ w.type /= "Headers"
    BY DEF Writes, Other, H!Ids, H!Sids
  <2>2. writes' = Append(writes, w) /\ session' = session /\ sent' = sent
    BY <1>7 DEF H!HandlerThrows, H!Enqueue
  <2>3. stream' \in [H!Ids -> Streams] /\ \A j \in H!Ids : stream'[j].starts = stream[j].starts
    BY <1>0, <1>7 DEF H!HandlerThrows, Streams
  <2> HIDE DEF w
  <2> QED BY <1>0, <1>a, <2>1, <2>2, <2>3, StreamChanges DEF Puts
<1>8. ASSUME NEW i \in H!Ids, NEW e \in YesNo, H!Respond(i, e) PROVE IInv'
  BY <1>8, RespondKeeps
<1>9. CASE UNCHANGED H!vars
  BY <1>0, <1>9, <1>a, StreamChanges DEF H!vars, Quiet
<1> QED BY <1>1, <1>2, <1>3, <1>4, <1>5, <1>6, <1>7, <1>8, <1>9 DEF H!Next, YesNo

\* For any number of streams and frames, header blocks reach the wire in the order in which
\* the encoder made them (Http2ResponseSink and Http2Session's write lock), and finaliseHeaders()
\* dispatches a stream id at most once, also when the stream was reset or has ended and its id
\* comes again.
THEOREM BlocksInOrderHolds ==
    ASSUME MaxId \in Nat PROVE H!Spec => []BlocksInOrder
<1>1. H!Init => IInv
  BY InitIInv
<1>2. IInv /\ [H!Next]_(H!vars) => IInv'
  BY NextIInv
<1>3. ASSUME IInv PROVE H!BlocksInOrder
  <2>1. sent \in Seq(Nat) /\ \A j \in 1..Len(sent) : sent[j] = j
    BY <1>3 DEF IInv, Order, Typed, OnWire
  <2>2. DOMAIN sent = 1..Len(sent)
    BY <2>1, LenProperties
  <2> QED BY <2>1, <2>2 DEF H!BlocksInOrder
<1>4. IInv => H!DispatchedOnce
  BY DEF IInv, Opened, H!DispatchedOnce
<1> QED BY <1>1, <1>2, <1>3, <1>4, PTL DEF H!Spec, BlocksInOrder

-----------------------------------------------------------------------------
\* Http2Client.  Ids below nextStreamId_ are taken, by one call each.

Joining == {"start", "connecting", "ready"}
Conns   == [pc : {"none", "preface", "read", "done", "crashed"}, ready : {"no", "yes", "failed"},
            next : Nat, cont : D!Sids \cup {0}, only : YesNo]
Calls   == [pc : Joining \cup {"http1", "sending", "waiting", "done", "error"},
            session : Sessions \cup {NoSession}, sid : Nat]

ClientInv ==
    /\ client \in [session : Sessions \cup {NoSession}, proto : {"unknown", "h1", "h2"}]
    /\ request \in [Requests -> Calls] /\ conn \in [Sessions -> Conns]
    /\ \A k \in Sessions : conn[k].next >= 1
    /\ \A c \in Requests : request[c].pc \in Joining => request[c].sid = 0
    /\ \A c \in Requests : request[c].pc = "ready" => request[c].session \in Sessions
    /\ \A c \in Requests : request[c].sid /= 0 =>
          request[c].session \in Sessions /\ request[c].sid < conn[request[c].session].next
    /\ OwnStream

\* Steps that give no call another session or stream, and count no id.
LEMMA NoNewStream ==
    ASSUME ClientInv, client' \in [session : Sessions \cup {NoSession}, proto : {"unknown", "h1", "h2"}],
           request' \in [Requests -> Calls], conn' \in [Sessions -> Conns],
           \A k \in Sessions : conn'[k].next = conn[k].next,
           \A c \in Requests :
              /\ request'[c].sid = request[c].sid
              /\ \/ request'[c].session = request[c].session
                 \/ request[c].sid = 0 /\ request'[c].session \in Sessions
              /\ request'[c].pc \in Joining => request[c].pc \in Joining
              /\ request'[c].pc = "ready" => request'[c].session \in Sessions
    PROVE  ClientInv'
<1>1. \A c \in Requests : request'[c].sid /= 0 =>
         request'[c].session = request[c].session /\ request[c].sid /= 0
  OBVIOUS
<1>2. OwnStream'
  <2> SUFFICES ASSUME NEW c \in Requests, NEW d \in Requests, c /= d, request'[c].sid /= 0,
                      request'[c].session = request'[d].session
               PROVE  request'[c].sid /= request'[d].sid
    BY DEF OwnStream, D!OwnStream
  <2>1. CASE request[d].sid = 0
    BY <2>1
  <2>2. CASE request[d].sid /= 0
    BY <1>1, <2>2 DEF ClientInv, OwnStream, D!OwnStream
  <2> QED BY <2>1, <2>2
<1>4. \A k \in Sessions : conn'[k].next >= 1
  BY DEF ClientInv
<1>5. \A c \in Requests : request'[c].pc \in Joining => request'[c].sid = 0
  BY DEF ClientInv
<1>6. \A c \in Requests : request'[c].sid /= 0 =>
         request'[c].session \in Sessions /\ request'[c].sid < conn'[request'[c].session].next
  BY <1>1 DEF ClientInv
<1> QED BY <1>2, <1>4, <1>5, <1>6 DEF ClientInv

\* Http2ClientSession::request() takes the next id of the session and counts it.
LEMMA RequestKeeps ==
    ASSUME ClientInv, NEW c \in Requests, D!Request(c) PROVE ClientInv'
<1> DEFINE k == request[c].session
<1> DEFINE n == conn[k].next
<1>1. request[c].pc = "ready" /\ k \in Sessions /\ request[c].sid = 0 /\ n \in Nat /\ n >= 1 /\ client' = client
  <2>1. request[c].pc = "ready" /\ k \in Sessions /\ request[c].sid = 0 /\ client' = client
    BY DEF D!Request, ClientInv, Joining
  <2>2. n \in Nat /\ n >= 1
    BY <2>1 DEF ClientInv, Conns
  <2> QED BY <2>1, <2>2
<1>2. request \in [Requests -> Calls] /\ conn \in [Sessions -> Conns]
  BY DEF ClientInv
<1>3. CASE \E pc \in {"http1", "error"} : request' = [request EXCEPT ![c].pc = pc] /\ conn' = conn
  <2>1. /\ request' \in [Requests -> Calls] /\ \A d \in Requests : d /= c => request'[d] = request[d]
        /\ request'[c].sid = request[c].sid /\ request'[c].session = request[c].session
        /\ request'[c].pc \in {"http1", "error"}
    BY <1>2, <1>3 DEF Calls
  <2>2. \A d \in Requests :
           /\ request'[d].sid = request[d].sid /\ request'[d].session = request[d].session
           /\ request'[d].pc \in Joining => request[d].pc \in Joining
           /\ request'[d].pc = "ready" => request'[d].session \in Sessions
    BY <2>1 DEF Joining, ClientInv
  <2> QED BY <1>1, <1>2, <1>3, <2>1, <2>2, NoNewStream DEF ClientInv
<1>4. CASE /\ conn' = [conn EXCEPT ![k].next = D!NextId(@)]
           /\ request' = [request EXCEPT ![c].pc = "sending", ![c].sid = n]
  <2>1. /\ conn' \in [Sessions -> Conns] /\ conn'[k].next = n + 2
        /\ \A j \in Sessions : j /= k => conn'[j] = conn[j]
    BY <1>1, <1>2, <1>4 DEF D!NextId, Conns
  <2>2. /\ request' \in [Requests -> Calls] /\ \A d \in Requests : d /= c => request'[d] = request[d]
        /\ request'[c].sid = n /\ request'[c].session = k /\ request'[c].pc = "sending"
    BY <1>1, <1>2, <1>4 DEF Calls
  <2> HIDE DEF k, n
  <2>3. \A j \in Sessions : conn'[j].next \in Nat /\ conn'[j].next >= conn[j].next /\ conn'[j].next >= 1
    <3>1. \A j \in Sessions : conn[j].next \in Nat /\ conn[j].next >= 1
      BY DEF ClientInv, Conns
    <3>2. conn[k].next = n
      BY DEF n
    <3> QED BY <1>1, <2>1, <3>1, <3>2
  <2>4. \A d \in Requests : d /= c /\ request[d].sid /= 0 =>
           request[d].session \in Sessions /\ request[d].sid < conn[request[d].session].next /\ request[d].sid \in Nat
    BY DEF ClientInv, Calls
  <2>5. \A d \in Requests : d /= c /\ request[d].session = k => request[d].sid < n
    <3>1. \A d \in Requests : d /= c /\ request[d].session = k /\ request[d].sid /= 0 => request[d].sid < n
      BY <2>4 DEF n
    <3> QED BY <1>1, <3>1
  <2>6. \A d \in Requests : request'[d].sid /= 0 =>
           request'[d].session \in Sessions /\ request'[d].sid < conn'[request'[d].session].next
    <3>1. \A j \in Sessions : conn[j].next \in Nat
      BY <1>2 DEF Conns
    <3>2. ASSUME NEW d \in Requests, d /= c, request[d].sid /= 0 PROVE request[d].sid < conn'[request[d].session].next
      <4>1. request[d].session \in Sessions /\ request[d].sid < conn[request[d].session].next /\ request[d].sid \in Nat
        BY <2>4, <3>2
      <4> QED BY <2>3, <3>1, <4>1
    <3>3. n < conn'[k].next
      BY <1>1, <2>1
    <3> QED BY <1>1, <2>2, <2>4, <3>2, <3>3
  <2>7. OwnStream'
    <3> SUFFICES ASSUME NEW d \in Requests, NEW e \in Requests, d /= e, request'[d].sid /= 0,
                        request'[d].session = request'[e].session
                 PROVE  request'[d].sid /= request'[e].sid
      BY DEF OwnStream, D!OwnStream
    <3>1. \A x \in Requests : x /= c => request[x].sid \in Nat
      BY <1>2 DEF Calls
    <3>2. CASE d = c
      BY <1>1, <2>2, <2>5, <3>1, <3>2
    <3>3. CASE e = c
      BY <1>1, <2>2, <2>5, <3>1, <3>3
    <3>4. CASE d /= c /\ e /= c
      BY <2>2, <3>4 DEF ClientInv, OwnStream, D!OwnStream
    <3> QED BY <3>2, <3>3, <3>4
  <2>8. \A d \in Requests : /\ request'[d].pc \in Joining => request'[d].sid = 0
                            /\ request'[d].pc = "ready" => request'[d].session \in Sessions
    BY <1>1, <2>2 DEF ClientInv, Joining
  <2> QED BY <1>1, <2>1, <2>2, <2>3, <2>6, <2>7, <2>8 DEF ClientInv
<1> QED BY <1>3, <1>4 DEF D!Request

\* getSession(), connect() and the ends of a call.
LEMMA CallKeeps ==
    ASSUME ClientInv, NEW c \in Requests,
           D!GetSession(c) \/ D!Connected(c) \/ D!Http1Ends(c) \/ D!Sent(c) \/ D!Response(c)
    PROVE  ClientInv'
<1>1. request \in [Requests -> Calls] /\ conn \in [Sessions -> Conns] 
      /\ client \in [session : Sessions \cup {NoSession}, proto : {"unknown", "h1", "h2"}]
  BY DEF ClientInv
<1>2. D!Fresh \subseteq Sessions
  BY DEF D!Fresh
<1>3. /\ client' \in [session : Sessions \cup {NoSession}, proto : {"unknown", "h1", "h2"}]
      /\ conn' \in [Sessions -> Conns] /\ \A k \in Sessions : conn'[k].next = conn[k].next
  <2>1. CASE D!Connected(c)
    <3>1. /\ conn' \in [Sessions -> Conns] /\ \A k \in Sessions : conn'[k].next = conn[k].next
      <4>1. ASSUME NEW k \in Sessions, conn' = [conn EXCEPT ![k].pc = "preface"]
            PROVE  conn' \in [Sessions -> Conns] /\ \A j \in Sessions : conn'[j].next = conn[j].next
        BY <1>1, <4>1 DEF Conns
      <4>2. conn' = conn \/ \E k \in Sessions : conn' = [conn EXCEPT ![k].pc = "preface"]
        BY <1>2, <2>1 DEF D!Connected
      <4> QED BY <1>1, <4>1, <4>2
    <3>2. \/ client' = client
          \/ client' = [client EXCEPT !.proto = "h1"]
          \/ \E k \in Sessions : client' = [session |-> k, proto |-> "h2"]
      BY <1>2, <2>1 DEF D!Connected
    <3>3. client' \in [session : Sessions \cup {NoSession}, proto : {"unknown", "h1", "h2"}]
      BY <1>1, <3>2
    <3> QED BY <3>1, <3>3
  <2>2. CASE D!GetSession(c) \/ D!Http1Ends(c) \/ D!Sent(c) \/ D!Response(c)
    BY <1>1, <2>2 DEF D!GetSession, D!Http1Ends, D!Sent, D!Response
  <2> QED BY <2>1, <2>2
<1>4. /\ request' \in [Requests -> Calls] /\ \A d \in Requests : d /= c => request'[d] = request[d]
      /\ request'[c].sid = request[c].sid
      /\ \/ request'[c].session = request[c].session /\ request'[c].pc /= "ready"
         \/ request[c].pc \in Joining /\ request'[c].session \in Sessions
      /\ request'[c].pc \in Joining => request[c].pc \in Joining
  <2>1. CASE D!GetSession(c)
    <3>1. request[c].pc = "start" /\ \/ \E pc \in {"http1", "connecting"} : request' = [request EXCEPT ![c].pc = pc]
                                     \/ /\ client.session \in Sessions
                                        /\ request' = [request EXCEPT ![c].pc = "ready", ![c].session = client.session]
      BY <1>1, <2>1 DEF D!GetSession
    <3> QED BY <1>1, <3>1 DEF Joining, Calls
  <2>2. CASE D!Connected(c)
    <3>1. request[c].pc = "connecting" /\ \/ \E pc \in {"error", "http1"} : request' = [request EXCEPT ![c].pc = pc]
                                          \/ \E k \in Sessions :
                                               request' = [request EXCEPT ![c].pc = "ready", ![c].session = k]
      BY <1>2, <2>2 DEF D!Connected
    <3> QED BY <1>1, <3>1 DEF Joining, Calls
  <2>3. CASE D!Http1Ends(c) \/ D!Sent(c) \/ D!Response(c)
    <3>1. \E pc \in {"waiting", "done", "error"} : request' = [request EXCEPT ![c].pc = pc]
      BY <2>3 DEF D!Http1Ends, D!Sent, D!Response
    <3> QED BY <1>1, <3>1 DEF Joining, Calls
  <2> QED BY <2>1, <2>2, <2>3
<1>5. \A d \in Requests :
         /\ request'[d].sid = request[d].sid
         /\ \/ request'[d].session = request[d].session
            \/ request[d].sid = 0 /\ request'[d].session \in Sessions
         /\ request'[d].pc \in Joining => request[d].pc \in Joining
         /\ request'[d].pc = "ready" => request'[d].session \in Sessions
  BY <1>4 DEF ClientInv
<1> QED BY <1>3, <1>4, <1>5, NoNewStream

\* What run() does with the preface and the frames changes no call and no id.
LEMMA RunKeeps ==
    ASSUME ClientInv, UNCHANGED <<client, request>>, conn' \in [Sessions -> Conns],
           \A k \in Sessions : conn'[k].next = conn[k].next
    PROVE  ClientInv'
  BY NoNewStream DEF ClientInv

\* finaliseHeaders() and the frame handlers leave nextStreamId_ alone.
LEMMA FrameKeeps ==
    ASSUME ClientInv, NEW k \in Sessions, NEW f \in D!Frames, D!ReadFrame(k, f)
    PROVE  ClientInv'
<1> DEFINE Counts == conn' \in [Sessions -> Conns] /\ \A j \in Sessions : conn'[j].next = conn[j].next
<1>1. conn \in [Sessions -> Conns] /\ f.sid \in D!Sids /\ f.endStream \in YesNo
  BY DEF ClientInv, D!Frames, YesNo
<1>2. ASSUME NEW pc \in {"crashed", "done"},
             \/ conn' = [conn EXCEPT ![k].pc = pc] \/ conn' = [conn EXCEPT ![k].cont = 0]
             \/ conn' = [conn EXCEPT ![k].cont = 0, ![k].pc = pc]
             \/ conn' = [conn EXCEPT ![k].cont = f.sid, ![k].only = f.endStream]
      PROVE  Counts
  <2>1. PICK r \in Conns : r.next = conn[k].next /\ conn' = [conn EXCEPT ![k] = r]
    <3>1. conn[k] \in Conns
      BY <1>1
    <3>2. /\ [conn[k] EXCEPT !.pc = pc] \in Conns /\ [conn[k] EXCEPT !.cont = 0] \in Conns
          /\ [conn[k] EXCEPT !.cont = 0, !.pc = pc] \in Conns
          /\ [conn[k] EXCEPT !.cont = f.sid, !.only = f.endStream] \in Conns
      BY <1>1, <3>1 DEF Conns
    <3>3. /\ [conn[k] EXCEPT !.pc = pc].next = conn[k].next /\ [conn[k] EXCEPT !.cont = 0].next = conn[k].next
          /\ [conn[k] EXCEPT !.cont = 0, !.pc = pc].next = conn[k].next
          /\ [conn[k] EXCEPT !.cont = f.sid, !.only = f.endStream].next = conn[k].next
      BY <3>1 DEF Conns
    <3> QED BY <1>1, <1>2, <3>2, <3>3
  <2> QED BY <1>1, <2>1
<1>3. ASSUME NEW i, NEW only, NEW status, D!FinaliseHeaders(k, i, only, status) PROVE Counts
  <2>1. conn' = [conn EXCEPT ![k].cont = 0] \/ conn' = [conn EXCEPT ![k].cont = 0, ![k].pc = "done"]
    BY <1>3 DEF D!FinaliseHeaders
  <2> QED BY <1>2, <2>1
<1>4. ASSUME D!HandleFrame(k, f) PROVE Counts
  <2>1. \/ conn' = conn
        \/ \E i, only, status : D!FinaliseHeaders(k, i, only, status)
        \/ conn' = [conn EXCEPT ![k].cont = f.sid, ![k].only = f.endStream]
        \/ \E pc \in {"crashed", "done"} : conn' = [conn EXCEPT ![k].pc = pc]
    BY <1>4 DEF D!HandleFrame, D!Keep
  <2> QED BY <1>1, <1>2, <1>3, <2>1
<1>5. CASE conn' = [conn EXCEPT ![k].pc = "done"]
  BY <1>2, <1>5, RunKeeps DEF D!ReadFrame
<1>6. CASE D!HandleFrame(k, f)
  BY <1>4, <1>6, RunKeeps DEF D!ReadFrame
<1> QED BY <1>5, <1>6 DEF D!ReadFrame

\* For any number of calls and of sessions, two calls of Http2Client never have the same stream
\* of the same session, also when they waited together for the preface of a new one.
THEOREM OwnStreamHolds == D!Spec => []OwnStream
<1>1. D!Init => ClientInv
  BY DEF D!Init, ClientInv, OwnStream, D!OwnStream, Conns, Calls, Joining, YesNo
<1>2. ClientInv /\ [D!Next]_(D!vars) => ClientInv'
  <2> SUFFICES ASSUME ClientInv, [D!Next]_(D!vars) PROVE ClientInv'
    OBVIOUS
  <2>1. CASE UNCHANGED D!vars
    BY <2>1, RunKeeps DEF D!vars, ClientInv
  <2>2. ASSUME NEW c \in Requests, D!CallStep(c) PROVE ClientInv'
    BY <2>2, CallKeeps, RequestKeeps DEF D!CallStep
  <2>3. ASSUME NEW k \in Sessions, D!Preface(k) \/ D!RunEnds(k) PROVE ClientInv'
    <3>1. \/ conn' = [conn EXCEPT ![k].pc = "done"]
          \/ \E r \in {"yes", "failed"}, pc \in {"read", "done"} : conn' = [conn EXCEPT ![k].ready = r, ![k].pc = pc]
      BY <2>3 DEF D!Preface, D!RunEnds
    <3>2. conn' \in [Sessions -> Conns] /\ \A j \in Sessions : conn'[j].next = conn[j].next
      <4>1. conn \in [Sessions -> Conns]
        BY DEF ClientInv
      <4> QED BY <3>1, <4>1 DEF Conns
    <3> QED BY <2>3, <3>2, RunKeeps DEF D!Preface, D!RunEnds
  <2> QED BY <2>1, <2>2, <2>3, FrameKeeps DEF D!Next
<1>3. ClientInv => OwnStream
  BY DEF ClientInv
<1> QED BY <1>1, <1>2, <1>3, PTL DEF D!Spec
=============================================================================
