------------------------- MODULE BufferCancelProofs -------------------------
(***************************************************************************)
(* Proofs about StringBuffer, for writes of any length, and about CancelToken, *)
(* for any threads, callbacks and waiters.                                 *)
(***************************************************************************)
EXTENDS StringBuffer, CancelToken, Integers, TLAPS

-----------------------------------------------------------------------------
\* StringBuffer

\* A StringBuffer without bytes holds what was written and not consumed: nothing.
LEMMA InitHolds == Init => ViewIsContent
BY DEF Init, ViewIsContent, Offsets, Remaining, Junk

\* prepareWrite() keeps the unconsumed bytes, whether it has the room, compacts or grows.
LEMMA PrepareHolds ==
    ASSUME ViewIsContent, NEW n \in 0 .. MaxWrite, PrepareWrite(n)
    PROVE  ViewIsContent'
<1> USE SizesAssumption DEF Offsets, Remaining
<1>1. CASE size - writeOffset >= n /\ UNCHANGED <<buffer, size, readOffset, writeOffset>>
  BY <1>1 DEF ViewIsContent, PrepareWrite
<1>2. CASE /\ size - writeOffset < n /\ Compacts(n)
           /\ buffer' = MoveToFront /\ writeOffset' = Remaining /\ readOffset' = 0 /\ UNCHANGED size
  <2>1. \A i \in 0 .. size - 1 : buffer'[i] = IF i < writeOffset - readOffset THEN buffer[readOffset + i] ELSE buffer[i]
    BY <1>2 DEF MoveToFront, ViewIsContent
  <2>2. buffer' \in [0 .. size - 1 -> Nat]
    BY <1>2 DEF MoveToFront, ViewIsContent
  <2>3. Offsets'
    BY <1>2, <2>2 DEF ViewIsContent, PrepareWrite, Compacts
  <2>4. ASSUME NEW i \in 0 .. size - 1, i < writeOffset - readOffset
        PROVE  buffer'[i] = consumed + 1 + i
    BY <2>1, <2>4 DEF ViewIsContent
  <2> QED BY <1>2, <2>3, <2>4 DEF ViewIsContent, PrepareWrite
<1>3. CASE /\ size - writeOffset < n /\ ~Compacts(n)
           /\ buffer' = Resize(writeOffset + n) /\ size' = writeOffset + n /\ UNCHANGED <<readOffset, writeOffset>>
  <2>1. /\ buffer' \in [0 .. size' - 1 -> Nat]
        /\ \A i \in 0 .. size - 1 : buffer'[i] = buffer[i]
    BY <1>3 DEF Resize, Junk, ViewIsContent
  <2> QED BY <1>3, <2>1 DEF ViewIsContent, PrepareWrite
<1> QED BY <1>1, <1>2, <1>3 DEF PrepareWrite

\* commitWrite() of bytes that were prepared appends them.
LEMMA CommitHolds ==
    ASSUME ViewIsContent, NEW k \in 0 .. MaxWrite, CommitWrite(k)
    PROVE  ViewIsContent'
<1> USE SizesAssumption DEF Offsets, Remaining
<1>1. buffer' \in [0 .. size - 1 -> Nat]
  BY DEF ViewIsContent, CommitWrite
<1>2. \A i \in 0 .. size - 1 : buffer'[i] = IF i >= writeOffset /\ i < writeOffset + k THEN written + 1 + (i - writeOffset) ELSE buffer[i]
  BY DEF ViewIsContent, CommitWrite
<1>3. Offsets' /\ written' = consumed' + Remaining'
  BY <1>1 DEF ViewIsContent, CommitWrite
<1> QED BY <1>2, <1>3 DEF ViewIsContent, CommitWrite

\* Every step of a StringBuffer keeps ViewIsContent.
LEMMA StepHolds == ViewIsContent /\ [Next]_vars => ViewIsContent'
<1> SUFFICES ASSUME ViewIsContent, [Next]_vars PROVE ViewIsContent'
  OBVIOUS
<1>1. ASSUME NEW n \in 0 .. MaxBytes, Consume(n) PROVE ViewIsContent'
  BY <1>1, SizesAssumption DEF ViewIsContent, Offsets, Remaining, Consume
<1>2. CASE Reset
  BY <1>2 DEF ViewIsContent, Offsets, Remaining, Reset
<1>3. CASE Extract
  BY <1>3 DEF ViewIsContent, Offsets, Remaining, Extract, Junk
<1>4. CASE UNCHANGED vars
  BY <1>4 DEF ViewIsContent, Offsets, Remaining, vars
<1> QED BY <1>1, <1>2, <1>3, <1>4, PrepareHolds, CommitHolds DEF Next

\* For writes of any length, view() of a StringBuffer is what was written and not consumed,
\* and no write leaves buffer_.
THEOREM ViewIsContentHolds == Spec => []ViewIsContent
BY InitHolds, StepHolds, PTL DEF Spec

-----------------------------------------------------------------------------
\* CancelToken

Closures == [cb : Callbacks, checks : {"yes", "no"}]

\* c is in the sequence s; c is in callbacks_ or in the cbs of a cancel() under way.
In(s, c) == \E i \in 1..Len(s) : s[i] = c
Stored(c) == In(callbacks, c) \/ \E t \in Threads : In(cbs[t], c)

\* The ready queue q has a closure of c; one that checks no flag; at most one.
Has(q, c) == \E i \in 1..Len(q) : q[i].cb = c
Unchecked(q, c) == \E i \in 1..Len(q) : q[i].cb = c /\ q[i].checks = "no"
Solo(q, c) == \A i, j \in 1..Len(q) : q[i].cb = c /\ q[j].cb = c => i = j

\* What may still call c.  A callback that was called and whose flag is clear was called by the
\* only closure it ever had; every other way to call it tests the flag.
Fate(c) ==
    /\ fired[c] <= 1
    /\ reg[c] = "none" => fired[c] = 0 /\ ~Stored(c) /\ ~Has(ready[Home[c]], c)
    /\ fired[c] = 1 /\ active[c] = "clear" => ~Stored(c) /\ ~Has(ready[Home[c]], c)
    /\ reg[c] = "unregistered" => active[c] = "set"
    /\ Unchecked(ready[Home[c]], c) =>
          /\ fired[c] = 0 /\ ~Stored(c) /\ Solo(ready[Home[c]], c)
          /\ reg[c] \in {"empty", "dropped", "overwritten"}

\* A closure is in the queue of its callback's thread.
AtHome == \A t \in Threads : \A i \in 1..Len(ready[t]) : Home[ready[t][i].cb] = t

\* What thread t is calling: a callback of its own that is not unregistered, or one of a thread
\* without a scheduler.
Calling(t) == exec[t] /= NoCallback =>
    /\ Home[exec[t]] \in {t} \cup NoScheduler
    /\ Home[exec[t]] \notin NoScheduler => reg[exec[t]] /= "unregistered"

CancelInv ==
    /\ CancelTypeOK
    /\ \A c \in Callbacks : Fate(c)
    /\ AtHome
    /\ \A t \in Threads : Calling(t)

\* Callbacks have homes.
CancelConstant == Home \in [Callbacks -> Threads] /\ NoCallback \notin Callbacks

\* Nothing is in an empty queue.
LEMMA EmptyQueue ==
    ASSUME NEW c
    PROVE  ~In(<< >>, c) /\ ~Has(<< >>, c) /\ ~Unchecked(<< >>, c)
BY DEF In, Has, Unchecked

\* Append() adds its element to a sequence.
LEMMA InAppend ==
    ASSUME NEW S, NEW s \in Seq(S), NEW e \in S, NEW c
    PROVE  In(Append(s, e), c) <=> In(s, c) \/ e = c
  <1>1. /\ Append(s, e) \in Seq(S) /\ Len(Append(s, e)) = Len(s) + 1
        /\ \A i \in 1..Len(s) : Append(s, e)[i] = s[i]
        /\ Append(s, e)[Len(s) + 1] = e
    OBVIOUS
  <1> QED BY <1>1 DEF In

\* Tail() leaves what is in a sequence, and Head() is in it.
LEMMA InTail ==
    ASSUME NEW S, NEW s \in Seq(S), s /= << >>
    PROVE  /\ Tail(s) \in Seq(S) /\ Head(s) \in S
           /\ In(s, Head(s))
           /\ \A c : In(Tail(s), c) => In(s, c)
  <1>1. /\ Tail(s) \in Seq(S) /\ Len(Tail(s)) = Len(s) - 1 /\ Len(s) >= 1
        /\ \A i \in 1..Len(Tail(s)) : Tail(s)[i] = s[i + 1]
        /\ Head(s) = s[1] /\ Head(s) \in S
    OBVIOUS
  <1> QED BY <1>1 DEF In

\* A closure is appended to a ready queue.
LEMMA QueuePush ==
    ASSUME NEW q \in Seq(Closures), NEW e \in Closures, NEW c
    PROVE  /\ Has(Append(q, e), c) => Has(q, c) \/ e.cb = c
           /\ Unchecked(Append(q, e), c) => Unchecked(q, c) \/ (e.cb = c /\ e.checks = "no")
           /\ Solo(q, c) /\ (e.cb = c => ~Has(q, c)) => Solo(Append(q, e), c)
  <1>1. /\ Append(q, e) \in Seq(Closures) /\ Len(Append(q, e)) = Len(q) + 1
        /\ \A i \in 1..Len(q) : Append(q, e)[i] = q[i]
        /\ Append(q, e)[Len(q) + 1] = e
    OBVIOUS
  <1>2. \A i \in 1..Len(Append(q, e)) : i \in 1..Len(q) \/ (i = Len(q) + 1 /\ Append(q, e)[i] = e)
    BY <1>1
  <1>3. Has(Append(q, e), c) => Has(q, c) \/ e.cb = c
    BY <1>1, <1>2 DEF Has
  <1>4. Unchecked(Append(q, e), c) => Unchecked(q, c) \/ (e.cb = c /\ e.checks = "no")
    BY <1>1, <1>2 DEF Unchecked
  <1>5. Solo(q, c) /\ (e.cb = c => ~Has(q, c)) => Solo(Append(q, e), c)
    BY <1>1, <1>2 DEF Solo, Has
  <1> QED BY <1>3, <1>4, <1>5

\* A closure is taken from a ready queue.
LEMMA QueuePop ==
    ASSUME NEW q \in Seq(Closures), q /= << >>
    PROVE  /\ Tail(q) \in Seq(Closures) /\ Head(q) \in Closures
           /\ Has(q, Head(q).cb)
           /\ Head(q).checks = "no" => Unchecked(q, Head(q).cb)
           /\ Solo(q, Head(q).cb) => ~Has(Tail(q), Head(q).cb)
           /\ \A c : /\ Has(Tail(q), c) => Has(q, c)
                     /\ Unchecked(Tail(q), c) => Unchecked(q, c)
                     /\ Solo(q, c) => Solo(Tail(q), c)
  <1>1. /\ Tail(q) \in Seq(Closures) /\ Len(Tail(q)) = Len(q) - 1 /\ Len(q) \in Nat /\ Len(q) >= 1
        /\ \A i \in 1..Len(Tail(q)) : Tail(q)[i] = q[i + 1]
        /\ Head(q) = q[1] /\ Head(q) \in Closures
    OBVIOUS
  <1>2. Has(q, Head(q).cb)
    BY <1>1 DEF Has
  <1>3. Head(q).checks = "no" => Unchecked(q, Head(q).cb)
    BY <1>1 DEF Unchecked
  <1>4. ASSUME Solo(q, Head(q).cb) PROVE ~Has(Tail(q), Head(q).cb)
    BY <1>1, <1>4 DEF Solo, Has
  <1>5. ASSUME NEW c
        PROVE /\ Has(Tail(q), c) => Has(q, c)
              /\ Unchecked(Tail(q), c) => Unchecked(q, c)
              /\ Solo(q, c) => Solo(Tail(q), c)
    <2>1. \A i \in 1..Len(Tail(q)) : i + 1 \in 1..Len(q) /\ Tail(q)[i] = q[i + 1]
      BY <1>1
    <2>2. Has(Tail(q), c) => Has(q, c)
      BY <2>1 DEF Has
    <2>3. Unchecked(Tail(q), c) => Unchecked(q, c)
      BY <2>1 DEF Unchecked
    <2>4. Solo(q, c) => Solo(Tail(q), c)
      BY <1>1, <2>1 DEF Solo
    <2> QED BY <2>2, <2>3, <2>4
  <1> QED BY <1>1, <1>2, <1>3, <1>4, <1>5

\* A callback whose flag, registration and calls stay, and which is in no new place, keeps its
\* fate.
LEMMA FateKeeps ==
    ASSUME NEW c \in Callbacks, Fate(c),
           reg'[c] = reg[c], fired'[c] = fired[c], active'[c] = active[c],
           Stored(c)' => Stored(c),
           Has(ready'[Home[c]], c) => Has(ready[Home[c]], c),
           Unchecked(ready'[Home[c]], c) => Unchecked(ready[Home[c]], c),
           Solo(ready[Home[c]], c) => Solo(ready'[Home[c]], c)
    PROVE  Fate(c)'
  BY DEF Fate

\* A call of fn keeps the types of what it changes.
LEMMA CallTypes ==
    ASSUME CancelTypeOK, NEW t \in Threads, NEW c \in Callbacks,
           \/ CallIfActive(t, c)
           \/ Call(t, c) /\ UNCHANGED active
           \/ UNCHANGED <<active, fired, exec>>
    PROVE  /\ active' \in [Callbacks -> {"clear", "set"}]
           /\ fired' \in [Callbacks -> Nat]
           /\ exec' \in [Threads -> Callbacks \cup {NoCallback}]
  <1>0. /\ active \in [Callbacks -> {"clear", "set"}]
        /\ fired \in [Callbacks -> Nat]
        /\ exec \in [Threads -> Callbacks \cup {NoCallback}]
    BY DEF CancelTypeOK
  <1>1. active' \in [Callbacks -> {"clear", "set"}]
    BY <1>0 DEF CallIfActive
  <1>2. fired' = fired \/ fired' = [fired EXCEPT ![c] = fired[c] + 1]
    BY DEF CallIfActive, Call
  <1>3. fired' \in [Callbacks -> Nat]
    BY <1>0, <1>2
  <1>4. exec' = exec \/ exec' = [exec EXCEPT ![t] = c]
    BY DEF CallIfActive, Call
  <1>5. exec' \in [Threads -> Callbacks \cup {NoCallback}]
    BY <1>0, <1>4
  <1> QED BY <1>1, <1>3, <1>5

\* Types are kept: steps of a thread.
LEMMA ThreadTypes ==
    ASSUME CancelConstant, CancelTypeOK, NEW t \in Threads,
           ThreadStep(t) \/ EnterRun(t) \/ CancelClose(t)
    PROVE  CancelTypeOK'
  <1> USE DEF CancelTypeOK, callVars
  <1>1. CASE CancelSwap(t)
    <2>1. callbacks' \in Seq(Callbacks) /\ cbs' \in [Threads -> Seq(Callbacks)]
      BY <1>1 DEF CancelSwap
    <2>2. place' \in [Threads -> {"idle", "swap", "fire"}]
      BY <1>1 DEF CancelSwap
    <2> QED BY <1>1, <2>1, <2>2, ZenonT(30) DEF CancelSwap
  <1>2. CASE CancelFire(t)
    <2>1. Head(cbs[t]) \in Callbacks /\ Tail(cbs[t]) \in Seq(Callbacks) /\ Home[Head(cbs[t])] \in Threads
      BY <1>2, InTail DEF CancelFire, CancelConstant
    <2> HIDE DEF CancelTypeOK
    <2>2. cbs' \in [Threads -> Seq(Callbacks)]
      BY <1>2, <2>1 DEF CancelFire, CancelTypeOK
    <2>3. ready' \in [Threads -> Seq(Closures)]
      <3>1. [cb |-> Head(cbs[t]), checks |-> "yes"] \in Closures
        BY <2>1 DEF Closures
      <3>2. ready \in [Threads -> Seq(Closures)]
        BY ZenonT(30) DEF CancelTypeOK, Closures
      <3>3. Append(ready[Home[Head(cbs[t])]], [cb |-> Head(cbs[t]), checks |-> "yes"]) \in Seq(Closures)
        BY <2>1, <3>1, <3>2
      <3> QED BY <1>2, <2>1, <3>2, <3>3, ZenonT(30) DEF CancelFire, Enqueue
    <2>4. /\ active' \in [Callbacks -> {"clear", "set"}]
          /\ fired' \in [Callbacks -> Nat]
          /\ exec' \in [Threads -> Callbacks \cup {NoCallback}]
      <3>1. \/ CallIfActive(t, Head(cbs[t]))
            \/ UNCHANGED <<active, fired, exec>>
        BY <1>2 DEF CancelFire
      <3> QED BY <2>1, <3>1, CallTypes
    <2> QED BY <1>2, <2>2, <2>3, <2>4, ZenonT(30) DEF CancelFire, CancelTypeOK, Closures
  <1>3. CASE CancelResume(t)
    <2>1. PICK w \in heads[t] : /\ heads' = [heads EXCEPT ![t] = heads[t] \ {w}]
                                /\ wpc' = [wpc EXCEPT ![w] = "scheduled"]
      BY <1>3, ZenonT(30) DEF CancelResume
    <2>2. heads' \in [Threads -> SUBSET Waiters]
      BY <2>1
    <2>3. wpc' \in [Waiters -> {"start", "suspended", "scheduled", "done"}]
      BY <2>1
    <2> QED BY <1>3, <2>2, <2>3, ZenonT(30) DEF CancelResume
  <1>4. CASE CancelEnd(t) BY <1>4, ZenonT(30) DEF CancelEnd
  <1>5. CASE FnEnd(t) BY <1>5, ZenonT(30) DEF FnEnd
  <1>6. CASE RunClosure(t)
    <2>0. ready[t] \in Seq(Closures) /\ ready[t] /= << >>
      BY <1>6, ZenonT(30) DEF RunClosure, Closures
    <2>1. Head(ready[t]) \in Closures /\ Tail(ready[t]) \in Seq(Closures)
      BY <2>0, QueuePop
    <2>5. Head(ready[t]).cb \in Callbacks
      BY <2>1 DEF Closures
    <2> HIDE DEF CancelTypeOK
    <2>3. ready' \in [Threads -> Seq(Closures)]
      BY <1>6, <2>1, ZenonT(30) DEF RunClosure, CancelTypeOK, Closures
    <2>4. /\ active' \in [Callbacks -> {"clear", "set"}]
          /\ fired' \in [Callbacks -> Nat]
          /\ exec' \in [Threads -> Callbacks \cup {NoCallback}]
      <3>1. \/ CallIfActive(t, Head(ready[t]).cb)
            \/ Call(t, Head(ready[t]).cb) /\ UNCHANGED active
        BY <1>6 DEF RunClosure
      <3> QED BY <2>5, <3>1, CallTypes
    <2> QED BY <1>6, <2>3, <2>4, ZenonT(30) DEF RunClosure, CancelTypeOK, Closures, callVars
  <1>7. CASE EnterRun(t) BY <1>7, ZenonT(30) DEF EnterRun
  <1>8. CASE CancelClose(t) BY <1>8, ZenonT(30) DEF CancelClose
  <1> QED BY <1>1, <1>2, <1>3, <1>4, <1>5, <1>6, <1>7, <1>8, ZenonT(30) DEF ThreadStep

\* Types are kept: registrations and waiters.
LEMMA CallbackTypes ==
    ASSUME CancelConstant, CancelTypeOK,
           \/ \E c \in Callbacks : AddCallback(c) \/ Unregister(c) \/ AssignOver(c)
           \/ \E w \in Waiters : Await(w) \/ AwaitResume(w)
    PROVE  CancelTypeOK'
  <1> USE DEF callVars
  <1>1. ASSUME NEW c \in Callbacks, AddCallback(c) PROVE CancelTypeOK'
    <2>1. Home[c] \in Threads
      BY DEF CancelConstant
    <2>2. /\ fired' \in [Callbacks -> Nat]
          /\ exec' \in [Threads -> Callbacks \cup {NoCallback}]
      <3>1. \/ Call(Home[c], c) /\ UNCHANGED active
            \/ UNCHANGED <<active, fired, exec>>
        BY <1>1 DEF AddCallback
      <3> QED BY <2>1, <3>1, CallTypes
    <2>3. ready' \in [Threads -> Seq(Closures)]
      <3>1. [cb |-> c, checks |-> "no"] \in Closures
        BY DEF Closures
      <3>2. ready \in [Threads -> Seq(Closures)]
        BY ZenonT(30) DEF CancelTypeOK, Closures
      <3>3. Append(ready[Home[c]], [cb |-> c, checks |-> "no"]) \in Seq(Closures)
        BY <2>1, <3>1, <3>2
      <3> QED BY <1>1, <2>1, <3>2, <3>3, ZenonT(30) DEF AddCallback, Enqueue
    <2>4. callbacks' \in Seq(Callbacks)
      <3>1. callbacks \in Seq(Callbacks)
        BY DEF CancelTypeOK
      <3>2. callbacks' = callbacks \/ callbacks' = Append(callbacks, c)
        BY <1>1 DEF AddCallback
      <3> QED BY <3>1, <3>2
    <2>5. reg' \in [Callbacks -> {"none", "held", "empty", "unregistered", "dropped", "overwritten"}]
      <3>1. reg \in [Callbacks -> {"none", "held", "empty", "unregistered", "dropped", "overwritten"}]
        BY DEF CancelTypeOK
      <3>2. reg' = [reg EXCEPT ![c] = "held"] \/ reg' = [reg EXCEPT ![c] = "empty"]
        BY <1>1 DEF AddCallback
      <3> QED BY <3>1, <3>2
    <2> QED BY <1>1, <2>2, <2>3, <2>4, <2>5, ZenonT(30) DEF AddCallback, CancelTypeOK, Closures
  <1>2. ASSUME NEW c \in Callbacks, Unregister(c) PROVE CancelTypeOK'
    BY <1>2 DEF Unregister, CancelTypeOK
  <1>3. ASSUME NEW c \in Callbacks, AssignOver(c) PROVE CancelTypeOK'
    BY <1>3 DEF AssignOver, CancelTypeOK
  <1>4. ASSUME NEW w \in Waiters, Await(w) PROVE CancelTypeOK'
    <2>1. waiters' \subseteq Waiters
      BY <1>4 DEF Await, CancelTypeOK
    <2>2. wpc' \in [Waiters -> {"start", "suspended", "scheduled", "done"}]
      BY <1>4, ZenonT(30) DEF Await, CancelTypeOK
    <2> QED BY <1>4, <2>1, <2>2, ZenonT(30) DEF Await, CancelTypeOK
  <1>5. ASSUME NEW w \in Waiters, AwaitResume(w) PROVE CancelTypeOK'
    BY <1>5, ZenonT(30) DEF AwaitResume, CancelTypeOK
  <1> QED BY <1>1, <1>2, <1>3, <1>4, <1>5

\* Steps that touch neither callbacks nor closures; a fn may end.
LEMMA QuietKeeps ==
    ASSUME CancelInv, CancelTypeOK', UNCHANGED <<callbacks, active, reg, fired, ready, cbs>>,
           \A t \in Threads : exec'[t] = exec[t] \/ exec'[t] = NoCallback
    PROVE  CancelInv'
  <1>1. ASSUME NEW c \in Callbacks PROVE Fate(c)'
    BY DEF CancelInv, Fate, Stored
  <1>2. AtHome'
    BY DEF CancelInv, AtHome
  <1>3. ASSUME NEW t \in Threads PROVE Calling(t)'
    BY DEF CancelInv, Calling
  <1> QED BY <1>1, <1>2, <1>3 DEF CancelInv

\* cancel() takes the callbacks.
LEMMA SwapKeeps ==
    ASSUME CancelInv, CancelTypeOK', NEW t \in Threads, CancelSwap(t)
    PROVE  CancelInv'
  <1>1. ASSUME NEW c \in Callbacks PROVE Fate(c)'
    <2>1. Fate(c) BY DEF CancelInv
    <2>2. UNCHANGED <<active, reg, fired, ready, exec>>
      BY DEF CancelSwap
    <2>3. ~In(<< >>, c)
      BY DEF In
    <2>4. \A u \in Threads : cbs'[u] = IF u = t THEN callbacks ELSE cbs[u]
      BY DEF CancelSwap, CancelInv, CancelTypeOK
    <2>5. Stored(c)' => Stored(c)
      BY <2>3, <2>4 DEF Stored, CancelSwap
    <2> QED BY <2>1, <2>2, <2>5, FateKeeps
  <1>2. AtHome'
    BY DEF CancelInv, AtHome, CancelSwap
  <1>3. ASSUME NEW u \in Threads PROVE Calling(u)'
    BY DEF CancelInv, Calling, CancelSwap
  <1> QED BY <1>1, <1>2, <1>3 DEF CancelInv

\* unregister() and the move assignment.
LEMMA RegistrationKeeps ==
    ASSUME CancelConstant, CancelInv, CancelTypeOK', NEW c \in Callbacks,
           Unregister(c) \/ AssignOver(c)
    PROVE  CancelInv'
  <1>0. /\ UNCHANGED <<callbacks, cbs, fired, ready, exec>>
        /\ reg[c] \in {"held", "empty"} /\ exec[Home[c]] = NoCallback
        /\ \A d \in Callbacks \ {c} : reg'[d] = reg[d] /\ active'[d] = active[d]
    BY DEF Unregister, AssignOver, CancelInv, CancelTypeOK, Idle, callVars
  <1>1. \/ reg[c] = "held" /\ reg'[c] = "unregistered" /\ active'[c] = "set"
        \/ reg[c] = "empty" /\ reg'[c] = "dropped" /\ active'[c] = active[c]
        \/ reg'[c] = "overwritten" /\ active'[c] = active[c]
    BY DEF Unregister, AssignOver, CancelInv, CancelTypeOK
  <1>2. Fate(c)'
    <2>1. Fate(c) BY DEF CancelInv
    <2>2. Stored(c)' <=> Stored(c)
      BY <1>0 DEF Stored
    <2> QED BY <1>0, <1>1, <2>1, <2>2 DEF Fate
  <1>3. ASSUME NEW d \in Callbacks, d /= c PROVE Fate(d)'
    <2>1. Fate(d) BY DEF CancelInv
    <2>2. Stored(d)' <=> Stored(d)
      BY <1>0 DEF Stored
    <2> QED BY <1>0, <1>3, <2>1, <2>2 DEF Fate
  <1>4. AtHome'
    BY <1>0 DEF CancelInv, AtHome
  <1>5. ASSUME NEW t \in Threads PROVE Calling(t)'
    <2>1. Calling(t) /\ (exec[t] \in Callbacks \cup {NoCallback})
      BY DEF CancelInv, CancelTypeOK
    <2>2. exec[t] = c => Home[c] \in NoScheduler
      BY <1>0, <2>1 DEF Calling, CancelConstant
    <2> QED BY <1>0, <2>1, <2>2 DEF Calling
  <1> QED BY <1>2, <1>3, <1>4, <1>5 DEF CancelInv

\* onCancel(): a callback that is nowhere is stored, called or put in a queue.
LEMMA AddKeeps ==
    ASSUME CancelConstant, CancelInv, CancelTypeOK', NEW c \in Callbacks, AddCallback(c)
    PROVE  CancelInv'
  <1> DEFINE e == [cb |-> c, checks |-> "no"]
             h == Home[c]
  <1>0. /\ CancelTypeOK /\ Fate(c) /\ reg[c] = "none" /\ h \in Threads /\ exec[h] = NoCallback
        /\ e \in Closures /\ e.cb = c /\ ready \in [Threads -> Seq(Closures)]
        /\ callbacks \in Seq(Callbacks)
    BY ZenonT(30) DEF CancelInv, AddCallback, Idle, CancelConstant, Closures, CancelTypeOK
  <1>1. fired[c] = 0 /\ ~Stored(c) /\ ~Has(ready[h], c) /\ ~Unchecked(ready[h], c)
    BY <1>0, ZenonT(30) DEF Fate, Has, Unchecked
  <1>2. /\ UNCHANGED <<active, cbs>>
        /\ reg'[c] \in {"held", "empty"} /\ \A d \in Callbacks \ {c} : reg'[d] = reg[d]
    BY <1>0 DEF AddCallback, CancelTypeOK, callVars
  <1>3. \/ /\ callbacks' = Append(callbacks, c) /\ reg'[c] = "held"
           /\ UNCHANGED <<fired, exec, ready>>
        \/ /\ fired' = [fired EXCEPT ![c] = fired[c] + 1] /\ exec' = [exec EXCEPT ![h] = c]
           /\ UNCHANGED <<ready, callbacks>> /\ reg'[c] = "empty"
        \/ /\ ready' = [ready EXCEPT ![h] = Append(ready[h], e)]
           /\ UNCHANGED <<fired, exec, callbacks>> /\ reg'[c] = "empty"
    BY <1>0 DEF AddCallback, CancelTypeOK, Call, Enqueue
  <1> HIDE DEF e, h
  <1>4. Fate(c)'
    <2>1. CASE callbacks' = Append(callbacks, c) /\ reg'[c] = "held" /\ UNCHANGED <<fired, exec, ready>>
      BY <1>1, <1>2, <2>1 DEF Fate, h
    <2>2. CASE /\ fired' = [fired EXCEPT ![c] = fired[c] + 1] /\ UNCHANGED <<ready, callbacks>>
               /\ reg'[c] = "empty"
      <3>1. fired'[c] = 1
        BY <1>0, <1>1, <2>2 DEF CancelTypeOK
      <3>2. ~Stored(c)'
        BY <1>1, <1>2, <2>2 DEF Stored
      <3> QED BY <1>1, <1>2, <2>2, <3>1, <3>2 DEF Fate, h
    <2>3. CASE /\ ready' = [ready EXCEPT ![h] = Append(ready[h], e)] /\ UNCHANGED <<fired, callbacks>>
               /\ reg'[c] = "empty"
      <3>1. ready'[h] = Append(ready[h], e)
        BY <1>0, <2>3
      <3>2. Solo(ready[h], c)
        BY <1>1 DEF Solo, Has
      <3>3. Solo(ready'[h], c)
        BY <1>0, <1>1, <3>1, <3>2, QueuePush
      <3>4. ~Stored(c)'
        BY <1>1, <1>2, <2>3 DEF Stored
      <3> QED BY <1>1, <1>2, <2>3, <3>3, <3>4 DEF Fate, h
    <2> QED BY <1>3, <2>1, <2>2, <2>3
  <1>5. ASSUME NEW d \in Callbacks, d /= c PROVE Fate(d)'
    <2>1. Fate(d) /\ Home[d] \in Threads
      BY DEF CancelInv, CancelConstant
    <2>2. reg'[d] = reg[d] /\ fired'[d] = fired[d] /\ active'[d] = active[d]
      BY <1>0, <1>2, <1>3, <1>5 DEF CancelTypeOK
    <2>3. Stored(d)' => Stored(d)
      <3>1. In(Append(callbacks, c), d) => In(callbacks, d)
        BY <1>0, <1>5, InAppend
      <3> QED BY <1>2, <1>3, <3>1, ZenonT(30) DEF Stored
    <2>4. ready'[Home[d]] = ready[Home[d]] \/ (Home[d] = h /\ ready'[Home[d]] = Append(ready[h], e))
      BY <1>0, <1>3, <2>1
    <2>5. /\ Has(ready'[Home[d]], d) => Has(ready[Home[d]], d)
          /\ Unchecked(ready'[Home[d]], d) => Unchecked(ready[Home[d]], d)
          /\ Solo(ready[Home[d]], d) => Solo(ready'[Home[d]], d)
      <3>1. ready[h] \in Seq(Closures)
        BY <1>0
      <3>2. /\ Has(Append(ready[h], e), d) => Has(ready[h], d)
            /\ Unchecked(Append(ready[h], e), d) => Unchecked(ready[h], d)
            /\ Solo(ready[h], d) => Solo(Append(ready[h], e), d)
        BY <1>0, <1>5, <3>1, QueuePush
      <3> QED BY <2>4, <3>2, ZenonT(30)
    <2> QED BY <2>1, <2>2, <2>3, <2>5, FateKeeps, ZenonT(30)
  <1>6. AtHome'
    <2> SUFFICES ASSUME NEW u \in Threads, NEW i \in 1..Len(ready'[u]) PROVE Home[ready'[u][i].cb] = u
      BY DEF AtHome
    <2>1. ready[u] \in Seq(Closures) /\ \A j \in 1..Len(ready[u]) : Home[ready[u][j].cb] = u
      BY <1>0 DEF CancelInv, AtHome
    <2>2. ready'[u] = ready[u] \/ (u = h /\ ready'[u] = Append(ready[u], e))
      BY <1>0, <1>3
    <2> QED BY <1>0, <2>1, <2>2 DEF h
  <1>7. ASSUME NEW u \in Threads PROVE Calling(u)'
    <2>1. Calling(u) /\ exec[u] \in Callbacks \cup {NoCallback}
      BY DEF CancelInv, CancelTypeOK
    <2>2. exec'[u] = exec[u] \/ (u = h /\ exec'[u] = c)
      BY <1>0, <1>3 DEF CancelTypeOK
    <2> QED BY <1>2, <2>1, <2>2 DEF Calling, h
  <1> QED BY <1>4, <1>5, <1>6, <1>7 DEF CancelInv

\* One round of cancel() over its callbacks.
LEMMA FireKeeps ==
    ASSUME CancelConstant, CancelInv, CancelTypeOK', NEW t \in Threads, CancelFire(t)
    PROVE  CancelInv'
  <1>c. PICK c : c = Head(cbs[t])
    OBVIOUS
  <1> DEFINE h == Home[c]
             e == [cb |-> c, checks |-> "yes"]
  <1>0. /\ CancelTypeOK /\ cbs[t] \in Seq(Callbacks) /\ cbs[t] /= << >>
        /\ ready \in [Threads -> Seq(Closures)]
    BY ZenonT(30) DEF CancelInv, CancelFire, CancelTypeOK, Closures
  <1>1. c \in Callbacks /\ In(cbs[t], c) /\ \A d : In(Tail(cbs[t]), d) => In(cbs[t], d)
    BY <1>0, <1>c, InTail
  <1>2. h \in Threads /\ e \in Closures /\ e.cb = c /\ e.checks = "yes" /\ ready[h] \in Seq(Closures)
    BY <1>0, <1>1, ZenonT(30) DEF CancelConstant, Closures
  <1>3. /\ UNCHANGED <<callbacks, reg>>
        /\ cbs' = [cbs EXCEPT ![t] = Tail(cbs[t])]
    BY DEF CancelFire
  <1>4. \/ /\ h \in {t} \cup NoScheduler /\ active[c] = "clear" /\ UNCHANGED ready
           /\ active' = [active EXCEPT ![c] = "set"]
           /\ fired' = [fired EXCEPT ![c] = fired[c] + 1] /\ exec' = [exec EXCEPT ![t] = c]
        \/ /\ active[c] = "set" /\ active' = [active EXCEPT ![c] = "set"]
           /\ UNCHANGED <<ready, fired, exec>>
        \/ /\ ready' = [ready EXCEPT ![h] = Append(ready[h], e)]
           /\ UNCHANGED <<active, fired, exec>>
    BY <1>c, ZenonT(30) DEF CancelFire, InPlace, CallIfActive, Call, Enqueue
  <1> HIDE DEF h, e
  <1>5. Fate(c) /\ Stored(c) /\ h = Home[c]
    BY <1>1 DEF CancelInv, Stored, h
  <1>6. reg[c] /= "none" /\ ~Unchecked(ready[h], c) /\ (active[c] = "clear" => fired[c] = 0)
    <2>1. fired[c] \in Nat
      BY <1>0, <1>1 DEF CancelTypeOK
    <2> QED BY <1>5, <2>1 DEF Fate
  <1>7. ASSUME NEW d \in Callbacks PROVE Stored(d)' => Stored(d)
    <2>1. \A u \in Threads : In(cbs'[u], d) => In(cbs[u], d)
      BY <1>0, <1>1, <1>3 DEF CancelTypeOK
    <2> QED BY <1>3, <2>1 DEF Stored
  <1>8. Fate(c)'
    <2>1. CASE /\ active[c] = "clear" /\ UNCHANGED ready
               /\ active' = [active EXCEPT ![c] = "set"]
               /\ fired' = [fired EXCEPT ![c] = fired[c] + 1]
      <3>1. active'[c] = "set" /\ fired'[c] = 1
        BY <1>0, <1>1, <1>6, <2>1 DEF CancelTypeOK
      <3> QED BY <1>3, <1>5, <1>6, <2>1, <3>1 DEF Fate
    <2>2. CASE /\ active[c] = "set" /\ active' = [active EXCEPT ![c] = "set"]
               /\ UNCHANGED <<ready, fired, exec>>
      <3>1. active'[c] = active[c]
        BY <1>0, <1>1, <2>2 DEF CancelTypeOK
      <3> QED BY <1>1, <1>3, <1>5, <1>7, <2>2, <3>1, FateKeeps, ZenonT(30)
    <2>3. CASE /\ ready' = [ready EXCEPT ![h] = Append(ready[h], e)]
               /\ UNCHANGED <<active, fired, exec>>
      <3>1. ready'[h] = Append(ready[h], e)
        BY <1>0, <1>2, <2>3
      <3>2. ~Unchecked(ready'[h], c)
        <4>1. "yes" /= "no" OBVIOUS
        <4> QED BY <1>2, <1>6, <3>1, <4>1, QueuePush
      <3> QED BY <1>3, <1>5, <1>6, <2>3, <3>2 DEF Fate
    <2> QED BY <1>4, <2>1, <2>2, <2>3
  <1>9. ASSUME NEW d \in Callbacks, d /= c PROVE Fate(d)'
    <2>1. Fate(d) /\ Home[d] \in Threads
      BY DEF CancelInv, CancelConstant
    <2>2. reg'[d] = reg[d] /\ fired'[d] = fired[d] /\ active'[d] = active[d]
      BY <1>0, <1>3, <1>4, <1>9 DEF CancelTypeOK
    <2>4. ready'[Home[d]] = ready[Home[d]] \/ (Home[d] = h /\ ready'[Home[d]] = Append(ready[h], e))
      BY <1>0, <1>2, <1>4, <2>1, ZenonT(30)
    <2>5. /\ Has(ready'[Home[d]], d) => Has(ready[Home[d]], d)
          /\ Unchecked(ready'[Home[d]], d) => Unchecked(ready[Home[d]], d)
          /\ Solo(ready[Home[d]], d) => Solo(ready'[Home[d]], d)
      <3>2. /\ Has(Append(ready[h], e), d) => Has(ready[h], d)
            /\ Unchecked(Append(ready[h], e), d) => Unchecked(ready[h], d)
            /\ Solo(ready[h], d) => Solo(Append(ready[h], e), d)
        BY <1>2, <1>9, QueuePush
      <3> QED BY <2>4, <3>2, ZenonT(30)
    <2> QED BY <1>7, <2>1, <2>2, <2>5, FateKeeps
  <1>10. AtHome'
    <2> SUFFICES ASSUME NEW u \in Threads, NEW i \in 1..Len(ready'[u]) PROVE Home[ready'[u][i].cb] = u
      BY DEF AtHome
    <2>1. ready[u] \in Seq(Closures) /\ \A j \in 1..Len(ready[u]) : Home[ready[u][j].cb] = u
      BY <1>0 DEF CancelInv, AtHome
    <2>2. ready'[u] = ready[u] \/ (u = h /\ ready'[u] = Append(ready[u], e))
      BY <1>0, <1>2, <1>4
    <2> QED BY <1>2, <1>5, <2>1, <2>2
  <1>11. ASSUME NEW u \in Threads PROVE Calling(u)'
    <2>1. Calling(u)
      BY DEF CancelInv
    <2>2. \/ exec'[u] = exec[u]
          \/ u = t /\ exec'[u] = c /\ active[c] = "clear" /\ h \in {t} \cup NoScheduler
      BY <1>0, <1>4 DEF CancelTypeOK
    <2>3. active[c] = "clear" => reg[c] /= "unregistered"
      BY <1>5, ZenonT(30) DEF Fate
    <2> QED BY <1>3, <1>5, <2>1, <2>2, <2>3 DEF Calling
  <1> QED BY <1>8, <1>9, <1>10, <1>11 DEF CancelInv

\* A scheduler's thread takes a closure.
LEMMA ClosureKeeps ==
    ASSUME CancelConstant, CancelInv, CancelTypeOK', NEW t \in Threads, RunClosure(t)
    PROVE  CancelInv'
  <1>c. PICK c : c = Head(ready[t]).cb
    OBVIOUS
  <1> DEFINE q == ready[t]
  <1>0. CancelTypeOK /\ ready \in [Threads -> Seq(Closures)] /\ q \in Seq(Closures) /\ q /= << >>
    BY ZenonT(30) DEF CancelInv, RunClosure, CancelTypeOK, Closures
  <1>1. /\ Head(q) \in Closures /\ Tail(q) \in Seq(Closures)
        /\ Has(q, c) /\ (Head(q).checks = "no" => Unchecked(q, c))
        /\ Solo(q, c) => ~Has(Tail(q), c)
        /\ \A d : /\ Has(Tail(q), d) => Has(q, d)
                  /\ Unchecked(Tail(q), d) => Unchecked(q, d)
                  /\ Solo(q, d) => Solo(Tail(q), d)
    BY <1>0, <1>c, QueuePop, ZenonT(30)
  <1>2. c \in Callbacks /\ Home[c] = t
    <2>1. Head(q).cb \in Callbacks
      BY <1>1 DEF Closures
    <2>2. 1 \in 1..Len(q) /\ Head(q) = q[1]
      BY <1>0
    <2>3. \A i \in 1..Len(ready[t]) : Home[ready[t][i].cb] = t
      BY DEF CancelInv, AtHome
    <2> QED BY <1>c, <2>1, <2>2, <2>3
  <1>3. /\ UNCHANGED <<callbacks, reg, cbs>>
        /\ \A u \in Threads : ready'[u] = IF u = t THEN Tail(q) ELSE ready[u]
    BY <1>0 DEF RunClosure, callVars
  <1>4. \/ /\ active[c] = "clear" /\ active' = [active EXCEPT ![c] = "set"]
           /\ fired' = [fired EXCEPT ![c] = fired[c] + 1] /\ exec' = [exec EXCEPT ![t] = c]
        \/ active[c] = "set" /\ active' = [active EXCEPT ![c] = "set"] /\ UNCHANGED <<fired, exec>>
        \/ /\ Head(q).checks = "no" /\ UNCHANGED active
           /\ fired' = [fired EXCEPT ![c] = fired[c] + 1] /\ exec' = [exec EXCEPT ![t] = c]
    BY <1>c, ZenonT(30) DEF RunClosure, CallIfActive, Call
  <1>5. Fate(c) /\ ready[Home[c]] = q /\ ready'[Home[c]] = Tail(q)
    BY <1>2, <1>3, ZenonT(30) DEF CancelInv
  <1> HIDE DEF q
  <1>6. ASSUME NEW d \in Callbacks PROVE Stored(d)' => Stored(d)
    BY <1>3 DEF Stored
  <1>7. ~Unchecked(Tail(q), c)
    <2>1. Unchecked(Tail(q), c) => Has(Tail(q), c)
      BY DEF Unchecked, Has
    <2> QED BY <1>1, <1>5, <2>1 DEF Fate
  <1>8. Fate(c)'
    <2>1. CASE /\ active[c] = "clear" /\ active' = [active EXCEPT ![c] = "set"]
               /\ fired' = [fired EXCEPT ![c] = fired[c] + 1]
      <3>1. fired[c] = 0 /\ reg[c] /= "none"
        BY <1>0, <1>1, <1>2, <1>5, <2>1 DEF Fate, CancelTypeOK
      <3>2. active'[c] = "set" /\ fired'[c] = 1
        BY <1>0, <1>2, <2>1, <3>1 DEF CancelTypeOK
      <3> QED BY <1>3, <1>5, <1>7, <3>1, <3>2 DEF Fate
    <2>2. CASE active[c] = "set" /\ active' = [active EXCEPT ![c] = "set"] /\ UNCHANGED <<fired, exec>>
      <3>1. active'[c] = active[c]
        BY <1>0, <1>2, <2>2 DEF CancelTypeOK
      <3> QED BY <1>1, <1>2, <1>3, <1>5, <1>6, <2>2, <3>1, FateKeeps, ZenonT(30)
    <2>3. CASE /\ Head(q).checks = "no" /\ UNCHANGED active
               /\ fired' = [fired EXCEPT ![c] = fired[c] + 1]
      <3>1. /\ fired[c] = 0 /\ ~Stored(c) /\ ~Has(Tail(q), c)
            /\ reg[c] \in {"empty", "dropped", "overwritten"}
        BY <1>1, <1>5, <2>3, ZenonT(30) DEF Fate
      <3>2. fired'[c] = 1
        BY <1>0, <1>2, <2>3, <3>1 DEF CancelTypeOK
      <3>3. ~Stored(c)'
        BY <1>2, <1>6, <3>1
      <3> QED BY <1>3, <1>5, <1>7, <2>3, <3>1, <3>2, <3>3 DEF Fate
    <2> QED BY <1>4, <2>1, <2>2, <2>3
  <1>9. ASSUME NEW d \in Callbacks, d /= c PROVE Fate(d)'
    <2>1. Fate(d) /\ Home[d] \in Threads
      BY DEF CancelInv, CancelConstant
    <2>2. reg'[d] = reg[d] /\ fired'[d] = fired[d] /\ active'[d] = active[d]
      BY <1>0, <1>3, <1>4, <1>9 DEF CancelTypeOK
    <2>3. \/ ready'[Home[d]] = ready[Home[d]]
          \/ ready[Home[d]] = q /\ ready'[Home[d]] = Tail(q)
      BY <1>2, <1>3, <1>5, <2>1
    <2>4. /\ Has(ready'[Home[d]], d) => Has(ready[Home[d]], d)
          /\ Unchecked(ready'[Home[d]], d) => Unchecked(ready[Home[d]], d)
          /\ Solo(ready[Home[d]], d) => Solo(ready'[Home[d]], d)
      BY <1>1, <2>3, ZenonT(30)
    <2> QED BY <1>6, <2>1, <2>2, <2>4, FateKeeps
  <1>10. AtHome'
    <2> SUFFICES ASSUME NEW u \in Threads, NEW i \in 1..Len(ready'[u]) PROVE Home[ready'[u][i].cb] = u
      BY DEF AtHome
    <2>1. ready[u] \in Seq(Closures) /\ \A j \in 1..Len(ready[u]) : Home[ready[u][j].cb] = u
      BY <1>0 DEF CancelInv, AtHome
    <2>2. ready'[u] = ready[u] \/ (ready[u] /= << >> /\ ready'[u] = Tail(ready[u]))
      BY <1>0, <1>3, ZenonT(30) DEF q
    <2>3. ready[u] /= << >> => /\ Len(ready[u]) \in Nat /\ Len(Tail(ready[u])) = Len(ready[u]) - 1
                               /\ \A j \in 1..Len(Tail(ready[u])) : Tail(ready[u])[j] = ready[u][j + 1]
      BY <2>1
    <2>4. CASE ready'[u] = ready[u]
      BY <2>1, <2>4
    <2>5. CASE ready[u] /= << >> /\ ready'[u] = Tail(ready[u])
      <3>1. i + 1 \in 1..Len(ready[u]) /\ ready'[u][i] = ready[u][i + 1]
        BY <2>3, <2>5
      <3> QED BY <2>1, <3>1
    <2> QED BY <2>2, <2>4, <2>5
  <1>11. ASSUME NEW u \in Threads PROVE Calling(u)'
    <2>1. Calling(u)
      BY DEF CancelInv
    <2>2. \/ exec'[u] = exec[u]
          \/ u = t /\ exec'[u] = c /\ (active[c] = "clear" \/ Unchecked(q, c))
      BY <1>0, <1>1, <1>4 DEF CancelTypeOK
    <2>3. active[c] = "clear" \/ Unchecked(q, c) => reg[c] /= "unregistered"
      BY <1>5, ZenonT(30) DEF Fate
    <2> QED BY <1>2, <1>3, <2>1, <2>2, <2>3 DEF Calling
  <1> QED BY <1>8, <1>9, <1>10, <1>11 DEF CancelInv

\* The invariant behind CancelSafe.
THEOREM CancelInvHolds == ASSUME CancelConstant PROVE CancelSpec => []CancelInv
  <1>1. CancelInit => CancelInv
    <2> SUFFICES ASSUME CancelInit PROVE CancelInv
      OBVIOUS
    <2>1. CancelTypeOK
      BY DEF CancelInit, CancelTypeOK
    <2>2. \A c : ~In(<< >>, c) /\ ~Has(<< >>, c) /\ ~Unchecked(<< >>, c)
      BY EmptyQueue
    <2>3. ASSUME NEW c \in Callbacks PROVE Fate(c)
      BY <2>2 DEF CancelInit, Fate, Stored, CancelConstant
    <2>4. AtHome /\ \A t \in Threads : Calling(t)
      BY DEF CancelInit, AtHome, Calling
    <2> QED BY <2>1, <2>3, <2>4 DEF CancelInv
  <1>2. CancelInv /\ [CancelNext]_(cancelVars) => CancelInv'
    <2> SUFFICES ASSUME CancelInv, [CancelNext]_(cancelVars) PROVE CancelInv'
      OBVIOUS
    <2>0. CancelTypeOK
      BY DEF CancelInv
    <2>1. ASSUME NEW t \in Threads, ThreadStep(t) \/ EnterRun(t) \/ CancelClose(t)
          PROVE  CancelInv'
      <3>0. CancelTypeOK'
        BY <2>0, <2>1, ThreadTypes
      <3>1. CASE CancelSwap(t) BY <3>0, <3>1, SwapKeeps
      <3>2. CASE CancelFire(t) BY <3>0, <3>2, FireKeeps
      <3>3. CASE RunClosure(t) BY <3>0, <3>3, ClosureKeeps
      <3>4. CASE FnEnd(t)
        <4>1. \A u \in Threads : exec'[u] = exec[u] \/ exec'[u] = NoCallback
          BY <2>0, <3>4 DEF FnEnd, CancelTypeOK
        <4> QED BY <3>0, <3>4, <4>1, QuietKeeps DEF FnEnd, callVars
      <3>5. CASE CancelResume(t) \/ CancelEnd(t) \/ EnterRun(t) \/ CancelClose(t)
        BY <3>0, <3>5, QuietKeeps, ZenonT(30)
        DEF CancelResume, CancelEnd, EnterRun, CancelClose, callVars
      <3> QED BY <2>1, <3>1, <3>2, <3>3, <3>4, <3>5 DEF ThreadStep
    <2>2. ASSUME NEW c \in Callbacks, AddCallback(c) \/ Unregister(c) \/ AssignOver(c)
          PROVE  CancelInv'
      <3>0. CancelTypeOK'
        BY <2>0, <2>2, CallbackTypes
      <3> QED BY <2>2, <3>0, AddKeeps, RegistrationKeeps
    <2>3. ASSUME NEW w \in Waiters, Await(w) \/ AwaitResume(w)
          PROVE  CancelInv'
      <3>0. CancelTypeOK'
        BY <2>0, <2>3, CallbackTypes
      <3> QED BY <2>3, <3>0, QuietKeeps DEF Await, AwaitResume, callVars
    <2>4. CASE UNCHANGED cancelVars
      <3>1. CancelTypeOK'
        BY <2>0, <2>4, ZenonT(30) DEF cancelVars, CancelTypeOK
      <3> QED BY <2>4, <3>1, QuietKeeps DEF cancelVars
    <2> QED BY <2>1, <2>2, <2>3, <2>4 DEF CancelNext
  <1> QED BY <1>1, <1>2, PTL DEF CancelSpec

\* CancelToken: however cancel(), onCancel(), unregister() and the loops interleave, a callback
\* is called at most once, on the thread of its scheduler, and not after unregister().
THEOREM CancelSafeHolds == ASSUME CancelConstant PROVE CancelSpec => []CancelSafe
  <1>1. CancelInv => CancelSafe
    <2> SUFFICES ASSUME CancelInv PROVE CancelSafe
      OBVIOUS
    <2>1. AtMostOnce
      BY ZenonT(30) DEF CancelInv, AtMostOnce, Fate
    <2>2. NotAfterUnregister /\ RunsAtHome
      BY DEF CancelInv, Calling, NotAfterUnregister, RunsAtHome
    <2> QED BY <2>1, <2>2 DEF CancelSafe
  <1> QED BY <1>1, CancelInvHolds, PTL

=============================================================================
