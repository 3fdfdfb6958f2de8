------------------------ MODULE MutexResolverProofs -------------------------
(***************************************************************************)
(* Proofs about what waits in turn.  The coroutine mutex, for any coroutines: *)
(* mutual exclusion, the assertions of unlock(), no lost waiter, and the   *)
(* refinement of the first-come first-served lock.  The DNS resolver, for any *)
(* calls, names and pool threads.                                          *)
(***************************************************************************)
EXTENDS Mutex, Resolver, Integers, TLAPS

-----------------------------------------------------------------------------
\* Mutex


\* What the definition of Reversed gives for the chain that unlock() detaches.
LEMMA ReverseFacts ==
    ASSUME NEW S, NEW s \in Seq(S)
    PROVE  /\ Reversed(s) \in Seq(S)
           /\ Len(Reversed(s)) = Len(s)
           /\ \A i \in 1..Len(s) : Reversed(s)[i] = s[Len(s) - i + 1]
BY DEF Reversed

\* The initial state of the mutex satisfies the inductive invariant.
THEOREM InitIInv == Init => IInv
<1> SUFFICES ASSUME Init PROVE IInv
  OBVIOUS
<1>1. TypeOK
  BY DEF Init, TypeOK, Labels
<1>2. MutualExclusion
  BY DEF Init, MutualExclusion, Owning
<1>3. OwnerInv
  BY DEF Init, OwnerInv, Owning
<1>4. QueueInv
  BY DEF Init, QueueInv
<1> QED
  BY <1>1, <1>2, <1>3, <1>4 DEF IInv

\* Every step of lock(), try_lock() and unlock() keeps the invariant.
THEOREM NextIInv == IInv /\ [Next]_vars => IInv'
<1> SUFFICES ASSUME IInv, [Next]_vars PROVE IInv'
  OBVIOUS
<1> USE DEF IInv
<1>1. ASSUME NEW c \in Coros, TryLock(c) PROVE IInv'
  <2> USE <1>1, PointerAssumption DEF TryLock, Goto, StatePtr
  <2>1. TypeOK'
    BY DEF TypeOK, Labels
  <2>2. MutualExclusion'
    BY DEF TypeOK, MutualExclusion, OwnerInv, Owning
  <2>3. OwnerInv'
    BY DEF TypeOK, MutualExclusion, OwnerInv, Owning
  <2>4. QueueInv'
    BY DEF TypeOK, QueueInv
  <2> QED
    BY <2>1, <2>2, <2>3, <2>4
<1>2. ASSUME NEW c \in Coros, AwaitSuspend(c) PROVE IInv'
  <2> USE <1>2, PointerAssumption DEF AwaitSuspend, Goto, StatePtr
  <2>1. TypeOK'
    BY DEF TypeOK, Labels
  <2>2. MutualExclusion'
    BY DEF TypeOK, MutualExclusion, OwnerInv, Owning
  <2>3. OwnerInv'
    BY DEF TypeOK, MutualExclusion, OwnerInv, Owning
  <2>4. QueueInv'
    BY DEF TypeOK, QueueInv
  <2> QED
    BY <2>1, <2>2, <2>3, <2>4
<1>3. ASSUME NEW c \in Coros, AsyncLockLoad(c) PROVE IInv'
  <2> USE <1>3, PointerAssumption DEF AsyncLockLoad, Goto, StatePtr
  <2>1. TypeOK'
    BY DEF TypeOK, Labels
  <2>2. MutualExclusion'
    BY DEF TypeOK, MutualExclusion, OwnerInv, Owning
  <2>3. OwnerInv'
    BY DEF TypeOK, MutualExclusion, OwnerInv, Owning
  <2>4. QueueInv'
    BY DEF TypeOK, QueueInv
  <2> QED
    BY <2>1, <2>2, <2>3, <2>4
<1>4. ASSUME NEW c \in Coros, AsyncLockTake(c) PROVE IInv'
  <2> USE <1>4, PointerAssumption DEF AsyncLockTake, Goto, StatePtr
  <2>1. TypeOK'
    BY DEF TypeOK, Labels
  <2>2. MutualExclusion'
    BY DEF TypeOK, MutualExclusion, OwnerInv, Owning
  <2>3. OwnerInv'
    BY DEF TypeOK, MutualExclusion, OwnerInv, Owning
  <2>4. QueueInv'
    BY DEF TypeOK, QueueInv
  <2> QED
    BY <2>1, <2>2, <2>3, <2>4
<1>5. ASSUME NEW c \in Coros, AsyncLockPush(c) PROVE IInv'
  <2> USE <1>5, PointerAssumption DEF AsyncLockPush, Goto, StatePtr
  <2>1. TypeOK'
    BY DEF TypeOK, Labels
  <2>2. MutualExclusion'
    BY DEF TypeOK, MutualExclusion, OwnerInv, Owning
  <2>3. OwnerInv'
    BY DEF TypeOK, MutualExclusion, OwnerInv, Owning
  <2>4. /\ Len(stack') = Len(stack) + 1
        /\ stack'[1] = c
        /\ \A i \in 1..Len(stack) : stack'[i + 1] = stack[i]
        /\ \A i \in 2..Len(stack') : i - 1 \in 1..Len(stack) /\ stack'[i] = stack[i - 1]
    BY DEF TypeOK
  <2>5. pc[c] /= "waiting"
    OBVIOUS
  <2>6. /\ \A i \in 1..Len(stack) : stack[i] \in Coros \ {c}
        /\ \A i \in 1..Len(waiters) : waiters[i] \in Coros \ {c}
    BY <2>5 DEF QueueInv, TypeOK
  <2>7. pc' = [pc EXCEPT ![c] = "waiting"] /\ waiters' = waiters /\ pc \in [Coros -> Labels]
    BY DEF TypeOK
  <2>8. /\ stack \in Seq(Coros) /\ Len(stack) \in Nat
        /\ waiters \in Seq(Coros) /\ Len(waiters) \in Nat
    BY DEF TypeOK
  <2> HIDE <1>5 DEF AsyncLockPush, Goto, StatePtr
  <2>8a. \A i \in 1..Len(stack') : \/ stack'[i] = c
                                   \/ i - 1 \in 1..Len(stack) /\ stack'[i] = stack[i - 1]
    BY <2>4, <2>8
  <2>8b. pc'[c] = "waiting" /\ \A d \in Coros \ {c} : pc'[d] = pc[d]
    BY <2>7
  <2>8c. \A i \in 1..Len(waiters') : pc'[waiters'[i]] = "waiting"
    BY <2>6, <2>7, <2>8b DEF QueueInv
  <2>8d. \A i \in 1..Len(stack) : pc'[stack[i]] = "waiting"
    BY <2>6, <2>8b DEF QueueInv
  <2>9. \A i \in 1..Len(stack') : pc'[stack'[i]] = "waiting"
    BY <2>8a, <2>8b, <2>8d
  <2>10. /\ \A i, j \in 1..Len(stack') : stack'[i] = stack'[j] => i = j
         /\ \A i, j \in 1..Len(waiters') : waiters'[i] = waiters'[j] => i = j
    <3>1. \A i, j \in 1..Len(stack) : stack[i] = stack[j] => i = j
      BY DEF QueueInv
    <3>2. ASSUME NEW i \in 1..Len(stack'), i /= 1
          PROVE  i - 1 \in 1..Len(stack) /\ stack'[i] = stack[i - 1] /\ stack'[i] /= c
      <4>1. i - 1 \in 1..Len(stack) /\ stack'[i] = stack[i - 1]
        BY <3>2, <2>4, <2>8
      <4> QED
        BY <4>1, <2>6
    <3>3. stack'[1] = c
      BY <2>4, <2>8
    <3>4. ASSUME NEW i \in 1..Len(stack'), NEW j \in 1..Len(stack'), stack'[i] = stack'[j]
          PROVE  i = j
      <4>1. CASE i = 1 \/ j = 1
        BY <4>1, <3>2, <3>3, <3>4
      <4>2. CASE i /= 1 /\ j /= 1
        <5>1. i - 1 = j - 1
          BY <4>2, <3>1, <3>2, <3>4
        <5> QED
          BY <5>1
      <4> QED
        BY <4>1, <4>2
    <3> QED
      BY <3>4, <2>7 DEF QueueInv
  <2>11. \A i \in 1..Len(stack'), j \in 1..Len(waiters') : stack'[i] /= waiters'[j]
    <3> SUFFICES ASSUME NEW i \in 1..Len(stack'), NEW j \in 1..Len(waiters)
                 PROVE  stack'[i] /= waiters[j]
      BY <2>7
    <3>1. CASE stack'[i] = c
      BY <3>1, <2>6
    <3>2. CASE i - 1 \in 1..Len(stack) /\ stack'[i] = stack[i - 1]
      BY <3>2 DEF QueueInv
    <3> QED
      BY <3>1, <3>2, <2>8a
  <2>12. ASSUME NEW d \in Coros, pc'[d] = "waiting"
         PROVE  \/ \E i \in 1..Len(stack') : stack'[i] = d
                \/ \E i \in 1..Len(waiters') : waiters'[i] = d
    <3>1. CASE d = c
      BY <3>1, <2>4, <2>8
    <3>2. CASE d /= c
      <4>1. pc[d] = "waiting"
        BY <3>2, <2>12, <2>8b
      <4>2. CASE \E i \in 1..Len(stack) : stack[i] = d
        <5>1. PICK i \in 1..Len(stack) : stack[i] = d
          BY <4>2
        <5>2. i + 1 \in 1..Len(stack') /\ stack'[i + 1] = d
          BY <5>1, <2>4, <2>8
        <5> QED
          BY <5>2
      <4>3. CASE \E i \in 1..Len(waiters) : waiters[i] = d
        BY <4>3, <2>7
      <4> QED
        BY <4>1, <4>2, <4>3 DEF QueueInv
    <3> QED
      BY <3>1, <3>2
  <2>13. QueueInv'
    BY <2>8c, <2>9, <2>10, <2>11, <2>12 DEF QueueInv
  <2> QED
    BY <2>1, <2>2, <2>3, <2>13
<1>6. ASSUME NEW c \in Coros, AsyncLockRetry(c) PROVE IInv'
  <2> USE <1>6, PointerAssumption DEF AsyncLockRetry, Goto, StatePtr
  <2>1. TypeOK'
    BY DEF TypeOK, Labels
  <2>2. MutualExclusion'
    BY DEF TypeOK, MutualExclusion, OwnerInv, Owning
  <2>3. OwnerInv'
    BY DEF TypeOK, MutualExclusion, OwnerInv, Owning
  <2>4. QueueInv'
    BY DEF TypeOK, QueueInv
  <2> QED
    BY <2>1, <2>2, <2>3, <2>4
<1>7. ASSUME NEW c \in Coros, UnlockStart(c) PROVE IInv'
  <2> USE <1>7, PointerAssumption DEF UnlockStart, Goto, StatePtr
  <2>1. TypeOK'
    BY DEF TypeOK, Labels
  <2>2. MutualExclusion'
    BY DEF TypeOK, MutualExclusion, OwnerInv, Owning
  <2>3. OwnerInv'
    BY DEF TypeOK, MutualExclusion, OwnerInv, Owning
  <2>4. QueueInv'
    BY DEF TypeOK, QueueInv
  <2> QED
    BY <2>1, <2>2, <2>3, <2>4
<1>8. ASSUME NEW c \in Coros, UnlockRelease(c) PROVE IInv'
  <2> USE <1>8, PointerAssumption DEF UnlockRelease, Goto, StatePtr
  <2>1. TypeOK'
    BY DEF TypeOK, Labels
  <2>2. MutualExclusion'
    BY DEF TypeOK, MutualExclusion, OwnerInv, Owning
  <2>3. OwnerInv'
    BY DEF TypeOK, MutualExclusion, OwnerInv, Owning
  <2>4. QueueInv'
    BY DEF TypeOK, QueueInv
  <2> QED
    BY <2>1, <2>2, <2>3, <2>4
<1>9. ASSUME NEW c \in Coros, UnlockCollect(c) PROVE IInv'
  <2> USE <1>9, PointerAssumption DEF UnlockCollect, Goto
  <2>1. /\ waiters' \in Seq(Coros)
        /\ Len(waiters') = Len(stack)
        /\ \A i \in 1..Len(stack) : waiters'[i] = stack[Len(stack) - i + 1]
    BY ReverseFacts DEF TypeOK
  <2>2. stack' = << >> /\ pc' = [pc EXCEPT ![c] = "handoff"] /\ state' = state /\ old' = old
    OBVIOUS
  <2>3. stack \in Seq(Coros) /\ Len(stack) \in Nat /\ stack /= << >> /\ waiters = << >>
    BY DEF TypeOK, OwnerInv
  <2>4. pc[c] = "collect"
    OBVIOUS
  <2> HIDE <1>9 DEF UnlockCollect, Goto
  <2>5. TypeOK'
    BY <2>1, <2>2 DEF TypeOK, Labels
  <2>6. MutualExclusion'
    BY <2>2, <2>4 DEF TypeOK, MutualExclusion, Owning
  <2>7. waiters' /= << >>
    BY <2>1, <2>3
  <2>8. OwnerInv'
    BY <2>2, <2>3, <2>4, <2>7 DEF TypeOK, OwnerInv, MutualExclusion, Owning
  <2>9. \A i \in 1..Len(stack) :
            /\ Len(stack) - i + 1 \in 1..Len(stack)
            /\ Len(stack) - (Len(stack) - i + 1) + 1 = i
    BY <2>3
  <2>10. \A i \in 1..Len(waiters') : pc'[waiters'[i]] = "waiting"
    BY <2>1, <2>2, <2>3, <2>4, <2>9 DEF QueueInv, TypeOK
  <2>11. ASSUME NEW i \in 1..Len(waiters'), NEW j \in 1..Len(waiters'), waiters'[i] = waiters'[j]
         PROVE  i = j
    <3>1. stack[Len(stack) - i + 1] = stack[Len(stack) - j + 1]
      BY <2>1, <2>11
    <3>1a. Len(stack) - i + 1 \in 1..Len(stack) /\ Len(stack) - j + 1 \in 1..Len(stack)
      BY <2>1, <2>9
    <3>1b. \A a, b \in 1..Len(stack) : stack[a] = stack[b] => a = b
      BY DEF QueueInv
    <3> HIDE DEF IInv
    <3>2. Len(stack) - i + 1 = Len(stack) - j + 1
      BY <3>1, <3>1a, <3>1b
    <3> QED
      BY <3>2, <2>1, <2>3
  <2>12. ASSUME NEW d \in Coros, pc'[d] = "waiting"
         PROVE  \E i \in 1..Len(waiters') : waiters'[i] = d
    <3>1. pc[d] = "waiting"
      BY <2>2, <2>12 DEF TypeOK
    <3>2. PICK i \in 1..Len(stack) : stack[i] = d
      BY <3>1, <2>3 DEF QueueInv
    <3>3. waiters'[Len(stack) - i + 1] = d
      BY <3>2, <2>1, <2>9
    <3> QED
      BY <3>3, <2>1, <2>9
  <2>13. QueueInv'
    BY <2>2, <2>10, <2>11, <2>12 DEF QueueInv
  <2> QED
    BY <2>5, <2>6, <2>8, <2>13
<1>10. ASSUME NEW c \in Coros, UnlockHandOff(c) PROVE IInv'
  <2> DEFINE w == Head(waiters)
  <2> USE <1>10
  <2>1. /\ waiters \in Seq(Coros) /\ Len(waiters) \in Nat /\ waiters /= << >>
        /\ stack \in Seq(Coros) /\ pc \in [Coros -> Labels]
        /\ pc[c] = "handoff"
    BY DEF UnlockHandOff, TypeOK, OwnerInv
  <2>2. /\ w = waiters[1] /\ w \in Coros
        /\ waiters' \in Seq(Coros) /\ Len(waiters') = Len(waiters) - 1
        /\ \A i \in 1..Len(waiters') : i + 1 \in 2..Len(waiters) /\ waiters'[i] = waiters[i + 1]
    BY <2>1 DEF UnlockHandOff
  <2>3. 1 \in 1..Len(waiters)
    BY <2>1
  <2>4. pc[w] = "waiting"
    BY <2>2, <2>3 DEF QueueInv
  <2>5. w /= c
    BY <2>1, <2>4
  <2>6. /\ pc' = [pc EXCEPT ![c] = "idle", ![w] = "scheduled"]
        /\ state' = state /\ stack' = stack /\ old' = old
    BY DEF UnlockHandOff
  <2>7. /\ pc' \in [Coros -> Labels]
        /\ pc'[c] = "idle" /\ pc'[w] = "scheduled"
        /\ \A d \in Coros \ {c, w} : pc'[d] = pc[d]
    BY <2>1, <2>2, <2>5, <2>6 DEF Labels
  <2> HIDE <1>10 DEF w
  <2>8. TypeOK'
    BY <2>2, <2>6, <2>7 DEF TypeOK
  <2>9. \A d \in Coros \ {c} : pc[d] \notin Owning
    BY <2>1 DEF MutualExclusion, Owning
  <2>10. MutualExclusion'
    BY <2>7, <2>9 DEF MutualExclusion, Owning
  <2>11. OwnerInv'
    BY <2>1, <2>2, <2>6, <2>7, <2>9 DEF OwnerInv, Owning
  <2>12. /\ \A i \in 1..Len(waiters') : waiters'[i] \in Coros \ {c, w}
         /\ \A i \in 1..Len(waiters') : pc'[waiters'[i]] = "waiting"
    <3> SUFFICES ASSUME NEW i \in 1..Len(waiters')
                 PROVE  waiters'[i] \in Coros \ {c, w} /\ pc'[waiters'[i]] = "waiting"
      OBVIOUS
    <3>1. i + 1 \in 1..Len(waiters) /\ i + 1 /= 1 /\ waiters'[i] = waiters[i + 1]
      BY <2>1, <2>2
    <3>2. waiters'[i] \in Coros /\ pc[waiters'[i]] = "waiting" /\ waiters'[i] /= w
      BY <3>1, <2>1, <2>2, <2>3 DEF QueueInv
    <3> QED
      BY <3>2, <2>1, <2>7
  <2>13. \A i \in 1..Len(stack) : stack[i] \in Coros \ {c, w} /\ pc'[stack[i]] = "waiting"
    BY <2>1, <2>2, <2>3, <2>7 DEF QueueInv
  <2>14. \A i, j \in 1..Len(waiters') : waiters'[i] = waiters'[j] => i = j
    BY <2>1, <2>2 DEF QueueInv
  <2>15. \A i \in 1..Len(stack), j \in 1..Len(waiters') : stack[i] /= waiters'[j]
    BY <2>1, <2>2 DEF QueueInv
  <2>16. ASSUME NEW d \in Coros, pc'[d] = "waiting"
         PROVE  \/ \E i \in 1..Len(stack) : stack[i] = d
                \/ \E i \in 1..Len(waiters') : waiters'[i] = d
    <3>1. d \in Coros \ {c, w} /\ pc[d] = "waiting"
      BY <2>7, <2>16
    <3>2. CASE \E i \in 1..Len(stack) : stack[i] = d
      BY <3>2
    <3>3. CASE \E i \in 1..Len(waiters) : waiters[i] = d
      <4>1. PICK i \in 1..Len(waiters) : waiters[i] = d
        BY <3>3
      <4>2. i - 1 \in 1..Len(waiters')
        BY <4>1, <3>1, <2>1, <2>2
      <4>3. waiters'[i - 1] = d
        BY <4>1, <4>2, <2>1, <2>2
      <4> QED
        BY <4>2, <4>3
    <3> QED
      BY <3>1, <3>2, <3>3 DEF QueueInv
  <2>17. QueueInv'
    <3>1. \A i, j \in 1..Len(stack') : stack'[i] = stack'[j] => i = j
      BY <2>6 DEF QueueInv
    <3>2. \A i \in 1..Len(stack') : pc'[stack'[i]] = "waiting"
      BY <2>6, <2>13
    <3>3. \A i \in 1..Len(stack'), j \in 1..Len(waiters') : stack'[i] /= waiters'[j]
      BY <2>6, <2>15
    <3>4. \A d \in Coros : pc'[d] = "waiting" =>
             \/ \E i \in 1..Len(stack') : stack'[i] = d
             \/ \E i \in 1..Len(waiters') : waiters'[i] = d
      BY <2>6, <2>16
    <3> QED
      BY <3>1, <3>2, <3>3, <3>4, <2>12, <2>14 DEF QueueInv
  <2> QED
    BY <2>8, <2>10, <2>11, <2>17
<1>11. ASSUME NEW c \in Coros, Resume(c) PROVE IInv'
  <2> USE <1>11, PointerAssumption DEF Resume, Goto, StatePtr
  <2>1. TypeOK'
    BY DEF TypeOK, Labels
  <2>2. MutualExclusion'
    BY DEF TypeOK, MutualExclusion, OwnerInv, Owning
  <2>3. OwnerInv'
    BY DEF TypeOK, MutualExclusion, OwnerInv, Owning
  <2>4. QueueInv'
    BY DEF TypeOK, QueueInv
  <2> QED
    BY <2>1, <2>2, <2>3, <2>4
<1>12. CASE UNCHANGED vars
  BY <1>12 DEF vars, TypeOK, MutualExclusion, OwnerInv, QueueInv
<1> QED
  BY <1>1, <1>2, <1>3, <1>4, <1>5, <1>6, <1>7, <1>8, <1>9, <1>10, <1>11, <1>12 DEF Next, Progress

\* Every reachable state of the mutex satisfies the inductive invariant.
THEOREM MutexInvariant == Spec => []IInv
BY InitIInv, NextIInv, PTL DEF Spec

\* Mutex::lock and Mutex::unlock never give the mutex to two coroutines at once, whatever the
\* number of coroutines.
THEOREM MutualExclusionHolds == Spec => []MutualExclusion
<1>1. IInv => MutualExclusion
  BY DEF IInv
<1> QED
  BY <1>1, MutexInvariant, PTL

\* No assertion of unlock() can fail.
THEOREM UnlockAssertsHold == Spec => []UnlockAsserts
<1>1. ASSUME IInv PROVE UnlockAsserts
  <2> SUFFICES ASSUME NEW c \in Coros
               PROVE  /\ pc[c] = "holding" => StatePtr /= Unlocked
                      /\ pc[c] = "collect" => StatePtr \notin {Unlocked, Null}
                      /\ pc[c] = "handoff" => waiters /= << >>
    BY DEF UnlockAsserts
  <2>1. pc[c] \in Owning => state = "locked"
    BY <1>1 DEF IInv, OwnerInv
  <2>2. stack /= << >> => stack[1] \in Coros
    BY <1>1 DEF IInv, TypeOK
  <2> QED
    BY <1>1, <2>1, <2>2, PointerAssumption DEF IInv, OwnerInv, StatePtr, Owning
<1> QED
  BY <1>1, MutexInvariant, PTL

\* A sequence followed by a reversed one, position by position.
LEMMA ConcatReverseFacts ==
    ASSUME NEW S, NEW w \in Seq(S), NEW s \in Seq(S)
    PROVE  /\ Len(w \o Reversed(s)) = Len(w) + Len(s)
           /\ \A i \in 1..Len(w) : (w \o Reversed(s))[i] = w[i]
           /\ \A i \in 1..Len(s) : (w \o Reversed(s))[Len(w) + i] = s[Len(s) - i + 1]
<1>1. Reversed(s) \in Seq(S) /\ Len(Reversed(s)) = Len(s)
  BY ReverseFacts
<1>2. \A i \in 1..Len(s) : Reversed(s)[i] = s[Len(s) - i + 1]
  BY ReverseFacts
<1>3. \A i \in 1..Len(s) : (w \o Reversed(s))[Len(w) + i] = Reversed(s)[i]
  BY <1>1
<1>4. Len(w \o Reversed(s)) = Len(w) + Len(s)
  BY <1>1
<1>5. \A i \in 1..Len(w) : (w \o Reversed(s))[i] = w[i]
  BY <1>1
<1>6. \A i \in 1..Len(s) : (w \o Reversed(s))[Len(w) + i] = s[Len(s) - i + 1]
  BY <1>2, <1>3
<1> QED
  BY <1>4, <1>5, <1>6

\* A coroutine suspended by asynclockImpl is on exactly one of the two chains, once, and no
\* other coroutine is.
THEOREM NoLostWaiterHolds == Spec => []NoLostWaiter
<1>1. ASSUME IInv PROVE NoLostWaiter
  <2> USE <1>1
  <2>1. waiters \in Seq(Coros) /\ stack \in Seq(Coros)
    BY DEF IInv, TypeOK
  <2>2. Len(waiters) \in Nat /\ Len(stack) \in Nat
    BY <2>1
  <2>a. Len(Queue) = Len(waiters) + Len(stack)
    BY <2>1, ConcatReverseFacts DEF Queue
  <2>b. \A i \in 1..Len(waiters) : Queue[i] = waiters[i]
    BY <2>1, ConcatReverseFacts DEF Queue
  <2>c. \A i \in 1..Len(stack) : Queue[Len(waiters) + i] = stack[Len(stack) - i + 1]
    BY <2>1, ConcatReverseFacts DEF Queue
  <2>3. \A i \in 1..Len(Queue) :
            \/ i \in 1..Len(waiters) /\ Queue[i] = waiters[i]
            \/ /\ i > Len(waiters)
               /\ Len(waiters) + Len(stack) - i + 1 \in 1..Len(stack)
               /\ Queue[i] = stack[Len(waiters) + Len(stack) - i + 1]
    <3> SUFFICES ASSUME NEW i \in 1..Len(Queue), i \notin 1..Len(waiters)
                 PROVE  /\ i > Len(waiters)
                        /\ Len(waiters) + Len(stack) - i + 1 \in 1..Len(stack)
                        /\ Queue[i] = stack[Len(waiters) + Len(stack) - i + 1]
      BY <2>a, <2>b, <2>c
    <3>1. i > Len(waiters) /\ i - Len(waiters) \in 1..Len(stack)
      BY <2>a, <2>b, <2>c, <2>2
    <3>2. Queue[Len(waiters) + (i - Len(waiters))] = stack[Len(stack) - (i - Len(waiters)) + 1]
      BY <2>a, <2>b, <2>c, <3>1
    <3>3. Len(waiters) + (i - Len(waiters)) = i
          /\ Len(stack) - (i - Len(waiters)) + 1 = Len(waiters) + Len(stack) - i + 1
      BY <2>2
    <3> QED
      BY <3>1, <3>2, <3>3, <2>2
  <2>4. ASSUME NEW c \in Coros, NEW i \in 1..Len(Queue), Queue[i] = c
        PROVE  pc[c] = "waiting"
    BY <2>3, <2>4 DEF IInv, QueueInv
  <2>5. ASSUME NEW c \in Coros, pc[c] = "waiting"
        PROVE  \E i \in 1..Len(Queue) : Queue[i] = c
    <3>1. CASE \E i \in 1..Len(waiters) : waiters[i] = c
      <4>1. PICK i \in 1..Len(waiters) : waiters[i] = c
        BY <3>1
      <4>2. i \in 1..Len(Queue) /\ Queue[i] = c
        BY <4>1, <2>a, <2>b, <2>c, <2>2
      <4> QED
        BY <4>2
    <3>2. CASE \E i \in 1..Len(stack) : stack[i] = c
      <4>1. PICK i \in 1..Len(stack) : stack[i] = c
        BY <3>2
      <4>2. Len(stack) - i + 1 \in 1..Len(stack) /\ Len(stack) - (Len(stack) - i + 1) + 1 = i
        BY <2>2
      <4>3. Queue[Len(waiters) + (Len(stack) - i + 1)] = c
        BY <2>a, <2>b, <2>c, <4>1, <4>2
      <4>4. Len(waiters) + (Len(stack) - i + 1) \in 1..Len(Queue)
        BY <2>a, <2>b, <2>c, <2>2, <4>2
      <4> QED
        BY <4>3, <4>4
    <3> QED
      BY <2>5, <3>1, <3>2 DEF IInv, QueueInv
  <2>6. ASSUME NEW i \in 1..Len(Queue), NEW j \in 1..Len(Queue), Queue[i] = Queue[j]
        PROVE  i = j
    <3>1. CASE i \in 1..Len(waiters) /\ j \in 1..Len(waiters)
      BY <2>a, <2>b, <2>c, <2>6, <3>1 DEF IInv, QueueInv
    <3>2. CASE i \in 1..Len(waiters) /\ j \notin 1..Len(waiters)
      <4>1. Queue[i] = waiters[i]
        BY <2>a, <2>b, <2>c, <3>2
      <4>2. PICK k \in 1..Len(stack) : Queue[j] = stack[k]
        BY <2>3, <3>2
      <4>3. stack[k] /= waiters[i]
        BY <3>2 DEF IInv, QueueInv
      <4> QED
        BY <4>1, <4>2, <4>3, <2>6
    <3>3. CASE i \notin 1..Len(waiters) /\ j \in 1..Len(waiters)
      <4>1. Queue[j] = waiters[j]
        BY <2>a, <2>b, <2>c, <3>3
      <4>2. PICK k \in 1..Len(stack) : Queue[i] = stack[k]
        BY <2>3, <3>3
      <4> QED
        BY <4>1, <4>2, <2>6, <3>3 DEF IInv, QueueInv
    <3>4. CASE i \notin 1..Len(waiters) /\ j \notin 1..Len(waiters)
      <4>1. /\ Len(waiters) + Len(stack) - i + 1 \in 1..Len(stack)
            /\ Len(waiters) + Len(stack) - j + 1 \in 1..Len(stack)
            /\ stack[Len(waiters) + Len(stack) - i + 1] = stack[Len(waiters) + Len(stack) - j + 1]
        BY <2>3, <2>6, <3>4
      <4>2. Len(waiters) + Len(stack) - i + 1 = Len(waiters) + Len(stack) - j + 1
        BY <4>1 DEF IInv, QueueInv
      <4> QED
        BY <4>2, <2>a, <2>b, <2>c, <2>2
    <3> QED
      BY <3>1, <3>2, <3>3, <3>4
  <2> QED
    BY <2>4, <2>5, <2>6 DEF NoLostWaiter
<1> QED
  BY <1>1, MutexInvariant, PTL

\* Pushing an awaiter on state_ appends it to the queue.
LEMMA PushAppends ==
    ASSUME NEW S, NEW w \in Seq(S), NEW s \in Seq(S), NEW c \in S
    PROVE  w \o Reversed(<<c>> \o s) = Append(w \o Reversed(s), c)
<1>1. Reversed(<<c>> \o s) = Append(Reversed(s), c)
  BY DEF Reversed
<1>2. Reversed(s) \in Seq(S)
  BY ReverseFacts
<1>3. w \o Append(Reversed(s), c) = Append(w \o Reversed(s), c)
  BY <1>2
<1> QED
  BY <1>1, <1>3

\* Handing the mutex to the head of waiters_ removes the head of the queue.
LEMMA HandOffPops ==
    ASSUME NEW S, NEW w \in Seq(S), NEW s \in Seq(S), w /= << >>
    PROVE  /\ w \o Reversed(s) /= << >>
           /\ Head(w \o Reversed(s)) = Head(w)
           /\ Tail(w \o Reversed(s)) = Tail(w) \o Reversed(s)
<1>1. Reversed(s) \in Seq(S)
  BY ReverseFacts
<1> QED
  BY <1>1

\* Collecting the stack into an empty waiters_ leaves the queue as it was.
LEMMA CollectKeepsQueue ==
    ASSUME NEW S, NEW s \in Seq(S)
    PROVE  Reversed(s) \o Reversed(<< >>) = << >> \o Reversed(s)
<1>1. Reversed(s) \in Seq(S)
  BY ReverseFacts
<1>2. Reversed(<< >>) = << >>
  BY DEF Reversed
<1> QED
  BY <1>1, <1>2

\* Every step of the mutex is a step of the first-come first-served lock, or leaves it alone.
THEOREM MutexStepRefines ==
    ASSUME IInv, IInv', [Next]_vars
    PROVE  [Fifo!Next]_<<Owner, Queue>>
<1> DEFINE Idle(p) == \A c \in Coros : p[c] \notin Owning
<1>1. /\ \A c \in Coros : pc[c] \in Owning => Owner = c
      /\ Idle(pc) => Owner = Null
      /\ \A c \in Coros : pc'[c] \in Owning => Owner' = c
      /\ Idle(pc') => Owner' = Null
  BY DEF IInv, MutualExclusion, Owner
<1>2. /\ state = "unlocked" => Idle(pc) /\ waiters = << >> /\ stack = << >>
      /\ state = "locked" => \E c \in Coros : pc[c] \in Owning
      /\ state' = "unlocked" => Idle(pc')
  BY DEF IInv, OwnerInv, TypeOK
<1>3. waiters \in Seq(Coros) /\ stack \in Seq(Coros) /\ pc \in [Coros -> Labels]
  BY DEF IInv, TypeOK
<1>4. ASSUME NEW c \in Coros, TryLock(c) \/ AsyncLockTake(c) PROVE Fifo!Acquire(c)
  <2>1. state = "unlocked" /\ pc'[c] = "holding"
    BY <1>3, <1>4, PointerAssumption DEF TryLock, AsyncLockTake, StatePtr, Goto
  <2>2. Owner = Null /\ Owner' = c
    BY <2>1, <1>1, <1>2 DEF Owning
  <2>3. Queue' = Queue
    BY <1>4 DEF TryLock, AsyncLockTake, Queue
  <2> QED
    BY <2>2, <2>3 DEF Fifo!Acquire
<1>5. ASSUME NEW c \in Coros, AsyncLockPush(c) PROVE Fifo!Enqueue(c)
  <2>1. state = "locked" /\ pc' = [pc EXCEPT ![c] = "waiting"] /\ pc[c] = "cas"
    BY <1>5 DEF AsyncLockPush, StatePtr, Goto, IInv, TypeOK
  <2>2. PICK d \in Coros : pc[d] \in Owning
    BY <2>1, <1>2
  <2>3. d /= c /\ pc'[d] = pc[d]
    BY <2>1, <2>2, <1>3 DEF Owning
  <2>4. Owner = d /\ Owner' = d
    BY <2>2, <2>3, <1>1
  <2>5. Owner /= Null
    BY <2>4, PointerAssumption
  <2>6. Queue' = Append(Queue, c)
    <3>1. waiters' = waiters /\ stack' = <<c>> \o stack
      BY <1>5 DEF AsyncLockPush
    <3>2. Queue' = waiters \o Reversed(<<c>> \o stack)
      BY <3>1 DEF Queue
    <3> QED
      BY <3>2, <1>3, PushAppends DEF Queue
  <2> QED
    BY <2>4, <2>5, <2>6 DEF Fifo!Enqueue
<1>6. ASSUME NEW c \in Coros, UnlockRelease(c), state' = "unlocked" PROVE Fifo!Release
  <2>1. pc[c] = "release" /\ waiters = << >>
    BY <1>6 DEF UnlockRelease, IInv, OwnerInv
  <2>2. stack = << >> /\ UNCHANGED <<stack, waiters>>
    <3>1. state = "locked"
      BY <2>1, <1>2, <1>3 DEF Owning, IInv, OwnerInv
    <3>2. StatePtr = Null
      BY <1>6, <3>1 DEF UnlockRelease
    <3>3. stack /= << >> => stack[1] \in Coros
      BY <1>3
    <3> QED
      BY <1>6, <3>1, <3>2, <3>3, PointerAssumption DEF UnlockRelease, StatePtr
  <2>3. Owner = c /\ Owner' = Null
    BY <2>1, <1>1, <1>2, <1>6 DEF Owning
  <2>4. Queue = << >> /\ Queue' = Queue
    BY <2>1, <2>2 DEF Queue, Reversed
  <2> QED
    BY <2>3, <2>4, PointerAssumption DEF Fifo!Release
<1>7. ASSUME NEW c \in Coros, UnlockHandOff(c) PROVE Fifo!HandOver
  <2>1. pc[c] = "handoff" /\ waiters /= << >>
    BY <1>7 DEF UnlockHandOff, IInv, OwnerInv
  <2>2. Head(waiters) = waiters[1] /\ Head(waiters) \in Coros /\ 1 \in 1..Len(waiters)
    BY <2>1, <1>3
  <2>3. pc'[Head(waiters)] = "scheduled"
    BY <1>3, <1>7, <2>2 DEF UnlockHandOff
  <2>4. Owner' = Head(waiters)
    BY <2>2, <2>3, <1>1 DEF Owning
  <2>5. Queue' = Tail(waiters) \o Reversed(stack)
    BY <1>7 DEF UnlockHandOff, Queue
  <2>6. Queue /= << >> /\ Head(Queue) = Head(waiters) /\ Tail(Queue) = Tail(waiters) \o Reversed(stack)
    BY <2>1, <1>3, HandOffPops DEF Queue
  <2> QED
    BY <2>4, <2>5, <2>6 DEF Fifo!HandOver
<1>8. ASSUME NEW c \in Coros, pc' = [pc EXCEPT ![c] = pc'[c]],
             pc[c] \in Owning <=> pc'[c] \in Owning
      PROVE  Owner' = Owner
  <2>1. \A d \in Coros : pc[d] \in Owning <=> pc'[d] \in Owning
    BY <1>3, <1>8
  <2> QED
    BY <2>1, <1>1
<1>9. ASSUME NEW c \in Coros,
             \/ AwaitSuspend(c) \/ AsyncLockLoad(c) \/ AsyncLockRetry(c)
             \/ UnlockStart(c) \/ Resume(c) \/ UnlockCollect(c)
             \/ UnlockRelease(c) /\ state' = state
      PROVE  Owner' = Owner /\ Queue' = Queue
  <2>1. pc' = [pc EXCEPT ![c] = pc'[c]] /\ (pc[c] \in Owning <=> pc'[c] \in Owning)
    <3>1. \E l : pc' = [pc EXCEPT ![c] = l]
      BY <1>9, <1>3 DEF AwaitSuspend, AsyncLockLoad, AsyncLockRetry, UnlockStart, Resume,
                        UnlockCollect, UnlockRelease, Goto
    <3> QED
      BY <1>9, <1>3, <1>2, <3>1 DEF AwaitSuspend, AsyncLockLoad, AsyncLockRetry, UnlockStart, Resume,
                        UnlockCollect, UnlockRelease, Goto, Owning, IInv, OwnerInv
  <2>2. CASE UnlockCollect(c)
    <3>1. waiters = << >> /\ stack' = << >> /\ waiters' = Reversed(stack)
      BY <2>2 DEF UnlockCollect, IInv, OwnerInv
    <3>2. Queue' = Reversed(stack) \o Reversed(<< >>) /\ Queue = << >> \o Reversed(stack)
      BY <3>1 DEF Queue
    <3> QED
      BY <2>1, <3>2, <1>3, <1>8, CollectKeepsQueue
  <2>3. CASE ~UnlockCollect(c)
    <3>1. stack' = stack /\ waiters' = waiters
      BY <1>9, <2>3 DEF AwaitSuspend, AsyncLockLoad, AsyncLockRetry, UnlockStart, Resume, UnlockRelease
    <3> QED
      BY <2>1, <3>1, <1>8 DEF Queue
  <2> QED
    BY <2>2, <2>3
<1>10. CASE UNCHANGED vars
  BY <1>10 DEF vars, Owner, Queue
<1>11. \A c \in Coros : UnlockRelease(c) => state' = "unlocked" \/ state' = state
  BY DEF UnlockRelease
<1> QED
  BY <1>4, <1>5, <1>6, <1>7, <1>9, <1>10, <1>11 DEF Next, Progress, Fifo!Next

\* nitrocoro::Mutex implements the first-come first-served lock with direct hand-off: waiters
\* are resumed in the order in which they got on state_, and nobody overtakes them.
THEOREM MutexImplementsFifoLock == Spec => ImplementsFifoLock
<1>1. Init => Fifo!Init
  <2> SUFFICES ASSUME Init PROVE Fifo!Init
    OBVIOUS
  <2>1. \A c \in Coros : pc[c] \notin Owning
    BY DEF Init, Owning
  <2>2. Owner = Null
    BY <2>1 DEF Owner
  <2>3. Queue = << >>
    BY DEF Init, Queue, Reversed
  <2> QED
    BY <2>2, <2>3 DEF Fifo!Init
<1>2. IInv /\ IInv' /\ [Next]_vars => [Fifo!Next]_<<Owner, Queue>>
  BY MutexStepRefines
<1> QED
  BY <1>1, <1>2, MutexInvariant, PTL DEF Spec, ImplementsFifoLock, Fifo!Spec

-----------------------------------------------------------------------------
\* DnsResolver

\* The time to live of a cache entry is a number.
ResolverConstant == Ttl \in Nat

WorkerStates == [pc : {"idle", "lookup", "store", "fail", "sweep", "notify"},
                 key : Keys \cup {"none"}, now : Nat, waiters : SUBSET Calls]
CallStates == [pc : {"new", "waiting", "done"}, key : Keys]

ResolverTypes ==
    /\ time \in Nat /\ owner \in {"yes", "no"}
    /\ cache \in [Keys -> Nat] /\ pending \in [Keys -> SUBSET Calls]
    /\ expiryQueue \subseteq Nat \X Keys /\ tasks \in Seq(Keys)
    /\ worker \in [Workers -> WorkerStates] /\ call \in [Calls -> CallStates]
    /\ \A w \in Workers : worker[w].pc /= "idle" => worker[w].key \in Keys

\* Worker w runs a lookup of k whose waiters are still in pending.
Runs(w, k) == worker[w].key = k /\ worker[w].pc \in {"lookup", "store", "fail"}

\* No lookup of k; exactly one, queued or running.
NoLookup(k) == (\A w \in Workers : ~Runs(w, k)) /\ \A i \in 1..Len(tasks) : tasks[i] /= k
QueuedOnce(k) == /\ \A w \in Workers : ~Runs(w, k)
                 /\ \E i \in 1..Len(tasks) : tasks[i] = k /\ \A j \in 1..Len(tasks) : tasks[j] = k => j = i
RunningOnce(k) == /\ \A i \in 1..Len(tasks) : tasks[i] /= k
                  /\ \E w \in Workers : Runs(w, k) /\ \A v \in Workers : Runs(v, k) => v = w

LookupOK(k) ==
    /\ pending[k] = {} => (Alive => NoLookup(k))
    /\ pending[k] /= {} => QueuedOnce(k) \/ RunningOnce(k)

\* A call is in pending while it waits, and moves from there to the worker that answers it.
WaitersPlaced ==
    /\ \A k \in Keys : \A c \in pending[k] : call[c].pc = "waiting" /\ call[c].key = k
    /\ \A w \in Workers : \A c \in worker[w].waiters : call[c].pc /= "new" /\ \A k \in Keys : c \notin pending[k]

ResolverInv == ResolverTypes /\ (\A k \in Keys : LookupOK(k)) /\ WaitersPlaced /\ CachedWillExpire

\* What the lookups of key k depend on stays.
LEMMA LookupSame ==
    ASSUME NEW k \in Keys, LookupOK(k), tasks' = tasks, pending'[k] = pending[k], Alive' => Alive,
           \A w \in Workers : Runs(w, k)' <=> Runs(w, k)
    PROVE  LookupOK(k)'
  BY ZenonT(30) DEF LookupOK, NoLookup, QueuedOnce, RunningOnce

\* A call that waits keeps the resolver's State alive.
LEMMA PendingIsAlive ==
    ASSUME ResolverInv, NEW k \in Keys, pending[k] /= {}
    PROVE  Alive
  <1>1. PICK c \in pending[k] : call[c].pc = "waiting"
    BY DEF ResolverInv, WaitersPlaced
  <1>2. c \in Calls
    BY <1>1 DEF ResolverInv, ResolverTypes
  <1> QED BY <1>1, <1>2 DEF Alive, Waiting

\* A call of resolve().
LEMMA ResolveKeeps ==
    ASSUME ResolverInv, NEW c \in Calls, Resolve(c)
    PROVE  ResolverInv'
  <1>k. PICK k : k = call[c].key
    OBVIOUS
  <1>0. /\ ResolverTypes /\ WaitersPlaced /\ k \in Keys /\ call[c] \in CallStates
        /\ call[c].pc = "new" /\ owner = "yes" /\ Alive
    BY <1>k DEF ResolverInv, ResolverTypes, CallStates, Resolve, Alive
  <1>1. UNCHANGED <<time, owner, cache, expiryQueue, worker>>
    BY DEF Resolve
  <1>2. \/ call' = [call EXCEPT ![c].pc = "done"] /\ UNCHANGED <<pending, tasks>>
        \/ /\ call' = [call EXCEPT ![c].pc = "waiting"]
           /\ pending' = [pending EXCEPT ![k] = pending[k] \cup {c}]
           /\ tasks' = IF pending[k] = {} THEN Append(tasks, k) ELSE tasks
    BY <1>k DEF Resolve, PostLookup
  <1>3. /\ call' \in [Calls -> CallStates] /\ call'[c].key = k /\ call'[c].pc \in {"waiting", "done"}
        /\ \A d \in Calls \ {c} : call'[d] = call[d]
        /\ pending' /= pending => call'[c].pc = "waiting"
    <2>1. PICK x \in {"waiting", "done"} : /\ call' = [call EXCEPT ![c] = [call[c] EXCEPT !.pc = x]]
                                           /\ pending' /= pending => x = "waiting"
      BY <1>2
    <2>2. /\ [call[c] EXCEPT !.pc = x] \in CallStates /\ [call[c] EXCEPT !.pc = x].key = k
          /\ [call[c] EXCEPT !.pc = x].pc = x
      BY <1>0, <1>k DEF CallStates
    <2>3. call \in [Calls -> CallStates]
      BY <1>0 DEF ResolverTypes
    <2> QED BY <2>1, <2>2, <2>3
  <1>4. /\ pending' \in [Keys -> SUBSET Calls]
        /\ \A l \in Keys : pending'[l] = pending[l] \/ (l = k /\ pending'[l] = pending[l] \cup {c})
    <2>1. pending \in [Keys -> SUBSET Calls]
      BY <1>0 DEF ResolverTypes
    <2>2. pending' = pending \/ pending' = [pending EXCEPT ![k] = pending[k] \cup {c}]
      BY <1>2
    <2> QED BY <1>0, <2>1, <2>2
  <1>5. tasks' \in Seq(Keys) /\ tasks \in Seq(Keys) /\ (tasks' = tasks \/ tasks' = Append(tasks, k))
    <2>1. tasks \in Seq(Keys)
      BY <1>0 DEF ResolverTypes
    <2>2. tasks' = tasks \/ tasks' = Append(tasks, k)
      BY <1>2
    <2> QED BY <1>0, <2>1, <2>2
  <1>6. ResolverTypes'
    BY <1>0, <1>1, <1>3, <1>4, <1>5 DEF ResolverTypes
  <1>7. ASSUME NEW l \in Keys PROVE LookupOK(l)'
    <2>0. LookupOK(l) /\ \A w \in Workers : Runs(w, l)' <=> Runs(w, l)
      BY <1>1 DEF ResolverInv, Runs
    <2>1. CASE l /= k \/ UNCHANGED <<pending, tasks>>
      <3>1. pending'[l] = pending[l]
        BY <1>4, <2>1
      <3>2. Len(tasks) \in Nat /\ Len(Append(tasks, k)) = Len(tasks) + 1
            /\ (\A i \in 1..Len(tasks) : Append(tasks, k)[i] = tasks[i]) /\ Append(tasks, k)[Len(tasks) + 1] = k
        BY <1>0, <1>5
      <3>3. CASE tasks' = tasks
        BY <1>0, <2>0, <3>1, <3>3, LookupSame
      <3>4. CASE l /= k /\ tasks' = Append(tasks, k)
        <4>1. /\ \A i \in 1..Len(tasks') : tasks'[i] = l => i \in 1..Len(tasks) /\ tasks[i] = l
              /\ \A i \in 1..Len(tasks) : i \in 1..Len(tasks') /\ tasks'[i] = tasks[i]
          BY <3>2, <3>4
        <4>2. NoLookup(l) => NoLookup(l)'
          BY <2>0, <4>1 DEF NoLookup
        <4>3. QueuedOnce(l) => QueuedOnce(l)'
          BY <2>0, <4>1, ZenonT(30) DEF QueuedOnce
        <4>4. RunningOnce(l) => RunningOnce(l)'
          BY <2>0, <4>1 DEF RunningOnce
        <4> QED BY <1>0, <2>0, <3>1, <4>2, <4>3, <4>4, ZenonT(30) DEF LookupOK
      <3> QED BY <1>5, <2>1, <3>3, <3>4
    <2>2. CASE l = k /\ ~UNCHANGED <<pending, tasks>>
      <3>1. /\ pending'[k] = pending[k] \cup {c}
            /\ tasks' = IF pending[k] = {} THEN Append(tasks, k) ELSE tasks
        BY <1>0, <1>2, <2>2 DEF ResolverTypes
      <3>2. CASE pending[k] = {}
        <4>1. NoLookup(k)
          BY <1>0, <2>0, <2>2, <3>2 DEF LookupOK
        <4>2. Len(tasks) \in Nat /\ Len(tasks') = Len(tasks) + 1
              /\ (\A i \in 1..Len(tasks) : tasks'[i] = tasks[i]) /\ tasks'[Len(tasks) + 1] = k
          BY <1>0, <1>5, <3>1, <3>2
        <4>3. QueuedOnce(k)'
          BY <2>0, <2>2, <4>1, <4>2 DEF NoLookup, QueuedOnce
        <4> QED BY <2>2, <3>1, <4>3 DEF LookupOK
      <3>3. CASE pending[k] /= {}
        <4>1. QueuedOnce(k) \/ RunningOnce(k)
          BY <2>0, <2>2, <3>3, ZenonT(30) DEF LookupOK
        <4>2. QueuedOnce(k)' \/ RunningOnce(k)'
          BY <2>0, <2>2, <3>1, <3>3, <4>1, ZenonT(30) DEF QueuedOnce, RunningOnce
        <4> QED BY <2>2, <3>1, <4>2 DEF LookupOK
      <3> QED BY <3>2, <3>3
    <2> QED BY <2>1, <2>2
  <1>8. WaitersPlaced'
    <2>1. ASSUME NEW l \in Keys, NEW d \in pending'[l]
          PROVE  call'[d].pc = "waiting" /\ call'[d].key = l
      <3>1. d \in Calls
        BY <1>4, <2>1
      <3>2. CASE d \in pending[l]
        <4>1. call[d].pc = "waiting" /\ call[d].key = l
          BY <1>0, <3>2 DEF WaitersPlaced
        <4>2. d /= c
          BY <1>0, <4>1
        <4> QED BY <1>3, <3>1, <4>1, <4>2
      <3>3. CASE d \notin pending[l]
        <4>1. d = c /\ l = k /\ pending' /= pending
          BY <1>4, <2>1, <3>3
        <4> QED BY <1>3, <4>1
      <3> QED BY <3>2, <3>3
    <2>2. ASSUME NEW w \in Workers, NEW d \in worker'[w].waiters
          PROVE  call'[d].pc /= "new" /\ \A l \in Keys : d \notin pending'[l]
      <3>1. d \in Calls
        BY <1>0, <1>1, <2>2 DEF ResolverTypes, WorkerStates
      <3>2. call[d].pc /= "new" /\ \A l \in Keys : d \notin pending[l]
        BY <1>0, <1>1, <2>2 DEF WaitersPlaced
      <3>3. d /= c
        BY <1>0, <3>2
      <3> QED BY <1>3, <1>4, <3>1, <3>2, <3>3
    <2> QED BY <2>1, <2>2 DEF WaitersPlaced
  <1>9. CachedWillExpire'
    BY <1>1 DEF ResolverInv, CachedWillExpire
  <1> QED BY <1>6, <1>7, <1>8, <1>9 DEF ResolverInv

\* A thread of the pool takes a lookup.
LEMMA TakeKeeps ==
    ASSUME ResolverInv, NEW w \in Workers, TakeTask(w)
    PROVE  ResolverInv'
  <1>k. PICK k : k = Head(tasks)
    OBVIOUS
  <1>r. PICK r : r = [IdleWorker EXCEPT !.pc = "lookup", !.key = k]
    OBVIOUS
  <1>0. /\ ResolverTypes /\ WaitersPlaced /\ Alive /\ tasks \in Seq(Keys) /\ tasks /= << >>
        /\ worker \in [Workers -> WorkerStates] /\ worker[w].pc = "idle"
        /\ UNCHANGED <<time, owner, cache, pending, expiryQueue, call>>
        /\ tasks' = Tail(tasks)
    BY DEF ResolverInv, ResolverTypes, TakeTask, State
  <1>1. /\ k \in Keys /\ k = tasks[1] /\ Tail(tasks) \in Seq(Keys)
        /\ Len(tasks) \in Nat /\ Len(tasks) >= 1 /\ Len(Tail(tasks)) = Len(tasks) - 1
        /\ \A i \in 1..Len(Tail(tasks)) : Tail(tasks)[i] = tasks[i + 1]
    BY <1>0, <1>k
  <1>2. IdleWorker \in WorkerStates /\ IdleWorker.waiters = {}
    BY DEF IdleWorker, WorkerStates
  <1>3. r \in WorkerStates /\ r.pc = "lookup" /\ r.key = k /\ r.waiters = {}
    BY <1>1, <1>2, <1>r, ZenonT(30) DEF WorkerStates
  <1>4. worker' = [worker EXCEPT ![w] = r]
    BY <1>k, <1>r DEF TakeTask
  <1>5. worker'[w] = r /\ (\A v \in Workers \ {w} : worker'[v] = worker[v]) /\ worker' \in [Workers -> WorkerStates]
    BY <1>0, <1>3, <1>4
  <1>6. ResolverTypes'
    <2>1. \A v \in Workers : worker'[v].pc /= "idle" => worker'[v].key \in Keys
      BY <1>0, <1>1, <1>3, <1>5, ZenonT(30) DEF ResolverTypes
    <2> QED BY <1>0, <1>1, <1>5, <2>1 DEF ResolverTypes
  <1>7. Alive' <=> Alive
    BY <1>0 DEF Alive, Waiting
  <1>8. ASSUME NEW l \in Keys PROVE LookupOK(l)'
    <2>1. \A v \in Workers : Runs(v, l)' <=> (IF v = w THEN l = k ELSE Runs(v, l))
      BY <1>3, <1>5 DEF Runs
    <2>2. ~Runs(w, l) /\ LookupOK(l)
      BY <1>0 DEF Runs, ResolverInv
    <2>3. /\ \A i \in 1..Len(tasks') : i + 1 \in 1..Len(tasks) /\ tasks'[i] = tasks[i + 1]
          /\ \A i \in 1..Len(tasks) : i = 1 \/ (i - 1 \in 1..Len(tasks') /\ tasks'[i - 1] = tasks[i])
      BY <1>0, <1>1
    <2>4. CASE l = k
      <3>1. 1 \in 1..Len(tasks) /\ tasks[1] = l
        BY <1>1, <2>4
      <3>2. QueuedOnce(l)
        BY <1>0, <2>2, <3>1 DEF LookupOK, NoLookup, RunningOnce
      <3>3. pending[l] /= {}
        BY <1>0, <2>2, <3>1, ZenonT(30) DEF LookupOK, NoLookup
      <3>4. \A i \in 1..Len(tasks') : tasks'[i] /= l
        BY <1>1, <2>3, <3>1, <3>2 DEF QueuedOnce
      <3>5. RunningOnce(l)'
        BY <2>1, <2>4, <3>2, <3>4 DEF QueuedOnce, RunningOnce
      <3> QED BY <1>0, <3>3, <3>5 DEF LookupOK
    <2>5. CASE l /= k
      <3>1. \A v \in Workers : Runs(v, l)' <=> Runs(v, l)
        BY <2>1, <2>2, <2>5
      <3>2. NoLookup(l) => NoLookup(l)'
        BY <2>3, <3>1, ZenonT(30) DEF NoLookup
      <3>3. RunningOnce(l) => RunningOnce(l)'
        BY <2>3, <3>1 DEF RunningOnce
      <3>4. ASSUME QueuedOnce(l) PROVE QueuedOnce(l)'
        <4>1. PICK i \in 1..Len(tasks) : tasks[i] = l /\ \A j \in 1..Len(tasks) : tasks[j] = l => j = i
          BY <3>4 DEF QueuedOnce
        <4>2. i /= 1
          BY <1>1, <2>5, <4>1
        <4>3. i - 1 \in 1..Len(tasks') /\ tasks'[i - 1] = l
          BY <2>3, <4>1, <4>2
        <4>4. \A j \in 1..Len(tasks') : tasks'[j] = l => j = i - 1
          <5> SUFFICES ASSUME NEW j \in 1..Len(tasks'), tasks'[j] = l PROVE j = i - 1
            OBVIOUS
          <5>1. j + 1 \in 1..Len(tasks) /\ tasks[j + 1] = l
            BY <2>3
          <5>2. j + 1 = i
            BY <4>1, <5>1
          <5> QED BY <5>2
        <4> QED BY <3>1, <3>4, <4>3, <4>4 DEF QueuedOnce
      <3> QED BY <1>0, <1>7, <2>2, <3>2, <3>3, <3>4, ZenonT(30) DEF LookupOK
    <2> QED BY <2>4, <2>5
  <1>9. WaitersPlaced'
    BY <1>0, <1>3, <1>5 DEF WaitersPlaced
  <1>10. CachedWillExpire'
    BY <1>0 DEF ResolverInv, CachedWillExpire
  <1> QED BY <1>6, <1>8, <1>9, <1>10 DEF ResolverInv

\* A worker's record changes and nothing else: its lookup goes on, or State is gone, or it ends
\* no lookup.
LEMMA WorkerKeeps ==
    ASSUME ResolverInv, NEW w \in Workers, NEW r \in WorkerStates,
           worker' = [worker EXCEPT ![w] = r], r.waiters \subseteq worker[w].waiters,
           r.pc /= "idle" => r.key \in Keys,
           UNCHANGED <<time, owner, cache, pending, expiryQueue, tasks, call>>,
           ~Alive \/ \A k \in Keys : Runs(w, k) <=> r.key = k /\ r.pc \in {"lookup", "store", "fail"}
    PROVE  ResolverInv'
  <1>0. ResolverTypes /\ WaitersPlaced /\ worker \in [Workers -> WorkerStates]
    BY DEF ResolverInv, ResolverTypes
  <1>1. worker'[w] = r /\ (\A v \in Workers \ {w} : worker'[v] = worker[v]) /\ worker' \in [Workers -> WorkerStates]
    BY <1>0
  <1>2. ResolverTypes'
    BY <1>0, <1>1, ZenonT(30) DEF ResolverTypes
  <1>3. Alive' <=> Alive
    BY DEF Alive, Waiting
  <1>4. ASSUME NEW k \in Keys PROVE LookupOK(k)'
    <2>1. CASE ~Alive
      <3>1. pending[k] = {}
        BY <2>1, PendingIsAlive
      <3> QED BY <1>3, <2>1, <3>1, ZenonT(30) DEF LookupOK
    <2>2. CASE Alive
      <3>1. \A v \in Workers : Runs(v, k)' <=> Runs(v, k)
        BY <1>1, <2>2 DEF Runs
      <3> QED BY <1>3, <3>1, LookupSame DEF ResolverInv
    <2> QED BY <2>1, <2>2
  <1>5. WaitersPlaced'
    BY <1>0, <1>1 DEF WaitersPlaced
  <1>6. CachedWillExpire'
    BY DEF ResolverInv, CachedWillExpire
  <1> QED BY <1>2, <1>4, <1>5, <1>6 DEF ResolverInv

\* getaddrinfo() returns.
LEMMA LookupKeeps ==
    ASSUME ResolverInv, NEW w \in Workers, Lookup(w)
    PROVE  ResolverInv'
  <1>0. /\ worker[w] \in WorkerStates /\ worker[w].pc = "lookup" /\ worker[w].key \in Keys /\ time \in Nat
        /\ UNCHANGED <<time, owner, cache, pending, expiryQueue, tasks, call>>
    BY DEF ResolverInv, ResolverTypes, Lookup, State
  <1>1. CASE Alive
    <2>1. PICK x \in {"store", "fail"} :
              worker' = [worker EXCEPT ![w] = [worker[w] EXCEPT !.pc = x, !.now = time]]
      BY <1>1, ZenonT(30) DEF Lookup
    <2>2. PICK r : r = [worker[w] EXCEPT !.pc = x, !.now = time]
      OBVIOUS
    <2>3. r \in WorkerStates /\ r.key = worker[w].key /\ r.pc = x /\ r.waiters = worker[w].waiters
      BY <1>0, <2>1, <2>2, ZenonT(30) DEF WorkerStates
    <2>4. \A k \in Keys : Runs(w, k) <=> r.key = k /\ r.pc \in {"lookup", "store", "fail"}
      BY <1>0, <2>1, <2>3 DEF Runs
    <2> QED BY <1>0, <2>1, <2>2, <2>3, <2>4, WorkerKeeps, ZenonT(30)
  <1>2. CASE ~Alive
    <2>1. worker' = [worker EXCEPT ![w] = IdleWorker]
      BY <1>2 DEF Lookup
    <2>2. /\ IdleWorker \in WorkerStates /\ IdleWorker.pc = "idle" /\ IdleWorker.waiters \subseteq worker[w].waiters
      BY ZenonT(30) DEF IdleWorker, WorkerStates
    <2> QED BY <1>0, <1>2, <2>1, <2>2, WorkerKeeps, ZenonT(30)
  <1> QED BY <1>1, <1>2

\* A lookup ends: its worker takes the waiters of its key, with an answer or an error.
LEMMA EndLookupKeeps ==
    ASSUME ResolverInv, NEW w \in Workers, NEW k \in Keys, NEW x \in {"sweep", "notify"},
           worker[w].pc \in {"store", "fail"}, k = worker[w].key,
           worker' = [worker EXCEPT ![w] = [worker[w] EXCEPT !.pc = x, !.waiters = pending[k]]],
           pending' = [pending EXCEPT ![k] = {}],
           UNCHANGED <<time, owner, tasks, call>>,
           cache' \in [Keys -> Nat], expiryQueue' \subseteq Nat \X Keys, CachedWillExpire'
    PROVE  ResolverInv'
  <1>0. /\ ResolverTypes /\ WaitersPlaced /\ worker \in [Workers -> WorkerStates]
        /\ worker[w] \in WorkerStates /\ pending \in [Keys -> SUBSET Calls]
    BY DEF ResolverInv, ResolverTypes
  <1>r. PICK r : r = [worker[w] EXCEPT !.pc = x, !.waiters = pending[k]]
    OBVIOUS
  <1>1. r \in WorkerStates /\ r.pc = x /\ r.key = k /\ r.waiters = pending[k]
    BY <1>0, <1>r, ZenonT(30) DEF WorkerStates
  <1>2. worker'[w] = r /\ (\A v \in Workers \ {w} : worker'[v] = worker[v]) /\ worker' \in [Workers -> WorkerStates]
    BY <1>0, <1>1, <1>r
  <1>3. /\ pending' \in [Keys -> SUBSET Calls] /\ pending'[k] = {}
        /\ \A l \in Keys \ {k} : pending'[l] = pending[l]
    BY <1>0
  <1>4. ResolverTypes'
    <2>1. \A v \in Workers : worker'[v].pc /= "idle" => worker'[v].key \in Keys
      BY <1>0, <1>1, <1>2 DEF ResolverTypes
    <2> QED BY <1>0, <1>2, <1>3, <2>1 DEF ResolverTypes
  <1>5. Alive' <=> Alive
    BY DEF Alive, Waiting
  <1>6. ASSUME NEW l \in Keys PROVE LookupOK(l)'
    <2>0. LookupOK(l)
      BY DEF ResolverInv
    <2>1. CASE l /= k
      <3>1. \A v \in Workers : Runs(v, l)' <=> Runs(v, l)
        BY <1>1, <1>2, <2>1 DEF Runs
      <3> QED BY <1>3, <1>5, <2>0, <2>1, <3>1, LookupSame
    <2>2. CASE l = k
      <3>1. Runs(w, k) /\ ~Runs(w, k)' /\ \A v \in Workers \ {w} : Runs(v, k)' <=> Runs(v, k)
        BY <1>1, <1>2 DEF Runs
      <3>2. ASSUME Alive PROVE NoLookup(k)'
        <4>1. RunningOnce(k)
          BY <2>0, <2>2, <3>1, <3>2 DEF LookupOK, NoLookup, QueuedOnce
        <4> QED BY <3>1, <4>1 DEF NoLookup, RunningOnce
      <3> QED BY <1>3, <1>5, <2>2, <3>2 DEF LookupOK
    <2> QED BY <2>1, <2>2
  <1>7. WaitersPlaced'
    <2>1. \A l \in Keys : \A c \in pending'[l] : call'[c].pc = "waiting" /\ call'[c].key = l
      BY <1>0, <1>3 DEF WaitersPlaced
    <2>2. ASSUME NEW v \in Workers, NEW c \in worker'[v].waiters
          PROVE  call'[c].pc /= "new" /\ \A l \in Keys : c \notin pending'[l]
      <3>1. CASE v = w
        <4>1. c \in pending[k] /\ call[c].pc = "waiting" /\ call[c].key = k
          BY <1>0, <1>1, <1>2, <2>2, <3>1 DEF WaitersPlaced
        <4>2. \A l \in Keys \ {k} : c \notin pending[l]
          BY <1>0, <4>1 DEF WaitersPlaced
        <4> QED BY <1>3, <4>1, <4>2
      <3>2. CASE v /= w
        BY <1>0, <1>2, <1>3, <2>2, <3>2 DEF WaitersPlaced
      <3> QED BY <3>1, <3>2
    <2> QED BY <2>1, <2>2 DEF WaitersPlaced
  <1> QED BY <1>4, <1>6, <1>7 DEF ResolverInv

\* A failed lookup, and one that is stored.
LEMMA FailKeeps ==
    ASSUME ResolverInv, NEW w \in Workers, Fail(w)
    PROVE  ResolverInv'
  <1>k. PICK k, x : k = worker[w].key /\ x = "notify"
    OBVIOUS
  <1>0. /\ worker[w].pc \in {"store", "fail"} /\ k \in Keys /\ x \in {"sweep", "notify"}
        /\ cache \in [Keys -> Nat] /\ expiryQueue \subseteq Nat \X Keys
        /\ UNCHANGED <<time, owner, cache, expiryQueue, tasks, call>>
        /\ pending' = [pending EXCEPT ![k] = {}]
    BY <1>k DEF ResolverInv, ResolverTypes, Fail
  <1>1. worker' = [worker EXCEPT ![w] = [worker[w] EXCEPT !.pc = x, !.waiters = pending[k]]]
    BY <1>k, ZenonT(30) DEF Fail, ResolverInv, ResolverTypes
  <1>2. CachedWillExpire'
    BY <1>0, ZenonT(30) DEF ResolverInv, CachedWillExpire
  <1>3. cache' \in [Keys -> Nat] /\ expiryQueue' \subseteq Nat \X Keys
    BY <1>0
  <1> QED BY <1>0, <1>1, <1>2, <1>3, <1>k, EndLookupKeeps, ZenonT(30)

LEMMA StoreKeeps ==
    ASSUME ResolverConstant, ResolverInv, NEW w \in Workers, Store(w)
    PROVE  ResolverInv'
  <1>k. PICK k, x, e : k = worker[w].key /\ x = "sweep" /\ e = worker[w].now + Ttl
    OBVIOUS
  <1>0. /\ worker[w] \in WorkerStates /\ cache \in [Keys -> Nat] /\ expiryQueue \subseteq Nat \X Keys
        /\ worker[w].pc \in {"store", "fail"} /\ k \in Keys /\ x \in {"sweep", "notify"}
    BY <1>k DEF ResolverInv, ResolverTypes, Store
  <1>1. /\ cache' = [cache EXCEPT ![k] = e] /\ expiryQueue' = expiryQueue \cup {<<e, k>>}
        /\ pending' = [pending EXCEPT ![k] = {}]
        /\ UNCHANGED <<time, owner, tasks, call>>
    BY <1>k DEF Store, QueueExpiry
  <1>2. worker' = [worker EXCEPT ![w] = [worker[w] EXCEPT !.pc = x, !.waiters = pending[k]]]
    BY <1>k, ZenonT(30) DEF Store, ResolverInv, ResolverTypes
  <1>3. e \in Nat
    BY <1>0, <1>k DEF WorkerStates, ResolverConstant
  <1>4. cache' \in [Keys -> Nat] /\ expiryQueue' \subseteq Nat \X Keys
    BY <1>0, <1>1, <1>3
  <1>5. CachedWillExpire'
    BY <1>0, <1>1 DEF ResolverInv, CachedWillExpire
  <1> QED BY <1>0, <1>1, <1>2, <1>4, <1>5, <1>k, EndLookupKeeps, ZenonT(30)

\* A worker that runs no lookup of pending calls goes on, and calls that are answered stop
\* waiting: the lookups stay as they are.
LEMMA AfterLookup ==
    ASSUME ResolverInv, NEW w \in Workers, NEW r \in WorkerStates,
           worker' = [worker EXCEPT ![w] = r], r.waiters \subseteq worker[w].waiters,
           worker[w].pc \in {"sweep", "notify"}, r.pc \in {"idle", "notify"},
           r.pc /= "idle" => r.key \in Keys,
           UNCHANGED <<time, owner, pending, tasks>>,
           call' \in [Calls -> CallStates],
           \A c \in Calls : call'[c] = call[c]
                            \/ (c \in worker[w].waiters /\ call'[c].pc = "done"),
           cache' \in [Keys -> Nat], expiryQueue' \subseteq Nat \X Keys, CachedWillExpire'
    PROVE  ResolverInv'
  <1>0. /\ ResolverTypes /\ WaitersPlaced /\ worker \in [Workers -> WorkerStates]
        /\ pending \in [Keys -> SUBSET Calls]
    BY ZenonT(30) DEF ResolverInv, ResolverTypes
  <1>1. worker'[w] = r /\ (\A v \in Workers \ {w} : worker'[v] = worker[v]) /\ worker' \in [Workers -> WorkerStates]
    BY <1>0, ZenonT(30)
  <1>2. ResolverTypes'
    <2>1. \A v \in Workers : worker'[v].pc /= "idle" => worker'[v].key \in Keys
      BY <1>0, <1>1, ZenonT(30) DEF ResolverTypes
    <2> QED BY <1>0, <1>1, <2>1, ZenonT(30) DEF ResolverTypes
  <1>3. Alive' => Alive
    BY DEF Alive, Waiting
  <1>4. ASSUME NEW k \in Keys PROVE LookupOK(k)'
    <2>1. \A v \in Workers : Runs(v, k)' <=> Runs(v, k)
      BY <1>1 DEF Runs
    <2> QED BY <1>3, <2>1, LookupSame, ZenonT(30) DEF ResolverInv
  <1>5. WaitersPlaced'
    <2>1. ASSUME NEW k \in Keys, NEW c \in pending[k]
          PROVE  call'[c].pc = "waiting" /\ call'[c].key = k
      <3>1. c \in Calls /\ c \notin worker[w].waiters /\ call[c].pc = "waiting" /\ call[c].key = k
        BY <1>0, ZenonT(30) DEF WaitersPlaced
      <3> QED BY <3>1
    <2>2. ASSUME NEW v \in Workers, NEW c \in worker'[v].waiters
          PROVE  call'[c].pc /= "new" /\ \A k \in Keys : c \notin pending[k]
      <3>1. c \in worker[v].waiters
        BY <1>1
      <3>2. c \in Calls
        BY <1>0, <3>1 DEF WorkerStates
      <3> QED BY <1>0, <3>1, <3>2, ZenonT(30) DEF WaitersPlaced
    <2> QED BY <2>1, <2>2 DEF WaitersPlaced
  <1> QED BY <1>2, <1>4, <1>5 DEF ResolverInv

\* What a sweep drops from the expiry queue it drops from the cache.
LEMMA SweepKeeps ==
    ASSUME ResolverInv, NEW w \in Workers, Sweep(w)
    PROVE  ResolverInv'
  <1>r. PICK n, r : n = worker[w].now /\ r = [worker[w] EXCEPT !.pc = "notify"]
    BY ZenonT(30)
  <1>0. /\ worker[w] \in WorkerStates /\ worker \in [Workers -> WorkerStates] /\ worker[w].pc = "sweep"
        /\ worker[w].key \in Keys /\ call \in [Calls -> CallStates]
        /\ cache \in [Keys -> Nat] /\ expiryQueue \subseteq Nat \X Keys
        /\ UNCHANGED <<time, owner, pending, tasks, call>>
    BY DEF ResolverInv, ResolverTypes, Sweep
  <1>1. r \in WorkerStates /\ r.pc = "notify" /\ r.key = worker[w].key /\ r.waiters = worker[w].waiters
    BY <1>0, <1>r DEF WorkerStates
  <1>2. worker' = [worker EXCEPT ![w] = r]
    BY <1>r DEF Sweep
  <1> DEFINE gone == {e \in expiryQueue : e[1] <= n}
  <1>3. \/ UNCHANGED <<expiryQueue, cache>>
        \/ /\ expiryQueue' = expiryQueue \ gone
           /\ cache' = [k \in Keys |-> IF cache[k] <= n /\ \E e \in gone : e[2] = k THEN 0 ELSE cache[k]]
    BY <1>r DEF Sweep
  <1>4. cache' \in [Keys -> Nat] /\ expiryQueue' \subseteq Nat \X Keys
    BY <1>0, <1>3
  <1>5. CachedWillExpire'
    <2> SUFFICES ASSUME NEW k \in Keys, cache'[k] /= 0 PROVE <<cache'[k], k>> \in expiryQueue'
      BY DEF CachedWillExpire
    <2>1. cache'[k] = cache[k]
      BY <1>3
    <2>2. <<cache[k], k>> \in expiryQueue
      BY <2>1 DEF ResolverInv, CachedWillExpire
    <2>3. CASE UNCHANGED <<expiryQueue, cache>>
      BY <2>1, <2>2, <2>3
    <2>4. CASE /\ expiryQueue' = expiryQueue \ gone
               /\ cache' = [l \in Keys |-> IF cache[l] <= n /\ \E e \in gone : e[2] = l THEN 0 ELSE cache[l]]
      <3>1. <<cache[k], k>>[1] = cache[k] /\ <<cache[k], k>>[2] = k
        OBVIOUS
      <3>2. ASSUME <<cache[k], k>> \in gone PROVE FALSE
        <4>1. cache[k] <= n /\ \E e \in gone : e[2] = k
          BY <3>1, <3>2
        <4> QED BY <2>4, <4>1
      <3> QED BY <2>1, <2>2, <2>4, <3>2
    <2> QED BY <1>3, <2>3, <2>4
  <1> QED BY <1>0, <1>1, <1>2, <1>4, <1>5, AfterLookup, ZenonT(30)

\* Every waiter a worker took is answered.
LEMMA NotifyKeeps ==
    ASSUME ResolverInv, NEW w \in Workers, Notify(w)
    PROVE  ResolverInv'
  <1>r. PICK r : r = IdleWorker
    OBVIOUS
  <1>0. /\ worker \in [Workers -> WorkerStates] /\ worker[w].pc = "notify" /\ call \in [Calls -> CallStates]
        /\ cache \in [Keys -> Nat] /\ expiryQueue \subseteq Nat \X Keys
        /\ UNCHANGED <<time, owner, cache, pending, expiryQueue, tasks>>
        /\ worker' = [worker EXCEPT ![w] = r]
    BY <1>r DEF ResolverInv, ResolverTypes, Notify, State
  <1>1. r \in WorkerStates /\ r.pc = "idle" /\ r.waiters = {}
    BY <1>r DEF IdleWorker, WorkerStates
  <1>2. \A c \in Calls : call[c] \in CallStates /\ [call[c] EXCEPT !.pc = "done"] \in CallStates
                         /\ [call[c] EXCEPT !.pc = "done"].pc = "done"
    BY <1>0 DEF CallStates
  <1>3. call' = [c \in Calls |-> IF c \in worker[w].waiters THEN [call[c] EXCEPT !.pc = "done"] ELSE call[c]]
    BY DEF Notify, Answers
  <1>4. call' \in [Calls -> CallStates]
    BY <1>2, <1>3
  <1>5. \A c \in Calls : call'[c] = call[c] \/ (c \in worker[w].waiters /\ call'[c].pc = "done")
    BY <1>2, <1>3
  <1>6. CachedWillExpire' /\ cache' \in [Keys -> Nat] /\ expiryQueue' \subseteq Nat \X Keys
    BY <1>0 DEF ResolverInv, CachedWillExpire
  <1> QED BY <1>0, <1>1, <1>4, <1>5, <1>6, AfterLookup, ZenonT(30)

\* The clock ticks, or the resolver object is destroyed.
LEMMA OwnerKeeps ==
    ASSUME ResolverInv, time' \in Nat, owner' \in {"yes", "no"}, owner' = owner \/ owner' = "no",
           UNCHANGED <<cache, pending, expiryQueue, tasks, worker, call>>
    PROVE  ResolverInv'
  <1>1. ResolverTypes'
    BY DEF ResolverInv, ResolverTypes
  <1>2. Alive' => Alive
    BY DEF Alive, Waiting
  <1>3. ASSUME NEW k \in Keys PROVE LookupOK(k)'
    <2>1. \A v \in Workers : Runs(v, k)' <=> Runs(v, k)
      BY DEF Runs
    <2> QED BY <1>2, <2>1, LookupSame DEF ResolverInv
  <1>4. WaitersPlaced' /\ CachedWillExpire'
    BY DEF ResolverInv, WaitersPlaced, CachedWillExpire
  <1> QED BY <1>1, <1>3, <1>4 DEF ResolverInv

\* DnsResolver: calls of resolve() that wait for one name share one lookup, queued or running,
\* and a cached answer has its place in the expiry queue, whatever the workers, the sweeps and
\* the destruction of the resolver interleave to.
THEOREM ResolverSafeHolds == ASSUME ResolverConstant PROVE ResolverSpec => []ResolverSafe
  <1>1. ResolverInit => ResolverInv
    <2> SUFFICES ASSUME ResolverInit PROVE ResolverInv
      OBVIOUS
    <2>0. IdleWorker \in WorkerStates /\ IdleWorker.pc = "idle" /\ IdleWorker.waiters = {}
      BY DEF IdleWorker, WorkerStates
    <2>1. call \in [Calls -> CallStates]
      BY DEF ResolverInit, CallStates
    <2>2. ResolverTypes
      BY <2>0, <2>1 DEF ResolverInit, ResolverTypes
    <2>3. ASSUME NEW k \in Keys PROVE LookupOK(k)
      BY <2>0 DEF ResolverInit, LookupOK, NoLookup, Runs
    <2>4. WaitersPlaced /\ CachedWillExpire
      BY <2>0 DEF ResolverInit, WaitersPlaced, CachedWillExpire
    <2> QED BY <2>2, <2>3, <2>4 DEF ResolverInv
  <1>2. ResolverInv /\ [ResolverNext]_(resolverVars) => ResolverInv'
    <2> SUFFICES ASSUME ResolverInv, [ResolverNext]_(resolverVars) PROVE ResolverInv'
      OBVIOUS
    <2>0. time \in Nat /\ owner \in {"yes", "no"}
      BY DEF ResolverInv, ResolverTypes
    <2>1. CASE Tick
      BY <2>0, <2>1, OwnerKeeps DEF Tick, State
    <2>2. CASE Destroy
      BY <2>0, <2>2, OwnerKeeps DEF Destroy, State
    <2>3. CASE WorkerStep
      BY <2>3, TakeKeeps, LookupKeeps, StoreKeeps, SweepKeeps, FailKeeps, NotifyKeeps DEF WorkerStep
    <2>4. CASE UNCHANGED resolverVars
      BY <2>0, <2>4, OwnerKeeps DEF resolverVars, State
    <2> QED BY <2>1, <2>2, <2>3, <2>4, ResolveKeeps DEF ResolverNext
  <1>3. ResolverInv => ResolverSafe
    <2> SUFFICES ASSUME ResolverInv, NEW k \in Keys
                 PROVE  LET running == {w \in Workers : worker[w].key = k /\ worker[w].pc \in {"lookup", "store", "fail"}}
                            queued  == {i \in DOMAIN tasks : tasks[i] = k}
                        IN  IF pending[k] = {} THEN Alive => running = {} /\ queued = {}
                            ELSE \/ \E i \in queued : queued = {i} /\ running = {}
                                 \/ \E w \in running : queued = {} /\ running = {w}
      BY DEF ResolverInv, ResolverSafe, OneLookupPerKey
    <2>0. DOMAIN tasks = 1..Len(tasks) /\ LookupOK(k)
      BY DEF ResolverInv, ResolverTypes
    <2> DEFINE running == {w \in Workers : worker[w].key = k /\ worker[w].pc \in {"lookup", "store", "fail"}}
               queued  == {i \in DOMAIN tasks : tasks[i] = k}
    <2>1. NoLookup(k) => running = {} /\ queued = {}
      BY <2>0, ZenonT(30) DEF NoLookup, Runs
    <2>2. QueuedOnce(k) => \E i \in queued : queued = {i} /\ running = {}
      BY <2>0 DEF QueuedOnce, Runs
    <2>3. RunningOnce(k) => \E w \in running : queued = {} /\ running = {w}
      BY <2>0 DEF RunningOnce, Runs
    <2> QED BY <2>0, <2>1, <2>2, <2>3, ZenonT(30) DEF LookupOK
  <1> QED BY <1>1, <1>2, <1>3, PTL DEF ResolverSpec

=============================================================================
