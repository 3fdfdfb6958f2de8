----------------------------- MODULE SyncProofs -----------------------------
(***************************************************************************)
(* Proofs about the ways in which coroutines wait for each other, for any  *)
(* number of them.                                                         *)
(***************************************************************************)
EXTENDS SyncParts, Naturals, Sequences, TLAPS

-----------------------------------------------------------------------------
\* withTimeout().  The inductive invariant says of each level who owes the caller its one
\* resumption, and how the coroutine of one level is the caller of the next.

One(b) == IF b THEN 1 ELSE 0

\* A caller whose race is decided is owed one resumption: by the winner or in the queue.
Owed(i) == One(inner[i] = "won") + One(timer[i] = "won") + scheduled[i]
              = One(caller[i] = "suspended" /\ done[i] = "yes")

\* What is stored and marked before the caller can be resumed.
Level(i) ==
    /\ Owed(i)
    /\ caller[i] = "running" <=> inner[i] = "none"
    /\ caller[i] = "running" <=> timer[i] = "none"
    /\ caller[i] = "running" => done[i] = "no"
    /\ done[i] = "no" => inner[i] \notin {"won", "ended"} /\ caller[i] /= "resumed"
    /\ inner[i] \in {"race", "won", "ended"} => stored[i] /= "empty"
    /\ timedOut[i] = "yes" => inner[i] /= "won" /\ done[i] = "yes"
    /\ scheduled[i] > 0 => timedOut[i] = "yes" \/ stored[i] /= "empty"
    /\ outcome[i] /= "empty"

\* The caller of level i + 1 is timeoutInner of level i.
Nested(i) ==
    /\ caller[i + 1] = "running" <=> inner[i] \in {"none", "spawned"}
    /\ caller[i + 1] = "suspended" <=> inner[i] = "awaiting"

TimeoutInv ==
    /\ T!TypeOK
    /\ \A i \in T!Levels : Level(i)
    /\ \A i \in T!Levels : i + 1 \in T!Levels => Nested(i)

\* The invariant holds before anybody awaits.
LEMMA TimeoutInit == Depth \in Nat \ {0} /\ T!Init => TimeoutInv
BY DEF T!Init, TimeoutInv, T!TypeOK, Level, Nested, Owed, One, T!Levels

\* Every step of a level, and of the operation, keeps the invariant.
LEMMA TimeoutNext == Depth \in Nat \ {0} /\ TimeoutInv /\ [T!Next]_(T!vars) => TimeoutInv'
<1> SUFFICES ASSUME Depth \in Nat \ {0}, TimeoutInv, [T!Next]_(T!vars) PROVE TimeoutInv'
  OBVIOUS
<1>d. Depth \in T!Levels /\ \A i \in T!Levels : i \in Nat /\ 1 <= i /\ i <= Depth /\ (i > 1 => i - 1 \in T!Levels)
  BY DEF T!Levels
<1>1. ASSUME NEW i \in T!Levels, T!AwaitSuspend(i) PROVE TimeoutInv'
  <2>1. T!TypeOK'
    BY <1>1, <1>d DEF T!AwaitSuspend, T!CanAwait, TimeoutInv, T!TypeOK
  <2>2. ASSUME NEW j \in T!Levels PROVE Level(j)'
    <3>1. Level(j) /\ Level(i) /\ T!TypeOK
      BY DEF TimeoutInv
    <3>2. CASE j = i
      BY <1>1, <3>1, <3>2 DEF T!AwaitSuspend, T!CanAwait, T!TypeOK, Level, Owed, One
    <3>3. CASE j /= i
      BY <1>1, <1>d, <3>1, <3>3 DEF T!AwaitSuspend, T!CanAwait, T!TypeOK, Level, Owed, One
    <3> QED BY <3>2, <3>3
  <2>3. ASSUME NEW j \in T!Levels, j + 1 \in T!Levels PROVE Nested(j)'
    BY <1>1, <1>d, <2>3 DEF T!AwaitSuspend, T!CanAwait, TimeoutInv, T!TypeOK, Nested, Level
  <2> QED BY <2>1, <2>2, <2>3 DEF TimeoutInv
<1>2. CASE T!OpStart
  <2>1. T!TypeOK'
    BY <1>2, <1>d DEF T!OpStart, TimeoutInv, T!TypeOK
  <2>2. ASSUME NEW j \in T!Levels PROVE Level(j)'
    BY <1>2, <1>d DEF T!OpStart, TimeoutInv, T!TypeOK, Level, Owed, One
  <2>3. ASSUME NEW j \in T!Levels, j + 1 \in T!Levels PROVE Nested(j)'
    BY <1>2, <1>d, <2>3 DEF T!OpStart, TimeoutInv, T!TypeOK, Nested, Level
  <2> QED BY <2>1, <2>2, <2>3 DEF TimeoutInv
<1>3. CASE T!OpEnd
  <2>1. T!TypeOK'
    BY <1>3, <1>d DEF T!OpEnd, T!InnerStore, TimeoutInv, T!TypeOK
  <2>2. ASSUME NEW j \in T!Levels PROVE Level(j)'
    BY <1>3, <1>d DEF T!OpEnd, T!InnerStore, TimeoutInv, T!TypeOK, Level, Owed, One
  <2>3. ASSUME NEW j \in T!Levels, j + 1 \in T!Levels PROVE Nested(j)'
    BY <1>3, <1>d, <2>3 DEF T!OpEnd, T!InnerStore, TimeoutInv, T!TypeOK, Nested, Level
  <2> QED BY <2>1, <2>2, <2>3 DEF TimeoutInv
<1>4. ASSUME NEW i \in T!Levels, T!InnerRace(i) PROVE TimeoutInv'
  <2>1. T!TypeOK'
    BY <1>4 DEF T!InnerRace, TimeoutInv, T!TypeOK
  <2>2. ASSUME NEW j \in T!Levels PROVE Level(j)'
    BY <1>4 DEF T!InnerRace, TimeoutInv, T!TypeOK, Level, Owed, One
  <2>3. ASSUME NEW j \in T!Levels, j + 1 \in T!Levels PROVE Nested(j)'
    BY <1>4, <2>3 DEF T!InnerRace, TimeoutInv, T!TypeOK, Nested, Level
  <2> QED BY <2>1, <2>2, <2>3 DEF TimeoutInv
<1>5. ASSUME NEW i \in T!Levels, T!InnerSchedule(i) PROVE TimeoutInv'
  <2>1. T!TypeOK'
    BY <1>5 DEF T!InnerSchedule, TimeoutInv, T!TypeOK
  <2>2. ASSUME NEW j \in T!Levels PROVE Level(j)'
    BY <1>5 DEF T!InnerSchedule, TimeoutInv, T!TypeOK, Level, Owed, One
  <2>3. ASSUME NEW j \in T!Levels, j + 1 \in T!Levels PROVE Nested(j)'
    BY <1>5, <2>3 DEF T!InnerSchedule, TimeoutInv, T!TypeOK, Nested, Level
  <2> QED BY <2>1, <2>2, <2>3 DEF TimeoutInv
<1>6. ASSUME NEW i \in T!Levels, T!TimerRace(i) PROVE TimeoutInv'
  <2>1. T!TypeOK'
    BY <1>6 DEF T!TimerRace, TimeoutInv, T!TypeOK
  <2>2. ASSUME NEW j \in T!Levels PROVE Level(j)'
    <3>1. Level(j) /\ Level(i) /\ T!TypeOK
      BY DEF TimeoutInv
    <3>2. CASE j = i
      BY <1>6, <3>1, <3>2 DEF T!TimerRace, T!TypeOK, Level, Owed, One
    <3>3. CASE j /= i
      BY <1>6, <3>1, <3>3 DEF T!TimerRace, T!TypeOK, Level, Owed, One
    <3> QED BY <3>2, <3>3
  <2>3. ASSUME NEW j \in T!Levels, j + 1 \in T!Levels PROVE Nested(j)'
    BY <1>6, <2>3 DEF T!TimerRace, TimeoutInv, T!TypeOK, Nested, Level
  <2> QED BY <2>1, <2>2, <2>3 DEF TimeoutInv
<1>7. ASSUME NEW i \in T!Levels, T!TimerSchedule(i) PROVE TimeoutInv'
  <2>1. T!TypeOK'
    BY <1>7 DEF T!TimerSchedule, TimeoutInv, T!TypeOK
  <2>2. ASSUME NEW j \in T!Levels PROVE Level(j)'
    BY <1>7 DEF T!TimerSchedule, TimeoutInv, T!TypeOK, Level, Owed, One
  <2>3. ASSUME NEW j \in T!Levels, j + 1 \in T!Levels PROVE Nested(j)'
    BY <1>7, <2>3 DEF T!TimerSchedule, TimeoutInv, T!TypeOK, Nested, Level
  <2> QED BY <2>1, <2>2, <2>3 DEF TimeoutInv
<1>8. ASSUME NEW i \in T!Levels, T!AwaitResume(i) PROVE TimeoutInv'
  <2>1. caller[i] = "suspended" /\ scheduled[i] = 1 /\ done[i] = "yes"
    <3>1. T!TypeOK /\ Owed(i) /\ scheduled[i] > 0
      BY <1>8 DEF T!AwaitResume, TimeoutInv, Level
    <3> QED BY <3>1 DEF T!TypeOK, Owed, One
  <2>2. T!Outcome(i) \in {"timeout", "value", "exception"}
    BY <2>1 DEF T!Outcome, TimeoutInv, T!TypeOK, Level
  <2>3. ASSUME i > 1 PROVE inner[i - 1] = "awaiting" /\ i - 1 \in T!Levels
    BY <2>1, <2>3 DEF TimeoutInv, Nested, T!Levels
  <2>4. T!TypeOK'
    BY <1>8, <2>1, <2>2, <2>3 DEF T!AwaitResume, T!InnerStore, TimeoutInv, T!TypeOK
  <2>5. ASSUME NEW j \in T!Levels PROVE Level(j)'
    <3>1. CASE j = i
      BY <1>8, <2>1, <2>2, <3>1 DEF T!AwaitResume, T!InnerStore, TimeoutInv, T!TypeOK, Level, Owed, One
    <3>2. CASE j = i - 1
      BY <1>8, <2>3, <3>2 DEF T!AwaitResume, T!InnerStore, TimeoutInv, T!TypeOK, Level, Owed, One
    <3>3. CASE j /= i /\ j /= i - 1
      BY <1>8, <3>3 DEF T!AwaitResume, T!InnerStore, TimeoutInv, T!TypeOK, Level, Owed, One
    <3> QED BY <3>1, <3>2, <3>3
  <2>6. ASSUME NEW j \in T!Levels, j + 1 \in T!Levels PROVE Nested(j)'
    <3>1. Nested(j) /\ T!TypeOK
      BY <2>6 DEF TimeoutInv
    <3>2. CASE j = i - 1
      BY <1>8, <1>d, <2>6, <3>1, <3>2 DEF T!AwaitResume, T!InnerStore, T!TypeOK, Nested
    <3>3. CASE j /= i - 1
      BY <1>8, <1>d, <2>6, <3>1, <3>3 DEF T!AwaitResume, T!InnerStore, T!TypeOK, Nested
    <3> QED BY <3>2, <3>3
  <2> QED BY <2>4, <2>5, <2>6 DEF TimeoutInv
<1>9. CASE UNCHANGED T!vars
  BY <1>9 DEF T!vars, TimeoutInv, T!TypeOK, Level, Nested, Owed, One
<1> QED BY <1>1, <1>2, <1>3, <1>4, <1>5, <1>6, <1>7, <1>8, <1>9 DEF T!Next, T!Step

\* withTimeout(), for any depth of nesting: of the two coroutines that hold a caller's handle one
\* resumes it, once (Timeout.h:56 and :84), and it sees the timeout or a result that is there.
THEOREM TimeoutSafeHolds == ASSUME Depth \in Nat \ {0} PROVE T!Spec => []TimeoutSafe
<1>1. TimeoutInv => TimeoutSafe
  BY DEF TimeoutInv, Level, Owed, One, T!TypeOK, TimeoutSafe, T!ResumedOnce, T!ResultIsThere,
         T!WinnerDecides, T!Outcome, T!Levels
<1> QED BY TimeoutInit, TimeoutNext, <1>1, PTL DEF T!Spec

-----------------------------------------------------------------------------
\* Future and Promise.  The inductive invariant says that the suspended awaiters are the nodes of
\* the one list there is, which belongs to waiters_ until a caller has closed it, and to that
\* caller's resumeAll() from then on.

\* What tells the promise's two sentinels, its destructor and its awaiters apart.
FutureConstants == Nil \notin Waiters /\ Closed \notin Waiters /\ Nil # Closed /\ Dtor \notin Setters

Suspended == {w \in Waiters : wpc[w] = "suspended"}

\* The list: its nodes are suspended, and no node comes after itself.
Listed ==
    /\ F!Reachable(head) \subseteq Suspended
    /\ \A s \in F!Callers : F!Reachable(n[s]) \subseteq Suspended
    /\ \A w \in Suspended : w \notin F!Reachable(next[w])
    /\ \A w \in Suspended : w \in F!Reachable(head) \/ \E s \in F!Callers : w \in F!Reachable(n[s])

\* One caller closes the list, and only that one holds it.
OneCloser ==
    /\ head # Closed => result = "empty" /\ \A s \in F!Callers : n[s] = Nil /\ spc[s] \in {"idle", "close"}
    /\ \A s, t \in F!Callers : spc[s] \in {"store", "resumeAll"} /\ spc[t] \in {"store", "resumeAll"} => s = t
    /\ \A s \in F!Callers : n[s] # Nil => spc[s] \in {"store", "resumeAll"}
    /\ \A s \in F!Callers : spc[s] = "store" => result = "empty"

\* A coroutine is scheduled after the result is there, and its node lives until it has run.
Resumed ==
    /\ \A s \in F!Callers : spc[s] = "resumeAll" => result # "empty"
    /\ \A w \in Waiters : wpc[w] \notin {"woken", "done"} => w \in live
    /\ \A w \in Waiters : wpc[w] = "scheduled" => result # "empty"
    /\ \A w \in Waiters : wpc[w] = "woken" => got[w] # "empty"

FutureInv == F!TypeOK /\ Listed /\ OneCloser /\ Resumed

\* A chain holds its start and is closed under the links.
LEMMA ChainFollows == ASSUME NEW nx, NEW m
                      PROVE  F!Chain(nx, m) \subseteq Waiters /\ F!Follows(nx, m, F!Chain(nx, m))
BY DEF F!Chain, F!Follows

\* It is the smallest such set.
LEMMA ChainLeast == ASSUME NEW nx, NEW m, NEW D \in SUBSET Waiters, F!Follows(nx, m, D)
                    PROVE  F!Chain(nx, m) \subseteq D
BY DEF F!Chain

\* From a sentinel there is nothing.
LEMMA ChainEmpty == ASSUME NEW nx, NEW m, m \notin Waiters PROVE F!Chain(nx, m) = {}
<1>1. F!Follows(nx, m, {})
  BY DEF F!Follows
<1> QED BY <1>1, ChainLeast

\* From a node there is that node and the chain of its next_.
LEMMA ChainStep == ASSUME NEW nx, NEW m \in Waiters PROVE F!Chain(nx, m) = {m} \union F!Chain(nx, nx[m])
<1> DEFINE X == F!Chain(nx, m)
           Y == F!Chain(nx, nx[m])
<1>1. X \subseteq Waiters /\ Y \subseteq Waiters /\ F!Follows(nx, m, X) /\ F!Follows(nx, nx[m], Y)
  BY ChainFollows
<1>2. F!Follows(nx, nx[m], X) /\ m \in X
  BY <1>1 DEF F!Follows
<1>3. Y \subseteq X
  BY <1>1, <1>2, ChainLeast
<1>4. F!Follows(nx, m, {m} \union Y)
  BY <1>1 DEF F!Follows
<1>5. X \subseteq {m} \union Y
  BY <1>1, <1>4, ChainLeast
<1> QED BY <1>2, <1>3, <1>5

\* A link that is not in a chain does not matter to it.
LEMMA ChainLocal == ASSUME NEW nx, NEW ny, NEW m, NEW w, w \notin F!Chain(nx, m),
                           \A d \in Waiters : d # w => ny[d] = nx[d]
                    PROVE  F!Chain(ny, m) = F!Chain(nx, m)
<1> DEFINE X == F!Chain(nx, m)
           Y == F!Chain(ny, m)
<1>1. X \subseteq Waiters /\ Y \subseteq Waiters /\ F!Follows(nx, m, X) /\ F!Follows(ny, m, Y)
  BY ChainFollows
<1>2. F!Follows(ny, m, X)
  BY <1>1 DEF F!Follows
<1>3. Y \subseteq X
  BY <1>1, <1>2, ChainLeast
<1>4. F!Follows(nx, m, Y)
  BY <1>1, <1>3 DEF F!Follows
<1>5. X \subseteq Y
  BY <1>1, <1>4, ChainLeast
<1> QED BY <1>3, <1>5

\* Nobody awaits and nobody has set a result.
LEMMA FutureInit == FutureConstants /\ F!Init => FutureInv
<1> SUFFICES ASSUME FutureConstants, F!Init PROVE FutureInv
  OBVIOUS
<1>1. F!TypeOK /\ OneCloser /\ Resumed
  BY DEF F!Init, F!TypeOK, F!Results, F!Callers, OneCloser, Resumed, FutureConstants
<1>2. Suspended = {} /\ F!Reachable(head) = {} /\ \A s \in F!Callers : F!Reachable(n[s]) = {}
  BY ChainEmpty DEF F!Init, F!Reachable, Suspended, FutureConstants
<1> QED BY <1>1, <1>2 DEF FutureInv, Listed

\* Steps that change no link, no list and no suspended awaiter keep the list.
LEMMA ListStays == ASSUME Listed, UNCHANGED <<head, next, n>>, Suspended' = Suspended PROVE Listed'
BY DEF Listed, F!Reachable, F!Callers

\* A co_await that is not suspended and does not become so.
LEMMA WaiterKeeps ==
    ASSUME FutureConstants, FutureInv, NEW w \in Waiters,
           F!AwaitReady(w) \/ F!PushLoad(w) \/ F!PushClosed(w) \/ F!AwaitResume(w)
    PROVE  FutureInv'
<1>1. F!TypeOK'
  BY DEF FutureInv, F!TypeOK, F!AwaitReady, F!PushLoad, F!PushClosed, F!AwaitResume, F!Callers
<1>2. Suspended' = Suspended /\ UNCHANGED <<head, next, n, spc, result>>
  BY DEF FutureInv, F!TypeOK, F!AwaitReady, F!PushLoad, F!PushClosed, F!AwaitResume, Suspended
<1>3. Listed'
  BY <1>2, ListStays DEF FutureInv
<1>4. OneCloser'
  BY <1>2 DEF FutureInv, OneCloser, F!Callers
<1>5. Resumed'
  BY <1>2 DEF FutureInv, F!TypeOK, Resumed, F!Callers, F!AwaitReady, F!PushLoad, F!PushClosed, F!AwaitResume
<1> QED BY <1>1, <1>3, <1>4, <1>5 DEF FutureInv

\* push(): the node is not in any list when its next_ is set, and becomes the first of waiters_.
LEMMA PushKeeps == ASSUME FutureConstants, FutureInv, NEW w \in Waiters, F!PushCas(w) PROVE FutureInv'
<1>1. F!TypeOK'
  BY DEF FutureInv, F!TypeOK, F!PushCas, F!Callers, FutureConstants
<1>2. UNCHANGED <<n, spc, result, live, got>> /\ w \notin Suspended
  BY DEF FutureInv, F!TypeOK, F!PushCas, Suspended
<1>3. \A d \in Waiters : d # w => next'[d] = next[d]
  BY DEF FutureInv, F!TypeOK, F!PushCas
<1>4. ASSUME NEW m, F!Chain(next, m) \subseteq Suspended PROVE F!Chain(next', m) = F!Chain(next, m)
  BY <1>2, <1>3, <1>4, ChainLocal
<1>5. F!Chain(next, head) \subseteq Suspended /\ \A s \in F!Callers : F!Chain(next, n[s]) \subseteq Suspended
  BY DEF FutureInv, Listed, F!Reachable
<1>6. F!Chain(next', head) = F!Chain(next, head) /\ \A s \in F!Callers : F!Chain(next', n[s]) = F!Chain(next, n[s])
  BY <1>4, <1>5
<1>7. ASSUME NEW x \in Suspended PROVE F!Chain(next', next'[x]) \subseteq F!Chain(next, next[x])
  <2>1. x # w /\ x \in Waiters
    BY <1>2, <1>7 DEF Suspended
  <2>2. next'[x] = next[x]
    BY <2>1, <1>3
  <2>3. \E m : x \in F!Chain(next, m) /\ F!Chain(next, m) \subseteq Suspended
    BY <1>5, <1>7 DEF FutureInv, Listed, F!Reachable
  <2>4. PICK m : x \in F!Chain(next, m) /\ F!Chain(next, m) \subseteq Suspended
    BY <2>3
  <2>5. F!Follows(next, next[x], F!Chain(next, m)) /\ F!Chain(next, m) \subseteq Waiters
    BY <2>4, ChainFollows DEF F!Follows
  <2>6. F!Chain(next, next[x]) \subseteq Suspended
    BY <2>4, <2>5, ChainLeast
  <2> QED BY <1>4, <2>2, <2>6
<1>8. Listed'
  <2>1. CASE head' = head /\ wpc' = wpc
    <3>1. Suspended' = Suspended
      BY <2>1 DEF Suspended
    <3> QED BY <1>2, <1>6, <1>7, <2>1, <3>1 DEF FutureInv, Listed, F!Reachable, F!Callers
  <2>2. CASE head = cur[w] /\ head' = w /\ wpc' = [wpc EXCEPT ![w] = "suspended"]
    <3>1. Suspended' = Suspended \union {w}
      BY <2>2 DEF FutureInv, F!TypeOK, Suspended
    <3>2. next'[w] = head
      BY <2>2 DEF FutureInv, F!TypeOK, F!PushCas
    <3>3. F!Chain(next', head') = {w} \union F!Chain(next, head)
      BY <1>6, <2>2, <3>2, ChainStep
    <3>4. w \notin F!Chain(next', next'[w])
      BY <1>2, <1>5, <1>6, <3>2
    <3>5. \A s \in F!Callers : F!Chain(next', n'[s]) = F!Chain(next, n[s])
      BY <1>2, <1>6
    <3>6. \A x \in Suspended' : x \notin F!Chain(next', next'[x])
      BY <1>7, <3>1, <3>4 DEF FutureInv, Listed, F!Reachable
    <3> QED BY <3>1, <3>3, <3>5, <3>6 DEF FutureInv, Listed, F!Reachable, F!Callers
  <2> QED BY <2>1, <2>2 DEF F!PushCas
<1>9. OneCloser' /\ Resumed'
  <2>1. head # Closed \/ head' = head
    BY DEF F!PushCas
  <2>2. OneCloser'
    BY <1>2, <2>1 DEF FutureInv, OneCloser, F!Callers
  <2>3. Resumed'
    BY <1>2 DEF FutureInv, F!TypeOK, Resumed, F!Callers, F!PushCas
  <2> QED BY <2>2, <2>3
<1> QED BY <1>1, <1>8, <1>9 DEF FutureInv

\* close() hands the list over to the caller that finds it open.
LEMMA CloseKeeps == ASSUME FutureConstants, FutureInv, NEW s \in F!Callers, F!Close(s) PROVE FutureInv'
<1>1. F!TypeOK'
  BY DEF FutureInv, F!TypeOK, F!Close, F!waiterVars, FutureConstants
<1>2. UNCHANGED <<next, live, wpc, cur, got, result>> /\ Suspended' = Suspended /\ head' = Closed
  BY DEF F!Close, F!waiterVars, Suspended
<1>3. F!Chain(next, Closed) = {} /\ F!Chain(next, Nil) = {}
  BY ChainEmpty DEF FutureConstants
<1>4. Listed'
  <2>1. CASE head = Closed /\ UNCHANGED n
    BY <1>2, <2>1, ListStays DEF FutureInv
  <2>2. CASE head # Closed /\ n' = [n EXCEPT ![s] = head]
    <3>1. \A t \in F!Callers : n[t] = Nil /\ n'[t] = IF t = s THEN head ELSE Nil
      BY <2>2 DEF FutureInv, OneCloser, F!TypeOK
    <3> QED BY <1>2, <1>3, <3>1 DEF FutureInv, Listed, F!Reachable
  <2> QED BY <2>1, <2>2 DEF F!Close
<1>5. OneCloser'
  <2>1. CASE head = Closed /\ spc' = [spc EXCEPT ![s] = "threw"] /\ UNCHANGED n
    <3>1. spc[s] \in {"idle", "close"}
      BY DEF F!Close, F!CanClose
    <3> QED BY <1>2, <2>1, <3>1 DEF FutureInv, OneCloser, F!TypeOK
  <2>2. CASE head # Closed /\ spc' = [spc EXCEPT ![s] = "store"] /\ n' = [n EXCEPT ![s] = head]
    BY <1>2, <2>2 DEF FutureInv, OneCloser, F!TypeOK
  <2> QED BY <2>1, <2>2 DEF F!Close
<1>6. Resumed'
  BY <1>2 DEF FutureInv, Resumed, F!TypeOK, F!Close
<1> QED BY <1>1, <1>4, <1>5, <1>6 DEF FutureInv

\* The store of the result, and the end of resumeAll() and of the destructor.
LEMMA StoreKeeps == ASSUME FutureConstants, FutureInv, NEW s \in F!Callers, F!Store(s) \/ F!ResumeEnd(s) PROVE FutureInv'
<1>1. F!TypeOK'
  BY DEF FutureInv, F!TypeOK, F!Store, F!ResumeEnd, F!waiterVars, F!ResultOf, F!Results
<1>2. UNCHANGED <<head, n, next, live, wpc, cur, got>> /\ Suspended' = Suspended
  BY DEF F!Store, F!ResumeEnd, F!waiterVars, Suspended
<1>3. Listed'
  BY <1>2, ListStays DEF FutureInv
<1>4. head = Closed
  BY DEF F!Store, F!ResumeEnd, FutureInv, OneCloser
<1>5. OneCloser'
  BY <1>2, <1>4 DEF F!Store, F!ResumeEnd, FutureInv, OneCloser, F!TypeOK, F!ResultOf
<1>6. Resumed'
  BY <1>2 DEF F!Store, F!ResumeEnd, FutureInv, Resumed, F!TypeOK, F!ResultOf
<1> QED BY <1>1, <1>3, <1>5, <1>6 DEF FutureInv

\* resumeAll(): the first node of the caller's list leaves it, and is not met again.
LEMMA ResumeKeeps == ASSUME FutureConstants, FutureInv, NEW s \in F!Callers, F!ResumeOne(s) PROVE FutureInv'
<1>1. n[s] \in Waiters /\ next[n[s]] \in Waiters \union {Nil}
  BY DEF FutureInv, F!TypeOK, F!ResumeOne
<1>2. PICK w \in Waiters : w = n[s]
  BY <1>1
<1>3. F!TypeOK'
  BY <1>1 DEF FutureInv, F!TypeOK, F!ResumeOne
<1>4. UNCHANGED <<head, next, live, result, cur, got, spc>> /\ Suspended' = Suspended \ {w}
  BY <1>2 DEF FutureInv, F!TypeOK, F!ResumeOne, Suspended
<1>5. head = Closed /\ \A t \in F!Callers : t # s => n[t] = Nil
  BY <1>1 DEF FutureInv, F!ResumeOne, OneCloser, FutureConstants
<1>6. n'[s] = next[w] /\ \A t \in F!Callers : t # s => n'[t] = Nil
  BY <1>2, <1>5 DEF FutureInv, F!TypeOK, F!ResumeOne
<1>7. F!Chain(next, Closed) = {} /\ F!Chain(next, Nil) = {}
  BY ChainEmpty DEF FutureConstants
<1>8. F!Chain(next, w) = {w} \union F!Chain(next, next[w])
  BY ChainStep
<1>9. F!Chain(next, w) = Suspended
  BY <1>2, <1>5, <1>7 DEF FutureInv, Listed, F!Reachable
<1>10. F!Chain(next, next[w]) = Suspended \ {w}
  BY <1>8, <1>9 DEF FutureInv, Listed, F!Reachable
<1>11. Listed'
  BY <1>4, <1>5, <1>6, <1>7, <1>10 DEF FutureInv, Listed, F!Reachable
<1>12. OneCloser'
  BY <1>4, <1>5, <1>6 DEF FutureInv, OneCloser, F!ResumeOne
<1>13. Resumed'
  <2>1. wpc[w] = "suspended" /\ wpc' = [wpc EXCEPT ![w] = "scheduled"] /\ result # "empty"
    BY <1>2, <1>8, <1>9 DEF Suspended, F!ResumeOne, FutureInv, Resumed
  <2> QED BY <1>4, <2>1 DEF FutureInv, Resumed, F!TypeOK
<1> QED BY <1>3, <1>11, <1>12, <1>13 DEF FutureInv

\* Every step keeps the invariant.
LEMMA FutureNext == FutureConstants /\ FutureInv /\ [F!Next]_(F!vars) => FutureInv'
<1> SUFFICES ASSUME FutureConstants, FutureInv, [F!Next]_(F!vars) PROVE FutureInv'
  OBVIOUS
<1>1. ASSUME NEW w \in Waiters, F!WaiterStep(w) PROVE FutureInv'
  BY <1>1, WaiterKeeps, PushKeeps DEF F!WaiterStep
<1>2. ASSUME NEW s \in F!Callers, F!Close(s) \/ F!SetterStep(s) PROVE FutureInv'
  BY <1>2, CloseKeeps, StoreKeeps, ResumeKeeps DEF F!SetterStep
<1>3. CASE F!Destroy
  <2>1. F!TypeOK'
    BY <1>3 DEF FutureInv, F!TypeOK, F!Destroy, F!waiterVars
  <2>2. UNCHANGED <<head, n, result, next, live, wpc, cur, got>> /\ Suspended' = Suspended
    BY <1>3 DEF F!Destroy, F!waiterVars, Suspended
  <2>3. Listed'
    BY <2>2, ListStays DEF FutureInv
  <2>4. OneCloser' /\ Resumed'
    BY <1>3, <2>2 DEF FutureInv, F!TypeOK, F!Destroy, F!Quiet, OneCloser, Resumed
  <2> QED BY <2>1, <2>3, <2>4 DEF FutureInv
<1>4. CASE UNCHANGED F!vars
  BY <1>4 DEF F!vars, FutureInv, F!TypeOK, Listed, OneCloser, Resumed, Suspended, F!Reachable, F!Callers
<1> QED BY <1>1, <1>2, <1>3, <1>4 DEF F!Next

\* resumeAll() walks over awaiters that still exist and are suspended (Future.h:41), every suspended
\* awaiter is in the list or ahead of resumeAll(), and whoever is resumed finds the result there.
THEOREM FutureSafeHolds == ASSUME FutureConstants PROVE F!Spec => []FutureSafe
<1>1. FutureInv => FutureSafe
  BY DEF FutureInv, Listed, Resumed, Suspended, FutureSafe, F!WalksLiveNodes, F!SuspendedIsListed,
         F!WokenSeesResult
<1> QED BY FutureInit, FutureNext, <1>1, PTL DEF F!Spec

\* The first result is final: later calls of set_value() and set_exception(), and ~Promise(), find
\* the list closed.
THEOREM ResultIsFinalHolds == ASSUME FutureConstants PROVE F!Spec => F!ResultIsFinal
<1>1. ASSUME FutureInv, [F!Next]_(F!vars) PROVE [F!ResultStays]_(F!vars)
  <2>1. ASSUME NEW w \in Waiters, F!WaiterStep(w) PROVE result' = result
    BY <2>1 DEF F!WaiterStep, F!AwaitReady, F!PushLoad, F!PushClosed, F!PushCas, F!AwaitResume
  <2>2. ASSUME NEW s \in F!Callers, F!Close(s) \/ F!SetterStep(s) PROVE F!ResultStays
    BY <1>1, <2>2 DEF F!SetterStep, F!Close, F!Store, F!ResumeOne, F!ResumeEnd, F!ResultStays,
                      FutureInv, OneCloser
  <2> QED BY <1>1, <2>1, <2>2 DEF F!Next, F!Destroy, F!ResultStays
<1> QED BY FutureInit, FutureNext, <1>1, PTL DEF F!Spec, F!ResultIsFinal

-----------------------------------------------------------------------------
\* Facts about sequences.

\* The empty sequence has no elements.
LEMMA EmptySeq ==
    ASSUME NEW S
    PROVE  << >> \in Seq(S) /\ Len(<< >>) = 0 /\ \A s \in Seq(S) : s = << >> <=> Len(s) = 0
  OBVIOUS

\* A sequence is a function on 1..Len(s).
LEMMA LenProperties ==
    ASSUME NEW S, NEW s \in Seq(S)
    PROVE  Len(s) \in Nat /\ DOMAIN s = 1..Len(s) /\ s \in [1..Len(s) -> S] /\ \A i \in 1..Len(s) : s[i] \in S
  OBVIOUS

\* Append() keeps what was there and adds one element.
LEMMA AppendProperties ==
    ASSUME NEW S, NEW s \in Seq(S), NEW e \in S
    PROVE  /\ Append(s, e) \in Seq(S) /\ Append(s, e) # << >> /\ Len(Append(s, e)) = Len(s) + 1
           /\ Append(s, e)[Len(s) + 1] = e /\ \A i \in 1..Len(s) : Append(s, e)[i] = s[i]
  OBVIOUS

\* Head() is the first element, Tail() the others.
LEMMA HeadTailProperties ==
    ASSUME NEW S, NEW s \in Seq(S), s # << >>
    PROVE  /\ Head(s) \in S /\ Head(s) = s[1] /\ Tail(s) \in Seq(S) /\ Len(Tail(s)) = Len(s) - 1
           /\ \A i \in 1..Len(Tail(s)) : Tail(s)[i] = s[i + 1]
  OBVIOUS

\* The elements of a concatenation.
LEMMA ConcatProperties ==
    ASSUME NEW S, NEW s \in Seq(S), NEW t \in Seq(S)
    PROVE  /\ s \o t \in Seq(S) /\ Len(s \o t) = Len(s) + Len(t)
           /\ \A i \in 1..Len(s) + Len(t) : (s \o t)[i] = IF i <= Len(s) THEN s[i] ELSE t[i - Len(s)]
  OBVIOUS

\* Sequences with the same elements are equal.
LEMMA SeqEqual ==
    ASSUME NEW S, NEW s \in Seq(S), NEW t \in Seq(S), Len(s) = Len(t), \A i \in 1..Len(s) : s[i] = t[i]
    PROVE  s = t
  OBVIOUS

\* The elements of a sequence.
LEMMA ElementOfSeq ==
    ASSUME NEW S, NEW s \in Seq(S), NEW i \in 1..Len(s)
    PROVE  s[i] \in S
  OBVIOUS

\* Sequences are functions on an initial part of the positive numbers.
LEMMA SeqDef ==
    ASSUME NEW S, NEW k \in Nat, NEW f \in [1..k -> S]
    PROVE  f \in Seq(S) /\ Len(f) = k
  OBVIOUS

-----------------------------------------------------------------------------
\* Pipe.  The inductive invariant says where the handle of the receiver is at each point of
\* recv(), and which numbers the received and the queued values have.

\* waiter_, or the store to it, has the handle; a sender has it.
Parked == waiter = "set" \/ buffer = "full"
Taken  == \E s \in Senders : sender[s] = "schedule"

PipeHandle ==
    /\ \A s, t \in Senders : sender[s] = "schedule" /\ sender[t] = "schedule" => s = t
    /\ Parked => ~Taken /\ queued = 0
    /\ Taken => queued = 0
    /\ ~(waiter = "set" /\ buffer = "full")
    /\ rpc \in {"recheck", "retract", "suspended"} <=> Parked \/ Taken \/ queued = 1
    /\ rpc = "suspended" /\ buffer = "full" => early = "yes"

PipeOrder ==
    /\ Len(received) + Len(queue) = sent
    /\ \A i \in 1..Len(received) : received[i] = i
    /\ \A i \in 1..Len(queue) : queue[i].val = Len(received) + i

PipeInv == P!TypeOK /\ PipeHandle /\ PipeOrder /\ P!NoMissedSend

\* Nothing was sent and the receiver does not wait.
LEMMA PipeInit == P!Init => PipeInv
<1> SUFFICES ASSUME P!Init PROVE PipeInv
  OBVIOUS
<1>1. P!TypeOK
  BY EmptySeq DEF P!Init, P!TypeOK
<1>2. PipeHandle /\ P!NoMissedSend
  BY DEF P!Init, PipeHandle, Parked, Taken, P!NoMissedSend
<1>3. PipeOrder
  BY EmptySeq DEF P!Init, PipeOrder
<1> QED BY <1>1, <1>2, <1>3 DEF PipeInv

Slots1 == [val : Nat, st : {"reserved", "published"}]

\* send() reserves a slot behind all others.
LEMMA ReserveKeeps == ASSUME PipeInv, NEW s \in Senders, P!SendReserve(s) PROVE PipeInv'
<1> DEFINE e == [val |-> sent + 1, st |-> "reserved"]
<1>1. queue \in Seq(Slots1) /\ sent \in Nat /\ received \in Seq(Nat) /\ e \in Slots1
  BY DEF PipeInv, P!TypeOK, Slots1
<1>2. /\ queue' = Append(queue, e) /\ queue' \in Seq(Slots1) /\ Len(queue') = Len(queue) + 1
      /\ queue'[Len(queue) + 1] = e /\ \A i \in 1..Len(queue) : queue'[i] = queue[i]
  BY <1>1, AppendProperties DEF P!SendReserve
<1>3. /\ UNCHANGED <<closed, waiter, buffer, queued, rpc, rx, received, eof, early>> /\ sent' = sent + 1
      /\ sender[s] = "idle" /\ sender' = [sender EXCEPT ![s] = "link"] /\ item' = [item EXCEPT ![s] = sent + 1]
  BY DEF P!SendReserve, P!receiverVars
<1>4. P!TypeOK'
  BY <1>1, <1>2, <1>3 DEF PipeInv, P!TypeOK, Slots1
<1>5. Taken' <=> Taken
  BY <1>3 DEF PipeInv, P!TypeOK, Taken
<1>6. PipeHandle'
  BY <1>3, <1>5 DEF PipeInv, P!TypeOK, PipeHandle, Parked
<1>7. Len(queue) \in Nat /\ Len(received) \in Nat
  BY <1>1, LenProperties
<1>8. PipeOrder'
  <2>1. Len(received') + Len(queue') = sent' /\ \A i \in 1..Len(received') : received'[i] = i
    BY <1>1, <1>2, <1>3, <1>7 DEF PipeInv, PipeOrder
  <2>2. ASSUME NEW i \in 1..Len(queue') PROVE queue'[i].val = Len(received') + i
    <3>1. CASE i \in 1..Len(queue)
      BY <1>2, <1>3, <3>1 DEF PipeInv, PipeOrder
    <3>2. CASE i = Len(queue) + 1
      BY <1>2, <1>3, <1>7, <3>2 DEF PipeInv, PipeOrder
    <3> QED BY <1>2, <1>7, <3>1, <3>2
  <2> QED BY <2>1, <2>2 DEF PipeOrder
<1>9. P!HasItem' => P!HasItem
  <2>1. CASE queue = << >>
    BY <1>2, <2>1, EmptySeq DEF P!HasItem
  <2>2. CASE queue # << >>
    <3>1. Len(queue) >= 1 /\ Head(queue) = queue[1] /\ Head(queue') = queue'[1]
      BY <1>1, <1>2, <2>2, EmptySeq, HeadTailProperties
    <3> QED BY <1>2, <2>2, <3>1 DEF P!HasItem
  <2> QED BY <2>1, <2>2
<1>10. P!NoMissedSend'
  BY <1>3, <1>9 DEF PipeInv, P!TypeOK, P!NoMissedSend
<1> QED BY <1>4, <1>6, <1>8, <1>10 DEF PipeInv

\* send() publishes its slot and will wake the receiver.
LEMMA LinkKeeps == ASSUME PipeInv, NEW s \in Senders, P!SendLink(s) PROVE PipeInv'
<1>1. queue \in Seq(Slots1) /\ received \in Seq(Nat) /\ item[s] \in Nat
  BY DEF PipeInv, P!TypeOK, Slots1
<1>2. Len(queue) \in Nat /\ DOMAIN queue = 1..Len(queue) /\ \A i \in 1..Len(queue) : queue[i] \in Slots1
  BY <1>1, LenProperties, ElementOfSeq
<1> DEFINE link(i) == IF queue[i].val = item[s] THEN [val |-> item[s], st |-> "published"] ELSE queue[i]
<1>3. \A i \in 1..Len(queue) : link(i) \in Slots1 /\ link(i).val = queue[i].val
  BY <1>1, <1>2 DEF Slots1
<1>4. queue' = [i \in 1..Len(queue) |-> link(i)]
  BY <1>2 DEF P!SendLink
<1>5. queue' \in Seq(Slots1) /\ Len(queue') = Len(queue) /\ \A i \in 1..Len(queue) : queue'[i].val = queue[i].val
  <2>1. queue' \in [1..Len(queue) -> Slots1]
    BY <1>3, <1>4
  <2>2. queue' \in Seq(Slots1) /\ Len(queue') = Len(queue)
    BY <1>2, <2>1, SeqDef, LenProperties
  <2> QED BY <1>3, <1>4, <2>2
<1>6. /\ UNCHANGED <<closed, waiter, buffer, queued, rpc, rx, received, eof, early, sent>>
      /\ sender[s] = "link" /\ sender' = [sender EXCEPT ![s] = "wake"] /\ item' = [item EXCEPT ![s] = 0]
  BY DEF P!SendLink, P!receiverVars
<1>7. P!TypeOK'
  BY <1>5, <1>6 DEF PipeInv, P!TypeOK, Slots1
<1>8. Taken' <=> Taken
  BY <1>6 DEF PipeInv, P!TypeOK, Taken
<1>9. PipeHandle'
  BY <1>6, <1>8 DEF PipeInv, P!TypeOK, PipeHandle, Parked
<1>10. PipeOrder'
  BY <1>5, <1>6 DEF PipeInv, PipeOrder
<1>11. P!NoMissedSend'
  BY <1>6 DEF PipeInv, P!TypeOK, P!NoMissedSend
<1> QED BY <1>7, <1>9, <1>10, <1>11 DEF PipeInv

\* The steps of wakeReceiver() and the release of a sender touch no value.
LEMMA SenderKeeps ==
    ASSUME PipeInv, NEW s \in Senders, P!WakeExchange(s) \/ P!WakeSchedule(s) \/ P!Release(s)
    PROVE  PipeInv'
<1>1. UNCHANGED <<queue, buffer, item, rpc, rx, sent, received, eof, early>>
  BY DEF P!WakeExchange, P!WakeSchedule, P!Release, P!receiverVars
<1>2. PipeOrder' /\ (P!HasItem' <=> P!HasItem)
  BY <1>1 DEF PipeInv, PipeOrder, P!HasItem
<1>3. CASE P!WakeExchange(s)
  <2>1. /\ UNCHANGED <<closed, queued>> /\ waiter' = "null" /\ sender[s] = "wake"
        /\ sender' = [sender EXCEPT ![s] = IF waiter = "set" THEN "schedule" ELSE P!AfterWake]
    BY <1>3 DEF P!WakeExchange, P!receiverVars
  <2>2. P!AfterWake \in {"idle", "gone"}
    BY DEF P!AfterWake
  <2>3. P!TypeOK'
    BY <1>1, <2>1, <2>2 DEF PipeInv, P!TypeOK
  <2>4. CASE waiter = "set"
    <3>1. ~Taken /\ queued = 0 /\ sender'[s] = "schedule" /\ \A t \in Senders \ {s} : sender'[t] = sender[t]
      BY <2>1, <2>4 DEF PipeInv, PipeHandle, Parked, P!TypeOK
    <3>2. Taken' /\ ~Parked' /\ queued' = 0
      BY <1>1, <2>1, <2>4, <3>1 DEF PipeInv, PipeHandle, Taken, Parked, P!TypeOK
    <3>3. PipeHandle'
      BY <1>1, <2>4, <3>1, <3>2 DEF PipeInv, PipeHandle, Taken, Parked
    <3>4. P!NoMissedSend'
      BY <3>1 DEF P!NoMissedSend
    <3> QED BY <1>2, <2>3, <3>3, <3>4 DEF PipeInv
  <2>5. CASE waiter # "set"
    <3>1. sender'[s] \notin {"schedule", "wake"} /\ \A t \in Senders \ {s} : sender'[t] = sender[t]
      BY <2>1, <2>2, <2>5 DEF PipeInv, P!TypeOK
    <3>2. (Taken' <=> Taken) /\ (Parked' <=> Parked)
      BY <1>1, <2>1, <2>5, <3>1 DEF Taken, Parked
    <3>3. PipeHandle'
      BY <1>1, <2>1, <3>1, <3>2 DEF PipeInv, PipeHandle
    <3>4. ASSUME early' = "no", rpc' = "suspended" PROVE queued' > 0 \/ \E t \in Senders : sender'[t] = "schedule"
      <4>1. Taken \/ queued = 1
        BY <1>1, <2>5, <3>4 DEF PipeInv, PipeHandle, Parked
      <4> QED BY <2>1, <3>2, <4>1 DEF Taken
    <3>5. P!NoMissedSend'
      BY <3>4 DEF P!NoMissedSend
    <3> QED BY <1>2, <2>3, <3>3, <3>5 DEF PipeInv
  <2> QED BY <2>4, <2>5
<1>4. CASE P!WakeSchedule(s)
  <2>1. /\ UNCHANGED <<closed, waiter>> /\ queued' = queued + 1 /\ sender[s] = "schedule"
        /\ sender' = [sender EXCEPT ![s] = P!AfterWake]
    BY <1>4 DEF P!WakeSchedule
  <2>2. P!AfterWake \in {"idle", "gone"}
    BY DEF P!AfterWake
  <2>3. sender'[s] # "schedule" /\ \A t \in Senders \ {s} : sender'[t] = sender[t]
    BY <2>1, <2>2 DEF PipeInv, P!TypeOK
  <2>4. Taken /\ queued = 0 /\ queued' = 1 /\ ~Parked /\ ~Parked' /\ ~Taken'
    BY <1>1, <2>1, <2>3 DEF PipeInv, PipeHandle, Taken, Parked
  <2>5. P!TypeOK'
    BY <1>1, <2>1, <2>2, <2>4 DEF PipeInv, P!TypeOK
  <2>6. PipeHandle'
    BY <1>1, <2>4 DEF PipeInv, PipeHandle, Taken, Parked
  <2>7. P!NoMissedSend'
    BY <2>4 DEF P!NoMissedSend
  <2> QED BY <1>2, <2>5, <2>6, <2>7 DEF PipeInv
<1>5. CASE P!Release(s)
  <2>1. UNCHANGED <<waiter, queued>> /\ sender[s] = "idle"
    BY <1>5 DEF P!Release, P!receiverVars
  <2>2. \/ closed' = "yes" /\ sender' = [sender EXCEPT ![s] = "wake"]
        \/ closed' = closed /\ sender' = [sender EXCEPT ![s] = "gone"]
    BY <1>5 DEF P!Release
  <2>3. P!TypeOK'
    BY <1>1, <2>1, <2>2 DEF PipeInv, P!TypeOK
  <2>4. sender'[s] # "schedule" /\ \A t \in Senders \ {s} : sender'[t] = sender[t]
    BY <2>2 DEF PipeInv, P!TypeOK
  <2>5. (Taken' <=> Taken) /\ (Parked' <=> Parked)
    BY <1>1, <2>1, <2>4 DEF Taken, Parked
  <2>6. PipeHandle'
    BY <1>1, <2>1, <2>4, <2>5 DEF PipeInv, PipeHandle
  <2>7. P!NoMissedSend'
    <3>1. CASE closed' = "yes" /\ sender' = [sender EXCEPT ![s] = "wake"]
      BY <3>1 DEF PipeInv, P!TypeOK, P!NoMissedSend
    <3>2. CASE closed' = closed /\ sender' = [sender EXCEPT ![s] = "gone"]
      BY <1>1, <1>2, <2>1, <2>4, <3>2 DEF PipeInv, P!NoMissedSend
    <3> QED BY <2>2, <3>1, <3>2
  <2> QED BY <1>2, <2>3, <2>6, <2>7 DEF PipeInv
<1> QED BY <1>3, <1>4, <1>5

\* The steps of recv() up to the suspension, the drain of the store buffer and the end of the
\* receiver touch no value and no sender.
LEMMA ReceiverKeeps ==
    ASSUME PipeInv,
           P!AwaitReady \/ P!StoreWaiter \/ P!FlushBuffer \/ P!Recheck \/ P!Retract \/ P!DropReceiver
    PROVE  PipeInv'
<1>1. UNCHANGED <<queue, closed, sender, item, queued, sent, received, eof>>
  BY DEF P!AwaitReady, P!StoreWaiter, P!FlushBuffer, P!Recheck, P!Retract, P!DropReceiver, P!receiverVars
<1>2. PipeOrder' /\ (P!HasItem' <=> P!HasItem) /\ (Taken' <=> Taken)
  BY <1>1 DEF PipeInv, PipeOrder, P!HasItem, Taken
<1>3. P!TypeOK'
  BY <1>1 DEF PipeInv, P!TypeOK, P!AwaitReady, P!StoreWaiter, P!FlushBuffer, P!Recheck, P!Retract,
     P!DropReceiver, P!receiverVars
<1>4. PipeHandle'
  <2>1. CASE P!AwaitReady \/ P!DropReceiver
    BY <1>1, <1>2, <2>1 DEF PipeInv, PipeHandle, Parked, P!AwaitReady, P!DropReceiver
  <2>2. CASE P!StoreWaiter
    BY <1>1, <1>2, <2>2 DEF PipeInv, P!TypeOK, PipeHandle, Parked, P!StoreWaiter
  <2>3. CASE P!FlushBuffer
    BY <1>1, <1>2, <2>3 DEF PipeInv, PipeHandle, Parked, P!FlushBuffer, P!receiverVars
  <2>4. CASE P!Recheck
    BY <1>1, <1>2, <2>4 DEF PipeInv, PipeHandle, Parked, P!Recheck
  <2>5. CASE P!Retract
    BY <1>1, <1>2, <2>5 DEF PipeInv, PipeHandle, Parked, P!Retract
  <2> QED BY <2>1, <2>2, <2>3, <2>4, <2>5
<1>5. P!NoMissedSend'
  <2>1. CASE P!AwaitReady \/ P!DropReceiver \/ P!StoreWaiter
    BY <2>1 DEF P!NoMissedSend, P!AwaitReady, P!StoreWaiter, P!DropReceiver
  <2>2. CASE P!FlushBuffer
    BY <1>1, <1>2, <2>2 DEF PipeInv, P!NoMissedSend, P!FlushBuffer, P!receiverVars
  <2>3. CASE P!Recheck
    BY <1>1, <1>2, <2>3 DEF P!NoMissedSend, P!Recheck
  <2>4. CASE P!Retract
    BY <1>1, <1>2, <2>4 DEF PipeInv, PipeHandle, P!TypeOK, Parked, Taken, P!NoMissedSend, P!Retract
  <2> QED BY <2>1, <2>2, <2>3, <2>4
<1> QED BY <1>2, <1>3, <1>4, <1>5 DEF PipeInv

\* await_resume() takes the first value, if it is published, and has used up the handle.
LEMMA ResumeKeepsPipe == ASSUME PipeInv, P!AwaitResume PROVE PipeInv'
<1>1. queue \in Seq(Slots1) /\ sent \in Nat /\ received \in Seq(Nat)
  BY DEF PipeInv, P!TypeOK, Slots1
<1>2. Len(queue) \in Nat /\ Len(received) \in Nat
  BY <1>1, LenProperties
<1>3. /\ UNCHANGED <<closed, waiter, buffer, early, sender, item, rx, sent>>
      /\ \/ rpc = "resume" /\ queued' = queued
         \/ rpc = "suspended" /\ queued > 0 /\ queued' = queued - 1
      /\ \/ /\ P!HasItem /\ queue' = Tail(queue) /\ received' = Append(received, Head(queue).val)
            /\ rpc' = "idle" /\ eof' = eof
         \/ /\ rpc' \in {"stopped", "idle"} /\ eof' \in {"eof", "open"} /\ UNCHANGED <<queue, received>>
  BY DEF P!AwaitResume, P!WhyEmpty
<1>4. ~Parked /\ ~Taken /\ queued' = 0
  BY <1>3 DEF PipeInv, P!TypeOK, PipeHandle
<1>5. ~Parked' /\ ~Taken'
  BY <1>3, <1>4 DEF Parked, Taken
<1>6. PipeHandle' /\ P!NoMissedSend'
  BY <1>3, <1>4, <1>5 DEF PipeInv, PipeHandle, Parked, P!NoMissedSend
<1>7. CASE P!HasItem /\ queue' = Tail(queue) /\ received' = Append(received, Head(queue).val) /\ rpc' = "idle" /\ eof' = eof
  <2>1. Len(queue) >= 1 /\ queue # << >>
    BY <1>1, <1>2, <1>7, EmptySeq DEF P!HasItem
  <2>2. /\ Head(queue) = queue[1] /\ queue[1] \in Slots1
        /\ queue' \in Seq(Slots1) /\ Len(queue') = Len(queue) - 1
        /\ \A i \in 1..(Len(queue) - 1) : queue'[i] = queue[i + 1]
    BY <1>1, <1>7, <2>1, HeadTailProperties, ElementOfSeq
  <2>3. queue[1].val = Len(received) + 1 /\ queue[1].val \in Nat
    BY <2>1, <2>2, <1>2 DEF PipeInv, PipeOrder, Slots1
  <2>4. /\ received' \in Seq(Nat) /\ Len(received') = Len(received) + 1
        /\ received'[Len(received) + 1] = Len(received) + 1
        /\ \A i \in 1..Len(received) : received'[i] = received[i]
    BY <1>1, <1>7, <2>2, <2>3, AppendProperties
  <2>5. P!TypeOK'
    BY <1>3, <1>4, <1>7, <2>2, <2>4 DEF PipeInv, P!TypeOK, Slots1
  <2>6. Len(received') + Len(queue') = sent'
    BY <1>2, <1>3, <2>2, <2>4 DEF PipeInv, PipeOrder
  <2>7. \A i \in 1..Len(received') : received'[i] = i
    <3>1. ASSUME NEW i \in 1..Len(received) PROVE received'[i] = i
      <4>1. received[i] = i
        BY DEF PipeInv, PipeOrder
      <4> QED BY <2>4, <4>1
    <3>2. \A i \in 1..(Len(received) + 1) : i \in 1..Len(received) \/ i = Len(received) + 1
      BY <1>2
    <3> QED BY <2>4, <3>1, <3>2
  <2>8. ASSUME NEW i \in 1..Len(queue') PROVE queue'[i].val = Len(received') + i
    <3>1. i \in 1..(Len(queue) - 1) /\ i + 1 \in 1..Len(queue)
      BY <1>2, <2>2
    <3>2. queue'[i] = queue[i + 1] /\ queue[i + 1].val = Len(received) + (i + 1)
      BY <2>2, <3>1 DEF PipeInv, PipeOrder
    <3> QED BY <1>2, <2>4, <3>1, <3>2
  <2> QED BY <1>6, <2>5, <2>6, <2>7, <2>8 DEF PipeInv, PipeOrder
<1>8. CASE rpc' \in {"stopped", "idle"} /\ eof' \in {"eof", "open"} /\ UNCHANGED <<queue, received>>
  <2>1. P!TypeOK'
    BY <1>3, <1>4, <1>8 DEF PipeInv, P!TypeOK
  <2>2. PipeOrder'
    BY <1>3, <1>8 DEF PipeInv, PipeOrder
  <2> QED BY <1>6, <2>1, <2>2 DEF PipeInv
<1> QED BY <1>3, <1>7, <1>8

\* What was received and what is queued are the numbers 1..sent, in this order.
LEMMA PipeInvSafe == PipeInv => PipeSafe
<1> SUFFICES ASSUME PipeInv PROVE PipeSafe
  OBVIOUS
<1>1. P!HandleInOnePlace
  BY DEF PipeInv, P!TypeOK, PipeHandle, Parked, Taken, P!HandleInOnePlace, P!Handles
<1> DEFINE vals == [i \in DOMAIN queue |-> queue[i].val]
<1> DEFINE all == [i \in 1..sent |-> i]
<1>2. queue \in Seq(Slots1) /\ sent \in Nat /\ received \in Seq(Nat)
  BY DEF PipeInv, P!TypeOK, Slots1
<1>3. /\ Len(queue) \in Nat /\ DOMAIN queue = 1..Len(queue) /\ Len(received) \in Nat
      /\ \A i \in 1..Len(queue) : queue[i] \in Slots1
  BY <1>2, LenProperties, ElementOfSeq
<1>4. vals \in Seq(Nat) /\ Len(vals) = Len(queue) /\ \A i \in 1..Len(queue) : vals[i] = queue[i].val
  BY <1>3 DEF Slots1
<1>5. all \in Seq(Nat) /\ Len(all) = sent /\ \A i \in 1..sent : all[i] = i
  BY <1>2
<1> HIDE DEF vals, all
<1>6. /\ received \o vals \in Seq(Nat) /\ Len(received \o vals) = Len(received) + Len(vals)
      /\ \A i \in 1..(Len(received) + Len(vals)) :
           (received \o vals)[i] = IF i <= Len(received) THEN received[i] ELSE vals[i - Len(received)]
  BY <1>2, <1>4, ConcatProperties
<1>7. ASSUME NEW i \in 1..Len(received \o vals) PROVE (received \o vals)[i] = all[i]
  <2>1. i \in 1..sent
    BY <1>3, <1>4, <1>6 DEF PipeInv, PipeOrder
  <2>2. CASE i <= Len(received)
    BY <1>3, <1>4, <1>5, <1>6, <2>1, <2>2 DEF PipeInv, PipeOrder
  <2>3. CASE ~(i <= Len(received))
    <3>1. i - Len(received) \in 1..Len(queue)
      BY <1>3, <1>4, <1>6, <2>3
    <3>2. vals[i - Len(received)] = Len(received) + (i - Len(received))
      BY <1>4, <3>1 DEF PipeInv, PipeOrder
    <3> QED BY <1>3, <1>4, <1>5, <1>6, <2>1, <2>3, <3>2
  <2> QED BY <2>2, <2>3
<1>8. received \o vals = all
  <2>1. Len(received \o vals) = Len(all)
    BY <1>4, <1>5, <1>6 DEF PipeInv, PipeOrder
  <2>2. /\ received \o vals \in Seq(Nat) /\ all \in Seq(Nat)
        /\ \A i \in 1..Len(received \o vals) : (received \o vals)[i] = all[i]
    BY <1>5, <1>6, <1>7
  <2> QED BY <2>1, <2>2, SeqEqual, Zenon
<1>9. P!NothingLost
  BY <1>8 DEF P!NothingLost, vals, all
<1> QED BY <1>1, <1>9 DEF PipeInv, PipeSafe

\* For any number of senders and of values: a suspended receiver of the pipe is resumed exactly
\* once, a send or a close that races with its suspension wakes it (Pipe.h:71, as long as its
\* store is visible before the second look), and the values arrive in order, none lost and none
\* twice.
THEOREM PipeSafeHolds == P!Spec => []PipeSafe
<1>1. PipeInv /\ [P!Next]_(P!vars) => PipeInv'
  <2> SUFFICES ASSUME PipeInv, [P!Next]_(P!vars) PROVE PipeInv'
    OBVIOUS
  <2>1. CASE UNCHANGED P!vars
    <3>1. /\ queue' = queue /\ closed' = closed /\ waiter' = waiter /\ buffer' = buffer /\ early' = early
          /\ sender' = sender /\ item' = item /\ queued' = queued /\ rpc' = rpc /\ rx' = rx /\ sent' = sent
          /\ received' = received /\ eof' = eof
      BY <2>1, Zenon DEF P!vars, P!receiverVars
    <3>2. P!TypeOK' BY <3>1, Zenon DEF PipeInv, P!TypeOK
    <3>3. PipeHandle' BY <3>1, Zenon DEF PipeInv, PipeHandle, Parked, Taken
    <3>4. PipeOrder' BY <3>1, Zenon DEF PipeInv, PipeOrder
    <3>5. P!NoMissedSend' BY <3>1, Zenon DEF PipeInv, P!NoMissedSend, P!HasItem
    <3> QED BY <3>2, <3>3, <3>4, <3>5, Zenon DEF PipeInv
  <2>2. CASE P!Next
    <3>1. ASSUME NEW s \in Senders, P!SendReserve(s) \/ P!Release(s) \/ P!SenderStep(s) PROVE PipeInv'
      BY <3>1, ReserveKeeps, LinkKeeps, SenderKeeps DEF P!SenderStep
    <3>2. CASE P!ReceiverStep \/ P!DropReceiver
      BY <3>2, ReceiverKeeps, ResumeKeepsPipe DEF P!ReceiverStep
    <3> QED BY <2>2, <3>1, <3>2 DEF P!Next
  <2> QED BY <2>1, <2>2
<1> QED BY <1>1, PipeInit, PipeInvSafe, PTL DEF P!Spec
=============================================================================
