------------------------------ MODULE Resolver ------------------------------
(***************************************************************************)
(* DnsResolver with the ThreadPool that runs its lookups (src/Dns.cc,      *)
(* src/DnsResolver.cc, src/TaskQueue.cc).  Calls of resolve() come from    *)
(* any thread; what one lock_guard encloses is one step.  The resolver may *)
(* be destroyed while calls wait: a waiting call keeps State and the pool  *)
(* alive, and the pool is stopped when the last owner is gone.             *)
(*                                                                         *)
(* getaddrinfo() and the clock are external.  An answer is told apart by   *)
(* the time of its lookup only.                                            *)
(***************************************************************************)
EXTENDS Naturals, Sequences

CONSTANTS Calls, Keys, Workers,
          Ttl,       \* state_->ttl
          Period,    \* writes between two sweeps (16)
          MaxTime    \* bound of the clock

VARIABLES time, owner,           \* steady_clock::now(); the DnsResolver object exists
          cache, pending, expiryQueue, writeCount,   \* State
          tasks,                 \* tasks_ of the pool
          worker, call           \* the pool's threads; the calls of resolve()

State == <<cache, pending, expiryQueue, writeCount>>
resolverVars == <<time, owner, State, tasks, worker, call>>

IdleWorker == [pc |-> "idle", key |-> "none", now |-> 0, waiters |-> {}]

\* cacheKey() tells hostname, service and family apart: a key is a model value.
ResolverInit ==
    /\ time = 0 /\ owner = "yes"
    /\ cache = [k \in Keys |-> 0] /\ pending = [k \in Keys |-> {}]   \* 0, {}: no entry
    /\ expiryQueue = {} /\ writeCount = 0 /\ tasks = <<>>
    /\ worker = [w \in Workers |-> IdleWorker]
    /\ call \in [Calls -> [pc : {"new"}, key : Keys]]

Tick    == time < MaxTime /\ time' = time + 1 /\ UNCHANGED <<owner, State, tasks, worker, call>>
Destroy == owner = "yes" /\ owner' = "no" /\ UNCHANGED <<time, State, tasks, worker, call>>

\* The weak_ptr of State can be locked, and the pool is not stopped.
Waiting == {c \in Calls : call[c].pc = "waiting"}
Alive   == owner = "yes" \/ Waiting /= {}

\* Bug: a call that finds a lookup under way posts another one.
PostLookup_Again(k) == Append(tasks, k)
PostLookup(k)       == IF pending[k] = {} THEN Append(tasks, k) ELSE tasks

\* resolveImpl(): a fresh cache entry answers at once; otherwise the call waits, and the
\* first one to wait posts the lookup.
Resolve(c) ==
    LET k == call[c].key
    IN  /\ owner = "yes" /\ call[c].pc = "new"
        /\ IF time < cache[k]
           THEN call' = [call EXCEPT ![c].pc = "done"] /\ UNCHANGED <<pending, tasks>>
           ELSE /\ call' = [call EXCEPT ![c].pc = "waiting"]
                /\ pending' = [pending EXCEPT ![k] = @ \cup {c}]
                /\ tasks' = PostLookup(k)
        /\ UNCHANGED <<time, owner, cache, expiryQueue, writeCount, worker>>

\* workerThread() takes a task; a stopped pool's threads return instead.
TakeTask(w) ==
    /\ Alive /\ worker[w].pc = "idle" /\ tasks /= <<>>
    /\ worker' = [worker EXCEPT ![w] = [IdleWorker EXCEPT !.pc = "lookup", !.key = Head(tasks)]]
    /\ tasks' = Tail(tasks)
    /\ UNCHANGED <<time, owner, State, call>>

\* getaddrinfo() returns addresses or an error; now is read when it has addresses.
Lookup(w) ==
    /\ worker[w].pc = "lookup"
    /\ \E pc \in {"store", "fail"} :
          worker' = [worker EXCEPT ![w] = IF Alive THEN [@ EXCEPT !.pc = pc, !.now = time] ELSE IdleWorker]
    /\ UNCHANGED <<time, owner, State, tasks, call>>

\* Bug: the entry is cached without its place in the expiry queue.
QueueExpiry_Not(e) == expiryQueue
QueueExpiry(e)     == expiryQueue \cup {e}

\* The first critical section of a successful lookup.
Store(w) ==
    LET k == worker[w].key
        expiry == worker[w].now + Ttl
    IN  /\ worker[w].pc = "store"
        /\ cache' = [cache EXCEPT ![k] = expiry]
        /\ expiryQueue' = QueueExpiry(<<expiry, k>>)
        /\ worker' = [worker EXCEPT ![w].pc = "sweep", ![w].waiters = pending[k]]
        /\ pending' = [pending EXCEPT ![k] = {}]
        /\ UNCHANGED <<time, owner, writeCount, tasks, call>>

\* Every Period-th write drops what expired before this lookup's now.
Sweep(w) ==
    LET now == worker[w].now
        old == {e \in expiryQueue : e[1] <= now}
    IN  /\ worker[w].pc = "sweep"
        /\ writeCount' = (writeCount + 1) % Period
        /\ IF writeCount = 0
           THEN /\ expiryQueue' = expiryQueue \ old
                /\ cache' = [k \in Keys |-> IF cache[k] <= now /\ \E e \in old : e[2] = k
                                            THEN 0 ELSE cache[k]]
           ELSE UNCHANGED <<expiryQueue, cache>>
        /\ worker' = [worker EXCEPT ![w].pc = "notify"]
        /\ UNCHANGED <<time, owner, pending, tasks, call>>

\* The critical section of a failed lookup.
Fail(w) ==
    /\ worker[w].pc = "fail"
    /\ worker' = [worker EXCEPT ![w].pc = "notify", ![w].waiters = pending[worker[w].key]]
    /\ pending' = [pending EXCEPT ![worker[w].key] = {}]
    /\ UNCHANGED <<time, owner, cache, expiryQueue, writeCount, tasks, call>>

\* Bug: the first waiter only is answered.
Answers_First(w) == IF worker[w].waiters = {} THEN {} ELSE {CHOOSE c \in worker[w].waiters : TRUE}
Answers(w)       == worker[w].waiters

\* set_value() or set_exception() on every promise taken from pending.
Notify(w) ==
    /\ worker[w].pc = "notify"
    /\ call' = [c \in Calls |-> IF c \in Answers(w) THEN [call[c] EXCEPT !.pc = "done"]
                                ELSE call[c]]
    /\ worker' = [worker EXCEPT ![w] = IdleWorker]
    /\ UNCHANGED <<time, owner, State, tasks>>

WorkerStep == \E w \in Workers : \/ TakeTask(w) \/ Lookup(w) \/ Store(w) \/ Sweep(w)
                                 \/ Fail(w) \/ Notify(w)

ResolverNext == Tick \/ Destroy \/ (\E c \in Calls : Resolve(c)) \/ WorkerStep
ResolverSpec == ResolverInit /\ [][ResolverNext]_resolverVars

-----------------------------------------------------------------------------
\* Waiting calls of one key share one lookup: there is exactly one task, queued or running,
\* for a key with an entry in pending, and none for the others.
OneLookupPerKey ==
    \A k \in Keys :
        LET running == {w \in Workers : worker[w].key = k /\ worker[w].pc \in {"lookup", "store", "fail"}}
            queued  == {i \in DOMAIN tasks : tasks[i] = k}
        IN  IF pending[k] = {} THEN Alive => running = {} /\ queued = {}
            ELSE \/ \E i \in queued : queued = {i} /\ running = {}
                 \/ \E w \in running : queued = {} /\ running = {w}

\* A cached answer is forgotten some day: the expiry queue holds its expiry, whatever order
\* lookups with older clock readings sweep in.
CachedWillExpire == \A k \in Keys : cache[k] /= 0 => <<cache[k], k>> \in expiryQueue

\* Every call is answered, also those that join a lookup under way and those whose resolver
\* is destroyed while they wait.
AnswerDue(c) == call[c].pc = "waiting"
AnswerOver(c) == call[c].pc = "done"
EveryCallIsAnswered == \A c \in Calls : AnswerDue(c) ~> AnswerOver(c)

\* DnsResolver: one lookup at a time per name and service, and what is cached is also queued
\* to expire.
ResolverSafe == OneLookupPerKey /\ CachedWillExpire
=============================================================================
