---------------------------------- MODULE Pg ----------------------------------
(***************************************************************************)
(* The PostgreSQL extension: a PgPool with its waiters, the connections it *)
(* lends out, their read loops and queries, and transactions on them       *)
(* (extensions/pg/src).  The pool, its connections and its clients run on  *)
(* one scheduler: what happens between two suspension points is one step.  *)
(*                                                                         *)
(* libpq and the server are external: a connection may go bad at any time, *)
(* a statement that was flushed is answered or not, and the server knows   *)
(* whether a transaction is open.  Parameters and results are left out.    *)
(***************************************************************************)
EXTENDS Naturals, Sequences, FiniteSets, FiniteSetsExt, Functions

CONSTANTS Clients, Conns,
          MaxSize,    \* PoolState::maxSize
          None

VARIABLES pool,     \* PoolState, with the promises it satisfied and the connects it spawned
          client,   \* the calls of acquire() and what is done with the connection
          conn      \* PgConnectionImpl, its ConnectionContext and PooledConnection

vars == <<pool, client, conn>>

NoConn == [owner |-> None, bad |-> "no", broken |-> "no", detached |-> "no", reader |-> "none",
           query |-> "none", cmd |-> "none", reply |-> "none", open |-> "no", tx |-> "none"]

EmptyPool == [total |-> 0, idle |-> <<>>, waiters |-> <<>>, connecting |-> {},
              granted |-> [c \in Clients |-> None], refused |-> {}, crashed |-> "no"]
NewClient == [pc |-> "idle", cancelled |-> "no"]

Init ==
    /\ pool = EmptyPool
    /\ client = [c \in Clients |-> NewClient]
    /\ conn = [k \in Conns |-> NoConn]

-----------------------------------------------------------------------------
\* The pool

\* The waiters from the first one that is not cancelled on.
LiveWaiters(p) ==
    LET live == {i \in DOMAIN p.waiters : client[p.waiters[i]].cancelled = "no"}
    IN  IF live = {} THEN <<>> ELSE SubSeq(p.waiters, Min(live), Len(p.waiters))

\* Bug: the connection is handed out and stays in the pool.
TakeIdle_Keeps(p) == p.idle
TakeIdle(p)       == Tail(p.idle)

\* PoolState::dispatch(): one waiter gets an idle connection, or a connect is spawned for it.
Dispatch(p) ==
    LET ws == LiveWaiters(p)
        w  == Head(ws)
    IN  IF ws = <<>> THEN [p EXCEPT !.waiters = ws]
        ELSE IF p.idle /= <<>>
        THEN [p EXCEPT !.granted[w] = Head(p.idle), !.idle = TakeIdle(p), !.waiters = Tail(ws)]
        ELSE IF p.total < MaxSize
        THEN [p EXCEPT !.total = @ + 1, !.waiters = Tail(ws), !.connecting = @ \cup {w}]
        ELSE [p EXCEPT !.waiters = ws]

\* Bug: nobody is told of the connection that became idle.
KeepIdle_NoDispatch(p, k) == [p EXCEPT !.idle = Append(@, k)]
KeepIdle(p, k)            == Dispatch([p EXCEPT !.idle = Append(@, k)])

Alive(k) == conn[k].broken = "no" /\ conn[k].bad = "no"

Runs == pool.crashed = "no"

\* acquire() up to its await; newTransaction() begins with it.  Bound: a client waits anew
\* only when the pool has dropped the waiter it gave up.
Acquire(c) ==
    /\ Runs /\ client[c].pc = "idle" /\ c \notin pool.connecting \cup Range(pool.waiters)
    /\ client' = [client EXCEPT ![c] = [pc |-> "waiting", cancelled |-> "no"]]
    /\ pool' = Dispatch([pool EXCEPT !.waiters = Append(@, c)])
    /\ UNCHANGED conn

\* The token's callback.  A promise that is already satisfied throws out of the timer's
\* coroutine, and the program terminates.
CancelAcquire(c) ==
    /\ Runs /\ client[c].pc = "waiting" /\ client[c].cancelled = "no"
    /\ IF pool.granted[c] /= None \/ c \in pool.refused
       THEN /\ pool' = [EmptyPool EXCEPT !.crashed = "yes"]
            /\ client' = [d \in Clients |-> NewClient] /\ conn' = [k \in Conns |-> NoConn]
       ELSE /\ client' = [client EXCEPT ![c].cancelled = "yes"]
            /\ pool' = [pool EXCEPT !.refused = @ \cup {c}]
            /\ UNCHANGED conn

\* The spawned coroutine after connect() succeeded: the connection starts its read loop.
ConnectDone(c, k) ==
    /\ Runs /\ c \in pool.connecting /\ conn[k].owner = None
    /\ conn' = [conn EXCEPT ![k] = [NoConn EXCEPT !.owner = "pool", !.reader = "waiting", !.detached = "yes"]]
    /\ LET p == [pool EXCEPT !.connecting = @ \ {c}]
       IN  pool' = IF client[c].cancelled = "no" THEN [p EXCEPT !.granted[c] = k]
                   ELSE KeepIdle(p, k)
    /\ UNCHANGED client

\* connect() threw: the handshake failed or took longer than the timeout.
ConnectFails(c) ==
    /\ Runs /\ c \in pool.connecting
    /\ pool' = Dispatch([pool EXCEPT !.connecting = @ \ {c}, !.total = @ - 1,
                         !.refused = IF client[c].cancelled = "no" THEN @ \cup {c} ELSE @])
    /\ UNCHANGED <<client, conn>>

\* acquire() resumes with the exception, or with a connection that becomes a
\* PooledConnection: the new broken handler has a fresh detached flag.
AcquireReturns(c) ==
    /\ Runs /\ client[c].pc = "waiting"
    /\ \/ /\ c \in pool.refused
          /\ pool' = [pool EXCEPT !.refused = @ \ {c}]
          /\ client' = [client EXCEPT ![c].pc = "idle"]
          /\ UNCHANGED conn
       \/ /\ pool.granted[c] /= None
          /\ pool' = [pool EXCEPT !.granted[c] = None]
          /\ client' = [client EXCEPT ![c].pc = "using"]
          /\ conn' = [conn EXCEPT ![pool.granted[c]].owner = c, ![pool.granted[c]].detached = "no",
                                  ![pool.granted[c]].tx = "none"]

-----------------------------------------------------------------------------
\* The connection

\* The connection is destroyed; the read loop keeps the context until it has ended.
Destroyed(k) == [conn EXCEPT ![k] = NoConn]

\* ~PooledConnection(): returnConnection() unless the connection was detached before.
GiveBack(k) ==
    IF conn[k].detached = "yes" THEN conn' = Destroyed(k) /\ UNCHANGED pool
    ELSE IF Alive(k)
    THEN /\ conn' = [conn EXCEPT ![k].owner = "pool", ![k].detached = "yes"]
         /\ pool' = KeepIdle(pool, k)
    ELSE conn' = Destroyed(k) /\ pool' = Dispatch([pool EXCEPT !.total = @ - 1])

\* handleBroken() with kc as what else becomes of the connection: the read loop is canceled
\* and, the first time, the pool gets the capacity back.
Broken(k, kc) ==
    IF conn[k].broken = "yes" THEN conn' = [conn EXCEPT ![k] = kc] /\ UNCHANGED pool
    ELSE /\ conn' = [conn EXCEPT ![k] = [kc EXCEPT !.broken = "yes", !.detached = "yes",
                        !.reader = IF @ = "waiting" THEN "canceled" ELSE @]]
         /\ pool' = IF conn[k].detached = "yes" THEN pool
                    ELSE Dispatch([pool EXCEPT !.total = @ - 1])

\* External: the server or the network drops the connection.  Bound: one is bad at a time.
GoesBad(k) ==
    /\ Runs /\ conn[k].owner /= None /\ \A j \in Conns : conn[j].bad = "no"
    /\ conn' = [conn EXCEPT ![k].bad = "yes", ![k].open = "no", ![k].reply = "none"]
    /\ UNCHANGED <<pool, client>>

\* sendAndReceive() of cmd by the owner, up to the flush.
Send(k, cmd) ==
    IF conn[k].bad = "no"
    THEN conn' = [conn EXCEPT ![k].query = "flush", ![k].cmd = cmd, ![k].reply = "none"] /\ UNCHANGED pool
    ELSE Broken(k, [conn[k] EXCEPT !.query = "threw", !.cmd = cmd])

\* PQflush() is done, failed, or was canceled with the channel.
Flush(k) ==
    /\ Runs /\ conn[k].query = "flush"
    /\ \/ conn[k].bad = "no" /\ conn' = [conn EXCEPT ![k].query = "await"] /\ UNCHANGED pool
       \/ /\ conn[k].bad = "yes" \/ conn[k].cmd = "SELECT"
          /\ Broken(k, [conn[k] EXCEPT !.query = "threw"])
    /\ UNCHANGED client

\* External: the server runs the statement; COMMIT and ROLLBACK end its transaction, also
\* when they report an error.  (A SELECT that fails changes as little as one that succeeds.)
ServerReplies(k) ==
    /\ Runs /\ conn[k].query = "await" /\ conn[k].reply = "none" /\ conn[k].bad = "no"
    /\ \E r \in {"ok", "error"} :
      /\ conn[k].cmd = "SELECT" => r = "ok"
      /\ conn' = [conn EXCEPT ![k].reply = r,
                    ![k].open = IF conn[k].cmd = "BEGIN" /\ r = "ok" THEN "yes"
                                ELSE IF conn[k].cmd = "END" THEN "no" ELSE @]
    /\ UNCHANGED <<pool, client>>

\* cancelAll() by the token of the running query.
CancelQuery(k) ==
    /\ Runs /\ conn[k].query = "await" /\ conn[k].cmd = "SELECT" /\ conn[k].reader = "waiting"
    /\ conn' = [conn EXCEPT ![k].reader = "canceled"]
    /\ UNCHANGED <<pool, client>>

\* readLoop(): a result satisfies the promise of the query that waits for it.
ReadResult(k) ==
    /\ Runs /\ conn[k].reader = "waiting" /\ conn[k].reply /= "none" /\ conn[k].query = "await"
    /\ conn' = [conn EXCEPT ![k].query = conn[k].reply, ![k].reply = "none"]
    /\ UNCHANGED <<pool, client>>

\* readLoop() ends: it was canceled or the connection failed; a waiting query is told.
ReaderEnds(k) ==
    /\ Runs /\ conn[k].owner /= None
    /\ conn[k].reader = "canceled" \/ (conn[k].reader = "waiting" /\ conn[k].bad = "yes")
    /\ Broken(k, [conn[k] EXCEPT !.reader = "done", !.query = IF @ = "await" THEN "threw" ELSE @])
    /\ UNCHANGED client

-----------------------------------------------------------------------------
\* Clients and transactions

\* What holds connection k: its client, or the coroutine ~PgTransaction() spawned.
Using(k) == conn[k].owner \in Clients \cup {"auto"} /\ Runs

\* execute() and query(), also begin(), commit() and rollback().
Execute(k, cmd) ==
    /\ Using(k) /\ conn[k].query = "none"
    /\ \/ cmd = "SELECT" /\ conn[k].owner /= "auto" /\ conn[k].tx /= "failed"
       \/ cmd = "BEGIN" /\ conn[k].owner /= "auto" /\ conn[k].tx \in {"none", "done"}
       \/ cmd = "END" /\ conn[k].tx = "open"
    /\ Send(k, cmd)
    /\ UNCHANGED client

\* sendAndReceive() returns or throws.  A BEGIN that succeeded makes the transaction object,
\* one that failed destroys the connection; COMMIT or ROLLBACK sets done_ when it succeeded.
ExecuteReturns(k) ==
    /\ Using(k) /\ conn[k].query \in {"ok", "error", "threw"}
    /\ LET ok == conn[k].query = "ok"
       IN  conn' = [conn EXCEPT ![k].query = "none", ![k].cmd = "none",
                       ![k].tx = CASE conn[k].cmd = "BEGIN" -> IF ok THEN "open" ELSE "failed"
                                   [] conn[k].cmd = "END" /\ ok -> "done"
                                   [] conn[k].owner = "auto" -> "done"
                                   [] OTHER -> @]
    /\ UNCHANGED <<pool, client>>

\* Bug: the destructor gives the connection back with the transaction open.
Unfinished_Ignored(k) == FALSE
Unfinished(k)         == conn[k].owner /= "auto" /\ conn[k].tx = "open"

\* The client lets go of the connection or transaction, or the spawned coroutine ends.  A
\* transaction that is not done is finished by a coroutine of its own.
Release(k) ==
    /\ Using(k) /\ conn[k].query = "none"
    /\ IF conn[k].owner = "auto" THEN conn[k].tx = "done" /\ UNCHANGED client
       ELSE client' = [client EXCEPT ![conn[k].owner].pc = "idle"]
    /\ IF Unfinished(k)
       THEN conn' = [conn EXCEPT ![k].owner = "auto"] /\ UNCHANGED pool
       ELSE GiveBack(k)

-----------------------------------------------------------------------------
\* END stands for COMMIT and ROLLBACK, which differ in nothing here.
Commands == {"SELECT", "BEGIN", "END"}

Next ==
    \/ \E c \in Clients : \/ Acquire(c) \/ CancelAcquire(c) \/ ConnectFails(c) \/ AcquireReturns(c)
                          \/ \E k \in Conns : ConnectDone(c, k)
    \/ \E k \in Conns : \/ GoesBad(k) \/ \E cmd \in Commands : Execute(k, cmd)
                        \/ Flush(k) \/ ServerReplies(k) \/ CancelQuery(k) \/ ReadResult(k)
                        \/ ReaderEnds(k) \/ ExecuteReturns(k) \/ Release(k)

-----------------------------------------------------------------------------
\* Connections the pool accounts for: idle, being made, on their way to a waiter, lent out.
Counted == {k \in Conns : conn[k].owner = "pool" \/ (conn[k].owner /= None /\ conn[k].detached = "no")}

\* totalCount neither leaks nor loses capacity, whatever breaks, times out or is returned in
\* which order: it counts the connections being made, pooled and lent out and still attached.
PoolAccounting ==
    /\ pool.total = Cardinality(pool.connecting) + Cardinality(Counted)
    /\ pool.total <= MaxSize
    /\ \A i, j \in DOMAIN pool.idle : pool.idle[i] = pool.idle[j] => i = j

\* Nobody waits while there is something to get: a waiter in the queue that has not given up
\* means that no connection is idle and the pool is full.
NobodyWaitsInVain ==
    (\E i \in DOMAIN pool.waiters : client[pool.waiters[i]].cancelled = "no")
        => pool.idle = <<>> /\ pool.total = MaxSize

\* A connection is handed on clean: a pooled one that is alive has no open transaction at the
\* server and no statement in flight.
PooledIsClean ==
    \A k \in Conns : conn[k].owner = "pool" /\ Alive(k) =>
        conn[k].open = "no" /\ conn[k].query = "none" /\ conn[k].reply = "none"

\* "When cancelled, the wait is aborted and PgTimeoutError is thrown" (PgPool.h:36): a token
\* that fires while acquire() waits does not end the program.
CancelIsSafe == Runs
=============================================================================
