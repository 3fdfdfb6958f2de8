------------------------------ MODULE IoRegistry ------------------------------
(***************************************************************************)
(* The table of I/O contexts of a Scheduler (setIoHandler, updateIo,       *)
(* removeIo and process_io_events of src/Scheduler.cc) with the Channels   *)
(* that come and go on its thread and on other threads (constructor and    *)
(* destructor in src/Channel.cc and in CallbackChannel).  File descriptor  *)
(* numbers are reused: the i-th Channel has id i and is on the i-th file.  *)
(* A guard keeps the file open until the Channel has left the table.       *)
(***************************************************************************)
EXTENDS Naturals, Sequences

CONSTANTS Fds,    \* file descriptor numbers
          MaxId   \* bound: Channels ever made

Threads == {"loop", "other"}
Ids == 1 .. MaxId

VARIABLES nextId,   \* nextIoId()
          fdOf,     \* the fd of each Channel
          guard,    \* "yes": setGuard() was called on it
          home,     \* the thread that made it
          life,     \* of the Channel's IoState: "none", "live", "dead"
          wants,    \* events_ of each Channel is not 0
          open,     \* the file each fd number stands for, 0 when closed
          kern,     \* the file epoll has registered under each fd number, or 0
          ctx,      \* ioContexts_: id 0 when the fd has no entry
          queue,    \* closures dispatched to the scheduler and not yet run
          batch     \* events of the last epoll_wait not yet handled: <<fd, file>>

ident == <<nextId, fdOf, guard, home>>
vars == <<ident, life, wants, open, kern, ctx, queue, batch>>

NoCtx == [id |-> 0, handler |-> "no", added |-> "no"]

Init ==
    /\ nextId = 1
    /\ \E f \in Fds : fdOf = [i \in Ids |-> f]
    /\ guard = [i \in Ids |-> "no"] /\ home = [i \in Ids |-> "loop"]
    /\ life = [i \in Ids |-> "none"] /\ wants = [i \in Ids |-> "no"]
    /\ open = [f \in Fds |-> 0] /\ kern = [f \in Fds |-> 0]
    /\ ctx = [f \in Fds |-> NoCtx]
    /\ queue = <<>> /\ batch = {}

\* Bug: the loop runs closures and coroutines between the events of a batch.
Runs_BetweenEvents(t) == TRUE

\* The thread may run: the loop runs nothing but the handlers between the events of a batch.
Runs(t) == t = "loop" => batch = {}

\* Bug: the entry of an earlier Channel is taken over with its addedToEpoll.
SetIoHandler_KeepsAdded(f, i) ==
    ctx' = [ctx EXCEPT ![f] = [id |-> i, handler |-> "yes", added |-> @.added]]

\* setIoHandler(): a smaller id is stale; a greater one evicts the entry.
SetIoHandler(f, i) ==
    LET c == ctx[f]
    IN  ctx' = IF i < c.id THEN ctx
               ELSE [ctx EXCEPT ![f] =
                        [id |-> i, handler |-> "yes", added |-> IF c.id = i THEN c.added ELSE "no"]]

\* updateIo() with events (on) or without: EPOLL_CTL_ADD or MOD, or EPOLL_CTL_DEL.  A MOD leaves
\* the kernel's registration as it is.
UpdateIo(i, on) ==
    LET f == fdOf[i]
        c == IF i = ctx[f].id THEN ctx[f] ELSE [id |-> i, handler |-> "no", added |-> "no"]
    IN  \/ i < ctx[f].id /\ UNCHANGED <<ctx, kern>>
        \/ i >= ctx[f].id /\ on = "yes"
           /\ ctx' = [ctx EXCEPT ![f] = [c EXCEPT !.added = "yes"]]
           /\ kern' = [kern EXCEPT ![f] = IF c.added = "yes" THEN @ ELSE open[f]]
        \/ i >= ctx[f].id /\ on = "no"
           /\ ctx' = [ctx EXCEPT ![f] = [c EXCEPT !.added = "no"]]
           /\ kern' = [kern EXCEPT ![f] = IF c.added = "yes" THEN 0 ELSE @]

\* Bug: the id is not compared.
RemoveIo_NoIdTest(i) ==
    LET f == fdOf[i]
        closes == guard[i] = "yes"
    IN  /\ ctx' = [ctx EXCEPT ![f] = NoCtx]
        /\ kern' = [kern EXCEPT ![f] = 0]
        /\ open' = [open EXCEPT ![f] = IF closes /\ @ = i THEN 0 ELSE @]

\* removeIo() and then the release of the guard, which closes the file: a closed file leaves epoll.
\* Without an entry the assert ends the program: the action is not possible.
RemoveIo(i) ==
    LET f == fdOf[i]
        mine == ctx[f].id = i
        closes == guard[i] = "yes" /\ open[f] = i
    IN  /\ ctx[f].id /= 0
        /\ ctx' = IF mine THEN [ctx EXCEPT ![f] = NoCtx] ELSE ctx
        /\ kern' = [kern EXCEPT ![f] = IF (mine /\ ctx[f].added = "yes") \/ (closes /\ @ = i)
                                         THEN 0 ELSE @]
        /\ open' = [open EXCEPT ![f] = IF closes THEN 0 ELSE @]

\* A file is opened under a free number and a Channel is made on it, on thread t, with a guard
\* (g = "yes") or without.
Create(t, f, g) ==
    /\ Runs(t) /\ nextId \in Ids /\ open[f] = 0
    /\ fdOf' = [fdOf EXCEPT ![nextId] = f]
    /\ guard' = [guard EXCEPT ![nextId] = g] /\ home' = [home EXCEPT ![nextId] = t]
    /\ open' = [open EXCEPT ![f] = nextId]
    /\ life' = [life EXCEPT ![nextId] = "live"]
    /\ nextId' = nextId + 1
    /\ \/ t = "loop" /\ SetIoHandler(f, nextId) /\ UNCHANGED queue
       \/ t = "other" /\ queue' = Append(queue, <<"set", nextId>>) /\ UNCHANGED ctx
    /\ UNCHANGED <<wants, kern, batch>>

\* enable*(), disable*() and disableAll(): on the scheduler's thread, once the constructor's
\* closure has run; no call when events_ does not change.
ChangeEvents(i, on) ==
    /\ Runs("loop") /\ life[i] = "live" /\ wants[i] /= on
    /\ \A k \in 1 .. Len(queue) : queue[k] /= <<"set", i>>
    /\ wants' = [wants EXCEPT ![i] = on]
    /\ UpdateIo(i, on)
    /\ UNCHANGED <<ident, life, open, queue, batch>>

\* Bug: the closure does not hold the guard, the file is closed at once.
Destroy_ReleasesGuard(t, i) ==
    /\ Runs(t) /\ life[i] = "live"
    /\ life' = [life EXCEPT ![i] = "dead"]
    /\ wants' = [wants EXCEPT ![i] = "no"]
    /\ \/ t = "loop" /\ RemoveIo(i) /\ UNCHANGED queue
       \/ t = "other" /\ queue' = Append(queue, <<"remove", i>>)
          /\ open' = [open EXCEPT ![fdOf[i]] = 0]
          /\ kern' = [kern EXCEPT ![fdOf[i]] = 0] /\ UNCHANGED ctx
    /\ UNCHANGED <<ident, batch>>

\* ~Channel(): its closure runs at once on the loop's thread, else it is queued.
Destroy(t, i) ==
    /\ Runs(t) /\ life[i] = "live"
    /\ life' = [life EXCEPT ![i] = "dead"]
    /\ wants' = [wants EXCEPT ![i] = "no"]
    /\ \/ t = "loop" /\ RemoveIo(i) /\ UNCHANGED queue
       \/ t = "other" /\ queue' = Append(queue, <<"remove", i>>) /\ UNCHANGED <<open, kern, ctx>>
    /\ UNCHANGED <<ident, batch>>

\* Without a guard the owner closes the file when it has destroyed the Channel.
CloseFile(i) ==
    /\ guard[i] = "no" /\ life[i] = "dead" /\ open[fdOf[i]] = i
    /\ open' = [open EXCEPT ![fdOf[i]] = 0]
    /\ kern' = [kern EXCEPT ![fdOf[i]] = IF @ = i THEN 0 ELSE @]
    /\ UNCHANGED <<ident, life, wants, ctx, queue, batch>>

\* The loop runs the oldest closure: the constructor's only when the Channel still lives.
RunClosure ==
    /\ Runs("loop") /\ queue /= <<>>
    /\ queue' = Tail(queue)
    /\ LET op == Head(queue)[1]
           i == Head(queue)[2]
       IN  \/ op = "set" /\ life[i] = "live" /\ SetIoHandler(fdOf[i], i) /\ UNCHANGED <<kern, open>>
           \/ op = "set" /\ life[i] = "dead" /\ UNCHANGED <<ctx, kern, open>>
           \/ op = "remove" /\ RemoveIo(i)
    /\ UNCHANGED <<ident, life, wants, batch>>

\* epoll_wait() returns the events of some registered files.
EpollWait ==
    /\ batch = {}
    /\ \E F \in SUBSET {f \in Fds : kern[f] /= 0} :
        F /= {} /\ batch' = {<<f, kern[f]>> : f \in F}
    /\ UNCHANGED <<ident, life, wants, open, kern, ctx, queue>>

\* The loop looks an event's fd up and calls the handler, which may do nothing else to the table.
HandleEvent ==
    /\ \E e \in batch : batch' = batch \ {e}
    /\ UNCHANGED <<ident, life, wants, open, kern, ctx, queue>>

Next ==
    \/ RunClosure \/ EpollWait \/ HandleEvent
    \/ \E t \in Threads, f \in Fds, g \in {"yes", "no"} : Create(t, f, g)
    \/ \E t \in Threads, i \in Ids : Destroy(t, i)
    \/ \E i \in Ids : CloseFile(i) \/ \E on \in {"yes", "no"} : ChangeEvents(i, on)

Spec == Init /\ [][Next]_vars

-----------------------------------------------------------------------------
\* Types of the table, of epoll's registrations and of the closures.
TypeOK ==
    /\ nextId \in 1 .. MaxId + 1 /\ fdOf \in [Ids -> Fds]
    /\ guard \in [Ids -> {"yes", "no"}] /\ home \in [Ids -> Threads]
    /\ life \in [Ids -> {"none", "live", "dead"}] /\ wants \in [Ids -> {"yes", "no"}]
    /\ open \in [Fds -> 0 .. MaxId] /\ kern \in [Fds -> 0 .. MaxId]
    /\ ctx \in [Fds -> [id : 0 .. MaxId, handler : {"yes", "no"}, added : {"yes", "no"}]]
    /\ queue \in Seq({"set", "remove"} \X Ids)
    /\ batch \subseteq Fds \X Ids

\* A Channel that waits for events is the one registered, in the table and in epoll: no late
\* closure of an earlier Channel on the same fd number takes it out (Channel.h:47-50) and its
\* handler is there when epoll reports an event (Scheduler.cc:172).  The state is well typed.
EnabledIsRegistered ==
    TypeOK /\ \A i \in Ids : life[i] = "live" /\ wants[i] = "yes" =>
        /\ ctx[fdOf[i]] = [id |-> i, handler |-> "yes", added |-> "yes"]
        /\ kern[fdOf[i]] = i

\* addedToEpoll agrees with epoll for the Channel that owns the entry while its file is open,
\* so that no EPOLL_CTL_ADD or MOD of it fails (updateIo throws when one does).
AddedIsTrue ==
    \A f \in Fds : ctx[f].id /= 0 /\ open[f] = ctx[f].id
                       => (ctx[f].added = "yes" <=> kern[f] = ctx[f].id)

\* The handler of a live Channel is called with events of its own file only, although the events
\* of a batch are looked up by fd number after epoll_wait() (Scheduler.cc:158-172).
EventIsForItsFile ==
    \A e \in batch, i \in Ids : ctx[e[1]].id = i /\ life[i] = "live" => i = e[2]

\* The removal of Channel i is the next thing that happens to the table.
RemovalIsNext(i) ==
    \/ queue /= <<>> /\ Head(queue) = <<"remove", i>>
    \/ life[i] = "live" /\ Runs("loop")

\* The Channels so far on the fd number of i had guards and were made on the loop's thread.
CarefulUse(i) ==
    \A j \in 1 .. (nextId - 1) : fdOf[j] = fdOf[i] => guard[j] = "yes" /\ home[j] = "loop"

\* removeIo() finds an entry, its own or that of a later Channel (the assert of Scheduler.cc:309),
\* when the Channels on the number have guards and are made on the loop's thread.
RemoveFindsEntry == \A i \in Ids : RemovalIsNext(i) /\ CarefulUse(i) => ctx[fdOf[i]].id /= 0

\* The assert of Scheduler.cc:309 for every Channel with a guard that the loop is about to remove
\* with a queued closure.
RemoveAssert ==
    queue /= <<>> /\ Head(queue)[1] = "remove" /\ (\A j \in 1 .. (nextId - 1) : guard[j] = "yes")
        => ctx[fdOf[Head(queue)[2]]].id /= 0

\* The file of a Channel with a guard is not closed until epoll cleanup is done (Channel.h:53-54).
GuardKeepsFile ==
    \A i \in 1 .. (nextId - 1) : guard[i] = "yes" /\ open[fdOf[i]] /= i
        => kern[fdOf[i]] /= i /\ ctx[fdOf[i]].id /= i
=============================================================================
