------------------------------ MODULE MpscQueue ------------------------------
(***************************************************************************)
(* nitrocoro::MpscQueue (include/nitrocoro/core/MpscQueue.h): a linked     *)
(* list with a stub node at the head.  push() is two atomic steps, an      *)
(* exchange of tail_ and a store into the next field of the previous tail; *)
(* between the two the list is cut.  pop() is run by one consumer.  Nodes  *)
(* are addresses: a deleted node may be allocated again by a later push(). *)
(*                                                                         *)
(* `chain' is a history variable, never read by the code: the nodes from   *)
(* head_ to tail_ in the order of the exchanges, cut links included.       *)
(***************************************************************************)
EXTENDS Naturals, Sequences

CONSTANTS Producers,  \* threads that push
          Nodes,      \* addresses of list nodes
          Values,     \* what is queued
          Null        \* nullptr

ASSUME NodeAssumption == Null \notin Nodes

VARIABLES head,    \* head_, the stub
          tail,    \* tail_
          next,    \* the next field of every node
          value,   \* the value field of every node
          live,    \* the nodes that are allocated
          pc,      \* producer between two pushes, or between exchange and link
          node,    \* the local node of push()
          prev,    \* the local prev of push()
          chain

vars == <<head, tail, next, value, live, pc, node, prev, chain>>

Init ==
    \E stub \in Nodes :
        /\ head = stub
        /\ tail = stub
        /\ next = [n \in Nodes |-> Null]
        /\ \E v \in Values : value = [n \in Nodes |-> v]
        /\ live = {stub}
        /\ pc = [p \in Producers |-> "idle"]
        /\ node = [p \in Producers |-> Null]
        /\ prev = [p \in Producers |-> Null]
        /\ chain = <<stub>>

\* Bug: the new node is linked to the stub, not to the tail that the exchange returned.
PushExchange_LinksToHead(p, n, v) ==
    /\ pc[p] = "idle"
    /\ n \notin live
    /\ live' = live \cup {n}
    /\ next' = [next EXCEPT ![n] = Null]
    /\ value' = [value EXCEPT ![n] = v]
    /\ node' = [node EXCEPT ![p] = n]
    /\ prev' = [prev EXCEPT ![p] = head]
    /\ tail' = n
    /\ chain' = Append(chain, n)
    /\ pc' = [pc EXCEPT ![p] = "link"]
    /\ UNCHANGED head

\* push(): new Node, then tail_.exchange(node).
PushExchange(p, n, v) ==
    /\ pc[p] = "idle"
    /\ n \notin live
    /\ live' = live \cup {n}
    /\ next' = [next EXCEPT ![n] = Null]
    /\ value' = [value EXCEPT ![n] = v]
    /\ node' = [node EXCEPT ![p] = n]
    /\ prev' = [prev EXCEPT ![p] = tail]
    /\ tail' = n
    /\ chain' = Append(chain, n)
    /\ pc' = [pc EXCEPT ![p] = "link"]
    /\ UNCHANGED head

\* push(): prev->next.store(node); the locals go out of scope.
PushLink(p) ==
    /\ pc[p] = "link"
    /\ next' = [next EXCEPT ![prev[p]] = node[p]]
    /\ pc' = [pc EXCEPT ![p] = "idle"]
    /\ node' = [node EXCEPT ![p] = Null]
    /\ prev' = [prev EXCEPT ![p] = Null]
    /\ UNCHANGED <<head, tail, value, live, chain>>

\* empty(), and the test of pop().
Empty == next[head] = Null

\* Bug: the wrong node is deleted.
Pop_DeletesNext ==
    /\ ~Empty
    /\ head' = next[head]
    /\ live' = live \ {next[head]}
    /\ chain' = Tail(chain)
    /\ UNCHANGED <<tail, next, value, pc, node, prev>>

\* Bug: pop() compares the successor with tail_ and leaves the last value in the queue.
Pop_KeepsLast ==
    /\ ~Empty
    /\ next[head] # tail
    /\ head' = next[head]
    /\ live' = live \ {head}
    /\ chain' = Tail(chain)
    /\ UNCHANGED <<tail, next, value, pc, node, prev>>

\* pop() with a result: the successor's value is moved out and it becomes the stub.
\* pop() on an empty queue returns nullopt and changes nothing.
Pop ==
    /\ ~Empty
    /\ head' = next[head]
    /\ live' = live \ {head}
    /\ chain' = Tail(chain)
    /\ UNCHANGED <<tail, next, value, pc, node, prev>>

Next ==
    \/ \E p \in Producers, n \in Nodes, v \in Values : PushExchange(p, n, v)
    \/ \E p \in Producers : PushLink(p)
    \/ Pop

Spec == Init /\ [][Next]_vars

\* A producer that started push() finishes it; the consumer keeps popping.
Fairness == WF_vars(Pop) /\ \A p \in Producers : WF_vars(PushLink(p))

FairSpec == Spec /\ Fairness

-----------------------------------------------------------------------------

\* Types of the state of the queue.
TypeOK ==
    /\ head \in Nodes
    /\ tail \in Nodes
    /\ next \in [Nodes -> Nodes \cup {Null}]
    /\ value \in [Nodes -> Values]
    /\ live \in SUBSET Nodes
    /\ pc \in [Producers -> {"idle", "link"}]
    /\ node \in [Producers -> Nodes \cup {Null}]
    /\ prev \in [Producers -> Nodes \cup {Null}]
    /\ chain \in Seq(Nodes)

\* The node push() is about to store into, and the one it stores, are still allocated, and so
\* is every node that pop() can read: no step touches a deleted node.
NoUseAfterFree ==
    /\ \A p \in Producers : pc[p] = "link" => prev[p] \in live /\ node[p] \in live
    /\ head \in live
    /\ next[head] /= Null => next[head] \in live
    /\ tail \in live

\* Pending(p, i): producer p still has to link the i-th node of the chain to its successor.
Pending(p, i) == pc[p] = "link" /\ prev[p] = chain[i] /\ node[p] = chain[i + 1]

\* The list is the chain of exchanges, cut exactly where a producer is between its two steps.
ChainInv ==
    /\ Len(chain) >= 1
    /\ head = chain[1]
    /\ tail = chain[Len(chain)]
    /\ \A i, j \in 1..Len(chain) : chain[i] = chain[j] => i = j
    /\ \A n \in Nodes : n \in live <=> \E i \in 1..Len(chain) : chain[i] = n
    /\ next[tail] = Null
    /\ \A i \in 1..(Len(chain) - 1) :
        \/ next[chain[i]] = chain[i + 1] /\ \A p \in Producers : ~Pending(p, i)
        \/ next[chain[i]] = Null /\ \E p \in Producers : Pending(p, i)
    /\ \A p \in Producers : pc[p] = "link" => \E i \in 1..(Len(chain) - 1) : Pending(p, i)
    /\ \A p, q \in Producers : pc[p] = "link" /\ pc[q] = "link" /\ prev[p] = prev[q] => p = q

\* The inductive invariant: the two above and the types.
IInv == TypeOK /\ ChainInv

\* The queue as its user sees it.
Slots ==
    [i \in 1..(Len(chain) - 1) |->
        [val |-> value[chain[i + 1]],
         st |-> IF next[chain[i]] = Null THEN "reserved" ELSE "published"]]

Queue == INSTANCE PublishQueue WITH slots <- Slots

\* push() and pop() implement the publishing FIFO queue: nothing is lost, duplicated,
\* invented or reordered, whatever the interleaving of exchanges and links.
ImplementsPublishQueue == Queue!Spec

\* A value whose push() got a place in the queue is popped: the list is never cut for good.
EveryPushIsPopped ==
    \A n \in Nodes : (\E i \in 2..Len(chain) : chain[i] = n) ~> head = n
=============================================================================
