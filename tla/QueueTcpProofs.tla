--------------------------- MODULE QueueTcpProofs ---------------------------
(***************************************************************************)
(* Proofs about the queue between threads, for any producers, nodes and    *)
(* values, and about the TCP server and its connections, for any number of *)
(* them.                                                                   *)
(***************************************************************************)
EXTENDS MpscQueue, Tcp, Integers, TLAPS

-----------------------------------------------------------------------------
\* MpscQueue

\* Sequences with the same elements are equal.
LEMMA SeqEqual ==
    ASSUME NEW S, NEW s \in Seq(S), NEW t \in Seq(S), Len(s) = Len(t), \A i \in 1..Len(s) : s[i] = t[i]
    PROVE  s = t
  OBVIOUS

\* The constructor establishes the invariant.
THEOREM InitIInv == Init => IInv
<1> SUFFICES ASSUME Init PROVE IInv
  OBVIOUS
<1>1. PICK stub \in Nodes :
        /\ head = stub /\ tail = stub /\ next = [n \in Nodes |-> Null]
        /\ live = {stub} /\ pc = [p \in Producers |-> "idle"]
        /\ node = [p \in Producers |-> Null] /\ prev = [p \in Producers |-> Null]
        /\ chain = <<stub>> /\ \E v \in Values : value = [n \in Nodes |-> v]
  BY DEF Init
<1>2. TypeOK
  BY <1>1 DEF TypeOK
<1>3. ChainInv
  BY <1>1 DEF ChainInv
<1> QED
  BY <1>2, <1>3 DEF IInv

\* new Node and tail_.exchange keep the invariant: the new node is the new end of the chain and
\* the link from the old end is pending.
LEMMA PushExchangeKeepsIInv ==
    ASSUME IInv, NEW p \in Producers, NEW n \in Nodes, NEW v \in Values, PushExchange(p, n, v)
    PROVE  IInv'
<1> USE NodeAssumption
<1> DEFINE m == Len(chain)
<1>1. TypeOK'
  BY DEF IInv, TypeOK, PushExchange
<1>2. /\ chain \in Seq(Nodes) /\ m \in Nat /\ m >= 1
      /\ next \in [Nodes -> Nodes \cup {Null}] /\ pc \in [Producers -> {"idle", "link"}]
      /\ node \in [Producers -> Nodes \cup {Null}] /\ prev \in [Producers -> Nodes \cup {Null}]
      /\ tail \in Nodes
  BY DEF IInv, TypeOK, ChainInv
<1>3. /\ Len(chain') = m + 1
      /\ chain'[m + 1] = n
      /\ \A i \in 1..m : chain'[i] = chain[i]
  BY <1>2 DEF PushExchange
<1>4. /\ \A i \in 1..m : chain[i] \in Nodes /\ chain[i] /= n
      /\ chain[m] = tail
  BY <1>2 DEF IInv, ChainInv, PushExchange
<1>5. /\ pc[p] = "idle" /\ pc'[p] = "link" /\ node'[p] = n /\ prev'[p] = tail
      /\ \A q \in Producers \ {p} : pc'[q] = pc[q] /\ node'[q] = node[q] /\ prev'[q] = prev[q]
      /\ next'[n] = Null /\ \A k \in Nodes \ {n} : next'[k] = next[k]
      /\ tail' = n /\ head' = head /\ live' = live \cup {n}
  BY <1>2 DEF PushExchange
<1> HIDE DEF m
<1>6. /\ Len(chain') >= 1 /\ head' = chain'[1] /\ tail' = chain'[Len(chain')]
      /\ next'[tail'] = Null
  BY <1>2, <1>3, <1>5 DEF IInv, ChainInv, m
<1>7. ASSUME NEW i \in 1..Len(chain'), NEW j \in 1..Len(chain'), chain'[i] = chain'[j]
      PROVE  i = j
  <2>1. CASE i \in 1..m /\ j \in 1..m
    BY <2>1, <1>3, <1>7 DEF IInv, ChainInv, m
  <2>2. CASE i = m + 1 \/ j = m + 1
    BY <2>2, <1>2, <1>3, <1>4, <1>7
  <2> QED
    BY <2>1, <2>2, <1>2, <1>3
<1>8. \A k \in Nodes : k \in live' <=> \E i \in 1..Len(chain') : chain'[i] = k
  <2> SUFFICES ASSUME NEW k \in Nodes
               PROVE  k \in live' <=> \E i \in 1..Len(chain') : chain'[i] = k
    OBVIOUS
  <2>1. CASE k = n
    BY <2>1, <1>2, <1>3, <1>5
  <2>2. CASE k /= n
    <3>1. k \in live' <=> \E i \in 1..m : chain[i] = k
      BY <2>2, <1>5 DEF IInv, ChainInv, m
    <3>2. (\E i \in 1..m : chain[i] = k) <=> \E i \in 1..Len(chain') : chain'[i] = k
      BY <2>2, <1>2, <1>3
    <3> QED
      BY <3>1, <3>2
  <2> QED
    BY <2>1, <2>2
<1>9. ASSUME NEW i \in 1..(Len(chain') - 1)
      PROVE  \/ next'[chain'[i]] = chain'[i + 1] /\ \A q \in Producers : ~Pending(q, i)'
             \/ next'[chain'[i]] = Null /\ \E q \in Producers : Pending(q, i)'
  <2>1. CASE i = m
    BY <2>1, <1>2, <1>3, <1>4, <1>5 DEF Pending, IInv, ChainInv
  <2>2. CASE i \in 1..(m - 1)
    <3>1. /\ i \in 1..m /\ i + 1 \in 1..m /\ m \in 1..m /\ i /= m
          /\ chain'[i] = chain[i] /\ chain'[i + 1] = chain[i + 1]
          /\ chain[i] \in Nodes \ {n}
      BY <2>2, <1>2, <1>3, <1>4
    <3>2. chain[i] /= tail
      BY <3>1, <1>4 DEF IInv, ChainInv, m
    <3>3. \A q \in Producers : Pending(q, i)' <=> Pending(q, i)
      BY <3>1, <3>2, <1>5 DEF Pending
    <3>4. next'[chain'[i]] = next[chain[i]]
      BY <3>1, <1>5
    <3> QED
      BY <3>1, <3>3, <3>4, <2>2 DEF IInv, ChainInv, m
  <2> QED
    BY <2>1, <2>2, <1>2, <1>3
<1>10. ASSUME NEW q \in Producers, pc'[q] = "link"
       PROVE  \E i \in 1..(Len(chain') - 1) : Pending(q, i)'
  <2>1. CASE q = p
    <3>1. PICK k \in Nat : k = m
      BY <1>2
    <3>2. k \in 1..(Len(chain') - 1) /\ Pending(q, k)'
      BY <2>1, <3>1, <1>2, <1>3, <1>4, <1>5 DEF Pending
    <3> QED
      BY <3>2
  <2>2. CASE q /= p
    <3>1. PICK i \in 1..(m - 1) : Pending(q, i)
      BY <2>2, <1>5, <1>10 DEF IInv, ChainInv, m
    <3>2. i \in 1..(Len(chain') - 1) /\ Pending(q, i)'
      BY <2>2, <3>1, <1>2, <1>3, <1>5 DEF Pending
    <3> QED
      BY <3>2
  <2> QED
    BY <2>1, <2>2
<1>11. ASSUME NEW q \in Producers, pc[q] = "link" PROVE prev[q] /= tail
  <2>1. PICK i \in 1..(m - 1) : Pending(q, i)
    BY <1>11 DEF IInv, ChainInv, m
  <2>2. i \in 1..m /\ m \in 1..m /\ i /= m
    BY <1>2
  <2> QED
    BY <2>1, <2>2, <1>4 DEF Pending, IInv, ChainInv, m
<1>12. \A q, r \in Producers : pc'[q] = "link" /\ pc'[r] = "link" /\ prev'[q] = prev'[r] => q = r
  BY <1>5, <1>11 DEF IInv, ChainInv
<1>13. ChainInv'
  BY <1>6, <1>7, <1>8, <1>9, <1>10, <1>12 DEF ChainInv
<1> QED
  BY <1>1, <1>13 DEF IInv

\* prev->next.store(node) keeps the invariant: the pending link becomes a real one.
LEMMA PushLinkKeepsIInv ==
    ASSUME IInv, NEW p \in Producers, PushLink(p)
    PROVE  IInv'
<1> USE NodeAssumption
<1>1. /\ chain \in Seq(Nodes) /\ Len(chain) \in Nat
      /\ next \in [Nodes -> Nodes \cup {Null}] /\ pc \in [Producers -> {"idle", "link"}]
      /\ node \in [Producers -> Nodes \cup {Null}] /\ prev \in [Producers -> Nodes \cup {Null}]
      /\ \A i \in 1..Len(chain) : chain[i] \in Nodes
  BY DEF IInv, TypeOK
<1>2. pc[p] = "link"
  BY DEF PushLink
<1>3. PICK k \in 1..(Len(chain) - 1) : Pending(p, k)
  BY <1>2 DEF IInv, ChainInv
<1>4. /\ k \in 1..Len(chain) /\ k + 1 \in 1..Len(chain) /\ k /= Len(chain)
      /\ Len(chain) \in 1..Len(chain)
      /\ prev[p] = chain[k] /\ node[p] = chain[k + 1]
      /\ chain[k] \in Nodes /\ chain[k + 1] \in Nodes
  BY <1>1, <1>3 DEF Pending
<1>5. /\ UNCHANGED <<head, tail, value, live, chain>>
      /\ pc' = [pc EXCEPT ![p] = "idle"]
      /\ next' = [next EXCEPT ![chain[k]] = chain[k + 1]]
      /\ node' = [node EXCEPT ![p] = Null] /\ prev' = [prev EXCEPT ![p] = Null]
  BY <1>4 DEF PushLink
<1>6. TypeOK'
  BY <1>1, <1>4, <1>5 DEF IInv, TypeOK
<1>7. /\ next'[chain[k]] = chain[k + 1]
      /\ \A j \in Nodes \ {chain[k]} : next'[j] = next[j]
      /\ pc'[p] = "idle"
      /\ \A q \in Producers \ {p} : pc'[q] = pc[q] /\ node'[q] = node[q] /\ prev'[q] = prev[q]
  BY <1>1, <1>4, <1>5
<1>8. \A i \in 1..Len(chain) : i /= k => chain[i] /= chain[k]
  BY <1>4 DEF IInv, ChainInv
<1>9. tail = chain[Len(chain)]
  BY DEF IInv, ChainInv
<1>10. next'[tail'] = Null
  BY <1>1, <1>4, <1>5, <1>7, <1>8, <1>9 DEF IInv, ChainInv
<1>11. \A q \in Producers \ {p}, i \in Nat : Pending(q, i)' <=> Pending(q, i)
  BY <1>5, <1>7 DEF Pending
<1>12. \A i \in Nat : ~Pending(p, i)'
  BY <1>7 DEF Pending
<1>13. ASSUME NEW i \in 1..(Len(chain') - 1)
       PROVE  \/ next'[chain'[i]] = chain'[i + 1] /\ \A q \in Producers : ~Pending(q, i)'
              \/ next'[chain'[i]] = Null /\ \E q \in Producers : Pending(q, i)'
  <2>1. i \in 1..(Len(chain) - 1) /\ i \in 1..Len(chain) /\ chain[i] \in Nodes /\ i \in Nat
    BY <1>1, <1>5
  <2>2. CASE i = k
    <3>1. \A q \in Producers \ {p} : ~Pending(q, k)
      BY <1>2, <1>4 DEF Pending, IInv, ChainInv
    <3> QED
      BY <2>1, <2>2, <3>1, <1>5, <1>7, <1>11, <1>12
  <2>3. CASE i /= k
    <3>1. next'[chain[i]] = next[chain[i]] /\ chain[i] /= chain[k]
      BY <2>1, <2>3, <1>7, <1>8
    <3>2. ~Pending(p, i)
      BY <3>1, <1>4 DEF Pending
    <3>3. \A q \in Producers : Pending(q, i)' <=> Pending(q, i)
      BY <2>1, <3>2, <1>11, <1>12
    <3>4. \/ next[chain[i]] = chain[i + 1] /\ \A q \in Producers : ~Pending(q, i)
          \/ next[chain[i]] = Null /\ \E q \in Producers : Pending(q, i)
      BY <2>1 DEF IInv, ChainInv
    <3> QED
      BY <3>1, <3>3, <3>4, <1>5
  <2> QED
    BY <2>2, <2>3
<1>14. ASSUME NEW q \in Producers, pc'[q] = "link"
       PROVE  \E i \in 1..(Len(chain') - 1) : Pending(q, i)'
  <2>1. q /= p /\ pc[q] = "link"
    BY <1>7, <1>14
  <2>2. PICK i \in 1..(Len(chain) - 1) : Pending(q, i)
    BY <2>1 DEF IInv, ChainInv
  <2>3. i \in Nat /\ i \in 1..(Len(chain') - 1)
    BY <1>1, <1>5
  <2>4. Pending(q, i)'
    BY <2>1, <2>2, <2>3, <1>11
  <2> QED
    BY <2>3, <2>4
<1>15. \A q, r \in Producers : pc'[q] = "link" /\ pc'[r] = "link" /\ prev'[q] = prev'[r] => q = r
  BY <1>7 DEF IInv, ChainInv
<1>16. /\ Len(chain') >= 1 /\ head' = chain'[1] /\ tail' = chain'[Len(chain')]
       /\ \A i, j \in 1..Len(chain') : chain'[i] = chain'[j] => i = j
       /\ \A n \in Nodes : n \in live' <=> \E i \in 1..Len(chain') : chain'[i] = n
  BY <1>5 DEF IInv, ChainInv
<1>17. ChainInv'
  BY <1>10, <1>13, <1>14, <1>15, <1>16 DEF ChainInv
<1> QED
  BY <1>6, <1>17 DEF IInv

\* What pop() sees when head->next is set: the second node of the chain.
LEMMA PopFacts ==
    ASSUME IInv, Pop
    PROVE  /\ Len(chain) \in Nat /\ Len(chain) >= 2
           /\ next[head] = chain[2]
           /\ head' = chain[2]
           /\ chain' \in Seq(Nodes) /\ Len(chain') = Len(chain) - 1
           /\ \A i \in 1..Len(chain') : i + 1 \in 1..Len(chain) /\ chain'[i] = chain[i + 1]
<1> USE NodeAssumption
<1>1. chain \in Seq(Nodes) /\ Len(chain) \in Nat /\ Len(chain) >= 1 /\ next[head] /= Null
      /\ head = chain[1] /\ tail = chain[Len(chain)] /\ next[tail] = Null
  BY DEF IInv, TypeOK, ChainInv, Pop, Empty
<1>2. Len(chain) >= 2 /\ 1 \in 1..(Len(chain) - 1) /\ 1 + 1 = 2
  BY <1>1
<1>3. next[chain[1]] = chain[1 + 1]
  BY <1>1, <1>2 DEF IInv, ChainInv
<1>4. chain' = Tail(chain) /\ chain /= << >>
  BY <1>1, <1>2 DEF Pop
<1>5. chain' \in Seq(Nodes) /\ Len(chain') = Len(chain) - 1
      /\ \A i \in 1..Len(chain') : i + 1 \in 1..Len(chain) /\ chain'[i] = chain[i + 1]
  BY <1>1, <1>4
<1> QED
  BY <1>1, <1>2, <1>3, <1>5 DEF Pop

\* pop() keeps the invariant: the stub is dropped and its successor becomes the stub.
LEMMA PopKeepsIInv ==
    ASSUME IInv, Pop
    PROVE  IInv'
<1> USE NodeAssumption
<1>1. /\ Len(chain) \in Nat /\ Len(chain) >= 2
      /\ next[head] = chain[2] /\ head' = chain[2]
      /\ chain' \in Seq(Nodes) /\ Len(chain') = Len(chain) - 1
      /\ \A i \in 1..Len(chain') : i + 1 \in 1..Len(chain) /\ chain'[i] = chain[i + 1]
  BY PopFacts
<1>2. chain \in Seq(Nodes) /\ \A i \in 1..Len(chain) : chain[i] \in Nodes
  BY DEF IInv, TypeOK
<1>3. UNCHANGED <<tail, next, value, pc, node, prev>> /\ live' = live \ {chain[1]}
  BY DEF Pop, IInv, ChainInv
<1>4. TypeOK'
  BY <1>1, <1>2, <1>3 DEF IInv, TypeOK
<1>5. /\ Len(chain') >= 1 /\ head' = chain'[1] /\ tail' = chain'[Len(chain')] /\ next'[tail'] = Null
  BY <1>1, <1>3 DEF IInv, ChainInv
<1>6. ASSUME NEW i \in 1..Len(chain'), NEW j \in 1..Len(chain'), chain'[i] = chain'[j]
      PROVE  i = j
  <2>1. i + 1 = j + 1
    BY <1>1, <1>6 DEF IInv, ChainInv
  <2> QED
    BY <2>1, <1>1
<1>7. ASSUME NEW n \in Nodes
      PROVE  n \in live' <=> \E i \in 1..Len(chain') : chain'[i] = n
  <2>1. ASSUME n \in live' PROVE \E i \in 1..Len(chain') : chain'[i] = n
    <3>1. PICK i \in 1..Len(chain) : chain[i] = n
      BY <2>1, <1>3 DEF IInv, ChainInv
    <3>2. i /= 1
      BY <2>1, <3>1, <1>3
    <3>3. i - 1 \in 1..Len(chain') /\ (i - 1) + 1 = i
      BY <3>2, <1>1
    <3>4. chain'[i - 1] = n
      BY <3>1, <3>3, <1>1
    <3> QED
      BY <3>3, <3>4
  <2>2. ASSUME NEW i \in 1..Len(chain'), chain'[i] = n PROVE n \in live'
    <3>1. i + 1 \in 1..Len(chain) /\ chain[i + 1] = n /\ 1 \in 1..Len(chain) /\ i + 1 /= 1
      BY <2>2, <1>1
    <3>2. n \in live /\ n /= chain[1]
      BY <3>1 DEF IInv, ChainInv
    <3> QED
      BY <3>2, <1>3
  <2> QED
    BY <2>1, <2>2
<1>8. ASSUME NEW i \in Nat, i \in 1..(Len(chain') - 1)
      PROVE  /\ i + 1 \in 1..(Len(chain) - 1)
             /\ chain'[i] = chain[i + 1] /\ chain'[i + 1] = chain[i + 2]
             /\ \A q \in Producers : Pending(q, i)' <=> Pending(q, i + 1)
  <2>1. i + 1 \in 1..(Len(chain) - 1) /\ i \in 1..Len(chain') /\ i + 1 \in 1..Len(chain')
        /\ (i + 1) + 1 = i + 2
    BY <1>1, <1>8
  <2>2. chain'[i] = chain[i + 1] /\ chain'[i + 1] = chain[i + 2]
    BY <2>1, <1>1
  <2> QED
    BY <2>1, <2>2, <1>3 DEF Pending
<1>9. ASSUME NEW i \in 1..(Len(chain') - 1)
      PROVE  \/ next'[chain'[i]] = chain'[i + 1] /\ \A q \in Producers : ~Pending(q, i)'
             \/ next'[chain'[i]] = Null /\ \E q \in Producers : Pending(q, i)'
  <2>1. i \in Nat /\ (i + 1) + 1 = i + 2
    BY <1>1
  <2>2. \/ next[chain[i + 1]] = chain[(i + 1) + 1] /\ \A q \in Producers : ~Pending(q, i + 1)
        \/ next[chain[i + 1]] = Null /\ \E q \in Producers : Pending(q, i + 1)
    BY <2>1, <1>8 DEF IInv, ChainInv
  <2> QED
    BY <2>1, <2>2, <1>3, <1>8
<1>10. ASSUME NEW q \in Producers, pc'[q] = "link"
       PROVE  \E i \in 1..(Len(chain') - 1) : Pending(q, i)'
  <2>1. PICK i \in 1..(Len(chain) - 1) : Pending(q, i)
    BY <1>3, <1>10 DEF IInv, ChainInv
  <2>2. i /= 1
    <3>1. CASE i = 1
      <4>1. next[chain[1]] /= Null
        BY <1>1, <1>2 DEF IInv, ChainInv
      <4> QED
        BY <2>1, <3>1, <4>1 DEF IInv, ChainInv
    <3> QED
      BY <3>1
  <2>3. PICK j \in Nat : j = i - 1
    BY <2>2, <1>1
  <2>4. j \in 1..(Len(chain') - 1) /\ j + 1 = i
    BY <2>2, <2>3, <1>1
  <2>5. Pending(q, j)'
    BY <2>1, <2>4, <1>8
  <2> QED
    BY <2>4, <2>5
<1>11. \A q, r \in Producers : pc'[q] = "link" /\ pc'[r] = "link" /\ prev'[q] = prev'[r] => q = r
  BY <1>3 DEF IInv, ChainInv
<1>12. ChainInv'
  BY <1>5, <1>6, <1>7, <1>9, <1>10, <1>11 DEF ChainInv
<1> QED
  BY <1>4, <1>12 DEF IInv

\* Every step of push() and pop() keeps the invariant.
THEOREM NextIInv == IInv /\ [Next]_vars => IInv'
<1> SUFFICES ASSUME IInv, [Next]_vars PROVE IInv'
  OBVIOUS
<1>1. CASE UNCHANGED vars
  BY <1>1 DEF vars, IInv, TypeOK, ChainInv, Pending
<1> QED
  BY <1>1, PushExchangeKeepsIInv, PushLinkKeepsIInv, PopKeepsIInv DEF Next

\* In every reachable state the list is the chain of exchanges, cut only at pending links.
THEOREM MpscInvariant == Spec => []IInv
BY InitIInv, NextIInv, PTL DEF Spec

\* push() never stores into a deleted node and pop() never reads one, although pop() deletes
\* nodes while pushes are in flight.
THEOREM NoUseAfterFreeHolds == Spec => []NoUseAfterFree
<1>1. ASSUME IInv PROVE NoUseAfterFree
  <2>1. chain \in Seq(Nodes) /\ Len(chain) \in Nat /\ Len(chain) >= 1
        /\ \A i \in 1..Len(chain) : chain[i] \in Nodes /\ chain[i] \in live
    BY <1>1 DEF IInv, TypeOK, ChainInv
  <2>2. ASSUME NEW p \in Producers, pc[p] = "link" PROVE prev[p] \in live /\ node[p] \in live
    <3>1. PICK i \in 1..(Len(chain) - 1) : Pending(p, i)
      BY <1>1, <2>2 DEF IInv, ChainInv
    <3>2. i \in 1..Len(chain) /\ i + 1 \in 1..Len(chain)
      BY <2>1
    <3> QED
      BY <2>1, <3>1, <3>2 DEF Pending
  <2>3. head \in live /\ tail \in live
    BY <1>1, <2>1 DEF IInv, ChainInv
  <2>4. ASSUME next[head] /= Null PROVE next[head] \in live
    <3>1. head = chain[1] /\ tail = chain[Len(chain)] /\ next[tail] = Null
      BY <1>1 DEF IInv, ChainInv
    <3>2. 1 \in 1..(Len(chain) - 1) /\ 1 + 1 \in 1..Len(chain)
      BY <2>1, <2>4, <3>1
    <3>3. next[chain[1]] = chain[1 + 1]
      BY <1>1, <2>4, <3>1, <3>2 DEF IInv, ChainInv
    <3> QED
      BY <2>1, <3>1, <3>2, <3>3
  <2> QED
    BY <2>2, <2>3, <2>4 DEF NoUseAfterFree
<1> QED
  BY <1>1, MpscInvariant, PTL

\* The user's view of a chain of nodes is a sequence of slots, one shorter than the chain.
LEMMA SlotsFacts ==
    ASSUME NEW c \in Seq(Nodes), Len(c) >= 1, NEW nx, NEW vl \in [Nodes -> Values],
           NEW s, s = [i \in 1..(Len(c) - 1) |->
                         [val |-> vl[c[i + 1]], st |-> IF nx[c[i]] = Null THEN "reserved" ELSE "published"]]
    PROVE  /\ s \in Seq([val : Values, st : {"reserved", "published"}])
           /\ Len(s) = Len(c) - 1
           /\ \A i \in 1..Len(s) : s[i] = [val |-> vl[c[i + 1]], st |-> IF nx[c[i]] = Null THEN "reserved" ELSE "published"]
<1> DEFINE k == Len(c) - 1
<1>1. k \in Nat
  OBVIOUS
<1>2. \A i \in 1..k : c[i + 1] \in Nodes
  BY <1>1
<1>3. \A i \in 1..k : s[i] = [val |-> vl[c[i + 1]], st |-> IF nx[c[i]] = Null THEN "reserved" ELSE "published"]
  OBVIOUS
<1>4. \A i \in 1..k : s[i] \in [val : Values, st : {"reserved", "published"}]
  BY <1>2, <1>3
<1>5. s = [i \in 1..k |-> s[i]]
  OBVIOUS
<1> HIDE DEF k
<1>6. s \in Seq([val : Values, st : {"reserved", "published"}]) /\ Len(s) = k
  BY <1>1, <1>4, <1>5
<1> QED
  BY <1>3, <1>6 DEF k

\* Every step of the list is a step of the publishing queue, or leaves it alone.
THEOREM MpscStepRefines ==
    ASSUME IInv, IInv', [Next]_vars
    PROVE  [Queue!Next]_Slots
<1> USE NodeAssumption
<1> DEFINE Rec == [val : Values, st : {"reserved", "published"}]
<1>1. /\ chain \in Seq(Nodes) /\ Len(chain) \in Nat /\ Len(chain) >= 1
      /\ chain' \in Seq(Nodes) /\ Len(chain') \in Nat /\ Len(chain') >= 1
      /\ \A i \in 1..Len(chain) : chain[i] \in Nodes
  BY DEF IInv, TypeOK, ChainInv
<1>2. value \in [Nodes -> Values] /\ value' \in [Nodes -> Values]
  BY DEF IInv, TypeOK
<1>3. /\ Slots \in Seq(Rec) /\ Len(Slots) = Len(chain) - 1
      /\ \A i \in 1..Len(Slots) :
            Slots[i] = [val |-> value[chain[i + 1]], st |-> IF next[chain[i]] = Null THEN "reserved" ELSE "published"]
  BY <1>1, <1>2, SlotsFacts DEF Slots
<1>4. /\ Slots' \in Seq(Rec) /\ Len(Slots') = Len(chain') - 1
      /\ \A i \in 1..Len(Slots') :
            Slots'[i] = [val |-> value'[chain'[i + 1]], st |-> IF next'[chain'[i]] = Null THEN "reserved" ELSE "published"]
  BY <1>1, <1>2, SlotsFacts DEF Slots
<1>5. ASSUME NEW p \in Producers, NEW n \in Nodes, NEW v \in Values, PushExchange(p, n, v)
      PROVE  Queue!Reserve(v)
  <2> DEFINE r == [val |-> v, st |-> "reserved"]
             q == Append(Slots, r)
  <2>1. /\ Len(chain') = Len(chain) + 1 /\ chain'[Len(chain) + 1] = n
        /\ \A i \in 1..Len(chain) : chain'[i] = chain[i]
    BY <1>1, <1>5 DEF PushExchange
  <2>2. \A i \in 1..Len(chain) : chain[i] /= n
    BY <1>1, <1>5 DEF PushExchange, IInv, ChainInv
  <2>3. /\ value'[n] = v /\ next'[n] = Null
        /\ \A k \in Nodes \ {n} : value'[k] = value[k] /\ next'[k] = next[k]
    BY <1>5 DEF PushExchange, IInv, TypeOK
  <2>4. r \in Rec
    OBVIOUS
  <2>5. /\ q \in Seq(Rec) /\ Len(q) = Len(Slots) + 1 /\ q[Len(Slots) + 1] = r
        /\ \A i \in 1..Len(Slots) : q[i] = Slots[i]
    <3> HIDE DEF r, Rec
    <3>1. Slots \in Seq(Rec)
      BY <1>3
    <3> QED
      BY <2>4, <3>1
  <2> HIDE DEF q
  <2>6. Len(Slots') = Len(q)
    BY <1>1, <1>3, <1>4, <2>1, <2>5
  <2>7. ASSUME NEW i \in 1..Len(Slots') PROVE Slots'[i] = q[i]
    <3>1. CASE i \in 1..Len(Slots)
      <4>1. i \in 1..Len(chain) /\ i + 1 \in 1..Len(chain)
        BY <1>1, <1>3, <3>1
      <4>2. /\ chain'[i] = chain[i] /\ chain'[i + 1] = chain[i + 1]
            /\ value'[chain[i + 1]] = value[chain[i + 1]] /\ next'[chain[i]] = next[chain[i]]
        BY <4>1, <1>1, <2>1, <2>2, <2>3
      <4>3. Slots'[i] = [val |-> value'[chain'[i + 1]],
                         st |-> IF next'[chain'[i]] = Null THEN "reserved" ELSE "published"]
        BY <1>4
      <4>4. Slots[i] = [val |-> value[chain[i + 1]],
                        st |-> IF next[chain[i]] = Null THEN "reserved" ELSE "published"]
        BY <3>1, <1>3
      <4>5. Slots'[i] = Slots[i]
        BY <4>2, <4>3, <4>4
      <4> QED
        BY <4>5, <3>1, <2>5
    <3>2. CASE i = Len(Slots) + 1
      <4>1. i = Len(chain) /\ i \in 1..Len(chain) /\ chain[i] = tail /\ tail \in Nodes \ {n}
        BY <3>2, <1>1, <1>3, <2>2 DEF IInv, ChainInv
      <4>2. next'[chain'[i]] = Null /\ value'[chain'[i + 1]] = v
        BY <4>1, <2>1, <2>3 DEF IInv, ChainInv
      <4> QED
        BY <4>2, <3>2, <1>4, <2>5
    <3> QED
      BY <3>1, <3>2, <1>1, <1>3, <1>4, <2>1
  <2>8. Slots' = q
    <3> HIDE DEF Rec
    <3>1. Slots' \in Seq(Rec) /\ q \in Seq(Rec)
      BY <1>4, <2>5
    <3> QED
      BY <3>1, <2>6, <2>7, SeqEqual
  <2> QED
    BY <2>8 DEF Queue!Reserve, q
<1>6. ASSUME NEW p \in Producers, PushLink(p)
      PROVE  \E k \in 1..Len(Slots) : Queue!Publish(k)
  <2>1. PICK k \in 1..(Len(chain) - 1) : Pending(p, k)
    BY <1>6 DEF PushLink, IInv, ChainInv
  <2>2. /\ k \in 1..Len(Slots) /\ k \in 1..Len(chain) /\ k + 1 \in 1..Len(chain)
        /\ chain[k] \in Nodes /\ chain[k + 1] \in Nodes
    BY <1>1, <1>3
  <2>3. next[chain[k]] = Null
    BY <2>1 DEF IInv, ChainInv
  <2>4. chain' = chain /\ value' = value /\ next' = [next EXCEPT ![chain[k]] = chain[k + 1]]
    BY <1>6, <2>1 DEF PushLink, Pending
  <2>5. /\ next'[chain[k]] = chain[k + 1] /\ next'[chain[k]] /= Null
        /\ \A j \in Nodes \ {chain[k]} : next'[j] = next[j]
    BY <2>2, <2>4 DEF IInv, TypeOK
  <2>6. \A i \in 1..Len(chain) : i /= k => chain[i] /= chain[k]
    BY <2>2 DEF IInv, ChainInv
  <2> DEFINE e == [Slots EXCEPT ![k].st = "published"]
  <2>7. Slots[k] = [val |-> value[chain[k + 1]], st |-> "reserved"]
    BY <2>2, <2>3, <1>3
  <2>8. /\ e \in Seq(Rec) /\ Len(e) = Len(Slots)
        /\ e[k] = [val |-> value[chain[k + 1]], st |-> "published"]
        /\ \A i \in 1..Len(Slots) : i /= k => e[i] = Slots[i]
    BY <1>3, <2>2, <2>7
  <2> HIDE DEF e
  <2>9. Len(Slots') = Len(e)
    BY <1>3, <1>4, <2>4, <2>8
  <2>10. ASSUME NEW i \in 1..Len(Slots') PROVE Slots'[i] = e[i]
    <3>1. i \in 1..Len(Slots) /\ i \in 1..Len(chain)
      BY <1>1, <1>3, <2>8, <2>9
    <3>2. CASE i = k
      BY <3>2, <1>4, <2>4, <2>5, <2>8
    <3>3. CASE i /= k
      <4>1. next'[chain[i]] = next[chain[i]]
        BY <3>1, <3>3, <1>1, <2>5, <2>6
      <4>2. Slots'[i] = [val |-> value'[chain'[i + 1]],
                         st |-> IF next'[chain'[i]] = Null THEN "reserved" ELSE "published"]
        BY <1>4
      <4>3. Slots[i] = [val |-> value[chain[i + 1]],
                        st |-> IF next[chain[i]] = Null THEN "reserved" ELSE "published"]
        BY <3>1, <1>3
      <4>4. Slots'[i] = Slots[i]
        BY <4>1, <4>2, <4>3, <2>4
      <4> QED
        BY <4>4, <3>1, <3>3, <2>8
    <3> QED
      BY <3>2, <3>3
  <2>11. Slots' = e
    <3> HIDE DEF Rec
    <3>1. Slots' \in Seq(Rec) /\ e \in Seq(Rec)
      BY <1>4, <2>8
    <3> QED
      BY <3>1, <2>9, <2>10, SeqEqual
  <2>12. Queue!Publish(k)
    BY <2>7, <2>11 DEF Queue!Publish, e
  <2> QED
    BY <2>2, <2>12
<1>7. ASSUME Pop PROVE Queue!Take
  <2>1. /\ Len(chain) >= 2 /\ next[head] = chain[2]
        /\ Len(chain') = Len(chain) - 1
        /\ \A i \in 1..Len(chain') : i + 1 \in 1..Len(chain) /\ chain'[i] = chain[i + 1]
    BY <1>7, PopFacts
  <2>2. head = chain[1] /\ value' = value /\ next' = next
    BY <1>7 DEF Pop, IInv, ChainInv
  <2>3. Slots /= << >> /\ 1 \in 1..Len(Slots) /\ 2 \in 1..Len(chain)
    BY <1>1, <1>3, <2>1
  <2>4. Slots[1].st = "published"
    <3>1. next[chain[1]] /= Null
      BY <1>1, <2>1, <2>2, <2>3
    <3>2. Slots[1] = [val |-> value[chain[1 + 1]],
                      st |-> IF next[chain[1]] = Null THEN "reserved" ELSE "published"]
      BY <2>3, <1>3
    <3> QED
      BY <3>1, <3>2
  <2> DEFINE t == Tail(Slots)
  <2>5. t \in Seq(Rec) /\ Len(t) = Len(Slots) - 1 /\ \A i \in 1..Len(t) : t[i] = Slots[i + 1]
    <3> HIDE DEF Rec
    <3>1. Slots \in Seq(Rec)
      BY <1>3
    <3> QED
      BY <3>1, <2>3
  <2> HIDE DEF t
  <2>6. Len(Slots') = Len(t)
    BY <1>1, <1>3, <1>4, <2>1, <2>5
  <2>7. ASSUME NEW i \in 1..Len(Slots') PROVE Slots'[i] = t[i]
    <3>1. i \in 1..Len(chain') /\ i + 1 \in 1..Len(chain') /\ i + 1 \in 1..Len(Slots)
      BY <1>1, <1>3, <1>4, <2>1
    <3>2. chain'[i] = chain[i + 1] /\ chain'[i + 1] = chain[(i + 1) + 1]
      BY <3>1, <2>1
    <3>3. Slots'[i] = [val |-> value[chain[(i + 1) + 1]], st |-> IF next[chain[i + 1]] = Null THEN "reserved" ELSE "published"]
      BY <3>2, <1>4, <2>2
    <3>4. Slots[i + 1] = [val |-> value[chain[(i + 1) + 1]], st |-> IF next[chain[i + 1]] = Null THEN "reserved" ELSE "published"]
      BY <3>1, <1>3
    <3> QED
      BY <3>3, <3>4, <2>5, <2>6
  <2>8. Slots' = t
    <3> HIDE DEF Rec
    <3>1. Slots' \in Seq(Rec) /\ t \in Seq(Rec)
      BY <1>4, <2>5
    <3> QED
      BY <3>1, <2>6, <2>7, SeqEqual
  <2> QED
    BY <2>3, <2>4, <2>8 DEF Queue!Take, t
<1>8. CASE UNCHANGED vars
  BY <1>8 DEF vars, Slots
<1> QED
  BY <1>5, <1>6, <1>7, <1>8 DEF Next, Queue!Next

\* MpscQueue implements the publishing FIFO queue: what is popped is what was pushed, in the
\* order of the exchanges, each value once.
THEOREM MpscImplementsPublishQueue == Spec => ImplementsPublishQueue
<1>1. Init => Queue!Init
  <2> SUFFICES ASSUME Init PROVE Slots = << >>
    BY DEF Queue!Init
  <2>1. Len(chain) = 1 /\ chain \in Seq(Nodes) /\ value \in [Nodes -> Values]
    BY InitIInv DEF Init, IInv, TypeOK
  <2>2. Slots \in Seq([val : Values, st : {"reserved", "published"}]) /\ Len(Slots) = 0
    BY <2>1, SlotsFacts DEF Slots
  <2> QED
    BY <2>2
<1>2. IInv /\ IInv' /\ [Next]_vars => [Queue!Next]_Slots
  BY MpscStepRefines
<1> QED
  BY <1>1, <1>2, MpscInvariant, PTL DEF Spec, ImplementsPublishQueue, Queue!Spec

-----------------------------------------------------------------------------
\* TcpServer and TcpConnection

\* A connection is the server's or was dialed.
TcpConstant == Accepted \cap Dialed = {}

TcpTypes ==
    /\ state \in [Conns -> {"None", "Connected", "PeerShutdown", "LocalShutdown", "Closed"}]
    /\ rx \in [Conns -> {"open", "fin", "rst"}]
    /\ fin \in [Conns -> Nat]
    /\ closed \in [Conns -> {"no", "yes"}]
    /\ rd \in [Conns -> {"idle", "busy"}] /\ wr \in [Conns -> {"idle", "busy"}]
    /\ dial \in [Conns -> {"no", "new", "connecting", "failed"}]
    /\ handler \in [Conns -> {"no", "running", "returned"}]
    /\ connSet \subseteq Conns
    /\ loop \in {"no", "accepting", "scheduled", "failed", "done"}
    /\ stopped \in {"no", "yes"} /\ stopper \in {"no", "waiting", "done"}

\* What was sent and closed agrees with the state of connection c: before it exists, and then.
Agrees(c) ==
    /\ state[c] = "None" => /\ fin[c] = 0 /\ closed[c] = "no"
                            /\ rd[c] = "idle" /\ wr[c] = "idle" /\ c \notin connSet
    /\ state[c] = "Connected" => fin[c] = 0 /\ closed[c] = "no"
    /\ state[c] = "LocalShutdown" => fin[c] > 0
    /\ state[c] = "Closed" => fin[c] > 0 \/ closed[c] = "yes" \/ rx[c] = "rst"
    /\ closed[c] = "yes" => c \in Dialed
    /\ dial[c] \in {"new", "connecting"} => c \in Dialed /\ state[c] = "None"

\* The server knows the connections of its handlers; stopped_ comes from a failed start or stop().
ServerKnows ==
    /\ \A c \in Conns : handler[c] = "running" => c \in connSet /\ c \in Accepted
    /\ stopper /= "no" => stopped = "yes"
    /\ stopped = "yes" => loop = "failed" \/ stopper /= "no"
    /\ StopReachesAll

TcpInv == TcpTypes /\ (\A c \in Conns : Agrees(c)) /\ ServerKnows

\* One connection changes, and its handler and the server do not.
LEMMA OneConnection ==
    ASSUME TcpInv, NEW c \in Conns,
           UNCHANGED <<handler, connSet, loop, stopped, stopper>>, TcpTypes', Agrees(c)',
           fin'[c] >= fin[c], rx[c] = "rst" => rx'[c] = "rst",
           \A d \in Conns \ {c} : /\ state'[d] = state[d] /\ rx'[d] = rx[d] /\ fin'[d] = fin[d]
                                  /\ closed'[d] = closed[d] /\ dial'[d] = dial[d]
                                  /\ rd'[d] = rd[d] /\ wr'[d] = wr[d]
    PROVE  TcpInv'
  <1>1. ASSUME NEW d \in Conns PROVE Agrees(d)'
    <2>1. CASE d = c BY <2>1
    <2>2. CASE d /= c BY <2>2 DEF TcpInv, Agrees
    <2> QED BY <2>1, <2>2
  <1>2. StopReachesAll'
    <2>1. \A d \in Conns : /\ fin[d] > 0 => fin'[d] > 0
                           /\ rx[d] = "rst" => rx'[d] = "rst"
      BY DEF TcpInv, TcpTypes
    <2>2. StopReachesAll /\ Accepted \subseteq Conns
      BY ZenonT(30) DEF TcpInv, ServerKnows, Conns
    <2> QED BY <2>1, <2>2 DEF StopReachesAll
  <1>3. ServerKnows'
    BY <1>2 DEF TcpInv, ServerKnows
  <1> QED BY <1>1, <1>3 DEF TcpInv

\* connect(), the peer, the callback of its hang-up, reads and writes.
LEMMA ConnectionKeeps ==
    ASSUME TcpInv, NEW c \in Conns,
           \/ Connect(c) \/ PeerActs(c) \/ PeerClosedCallback(c)
           \/ Begin(c) \/ EndRead(c) \/ EndWrite(c) \/ ForceClose(c)
    PROVE  TcpInv'
  <1> USE DEF server, conn
  <1>0. TcpTypes /\ Agrees(c)
    BY DEF TcpInv
  <1>1. CASE Connect(c)
    <2>1. TcpTypes' BY <1>0, <1>1 DEF Connect, TcpTypes
    <2>2. Agrees(c)' BY <1>0, <1>1 DEF Connect, TcpTypes, Agrees
    <2>3. \A d \in Conns \ {c} : state'[d] = state[d] /\ dial'[d] = dial[d]
      BY <1>0, <1>1 DEF Connect, TcpTypes
    <2> QED BY <1>0, <1>1, <2>1, <2>2, <2>3, OneConnection DEF Connect, TcpTypes
  <1>2. CASE PeerActs(c)
    <2>1. TcpTypes' BY <1>0, <1>2 DEF PeerActs, TcpTypes
    <2>2. Agrees(c)' /\ (rx[c] = "rst" => rx'[c] = "rst")
      BY <1>0, <1>2 DEF PeerActs, TcpTypes, Agrees
    <2>3. \A d \in Conns \ {c} : rx'[d] = rx[d]
      BY <1>0, <1>2 DEF PeerActs, TcpTypes
    <2> QED BY <1>0, <1>2, <2>1, <2>2, <2>3, OneConnection DEF PeerActs, TcpTypes
  <1>3. CASE PeerClosedCallback(c)
    <2>1. TcpTypes' BY <1>0, <1>3 DEF PeerClosedCallback, AfterHangup, TcpTypes
    <2>2. Agrees(c)' BY <1>0, <1>3 DEF PeerClosedCallback, AfterHangup, TcpTypes, Agrees
    <2>3. \A d \in Conns \ {c} : state'[d] = state[d]
      BY <1>0, <1>3 DEF PeerClosedCallback, TcpTypes
    <2> QED BY <1>0, <1>3, <2>1, <2>2, <2>3, OneConnection DEF PeerClosedCallback, TcpTypes
  <1>4. CASE Begin(c)
    <2>1. TcpTypes' BY <1>0, <1>4 DEF Begin, TcpTypes
    <2>2. Agrees(c)' BY <1>0, <1>4 DEF Begin, InUse, TcpTypes, Agrees
    <2>3. \A d \in Conns \ {c} : rd'[d] = rd[d] /\ wr'[d] = wr[d]
      BY <1>0, <1>4 DEF Begin, TcpTypes
    <2> QED BY <1>0, <1>4, <2>1, <2>2, <2>3, OneConnection DEF Begin, TcpTypes
  <1>5. CASE EndRead(c)
    <2>1. TcpTypes' BY <1>0, <1>5 DEF EndRead, AfterEof, TcpTypes
    <2>2. Agrees(c)' BY <1>0, <1>5 DEF EndRead, AfterEof, TcpTypes, Agrees
    <2>3. \A d \in Conns \ {c} : state'[d] = state[d] /\ rd'[d] = rd[d]
      BY <1>0, <1>5 DEF EndRead, TcpTypes
    <2> QED BY <1>0, <1>5, <2>1, <2>2, <2>3, OneConnection DEF EndRead, TcpTypes
  <1>6. CASE EndWrite(c)
    <2>1. TcpTypes' BY <1>0, <1>6 DEF EndWrite, TcpTypes
    <2>2. Agrees(c)' BY <1>0, <1>6 DEF EndWrite, TcpTypes, Agrees
    <2>3. \A d \in Conns \ {c} : state'[d] = state[d] /\ wr'[d] = wr[d]
      BY <1>0, <1>6 DEF EndWrite, TcpTypes
    <2> QED BY <1>0, <1>6, <2>1, <2>2, <2>3, OneConnection DEF EndWrite, TcpTypes
  <1>7. CASE ForceClose(c)
    <2>1. TcpTypes' BY <1>0, <1>7 DEF ForceClose, TcpTypes
    <2>2. Agrees(c)' BY <1>0, <1>7 DEF ForceClose, InUse, TcpTypes, Agrees
    <2>3. \A d \in Conns \ {c} : state'[d] = state[d] /\ closed'[d] = closed[d]
      BY <1>0, <1>7 DEF ForceClose, TcpTypes
    <2> QED BY <1>0, <1>7, <2>1, <2>2, <2>3, OneConnection DEF ForceClose, TcpTypes
  <1> QED BY <1>1, <1>2, <1>3, <1>4, <1>5, <1>6, <1>7

\* shutdown() of connections that exist: each has sent its FIN or is closed.
LEMMA ShutAgrees ==
    ASSUME TcpInv, NEW S \in SUBSET Conns, ShutConnections(S),
           UNCHANGED <<rx, closed, rd, wr, dial, connSet>>,
           \A c \in S : state[c] /= "None"
    PROVE  /\ state' \in [Conns -> {"None", "Connected", "PeerShutdown", "LocalShutdown", "Closed"}]
           /\ fin' \in [Conns -> Nat]
           /\ \A c \in Conns : Agrees(c)' /\ fin'[c] >= fin[c]
           /\ \A c \in S : fin'[c] > 0 \/ closed[c] = "yes" \/ rx[c] = "rst"
  <1>0. TcpTypes /\ \A c \in Conns : Agrees(c)
    BY DEF TcpInv
  <1>1. state' \in [Conns -> {"None", "Connected", "PeerShutdown", "LocalShutdown", "Closed"}]
    BY <1>0 DEF TcpTypes, ShutConnections
  <1>2. \A c \in Conns : fin[c] \in Nat /\ fin[c] + 1 \in Nat
    BY <1>0 DEF TcpTypes
  <1>3. fin' \in [Conns -> Nat]
    BY <1>2 DEF ShutConnections
  <1>4. ASSUME NEW c \in Conns
        PROVE  /\ Agrees(c)' /\ fin'[c] >= fin[c]
               /\ c \in S => fin'[c] > 0 \/ closed[c] = "yes" \/ rx[c] = "rst"
    <2>1. \/ state'[c] = state[c] /\ fin'[c] = fin[c] /\ (c \in S => state[c] \in {"LocalShutdown", "Closed"})
          \/ /\ c \in S /\ state'[c] = (IF state[c] = "PeerShutdown" THEN "Closed" ELSE "LocalShutdown")
             /\ fin'[c] = IF fin[c] < 2 THEN fin[c] + 1 ELSE fin[c]
      BY ZenonT(30) DEF ShutConnections
    <2>2. Agrees(c) /\ fin[c] \in Nat /\ (c \in S => state[c] /= "None")
      BY <1>0, <1>2
    <2>3. CASE state'[c] = state[c] /\ fin'[c] = fin[c] /\ (c \in S => state[c] \in {"LocalShutdown", "Closed"})
      BY <2>2, <2>3 DEF Agrees
    <2>4. CASE /\ c \in S /\ state'[c] = (IF state[c] = "PeerShutdown" THEN "Closed" ELSE "LocalShutdown")
               /\ fin'[c] = IF fin[c] < 2 THEN fin[c] + 1 ELSE fin[c]
      BY <2>2, <2>4 DEF Agrees
    <2> QED BY <2>1, <2>3, <2>4
  <1> QED BY <1>1, <1>3, <1>4

\* shutdown() by the handler, or by whoever dialed.
LEMMA ShutdownKeeps ==
    ASSUME TcpInv, NEW c \in Conns, Shutdown(c)
    PROVE  TcpInv'
  <1>0. /\ ShutConnections({c}) /\ state[c] /= "None" /\ TcpTypes
        /\ UNCHANGED <<rx, closed, rd, wr, dial, handler, connSet, loop, stopped, stopper>>
    BY ZenonT(30) DEF Shutdown, InUse, server, TcpInv
  <1>1. /\ state' \in [Conns -> {"None", "Connected", "PeerShutdown", "LocalShutdown", "Closed"}]
        /\ fin' \in [Conns -> Nat]
        /\ Agrees(c)' /\ fin'[c] >= fin[c]
    BY <1>0, ShutAgrees
  <1>2. \A d \in Conns \ {c} : state'[d] = state[d] /\ fin'[d] = fin[d]
    BY <1>0 DEF ShutConnections
  <1>3. TcpTypes'
    BY <1>0, <1>1 DEF TcpTypes
  <1> QED BY <1>0, <1>1, <1>2, <1>3, OneConnection, ZenonT(30)

\* The accept loop and the handlers.
LEMMA AcceptKeeps ==
    ASSUME TcpConstant, TcpInv,
           \/ \E c \in Conns : Accept(c) \/ HandlerReturns(c)
           \/ Start \/ ListenReadable \/ AcceptLoopEnds \/ StopReturns
    PROVE  TcpInv'
  <1> USE DEF server, conn
  <1>0. TcpTypes /\ ServerKnows /\ \A d \in Conns : Agrees(d)
    BY DEF TcpInv
  <1>1. ASSUME NEW c \in Conns, Accept(c) PROVE TcpInv'
    <2>1. TcpTypes'
      BY <1>0, <1>1 DEF Accept, Remember, TcpTypes
    <2>2. ASSUME NEW d \in Conns PROVE Agrees(d)'
      <3>1. CASE d = c
        BY <1>0, <1>1, <3>1 DEF Accept, TcpTypes, Agrees, TcpConstant
      <3>2. CASE d /= c
        BY <1>0, <1>1, <3>2 DEF Accept, Remember, TcpTypes, Agrees
      <3> QED BY <3>1, <3>2
    <2>3. stopped = "no" /\ stopper = "no" /\ stopped' = "no" /\ stopper' = "no"
      BY <1>0, <1>1 DEF Accept, ServerKnows, TcpTypes
    <2>4. \A d \in Conns : handler'[d] = "running" => d \in connSet' /\ d \in Accepted
      BY <1>0, <1>1 DEF Accept, Remember, ServerKnows, TcpTypes
    <2>5. ServerKnows'
      BY <2>3, <2>4, ZenonT(30) DEF ServerKnows, StopReachesAll
    <2> QED BY <2>1, <2>2, <2>5 DEF TcpInv
  <1>2. ASSUME NEW c \in Conns, HandlerReturns(c) PROVE TcpInv'
    <2>1. TcpTypes'
      BY <1>0, <1>2 DEF HandlerReturns, TcpTypes
    <2>2. \A d \in Conns : Agrees(d)'
      BY <1>0, <1>2 DEF HandlerReturns, Agrees
    <2>3. \A d \in Conns : handler'[d] = "running" => d /= c /\ handler[d] = "running"
      BY <1>0, <1>2 DEF HandlerReturns, TcpTypes
    <2>4. Accepted \subseteq Conns
      BY DEF Conns
    <2>5. ServerKnows'
      BY <1>0, <1>2, <2>3, <2>4 DEF HandlerReturns, ServerKnows, StopReachesAll
    <2> QED BY <2>1, <2>2, <2>5 DEF TcpInv
  <1>3. CASE Start \/ ListenReadable \/ AcceptLoopEnds \/ StopReturns
    <2>1. TcpTypes'
      BY <1>0, <1>3 DEF Start, ListenReadable, AcceptLoopEnds, StopReturns, TcpTypes
    <2>2. UNCHANGED <<state, rx, fin, closed, rd, wr, dial, handler, connSet>>
      BY <1>3 DEF Start, ListenReadable, AcceptLoopEnds, StopReturns
    <2>3. \A d \in Conns : Agrees(d)'
      BY <1>0, <2>2, ZenonT(30) DEF Agrees
    <2>4. /\ loop = "failed" => loop' = "failed"
          /\ stopped = "yes" => stopped' = "yes"
          /\ stopper = stopper' \/ (stopper = "waiting" /\ stopper' = "done" /\ loop' /= "failed")
          /\ stopped' = "yes" => stopped = "yes" \/ loop' = "failed"
      BY <1>0, <1>3 DEF Start, ListenReadable, AcceptLoopEnds, StopReturns, TcpTypes
    <2>5. stopper' /= "no" => stopper /= "no"
      BY <2>4
    <2>6. StopReachesAll'
      BY <1>0, <2>2, <2>4, ZenonT(30) DEF ServerKnows, StopReachesAll
    <2>7. ServerKnows'
      BY <1>0, <2>2, <2>4, <2>5, <2>6 DEF ServerKnows, TcpTypes
    <2> QED BY <2>1, <2>3, <2>7 DEF TcpInv
  <1> QED BY <1>1, <1>2, <1>3

\* stop() shuts down every connection a handler runs for.
LEMMA StopKeeps ==
    ASSUME TcpConstant, TcpInv, Stop
    PROVE  TcpInv'
  <1>0. TcpTypes /\ ServerKnows /\ \A d \in Conns : Agrees(d)
    BY DEF TcpInv
  <1>1. /\ UNCHANGED <<rx, closed, rd, wr, dial, handler, connSet>>
        /\ stopped' = "yes" /\ stopper = "no"
        /\ loop = "failed" => loop' = "failed"
    BY DEF Stop, CancelAccept
  <1>2. Accepted \subseteq Conns
    BY DEF Conns
  <1>3. CASE stopped = "yes"
    <2>1. loop = "failed" /\ loop' = "failed" /\ stopper' = "done" /\ UNCHANGED <<state, fin>>
      BY <1>0, <1>1, <1>3 DEF Stop, ServerKnows
    <2>2. TcpTypes' /\ \A d \in Conns : Agrees(d)'
      BY <1>0, <1>1, <2>1 DEF TcpTypes, Agrees
    <2>3. ServerKnows'
      BY <1>0, <1>1, <2>1, ZenonT(30) DEF ServerKnows, StopReachesAll
    <2> QED BY <2>2, <2>3 DEF TcpInv
  <1>4. CASE stopped = "no"
    <2>1. ShutConnections(connSet) /\ stopper' = "waiting" /\ loop' = CancelAccept(loop)
      BY <1>4 DEF Stop
    <2>2. connSet \in SUBSET Conns /\ \A c \in connSet : state[c] /= "None"
      BY <1>0 DEF TcpTypes, Agrees
    <2>3. /\ state' \in [Conns -> {"None", "Connected", "PeerShutdown", "LocalShutdown", "Closed"}]
          /\ fin' \in [Conns -> Nat]
          /\ \A c \in Conns : Agrees(c)'
          /\ \A c \in connSet : fin'[c] > 0 \/ closed[c] = "yes" \/ rx[c] = "rst"
      BY <1>1, <2>1, <2>2, ShutAgrees
    <2>4. TcpTypes'
      BY <1>0, <1>1, <2>1, <2>3 DEF TcpTypes, CancelAccept
    <2>5. ASSUME NEW c \in Accepted, handler'[c] = "running" PROVE fin'[c] > 0 \/ rx'[c] = "rst"
      <3>1. c \in connSet /\ closed[c] /= "yes"
        BY <1>0, <1>1, <1>2, <2>5 DEF ServerKnows, Agrees, TcpConstant
      <3> QED BY <1>1, <2>3, <3>1
    <2>6. ServerKnows'
      BY <1>0, <1>1, <2>1, <2>5 DEF ServerKnows, StopReachesAll
    <2> QED BY <2>3, <2>4, <2>6 DEF TcpInv
  <1> QED BY <1>0, <1>3, <1>4 DEF TcpTypes

\* TcpServer and TcpConnection: stop() reaches every connection whose handler runs, also one
\* accepted just before, and state() agrees with what was sent and closed.
THEOREM TcpSafeHolds == ASSUME TcpConstant PROVE TcpSpec => []TcpSafe
  <1>1. TcpInit => TcpInv
    <2> SUFFICES ASSUME TcpInit PROVE TcpInv
      OBVIOUS
    <2>1. TcpTypes
      BY DEF TcpInit, TcpTypes
    <2>2. \A c \in Conns : Agrees(c)
      BY DEF TcpInit, Agrees
    <2>3. ServerKnows
      BY DEF TcpInit, ServerKnows, StopReachesAll
    <2> QED BY <2>1, <2>2, <2>3 DEF TcpInv
  <1>2. TcpInv /\ [TcpNext]_(tcpVars) => TcpInv'
    <2> SUFFICES ASSUME TcpInv, [TcpNext]_(tcpVars) PROVE TcpInv'
      OBVIOUS
    <2>1. CASE UNCHANGED tcpVars
      <3>1. UNCHANGED <<state, rx, fin, closed, rd, wr, dial, handler, connSet, loop, stopped, stopper>>
        BY <2>1 DEF tcpVars, conn, server
      <3>2. TcpTypes' /\ \A c \in Conns : Agrees(c)'
        BY <3>1 DEF TcpInv, TcpTypes, Agrees
      <3>3. ServerKnows'
        BY <3>1, ZenonT(30) DEF TcpInv, ServerKnows, StopReachesAll
      <3> QED BY <3>2, <3>3 DEF TcpInv
    <2> QED BY <2>1, ConnectionKeeps, ShutdownKeeps, AcceptKeeps, StopKeeps DEF TcpNext
  <1>3. TcpInv => TcpSafe
    BY DEF TcpInv, ServerKnows, Agrees, TcpSafe, StateIsTrue
  <1> QED BY <1>1, <1>2, <1>3, PTL DEF TcpSpec

=============================================================================
