---------------------------- MODULE PublishQueue ----------------------------
(***************************************************************************)
(* What nitrocoro::MpscQueue promises: a FIFO queue whose order is fixed   *)
(* when a producer reserves a slot, and whose head can be taken only after *)
(* its producer has published it.  A published value behind a slot that is *)
(* only reserved is not available yet: the consumer finds the queue empty. *)
(***************************************************************************)
EXTENDS Naturals, Sequences

CONSTANT Values

VARIABLE slots    \* sequence of [val, st], the oldest first

Init == slots = << >>

\* First half of push(): the value has its place in the queue.
Reserve(v) == slots' = Append(slots, [val |-> v, st |-> "reserved"])

\* Second half of push(): the value can be seen from its predecessor.
Publish(i) ==
    /\ slots[i].st = "reserved"
    /\ slots' = [slots EXCEPT ![i].st = "published"]

\* pop() with a result.
Take ==
    /\ slots /= << >>
    /\ slots[1].st = "published"
    /\ slots' = Tail(slots)

Next ==
    \/ \E v \in Values : Reserve(v)
    \/ \E i \in 1..Len(slots) : Publish(i)
    \/ Take

Spec == Init /\ [][Next]_slots
=============================================================================
