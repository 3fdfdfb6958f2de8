---------------------------- MODULE StringBuffer ----------------------------
(***************************************************************************)
(* utils::StringBuffer (include/nitrocoro/utils/StringBuffer.h), the       *)
(* buffer between a stream and the HTTP parser: bytes are written behind   *)
(* writeOffset_, consumed from readOffset_, and moved to the front when    *)
(* that makes the room that a write asks for.                              *)
(*                                                                         *)
(* A byte is its number in the stream, so that the bytes that should be    *)
(* in the buffer are consumed + 1 .. written.  Junk is a byte that nobody  *)
(* wrote: resize() puts it there.  Callers consume at most what they see   *)
(* and commit at most what they prepared, as the callers in extensions/    *)
(* do; consume() itself does not check.                                    *)
(***************************************************************************)
EXTENDS Integers

CONSTANTS MaxWrite,  \* the most bytes that one prepareWrite() asks for
          MaxBytes   \* bound: bytes written in all

ASSUME SizesAssumption == MaxWrite \in Nat /\ MaxBytes \in Nat

VARIABLES buffer,      \* buffer_, by offset
          size,        \* buffer_.size()
          readOffset, writeOffset,
          asked,       \* the length of the last prepareWrite()
          written,     \* bytes written in all
          consumed     \* bytes consumed, extracted or reset in all

vars == <<buffer, size, readOffset, writeOffset, asked, written, consumed>>

Junk == 0
Remaining == writeOffset - readOffset

Init == /\ buffer = [i \in {} |-> Junk] /\ size = 0
        /\ readOffset = 0 /\ writeOffset = 0 /\ asked = 0 /\ written = 0 /\ consumed = 0

\* buffer_.resize(n), n >= size
Resize(n) == [i \in 0 .. n - 1 |-> IF i < size THEN buffer[i] ELSE Junk]

\* memmove() of the unconsumed bytes to the front.  Bug: moves one too few
MoveToFront_Short == [i \in 0 .. size - 1 |-> IF i + 1 < Remaining THEN buffer[readOffset + i] ELSE buffer[i]]
MoveToFront == [i \in 0 .. size - 1 |-> IF i < Remaining THEN buffer[readOffset + i] ELSE buffer[i]]

\* Bug: compacts although the bytes that stay leave too little room
Compacts_Always(n) == readOffset > 0
Compacts(n) == readOffset > 0 /\ size - Remaining >= n

\* prepareWrite(n)
PrepareWrite(n) ==
    /\ asked' = n /\ UNCHANGED <<written, consumed>>
    /\ \/ size - writeOffset >= n /\ UNCHANGED <<buffer, size, readOffset, writeOffset>>
       \/ /\ size - writeOffset < n /\ Compacts(n)
          /\ buffer' = MoveToFront /\ writeOffset' = Remaining /\ readOffset' = 0 /\ UNCHANGED size
       \/ /\ size - writeOffset < n /\ ~Compacts(n)
          /\ buffer' = Resize(writeOffset + n) /\ size' = writeOffset + n /\ UNCHANGED <<readOffset, writeOffset>>

\* The caller fills k of the bytes it prepared and commits them
CommitWrite(k) ==
    /\ k <= asked /\ written + k <= MaxBytes
    /\ buffer' = [i \in DOMAIN buffer |-> IF i >= writeOffset /\ i < writeOffset + k THEN written + 1 + (i - writeOffset) ELSE buffer[i]]
    /\ writeOffset' = writeOffset + k /\ written' = written + k
    /\ asked' = 0 /\ UNCHANGED <<size, readOffset, consumed>>

\* consume(n)
Consume(n) ==
    /\ n <= Remaining
    /\ readOffset' = readOffset + n /\ consumed' = consumed + n
    /\ asked' = 0 /\ UNCHANGED <<buffer, size, writeOffset, written>>

\* reset() keeps buffer_
Reset == /\ readOffset' = 0 /\ writeOffset' = 0 /\ consumed' = written
         /\ asked' = 0 /\ UNCHANGED <<buffer, size, written>>

\* extract() leaves it empty in both its branches
Extract == /\ buffer' = [i \in {} |-> Junk] /\ size' = 0
           /\ readOffset' = 0 /\ writeOffset' = 0 /\ consumed' = written
           /\ asked' = 0 /\ UNCHANGED written

Next == \/ \E n \in 0 .. MaxWrite : PrepareWrite(n) \/ CommitWrite(n)
        \/ \E n \in 0 .. MaxBytes : Consume(n)
        \/ Reset \/ Extract

Spec == Init /\ [][Next]_vars

-----------------------------------------------------------------------------

\* The offsets stay within buffer_, and what prepareWrite() promised is there to be written.
Offsets == /\ size \in Nat /\ readOffset \in Nat /\ writeOffset \in Nat /\ asked \in Nat
           /\ written \in Nat /\ consumed \in Nat
           /\ buffer \in [0 .. size - 1 -> Nat]
           /\ readOffset <= writeOffset /\ writeOffset + asked <= size

\* view() is exactly the bytes written and not yet consumed, in their order, whatever the
\* mixture of growing, compacting, consuming, resetting and extracting; and a caller that
\* fills what it prepared stays inside buffer_.
ViewIsContent ==
    /\ Offsets
    /\ written = consumed + Remaining
    /\ \A i \in 0 .. size - 1 : readOffset <= i /\ i < writeOffset => buffer[i] = consumed + 1 + (i - readOffset)
=============================================================================
