--------------------------------- MODULE Tls ---------------------------------
(***************************************************************************)
(* One end of a TLS connection: TlsStream and OpenSSLProvider              *)
(* (extensions/tls/src) over a TcpConnection.  A coroutine does the        *)
(* handshake and then reads, writers share the stream, and the owner may   *)
(* shut it down.                                                           *)
(*                                                                         *)
(* OpenSSL and the peer are external: a chunk that comes in carries        *)
(* handshake messages, application data, close_notify or a bad record, and *)
(* what SSL_* makes of it are records, numbered as they are made.  A       *)
(* record is two pieces long, so that a blocked write can leave half of it *)
(* on the wire.                                                            *)
(***************************************************************************)
EXTENDS Naturals, Sequences, SequencesExt

CONSTANTS Writers, None,
          MaxChunks,   \* bound: chunks the peer sends
          Unprompted   \* a flush may meet a write: alerts, and shutdown() during write()

VARIABLES peer,   \* external: chunks left, data sent, and whether it has closed
          tls,    \* TlsStream and its provider
          co,     \* the coroutines: "reader", the writers and "closer"
          wire    \* pieces written to the socket

vars == <<peer, tls, co, wire>>

Who == Writers \cup {"reader", "closer"}

\* A coroutine in conn_->write() is at "flush" or "blocked", with the pieces it has to write.
Init ==
    /\ peer = [left |-> MaxChunks, data |-> 0, open |-> "yes"]
    /\ tls = [hs |-> "no",    \* "yes": done in the provider; "returned": by accept(), connect()
              out |-> <<>>, made |-> 0, plain |-> 0, read |-> 0, eof |-> "no", shut |-> "no",
              lock |-> <<>>, waiter |-> None]
    /\ co = [w \in Who |-> [pc |-> IF w = "reader" THEN "new" ELSE "idle", todo |-> <<>>,
                            result |-> "none"]]
    /\ wire = <<>>

-----------------------------------------------------------------------------
\* Records: flushWbio() moves what OpenSSL made into encryptedOutBuf_, and flushEncrypted()
\* swaps the buffer out and writes it.

Make(t) == [t EXCEPT !.made = @ + 1, !.out = Append(@, t.made + 1)]

Pieces(recs) == FlattenSeq([j \in DOMAIN recs |-> <<recs[j], recs[j]>>])

\* who enters flushEncrypted() with stream state t, to go on with r afterwards.
Flush(who, t, r) ==
    /\ tls' = [t EXCEPT !.out = <<>>]
    /\ co' = [co EXCEPT ![who] = [pc |-> "flush", todo |-> Pieces(t.out), result |-> r]]

\* TcpConnection::write(): a piece goes out, or the socket is full and the coroutine leaves
\* its handle in the channel's one slot for a writer.
Push(who) ==
    /\ co[who].pc = "flush" /\ co[who].todo /= <<>> /\ peer.open = "yes"
    /\ \/ /\ wire' = Append(wire, Head(co[who].todo))
          /\ co' = [co EXCEPT ![who].todo = Tail(@)]
          /\ UNCHANGED tls
       \/ /\ tls' = [tls EXCEPT !.waiter = who]
          /\ co' = [co EXCEPT ![who].pc = "blocked"]
          /\ UNCHANGED wire
    /\ UNCHANGED peer

\* External: the socket becomes writable, and the handle in the slot is resumed.
Writable ==
    /\ tls.waiter /= None
    /\ co' = [co EXCEPT ![tls.waiter].pc = "flush"]
    /\ tls' = [tls EXCEPT !.waiter = None]
    /\ UNCHANGED <<peer, wire>>

-----------------------------------------------------------------------------
\* accept() and connect(): startHandshake(), of which only a client's makes a record.
Handshake ==
    /\ co["reader"].pc = "new"
    /\ \E t \in {tls, Make(tls)} : Flush("reader", t, "handshake")
    /\ UNCHANGED <<peer, wire>>

\* What one chunk does: the handshake goes on, it ends, perhaps with data in the same chunk or
\* with a certificate that is refused, data, close_notify or a bad record.
Chunks ==
    CASE tls.hs = "no"  -> {"more", "done", "done+data", "refused", "bad"}
      [] tls.hs = "returned" -> {"data", "close", "bad"}
      [] OTHER          -> {}

\* feedEncrypted(): drainPlaintext() runs also when the handshake has just ended.
\* Bug: it does not.
FedPlain_Dropped(c) == IF c = "data" THEN tls.plain + 1 ELSE tls.plain
FedPlain(c)         == IF c \in {"data", "done+data"} THEN tls.plain + 1 ELSE tls.plain

\* Handshake messages and, unprompted, alerts make a record.
Replies(c) == IF c \in {"more", "done", "done+data"} THEN {"yes", "no"}
              ELSE IF c = "bad" /\ Unprompted THEN {"yes"} ELSE {"no"}

FinishHandshake(c) == IF c = "refused" THEN "error" ELSE "stream"

Fed(c) ==
    CASE c = "more"                           -> "handshake"
      [] c \in {"done", "done+data", "refused"} -> FinishHandshake(c)
      [] c = "bad"                            -> "error"
      [] OTHER                                -> "read"

\* feedOnce(): one chunk from the socket, or its end.
FeedOnce ==
    /\ co["reader"].pc \in {"handshake", "read"}
    /\ \/ \E c \in Chunks, reply \in BOOLEAN :
            /\ peer.left > 0 /\ (IF reply THEN "yes" ELSE "no") \in Replies(c)
            /\ peer' = [peer EXCEPT !.left = @ - 1, !.data = IF c \in {"data", "done+data"} THEN @ + 1 ELSE @]
            /\ LET t == [tls EXCEPT !.hs = IF c \in {"done", "done+data"} THEN "yes" ELSE @,
                                    !.plain = FedPlain(c), !.eof = IF c = "close" THEN "yes" ELSE @]
               IN  Flush("reader", IF reply THEN Make(t) ELSE t, Fed(c))
       \/ /\ peer.open = "no"
          /\ tls' = [tls EXCEPT !.eof = "yes"]
          /\ co' = [co EXCEPT !["reader"].pc = IF tls.hs = "returned" THEN "read" ELSE "error"]
          /\ UNCHANGED peer
    /\ co["reader"].pc = "read" => tls.plain = 0 /\ tls.eof = "no"
    /\ UNCHANGED wire

PeerCloses ==
    /\ peer.open = "yes"
    /\ peer' = [peer EXCEPT !.open = "no", !.left = 0]
    /\ UNCHANGED <<tls, co, wire>>

\* flushEncrypted() returns; what the peer has closed can no longer be written to.
ReaderFlushed ==
    /\ co["reader"].pc = "flush"
    /\ \/ /\ co["reader"].todo = <<>>
          /\ co' = [co EXCEPT !["reader"].pc = co["reader"].result]
          /\ tls' = [tls EXCEPT !.hs = IF co["reader"].result = "stream" THEN "returned" ELSE @]
       \/ /\ peer.open = "no" /\ co["reader"].todo /= <<>>
          /\ tls' = [tls EXCEPT !.eof = "yes"]
          /\ co' = [co EXCEPT !["reader"] = [pc |-> IF tls.hs = "returned" THEN "read" ELSE "error",
                                             todo |-> <<>>, result |-> "none"]]
    /\ UNCHANGED <<peer, wire>>

\* accept() or connect() has returned the stream; read() is called.
CallRead ==
    /\ co["reader"].pc = "stream"
    /\ co' = [co EXCEPT !["reader"].pc = "read"]
    /\ UNCHANGED <<peer, tls, wire>>

\* read(): data first, and 0 only when there is none and no more can come.
Read ==
    /\ co["reader"].pc = "read"
    /\ \/ /\ tls.plain > 0
          /\ tls' = [tls EXCEPT !.read = @ + tls.plain, !.plain = 0]
          /\ UNCHANGED co
       \/ /\ tls.plain = 0 /\ tls.eof = "yes"
          /\ co' = [co EXCEPT !["reader"].pc = "eof"]
          /\ UNCHANGED tls
    /\ UNCHANGED <<peer, wire>>

-----------------------------------------------------------------------------
\* write(): writeMutex_, sendPlain() and flushEncrypted().
\* Bug: write() does not take the lock.
MayWrite_Unlocked(w) == co[w].pc = "lock"
MayWrite(w)          == co[w].pc = "lock" /\ Head(tls.lock) = w

Lock(w) ==
    /\ co[w].pc = "idle" /\ tls.hs = "returned"
    /\ tls' = [tls EXCEPT !.lock = Append(@, w)]
    /\ co' = [co EXCEPT ![w].pc = "lock"]
    /\ UNCHANGED <<peer, wire>>

SendPlain(w) ==
    /\ MayWrite(w)
    /\ IF tls.shut = "no" THEN Flush(w, Make(tls), "done")
       ELSE /\ co' = [co EXCEPT ![w].pc = "done"]      \* SSL_write() fails: write() throws
            /\ tls' = [tls EXCEPT !.lock = Tail(@)]
    /\ UNCHANGED <<peer, wire>>

\* Bug: the lock is kept when the peer has closed.
Unlock_Kept(w) == IF co[w].todo = <<>> THEN SelectSeq(tls.lock, LAMBDA x : x /= w) ELSE tls.lock
Unlock(w)      == SelectSeq(tls.lock, LAMBDA x : x /= w)

WriterFlushed(w) ==
    /\ co[w].pc = "flush" /\ (co[w].todo = <<>> \/ peer.open = "no")
    /\ tls' = [tls EXCEPT !.lock = Unlock(w)]
    /\ co' = [co EXCEPT ![w] = [pc |-> "done", todo |-> <<>>, result |-> "none"]]
    /\ UNCHANGED <<peer, wire>>

\* shutdown(): close_notify and flush without the lock, then the socket's write side.
Shutdown ==
    /\ co["closer"].pc = "idle" /\ tls.hs = "returned"
    /\ Unprompted \/ tls.lock = <<>>
    /\ Flush("closer", [Make(tls) EXCEPT !.shut = "yes"], "done")
    /\ UNCHANGED <<peer, wire>>

ShutdownEnds ==
    /\ co["closer"].pc = "flush" /\ (co["closer"].todo = <<>> \/ peer.open = "no")
    /\ co' = [co EXCEPT !["closer"] = [pc |-> "done", todo |-> <<>>, result |-> "none"]]
    /\ UNCHANGED <<peer, tls, wire>>

-----------------------------------------------------------------------------
Progress ==
    \/ Writable \/ Handshake \/ FeedOnce \/ ReaderFlushed \/ CallRead \/ Read \/ ShutdownEnds
    \/ \E w \in Who : Push(w)
    \/ \E w \in Writers : SendPlain(w) \/ WriterFlushed(w)

Next == Progress \/ PeerCloses \/ Shutdown \/ \E w \in Writers : Lock(w)

-----------------------------------------------------------------------------
\* Records reach the socket whole and in the order OpenSSL made them, though a write can block
\* in the middle of one and other coroutines write meanwhile.
RecordsWhole == \A j \in DOMAIN wire : wire[j] = (j + 1) \div 2

\* The end of the stream is reported only after all the data that came before it, also the
\* data that arrived with the last flight of the handshake.
EofAfterData == co["reader"].pc = "eof" => tls.read = peer.data

\* Once the peer is gone every write() ends, the one that waits for the lock included.
Due(w) == co[w].pc \in {"lock", "flush"} /\ peer.open = "no"
Over(w) == co[w].pc = "done"
WritesEnd == \A w \in Writers : Due(w) ~> Over(w)

\* "Only supports one concurrent reader and one concurrent writer per fd"
\* (include/nitrocoro/io/Channel.h:4): one coroutine at a time is in TcpConnection::write().
OneWriter == \A v, w \in Who : (v /= w /\ co[v].todo /= <<>>) => co[w].todo = <<>>
=============================================================================
