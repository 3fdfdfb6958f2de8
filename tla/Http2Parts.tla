----------------------------- MODULE Http2Parts -----------------------------
(***************************************************************************)
(* Http2Session and Http2Client side by side, each with its own variables, *)
(* and what each promises.                                                 *)
(***************************************************************************)
EXTENDS Naturals, Sequences

CONSTANTS MaxId, MaxFrames,             \* of Http2Server
          Requests, Sessions, NoSession \* of Http2Client

VARIABLES input, session, stream, writes, sent, \* of Http2Server
          client, request, conn, reply          \* of Http2Client

H == INSTANCE Http2Server
D == INSTANCE Http2Client WITH
     Calls <- Requests, None <- NoSession, call <- request, session <- conn, stream <- reply

server2Vars == <<input, session, stream, writes, sent>>
client2Vars == <<client, request, conn, reply>>

\* Http2Session: header blocks reach the wire in the order in which the one encoder made them,
\* and a stream id is dispatched once.
BlocksInOrder == H!BlocksInOrder /\ H!DispatchedOnce

\* Http2Client: calls that share a session have streams of their own, also when they waited
\* together for the preface of a new session.
OwnStream == D!OwnStream
=============================================================================
