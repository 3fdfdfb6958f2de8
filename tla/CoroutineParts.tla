--------------------------- MODULE CoroutineParts ---------------------------
(***************************************************************************)
(* The coroutine types, with names of their own, and what they promise.    *)
(***************************************************************************)

CONSTANTS Roots, Tasks, Async, Sync, Slots, None, MaxYield, MaxAwaits

VARIABLES frame, slot, running, ready, seen

C == INSTANCE Coroutine WITH cur <- running

coroutineVars == <<frame, slot, running, ready, seen>>

\* Task and Generator: nobody holds the handle of a destroyed frame, and what a coroutine
\* returned or threw is what its awaiter gets.
CoroutineSafe == C!HandlesLive /\ C!OutcomeDelivered
=============================================================================
