-------------------------- MODULE CoalescingTrigger --------------------------
(***************************************************************************)
(* What a RateLimitedFunction promises its callers, without the token     *)
(* bucket and the goroutine's steps: Invoke(resource) "adds a request if  *)
(* its not already present and waits for the background processor to     *)
(* execute it".  Requests are a set of keys; one run of the handler       *)
(* consumes one of them and answers every request made before it; runs    *)
(* never overlap, and no request is accepted while a run is in progress.  *)
(* Once stopped, nothing more is promised.                                 *)
(***************************************************************************)
CONSTANTS Keys

VARIABLES
    queued,    \* keys with a request in the queue
    busy,      \* a run of the handler is in progress
    stopped,   \* the processor was told to stop
    waiting    \* keys requested since the last run started

vars == <<queued, busy, stopped, waiting>>

Init ==
    /\ queued = {} /\ busy = FALSE /\ stopped = FALSE /\ waiting = {}

Request(k) ==
    /\ ~busy
    /\ queued' = queued \cup {k}
    /\ waiting' = waiting \cup {k}
    /\ UNCHANGED <<busy, stopped>>

\* A run starts on one queued key and covers every waiting request.
Start(k) ==
    /\ ~busy /\ k \in queued
    /\ queued' = queued \ {k}
    /\ busy' = TRUE
    /\ waiting' = {}
    /\ UNCHANGED stopped

Finish ==
    /\ busy
    /\ busy' = FALSE
    /\ UNCHANGED <<queued, stopped, waiting>>

Stop ==
    /\ ~stopped
    /\ stopped' = TRUE
    /\ UNCHANGED <<queued, busy, waiting>>

Next ==
    \/ \E k \in Keys : Request(k) \/ Start(k)
    \/ Finish \/ Stop

\* Until stopped, a queued request is eventually run and a run ends.
Spec ==
    /\ Init /\ [][Next]_vars
    /\ WF_vars(~stopped /\ \E k \in Keys : Start(k))
    /\ WF_vars(Finish)

=============================================================================
