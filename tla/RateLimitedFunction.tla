------------------------- MODULE RateLimitedFunction -------------------------
(***************************************************************************)
(* origin/pkg/util/ratelimiter: a handler that callers trigger through     *)
(* Invoke(resource) and that one background goroutine (RunUntil) runs,     *)
(* at most once per token of a token bucket of burst 1.                    *)
(*                                                                         *)
(* The requests are keyed in a kcache FIFO: Invoke is AddIfNotPresent, and *)
(* pop is Accept() on the limiter followed by queue.Pop with a process     *)
(* function that calls Handler() and ignores the item.  The FIFO of that   *)
(* kubernetes version holds its lock while Pop runs the process function   *)
(* (it waits on a condition variable, releasing the lock, only while the   *)
(* queue is empty) and removes the item before calling it.  So an Invoke   *)
(* blocks while the handler runs and then queues a fresh request.         *)
(*                                                                         *)
(* The goroutine runs utilwait.Until(pop, 0, stopCh), which looks at       *)
(* stopCh only between two calls of pop.                                   *)
(***************************************************************************)
EXTENDS Naturals, Sequences, SequencesExt

CONSTANTS Keys   \* keys of the resources passed to Invoke (model values)

VARIABLES
    queue,     \* the FIFO's queue of keys, oldest first, without duplicates
    proc,      \* the goroutine: "top" of the Until loop, in "accept", in
               \* "pop" (token taken, waiting for an item), in "handle"
               \* (Handler running, FIFO lock held) or "exited"
    tokens,    \* tokens in the limiter's bucket
    stopped,   \* stopCh has been closed
    waiting,   \* keys invoked since the last start of the handler
    runs,      \* starts of the handler since the bucket last gained a token
               \* (it starts full)
    lateRuns   \* starts of the handler after stopCh was closed (history)

vars == <<queue, proc, tokens, stopped, waiting, runs, lateRuns>>

\* The history counts late runs up to 2: enough to tell "more than one".
LateRunsAfter(n) == IF n < 2 THEN n + 1 ELSE n

\* Faulty variant: the bucket is created with burst 2.
BurstTwo == 2

\* NewTokenBucketRateLimiter(qps, 1): the bucket holds one token and starts
\* full.
Burst == 1

Init ==
    /\ queue = <<>>
    /\ proc = "top"
    /\ tokens = Burst
    /\ stopped = FALSE
    /\ waiting = {}
    /\ runs = 0
    /\ lateRuns = 0

\* Faulty variant: the request is queued even when one for the same key
\* is already waiting.
InvokeAlwaysAppends(k) ==
    /\ proc # "handle"
    /\ queue' = Append(queue, k)
    /\ waiting' = waiting \cup {k}
    /\ UNCHANGED <<proc, tokens, stopped, runs, lateRuns>>

\* Invoke: queue.AddIfNotPresent(resource).  It takes the FIFO lock, so it
\* cannot run while the handler does.
Invoke(k) ==
    /\ proc # "handle"
    /\ queue' = IF Contains(queue, k) THEN queue ELSE Append(queue, k)
    /\ waiting' = waiting \cup {k}
    /\ UNCHANGED <<proc, tokens, stopped, runs, lateRuns>>

\* Faulty variant: the loop does not look at stopCh.
LoopIgnoresStop ==
    /\ proc = "top"
    /\ proc' = "accept"
    /\ UNCHANGED <<queue, tokens, stopped, waiting, runs, lateRuns>>

\* utilwait.Until: return when stopCh is closed, else call pop.
Loop ==
    /\ proc = "top"
    /\ proc' = IF stopped THEN "exited" ELSE "accept"
    /\ UNCHANGED <<queue, tokens, stopped, waiting, runs, lateRuns>>

\* pop: RateLimiter.Accept() blocks until it takes a token.
Accept ==
    /\ proc = "accept" /\ tokens > 0
    /\ tokens' = tokens - 1
    /\ proc' = "pop"
    /\ UNCHANGED <<queue, stopped, waiting, runs, lateRuns>>

\* Faulty variant: the item is processed but not removed from the queue.
PopKeepsHead ==
    /\ proc = "pop" /\ queue # <<>>
    /\ proc' = "handle"
    /\ waiting' = {}
    /\ runs' = runs + 1
    /\ lateRuns' = IF stopped THEN LateRunsAfter(lateRuns) ELSE lateRuns
    /\ UNCHANGED <<queue, tokens, stopped>>

\* queue.Pop: wait for an item, remove the head and, with the lock still
\* held, call the process function, which calls Handler().
Pop ==
    /\ proc = "pop" /\ queue # <<>>
    /\ queue' = Tail(queue)
    /\ proc' = "handle"
    /\ waiting' = {}
    /\ runs' = runs + 1
    /\ lateRuns' = IF stopped THEN LateRunsAfter(lateRuns) ELSE lateRuns
    /\ UNCHANGED <<tokens, stopped>>

\* Faulty variant: the loop ends on the first handler error.
HandlerReturnsStopsOnError(err) ==
    /\ proc = "handle"
    /\ proc' = IF err THEN "exited" ELSE "top"
    /\ UNCHANGED <<queue, tokens, stopped, waiting, runs, lateRuns>>

\* Faulty variant: pop takes the next token and item itself instead of
\* returning to Until.
HandlerReturnsKeepsPopping(err) ==
    /\ proc = "handle"
    /\ proc' = "accept"
    /\ UNCHANGED <<queue, tokens, stopped, waiting, runs, lateRuns>>

\* Handler() returns; Pop releases the lock and hands back its error, which
\* pop only reports through utilruntime.HandleError: the request is gone
\* whether the handler succeeded or not.
HandlerReturns(err) ==
    /\ proc = "handle"
    /\ proc' = "top"
    /\ UNCHANGED <<queue, tokens, stopped, waiting, runs, lateRuns>>

\* The token bucket gains a token every 1/qps seconds, up to its burst.
Refill ==
    /\ tokens < Burst
    /\ tokens' = tokens + 1
    /\ runs' = 0
    /\ UNCHANGED <<queue, proc, stopped, waiting, lateRuns>>

\* The owner closes stopCh.
Stop ==
    /\ ~stopped
    /\ stopped' = TRUE
    /\ UNCHANGED <<queue, proc, tokens, waiting, runs, lateRuns>>

Next ==
    \/ \E k \in Keys : Invoke(k)
    \/ Loop \/ Accept \/ Pop \/ \E err \in BOOLEAN : HandlerReturns(err)
    \/ Refill \/ Stop

\* The goroutine is scheduled whenever it can run, and time passes.
Fairness ==
    /\ WF_vars(Loop) /\ WF_vars(Accept) /\ WF_vars(Pop)
    /\ WF_vars(\E err \in BOOLEAN : HandlerReturns(err)) /\ WF_vars(Refill)

Spec == Init /\ [][Next]_vars /\ Fairness

-----------------------------------------------------------------------------

TypeOK ==
    /\ queue \in Seq(Keys) /\ Len(queue) = Cardinality(ToSet(queue))
    /\ proc \in {"top", "accept", "pop", "handle", "exited"}
    /\ tokens \in 0..Burst
    /\ stopped \in BOOLEAN /\ waiting \subseteq Keys /\ runs \in Nat
    /\ lateRuns \in Nat

\* Every Invoke made while the function runs is followed by a run of the
\* handler that starts after it, as the comment of Invoke promises, unless
\* stopCh is closed.
InvokeServed ==
    \A k \in Keys : (k \in waiting /\ ~stopped) ~> (k \notin waiting \/ stopped)

\* The effective burst: between two refills of the bucket the handler
\* starts at most twice, once on the token pop took before it waited for
\* an item and once on the token in the bucket.
BurstBound == runs <= 2

\* The limiter of burst 1 spaces the runs of the handler: no run starts
\* before the bucket was refilled after the previous one started.
HandlerRateLimited ==
    [][ proc' = "handle" /\ proc # "handle" => runs = 0 ]_vars

\* Closing stopCh cannot stop a pop that has already begun, but Until
\* checks stopCh before every further call: at most one run of the
\* handler starts after the close (the one of the pending pop).
AtMostOneRunAfterStop == lateRuns <= 1

\* The rate-limited function implements the coalescing trigger: the
\* FIFO's keys are the queued requests, a run is in progress while the
\* handler runs, and the token bucket and the goroutine's intermediate
\* steps are invisible to the callers.
Trigger == INSTANCE CoalescingTrigger WITH
    queued <- ToSet(queue), busy <- proc = "handle"

TriggerRefined == Trigger!Spec

\* After stopCh is closed the goroutine started by RunUntil returns, except
\* in the one place Until never gets to look at stopCh again: parked in
\* queue.Pop, token taken, on an empty FIFO that nothing will refill.
\* It may not keep running or waiting anywhere else.
StopLeavesOnlyIdlePop ==
    stopped ~> (proc = "exited" \/ (proc = "pop" /\ queue = <<>>))

=============================================================================
