------------------------- MODULE NamespaceController -------------------------
(***************************************************************************)
(* The project namespace controller as its factory wires it              *)
(* (origin/pkg/project/controller/factory.go): a reflector lists and      *)
(* watches namespaces into a FIFO keyed by MetaNamespaceKeyFunc, and a    *)
(* RetryController pops one namespace at a time, hands it to the          *)
(* controller's Handle and, on an error, asks a QueueRetryManager on the  *)
(* same FIFO whether to retry it.  The retry function of the factory      *)
(* gives up on a fatal error and on an object already retried once.       *)
(*                                                                         *)
(* The library parts are the environment, with their documented          *)
(* behaviour: the FIFO replaces a queued object by a newer one of the     *)
(* same key and keeps its place; a watch event adds or updates; the       *)
(* reflector's ListAndWatch, which Run restarts whenever the watch ends,  *)
(* replaces the queue by the listed objects; the retry manager counts     *)
(* retries per key, re-adds the object with AddIfNotPresent when the     *)
(* retry function says so and forgets the count otherwise or after a     *)
(* successful Handle.  The controller's Handle succeeds, fails, or fails  *)
(* fatally.  A namespace object is reduced to its version.                *)
(***************************************************************************)
EXTENDS Naturals, Sequences, SequencesExt

CONSTANTS
    Namespaces,  \* namespace names (model values)
    MaxVersion,  \* updates of a namespace on the server
    MaxAttempts  \* the attempts history saturates here

VARIABLES
    server,     \* namespace -> its current version on the server
    delivered,  \* namespace -> the newest version the reflector delivered
    queue,      \* the FIFO's queue of keys
    items,      \* the FIFO's items: namespace -> queued version (0: none)
    worker,     \* the RetryController: idle, or handling [ns, v]
    retries,    \* the retry manager's count per namespace (0: forgotten)
    handled,    \* namespace -> the newest version Handle succeeded on
    attempts    \* namespace -> Handle calls since the last delivery
                \* (history, saturated at MaxAttempts)

vars == <<server, delivered, queue, items, worker, retries, handled, attempts>>

Idle == [state |-> "idle"]

Queued(n) == n \in ToSet(queue)

Init ==
    /\ server = [n \in Namespaces |-> 1]
    /\ delivered = [n \in Namespaces |-> 0]
    /\ queue = <<>>
    /\ items = [n \in Namespaces |-> 0]
    /\ worker = Idle
    /\ retries = [n \in Namespaces |-> 0]
    /\ handled = [n \in Namespaces |-> 0]
    /\ attempts = [n \in Namespaces |-> 0]

\* FIFO.Add / Update: the newest object of the key, queued once.
AddOrUpdate(n, v) ==
    /\ items' = [items EXCEPT ![n] = v]
    /\ queue' = IF Queued(n) THEN queue ELSE Append(queue, n)

\* The retry manager is built on the controller's own FIFO and key
\* function: a retried object goes back into that queue, unless an object
\* of its key is already there.
AddIfNotPresent(n, v) ==
    IF Queued(n) THEN UNCHANGED <<items, queue>> ELSE AddOrUpdate(n, v)

\* Someone updates a namespace on the server.
ServerUpdate(n) ==
    /\ server[n] < MaxVersion
    /\ server' = [server EXCEPT ![n] = @ + 1]
    /\ UNCHANGED <<delivered, queue, items, worker, retries, handled, attempts>>

\* The watch delivers the next version of a namespace.
WatchEvent(n) ==
    /\ delivered[n] < server[n]
    /\ delivered' = [delivered EXCEPT ![n] = @ + 1]
    /\ AddOrUpdate(n, delivered[n] + 1)
    /\ attempts' = [attempts EXCEPT ![n] = 0]
    /\ UNCHANGED <<server, worker, retries, handled>>

\* Faulty variant: ListAndWatch runs once and is not restarted.
RelistNever == FALSE

\* The reflector (re)starts ListAndWatch: FIFO.Replace with the listed
\* namespaces, in the list's order.  A watch lasts minutes and the
\* controller empties a queue of a few namespaces far sooner, so the
\* model relists when the queue is empty.
Relist ==
    /\ queue = <<>>
    /\ \E order \in SetToSeqs(Namespaces) : queue' = order
    /\ items' = server
    /\ delivered' = server
    /\ attempts' = [n \in Namespaces |-> 0]
    /\ UNCHANGED <<server, worker, retries, handled>>

\* The RetryController's loop pops the head of the FIFO.
Pop ==
    /\ worker = Idle /\ queue # <<>>
    /\ LET n == Head(queue) IN
       /\ worker' = [state |-> "handling", ns |-> n, v |-> items[n]]
       /\ items' = [items EXCEPT ![n] = 0]
       /\ attempts' = [attempts EXCEPT ![n] = IF @ < MaxAttempts THEN @ + 1 ELSE @]
    /\ queue' = Tail(queue)
    /\ UNCHANGED <<server, delivered, retries, handled>>

\* Handle succeeds; the retry manager forgets the namespace.
HandleOk ==
    /\ worker.state = "handling"
    /\ handled' = [handled EXCEPT ![worker.ns] = worker.v]
    /\ retries' = [retries EXCEPT ![worker.ns] = 0]
    /\ worker' = Idle
    /\ UNCHANGED <<server, delivered, queue, items, attempts>>

\* Faulty variant: the retry function ignores the retry count.
HandleFailedRetryingAlways(fatal) ==
    /\ worker.state = "handling"
    /\ LET n == worker.ns IN
       IF ~fatal
       THEN /\ retries' = [retries EXCEPT ![n] = @ + 1]
            /\ retries[n] < MaxAttempts
            /\ AddIfNotPresent(n, worker.v)
       ELSE /\ retries' = [retries EXCEPT ![n] = 0]
            /\ UNCHANGED <<queue, items>>
    /\ worker' = Idle
    /\ UNCHANGED <<server, delivered, handled, attempts>>

\* Handle fails; the retry function retries a non-fatal error of an
\* object not retried yet (count 0), which counts the retry and re-adds
\* the object it handled; otherwise the namespace is forgotten.
HandleFailed(fatal) ==
    /\ worker.state = "handling"
    /\ LET n == worker.ns IN
       IF ~fatal /\ retries[n] = 0
       THEN /\ retries' = [retries EXCEPT ![n] = 1]
            /\ AddIfNotPresent(n, worker.v)
       ELSE /\ retries' = [retries EXCEPT ![n] = 0]
            /\ UNCHANGED <<queue, items>>
    /\ worker' = Idle
    /\ UNCHANGED <<server, delivered, handled, attempts>>

Next ==
    \/ \E n \in Namespaces : ServerUpdate(n) \/ WatchEvent(n)
    \/ Relist
    \/ Pop
    \/ HandleOk
    \/ \E fatal \in BOOLEAN : HandleFailed(fatal)

\* The controller loop and the reflector keep running; the watch delivers
\* what it has; the server's errors are transient, so a Handle that is
\* tried again and again eventually succeeds, for every namespace.
Handling(n) == worker.state = "handling" /\ worker.ns = n

Spec == Init /\ [][Next]_vars
          /\ WF_vars(Pop) /\ WF_vars(Relist)
          /\ \A n \in Namespaces : WF_vars(WatchEvent(n))
          /\ WF_vars(HandleOk \/ \E fatal \in BOOLEAN : HandleFailed(fatal))
          /\ \A m \in Namespaces : SF_vars(Handling(m) /\ HandleOk)

-----------------------------------------------------------------------------

TypeOK ==
    /\ server \in [Namespaces -> 1..MaxVersion]
    /\ delivered \in [Namespaces -> 0..MaxVersion]
    /\ items \in [Namespaces -> 0..MaxVersion]
    /\ retries \in [Namespaces -> 0..MaxAttempts]
    /\ handled \in [Namespaces -> 0..MaxVersion]

\* The retry function bounds the work on a failing namespace: between two
\* deliveries of it, Handle is called on it at most twice (the first try
\* and one retry).
RetriesBounded ==
    \A n \in Namespaces : attempts[n] <= 2

\* Every version of a namespace is eventually handled successfully,
\* although the retry function gives up after one retry and on fatal
\* errors: the reflector's relist brings every namespace back.
NamespaceHandled ==
    \A n \in Namespaces, v \in 1..MaxVersion :
        server[n] = v ~> handled[n] >= v

=============================================================================
