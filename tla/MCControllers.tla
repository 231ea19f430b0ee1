---------------------------- MODULE MCControllers ----------------------------
(***************************************************************************)
(* Two parts of the master's controller process that run at the same     *)
(* time: the project namespace controller (NamespaceController) working   *)
(* through its queue, and controllers asking the shared informer factory  *)
(* for the build config informer (SharedInformerFactory) as they start.   *)
(* They share no state; their steps interleave.                           *)
(***************************************************************************)
EXTENDS Naturals

CONSTANTS ns1, ns2, c1, c2

VARIABLES
    server, delivered, queue, items, worker, retries, handled, attempts,
    lock, informers, created, pc, got

ncVars == <<server, delivered, queue, items, worker, retries, handled, attempts>>
sifVars == <<lock, informers, created, pc, got>>
vars == <<ncVars, sifVars>>

\* Two namespaces, each updated once after its creation; the attempts
\* history saturates at 3, one above the bound RetriesBounded states.
NC == INSTANCE NamespaceController WITH Namespaces <- {ns1, ns2},
        MaxVersion <- 2, MaxAttempts <- 3

\* Two goroutines calling Informer, Indexer or Lister.
SIF == INSTANCE SharedInformerFactory WITH Callers <- {c1, c2}

Init == NC!Init /\ SIF!Init

Next ==
    \/ NC!Next /\ UNCHANGED sifVars
    \/ SIF!Next /\ UNCHANGED ncVars

\* The namespace controller's fairness (NamespaceController's Spec); the
\* informer callers need none, as no liveness property is about them.
Spec == Init /\ [][Next]_vars
          /\ WF_ncVars(NC!Pop) /\ WF_ncVars(NC!Relist)
          /\ \A n \in {ns1, ns2} : WF_ncVars(NC!WatchEvent(n))
          /\ WF_ncVars(NC!HandleOk \/ \E fatal \in BOOLEAN : NC!HandleFailed(fatal))
          /\ \A m \in {ns1, ns2} : SF_ncVars(NC!Handling(m) /\ NC!HandleOk)

-----------------------------------------------------------------------------

\* The FIFO holds only the newest delivered version of a namespace, also
\* after a failed one is put back for a retry.

\* Between two deliveries of a namespace, Handle runs on it at most twice.
RetriesBounded == NC!RetriesBounded

\* Every version of a namespace is eventually handled successfully.
NamespaceHandled == NC!NamespaceHandled

\* Every caller of Informer, Indexer or Lister holds the informer the
\* factory's map holds.
InformerShared == SIF!InformerShared

=============================================================================
