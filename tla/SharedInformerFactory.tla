------------------------ MODULE SharedInformerFactory ------------------------
(***************************************************************************)
(* The build config informer of the shared informer factory               *)
(* (origin/pkg/controller/shared/buildconfig_informers.go).  Informer()   *)
(* takes the factory's lock, looks the informer up in the factory's map   *)
(* by the object type and, when there is none, creates a shared index     *)
(* informer over a list/watch of all build configs and stores it.        *)
(* Indexer() and Lister() call Informer() and wrap its indexer.  Several  *)
(* controllers ask for the informer concurrently while the controller     *)
(* manager starts; the factory's Start (not in this tree) later runs the  *)
(* informers the map holds, so an informer missing from the map is never  *)
(* run.                                                                    *)
(***************************************************************************)
EXTENDS Naturals

CONSTANTS
    Callers  \* goroutines calling Informer, Indexer or Lister

VARIABLES
    lock,       \* the factory's lock: the caller holding it, or "none"
    informers,  \* the map entry for *buildapi.BuildConfig: 0 (none) or an id
    created,    \* informers created so far (ids 1..created)
    pc,         \* caller -> "call", "lookup", "create" or "unlock"
    got         \* caller -> the informer its last call returned (0: none yet)

vars == <<lock, informers, created, pc, got>>

\* Which of the three methods a caller uses (all reach Informer()).
Methods == {"Informer", "Indexer", "Lister"}

Init ==
    /\ lock = "none"
    /\ informers = 0
    /\ created = 0
    /\ pc = [c \in Callers |-> "call"]
    /\ got = [c \in Callers |-> 0]

\* Faulty variant: Informer() does not take the lock.
LockIgnored(c, method) ==
    /\ pc[c] = "call"
    /\ pc' = [pc EXCEPT ![c] = "lookup"]
    /\ UNCHANGED <<lock, informers, created, got>>

\* f.lock.Lock(), reached directly or through Indexer() or Lister().
Lock(c, method) ==
    /\ pc[c] = "call" /\ lock = "none"
    /\ lock' = c
    /\ pc' = [pc EXCEPT ![c] = "lookup"]
    /\ UNCHANGED <<informers, created, got>>

\* informer, exists := f.informers[informerType]; return it if it exists.
Lookup(c) ==
    /\ pc[c] = "lookup"
    /\ IF informers # 0
       THEN got' = [got EXCEPT ![c] = informers] /\ pc' = [pc EXCEPT ![c] = "unlock"]
       ELSE pc' = [pc EXCEPT ![c] = "create"] /\ UNCHANGED got
    /\ UNCHANGED <<lock, informers, created>>

\* NewSharedIndexInformer(...); f.informers[informerType] = informer.
Create(c) ==
    /\ pc[c] = "create"
    /\ created' = created + 1
    /\ informers' = created + 1
    /\ got' = [got EXCEPT ![c] = created + 1]
    /\ pc' = [pc EXCEPT ![c] = "unlock"]
    /\ UNCHANGED <<lock>>

\* The deferred f.lock.Unlock() as Informer() returns; the caller may
\* call again later (controllers call Lister() and Indexer() as they run).
Unlock(c) ==
    /\ pc[c] = "unlock"
    /\ lock' = IF lock = c THEN "none" ELSE lock
    /\ pc' = [pc EXCEPT ![c] = "call"]
    /\ UNCHANGED <<informers, created, got>>

Next ==
    \/ \E c \in Callers :
          \/ \E m \in Methods : Lock(c, m)
          \/ Lookup(c) \/ Create(c) \/ Unlock(c)

Spec == Init /\ [][Next]_vars

-----------------------------------------------------------------------------

\* The informer is shared: every caller, whichever of Informer, Indexer
\* and Lister it used and however the calls interleaved, holds the one
\* informer the factory's map holds, so the one Start runs is the one
\* everybody reads from.
InformerShared ==
    \A c \in Callers : got[c] # 0 => got[c] = informers

=============================================================================
