---------------------------- MODULE ImportObjects ----------------------------
(***************************************************************************)
(* The bootstrap import of oc cluster up (origin/pkg/bootstrap/docker/     *)
(* openshift/import.go).  ImportObjects reads a compiled-in asset, builds  *)
(* its objects with a resource builder in ContinueOnError mode and visits  *)
(* them in the asset's order; createAndRefresh creates each object on the  *)
(* server, takes AlreadyExists as success and refreshes the local info    *)
(* from the created object.                                                *)
(*                                                                         *)
(* The builder's ContinueOnError visitor collects the error of an item    *)
(* (a REST mapping that fails, or the visit function's error) and goes on *)
(* with the next; Visit returns the aggregate, nil when nothing failed.   *)
(* The server is the environment: a create succeeds, meets an existing    *)
(* object, fails, or succeeds with its answer lost (the client sees an    *)
(* error).  Mapping errors and failed creates are transient faults, at    *)
(* most MaxFaults of them in a behaviour.  After a failed import the      *)
(* operator runs the command again.                                        *)
(***************************************************************************)
EXTENDS Naturals, Sequences, FiniteSets

CONSTANTS
    Asset,      \* the asset's objects, in the order of the stream
    MaxFaults   \* transient faults of the mapper and the server

Objects == {Asset[k] : k \in DOMAIN Asset}

VARIABLES
    server,     \* object -> TRUE when it exists on the server
    pc,         \* "start", "visit" or "done"
    i,          \* the next item of the stream
    errs,       \* the items whose error the visitor collected in this run
    result,     \* what ImportObjects returned: "none", "ok" or "error"
    faults      \* the transient faults so far

vars == <<server, pc, i, errs, result, faults>>

\* The server may hold objects of the asset already: a previous cluster
\* up, or an earlier import that failed part way.
Init ==
    /\ server \in [Objects -> BOOLEAN]
    /\ pc = "start" /\ i = 0 /\ errs = {} /\ result = "none" /\ faults = 0

\* The mapper, the validator (NullSchema: validation is off) and the
\* asset (compiled in, so its name is always found) are taken and the
\* builder set up; none of these early returns is taken.
Start ==
    /\ pc = "start"
    /\ pc' = "visit" /\ i' = 1
    /\ UNCHANGED <<server, errs, result, faults>>

\* What the server answers to Create of an object.
CreateOutcomes(o) ==
    IF server[o] THEN {"exists"} ELSE {"created", "failed", "lost"}

Fault(outcome) == outcome \in {"failed", "lost", "mapping"}

Created(o, outcome) ==
    server' = [server EXCEPT ![o] = @ \/ outcome \in {"created", "lost"}]

\* Faulty variant: AlreadyExists is returned as an error.
CreateFailingOnExists(k, outcome) ==
    /\ Created(Asset[k], outcome)
    /\ errs' = IF outcome \in {"failed", "lost", "exists"} THEN errs \cup {k}
                                                          ELSE errs

\* createAndRefresh on item k: Create on the server; nil on success (the
\* info is refreshed from the answer, which nothing reads afterwards) or
\* when the object already exists, the error otherwise, which the
\* visitor collects.  A lost answer leaves the object created and
\* returns an error.
CreateAndRefresh(k, outcome) ==
    /\ Created(Asset[k], outcome)
    /\ errs' = IF outcome \in {"failed", "lost"} THEN errs \cup {k} ELSE errs

\* The builder fails to map item k: the ContinueOnError visitor collects
\* the error without calling the visit function.
MappingFailed(k) ==
    /\ errs' = errs \cup {k}
    /\ UNCHANGED server

\* Faulty variant: the visit stops at the first error.
VisitItemStopping ==
    /\ pc = "visit" /\ i <= Len(Asset)
    /\ \E outcome \in CreateOutcomes(Asset[i]) \cup {"mapping"} :
          /\ Fault(outcome) => faults < MaxFaults
          /\ faults' = IF Fault(outcome) THEN faults + 1 ELSE faults
          /\ IF outcome = "mapping" THEN MappingFailed(i)
                                     ELSE CreateAndRefresh(i, outcome)
          /\ i' = IF Fault(outcome) THEN Len(Asset) + 1 ELSE i + 1
    /\ UNCHANGED <<pc, result>>

\* The visit of item i, which goes on with the next item whatever
\* happened to this one.
VisitItem ==
    /\ pc = "visit" /\ i <= Len(Asset)
    /\ \E outcome \in CreateOutcomes(Asset[i]) \cup {"mapping"} :
          /\ Fault(outcome) => faults < MaxFaults
          /\ faults' = IF Fault(outcome) THEN faults + 1 ELSE faults
          /\ IF outcome = "mapping" THEN MappingFailed(i)
                                     ELSE CreateAndRefresh(i, outcome)
    /\ i' = i + 1
    /\ UNCHANGED <<pc, result>>

\* Visit returns the aggregate of the collected errors.
Finish ==
    /\ pc = "visit" /\ i > Len(Asset)
    /\ pc' = "done"
    /\ result' = IF errs = {} THEN "ok" ELSE "error"
    /\ UNCHANGED <<server, i, errs, faults>>

\* The operator runs the command again after a failed import.
Rerun ==
    /\ pc = "done" /\ result = "error"
    /\ pc' = "start" /\ i' = 0 /\ errs' = {} /\ result' = "none"
    /\ UNCHANGED <<server, faults>>

Next == Start \/ VisitItem \/ Finish \/ Rerun

\* The command runs to its end, and a failed one is run again.
Spec == Init /\ [][Next]_vars /\ WF_vars(Next)

-----------------------------------------------------------------------------

TypeOK ==
    /\ server \in [Objects -> BOOLEAN]
    /\ pc \in {"start", "visit", "done"}
    /\ errs \subseteq DOMAIN Asset
    /\ result \in {"none", "ok", "error"}
    /\ faults \in 0..MaxFaults

\* No object is dropped silently: when an import has returned, every
\* object of the asset is on the server or the returned error names it,
\* however the failures of the mapper and the server fell among the items.
ImportedOrReported ==
    result # "none" =>
        \A k \in DOMAIN Asset : server[Asset[k]] \/ k \in errs

\* An import that failed part way is repaired by running it again: the
\* objects the failed run created, or whose answer was lost, do not make
\* the next run fail, so the import eventually returns nil.
ImportEventuallySucceeds ==
    <>(result = "ok")

=============================================================================
