--------------------------- MODULE ServerDiscovery ---------------------------
(***************************************************************************)
(* Origin's discovery client (origin/pkg/client/discovery.go).            *)
(* ServerResources asks the server for its group versions, then the       *)
(* resources of each in turn, and returns nil with the first error.  For  *)
(* "v1" ServerResourcesForGroupVersion adds the origin resources served   *)
(* under /oapi/v1 to the Kubernetes ones; a 403 or 404 from /oapi is      *)
(* taken as a v1.0 server and the Kubernetes list alone is returned.       *)
(*                                                                         *)
(* A resource list is reduced to which group versions it has and whether  *)
(* the v1 entry holds origin resources.  The server is the environment:   *)
(* it serves /oapi/v1, answers it with 404 (a v1.0 server) or with 403    *)
(* (the user may not read it), and any request may fail with another      *)
(* error, a transient fault at most MaxFaults times in a behaviour.  The  *)
(* caller runs discovery again after an error.                            *)
(***************************************************************************)
EXTENDS Naturals, Sequences, SequencesExt

CONSTANTS
    GroupVersions,  \* what ServerGroups lists, in order ("v1" among them)
    MaxFaults       \* transient request failures

VARIABLES
    oapi,       \* what /oapi/v1 answers: "served", "notfound" or "forbidden"
    dpc,        \* "groups", "resources" or "done"
    j,          \* the next group version of the loop
    entries,    \* the group versions in the result map
    origin,     \* the v1 entry holds the resources of /oapi/v1
    status,     \* what ServerResources returned: "none", "ok" or "error"
    faults

vars == <<oapi, dpc, j, entries, origin, status, faults>>

Init ==
    /\ oapi \in {"served", "notfound", "forbidden"}
    /\ dpc = "groups" /\ j = 0 /\ entries = {} /\ origin = FALSE
    /\ status = "none" /\ faults = 0

\* A request succeeds or, while the fault budget lasts, fails with an
\* error that is neither 403 nor 404.
Answers(ok) == {ok} \cup (IF faults < MaxFaults THEN {"error"} ELSE {})

Counted(answer) == faults' = IF answer = "error" THEN faults + 1 ELSE faults

\* ServerResources returns nil and the error.
Fail ==
    /\ dpc' = "done" /\ status' = "error"
    /\ entries' = {} /\ origin' = FALSE

\* d.ServerGroups(): an error ends ServerResources.
ServerGroups ==
    /\ dpc = "groups"
    /\ \E answer \in Answers("ok") :
          /\ Counted(answer)
          /\ IF answer = "error" THEN Fail /\ UNCHANGED j
                                 ELSE dpc' = "resources" /\ j' = 1
                                      /\ UNCHANGED <<entries, origin, status>>
    /\ UNCHANGED oapi

\* Faulty variant: every error of /oapi is ignored, not only 403 and 404.
OapiOutcomeIgnoringErrors(answer) ==
    IF answer = "served" THEN "merged" ELSE "kube only"

\* Faulty variant: a v1.0 server's 404 is returned as an error.
OapiOutcomeNoV10(answer) ==
    CASE answer = "served" -> "merged"
      [] answer = "forbidden" -> "kube only"
      [] OTHER -> "error"

\* What ServerResourcesForGroupVersion makes of the /oapi/v1 answer: the
\* origin list is appended, a 403 or 404 leaves the Kubernetes list alone,
\* any other error is returned.
OapiOutcome(answer) ==
    CASE answer = "served" -> "merged"
      [] answer \in {"notfound", "forbidden"} -> "kube only"
      [] OTHER -> "error"

\* One turn of the loop over the group versions: the parent client's
\* request for group version gv (its error is returned), then, for "v1"
\* only, the /oapi/v1 request.
ServerResourcesForGroupVersion ==
    /\ dpc = "resources" /\ j <= Len(GroupVersions)
    /\ LET gv == GroupVersions[j] IN
       \E parent \in Answers("ok"), answer \in Answers(oapi) :
          LET out == IF parent = "error" THEN "error"
                     ELSE IF gv # "v1" THEN "kube only"
                     ELSE OapiOutcome(answer)
          IN  /\ faults' = faults + (IF parent = "error" THEN 1 ELSE 0)
                                   + (IF gv = "v1" /\ answer = "error" THEN 1 ELSE 0)
              /\ faults' <= MaxFaults
              /\ gv # "v1" \/ parent = "error" => answer # "error"
              /\ IF out = "error"
                 THEN Fail /\ UNCHANGED j
                 ELSE /\ entries' = entries \cup {gv}
                      /\ origin' = (origin \/ out = "merged")
                      /\ j' = j + 1
                      /\ UNCHANGED <<dpc, status>>
    /\ UNCHANGED oapi

\* The loop is over: the map is returned.
Finish ==
    /\ dpc = "resources" /\ j > Len(GroupVersions)
    /\ dpc' = "done" /\ status' = "ok"
    /\ UNCHANGED <<oapi, j, entries, origin, faults>>

\* The caller runs discovery again after an error.
Rediscover ==
    /\ dpc = "done" /\ status = "error"
    /\ dpc' = "groups" /\ j' = 0 /\ status' = "none"
    /\ UNCHANGED <<oapi, entries, origin, faults>>

Next == ServerGroups \/ ServerResourcesForGroupVersion \/ Finish \/ Rediscover

Spec == Init /\ [][Next]_vars /\ WF_vars(Next)

-----------------------------------------------------------------------------

TypeOK ==
    /\ oapi \in {"served", "notfound", "forbidden"}
    /\ dpc \in {"groups", "resources", "done"}
    /\ j \in 0..Len(GroupVersions) + 1
    /\ entries \subseteq ToSet(GroupVersions)
    /\ origin \in BOOLEAN
    /\ status \in {"none", "ok", "error"}
    /\ faults \in 0..MaxFaults

\* A map ServerResources returns is complete: it has every group version
\* the server listed, and its v1 entry holds the origin resources exactly
\* when the server serves /oapi/v1, whichever requests of the loop failed
\* on the way (a partial map is never returned).
DiscoveryComplete ==
    status = "ok" =>
        /\ entries = ToSet(GroupVersions)
        /\ origin <=> oapi = "served"

\* Discovery eventually returns a map, on an origin server and on a v1.0
\* server alike, once the transient failures are over.
DiscoveryEventuallySucceeds ==
    <>(status = "ok")

=============================================================================
