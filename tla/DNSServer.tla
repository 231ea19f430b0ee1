------------------------------ MODULE DNSServer ------------------------------
(***************************************************************************)
(* The master's DNS server (origin/pkg/dns/server.go).  NewServer makes    *)
(* the Stop channel and a cached service accessor whose reflector keeps   *)
(* the service cache current until Stop is closed.  ListenAndServe builds  *)
(* the service resolver with openshiftFallback, registers the metrics     *)
(* when MetricsName is set, and runs SkyDNS until it exits; its deferred  *)
(* close(s.Stop) then stops the accessor.  While SkyDNS runs, a query     *)
(* the resolver does not find goes to openshiftFallback, which names the  *)
(* kubernetes service for the openshift one.                               *)
(*                                                                         *)
(* A query is reduced to the three names openshiftFallback tells apart;   *)
(* an answer says where the resolver took it from.  SkyDNS may exit at    *)
(* any time (a listener error).                                           *)
(***************************************************************************)
EXTENDS Naturals

CONSTANTS
    MetricsNames    \* the values MetricsName may have ("" for none)

VARIABLES
    dns,        \* "new", "serving" or "exited"
    stop,       \* the Stop channel is closed
    metrics,    \* the Prometheus metrics are registered
    answer      \* where the last answer came from ("none" before any)

vars == <<dns, stop, metrics, answer>>

Queries == {"openshift.default.svc", "_endpoints.openshift.default.svc",
            "other.svc"}

\* NewServer: a fresh Stop channel, and the accessor started with it.
Init ==
    /\ dns = "new"
    /\ stop = FALSE
    /\ metrics = FALSE
    /\ answer = "none"

\* openshiftFallback: the kubernetes name for the openshift service and
\* for its endpoints record, nothing for other names.
openshiftFallback(name) ==
    CASE name = "openshift.default.svc" -> "kubernetes.default.svc."
      [] name = "_endpoints.openshift.default.svc" -> "_endpoints.kubernetes.default."
      [] OTHER -> "not found"

\* ListenAndServe up to dns.Run(): the resolver is built, the metrics are
\* registered for a non-empty MetricsName, and SkyDNS serves.
ListenAndServe(name) ==
    /\ dns = "new"
    /\ dns' = "serving"
    /\ metrics' = (name # "")
    /\ UNCHANGED <<stop, answer>>

\* A query SkyDNS answers from the service cache or, for a name the cache
\* does not hold, from openshiftFallback.
Resolve(q) ==
    /\ dns = "serving"
    /\ \E found \in BOOLEAN :
          answer' = IF found THEN "cache" ELSE openshiftFallback(q)
    /\ UNCHANGED <<dns, stop, metrics>>

\* dns.Run() returns and the deferred close(s.Stop) runs.
RunReturns ==
    /\ dns = "serving"
    /\ dns' = "exited"
    /\ stop' = TRUE
    /\ UNCHANGED <<metrics, answer>>

Next ==
    \/ \E name \in MetricsNames : ListenAndServe(name)
    \/ \E q \in Queries : Resolve(q)
    \/ RunReturns

Spec == Init /\ [][Next]_vars

-----------------------------------------------------------------------------

TypeOK ==
    /\ dns \in {"new", "serving", "exited"}
    /\ {stop, metrics} \subseteq BOOLEAN

=============================================================================
