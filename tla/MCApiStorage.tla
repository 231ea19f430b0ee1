---------------------------- MODULE MCApiStorage ----------------------------
(***************************************************************************)
(* The REST storage of the master's API server: the identity, cluster     *)
(* network and limit range stores sharing one etcd keyspace               *)
(* (RegistryStores, which this module extends), the CertificateSigningRequest registry (CSRRegistry) *)
(* the imageSignatures storage (ImageSignatureREST), and the master's     *)
(* choice of the admission plugins it starts (AdmissionActivation), and  *)
(* the master's DNS server (DNSServer).  A behaviour                       *)
(* exercises one of them (family); the variables of the others keep their *)
(* initial values, so each property is checked on the behaviours of its   *)
(* own storage and holds trivially on the others.                          *)
(***************************************************************************)
EXTENDS RegistryStores

CONSTANTS
    c1, c2, ns1, ns2, n1, u1, v1, v2,   \* RegistryStores
    a1, a2, r1, r2, NoUser,             \* CSRRegistry
    q1, q2, s1, s2, k1, k2              \* ImageSignatureREST

VARIABLES
    family,
    csr, readRv, exported, creator, path,
    image, req, acked,
    config, k, started,
    dns, stop, metrics, answer

csrVars == <<csr, readRv, exported, creator, path>>
isVars  == <<image, req, acked>>
adVars  == <<config, k, started>>
dnsVars == <<dns, stop, metrics, answer>>
rsVars == vars
apiVars == <<family, rsVars, csrVars, isVars, adVars, dnsVars>>

\* RegistryStores: two clients, two namespaces, one name, one provider
\* user, two values; three etcd writes and one generated name.
MCClients == {c1, c2}
MCNamespaces == {ns1, ns2}
MCNames == {n1}
MCUsers == {u1}
MCValues == {v1, v2}

\* Two users, two requests, the two condition types, two updates.
CSR == INSTANCE CSRRegistry WITH Users <- {a1, a2}, Requests <- {r1, r2},
        Conditions <- {"Approved", "Denied"}, MaxWrites <- 2

\* Two concurrent requests, two signature names, two contents, four
\* updates of the image.
IS == INSTANCE ImageSignatureREST WITH Requests <- {q1, q2},
        Names <- {s1, s2}, Contents <- {k1, k2}, MaxUpdates <- 4

\* An admission chain of a default-on plugin, a default-off plugin and a
\* plugin of neither list, each with any of the four configurations.
AD == INSTANCE AdmissionActivation WITH
        Chain <- <<"LimitRanger", "RunOnceDuration", "AlwaysAdmit">>

\* The admission variables of the other families: no configuration.
ADIdle == AD!Init /\ config = [p \in AD!Plugins |-> "none"]

\* The DNS server, with and without a metrics name.
DNS == INSTANCE DNSServer WITH MetricsNames <- {"", "dns"}

ApiInit ==
    /\ family \in {"stores", "csr", "imagesignatures", "admission", "dns"}
    /\ Init /\ CSR!Init /\ IS!Init /\ DNS!Init
    /\ IF family = "admission" THEN AD!Init ELSE ADIdle

ApiNext ==
    \/ family = "stores" /\ Next /\ UNCHANGED <<family, csrVars, isVars, adVars, dnsVars>>
    \/ family = "csr" /\ CSR!Next /\ UNCHANGED <<family, rsVars, isVars, adVars, dnsVars>>
    \/ family = "imagesignatures" /\ IS!Next
         /\ UNCHANGED <<family, rsVars, csrVars, adVars, dnsVars>>
    \/ family = "admission" /\ AD!Next
         /\ UNCHANGED <<family, rsVars, csrVars, isVars, dnsVars>>
    \/ family = "dns" /\ DNS!Next
         /\ UNCHANGED <<family, rsVars, csrVars, isVars, adVars>>

ApiSpec == ApiInit /\ [][ApiNext]_apiVars

-----------------------------------------------------------------------------

\* RegistryStores' property ObjectsIsolated is checked as that module
\* states it.

\* A stored CSR's username is the user who created it, whatever the bodies
\* of the create and of later updates say.
CSRIdentityBound == CSR!IdentityBound

\* A CSR's spec never changes after creation, through any update path.
CSRSpecImmutable == CSR!SpecImmutable

\* A CSR's conditions change only through the approval subresource and its
\* certificate only through the status subresource.
CSRSubresourceSeparation == CSR!SubresourceSeparation

\* No two signatures of the image share a name or a content, although
\* Create checks this on a Get concurrent requests may have made stale.
SignaturesUnique == IS!SignaturesUnique

\* Every signature whose Create succeeded stays in the image until a
\* Delete of its name succeeds.
NoLostSignature == IS!NoLostSignature

=============================================================================
