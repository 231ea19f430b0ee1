--------------------------- MODULE RegistryStores ---------------------------
(***************************************************************************)
(* Three REST resources that share one etcd keyspace: identities and      *)
(* cluster networks (OpenShift, cluster scoped) and limit ranges          *)
(* (Kubernetes, namespaced), each a generic registry.Store configured by  *)
(* its strategy.  The strategies are those of                             *)
(*   origin/pkg/user/registry/identity/strategy.go,                       *)
(*   origin/pkg/sdn/registry/clusternetwork/strategy.go,                  *)
(*   kubernetes/pkg/registry/core/limitrange/strategy.go;                 *)
(* the keys come from restoptions.ApplyOptions and DefaultKeyFunctions    *)
(* (origin/pkg/util/restoptions/helpers.go), as NewREST of identities     *)
(* wires them (origin/pkg/user/registry/identity/etcd/etcd.go).           *)
(*                                                                         *)
(* The generic store is the environment (its code is not in this tree):   *)
(* Create runs PrepareForCreate and fails with AlreadyExists on a taken   *)
(* key; Update of a missing key creates only if AllowCreateOnUpdate, an   *)
(* update without a resourceVersion is refused unless                     *)
(* AllowUnconditionalUpdate, and one with a stale resourceVersion is a    *)
(* Conflict; every write takes the next etcd revision.  Validation is not *)
(* in this tree and is not modelled.                                       *)
(***************************************************************************)
EXTENDS Naturals, Sequences

CONSTANTS
    Clients,     \* API clients
    Namespaces,  \* namespaces a request may name
    Names,       \* object names a request may name
    Users,       \* provider user names of identities
    Values,      \* the rest of an object (a limit, a network)
    MaxRev,      \* etcd revisions (writes)
    MaxUUIDs     \* names uuid.NewUUID() hands out

Resources == {"identities", "clusternetworks", "limitranges"}

\* The strategies' answers (NamespaceScoped, AllowCreateOnUpdate,
\* AllowUnconditionalUpdate).
IdentityStrategy ==
    [namespaced |-> FALSE, createOnUpdate |-> FALSE, unconditional |-> FALSE]
ClusterNetworkStrategy ==
    [namespaced |-> FALSE, createOnUpdate |-> FALSE, unconditional |-> FALSE]
LimitRangeStrategy ==
    [namespaced |-> TRUE, createOnUpdate |-> TRUE, unconditional |-> TRUE]

Strategy(r) ==
    CASE r = "identities"      -> IdentityStrategy
      [] r = "clusternetworks" -> ClusterNetworkStrategy
      [] r = "limitranges"     -> LimitRangeStrategy

\* identityName(provider, user): one provider, so the user names it.
IdentityName(user) == <<"identity", user>>

UUIDNames == {<<"uuid", i>> : i \in 1..MaxUUIDs}

\* PrepareForCreate of each strategy, on the name of the body: an identity
\* is named after its provider user, a limit range without a name gets a
\* fresh uuid, a cluster network keeps its name.
PrepareForCreateName(r, name, user, uuid) ==
    CASE r = "identities"  -> IdentityName(user)
      [] r = "limitranges" -> IF name = "" THEN uuid ELSE name
      [] OTHER             -> name

\* ApplyOptions: the prefix gets a leading "/"; the scope of the store
\* is the strategy's, and must equal the one NewREST passes.
ApplyOptions(r, prefix, oldIsNamespaced) ==
    IF Strategy(r).namespaced # oldIsNamespaced
    THEN [ok |-> FALSE]
    ELSE [ok |-> TRUE, prefix |-> <<"/", prefix>>,
          namespaced |-> Strategy(r).namespaced]

\* The stores the API server builds (identities through NewREST with
\* oldIsNamespaced = FALSE; the others through their own NewREST).
NewREST(r) ==
    CASE r = "identities"      -> ApplyOptions(r, "identities", FALSE)
      [] r = "clusternetworks" -> ApplyOptions(r, "clusternetworks", FALSE)
      [] r = "limitranges"     -> ApplyOptions(r, "limitranges", TRUE)

\* Faulty variant: the key root is used as the key of a cluster-scoped
\* object.
DefaultKeyFunctionsRootAsKey(store, ns, name) ==
    IF store.namespaced THEN store.prefix \o <<ns, name>> ELSE store.prefix

\* DefaultKeyFunctions: NamespaceKeyFunc (prefix/namespace/name) for a
\* namespaced store, NoNamespaceKeyFunc (prefix/name) otherwise.
DefaultKeyFunctions(store, ns, name) ==
    IF store.namespaced THEN store.prefix \o <<ns, name>> ELSE store.prefix \o <<name>>

KeyOf(r, ns, name) == DefaultKeyFunctions(NewREST(r), ns, name)

AllNames == Names \cup {IdentityName(u) : u \in Users} \cup UUIDNames

AllKeys == {KeyOf(r, ns, n) : r \in Resources, ns \in Namespaces, n \in AllNames}

\* What an object is to the API: its resource, its namespace if the
\* resource is namespaced, its name.
ObjectId(r, ns, name) ==
    IF Strategy(r).namespaced THEN <<r, ns, name>> ELSE <<r, name>>

Absent == [rev |-> 0]

VARIABLES
    etcd,   \* key -> [rev, id, val], or Absent
    rev,    \* the last etcd revision
    uuids,  \* names handed out by uuid.NewUUID()
    read,   \* client -> [key, rev] of its last Get
    last    \* the last successful update: client, key, the revision it
            \* read and the one it replaced (history)

vars == <<etcd, rev, uuids, read, last>>

Init ==
    /\ \A r \in Resources : NewREST(r).ok
    /\ etcd = [k \in AllKeys |-> Absent]
    /\ rev = 0 /\ uuids = 0
    /\ read = [c \in Clients |-> [key |-> <<>>, rev |-> 0]]
    /\ last = [none |-> TRUE]

Write(k, id, val) ==
    /\ rev < MaxRev
    /\ rev' = rev + 1
    /\ etcd' = [etcd EXCEPT ![k] = [rev |-> rev + 1, id |-> id, val |-> val]]

Get(c, r, ns, name) ==
    LET k == KeyOf(r, ns, name) IN
    /\ etcd[k] # Absent
    /\ read' = [read EXCEPT ![c] = [key |-> k, rev |-> etcd[k].rev]]
    /\ UNCHANGED <<etcd, rev, uuids, last>>

\* Create: PrepareForCreate names the object (a limit range without a
\* name takes the next uuid); an object still without a name is refused,
\* and the key must be free.
Create(c, r, ns, name, user, val) ==
    LET fresh == name = "" /\ r = "limitranges"
        n == PrepareForCreateName(r, name, user, <<"uuid", uuids + 1>>)
        k == KeyOf(r, ns, n)
    IN
    /\ fresh => uuids < MaxUUIDs
    /\ uuids' = IF fresh THEN uuids + 1 ELSE uuids
    /\ n # "" /\ etcd[k] = Absent
    /\ Write(k, ObjectId(r, ns, n), val)
    /\ UNCHANGED <<read, last>>

\* Update of the object the URL names.  A missing object is created when
\* the strategy allows it (PrepareForCreate keeps a given name); otherwise
\* a conditional update must carry the revision its client last read,
\* and an unconditional one needs AllowUnconditionalUpdate.
\* PrepareForUpdate of the three strategies keeps the new object as sent.
Update(c, r, ns, name, val, conditional) ==
    LET k == KeyOf(r, ns, name) IN
    /\ IF etcd[k] = Absent
       THEN /\ Strategy(r).createOnUpdate
            /\ UNCHANGED last
       ELSE /\ IF conditional
               THEN read[c].key = k /\ read[c].rev = etcd[k].rev
               ELSE Strategy(r).unconditional
            /\ last' = [client |-> c, key |-> k, resource |-> r,
                        basedOn |-> IF read[c].key = k THEN read[c].rev ELSE 0,
                        replaced |-> etcd[k].rev]
    /\ Write(k, ObjectId(r, ns, name), val)
    /\ UNCHANGED <<uuids, read>>

Delete(c, r, ns, name) ==
    LET k == KeyOf(r, ns, name) IN
    /\ etcd[k] # Absent /\ rev < MaxRev
    /\ rev' = rev + 1
    /\ etcd' = [etcd EXCEPT ![k] = Absent]
    /\ UNCHANGED <<uuids, read, last>>

Next ==
    \E c \in Clients, r \in Resources, ns \in Namespaces :
        \/ \E name \in AllNames : Get(c, r, ns, name) \/ Delete(c, r, ns, name)
        \/ \E name \in Names \cup {""}, user \in Users, val \in Values :
               Create(c, r, ns, name, user, val)
        \/ \E name \in AllNames, val \in Values, conditional \in BOOLEAN :
               Update(c, r, ns, name, val, conditional)

Spec == Init /\ [][Next]_vars

-----------------------------------------------------------------------------

\* Identities and cluster networks refuse updates without a
\* resourceVersion: no update of one of them replaces a revision other
\* than the one its client read, so no concurrent write is lost.  (Limit
\* ranges allow unconditional updates, and lose them by design.)
NoLostUpdate ==
    [][ last' # last /\ last'.resource \in {"identities", "clusternetworks"}
          => last'.basedOn = last'.replaced ]_vars

\* The resources share one keyspace: a write through one object never
\* replaces another object's data (each object has a key of its own).
ObjectsIsolated ==
    [][ \A k \in AllKeys :
          etcd[k] # Absent /\ etcd'[k] # Absent => etcd'[k].id = etcd[k].id ]_vars

=============================================================================
