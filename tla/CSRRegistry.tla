----------------------------- MODULE CSRRegistry -----------------------------
(***************************************************************************)
(* The registry of one CertificateSigningRequest (kubernetes               *)
(* pkg/registry/certificates/certificates/strategy.go): its create and     *)
(* update strategies for the main resource and for the status and         *)
(* approval subresources, and Export, driven by users who read, export,   *)
(* create and update it concurrently.                                     *)
(*                                                                         *)
(* A client may send any body to any of the three update paths; an update  *)
(* either carries the resourceVersion the client last read (conditional)   *)
(* or none, which AllowUnconditionalUpdate accepts.  The strategy's        *)
(* PrepareForUpdate then merges the body with the stored object.  A CSR    *)
(* is reduced to its spec (username, request) and its status (approval     *)
(* conditions, certificate).                                               *)
(***************************************************************************)
EXTENDS Naturals, TLC

CONSTANTS
    Users,      \* authenticated users (model values)
    NoUser,     \* a request context without user info
    Requests,   \* PEM-encoded requests a body may carry
    Conditions, \* condition types (Approved, Denied)
    MaxWrites   \* updates of the object

ASSUME NoUser \notin Users /\ MaxWrites \in Nat

\* The spec and status a client may put into a body.
Bodies == [user : Users \cup {""}, request : Requests,
           conditions : SUBSET Conditions, cert : BOOLEAN]

NoCSR == [absent |-> TRUE]

VARIABLES
    csr,       \* the stored object: a body with a resourceVersion rv, or NoCSR
    readRv,    \* per user, the resourceVersion of its last read (0: none)
    exported,  \* per user, the body of its last export (or NoCSR)
    creator,   \* the request user of the create (history)
    path       \* the path of the last write: "create", "main", "status" or
               \* "approval" (history)

vars == <<csr, readRv, exported, creator, path>>

Exists == csr # NoCSR

\* The spec and status of an object, without its metadata.
Body(x) == [user |-> x.user, request |-> x.request,
            conditions |-> x.conditions, cert |-> x.cert]

\* Faulty variant: the user info is taken without checking that the
\* context has one.
PrepareForCreateUnchecked(body, ctxUser) ==
    [body EXCEPT !.user = ctxUser, !.conditions = {}, !.cert = FALSE]

\* Faulty variant: the user-specified username is not cleared.
PrepareForCreateKeepsClaim(body, ctxUser) ==
    [body EXCEPT !.user = IF ctxUser = NoUser THEN body.user ELSE ctxUser,
                 !.conditions = {}, !.cert = FALSE]

\* PrepareForCreate: user info comes from the request context only, and
\* the status starts empty.
PrepareForCreate(body, ctxUser) ==
    [body EXCEPT !.user = IF ctxUser = NoUser THEN "" ELSE ctxUser,
                 !.conditions = {}, !.cert = FALSE]

\* csrStrategy.PrepareForUpdate: spec and status are kept.
PrepareForUpdate(new, old) ==
    [new EXCEPT !.user = old.user, !.request = old.request,
                !.conditions = old.conditions, !.cert = old.cert]

\* Faulty variant: the status path does not restore the conditions.
StatusPrepareForUpdateNoConditions(new, old) ==
    [new EXCEPT !.user = old.user, !.request = old.request]

\* csrStatusStrategy.PrepareForUpdate: spec and conditions are kept.
StatusPrepareForUpdate(new, old) ==
    [new EXCEPT !.user = old.user, !.request = old.request,
                !.conditions = old.conditions]

\* Faulty variant: the approval path does not restore the spec.
ApprovalPrepareForUpdateNoSpec(new, old) == [new EXCEPT !.cert = old.cert]

\* csrApprovalStrategy.PrepareForUpdate: only the conditions change.
ApprovalPrepareForUpdate(new, old) ==
    [new EXCEPT !.user = old.user, !.request = old.request,
                !.cert = old.cert]

\* Export: PrepareForCreate with the exporter's context, then, unless
\* exact, the status is cleared.
ExportCSR(obj, ctxUser, exact) ==
    LET prepared == PrepareForCreate(obj, ctxUser)
    IN  IF exact THEN prepared ELSE [prepared EXCEPT !.conditions = {}, !.cert = FALSE]

\* The strategy of the path the update came through.
Merge(sub, new, old) ==
    CASE sub = "main"     -> PrepareForUpdate(new, old)
      [] sub = "status"   -> StatusPrepareForUpdate(new, old)
      [] sub = "approval" -> ApprovalPrepareForUpdate(new, old)

Init ==
    /\ csr = NoCSR
    /\ readRv = [u \in Users |-> 0]
    /\ exported = [u \in Users |-> NoCSR]
    /\ creator = NoUser
    /\ path = "none"

\* Create, with a body of the client's choosing or an exported one; the
\* object does not exist yet.
Create(ctxUser, body) ==
    /\ ~Exists
    /\ csr' = [rv |-> 1] @@ PrepareForCreate(body, ctxUser)
    /\ creator' = ctxUser
    /\ path' = "create"
    /\ UNCHANGED <<readRv, exported>>

Get(u) ==
    /\ Exists
    /\ readRv' = [readRv EXCEPT ![u] = csr.rv]
    /\ UNCHANGED <<csr, exported, creator, path>>

\* GET with ?export, exact or not.
Export(u, exact) ==
    /\ Exists
    /\ exported' = [exported EXCEPT ![u] = [exact |-> exact] @@ ExportCSR(Body(csr), u, exact)]
    /\ UNCHANGED <<csr, readRv, creator, path>>

\* Update of the main resource or of a subresource.  A conditional update
\* whose resourceVersion is not the stored one is a conflict; an update
\* without one is accepted (AllowUnconditionalUpdate); AllowCreateOnUpdate
\* is false, so the object must exist.
Update(u, sub, body, conditional) ==
    /\ Exists /\ csr.rv <= MaxWrites
    /\ conditional => readRv[u] = csr.rv
    /\ csr' = [rv |-> csr.rv + 1] @@ Merge(sub, body, Body(csr))
    /\ path' = sub
    /\ UNCHANGED <<readRv, exported, creator>>

\* The generic store deletes the object (the strategy has no delete hook).
\* A resourceVersion read from it never matches a later object.
Delete ==
    /\ Exists
    /\ csr' = NoCSR
    /\ readRv' = [u \in Users |-> 0]
    /\ creator' = NoUser
    /\ path' = "delete"
    /\ UNCHANGED exported

Next ==
    \/ \E ctxUser \in Users \cup {NoUser}, body \in Bodies : Create(ctxUser, body)
    \/ \E u \in Users : exported[u] # NoCSR /\ Create(u, Body(exported[u]))
    \/ \E u \in Users : Get(u)
    \/ \E u \in Users, exact \in BOOLEAN : Export(u, exact)
    \/ \E u \in Users, sub \in {"main", "status", "approval"}, body \in Bodies,
          conditional \in BOOLEAN : Update(u, sub, body, conditional)
    \/ Delete

Spec == Init /\ [][Next]_vars

-----------------------------------------------------------------------------

TypeOK ==
    /\ csr \in {NoCSR} \cup {[rv |-> v] @@ b : v \in 1..MaxWrites + 1, b \in Bodies}
    /\ readRv \in [Users -> 0..MaxWrites + 1]
    /\ exported \in [Users -> {NoCSR} \cup {[exact |-> e] @@ b : e \in BOOLEAN, b \in Bodies}]
    /\ creator \in Users \cup {NoUser}
    /\ path \in {"none", "create", "main", "status", "approval", "delete"}

\* The username of a stored CSR is the user who created it (empty for a
\* request without user info), whatever the bodies of the create, of an
\* exported object reused for it, and of every later update say.
IdentityBound ==
    Exists => csr.user = IF creator = NoUser THEN "" ELSE creator

\* After creation the spec never changes, through any of the three update
\* paths, conditional or not, until the object is deleted.
SpecImmutable ==
    [][ Exists /\ Exists' => csr'.user = csr.user /\ csr'.request = csr.request ]_vars

CondsOf(x) == IF x = NoCSR THEN {} ELSE x.conditions
CertOf(x)  == IF x = NoCSR THEN FALSE ELSE x.cert

\* Approval and issuance are separate concerns: the conditions change only
\* through the approval subresource and the certificate only through the
\* status subresource; a create (even of an exported object) yields an
\* unapproved CSR without certificate, and a write based on a stale read
\* never undoes the other subresource's last write (a delete removes
\* both).
SubresourceSeparation ==
    [][ Exists' =>
        /\ CondsOf(csr') # CondsOf(csr) => path' = "approval"
        /\ CertOf(csr') # CertOf(csr) => path' = "status" ]_vars

\* Export with exact = TRUE keeps the object as stored: "without exact" the
\* status is cleared "so the CSR value can be reused" (comment of Export).
ExactExportKeepsStatus ==
    [][ \A u \in Users :
          exported'[u] # exported[u] /\ exported'[u].exact =>
              exported'[u].conditions = csr.conditions /\ exported'[u].cert = csr.cert ]_vars

=============================================================================
