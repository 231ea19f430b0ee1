------------------------- MODULE ImageSignatureREST -------------------------
(***************************************************************************)
(* The imageSignatures REST storage of OpenShift                           *)
(* (origin/pkg/image/registry/imagesignature/rest.go).  A signature lives  *)
(* inside its Image: Create and Delete each Get the image, edit its        *)
(* Signatures list locally and Update the image.  The Update carries the   *)
(* resourceVersion the Get returned, so the image registry rejects it with *)
(* a Conflict when the image changed in between; the REST storage returns  *)
(* that error to its caller and does not retry.                            *)
(*                                                                         *)
(* Several requests run concurrently against one image.  A signature is   *)
(* reduced to its name and its (type, content) pair.                      *)
(***************************************************************************)
EXTENDS Naturals, Sequences, SequencesExt

CONSTANTS
    Requests,   \* concurrent API requests (model values)
    Names,      \* signature names (imageName@signatureName)
    Contents,   \* (type, content) pairs
    MaxUpdates  \* successful updates of the image

Signatures == [name : Names, content : Contents]

VARIABLES
    image,     \* [rv |-> resourceVersion, sigs |-> Seq(Signatures)]
    req,       \* per request: its phase and its local copy of the image
    acked      \* signatures whose Create returned success and that no
               \* successful Delete has removed since (history)

vars == <<image, req, acked>>

Idle == [phase |-> "idle"]

\* A request that has returned, with its outcome.
Done(result) == [phase |-> "done", result |-> result]

Ready(r) == req[r].phase \in {"idle", "done"}

\* imageapi.IndexOfImageSignatureByName / IndexOfImageSignature: the
\* position of the first match, 0 when there is none.
IndexByName(sigs, n) == SelectInSeq(sigs, LAMBDA s : s.name = n)
IndexByContent(sigs, c) == SelectInSeq(sigs, LAMBDA s : s.content = c)

\* Faulty variant: the copy reads from the wrong offset (sigs[index:size])
\* and is a no-op, so the truncation drops the last entry instead.
RemoveSignatureLast(sigs, i) == SubSeq(sigs, 1, Len(sigs) - 1)

\* copy(sigs[index:size-1], sigs[index+1:size]); sigs = sigs[0:size-1]
RemoveSignature(sigs, i) == SubSeq(sigs, 1, i - 1) \o SubSeq(sigs, i + 1, Len(sigs))

Init ==
    /\ image = [rv |-> 1, sigs |-> <<>>]
    /\ req = [r \in Requests |-> Idle]
    /\ acked = {}

\* Create: BeforeCreate, the Get of the image, the duplicate check by
\* name and by content (AlreadyExists), and the append to the local copy.
CreateGet(r, sig) ==
    /\ Ready(r)
    /\ IF IndexByName(image.sigs, sig.name) > 0 \/ IndexByContent(image.sigs, sig.content) > 0
       THEN req' = [req EXCEPT ![r] = Done("AlreadyExists")]
       ELSE image.rv <= MaxUpdates /\ req' = [req EXCEPT ![r] = [phase |-> "create", sig |-> sig,
                      copy |-> [image EXCEPT !.sigs = Append(@, sig)]]]
    /\ UNCHANGED <<image, acked>>

\* Faulty variant: on a conflict the update is retried on a fresh copy of
\* the image without repeating the duplicate check.
CreateUpdateRetrying(r) ==
    /\ req[r].phase = "create" /\ image.rv <= MaxUpdates
    /\ image' = [rv |-> image.rv + 1, sigs |-> Append(image.sigs, req[r].sig)]
    /\ acked' = acked \cup {req[r].sig}
    /\ req' = [req EXCEPT ![r] = Done("Created")]

\* Create: Update of the image (Conflict when it changed since the Get),
\* then the signature is looked up by name in the stored image and
\* returned (InternalError when it is missing).
CreateUpdate(r) ==
    /\ req[r].phase = "create"
    /\ IF req[r].copy.rv = image.rv
       THEN LET stored == [rv |-> image.rv + 1, sigs |-> req[r].copy.sigs]
                found  == IndexByName(stored.sigs, req[r].sig.name) > 0
            IN  /\ image' = stored
                /\ acked' = IF found THEN acked \cup {req[r].sig} ELSE acked
                /\ req' = [req EXCEPT ![r] = Done(IF found THEN "Created" ELSE "InternalError")]
       ELSE /\ req' = [req EXCEPT ![r] = Done("Conflict")]
            /\ UNCHANGED <<image, acked>>

\* Delete: the Get of the image, NotFound when no signature has the name,
\* else the removal from the local copy.
DeleteGet(r, n) ==
    /\ Ready(r)
    /\ LET i == IndexByName(image.sigs, n)
       IN  IF i = 0
           THEN req' = [req EXCEPT ![r] = Done("NotFound")]
           ELSE image.rv <= MaxUpdates /\ req' = [req EXCEPT ![r] = [phase |-> "delete", name |-> n,
                          copy |-> [image EXCEPT !.sigs = RemoveSignature(@, i)]]]
    /\ UNCHANGED <<image, acked>>

\* Delete: Update of the image; Success unless it is a Conflict.
DeleteUpdate(r) ==
    /\ req[r].phase = "delete"
    /\ IF req[r].copy.rv = image.rv
       THEN /\ image' = [rv |-> image.rv + 1, sigs |-> req[r].copy.sigs]
            /\ acked' = {s \in acked : s.name # req[r].name}
            /\ req' = [req EXCEPT ![r] = Done("Success")]
       ELSE /\ req' = [req EXCEPT ![r] = Done("Conflict")]
            /\ UNCHANGED <<image, acked>>

Next ==
    \/ \E r \in Requests, sig \in Signatures : CreateGet(r, sig)
    \/ \E r \in Requests : CreateUpdate(r)
    \/ \E r \in Requests, n \in Names : DeleteGet(r, n)
    \/ \E r \in Requests : DeleteUpdate(r)

Spec == Init /\ [][Next]_vars

-----------------------------------------------------------------------------

TypeOK ==
    /\ image.rv \in 1..2 * MaxUpdates + 1 /\ image.sigs \in Seq(Signatures)
    /\ acked \subseteq Signatures
    /\ \A r \in Requests : req[r].phase \in {"idle", "done", "create", "delete"}

\* The identity of a signature, which the check of Create intends ("ensure
\* that given signature already doesn't exist"): no two signatures of the
\* image share a name or a (type, content) pair, although that check runs
\* on a Get that concurrent requests may have made stale.
SignaturesUnique ==
    \A i, j \in DOMAIN image.sigs :
        i # j => /\ image.sigs[i].name # image.sigs[j].name
                 /\ image.sigs[i].content # image.sigs[j].content

\* No acknowledged signature is lost: every signature whose Create
\* returned it is still in the image until a Delete of its name succeeds,
\* whatever other Creates and Deletes ran concurrently.
NoLostSignature ==
    \A s \in acked : \E i \in DOMAIN image.sigs : image.sigs[i] = s

=============================================================================
