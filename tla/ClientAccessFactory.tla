------------------------- MODULE ClientAccessFactory -------------------------
(***************************************************************************)
(* The object methods of kubectl's client access factory                  *)
(* (kubernetes/pkg/kubectl/cmd/util/factory_client_access.go, ring0Factory)*)
(* that commands such as expose, set image, rollout pause/resume and      *)
(* autoscale call on the object they read from a file or the server.     *)
(* Each is a type switch over the object's kind; UpdatePodSpecForObject,  *)
(* Pauser and Resumer change the object.                                  *)
(*                                                                         *)
(* An object is reduced to what the switches read: its kind, whether an  *)
(* RC has a pod template (Spec.Template is a pointer only in an RC),      *)
(* whether a pod has labels, a service a selector, a deployment or        *)
(* replica set selector match expressions, whether a deployment is       *)
(* paused, and the image of its pod spec.  The command is the caller: it  *)
(* calls the methods on its object in any order.  expose asks             *)
(* CanBeExposed, then MapBasedSelectorForObject unless --selector is      *)
(* given, PortsForObject unless --port is, ProtocolsForObject unless      *)
(* --protocol is, and stops at the first error.  A nil dereference is     *)
(* the outcome "panic".                                                   *)
(***************************************************************************)
EXTENDS Sequences

CONSTANTS
    Objects     \* the objects a command may hold (records, see TypeOK)

VARIABLES
    obj,        \* the object the command holds
    out         \* the outcome of the last call ("none" before any)

vars == <<obj, out>>

Kinds == {"Pod", "ReplicationController", "Service", "Deployment",
          "ReplicaSet", "DaemonSet", "StatefulSet", "Job", "ConfigMap"}

\* The kinds with a pod template, and those of each switch.
TemplateKinds == {"ReplicationController", "Deployment", "DaemonSet",
                  "ReplicaSet", "StatefulSet", "Job"}
SelectorKinds == {"ReplicationController", "Pod", "Service", "Deployment",
                  "ReplicaSet"}
ExposableKinds == {"ReplicationController", "Service", "Pod", "Deployment",
                   "ReplicaSet"}
AutoscalableKinds == {"ReplicationController", "Deployment", "ReplicaSet"}

\* The objects a decoded file or the server can give: only an RC can lack
\* a template, only a deployment be paused, only a deployment or replica
\* set have match expressions, only a service lack a selector.
ObjectsWith(templates) ==
    {o \in [kind : Kinds, template : templates, labels : BOOLEAN,
           selector : BOOLEAN, matchExpressions : BOOLEAN, paused : BOOLEAN,
           image : {"old"}] :
        /\ o.kind # "ReplicationController" => o.template = "set"
        /\ o.kind # "Deployment" => ~o.paused
        /\ o.kind \notin {"Deployment", "ReplicaSet"} => ~o.matchExpressions
        /\ o.kind # "Service" => o.selector}

Init ==
    /\ obj \in Objects
    /\ out = "none"

\* CanBeExposed and CanBeAutoscaled: the kind is one of the listed.
CanBeExposed(o) == IF o.kind \in ExposableKinds THEN "ok" ELSE "cannot expose"
CanBeAutoscaled(o) == IF o.kind \in AutoscalableKinds THEN "ok" ELSE "cannot autoscale"

\* MapBasedSelectorForObject: the RC's selector, the pod's labels, the
\* service's selector, or the match labels of a deployment or replica set.
MapBasedSelectorForObject(o) ==
    CASE o.kind \notin SelectorKinds -> "cannot extract pod selector"
      [] o.kind = "Pod" /\ ~o.labels -> "pod has no labels"
      [] o.kind = "Service" /\ ~o.selector -> "service has no selector"
      [] o.kind \in {"Deployment", "ReplicaSet"} /\ o.matchExpressions
            -> "cannot convert expressions"
      [] OTHER -> "ok"

\* Faulty variant: the replica set case is missing.
PortsForObjectNoReplicaSet(o) ==
    CASE o.kind \notin SelectorKinds \ {"ReplicaSet"} -> "cannot extract ports"
      [] o.kind = "ReplicationController" /\ o.template = "nil" -> "panic"
      [] OTHER -> "ok"

\* PortsForObject: the ports of the pod spec (of the RC's template,
\* t.Spec.Template.Spec, with no nil check) or of the service.
PortsForObject(o) ==
    CASE o.kind \notin SelectorKinds -> "cannot extract ports"
      [] o.kind = "ReplicationController" /\ o.template = "nil" -> "panic"
      [] OTHER -> "ok"

\* ProtocolsForObject: the same switch for the ports' protocols.
ProtocolsForObject(o) ==
    CASE o.kind \notin SelectorKinds -> "cannot extract protocols"
      [] o.kind = "ReplicationController" /\ o.template = "nil" -> "panic"
      [] OTHER -> "ok"

\* The first error of the calls made, or "ok".
FirstError(results) ==
    LET errs == SelectSeq(results, LAMBDA r : r # "ok")
    IN IF errs = <<>> THEN "ok" ELSE Head(errs)

\* expose: the factory calls it makes, depending on the flags given.
Expose(selectorGiven, portGiven, protocolGiven) ==
    /\ out' = FirstError(<<CanBeExposed(obj)>>
                         \o (IF selectorGiven THEN <<>> ELSE <<MapBasedSelectorForObject(obj)>>)
                         \o (IF portGiven THEN <<>> ELSE <<PortsForObject(obj)>>)
                         \o (IF protocolGiven THEN <<>> ELSE <<ProtocolsForObject(obj)>>))
    /\ UNCHANGED obj

\* autoscale: CanBeAutoscaled.
Autoscale ==
    /\ out' = CanBeAutoscaled(obj)
    /\ UNCHANGED obj

\* UpdatePodSpecForObject with the function of set image: a pod's spec or
\* the template's spec gets the new image; an RC without a template gets
\* an empty one first.  Other kinds: "the object is not a pod or does not
\* have a pod template".
UpdatePodSpecForObject ==
    IF obj.kind \in {"Pod"} \cup TemplateKinds
    THEN /\ obj' = [obj EXCEPT !.template = IF obj.kind = "ReplicationController"
                                          THEN "set" ELSE @,
                                !.image = "new"]
         /\ out' = "ok"
    ELSE /\ out' = "no pod template"
         /\ UNCHANGED obj

\* Pauser: a deployment that is not paused becomes paused; a paused one
\* is "already paused"; other kinds do not support pausing.
Pauser ==
    CASE obj.kind # "Deployment" -> out' = "pausing not supported" /\ UNCHANGED obj
      [] obj.paused -> out' = "already paused" /\ UNCHANGED obj
      [] OTHER -> obj' = [obj EXCEPT !.paused = TRUE] /\ out' = "ok"

\* Resumer: the converse of Pauser.
Resumer ==
    CASE obj.kind # "Deployment" -> out' = "resuming not supported" /\ UNCHANGED obj
      [] ~obj.paused -> out' = "not paused" /\ UNCHANGED obj
      [] OTHER -> obj' = [obj EXCEPT !.paused = FALSE] /\ out' = "ok"

\* A panic ends the command.
Next ==
    /\ out # "panic"
    /\ \/ \E s, p, q \in BOOLEAN : Expose(s, p, q)
       \/ Autoscale
       \/ UpdatePodSpecForObject
       \/ Pauser
       \/ Resumer

Spec == Init /\ [][Next]_vars

-----------------------------------------------------------------------------

TypeOK ==
    /\ obj.kind \in Kinds
    /\ obj.template \in {"nil", "set"}
    /\ obj.image \in {"old", "new"}
    /\ {obj.labels, obj.selector, obj.matchExpressions, obj.paused} \subseteq BOOLEAN

\* The switches agree: a kind CanBeExposed accepts is handled by the
\* selector, ports and protocols switches, so expose fails on an
\* exposable object only for what the object holds (no labels, no
\* selector, match expressions), never with "cannot extract ... from" its
\* kind.
ExposeSwitchesAgree ==
    out \notin {"cannot extract pod selector", "cannot extract ports",
                "cannot extract protocols"}

\* The methods return an error for an object they cannot handle, as
\* UpdatePodSpecForObject does for an RC without a template: none of them
\* panics on an object a command can hold.
NoPanic ==
    out # "panic"

=============================================================================
