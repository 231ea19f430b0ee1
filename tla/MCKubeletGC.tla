---------------------------- MODULE MCKubeletGC ----------------------------
(***************************************************************************)
(* One pod with one container name: the pod may run two sandboxes and    *)
(* two containers, the kubelet may restart once, and the policy keeps at  *)
(* most one dead container per unit and one overall, so a dead container  *)
(* is evicted while another is kept.                                       *)
(***************************************************************************)
EXTENDS KubeletGC, TLC

CONSTANTS p1, n1

MCNames == {n1}
MCPolicy == [maxPerPod |-> 1, maxContainers |-> 1]

=============================================================================
