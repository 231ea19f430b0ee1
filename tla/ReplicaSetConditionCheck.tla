---------------------- MODULE ReplicaSetConditionCheck ----------------------
(***************************************************************************)
(* The e2e test rsConditionCheck (kubernetes test/e2e/replica_set.go)      *)
(* against the controllers it exercises.  The test creates a pod quota of *)
(* 2, waits until the quota controller has synced its status, creates a   *)
(* replica set of 3, waits for the ReplicaFailure condition, scales the   *)
(* set down to 2 and waits for the condition to go.  Each wait polls the  *)
(* replica set and ignores a status whose observedGeneration is older     *)
(* than the generation the test wrote.                                     *)
(*                                                                         *)
(* The controllers are outside this repository and are the environment:   *)
(*  - the quota controller fills in status.hard of a new quota; until it  *)
(*    has, quota admission rejects every pod ("status unknown");           *)
(*  - the replica set controller syncs in two steps: it reads the spec    *)
(*    and manages pods, then writes the status for the generation it read *)
(*    (the test may change the spec in between).  While pods it created   *)
(*    are not yet observed by its informer, the sync skips manageReplicas *)
(*    and the status it writes carries no error, so the failure condition *)
(*    is removed; otherwise it is set exactly when a pod create failed.   *)
(***************************************************************************)
EXTENDS Naturals

CONSTANTS
    QuotaPods,      \* the pod quota of the test (newPodQuota(name, "2"))
    InitReplicas,   \* replicas of the created set (newRS(name, 3, ...))
    ScaledReplicas  \* replicas after the scale down

ASSUME QuotaPods < InitReplicas /\ ScaledReplicas <= QuotaPods

VARIABLES
    tpc,         \* the test's position
    generation,  \* the test's local variable generation
    quota,       \* "none", "created" or "synced" (status.hard filled in)
    rs,          \* the replica set: gen, replicas (spec), obsGen, failure,
                 \* and specReplicas, the spec the status was computed from
    pods,        \* pods of the set in the cluster
    unobserved,  \* pods created but not yet seen by the controller
    ctl          \* the controller's sync in progress

vars == <<tpc, generation, quota, rs, pods, unobserved, ctl>>

NoRS == [gen |-> 0, replicas |-> 0, obsGen |-> 0, failure |-> FALSE, specReplicas |-> 0]

Init ==
    /\ tpc = "createQuota"
    /\ generation = 0
    /\ quota = "none"
    /\ rs = NoRS
    /\ pods = 0 /\ unobserved = 0
    /\ ctl = [busy |-> FALSE]

-----------------------------------------------------------------------------
(* The test.                                                               *)

\* Create the quota that allows only QuotaPods pods.
CreateQuota ==
    /\ tpc = "createQuota"
    /\ quota' = "created"
    /\ tpc' = "waitQuota"
    /\ UNCHANGED <<generation, rs, pods, unobserved, ctl>>

\* The poll returns once status.hard of the quota is the requested value.
PollQuota ==
    /\ tpc = "waitQuota" /\ quota = "synced"
    /\ tpc' = "createRS"
    /\ UNCHANGED <<generation, quota, rs, pods, unobserved, ctl>>

\* Create the replica set; generation := rs.Generation of the result.
CreateRS ==
    /\ tpc = "createRS"
    /\ rs' = [NoRS EXCEPT !.gen = 1, !.replicas = InitReplicas]
    /\ generation' = 1
    /\ tpc' = "waitFailure"
    /\ UNCHANGED <<quota, pods, unobserved, ctl>>

\* The poll skips a status older than generation, else returns once the
\* ReplicaFailure condition is present.
PollFailure ==
    /\ tpc = "waitFailure"
    /\ generation <= rs.obsGen /\ rs.failure
    /\ tpc' = "scaleDown"
    /\ UNCHANGED <<generation, quota, rs, pods, unobserved, ctl>>

\* Faulty variant: the new generation is read before the update.
ScaleDownKeepsGeneration ==
    /\ tpc = "scaleDown"
    /\ rs' = [rs EXCEPT !.replicas = ScaledReplicas, !.gen = @ + 1]
    /\ tpc' = "waitClear"
    /\ UNCHANGED <<generation, quota, pods, unobserved, ctl>>

\* UpdateReplicaSetWithRetries sets the replicas (retrying conflicts with
\* the controller's status writes until it succeeds); the spec change
\* bumps the generation, which the test then waits for.
ScaleDown ==
    /\ tpc = "scaleDown"
    /\ rs' = [rs EXCEPT !.replicas = ScaledReplicas, !.gen = @ + 1]
    /\ generation' = rs.gen + 1
    /\ tpc' = "waitClear"
    /\ UNCHANGED <<quota, pods, unobserved, ctl>>

\* Faulty variant: the poll returns on the condition alone.
PollClearIgnoresGeneration ==
    /\ tpc = "waitClear"
    /\ ~rs.failure
    /\ tpc' = "done"
    /\ UNCHANGED <<generation, quota, rs, pods, unobserved, ctl>>

\* Faulty variant: the second poll waits for the condition to be present.
PollClearInverted ==
    /\ tpc = "waitClear"
    /\ generation <= rs.obsGen /\ rs.failure
    /\ tpc' = "done"
    /\ UNCHANGED <<generation, quota, rs, pods, unobserved, ctl>>

\* The poll skips a status older than generation, else returns once the
\* ReplicaFailure condition is gone.
PollClear ==
    /\ tpc = "waitClear"
    /\ generation <= rs.obsGen /\ ~rs.failure
    /\ tpc' = "done"
    /\ UNCHANGED <<generation, quota, rs, pods, unobserved, ctl>>

Test == CreateQuota \/ PollQuota \/ CreateRS \/ PollFailure \/ ScaleDown \/ PollClear

-----------------------------------------------------------------------------
(* The controllers (environment).                                          *)

QuotaSync ==
    /\ quota = "created"
    /\ quota' = "synced"
    /\ UNCHANGED <<tpc, generation, rs, pods, unobserved, ctl>>

\* Pods quota admission lets through.
Admitted(n) ==
    LET room == IF quota = "synced" THEN QuotaPods - pods ELSE 0
    IN  IF n < room THEN n ELSE room

\* While created pods are unobserved (expectations pending) the sync
\* skips manageReplicas.
Skip == unobserved > 0

\* The creates a sync would issue.
Missing == IF Skip THEN 0 ELSE rs.replicas - pods

\* Sync, first step: read the spec and, unless Skip, create or delete
\* pods; remember whether a create failed.  The creates run in parallel
\* and any of them may fail (quota admission, or a conflict on the
\* quota's usage): created of them succeed, at most what admission lets
\* through.
SyncManage(created) ==
    /\ ~ctl.busy /\ rs.gen > 0
    /\ created \in IF Missing <= 0 THEN {0} ELSE 0..Admitted(Missing)
    /\ pods' = IF Missing < 0 THEN rs.replicas ELSE pods + created
    /\ unobserved' = unobserved + created
    /\ ctl' = [busy |-> TRUE, gen |-> rs.gen, replicas |-> rs.replicas,
               err |-> Missing > 0 /\ created < Missing]
    /\ UNCHANGED <<tpc, generation, quota, rs>>

\* A sync in which every create quota admission allows succeeds.
SyncManageAdmitted ==
    SyncManage(IF Missing <= 0 THEN 0 ELSE Admitted(Missing))

\* Sync, second step: write the status computed for the spec it read.
SyncStatus ==
    /\ ctl.busy
    /\ rs' = [rs EXCEPT !.obsGen = ctl.gen, !.failure = ctl.err,
                        !.specReplicas = ctl.replicas]
    /\ ctl' = [busy |-> FALSE]
    /\ UNCHANGED <<tpc, generation, quota, pods, unobserved>>

\* The informer delivers a created pod.
Observe ==
    /\ unobserved > 0
    /\ unobserved' = unobserved - 1
    /\ UNCHANGED <<tpc, generation, quota, rs, pods, ctl>>

Controllers == QuotaSync \/ (\E n \in 0..InitReplicas : SyncManage(n)) \/ SyncStatus \/ Observe

Next == Test \/ Controllers

\* Every actor keeps running; polls are retried every second and the
\* controllers resync, so each is weakly fair; a create that quota
\* admission allows fails only transiently, so a sync in which all of
\* them succeed eventually happens (strong fairness).  The one-minute timeouts of
\* the polls are not modelled: the liveness property below is what makes
\* them pass.
Spec ==
    /\ Init /\ [][Next]_vars
    /\ WF_vars(Test)
    /\ WF_vars(QuotaSync) /\ SF_vars(SyncManageAdmitted) /\ WF_vars(SyncStatus)
    /\ WF_vars(Observe)

-----------------------------------------------------------------------------

\* When the test passes, the "no failure condition" it accepted was
\* computed by the controller for the scaled-down spec, not a stale
\* status written for the first generation (whose sync skipped
\* manageReplicas while created pods were unobserved).
ClearSeenForScaledSpec ==
    [][ tpc = "waitClear" /\ tpc' = "done" => rs.specReplicas = ScaledReplicas ]_vars

\* With the controllers running, the test eventually passes: each of its
\* polls eventually sees what it waits for.
TestPasses == <>(tpc = "done")

=============================================================================
