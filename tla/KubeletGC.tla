------------------------------ MODULE KubeletGC ------------------------------
(***************************************************************************)
(* The kubelet garbage collector (kuberuntime containerGC) running its     *)
(* three entry points in a loop, evictSandboxes, evictContainers and      *)
(* evictPodLogsDirectories, against a container runtime and a pod manager *)
(* that keep changing between and during the passes.                       *)
(*                                                                         *)
(* Each pass reads a snapshot (a list call), computes its decision with   *)
(* the operators of GCPolicy, then issues one delete call per chosen item; *)
(* every delete may fail and the pass goes on.  The runtime and the pod    *)
(* manager act in between: pods are added and deleted, sandboxes run and  *)
(* stop, containers start and exit, time passes, and the kubelet restarts *)
(* (the pod manager and the readiness of the pod sources are lost, the    *)
(* runtime objects and log directories on disk survive).                   *)
(*                                                                         *)
(* Time is abstracted to a creation counter (clock) and a watermark:       *)
(* an object is older than MinAge iff its creation stamp is below oldUpTo. *)
(***************************************************************************)
EXTENDS Integers, FiniteSets, GCPolicy

CONSTANTS
    Pods,                  \* pod UIDs (model values)
    Names,                 \* container names of a pod spec
    MaxSandboxAttempts,    \* sandboxes the kubelet may create per pod
    MaxContainerAttempts,  \* containers it may start per (pod, name)
    MaxRestarts,           \* kubelet restarts
    Policy                 \* [maxPerPod |-> Int, maxContainers |-> Int]

ASSUME MaxSandboxAttempts \in Nat /\ MaxContainerAttempts \in Nat
ASSUME MaxRestarts \in Nat
ASSUME Policy.maxPerPod \in Int /\ Policy.maxContainers \in Int

VARIABLES
    phase,        \* pod lifecycle: "none", "live" or "deleted"
    known,        \* pods in the pod manager (the Pod Liveness Oracle)
    sourcesReady, \* allSourcesReady of the kubelet
    sbAttempts,   \* sandboxes created so far per pod
    ctAttempts,   \* containers started so far per (pod, name)
    sandboxes,    \* runtime sandboxes: [pod, attempt, state, created]
    containers,   \* runtime containers: [pod, name, attempt, sb, state, created]
    logDirs,      \* pod log directories under podLogsRootDirectory
    clock,        \* next creation stamp
    oldUpTo,      \* objects created before oldUpTo are older than MinAge
    restarts,     \* kubelet restarts so far
    pc,           \* where the GC loop is
    sbSnap,       \* sandboxes listed by the current evictSandboxes
    pending       \* items the current pass still has to delete

vars == <<phase, known, sourcesReady, sbAttempts, ctAttempts, sandboxes,
          containers, logDirs, clock, oldUpTo, restarts, pc, sbSnap, pending>>

runtimeVars == <<sbAttempts, ctAttempts, sandboxes, containers, clock>>

SbId(s) == <<s.pod, s.attempt>>
CtId(c) == <<c.pod, c.name, c.attempt>>

\* A listed object carries its age as seen at list time.
Aged(x) == [old |-> x.created < oldUpTo] @@ x

Listed(S) == {Aged(x) : x \in S}

ReadySandbox(p) == {s \in sandboxes : s.pod = p /\ s.state = READY}

Init ==
    /\ phase = [p \in Pods |-> "none"]
    /\ known = {}
    /\ sourcesReady = FALSE
    /\ sbAttempts = [p \in Pods |-> 0]
    /\ ctAttempts = [k \in Pods \X Names |-> 0]
    /\ sandboxes = {}
    /\ containers = {}
    /\ logDirs = {}
    /\ clock = 0
    /\ oldUpTo = 0
    /\ restarts = 0
    /\ pc = "Idle"
    /\ sbSnap = {}
    /\ pending = {}

-----------------------------------------------------------------------------
(* Pod manager and pod sources.                                            *)

AddPod(p) ==
    /\ phase[p] = "none"
    /\ phase' = [phase EXCEPT ![p] = "live"]
    /\ known' = known \cup {p}
    /\ UNCHANGED <<sourcesReady, runtimeVars, logDirs, oldUpTo, restarts,
                   pc, sbSnap, pending>>

DeletePod(p) ==
    /\ phase[p] = "live"
    /\ phase' = [phase EXCEPT ![p] = "deleted"]
    /\ known' = known \ {p}
    /\ UNCHANGED <<sourcesReady, runtimeVars, logDirs, oldUpTo, restarts,
                   pc, sbSnap, pending>>

\* After a restart the sources deliver the live pods again, one by one.
Resync(p) ==
    /\ phase[p] = "live" /\ p \notin known
    /\ known' = known \cup {p}
    /\ UNCHANGED <<phase, sourcesReady, runtimeVars, logDirs, oldUpTo,
                   restarts, pc, sbSnap, pending>>

\* Every source has delivered its initial set of pods.
SourcesReady ==
    /\ ~sourcesReady
    /\ \A p \in Pods : phase[p] = "live" => p \in known
    /\ sourcesReady' = TRUE
    /\ UNCHANGED <<phase, known, runtimeVars, logDirs, oldUpTo, restarts,
                   pc, sbSnap, pending>>

\* The kubelet restarts: the pod manager is empty, the sources are not
\* ready, and the GC loop starts over; the runtime and the disk survive.
Restart ==
    /\ restarts < MaxRestarts
    /\ restarts' = restarts + 1
    /\ known' = {}
    /\ sourcesReady' = FALSE
    /\ pc' = "Idle" /\ sbSnap' = {} /\ pending' = {}
    /\ UNCHANGED <<phase, runtimeVars, logDirs, oldUpTo>>

-----------------------------------------------------------------------------
(* Container runtime, driven by the kubelet's pod workers.                 *)

\* A new sandbox for a known live pod without a ready one; its log
\* directory is created with it.
RunSandbox(p) ==
    /\ phase[p] = "live" /\ p \in known
    /\ ReadySandbox(p) = {}
    /\ sbAttempts[p] < MaxSandboxAttempts
    /\ sandboxes' = sandboxes \cup
          {[pod |-> p, attempt |-> sbAttempts[p], state |-> READY, created |-> clock]}
    /\ sbAttempts' = [sbAttempts EXCEPT ![p] = @ + 1]
    /\ clock' = clock + 1
    /\ logDirs' = logDirs \cup {p}
    /\ UNCHANGED <<phase, known, sourcesReady, ctAttempts, containers,
                   oldUpTo, restarts, pc, sbSnap, pending>>

StartContainer(p, n) ==
    /\ phase[p] = "live" /\ p \in known
    /\ ctAttempts[<<p, n>>] < MaxContainerAttempts
    /\ ~\E c \in containers : c.pod = p /\ c.name = n /\ c.state = RUNNING
    /\ \E s \in ReadySandbox(p) :
          containers' = containers \cup
             {[pod |-> p, name |-> n, attempt |-> ctAttempts[<<p, n>>],
               sb |-> s.attempt, state |-> RUNNING, created |-> clock]}
    /\ ctAttempts' = [ctAttempts EXCEPT ![<<p, n>>] = @ + 1]
    /\ clock' = clock + 1
    /\ UNCHANGED <<phase, known, sourcesReady, sbAttempts, sandboxes, logDirs,
                   oldUpTo, restarts, pc, sbSnap, pending>>

ContainerExit(c) ==
    /\ c \in containers /\ c.state = RUNNING
    /\ containers' = (containers \ {c}) \cup {[c EXCEPT !.state = EXITED]}
    /\ UNCHANGED <<phase, known, sourcesReady, sbAttempts, ctAttempts,
                   sandboxes, logDirs, clock, oldUpTo, restarts, pc, sbSnap,
                   pending>>

\* StopPodSandbox: the sandbox is no longer ready and its containers exit.
StopSandbox(s) ==
    /\ s \in sandboxes /\ s.state = READY
    /\ sandboxes' = (sandboxes \ {s}) \cup {[s EXCEPT !.state = NOT_READY]}
    /\ containers' = {IF c.pod = s.pod /\ c.sb = s.attempt
                      THEN [c EXCEPT !.state = EXITED] ELSE c : c \in containers}
    /\ UNCHANGED <<phase, known, sourcesReady, sbAttempts, ctAttempts, logDirs,
                   clock, oldUpTo, restarts, pc, sbSnap, pending>>

\* Time passes: the oldest object still younger than MinAge becomes old.
Age ==
    /\ oldUpTo < clock
    /\ oldUpTo' = oldUpTo + 1
    /\ UNCHANGED <<phase, known, sourcesReady, runtimeVars, logDirs, restarts,
                   pc, sbSnap, pending>>

-----------------------------------------------------------------------------
(* The GC loop: evictSandboxes, evictContainers, evictPodLogsDirectories, *)
(* in that order, then again.                                              *)

gcUnchanged == <<phase, known, sourcesReady, sbAttempts, ctAttempts,
                 clock, oldUpTo, restarts>>

\* The entry point that follows a failed inventory read.
AfterListFailure ==
    [Idle |-> "CtList", SbListed |-> "CtList", CtList |-> "LogList", LogList |-> "Idle"]

\* Inventory read failure: fatal to the pass, nothing is deleted, and the
\* caller goes on with the next entry point.
GCListFails ==
    /\ pc \in DOMAIN AfterListFailure
    /\ pc' = AfterListFailure[pc]
    /\ sbSnap' = {} /\ pending' = {}
    /\ UNCHANGED <<gcUnchanged, sandboxes, containers, logDirs>>

\* evictSandboxes: ListSandboxes ...
GCListSandboxes ==
    /\ pc = "Idle"
    /\ sbSnap' = Listed(sandboxes)
    /\ pc' = "SbListed"
    /\ UNCHANGED <<gcUnchanged, sandboxes, containers, logDirs, pending>>

\* Faulty variant: only sandboxes of pods the pod manager knows are
\* considered.
GCDecideSandboxesKnownOnly ==
    /\ pc = "SbListed"
    /\ pending' = SandboxesToEvict({s \in sbSnap : s.pod \in known}, containers)
    /\ pc' = "SbRemoving"
    /\ sbSnap' = {}
    /\ UNCHANGED <<gcUnchanged, sandboxes, containers, logDirs>>

\* ... then ListContainers and the decision of section 4.1.
GCDecideSandboxes ==
    /\ pc = "SbListed"
    /\ pending' = SandboxesToEvict(sbSnap, containers)
    /\ pc' = "SbRemoving"
    /\ sbSnap' = {}
    /\ UNCHANGED <<gcUnchanged, sandboxes, containers, logDirs>>

\* RemovePodSandbox of one chosen sandbox; a failure is recorded and the
\* pass goes on.
GCRemoveSandbox(s, ok) ==
    /\ pc = "SbRemoving" /\ s \in pending
    /\ pending' = pending \ {s}
    /\ sandboxes' = IF ok THEN {x \in sandboxes : SbId(x) # SbId(s)} ELSE sandboxes
    /\ UNCHANGED <<gcUnchanged, containers, logDirs, pc, sbSnap>>

\* evictContainers: ListContainers and the policy of section 4.2.
GCListContainers ==
    /\ pc = "CtList"
    /\ \E D \in DeletionChoices(Listed(containers), Policy) : pending' = D
    /\ pc' = "CtRemoving"
    /\ UNCHANGED <<gcUnchanged, sandboxes, containers, logDirs, sbSnap>>

GCRemoveContainer(c, ok) ==
    /\ pc = "CtRemoving" /\ c \in pending
    /\ pending' = pending \ {c}
    /\ containers' = IF ok THEN {x \in containers : CtId(x) # CtId(c)} ELSE containers
    /\ UNCHANGED <<gcUnchanged, sandboxes, logDirs, pc, sbSnap>>

\* Faulty variant: the allSourcesReady gate is missing.
GCListLogDirsUngated ==
    /\ pc = "LogList"
    /\ pc' = "LogRemoving" /\ pending' = logDirs
    /\ UNCHANGED <<gcUnchanged, sandboxes, containers, logDirs, sbSnap>>

\* evictPodLogsDirectories: nothing unless all sources are ready, else
\* ReadDir of the log root.
GCListLogDirs ==
    /\ pc = "LogList"
    /\ IF sourcesReady
       THEN pc' = "LogRemoving" /\ pending' = logDirs
       ELSE pc' = "Idle" /\ pending' = {}
    /\ UNCHANGED <<gcUnchanged, sandboxes, containers, logDirs, sbSnap>>

\* One directory: ask the pod manager, RemoveAll when the pod is unknown.
GCRemoveLogDir(d, ok) ==
    /\ pc = "LogRemoving" /\ d \in pending
    /\ pending' = pending \ {d}
    /\ logDirs' = IF ok /\ d \notin known THEN logDirs \ {d} ELSE logDirs
    /\ UNCHANGED <<gcUnchanged, sandboxes, containers, pc, sbSnap>>

\* Faulty variant: the loop goes back to evictSandboxes after
\* evictContainers, never calling evictPodLogsDirectories.
AfterPassSkippingLogs ==
    [SbRemoving |-> "CtList", CtRemoving |-> "Idle", LogRemoving |-> "Idle"]

\* The pass has attempted every chosen item; the next entry point runs.
AfterPass == [SbRemoving |-> "CtList", CtRemoving |-> "LogList", LogRemoving |-> "Idle"]

\* Faulty variant: the pass ends without waiting for its deletions.
GCPassDoneEarly ==
    /\ pc \in DOMAIN AfterPass
    /\ pc' = AfterPass[pc]
    /\ UNCHANGED <<gcUnchanged, sandboxes, containers, logDirs, sbSnap, pending>>

GCPassDone ==
    /\ pc \in DOMAIN AfterPass /\ pending = {}
    /\ pc' = AfterPass[pc]
    /\ UNCHANGED <<gcUnchanged, sandboxes, containers, logDirs, sbSnap, pending>>

-----------------------------------------------------------------------------

Kubelet ==
    \/ \E p \in Pods : AddPod(p) \/ DeletePod(p) \/ Resync(p) \/ RunSandbox(p)
    \/ \E p \in Pods, n \in Names : StartContainer(p, n)
    \/ \E c \in containers : ContainerExit(c)
    \/ \E s \in sandboxes : StopSandbox(s)
    \/ SourcesReady \/ Restart \/ Age

GC ==
    \/ GCListFails \/ GCListSandboxes \/ GCDecideSandboxes \/ GCListContainers
    \/ GCListLogDirs \/ GCPassDone
    \/ \E x \in pending, ok \in BOOLEAN :
          GCRemoveSandbox(x, ok) \/ GCRemoveContainer(x, ok) \/ GCRemoveLogDir(x, ok)

Next == Kubelet \/ GC

\* The GC timer loop keeps running and its list calls eventually succeed,
\* time keeps passing, the sources eventually deliver every live pod, and
\* a delete of the same item that is retried forever eventually succeeds
\* (its failures are transient).
Fairness ==
    /\ WF_vars(GC)
    /\ SF_vars(GCListSandboxes) /\ SF_vars(GCDecideSandboxes)
    /\ SF_vars(GCListContainers) /\ SF_vars(GCListLogDirs)
    /\ WF_vars(Age)
    /\ \A p \in Pods : WF_vars(Resync(p))
    /\ WF_vars(SourcesReady)
    /\ \A p \in Pods : SF_vars(GCRemoveLogDir(p, TRUE))
    /\ \A p \in Pods, a \in 0..MaxSandboxAttempts - 1 :
          SF_vars(pc = "SbRemoving" /\ \E x \in pending :
                      SbId(x) = <<p, a>> /\ GCRemoveSandbox(x, TRUE))

Spec == Init /\ [][Next]_vars /\ Fairness

-----------------------------------------------------------------------------
(* Properties.                                                             *)

TypeOK ==
    /\ phase \in [Pods -> {"none", "live", "deleted"}]
    /\ known \subseteq Pods /\ sourcesReady \in BOOLEAN
    /\ sbAttempts \in [Pods -> 0..MaxSandboxAttempts]
    /\ ctAttempts \in [Pods \X Names -> 0..MaxContainerAttempts]
    /\ logDirs \subseteq Pods
    /\ oldUpTo \in 0..clock /\ restarts \in 0..MaxRestarts
    /\ pc \in {"Idle", "SbListed", "SbRemoving", "CtList", "CtRemoving",
               "LogList", "LogRemoving"}
    \* what a pass still has to delete, where it is
    /\ pc \notin {"SbRemoving", "CtRemoving", "LogRemoving"} => pending = {}
    /\ pc = "LogRemoving" => pending \subseteq Pods
    /\ pc = "SbRemoving" => \A x \in pending : "sb" \notin DOMAIN x
    /\ pc = "CtRemoving" => \A x \in pending : "sb" \in DOMAIN x
    \* runtime identities are unique
    /\ \A s, t \in sandboxes : SbId(s) = SbId(t) => s = t
    /\ \A c, d \in containers : CtId(c) = CtId(d) => c = d

\* The log directory of a live pod that has run is never removed, even
\* when the kubelet has restarted and its pod manager does not yet know
\* the pod (evictPodLogsDirectories and its allSourcesReady gate).
LiveLogsKept ==
    \A p \in Pods : phase[p] = "live" /\ sbAttempts[p] > 0 => p \in logDirs

Orphan(p, a) ==
    \E s \in sandboxes :
        SbId(s) = <<p, a>> /\ s.state = NOT_READY /\ ~HasContainers(s, containers)

\* A sandbox that is not ready and holds no container is eventually
\* removed by evictSandboxes.
OrphanSandboxRemoved ==
    \A p \in Pods, a \in 0..MaxSandboxAttempts - 1 :
        Orphan(p, a) ~> ~\E s \in sandboxes : SbId(s) = <<p, a>>

\* The log directory of a deleted pod is eventually removed by
\* evictPodLogsDirectories, restarts notwithstanding.
DeletedPodLogsRemoved ==
    \A p \in Pods : phase[p] = "deleted" ~> p \notin logDirs

=============================================================================
