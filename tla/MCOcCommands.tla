---------------------------- MODULE MCOcCommands ----------------------------
(***************************************************************************)
(* One oc process runs the subcommand its arguments name: kubectl's       *)
(* port-forward (PortForward), oc adm policy scc-subject-review           *)
(* (SubjectReview), the bootstrap import of oc cluster up                *)
(* (ImportObjects), or one of the verbs that work on an object through    *)
(* the client access factory: expose, set image, rollout pause/resume,    *)
(* autoscale (ClientAccessFactory), or a command that discovers the     *)
(* server's resources first (ServerDiscovery).  port-forward and          *)
(* scc-subject-review share the main                                      *)
(* goroutine's position (pc) and the exit status (exit); the other        *)
(* variables belong to one command and keep their initial values while    *)
(* another command runs.                                                   *)
(***************************************************************************)
EXTENDS Naturals, Sequences

CONSTANTS MaxInterrupts

VARIABLES
    command, pc, exit,
    opts, podFlag, args, result, notified, signals, waiter, stopClosed,
    interrupts,
    user, sa, groups, output, noHeadersFlag, hasInput, items, i, noHeaders,
    out, errs, reviews,
    server, ioPc, ioI, ioErrs, ioResult, faults,
    caObj, caOut,
    oapi, dpc, j, entries, origin, status, dfaults

pfVars == <<opts, podFlag, args, result, notified, signals, waiter,
            stopClosed, interrupts>>
srVars == <<user, sa, groups, output, noHeadersFlag, hasInput, items, i,
            noHeaders, out, errs, reviews>>
ioVars == <<server, ioPc, ioI, ioErrs, ioResult, faults>>
caVars == <<caObj, caOut>>
dVars == <<oapi, dpc, j, entries, origin, status, dfaults>>
vars == <<command, pc, exit, pfVars, srVars, ioVars, caVars, dVars>>

\* port-forward command lines: no argument, a pod alone, a pod and a port,
\* an empty pod name and a port; with and without the -p flag.
MCArgs == {<<>>, <<"web">>, <<"web", "8080">>, <<"", "8080">>}
MCPodFlags == {"", "web"}

\* scc-subject-review flags: no subject, a user, a service account in each
\* form, a group; up to two objects, each meeting one outcome.
MCUsers == {"", "bob"}
MCSAArgs == {[form |-> "none", name |-> ""], [form |-> "name", name |-> "robot"],
             [form |-> "username", name |-> "robot"], [form |-> "list", name |-> ""],
             [form |-> "badUsername", name |-> ""]}
MCGroupSets == {{}, {"admins"}}
MCOutputs == {"", "yaml"}
MCItemKinds == [outcome : {"builderErr", "templateErr", "statefulSetErr",
                           "reviewErr", "printErr"}, allowedBy : {"nil"}]
                 \cup [outcome : {"ok"}, allowedBy : {"nil", "restricted"}]
MCItems == UNION {[1..n -> MCItemKinds] : n \in 0..2}

\* The import: an asset of three objects (any of which may exist
\* already) and three transient faults, enough for a lost answer and a
\* failed create in one run and a third failure in the next.
CONSTANTS o1, o2, o3
MCAsset == <<o1, o2, o3>>

PF == INSTANCE PortForward WITH Args <- MCArgs, PodFlags <- MCPodFlags
SR == INSTANCE SubjectReview WITH Users <- MCUsers, SAArgs <- MCSAArgs,
        GroupSets <- MCGroupSets, Outputs <- MCOutputs, Items <- MCItems
\* The object verbs: the objects the server gives (validated, so an RC has
\* a pod template).
CAData == INSTANCE ClientAccessFactory WITH Objects <- {}, obj <- caObj, out <- caOut
CAObjects == CAData!ObjectsWith({"set"})
CA == INSTANCE ClientAccessFactory WITH Objects <- CAObjects, obj <- caObj, out <- caOut
IO == INSTANCE ImportObjects WITH Asset <- MCAsset, MaxFaults <- 3,
        pc <- ioPc, i <- ioI, errs <- ioErrs, result <- ioResult
\* Discovery: the server lists a group before v1 and one after it, so a
\* failure before, at and after the /oapi merge can happen; two faults.
D == INSTANCE ServerDiscovery WITH
        GroupVersions <- <<"apps/v1beta1", "v1", "extensions/v1beta1">>,
        MaxFaults <- 2, faults <- dfaults

\* The variables of the commands that do not run keep one initial state.
SRIdle == /\ SR!Init /\ user = "" /\ sa.form = "none" /\ groups = {}
          /\ output = "" /\ ~noHeadersFlag /\ ~hasInput /\ items = <<>>
PFIdle == PF!Init /\ podFlag = "" /\ args = <<>>
IOIdle == IO!Init /\ server = [o \in IO!Objects |-> FALSE]
CAIdle == caOut = "none" /\ caObj = CHOOSE o \in CAObjects : o.kind = "ConfigMap"
DIdle == D!Init /\ oapi = "served"

Init ==
    \/ command = "port-forward" /\ PF!Init /\ SRIdle /\ IOIdle /\ CAIdle /\ DIdle
    \/ command = "scc-subject-review" /\ SR!Init /\ PFIdle /\ IOIdle /\ CAIdle /\ DIdle
    \/ command = "cluster-up" /\ IO!Init /\ PFIdle /\ SRIdle /\ CAIdle /\ DIdle
    \/ command = "object-verb" /\ CA!Init /\ PFIdle /\ SRIdle /\ IOIdle /\ DIdle
    \/ command = "discovery" /\ D!Init /\ PFIdle /\ SRIdle /\ IOIdle /\ CAIdle

PortForwardStep(A) == command = "port-forward" /\ A /\ UNCHANGED <<command, srVars, ioVars, caVars, dVars>>
SubjectReviewStep(A) == command = "scc-subject-review" /\ A /\ UNCHANGED <<command, pfVars, ioVars, caVars, dVars>>
ClusterUpStep(A) == command = "cluster-up" /\ A /\ UNCHANGED <<command, pc, exit, pfVars, srVars, caVars, dVars>>
ObjectVerbStep(A) == command = "object-verb" /\ A /\ UNCHANGED <<command, pc, exit, pfVars, srVars, ioVars, dVars>>
DiscoveryStep(A) == command = "discovery" /\ A /\ UNCHANGED <<command, pc, exit, pfVars, srVars, ioVars, caVars>>

Next == \/ PortForwardStep(PF!Next) \/ SubjectReviewStep(SR!Next)
        \/ ClusterUpStep(IO!Next) \/ ObjectVerbStep(CA!Next)
        \/ DiscoveryStep(D!Next)

\* port-forward's goroutines are scheduled (PortForward's Spec); the
\* subject review has no liveness property and needs no fairness; the
\* import runs to its end and is run again after a failure (ImportObjects'
\* Spec); discovery runs to its end and is run again after an error
\* (ServerDiscovery's Spec).
Spec == Init /\ [][Next]_vars
          /\ WF_vars(PortForwardStep(PF!Progress))
          /\ WF_vars(PortForwardStep(PF!Waiter))
          /\ WF_vars(ClusterUpStep(IO!Next))
          /\ WF_vars(DiscoveryStep(D!Next))

-----------------------------------------------------------------------------

\* port-forward: Ctrl-C ends the command, whatever step it was in.
PortForwardInterruptEnds == PF!InterruptEndsCommand

\* port-forward exits 0 only when the forwarder was stopped by an
\* interrupt.
PortForwardCleanExit == command = "port-forward" => PF!CleanExitOnlyOnInterrupt

\* scc-subject-review exits 0 exactly when every object was reviewed and
\* printed; a failure of any one object, a failed print included, makes
\* it exit 1.
SubjectReviewExit == command = "scc-subject-review" => SR!ExitReflectsFailures

\* scc-subject-review's human-readable printer writes its header once, as
\* the first line.
SubjectReviewHeader == command = "scc-subject-review" => SR!HeaderOnceFirst

\* The object verbs: the factory's kind switches agree, so expose fails on
\* an object of a kind CanBeExposed accepts only for what it holds.
ExposeSwitchesAgree == command = "object-verb" => CA!ExposeSwitchesAgree

\* cluster up: when an import returns, every object of the asset is on
\* the server or named by the returned error.
ImportedOrReported == command = "cluster-up" => IO!ImportedOrReported

\* cluster up: an import that failed part way eventually succeeds when it
\* is run again, since AlreadyExists counts as success.
ImportEventuallySucceeds == command = "cluster-up" => IO!ImportEventuallySucceeds

\* discovery: a resource map ServerResources returns has every group
\* version the server lists, and origin resources exactly when the server
\* serves /oapi/v1.
DiscoveryComplete == command = "discovery" => D!DiscoveryComplete

\* discovery: run again after errors, it eventually returns a map, on an
\* origin server and on a v1.0 server alike.
DiscoveryEventuallySucceeds == command = "discovery" => D!DiscoveryEventuallySucceeds

=============================================================================
