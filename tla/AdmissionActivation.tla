------------------------- MODULE AdmissionActivation -------------------------
(***************************************************************************)
(* Which admission plugins the master starts                               *)
(* (origin/pkg/cmd/server/start/admission.go).  The admission framework    *)
(* asks admission.PluginEnabledFn, set to IsAdmissionPluginActivated, for  *)
(* each plugin of the configured chain before it builds the plugin from    *)
(* its configuration.  A plugin of defaultOnPlugins runs unless its        *)
(* configuration reads as a DefaultAdmissionConfig that disables it; one   *)
(* of defaultOffPlugins, which needs explicit configuration, runs unless   *)
(* its configuration reads as one that does not enable it (no            *)
(* configuration at all included); any other plugin always runs.  A       *)
(* configuration that cannot be read as a DefaultAdmissionConfig is taken *)
(* to be the plugin's own and the plugin runs.                             *)
(*                                                                         *)
(* A plugin's configuration is reduced to what                             *)
(* configlatest.IsAdmissionPluginActivated (not in this tree) makes of it: *)
(* absent, a DefaultAdmissionConfig that enables or disables the plugin,   *)
(* or the plugin's own configuration type, which that check cannot read.  *)
(***************************************************************************)
EXTENDS Naturals, Sequences, SequencesExt

CONSTANTS
    Chain       \* the plugin names of the master's admission chain, in order

VARIABLES
    config,     \* plugin -> its configuration: "none", "enable", "disable", "own"
    k,          \* the next plugin of the chain the framework asks about
    started     \* the plugins the framework builds

vars == <<config, k, started>>

ConfigKinds == {"none", "enable", "disable", "own"}

\* defaultOnPlugins and defaultOffPlugins; a name of a constant of another
\* package stands for its value.
DefaultOnPlugins ==
    {"OriginNamespaceLifecycle", "openshift.io/JenkinsBootstrapper",
     "openshift.io/BuildConfigSecretInjector", "BuildByStrategy",
     "storageclassdefaultadmission.PluginName", "imageadmission.PluginName",
     "lifecycle.PluginName", "OriginPodNodeEnvironment", "PodNodeSelector",
     "serviceadmit.ExternalIPPluginName",
     "serviceadmit.RestrictedEndpointsPluginName", "LimitRanger",
     "ServiceAccount", "SecurityContextConstraint", "SCCExecRestrictions",
     "PersistentVolumeLabel", "DefaultStorageClass",
     "OwnerReferencesPermissionEnforcement", "quotaadmission.PluginName",
     "openshift.io/ClusterResourceQuota", "openshift.io/IngressAdmission"}
DefaultOffPlugins ==
    {"ProjectRequestLimit", "RunOnceDuration", "PodNodeConstraints",
     "overrideapi.PluginName", "imagepolicy.PluginName", "AlwaysPullImages",
     "ImagePolicyWebhook", "openshift.io/RestrictSubjectBindings",
     "LimitPodHardAntiAffinityTopology"}

Plugins == ToSet(Chain)

Init ==
    /\ config \in [Plugins -> ConfigKinds]
    /\ k = 1
    /\ started = {}

\* configlatest.IsAdmissionPluginActivated(config, default): the enabled
\* flag, or the default when there is no configuration; an error for a
\* configuration of another type.
Activation(c, default) ==
    CASE c = "none" -> [enabled |-> default, err |-> FALSE]
      [] c = "enable" -> [enabled |-> TRUE, err |-> FALSE]
      [] c = "disable" -> [enabled |-> FALSE, err |-> FALSE]
      [] c = "own" -> [enabled |-> FALSE, err |-> TRUE]

\* The check declines a plugin only when it read the configuration and
\* found it not enabled.
Declined(c, default) ==
    LET a == Activation(c, default) IN ~a.err /\ ~a.enabled

IsAdmissionPluginActivated(name, c) ==
    CASE name \in DefaultOnPlugins -> ~Declined(c, TRUE)
      [] name \in DefaultOffPlugins -> ~Declined(c, FALSE)
      [] OTHER -> TRUE

\* The framework asks about the next plugin of the chain and builds it
\* when the answer is true.
AskPluginEnabled ==
    /\ k <= Len(Chain)
    /\ LET p == Chain[k] IN
       started' = IF IsAdmissionPluginActivated(p, config[p])
                  THEN started \cup {p} ELSE started
    /\ k' = k + 1
    /\ UNCHANGED config

Next == AskPluginEnabled

Spec == Init /\ [][Next]_vars

-----------------------------------------------------------------------------

TypeOK ==
    /\ config \in [Plugins -> ConfigKinds]
    /\ k \in 1..Len(Chain) + 1
    /\ started \subseteq Plugins

=============================================================================
