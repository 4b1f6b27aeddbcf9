---------------------------- MODULE ClusterScope ----------------------------
(***************************************************************************)
(* The state shared by the GCPCluster controller and its compute services: *)
(*                                                                         *)
(*   - the GCPCluster object in the API server and the copy of it in the   *)
(*     controller's informer cache, which lags behind;                     *)
(*   - the ClusterScope of the running reconcile pass: the snapshot the    *)
(*     patch helper took (before) and the object being edited (local);     *)
(*   - the GCP resources of the cluster.                                   *)
(*                                                                         *)
(* A GCP resource is a pair <<kind, name>>.  Its content is abstracted     *)
(* away, except for the backends of a backend service and for the          *)
(* description that tells a CAPG resource from a pre-existing one.         *)
(***************************************************************************)
EXTENDS Naturals, Sequences, FiniteSets

CONSTANTS
    Zones,        \* zones GCP lists for the region
    SpecDomains,  \* values the user may give spec.failureDomains: sets of zone names
    SpecHosts,    \* values the user may give spec.controlPlaneEndpoint.host
    Firewalls,    \* names of the rules FirewallRulesSpec returns
    SubnetSpecs,  \* names of spec.network.subnets, in order
    LBSubnets,    \* the subnets matching loadBalancer.internalLoadBalancer.subnet
    Configs,      \* immutable configurations to consider, see Config
    MaxFaults,    \* bound: failed calls and controller crashes
    MaxEdits      \* bound: edits of the spec and of the pause/owner state

LBTypes == {"External", "Internal", "InternalExternal"}

SubnetNames == {SubnetSpecs[i] : i \in DOMAIN SubnetSpecs}

-----------------------------------------------------------------------------
(* Resource names: every service derives them from the cluster's name.     *)

Network == <<"network", "">>
Router == <<"router", "">>
Firewall(f) == <<"firewall", f>>
Subnet(s) == <<"subnet", s>>
Group(z) == <<"instancegroup", z>>
HealthCheck == <<"healthcheck", "apiserver">>
BackendService == <<"backendservice", "apiserver">>
TargetTCPProxy == <<"targettcpproxy", "apiserver">>
Address == <<"address", "apiserver">>
ForwardingRule == <<"forwardingrule", "apiserver">>
RegionalHealthCheck == <<"healthcheck", "internal">>
RegionalBackendService == <<"backendservice", "internal">>
InternalAddress == <<"address", "internal">>
RegionalForwardingRule == <<"forwardingrule", "internal">>

Groups == {Group(z) : z \in Zones}
Subnets == {Subnet(s) : s \in SubnetNames}
FirewallRules == {Firewall(f) : f \in Firewalls}
ExternalLB == {HealthCheck, BackendService, TargetTCPProxy, Address, ForwardingRule}
InternalLB == {RegionalHealthCheck, RegionalBackendService, InternalAddress,
               RegionalForwardingRule}

Resource == {Network, Router} \cup FirewallRules \cup Subnets \cup Groups
            \cup ExternalLB \cup InternalLB

\* What the code recognises as not its own, by the description.
Adoptable == {Network, Router} \cup Subnets

(* A configuration: what the GCPCluster webhook keeps immutable, and the    *)
(* resources that exist before the cluster does.                           *)
Config == [lbType : LBTypes, shared : BOOLEAN, foreign : SUBSET Adoptable]

ASSUME ZonesAssumption == IsFiniteSet(Zones)

ASSUME SpecAssumption == SpecHosts \subseteq {"", "user"}

ASSUME SubnetsAssumption ==
    /\ SubnetSpecs \in Seq(SubnetNames)
    /\ \A i, j \in DOMAIN SubnetSpecs : SubnetSpecs[i] = SubnetSpecs[j] => i = j

ASSUME ConfigsAssumption == Configs \subseteq Config

ASSUME BoundsAssumption == MaxFaults \in Nat /\ MaxEdits \in Nat

-----------------------------------------------------------------------------
VARIABLES
    obj,       \* the GCPCluster in the API server
    cache,     \* the informer cache's copy of it
    queued,    \* the workqueue holds the object's key
    before,    \* the patch helper's snapshot of the running pass
    local,     \* the object the running pass edits
    pc,        \* next step of the running pass, "Idle" when there is none
    todo,      \* zones the instance group loop has left
    failed,    \* the running pass has met an error it returns
    cloud,     \* GCP resources that exist
    backends,  \* zones whose group is a backend, per backend service
    conf,      \* the configuration
    faults,    \* faults so far
    edits      \* edits so far

vars == <<obj, cache, queued, before, local, pc, todo, failed, cloud, backends,
          conf, faults, edits>>

Hosts == {"", "user", "external", "internal"}

(* The fields of a GCPCluster that the controller reads or writes.          *)
(* reconcilable abstracts the early returns of Reconcile: the owner Cluster *)
(* is set and neither object is paused.  rec is the set of resources        *)
(* status.network holds a self link of.                                    *)
Object == [exists : BOOLEAN, reconcilable : BOOLEAN, finalizer : BOOLEAN,
           deleting : BOOLEAN, failureDomains : SpecDomains \cup {{}}, host : Hosts,
           ready : BOOLEAN, fds : SUBSET Zones, rec : SUBSET Resource]

NoObject == [exists |-> FALSE, reconcilable |-> FALSE, finalizer |-> FALSE,
             deleting |-> FALSE, failureDomains |-> {}, host |-> "",
             ready |-> FALSE, fds |-> {}, rec |-> {}]

CreatedByCAPG(r) == r \notin conf.foreign

ZonesOf(resources) == {z \in Zones : Group(z) \in resources}

-----------------------------------------------------------------------------
(* Google Compute Engine, as its callers use it.                           *)

\* The first name of spec.network.subnets in S, as a set of at most one.
FirstIn(S) ==
    {SubnetSpecs[i] : i \in {i \in DOMAIN SubnetSpecs :
        /\ SubnetSpecs[i] \in S
        /\ \A j \in DOMAIN SubnetSpecs : SubnetSpecs[j] \in S => i <= j}}

\* The subnet of the internal load balancer.
getSubnet == FirstIn(LBSubnets)

\* The resources a resource refers to, which GCP then refuses to delete.
Uses(r) ==
    CASE r = ForwardingRule -> {TargetTCPProxy, Address}
      [] r = TargetTCPProxy -> {BackendService}
      [] r = BackendService -> {HealthCheck} \cup {Group(z) : z \in backends[r]}
      [] r = RegionalForwardingRule ->
            {RegionalBackendService, InternalAddress} \cup {Subnet(s) : s \in getSubnet}
      [] r = RegionalBackendService ->
            {RegionalHealthCheck, Network} \cup {Group(z) : z \in backends[r]}
      [] r = InternalAddress -> {Subnet(s) : s \in getSubnet}
      [] r \in {Router} \cup FirewallRules \cup Subnets ->
            IF CreatedByCAPG(r) THEN {Network} ELSE {}
      [] OTHER -> {}

InUse(r) == r \in cloud /\ \E x \in cloud : r \in Uses(x)

-----------------------------------------------------------------------------
(* The order in which the controller runs the services: the step that       *)
(* follows a service's last one.                                           *)

AfterReconcile == [networks |-> "Firewalls", firewalls |-> "Subnets",
                   subnets |-> "InstanceGroups", loadbalancers |-> "Done"]

\* Faulty: the network goes before its subnets.
AfterDeleteNetworkFirst ==
    [loadbalancers |-> "DeleteFirewalls", firewalls |-> "DeleteRouter",
     networks |-> "DeleteSubnets", subnets |-> "RemoveFinalizer"]

\* Faulty: the networks service is left out.
AfterDeleteWithoutNetworks ==
    [loadbalancers |-> "DeleteSubnets", subnets |-> "DeleteFirewalls",
     firewalls |-> "RemoveFinalizer", networks |-> "RemoveFinalizer"]

AfterDelete == [loadbalancers |-> "DeleteSubnets", subnets |-> "DeleteFirewalls",
                firewalls |-> "DeleteRouter", networks |-> "RemoveFinalizer"]

ReconcileSteps ==
    {"Zones", "Network", "Router", "Firewalls", "Subnets", "InstanceGroups",
     "HealthCheck", "BackendService", "TargetTCPProxy", "Address", "ForwardingRule",
     "RegionalHealthCheck", "RegionalBackendService", "InternalAddress",
     "RegionalForwardingRule", "Done"}

DeleteSteps ==
    {"DeleteForwardingRule", "DeleteAddress", "DeleteTargetTCPProxy",
     "DeleteBackendService", "DeleteHealthCheck", "DeleteRegionalForwardingRule",
     "DeleteInternalAddress", "DeleteRegionalBackendService",
     "DeleteRegionalHealthCheck", "DeleteInstanceGroups", "DeleteSubnets",
     "DeleteFirewalls", "DeleteRouter", "DeleteNetwork", "RemoveFinalizer"}

Steps == {"Idle", "Finalizer"} \cup ReconcileSteps \cup DeleteSteps
         \cup {"ClosePatch", "CloseStatus"}

\* A call fails: the bound on faults is that failures are finitely many.
Fault == faults < MaxFaults /\ faults' = faults + 1

NoFault == UNCHANGED faults

\* Faulty: the loop over the services is left, but readiness is still reported.
ReturnErrorReady == pc' = "Done" /\ failed' = TRUE

\* The pass returns an error: only the deferred Close is left.
ReturnError == pc' = "ClosePatch" /\ failed' = TRUE

\* What a service step leaves alone.
ServiceFrame == UNCHANGED <<obj, cache, queued, before, conf, edits>>

\* A step that changes nothing in GCP and goes on.
Proceed(next, scope) ==
    /\ pc' = next /\ local' = scope
    /\ NoFault /\ UNCHANGED <<failed, cloud, backends>>
    /\ ServiceFrame

\* The service returns an error of its own.
Refuse ==
    /\ ReturnError
    /\ NoFault /\ UNCHANGED <<cloud, backends, local>>
    /\ ServiceFrame

\* A call that only reads fails, and the service returns its error.
GetFails ==
    /\ ReturnError
    /\ Fault /\ UNCHANGED <<cloud, backends, local>>
    /\ ServiceFrame

(* Get r; when it is not found, Insert it and Get it again.  A failing call *)
(* may have taken effect (an operation that outlives its deadline).         *)
CreateOrGet(r, next, scope) ==
    /\ \/ /\ cloud' = cloud \cup {r}
          /\ local' = scope
          /\ pc' = next
          /\ NoFault /\ UNCHANGED failed
       \/ /\ cloud' \in {cloud, cloud \cup {r}}
          /\ ReturnError
          /\ Fault /\ UNCHANGED local
    /\ UNCHANGED backends
    /\ ServiceFrame

Deleted(r) ==
    /\ cloud' = cloud \ {r}
    /\ backends' = [b \in DOMAIN backends |-> IF b = r THEN {} ELSE backends[b]]

\* Faulty: every error is taken for a NotFound.
DeleteIgnoringErrors(r, next, onError, scope) ==
    /\ \/ ~InUse(r) /\ Deleted(r) /\ NoFault
       \/ InUse(r) /\ NoFault /\ UNCHANGED <<cloud, backends>>
       \/ Fault /\ UNCHANGED <<cloud, backends>>
    /\ pc' = next /\ local' = scope
    /\ UNCHANGED failed
    /\ ServiceFrame

(* Delete r, ignoring NotFound.  GCP refuses while r is in use.              *)
Delete(r, next, onError, scope) ==
    /\ \/ /\ ~InUse(r)
          /\ Deleted(r)
          /\ local' = scope
          /\ pc' = next
          /\ NoFault /\ UNCHANGED failed
       \/ /\ InUse(r)
          /\ pc' = onError /\ failed' = TRUE
          /\ NoFault /\ UNCHANGED <<cloud, backends, local>>
       \/ /\ \/ UNCHANGED <<cloud, backends>>
             \/ ~InUse(r) /\ Deleted(r)
          /\ pc' = onError /\ failed' = TRUE
          /\ Fault /\ UNCHANGED local
    /\ ServiceFrame

=============================================================================
