----------------------------- MODULE GCPCluster -----------------------------
(***************************************************************************)
(* The GCPCluster controller: Reconcile, reconcile and reconcileDelete of  *)
(* controllers/gcpcluster_controller.go, with the deferred Close of the    *)
(* scope, the informer cache and workqueue that start a pass, the user and *)
(* the Cluster controller that edit the object, and crashes.               *)
(*                                                                         *)
(* One pass runs at a time: the workqueue never hands the same key to two  *)
(* workers.  Everything else interleaves with it.                          *)
(***************************************************************************)
EXTENDS ClusterLoadBalancers

Init ==
    /\ \E d \in SpecDomains, h \in SpecHosts :
            obj = [NoObject EXCEPT !.exists = TRUE, !.failureDomains = d, !.host = h]
    /\ cache = NoObject
    /\ queued = FALSE
    /\ before = NoObject /\ local = NoObject
    /\ pc = "Idle" /\ todo = {} /\ failed = FALSE
    /\ conf \in Configs
    /\ cloud = conf.foreign
    /\ backends = [b \in {BackendService, RegionalBackendService} |-> {}]
    /\ faults = 0 /\ edits = 0

-----------------------------------------------------------------------------
(* The API server                                                          *)

\* A deleted object goes once it has no finalizer.
Settle(o) == IF o.deleting /\ ~o.finalizer THEN NoObject ELSE o

\* A merge patch changes the keys of a map that differ from the snapshot.
Merge(current, old, new) == (current \cup (new \ old)) \ (old \ new)

PatchChanged == local.finalizer # before.finalizer \/ local.host # before.host

StatusChanged ==
    local.ready # before.ready \/ local.fds # before.fds \/ local.rec # before.rec

\* Faulty: an update with the whole of the pass's copy instead of a patch.
PatchedWhole(o) ==
    Settle([o EXCEPT !.finalizer = local.finalizer, !.host = local.host])

\* The patch of metadata and spec.
Patched(o) ==
    Settle([o EXCEPT
        !.finalizer = IF local.finalizer # before.finalizer THEN local.finalizer ELSE @,
        !.host = IF local.host # before.host THEN local.host ELSE @])

\* The patch of the status subresource.
PatchedStatus(o) ==
    [o EXCEPT
        !.ready = IF local.ready # before.ready THEN local.ready ELSE @,
        !.fds = Merge(@, before.fds, local.fds),
        !.rec = Merge(@, before.rec, local.rec)]

-----------------------------------------------------------------------------
(* The user and the Cluster controller                                     *)

EditFrame == UNCHANGED <<cache, queued, before, local, pc, todo, failed, cloud,
                         backends, conf, faults>>

UserDelete ==
    /\ obj.exists /\ ~obj.deleting
    /\ obj' = Settle([obj EXCEPT !.deleting = TRUE])
    /\ UNCHANGED edits /\ EditFrame

Edit == edits < MaxEdits /\ edits' = edits + 1 /\ EditFrame

\* spec.failureDomains is one of the fields the webhook lets the user change.
UserEditFailureDomains ==
    /\ obj.exists /\ ~obj.deleting
    /\ \E d \in SpecDomains \ {obj.failureDomains} :
            obj' = [obj EXCEPT !.failureDomains = d]
    /\ Edit

\* The Cluster controller sets the owner reference, or the user unpauses.
Release ==
    /\ obj.exists /\ ~obj.reconcilable
    /\ obj' = [obj EXCEPT !.reconcilable = TRUE]
    /\ UNCHANGED edits /\ EditFrame

Pause ==
    /\ obj.exists /\ obj.reconcilable
    /\ obj' = [obj EXCEPT !.reconcilable = FALSE]
    /\ Edit

-----------------------------------------------------------------------------
(* The controller's runtime                                                *)

\* A watch event reaches the cache and enqueues the key.
CacheSync ==
    /\ cache # obj
    /\ cache' = obj /\ queued' = TRUE
    /\ UNCHANGED <<obj, before, local, pc, todo, failed, cloud, backends, conf,
                   faults, edits>>

\* The process dies, wherever it is, and starts again with a full list.
Crash ==
    /\ Fault
    /\ cache' = obj /\ queued' = TRUE
    /\ pc' = "Idle" /\ before' = NoObject /\ local' = NoObject
    /\ todo' = {} /\ failed' = FALSE
    /\ UNCHANGED <<obj, cloud, backends, conf, edits>>

\* Reconcile returns early: not found, no owner, or paused.
ReconcileIgnored ==
    /\ pc = "Idle" /\ queued
    /\ ~(cache.exists /\ cache.reconcilable)
    /\ queued' = FALSE
    /\ UNCHANGED <<obj, cache, before, local, pc, todo, failed, cloud, backends,
                   conf, faults, edits>>

\* Reconcile fails to read the objects or to build the scope, and is retried.
ReconcileFails ==
    /\ pc = "Idle" /\ queued
    /\ Fault
    /\ UNCHANGED <<obj, cache, queued, before, local, pc, todo, failed, cloud, backends,
                   conf, edits>>

\* Reconcile builds the scope and dispatches on the deletion timestamp.
Reconcile ==
    /\ pc = "Idle" /\ queued
    /\ cache.exists /\ cache.reconcilable
    /\ queued' = FALSE
    /\ before' = cache /\ local' = cache
    /\ failed' = FALSE
    /\ todo' = ZonesOf(cache.rec)
    /\ pc' = IF cache.deleting THEN DeleteLBs ELSE "Finalizer"
    /\ UNCHANGED <<obj, cache, cloud, backends, conf, faults, edits>>

-----------------------------------------------------------------------------
(* reconcile and reconcileDelete, around the services                      *)

PassFrame == UNCHANGED <<cache, queued, before, todo, cloud, backends, conf, edits>>

\* Faulty: the finalizer is left for Close to persist.
AddFinalizerUnpersisted ==
    /\ pc = "Finalizer"
    /\ local' = [local EXCEPT !.finalizer = TRUE]
    /\ pc' = "Zones"
    /\ NoFault /\ UNCHANGED <<obj, failed>> /\ PassFrame

\* AddFinalizer and PatchObject, which calls the API server only for a change.
AddFinalizer ==
    /\ pc = "Finalizer"
    /\ local' = [local EXCEPT !.finalizer = TRUE]
    /\ LET patched == [obj EXCEPT !.finalizer = TRUE]
       IN  \/ /\ before.finalizer
              /\ pc' = "Zones"
              /\ NoFault /\ UNCHANGED <<obj, failed>>
           \/ /\ ~before.finalizer /\ obj.exists
              /\ obj' = patched
              /\ pc' = "Zones"
              /\ NoFault /\ UNCHANGED failed
           \/ /\ ~before.finalizer /\ ~obj.exists
              /\ ReturnError
              /\ NoFault /\ UNCHANGED obj
           \/ /\ ~before.finalizer
              /\ obj' \in {obj} \cup {o \in {patched} : obj.exists}
              /\ ReturnError
              /\ Fault
    /\ PassFrame

\* Faulty: spec.failureDomains is not checked against the region.
SelectedZonesUnchecked(spec) == IF spec = {} THEN Zones ELSE spec

\* The zones of the region, restricted to spec.failureDomains when it is set.
SelectedZones(spec) == IF spec = {} THEN Zones ELSE Zones \cap spec

\* Faulty: the failure domains of the first pass are kept.
SetFailureDomainsOnce ==
    /\ pc = "Zones"
    /\ LET zones == IF local.fds = {} THEN SelectedZones(local.failureDomains) ELSE local.fds
       IN  Proceed("Network", [local EXCEPT !.fds = zones]) /\ todo' = zones

SetFailureDomains ==
    /\ pc = "Zones"
    /\ \/ /\ Proceed("Network", [local EXCEPT !.fds = SelectedZones(local.failureDomains)])
          /\ todo' = SelectedZones(local.failureDomains)
       \/ GetFails /\ UNCHANGED todo

\* Every service is done: ready once there is an endpoint, else try again.
SetReady ==
    /\ pc = "Done"
    /\ pc' = "ClosePatch"
    /\ local' = [local EXCEPT !.ready = @ \/ local.host # ""]
    /\ queued' = (queued \/ local.host = "")
    /\ UNCHANGED <<obj, cache, before, todo, failed, cloud, backends, conf, faults, edits>>

RemoveFinalizer ==
    /\ pc = "RemoveFinalizer"
    /\ local' = [local EXCEPT !.finalizer = FALSE]
    /\ pc' = "ClosePatch"
    /\ NoFault /\ UNCHANGED <<obj, failed>> /\ PassFrame

\* Close, first half: the patch helper's patch of metadata and spec.  Its error
\* does not stop the second half.
ClosePatch ==
    /\ pc = "ClosePatch"
    /\ pc' = "CloseStatus"
    /\ \/ /\ ~PatchChanged
          /\ NoFault /\ UNCHANGED <<obj, failed>>
       \/ /\ PatchChanged /\ obj.exists
          /\ obj' = Patched(obj)
          /\ NoFault /\ UNCHANGED failed
       \/ /\ PatchChanged /\ ~obj.exists
          /\ failed' = TRUE
          /\ NoFault /\ UNCHANGED obj
       \/ /\ PatchChanged
          /\ obj' \in {obj} \cup {o \in {Patched(obj)} : obj.exists}
          /\ failed' = TRUE
          /\ Fault
    /\ UNCHANGED local /\ PassFrame

\* Close, second half: the status patch; NotFound is ignored for an object whose
\* last finalizer the pass removed.  An error of the pass enqueues the key again.
CloseStatus ==
    /\ pc = "CloseStatus"
    /\ pc' = "Idle" /\ before' = NoObject /\ local' = NoObject
    /\ todo' = {} /\ failed' = FALSE
    /\ \/ /\ StatusChanged /\ obj.exists
          /\ obj' = PatchedStatus(obj)
          /\ queued' = (queued \/ failed)
          /\ NoFault
       \/ /\ ~StatusChanged \/ (local.deleting /\ ~local.finalizer /\ ~obj.exists)
          /\ queued' = (queued \/ failed)
          /\ NoFault /\ UNCHANGED obj
       \/ /\ StatusChanged /\ ~obj.exists /\ ~(local.deleting /\ ~local.finalizer)
          /\ queued' = TRUE
          /\ NoFault /\ UNCHANGED obj
       \/ /\ StatusChanged
          /\ obj' \in {obj} \cup {o \in {PatchedStatus(obj)} : obj.exists}
          /\ queued' = TRUE
          /\ Fault
    /\ UNCHANGED <<cache, cloud, backends, conf, edits>>

-----------------------------------------------------------------------------
ReconcileServices ==
    \/ createOrGetNetwork \/ createOrGetRouter
    \/ reconcileFirewalls
    \/ createOrGetSubnets
    \/ createOrGetInstanceGroups
    \/ createOrGetHealthCheck \/ createOrGetBackendService
    \/ createOrGetTargetTCPProxy \/ createOrGetAddress \/ createOrGetForwardingRule
    \/ createOrGetRegionalHealthCheck \/ createOrGetRegionalBackendService
    \/ createOrGetInternalAddress \/ createOrGetRegionalForwardingRule

DeleteServices ==
    \/ deleteForwardingRule \/ deleteAddress \/ deleteTargetTCPProxy
    \/ deleteBackendService \/ deleteHealthCheck
    \/ deleteRegionalForwardingRule \/ deleteInternalAddress
    \/ deleteRegionalBackendService \/ deleteRegionalHealthCheck
    \/ deleteInstanceGroups
    \/ deleteSubnets
    \/ deleteFirewalls
    \/ deleteRouter \/ deleteNetwork

\* A step of the running pass, or the start of one.
Controller ==
    \/ ReconcileIgnored \/ ReconcileFails \/ Reconcile
    \/ AddFinalizer \/ SetFailureDomains \/ ReconcileServices \/ SetReady
    \/ DeleteServices \/ RemoveFinalizer
    \/ ClosePatch \/ CloseStatus

Environment == UserDelete \/ UserEditFailureDomains \/ Release \/ Pause \/ CacheSync \/ Crash

Next == Controller \/ Environment

Spec == Init /\ [][Next]_vars

(* The workers of the controller's queue keep running and watch events are  *)
(* delivered.  The owner reference is set and a pause ends (Release).       *)
Fairness == WF_vars(Controller) /\ WF_vars(CacheSync) /\ WF_vars(Release)

FairSpec == Spec /\ Fairness

-----------------------------------------------------------------------------
(* Properties                                                              *)

TypeOK ==
    /\ obj \in Object /\ cache \in Object /\ before \in Object /\ local \in Object
    /\ queued \in BOOLEAN /\ failed \in BOOLEAN
    /\ pc \in Steps
    /\ todo \subseteq Zones
    /\ cloud \subseteq Resource
    /\ backends \in [{BackendService, RegionalBackendService} -> SUBSET Zones]
    /\ conf \in Configs
    /\ faults \in 0..MaxFaults /\ edits \in 0..MaxEdits

(* Two kinds of resource can outlive the object, and only those: instance   *)
(* groups, which Delete finds through the status alone, and subnets that    *)
(* the spec lists after one CAPG did not create.  A run that expects a      *)
(* violation shows the first; the second is plain in deleteSubnets.         *)
SkippedSubnets ==
    {Subnet(SubnetSpecs[j]) : j \in {j \in DOMAIN SubnetSpecs :
        \E i \in DOMAIN SubnetSpecs : i < j /\ Subnet(SubnetSpecs[i]) \in conf.foreign}}

Owned == Resource \ (Groups \cup SkippedSubnets)

Tracked == (cloud \ conf.foreign) \cap Owned

\* While a resource that CAPG created exists, the object and its finalizer do:
\* nothing is created before the finalizer is persisted, and the finalizer goes
\* only after everything else has.
FinalizerGuards == Tracked # {} => obj.exists /\ obj.finalizer

\* No step deletes a network, router or subnet that CAPG did not create.
ForeignUntouched == conf.foreign \subseteq cloud

\* The resources reconcile makes, the instance groups aside.
Planned ==
    {Network} \cup Subnets
    \cup (IF CreatedByCAPG(Network) THEN {Router} ELSE {})
    \cup (IF conf.shared THEN {} ELSE FirewallRules)
    \cup (IF HasExternal THEN ExternalLB ELSE {})
    \cup (IF HasInternal THEN InternalLB ELSE {})

Endpoint == IF conf.lbType = "Internal" THEN "internal" ELSE "external"

\* A ready cluster that is not being deleted has all its infrastructure, and so
\* does whatever its status links to, whichever patches were lost or stale.
ReadyMeansProvisioned ==
    obj.exists /\ ~obj.deleting =>
        /\ obj.ready => Planned \subseteq cloud
        /\ obj.rec \subseteq cloud

\* A published endpoint is that of the load balancer the configuration asks for,
\* and its address stays reserved until the cluster is deleted.
EndpointBacked ==
    obj.host \in {"external", "internal"} =>
        /\ obj.host = Endpoint
        /\ obj.deleting \/ (IF Endpoint = "internal" THEN InternalAddress ELSE Address) \in cloud

\* The endpoint of the load balancer, once published, is never taken back, not
\* even by a pass that started from a stale copy of the object.
EndpointStable ==
    [][obj.host = Endpoint /\ obj'.exists => obj'.host = Endpoint]_vars

\* The resource each step of reconcileDelete deletes.
Target ==
    CASE pc = "DeleteForwardingRule" -> {ForwardingRule}
      [] pc = "DeleteAddress" -> {Address}
      [] pc = "DeleteTargetTCPProxy" -> {TargetTCPProxy}
      [] pc = "DeleteBackendService" -> {BackendService}
      [] pc = "DeleteHealthCheck" -> {HealthCheck}
      [] pc = "DeleteRegionalForwardingRule" -> {RegionalForwardingRule}
      [] pc = "DeleteInternalAddress" -> {InternalAddress}
      [] pc = "DeleteRegionalBackendService" -> {RegionalBackendService}
      [] pc = "DeleteRegionalHealthCheck" -> {RegionalHealthCheck}
      [] pc = "DeleteInstanceGroups" -> {Group(z) : z \in todo}
      [] pc = "DeleteSubnets" -> Subnets
      [] pc = "DeleteFirewalls" -> FirewallRules
      [] pc = "DeleteRouter" -> {Router}
      [] pc = "DeleteNetwork" -> {Network}
      [] OTHER -> {}

\* A deletion pass that has met no error is never refused: whatever an earlier,
\* failed pass left behind, what uses a resource is deleted before it.  (A subnet
\* that was skipped keeps its network in use.)
DeleteOrderSafe ==
    ~failed /\ SkippedSubnets \cap cloud = {} => \A r \in Target : ~InUse(r)

\* The pass that removes the finalizer has deleted every resource that the status
\* it read links to.
RecordedResourcesDeleted ==
    local.deleting /\ ~local.finalizer => before.rec \cap cloud \subseteq conf.foreign

\* A successful pass ends with one backend per failure domain.
BackendsSized ==
    pc = "Done" => \A b \in {BackendService, RegionalBackendService} \cap cloud :
                        Cardinality(backends[b]) = Cardinality(local.fds)

\* All that reconcile works for is done and written.
Converged ==
    /\ obj.ready /\ obj.finalizer /\ obj.host = Endpoint
    /\ obj.fds = SelectedZones(obj.failureDomains)
    /\ {Group(z) : z \in obj.fds} \subseteq obj.rec

\* No wake-up is lost: when nothing is queued and the cache is up to date, there
\* is nothing left to do.  (A pass that cannot succeed is queued again.)
NothingForgotten ==
    pc = "Idle" /\ ~queued /\ cache = obj /\ obj.exists /\ obj.reconcilable =>
        ~obj.deleting /\ Converged

-----------------------------------------------------------------------------
(* Liveness                                                                *)

\* A deleted cluster goes away, however a finite number of calls failed: unless it has a
\* subnet that is skipped, whose network GCP does not delete.
DeletionCompletes ==
    obj.deleting /\ SkippedSubnets = {} ~> ~obj.exists

\* A shared VPC and its subnets exist, and so does the internal balancer's subnet.
Satisfiable ==
    /\ conf.shared => {Network} \cup Subnets \subseteq conf.foreign
    /\ HasInternal => getSubnet # {}

\* A cluster becomes ready with its endpoint, unless it is deleted.
BecomesReady ==
    obj.exists /\ Satisfiable ~> obj.deleting \/ ~obj.exists \/ Converged

-----------------------------------------------------------------------------
(* The finalizer's promise                                                 *)

Phase == IF ~obj.exists THEN "gone" ELSE IF obj.deleting THEN "deleting" ELSE "active"

Lifecycle == INSTANCE ResourceLifecycle
    WITH phase <- Phase, guard <- obj.finalizer, held <- Tracked, Owned <- Resource

\* Every behaviour of the controller keeps the promise of a finalizer.
ImplementsLifecycle == Lifecycle!LSpec

Infrastructure == INSTANCE ClusterInfrastructure
    WITH cluster <- [exists |-> obj.exists, deleting |-> obj.deleting, fds |-> obj.fds],
         groups <- ZonesOf(cloud)

\* The machines of the cluster see what ClusterInfrastructure says: an instance group
\* is made only while the object exists and goes only once it is being deleted.
ImplementsInfrastructure == Infrastructure!CSpec

-----------------------------------------------------------------------------
(* What the repository says, and the code does not do                      *)

\* "ClusterFinalizer allows ReconcileGCPCluster to clean up GCP resources
\* associated with GCPCluster before removing it from the apiserver": no instance
\* group is left when the object is gone.
NoInstanceGroupLeft == obj.exists \/ Groups \cap cloud = {}

=============================================================================
