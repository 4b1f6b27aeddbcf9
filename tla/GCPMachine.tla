----------------------------- MODULE GCPMachine -----------------------------
(***************************************************************************)
(* The GCPMachine controller (controllers/gcpmachine_controller.go) with   *)
(* the instances service it runs, for one machine of a cluster.            *)
(*                                                                         *)
(* The machine's zone is its failure domain, or else the first failure     *)
(* domain in the status of the GCPCluster, which changes while the machine *)
(* lives: ClusterInfrastructure says how.  The controller reads the        *)
(* GCPCluster from a cache of its own.  A zone is a positive number, its   *)
(* place in the order of zone names; 0 stands for the empty name.          *)
(***************************************************************************)
EXTENDS Naturals, FiniteSets

CONSTANTS
    Zones,      \* zones of the region
    Machines,   \* configurations to consider, see Config
    MaxFaults,  \* bound: failed calls and controller crashes
    MaxEdits    \* bound: pauses, edits of the cluster, instances that break or are
                \* deleted by others

Config == [controlPlane : BOOLEAN, failureDomain : Zones \cup {0}]

ASSUME MachineZones == Zones \subseteq Nat \ {0} /\ IsFiniteSet(Zones)

ASSUME MachineConfigs == Machines \subseteq Config

ASSUME MachineBounds == MaxFaults \in Nat /\ MaxEdits \in Nat

VARIABLES
    \* the GCPMachine and its controller, see ObjectController; its spec is the zone
    \* in spec.providerID
    obj, cache, queued, before, local, pc, failed, faults, edits,
    conf,       \* the Machine's role and failure domain
    bootstrap,  \* the bootstrap data secret is there
    cluster,    \* the GCPCluster
    seen,       \* the informer cache's copy of it, as far as it is used
    groups,     \* zones with a control plane instance group
    zone,       \* the zone of the running pass's scope, 0 when there is no pass
    inst,       \* state of the machine's instance, per zone
    members,    \* zones whose group has the instance of that zone
    listed,     \* ListInstances returned the instance to the running pass
    lost        \* an instance was deleted behind the controller's back

passVars == <<obj, cache, queued, before, local, pc, failed, faults, edits>>
clusterVars == <<cluster, groups>>
cloudVars == <<inst, members>>
vars == <<passVars, clusterVars, cloudVars, conf, bootstrap, seen, zone, listed, lost>>

(* States of an instance, as reconcile tells them apart.  "PROVISIONING"     *)
(* stands for STAGING too, "REPAIRING" for every state that is neither       *)
(* pending nor running; "none" is NotFound.                                 *)
InstanceStatus == {"none", "PROVISIONING", "RUNNING", "REPAIRING"}

NoStatus == [ready |-> FALSE, instanceStatus |-> "none", failureReason |-> FALSE]

INSTANCE ObjectController WITH NoSpec <- 0

Infrastructure == INSTANCE ClusterInfrastructure

\* What the machine's controller reads of the GCPCluster.
View == [exists |-> cluster.exists, fds |-> cluster.fds]

Instances == {z \in Zones : inst[z] # "none"}

Init ==
    /\ ObjectInit
    /\ conf \in Machines
    /\ bootstrap = FALSE
    /\ Infrastructure!CInit
    /\ seen = View
    /\ zone = 0
    /\ inst = [z \in Zones |-> "none"]
    /\ members = {}
    /\ listed = FALSE
    /\ lost = FALSE

-----------------------------------------------------------------------------
(* The scope                                                               *)

\* Zone: the Machine's failure domain, or else the first one of the cluster.  A pass
\* reads both when it starts.
ZoneIn(fds) ==
    IF conf.failureDomain # 0 THEN conf.failureDomain
    ELSE IF fds = {} THEN 0
    ELSE CHOOSE z \in fds : \A y \in fds : z <= y

-----------------------------------------------------------------------------
(* The instances service.  A call that fails may have taken effect.         *)

CallFrame == UNCHANGED <<clusterVars, conf, bootstrap, seen, zone, lost>>

Instantiable == bootstrap /\ zone # 0

\* What Insert leaves: a new instance, or the one that is there.
Inserted == IF inst[zone] # "none" THEN {inst}
            ELSE {[inst EXCEPT ![zone] = s] : s \in {"PROVISIONING", "RUNNING"}}

AfterInstance == IF conf.controlPlane THEN "ListToAdd" ELSE "State"

\* Faulty: the status is taken from the spec that was inserted, which has none.
createOrGetInstanceUnread ==
    /\ pc = "Instance" /\ Instantiable
    /\ inst' \in Inserted
    /\ Continue(AfterInstance, [local EXCEPT !.spec = zone, !.status.instanceStatus = ""])
    /\ UNCHANGED <<members, listed>> /\ CallFrame

\* Faulty: providerID is set before the instance is created.
createOrGetInstanceNamedFirst ==
    /\ pc = "Instance" /\ Instantiable
    /\ \/ /\ inst' \in Inserted
          /\ Continue(AfterInstance,
                [local EXCEPT !.spec = zone, !.status.instanceStatus = inst'[zone]])
       \/ /\ Return(TRUE, [local EXCEPT !.spec = zone])
          /\ UNCHANGED inst
    /\ UNCHANGED <<members, listed>> /\ CallFrame

\* Get the bootstrap data and the instance; when it is not found, Insert it and Get
\* it again.  Then its zone goes to providerID and its state to the status.
createOrGetInstance ==
    /\ pc = "Instance"
    /\ \/ /\ Instantiable
          /\ inst' \in Inserted
          /\ Continue(AfterInstance,
                [local EXCEPT !.spec = zone, !.status.instanceStatus = inst'[zone]])
       \/ ~Instantiable /\ Refuse /\ UNCHANGED inst
       \/ /\ CallFails
          /\ UNCHANGED inst \/ (Instantiable /\ inst' \in Inserted)
    /\ UNCHANGED <<members, listed>> /\ CallFrame

\* ListInstances lists the running members of the group of the zone.
Listed == zone \in members /\ inst[zone] = "RUNNING"

listToRegister ==
    /\ pc = "ListToAdd"
    /\ \/ /\ zone \in groups
          /\ listed' = Listed
          /\ Continue("Register", local)
       \/ zone \notin groups /\ Refuse /\ UNCHANGED listed
       \/ CallFails /\ UNCHANGED listed
    /\ UNCHANGED cloudVars /\ CallFrame

\* GCP adds an instance only once, and only to a group that is there.
Addable == zone \in (groups \cap Instances) \ members

\* The instance was running when it was read and was not listed since.
Unregistered == ~listed /\ local.status.instanceStatus = "RUNNING"

\* Faulty: an error of AddInstances is not returned.
registerIgnoringErrors ==
    /\ pc = "Register"
    /\ members' \in {members} \cup {members \cup {z} : z \in {z \in {zone} : Addable}}
    /\ Continue("State", local)
    /\ UNCHANGED <<inst, listed>> /\ CallFrame

\* AddInstances.
registerControlPlaneInstance ==
    /\ pc = "Register"
    /\ \/ ~Unregistered /\ Continue("State", local) /\ UNCHANGED members
       \/ /\ Unregistered /\ Addable
          /\ members' = members \cup {zone}
          /\ Continue("State", local)
       \/ Unregistered /\ ~Addable /\ Refuse /\ UNCHANGED members
       \/ /\ Unregistered /\ CallFails
          /\ members' \in {members} \cup {members \cup {z} : z \in {z \in {zone} : Addable}}
    /\ UNCHANGED <<inst, listed>> /\ CallFrame

\* Delete looks for the instance; without one there is nothing to do.  An empty
\* zone makes GCP answer NotFound or refuse the request.
getInstance ==
    /\ pc = "GetInstance"
    /\ \/ zone \in Instances /\ Continue(IF conf.controlPlane THEN "ListToRemove"
                                         ELSE "DeleteInstance", local)
       \/ zone \notin Instances /\ Continue("RemoveFinalizer", local)
       \/ zone = 0 /\ Refuse
       \/ CallFails
    /\ UNCHANGED <<cloudVars, listed>> /\ CallFrame

\* A group that is gone is no error.
listToDeregister ==
    /\ pc = "ListToRemove"
    /\ \/ /\ listed' = (zone \in groups /\ Listed)
          /\ Continue("Deregister", local)
       \/ CallFails /\ UNCHANGED listed
    /\ UNCHANGED cloudVars /\ CallFrame

\* Faulty: NotFound is returned, so that a missing group is an error.
deregisterNeedsGroup ==
    /\ pc = "Deregister"
    /\ \/ zone \in groups /\ members' = members \ {zone} /\ Continue("DeleteInstance", local)
       \/ zone \notin groups /\ Refuse /\ UNCHANGED members
    /\ UNCHANGED <<inst, listed>> /\ CallFrame

\* RemoveInstances, for an instance that was listed.
deregisterControlPlaneInstance ==
    /\ pc = "Deregister"
    /\ \/ ~listed /\ Continue("DeleteInstance", local) /\ UNCHANGED members
       \/ /\ listed /\ zone \in members
          /\ members' = members \ {zone}
          /\ Continue("DeleteInstance", local)
       \/ listed /\ zone \notin groups /\ Continue("DeleteInstance", local) /\ UNCHANGED members
       \/ listed /\ zone \in groups \ members /\ Refuse /\ UNCHANGED members
       \/ listed /\ CallFails /\ members' \in {members, members \ {zone}}
    /\ UNCHANGED <<inst, listed>> /\ CallFrame

InstanceDeleted(z) ==
    /\ inst' = [inst EXCEPT ![z] = "none"]
    /\ members' = members \ {z}

\* Faulty: the error of Delete is not returned.
deleteInstanceIgnoringErrors ==
    /\ pc = "DeleteInstance"
    /\ Continue("RemoveFinalizer", local)
    /\ InstanceDeleted(zone) \/ UNCHANGED cloudVars
    /\ UNCHANGED listed /\ CallFrame

deleteInstance ==
    /\ pc = "DeleteInstance"
    /\ \/ InstanceDeleted(zone) /\ Continue("RemoveFinalizer", local)
       \/ CallFails /\ (InstanceDeleted(zone) \/ UNCHANGED cloudVars)
    /\ UNCHANGED listed /\ CallFrame

-----------------------------------------------------------------------------
(* reconcile and reconcileDelete                                           *)

\* Faulty: a pending instance is not looked at again.
SetStateOnce ==
    /\ pc = "State"
    /\ IF local.status.instanceStatus = "RUNNING"
       THEN Return(FALSE, [local EXCEPT !.status.ready = TRUE])
       ELSE Return(FALSE, local)
    /\ UNCHANGED <<cloudVars, listed>> /\ CallFrame

\* The machine is ready once its instance runs.  A pending instance is looked at
\* again; any other state is a failure of the machine, and looked at again too.
SetState ==
    /\ pc = "State"
    /\ CASE local.status.instanceStatus = "PROVISIONING" -> Return(TRUE, local)
         [] local.status.instanceStatus = "RUNNING" ->
                Return(FALSE, [local EXCEPT !.status.ready = TRUE])
         [] OTHER -> Return(TRUE, [local EXCEPT !.status.failureReason = TRUE])
    /\ UNCHANGED <<cloudVars, listed>> /\ CallFrame

\* Reconcile reads the GCPCluster from the cache and builds both scopes.
Reconcile ==
    /\ seen.exists
    /\ StartPass(IF cache.deleting THEN "GetInstance" ELSE "Finalizer")
    /\ zone' = ZoneIn(seen.fds)
    /\ UNCHANGED <<clusterVars, cloudVars, conf, bootstrap, seen, listed, lost>>

\* The pass is over, and with it what it read.
PassEnds ==
    /\ zone' = 0 /\ listed' = FALSE
    /\ UNCHANGED <<clusterVars, cloudVars, conf, bootstrap, seen, lost>>

Controller ==
    \/ /\ \/ ReconcileIgnored(seen.exists) \/ ReconcileFails
          \/ AddFinalizer("Instance") \/ RemoveFinalizer \/ ClosePatch
       /\ UNCHANGED <<cloudVars, listed>> /\ CallFrame
    \/ Reconcile
    \/ createOrGetInstance \/ listToRegister \/ registerControlPlaneInstance
    \/ SetState
    \/ getInstance \/ listToDeregister \/ deregisterControlPlaneInstance
    \/ deleteInstance
    \/ CloseStatus /\ PassEnds

-----------------------------------------------------------------------------
(* The environment                                                         *)

ClientsFrame == UNCHANGED <<cloudVars, listed>> /\ CallFrame

OutsideFrame == UNCHANGED <<obj, conf, seen, zone, listed>> /\ ClientFrame

\* The bootstrap provider writes the secret, and the Machine controller links it.
BootstrapReady ==
    /\ ~bootstrap /\ bootstrap' = TRUE
    /\ UNCHANGED <<clusterVars, cloudVars, edits, lost>> /\ OutsideFrame

\* What the cluster's controller does on its own, and what takes an edit: new failure
\* zone, or the request to delete the cluster.
Unprompted ==
    \/ cluster' = cluster
    \/ cluster.fds = {} /\ cluster'.fds # {}
    \/ cluster.deleting /\ ~cluster'.exists

ClusterChanges ==
    /\ Infrastructure!CNext
    /\ members' = members \cap groups'
    /\ IF Unprompted THEN UNCHANGED edits ELSE Edit
    /\ UNCHANGED <<inst, bootstrap, lost>> /\ OutsideFrame

\* The GCPCluster controller makes the group of the machine's zone.
GroupProvided ==
    /\ conf.failureDomain \in Zones \ groups
    /\ ClusterChanges
    /\ conf.failureDomain \in groups'

\* An event of the GCPCluster reaches the cache and enqueues its machines.
ClusterSync ==
    /\ seen # View
    /\ seen' = View /\ queued' = TRUE
    /\ UNCHANGED <<obj, cache, before, local, pc, failed, faults, edits, clusterVars,
                   cloudVars, conf, bootstrap, zone, listed, lost>>

\* An instance starts, or GCP has repaired it.
InstanceRuns ==
    /\ \E z \in Instances : inst' = [inst EXCEPT ![z] = "RUNNING"] /\ inst' # inst
    /\ UNCHANGED <<clusterVars, members, bootstrap, edits, lost>> /\ OutsideFrame

InstanceBreaks ==
    /\ \E z \in Instances : inst' = [inst EXCEPT ![z] = "REPAIRING"] /\ inst' # inst
    /\ Edit
    /\ UNCHANGED <<clusterVars, members, bootstrap, lost>> /\ OutsideFrame

InstanceVanishes ==
    /\ \E z \in Instances : InstanceDeleted(z)
    /\ lost' = TRUE
    /\ Edit
    /\ UNCHANGED <<clusterVars, bootstrap>> /\ OutsideFrame

Environment ==
    \/ (UserDelete \/ Release \/ Pause \/ CacheSync) /\ ClientsFrame
    \/ Crash /\ seen' = View /\ zone' = 0 /\ listed' = FALSE
       /\ UNCHANGED <<clusterVars, cloudVars, conf, bootstrap, lost>>
    \/ BootstrapReady \/ ClusterChanges \/ ClusterSync
    \/ InstanceRuns \/ InstanceBreaks \/ InstanceVanishes

Next == Controller \/ Environment

Spec == Init /\ [][Next]_vars

(* The queue's workers run, watch events are delivered, the owner reference  *)
(* and the bootstrap data come, a pause ends, instances start, and the       *)
(* cluster's controller makes the group of the zone (BecomesReady of         *)
(* GCPCluster).                                                             *)
Fairness ==
    /\ WF_vars(Controller)
    /\ WF_vars(CacheSync /\ ClientsFrame) /\ WF_vars(ClusterSync)
    /\ WF_vars(Release /\ ClientsFrame)
    /\ WF_vars(BootstrapReady) /\ WF_vars(InstanceRuns) /\ WF_vars(GroupProvided)

FairSpec == Spec /\ Fairness

-----------------------------------------------------------------------------
(* Properties                                                              *)

Object == [exists : BOOLEAN, reconcilable : BOOLEAN, finalizer : BOOLEAN,
           deleting : BOOLEAN, spec : Zones \cup {0},
           status : [ready : BOOLEAN, instanceStatus : InstanceStatus,
                     failureReason : BOOLEAN]]

Steps == {"Idle", "Finalizer", "Instance", "ListToAdd", "Register", "State",
          "GetInstance", "ListToRemove", "Deregister", "DeleteInstance",
          "RemoveFinalizer", "ClosePatch", "CloseStatus"}

Cluster == [exists : BOOLEAN, deleting : BOOLEAN, fds : SUBSET Zones]

TypeOK ==
    /\ obj \in Object /\ cache \in Object /\ before \in Object /\ local \in Object
    /\ queued \in BOOLEAN /\ failed \in BOOLEAN /\ listed \in BOOLEAN /\ lost \in BOOLEAN
    /\ pc \in Steps
    /\ conf \in Machines /\ bootstrap \in BOOLEAN
    /\ cluster \in Cluster /\ seen \in [exists : BOOLEAN, fds : SUBSET Zones]
    /\ groups \subseteq Zones /\ zone \in Zones \cup {0}
    /\ inst \in [Zones -> InstanceStatus]
    /\ members \subseteq groups \cap Instances
    /\ faults \in 0..MaxFaults /\ edits \in 0..MaxEdits

Pinned == conf.failureDomain # 0

\* The instance of a machine with a failure domain never outlives the object nor
\* its finalizer, whatever happens to the cluster and whichever calls fail.
FinalizerGuards ==
    Pinned /\ Instances # {} => obj.exists /\ obj.finalizer

\* As long as the cluster stays and nobody else deletes the instance, a ready
\* control plane machine is behind the load balancer, in the zone of its instance.
ReadyMeansRegistered ==
    /\ obj.status.ready /\ ~obj.deleting /\ conf.controlPlane
    /\ cluster.exists /\ ~cluster.deleting /\ ~lost
    => members # {}

\* A published providerID is that of an instance, also when the cluster's failure
\* domains have changed since and when the pass that set it failed afterwards.
ProviderIDBacked ==
    obj.spec # 0 /\ ~obj.deleting /\ ~lost => obj.spec \in Instances

\* No wake-up is lost: when nothing is queued and both caches are up to date, a
\* machine is ready in the zone that the cluster now gives it, or its cluster is gone.
NothingForgotten ==
    /\ pc = "Idle" /\ ~queued /\ cache = obj /\ seen = View
    /\ obj.exists /\ obj.reconcilable /\ cluster.exists
    => /\ ~obj.deleting
       /\ obj.status.ready /\ obj.status.instanceStatus = "RUNNING"
       /\ obj.spec = ZoneIn(cluster.fds)

\* A deleted machine goes, unless its GCPCluster goes first.
DeletionCompletes == obj.deleting /\ Pinned ~> ~obj.exists \/ ~cluster.exists

\* A machine with a failure domain gets ready, unless it or its cluster is deleted.
BecomesReady ==
    obj.exists /\ Pinned ~>
        obj.status.ready \/ obj.deleting \/ ~obj.exists \/ cluster.deleting \/ ~cluster.exists

-----------------------------------------------------------------------------
(* What the repository says, and the code does not do                      *)

\* "MachineFinalizer allows ReconcileGCPMachine to clean up GCP resources associated
\* with GCPMachine before removing it from the apiserver": no instance is left, at
\* least while the cluster has failure domains to look for one in.
NoInstanceLeft == obj.exists \/ cluster.fds = {} \/ Instances = {}

=============================================================================
