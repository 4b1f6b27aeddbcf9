--------------------------- MODULE ManagedCluster ---------------------------
(***************************************************************************)
(* A GKE cluster: the GCPManagedCluster and GCPManagedControlPlane         *)
(* controllers, which wait for each other, and the services they run       *)
(* (networks, subnets, container/clusters).  The machine pools of the      *)
(* cluster are part of the environment; ManagedMachinePool models one.     *)
(*                                                                         *)
(* The network with its router, and the subnets, are one object each:      *)
(* ClusterNetworks has the same services call by call.  What a control     *)
(* plane asks for is its configuration, a number (release channel,         *)
(* version, authorized networks), and its logging and monitoring services. *)
(* A GKE cluster has the number of its creation as its endpoint.           *)
(***************************************************************************)
EXTENDS Naturals, FiniteSets

CONSTANTS
    Configs,    \* configurations
    Editable,   \* fields of a control plane that users change
    Modes,      \* whether control planes enable autopilot
    MaxFaults,  \* bound: failed calls and controller crashes
    MaxEdits    \* bound: pauses, edits, and clusters that fail or vanish

Fields == {"config", "logging", "monitoring"}

ASSUME ManagedConfigs ==
    Configs \subseteq Nat /\ 1 \in Configs /\ Editable \subseteq Fields /\ Modes \subseteq BOOLEAN

ASSUME ManagedBounds == MaxFaults \in Nat /\ MaxEdits \in Nat

VARIABLES
    mc, mcPass,  \* the GCPManagedCluster: its spec is the endpoint it shows
    cp, cpPass,  \* the GCPManagedControlPlane: its spec is its endpoint
    faults, edits,
    active,      \* owner references are set and the Cluster is not paused
    autopilot,   \* the control plane enables autopilot
    pools,       \* MachinePools and GCPManagedMachinePools of the cluster
    shown,       \* what the running pass of the GCPManagedCluster read of cp
    provided,    \* what the running pass of the control plane read of mc
    todo,        \* services that the running pass of the GCPManagedCluster has left
    net,         \* networks and subnets that are there
    gke,         \* the GKE cluster
    kubeconfig   \* the kubeconfig secrets are there

mcVars == <<mc, mcPass, shown, todo, net>>
cpVars == <<cp, cpPass, provided, gke, kubeconfig>>
clusterVars == <<active, autopilot, pools, edits>>
vars == <<mcVars, cpVars, clusterVars, faults>>

MC == INSTANCE ManagedObject WITH obj <- mc, pass <- mcPass,
        NoWant <- 0, NoSpec <- 0, NoStatus <- FALSE

\* Deleting: the reason of the Deleting condition, as reconcileDelete tells it apart.
CPStatus == [ready : BOOLEAN, deleting : {"absent", "present", "Deleted"}]

Wants == [config : Configs, logging : {"unset", "none", "google"},
          monitoring : {"unset", "none", "google"}]

NoWant == [config |-> 1, logging |-> "unset", monitoring |-> "unset"]

CP == INSTANCE ManagedObject WITH obj <- cp, pass <- cpPass,
        NoWant <- NoWant, NoSpec <- 0,
        NoStatus <- [ready |-> FALSE, deleting |-> "absent"]

Services == {"networks", "subnets"}

NoGKE == [status |-> "none", id |-> 0, config |-> 1,
          logging |-> "google", monitoring |-> "google"]

Init ==
    /\ mc = MC!Created(0) /\ mcPass = MC!NoPass
    /\ autopilot \in Modes
    /\ cp = CP!Created(NoWant) /\ cpPass = CP!NoPass
    /\ faults = 0 /\ edits = 0
    /\ active = FALSE
    /\ pools = "none"
    /\ shown = [exists |-> FALSE, endpoint |-> 0]
    /\ provided = FALSE
    /\ todo = {} /\ net = {}
    /\ gke = NoGKE
    /\ kubeconfig = FALSE

-----------------------------------------------------------------------------
(* The GCPManagedCluster controller                                        *)

MCFrame == UNCHANGED <<cpVars, clusterVars>>

\* Reconcile reads the control plane, which may only be missing in a deletion.
ReconcileCluster ==
    /\ active
    /\ cp.exists \/ mc.deleting
    /\ MC!Begin(IF mc.deleting THEN "Dependencies" ELSE "Finalizer")
    /\ shown' = [exists |-> cp.exists, endpoint |-> cp.spec]
    /\ todo' = Services
    /\ UNCHANGED net /\ MCFrame

AddClusterFinalizer ==
    /\ MC!AddFinalizer("Services")
    /\ UNCHANGED <<shown, todo, net>> /\ MCFrame

\* Failure domains, then the services, a Go map that is iterated in any order.
reconcileService(s) ==
    /\ MC!At("Services") /\ s \in todo
    /\ s = "subnets" => "networks" \in net
    /\ net' = net \cup {s} /\ todo' = todo \ {s}
    /\ MC!Go("Services", mcPass.local)
    /\ UNCHANGED shown /\ MCFrame

\* An error ends the pass: a call fails, or the turn of the subnets comes when there is
\* no network to make them in.
reconcileServiceFails ==
    /\ MC!At("Services") /\ todo # {}
    /\ \/ /\ "subnets" \in todo /\ "networks" \notin net
          /\ MC!Return(mcPass.local) /\ UNCHANGED net
       \/ /\ MC!CallFails(mcPass.local)
          /\ net' \in {net, net \cup {"networks"}} \cup
                      (IF "networks" \in net THEN {net \cup {"subnets"}} ELSE {})
    /\ UNCHANGED <<shown, todo>> /\ MCFrame

\* Ready, and the endpoint that the control plane showed when the pass began.
reconcileEnds ==
    /\ MC!At("Services") /\ todo = {}
    /\ MC!Return([mcPass.local EXCEPT !.status = TRUE, !.spec = shown.endpoint])
    /\ UNCHANGED <<shown, todo, net>> /\ MCFrame

\* dependencyCount counts GCPManagedMachinePools: an unmatched pool may not have one.
Dependents == {n \in {0, 1} : (pools = "matched" => n = 1) /\ (pools = "none" => n = 0)}

\* Faulty: the control plane is not waited for.
awaitPoolsOnly ==
    /\ MC!At("Dependencies")
    /\ \/ Dependents # {0} /\ MC!Return(mcPass.local)
       \/ 0 \in Dependents /\ MC!Go("DeleteServices", mcPass.local)
    /\ UNCHANGED <<shown, todo, net>> /\ MCFrame

\* A pass ends while there are dependents, or the control plane is there.
awaitDependencies ==
    /\ MC!At("Dependencies")
    /\ \/ /\ Dependents # {0} \/ shown.exists
          /\ MC!Return(mcPass.local)
       \/ /\ 0 \in Dependents /\ ~shown.exists
          /\ MC!Go("DeleteServices", mcPass.local)
       \/ MC!CallFails(mcPass.local)
    /\ UNCHANGED <<shown, todo, net>> /\ MCFrame

\* The services in any order: GCP refuses to delete a network that has subnets.
deleteService(s) ==
    /\ MC!At("DeleteServices") /\ s \in todo
    /\ s = "networks" => "subnets" \notin net
    /\ net' = net \ {s} /\ todo' = todo \ {s}
    /\ MC!Go("DeleteServices", mcPass.local)
    /\ UNCHANGED shown /\ MCFrame

\* Faulty: the error is dropped, and the finalizer with it.
deleteServiceLosesError ==
    /\ MC!At("DeleteServices")
    /\ "networks" \in todo /\ "subnets" \in net
    /\ MC!Return([mcPass.local EXCEPT !.finalizer = FALSE])
    /\ UNCHANGED <<shown, todo, net>> /\ MCFrame

deleteServiceFails ==
    /\ MC!At("DeleteServices") /\ todo # {}
    /\ \/ /\ "networks" \in todo /\ "subnets" \in net
          /\ MC!Return(mcPass.local) /\ UNCHANGED net
       \/ /\ MC!CallFails(mcPass.local)
          /\ net' \in {net, net \ {"subnets"}} \cup
                      (IF "subnets" \notin net THEN {{}} ELSE {})
    /\ UNCHANGED <<shown, todo>> /\ MCFrame

deleteEnds ==
    /\ MC!At("DeleteServices") /\ todo = {}
    /\ MC!Return([mcPass.local EXCEPT !.finalizer = FALSE])
    /\ UNCHANGED <<shown, todo, net>> /\ MCFrame

CloseCluster ==
    /\ MC!Close
    /\ shown' = [exists |-> FALSE, endpoint |-> 0] /\ todo' = {}
    /\ UNCHANGED net /\ MCFrame

ClusterController ==
    \/ ReconcileCluster \/ AddClusterFinalizer
    \/ \E s \in Services : reconcileService(s)
    \/ reconcileServiceFails \/ reconcileEnds
    \/ awaitDependencies
    \/ \E s \in Services : deleteService(s)
    \/ deleteServiceFails \/ deleteEnds \/ CloseCluster

-----------------------------------------------------------------------------
(* The GCPManagedControlPlane controller                                   *)

CPFrame == UNCHANGED <<mcVars, clusterVars>>

scope == cpPass.local

Ready(value) == [scope EXCEPT !.status.ready = value]

Deleting(reason) == [scope EXCEPT !.status.deleting = reason]

\* Without the GCPManagedCluster, Reconcile fails, in a deletion too.
ReconcileControlPlane ==
    /\ active /\ mc.exists
    /\ CP!Begin(IF cp.deleting THEN "Delete" ELSE "Finalizer")
    /\ provided' = mc.status
    /\ UNCHANGED <<gke, kubeconfig>> /\ CPFrame

\* The pass ends here when the GCPManagedCluster is not ready.
AddControlPlaneFinalizer ==
    /\ CP!AddFinalizer(IF provided THEN "Cluster" ELSE "Close")
    /\ UNCHANGED <<provided, gke, kubeconfig>> /\ CPFrame

\* GetAllNodePools and the preflight check: an autopilot cluster has no pools, another
\* one has some, all of them matched with a MachinePool of an even size.
Creatable == IF autopilot THEN pools = "none" ELSE pools = "matched"

\* A service that is not set is the default of GKE.
Service(wanted) == IF wanted = "unset" THEN "google" ELSE wanted

\* Faulty: services are requested when they are not set, too.
NewClusterAsGiven ==
    [status |-> "PROVISIONING", id |-> gke.id + 1, config |-> scope.want.config,
     logging |-> scope.want.logging, monitoring |-> scope.want.monitoring]

NewCluster ==
    [status |-> "PROVISIONING", id |-> gke.id + 1, config |-> scope.want.config,
     logging |-> Service(scope.want.logging),
     monitoring |-> Service(scope.want.monitoring)]

\* CreateCluster, and the binding of tags to what it made.
createCluster ==
    /\ CP!At("Cluster") /\ gke.status = "none"
    /\ \/ Creatable /\ gke' = NewCluster /\ CP!Return(Ready(FALSE))
       \/ ~Creatable /\ CP!Return(Ready(FALSE)) /\ UNCHANGED gke
       \/ /\ gke' \in {gke} \cup {c \in {NewCluster} : Creatable}
          /\ CP!CallFails(Ready(FALSE))
    /\ UNCHANGED <<provided, kubeconfig>> /\ CPFrame

\* What checkDiffAndPrepareUpdate compares.
Differs(field) ==
    /\ scope.want[field] # "unset"
    /\ gke[field] # scope.want[field]

ServicesDiffer == Differs("logging") \/ Differs("monitoring")

\* Faulty: only the services are compared.
needServiceUpdate == ServicesDiffer

needUpdate == gke.config # scope.want.config \/ ServicesDiffer

\* A new monitoring service is requested as DesiredLoggingService, in place of the
\* logging service.
DesiredLogging ==
    IF Differs("monitoring") THEN scope.want.monitoring
    ELSE IF Differs("logging") THEN scope.want.logging
    ELSE gke.logging

\* GKE takes one field in an update, and knows the logging service of the request:
\* "none" is one of both kinds.
Valid ==
    /\ gke.config = scope.want.config \/ ~ServicesDiffer
    /\ Differs("monitoring") => scope.want.monitoring = "none"

UpdatedCluster == [gke EXCEPT !.status = "RECONCILING", !.config = scope.want.config,
                              !.logging = DesiredLogging]

updateCluster ==
    /\ CP!At("Cluster") /\ gke.status = "RUNNING" /\ needUpdate
    /\ \/ Valid /\ gke' = UpdatedCluster /\ CP!Return(Ready(TRUE))
       \/ ~Valid /\ CP!Return(scope) /\ UNCHANGED gke
       \/ /\ gke' \in {gke} \cup {c \in {UpdatedCluster} : Valid}
          /\ CP!CallFails(scope)
    /\ UNCHANGED <<provided, kubeconfig>> /\ CPFrame

\* Reconcile of a cluster that does something else; GetCluster may fail.
observeCluster ==
    /\ CP!At("Cluster")
    /\ \/ gke.status \in {"PROVISIONING", "ERROR"} /\ CP!Return(Ready(FALSE))
       \/ gke.status = "RECONCILING" /\ CP!Return(Ready(TRUE))
       \/ /\ gke.status = "STOPPING"
          /\ CP!Return([Ready(FALSE) EXCEPT !.status.deleting = "present"])
       \/ gke.status = "RUNNING" /\ ~needUpdate /\ CP!Go("Kubeconfig", scope)
       \/ gke.status # "none" /\ CP!CallFails(Ready(FALSE))
    /\ UNCHANGED <<provided, gke, kubeconfig>> /\ CPFrame

\* The secrets for Cluster API and for users are made once; the token is renewed in
\* every pass.  Then the endpoint is set.
reconcileKubeconfig ==
    /\ CP!At("Kubeconfig")
    /\ \/ /\ kubeconfig' = TRUE
          /\ CP!Return([Ready(TRUE) EXCEPT !.spec = gke.id])
       \/ /\ kubeconfig' \in {kubeconfig, TRUE}
          /\ CP!CallFails(scope)
    /\ UNCHANGED <<provided, gke>> /\ CPFrame

\* Faulty: the finalizer goes with the request to delete the cluster.
deleteClusterAtOnce ==
    /\ CP!At("Delete")
    /\ gke' = [gke EXCEPT !.status = IF @ = "none" THEN "none" ELSE "STOPPING"]
    /\ CP!Return([Deleting("Deleted") EXCEPT !.finalizer = FALSE])
    /\ UNCHANGED <<provided, kubeconfig>> /\ CPFrame

\* The reason of the condition decides on the finalizer; without the condition,
\* reading its reason panics, which the controller's runtime turns into an error.
Released(s) == [s EXCEPT !.finalizer = (s.status.deleting # "Deleted") /\ @]

DeletedCluster == [gke EXCEPT !.status = "STOPPING"]

\* Delete, and the end of reconcileDelete.
deleteCluster ==
    /\ CP!At("Delete")
    /\ \/ /\ gke.status = "none"
          /\ CP!Return(Released(Deleting("Deleted"))) /\ UNCHANGED gke
       \/ /\ gke.status \in {"PROVISIONING", "RECONCILING"}
          /\ CP!Return(Released(scope)) /\ UNCHANGED gke
       \/ /\ gke.status = "STOPPING"
          /\ CP!Return(Deleting("present")) /\ UNCHANGED gke
       \/ /\ gke.status \in {"RUNNING", "ERROR"}
          /\ gke' = DeletedCluster
          /\ CP!Return([Ready(FALSE) EXCEPT !.status.deleting = "present"])
       \/ /\ gke' \in {gke} \cup {c \in {DeletedCluster} : gke.status \in {"RUNNING", "ERROR"}}
          /\ CP!CallFails(IF gke.status \in {"RUNNING", "ERROR"}
                          THEN Deleting("present") ELSE scope)
    /\ UNCHANGED <<provided, kubeconfig>> /\ CPFrame

CloseControlPlane ==
    /\ CP!Close
    /\ provided' = FALSE
    /\ kubeconfig' = (kubeconfig /\ cp'.exists)
    /\ UNCHANGED gke /\ CPFrame

ControlPlaneController ==
    \/ ReconcileControlPlane \/ AddControlPlaneFinalizer
    \/ createCluster \/ updateCluster \/ observeCluster \/ reconcileKubeconfig
    \/ deleteCluster \/ CloseControlPlane

-----------------------------------------------------------------------------
(* The environment                                                         *)

Edit == edits < MaxEdits /\ edits' = edits + 1

\* Both controllers are in one process.
Crash ==
    /\ MC!Fault
    /\ MC!Stop /\ CP!Stop
    /\ shown' = [exists |-> FALSE, endpoint |-> 0] /\ todo' = {} /\ provided' = FALSE
    /\ UNCHANGED <<mc, cp, net, gke, kubeconfig, clusterVars>>

\* The owner references are set, or the Cluster is unpaused.
Release ==
    /\ ~active /\ active' = TRUE
    /\ UNCHANGED <<mcVars, cpVars, autopilot, pools, edits, faults>>

Pause ==
    /\ active /\ active' = FALSE /\ Edit
    /\ UNCHANGED <<mcVars, cpVars, autopilot, pools, faults>>

UserDeletes ==
    /\ \/ MC!UserDelete /\ UNCHANGED cp
       \/ CP!UserDelete /\ UNCHANGED mc
    /\ kubeconfig' = (kubeconfig /\ cp'.exists)
    /\ UNCHANGED <<mcPass, shown, todo, net, cpPass, provided, gke, clusterVars, faults>>

\* What the webhook admits of a change: the services of an autopilot cluster stay unset.
Admitted(w) == autopilot => w.logging = "unset" /\ w.monitoring = "unset"

UserEdits ==
    /\ Edit
    /\ \E w \in Wants :
          /\ Admitted(w) /\ \A f \in Fields \ Editable : w[f] = cp.want[f]
          /\ CP!UserEdit(w)
    /\ UNCHANGED <<mcVars, cpPass, provided, gke, kubeconfig, faults>>
    /\ UNCHANGED <<active, autopilot, pools>>

\* Users make and delete machine pools; a MachinePool may be there before its
\* GCPManagedMachinePool is, or have replicas that cannot be spread evenly.
PoolsChange ==
    /\ \/ pools = "none" /\ pools' \in {"unmatched", "matched"} /\ ~mc.deleting
       \/ pools = "unmatched" /\ pools' = "matched"
       \/ pools = "matched" /\ pools' = "none" /\ mc.deleting
    /\ UNCHANGED <<mcVars, cpVars, active, autopilot, edits, faults>>

\* GKE finishes what it was asked to do.
GKEFinishes ==
    /\ \/ gke.status \in {"PROVISIONING", "RECONCILING"} /\ gke' = [gke EXCEPT !.status = "RUNNING"]
       \/ gke.status = "STOPPING" /\ gke' = [gke EXCEPT !.status = "none"]
    /\ UNCHANGED <<mcVars, cp, cpPass, provided, kubeconfig, clusterVars, faults>>

\* A cluster breaks, is repaired or upgraded by GKE, or is deleted by somebody else.
GKEChanges ==
    /\ \/ gke.status \in {"PROVISIONING", "RUNNING", "RECONCILING"}
          /\ gke' = [gke EXCEPT !.status = "ERROR"] /\ Edit
       \/ gke.status = "RUNNING" /\ gke' \in {[gke EXCEPT !.status = s] :
                                               s \in {"RECONCILING", "STOPPING"}} /\ Edit
       \/ gke.status = "ERROR" /\ gke' = [gke EXCEPT !.status = "RUNNING"] /\ UNCHANGED edits
    /\ UNCHANGED <<mcVars, cp, cpPass, provided, kubeconfig, active, autopilot, pools, faults>>

Environment ==
    \/ Crash \/ Release \/ Pause \/ UserDeletes \/ UserEdits \/ PoolsChange
    \/ GKEFinishes \/ GKEChanges

Next == ClusterController \/ ControlPlaneController \/ Environment

Spec == Init /\ [][Next]_vars

(* The workers of both controllers run, resyncs come, a pause ends, and GKE  *)
(* does its work.  The runtime draws the order of a map anew in every pass:  *)
(* the service whose turn must come first does so in one of them.  Nothing   *)
(* is assumed of users, nor of a cluster in error.                           *)
Fairness ==
    /\ WF_vars(ClusterController) /\ WF_vars(ControlPlaneController)
    /\ SF_vars(reconcileService("networks")) /\ SF_vars(deleteService("subnets"))
    /\ WF_vars(Release) /\ WF_vars(GKEFinishes)

FairSpec == Spec /\ Fairness

-----------------------------------------------------------------------------
(* Properties                                                              *)

Endpoints == 0..(MaxEdits + 1)

TypeOK ==
    /\ MC!ObjectType({0}, Endpoints, BOOLEAN) /\ CP!ObjectType(Wants, Endpoints, CPStatus)
    /\ MC!PassType({"Idle", "Finalizer", "Services", "Dependencies", "DeleteServices",
                    "Close"}, {0}, Endpoints, BOOLEAN)
    /\ CP!PassType({"Idle", "Finalizer", "Cluster", "Kubeconfig", "Delete", "Close"},
                   Wants, Endpoints, CPStatus)
    /\ shown \in [exists : BOOLEAN, endpoint : Endpoints]
    /\ provided \in BOOLEAN /\ todo \subseteq Services /\ net \subseteq Services
    /\ active \in BOOLEAN /\ autopilot \in Modes /\ kubeconfig \in BOOLEAN
    /\ pools \in {"none", "unmatched", "matched"}
    /\ gke \in [status : {"none", "PROVISIONING", "RUNNING", "RECONCILING", "STOPPING",
                          "ERROR"},
                id : Endpoints, config : Configs, logging : {"none", "google"},
                monitoring : {"none", "google"}]
    /\ faults \in 0..MaxFaults /\ edits \in 0..MaxEdits

\* The network is there only while the GCPManagedCluster and its finalizer are, and the
\* GKE cluster only while the control plane object and its finalizer are.
FinalizersGuard ==
    /\ net # {} => mc.exists /\ mc.finalizer
    /\ gke.status # "none" => cp.exists /\ cp.finalizer

\* The network and the subnets are there, whole, from the moment a pass of the control
\* plane decides to make a GKE cluster until that cluster is gone: neither deletion, nor
\* the stale reads of the two controllers of each other, takes them away before.
NetworkUnderCluster == gke.status # "none" \/ cpPass.pc = "Cluster" => net = Services

\* Everybody sees the cluster that was asked for.
Converged ==
    /\ gke.status = "RUNNING" /\ gke.config = cp.want.config
    /\ cp.want.logging # "unset" => gke.logging = cp.want.logging
    /\ kubeconfig
    /\ cp.spec = gke.id /\ cp.status.ready
    /\ mc.spec = gke.id /\ mc.status

Undisturbed ==
    /\ mc.exists /\ ~mc.deleting /\ cp.exists /\ ~cp.deleting
    /\ gke.status # "ERROR"
    /\ gke.status = "none" => Creatable

\* One update is enough for what is left to change.
OneUpdate ==
    \/ gke.config = cp.want.config
    \/ cp.want.logging \in {"unset", gke.logging}

\* Once nobody edits any more, the GKE cluster is made and changed as asked for, and its
\* endpoint reaches the GCPManagedCluster, whatever failed and whichever order the
\* services ran in; also when the cluster was deleted by somebody else in between.  A
\* cluster that differs in its configuration and in its logging is excepted: the one
\* request for both is refused in every pass.
Converges == <>[](Undisturbed /\ OneUpdate => Converged)

\* A cluster that is deleted goes with its control plane, once its pools are gone: the
\* two controllers do not wait for each other.  The finalizer of the GCPManagedCluster
\* must have been set: without it the object goes at once.
DeletionCompletes ==
    mc.deleting /\ cp.deleting /\ mc.finalizer
        ~> pools # "none" \/ (~mc.exists /\ ~cp.exists /\ gke.status = "none" /\ net = {})

-----------------------------------------------------------------------------
(* What the repository says, and the code does not do                      *)

\* "MonitoringService represents configuration of monitoring service feature of the GKE
\* cluster": a new value reaches the cluster.
MonitoringFollows ==
    <>[](Undisturbed => cp.want.monitoring \in {"unset", gke.monitoring})

=============================================================================
