------------------------- MODULE ManagedMachinePool -------------------------
(***************************************************************************)
(* The GCPManagedMachinePool controller with the node pool service it      *)
(* runs, for one pool of a GKE cluster.  The control plane of the cluster  *)
(* is part of the environment; ManagedCluster models it.                   *)
(*                                                                         *)
(* A pass reads the node pool and makes at most one call that changes it:  *)
(* both are one step here.  A node pool that has changed in between is     *)
(* busy with another operation, and GKE refuses the call.                  *)
(***************************************************************************)
EXTENDS Naturals, FiniteSets

CONSTANTS
    Zones,      \* the zones over which GKE spreads a pool that names none
    Configs,    \* configurations (version, labels, taints, image, tags, sysctls)
    Sparse,     \* those that leave something empty that GKE may report as absent
    Wants,      \* what users may ask for, see Specs
    MaxSize,    \* bound: the largest number of replicas
    MaxFaults,  \* bound: failed calls and controller crashes
    MaxEdits    \* bound: pauses, edits, node pools that fail, vanish or scale themselves

\* locations {}: spec.nodeLocations is not set.  ordered: it is in the order in which
\* GKE reports the locations of the node pool.
Specs == [size : 0..MaxSize, config : Configs, locations : SUBSET Zones,
          ordered : BOOLEAN, scaling : {"unset", "off"}]

ASSUME NodePoolConfigs ==
    /\ IsFiniteSet(Zones) /\ Zones # {}
    /\ Configs \subseteq Nat \ {0} /\ Sparse \subseteq Configs
    /\ MaxSize \in Nat \ {0}

ASSUME NodePoolSpecs == Wants \subseteq Specs

ASSUME NodePoolBounds == MaxFaults \in Nat /\ MaxEdits \in Nat

VARIABLES
    obj, pass,  \* the GCPManagedMachinePool, its spec the length of providerIDList
    faults, edits,
    active,     \* the owner reference is set and nothing is paused
    cp,         \* the control plane: its GKE cluster is not made, not ready or ready
    np,         \* the node pool
    terse       \* GKE leaves out what is empty when it reports a node pool

vars == <<obj, pass, faults, edits, active, cp, np, terse>>

\* ready is what the status says; readyCond, updating and deleting are the conditions
\* Ready, GKEMachinePoolUpdating and GKEMachinePoolDeleting.  GKEMachinePoolReady does
\* not enter the status and is left out: a node pool in error leaves Ready as it was.
NoStatus == [ready |-> FALSE, readyCond |-> FALSE, updating |-> FALSE, deleting |-> "absent"]

NoWant == CHOOSE w \in Wants : TRUE

INSTANCE ManagedObject WITH NoSpec <- 0

\* autoscaling, as GKE reports it: none when it was never set.  early: the GKE cluster
\* was made with the node pool, and its controller has not set the finalizer yet.
NoNodePool == [status |-> "none", count |-> 0, zones |-> {}, config |-> 0,
               autoscaling |-> "none", nodes |-> 0, early |-> FALSE]

\* The pool is made; the webhook has checked it.
Init ==
    /\ obj \in {Created(w) : w \in Wants}
    /\ pass = NoPass
    /\ faults = 0 /\ edits = 0
    /\ active = FALSE
    /\ cp \in {"absent", "notready"}  \* the GKE cluster may be there before the pool is
    /\ np = NoNodePool
    /\ terse \in BOOLEAN

-----------------------------------------------------------------------------
(* The node pool service                                                   *)

Frame == UNCHANGED <<edits, active, cp, terse>>

scope == pass.local

want == scope.want

\* Zones that a new node pool has.
ZonesOf(w) == IF w.locations = {} THEN Zones ELSE w.locations

\* ManagedMachinePoolPreflightCheck, for a region; the region of a zone is one too.
Even(w) == w.size % Cardinality(ZonesOf(w)) = 0

\* What GKE reports of a configuration that it was given, and of autoscaling that was
\* turned on or off.  No configuration that is wanted is reported as 0.
ReportedConfig(c) == IF terse /\ c \in Sparse THEN 0 ELSE c

ReportedScaling(a) == IF terse /\ a = "off" THEN "none" ELSE a

\* ConvertToSdkNodePool: what is empty, autoscaling that is not wanted too, is not sent
\* to GKE, and is not reported, or as empty.
NewNodePools(w) ==
    {[status |-> "PROVISIONING", count |-> w.size \div Cardinality(ZonesOf(w)),
      zones |-> ZonesOf(w), config |-> c, autoscaling |-> a, nodes |-> 0,
      early |-> FALSE] :
        c \in IF w.config \in Sparse THEN {0, ReportedConfig(w.config)} ELSE {w.config},
        a \in IF w.scaling = "off" THEN {"none", ReportedScaling("off")} ELSE {"none"}}

\* setReadyStatusFromConditions, deferred.
Concluded(s) == [s EXCEPT !.status.ready = s.status.readyCond \/ s.status.updating]

ReadyCond(s, value) == [s EXCEPT !.status.readyCond = value]

Updating(s, value) == [s EXCEPT !.status.updating = value]

\* Faulty: the instances are appended.
ListedAgain == [scope EXCEPT !.spec = @ + np.nodes]

\* The instances of the node pool, in whatever state they are.
Listed == [scope EXCEPT !.spec = np.nodes]

createNodePool ==
    /\ At("NodePool") /\ np.status = "none"
    /\ LET s == Concluded(ReadyCond(scope, FALSE))
       IN  \/ Even(want) /\ np' \in NewNodePools(want) /\ Return(s)
           \/ ~Even(want) /\ Return(s) /\ UNCHANGED np
           \/ /\ np' \in {np} \cup {n \in NewNodePools(want) : Even(want)}
              /\ CallFails(s)
    /\ Frame

\* A node pool that does something else is left alone.  Reading it, or its instances,
\* may fail.
observeNodePool ==
    /\ At("NodePool") /\ np.status # "none"
    /\ \/ /\ np.status \in {"PROVISIONING", "STOPPING"}
          /\ Return(Concluded([ReadyCond(Listed, FALSE) EXCEPT !.status.deleting =
                                 IF np.status = "STOPPING" THEN "present" ELSE @]))
       \/ np.status = "RECONCILING" /\ Return(Concluded(Updating(Listed, TRUE)))
       \/ np.status = "ERROR" /\ Return(Concluded(Listed))
       \/ CallFails(Concluded(ReadyCond(scope, FALSE)))
    /\ UNCHANGED np /\ Frame

\* What a running node pool is asked for, and what the pass saves.
Running == ReadyCond(Listed, TRUE)

update(changed) ==
    /\ At("NodePool") /\ np.status = "RUNNING"
    /\ \/ np' = [changed EXCEPT !.status = "RECONCILING"]
          /\ Return(Concluded(Updating(Running, TRUE)))
       \/ /\ np' \in {np, [changed EXCEPT !.status = "RECONCILING"]}
          /\ CallFails(Concluded(Running))
    /\ Frame

DesiredZones == IF want.locations = {} THEN np.zones ELSE want.locations

\* checkDiffAndPrepareUpdateConfig: locations that are set are compared as lists.
needUpdateConfig ==
    \/ np.config # want.config
    \/ want.locations # {} /\ (np.zones # want.locations \/ ~want.ordered)

updateNodePoolConfig ==
    /\ needUpdateConfig
    /\ update([np EXCEPT !.config = ReportedConfig(want.config), !.zones = DesiredZones])

\* ConvertToSdkAutoscaling: it is on unless it is turned off.
DesiredAutoscaling == IF want.scaling = "off" THEN "off" ELSE "on"

needUpdateAutoscaling == ~needUpdateConfig /\ np.autoscaling # DesiredAutoscaling

updateNodePoolAutoscaling ==
    /\ needUpdateAutoscaling
    /\ update([np EXCEPT !.autoscaling = ReportedScaling(DesiredAutoscaling)])

\* Faulty: the size is divided by the zones of a region.
DesiredCountOfRegion == want.size \div Cardinality(Zones)

\* The size in a zone; a remainder is lost.
DesiredCount == want.size \div Cardinality(np.zones)

\* checkDiffAndPrepareUpdateSize: not with autoscaling.
needUpdateSize ==
    /\ ~needUpdateConfig /\ ~needUpdateAutoscaling
    /\ DesiredAutoscaling = "off" /\ np.count # DesiredCount

updateNodePoolSize ==
    /\ needUpdateSize
    /\ update([np EXCEPT !.count = DesiredCount])

\* Nothing to change.
nodePoolReconciled ==
    /\ At("NodePool") /\ np.status = "RUNNING"
    /\ ~needUpdateConfig /\ ~needUpdateAutoscaling /\ ~needUpdateSize
    /\ Return(Concluded(Updating(Running, FALSE)))
    /\ UNCHANGED np /\ Frame

Gone(s) == [s EXCEPT !.status.deleting = "Deleted", !.finalizer = FALSE]

\* Faulty: a node pool in error is waited for too.
BusyOrBroken == {"PROVISIONING", "RECONCILING", "ERROR"}

\* A node pool that is being made or changed is waited for.
Busy == {"PROVISIONING", "RECONCILING"}

\* Delete: the finalizer goes when the node pool is not found, and any that is not busy
\* or stopping is deleted, in error too.
Delete ==
    /\ At("Delete")
    /\ LET asked == [scope EXCEPT !.status.deleting = "present"]
           stopping == [np EXCEPT !.status = "STOPPING"]
       IN  \/ np.status = "none" /\ Return(Concluded(Gone(scope))) /\ UNCHANGED np
           \/ np.status \in Busy /\ Return(Concluded(scope)) /\ UNCHANGED np
           \/ np.status = "STOPPING" /\ Return(Concluded(asked)) /\ UNCHANGED np
           \/ /\ np.status \notin Busy \cup {"none", "STOPPING"}
              /\ \/ np' = stopping /\ Return(Concluded(ReadyCond(asked, FALSE)))
                 \/ np' \in {np, stopping} /\ CallFails(Concluded(asked))
           \/ CallFails(Concluded(scope)) /\ UNCHANGED np
    /\ Frame

-----------------------------------------------------------------------------
(* Reconcile                                                               *)

\* Faulty: the finalizer is saved by the deferred Close only.
AddFinalizerLate ==
    /\ At("Finalizer")
    /\ Go("NodePool", [scope EXCEPT !.finalizer = TRUE])
    /\ UNCHANGED np /\ Frame

\* Reconcile returns early while the control plane is missing or not ready, in a
\* deletion too; what it notes in a condition then is not saved.
Reconcile ==
    /\ active /\ cp = "ready"
    /\ Begin(IF obj.deleting THEN "Delete" ELSE "Finalizer")
    /\ UNCHANGED np /\ Frame

SetFinalizer ==
    /\ AddFinalizer("NodePool")
    /\ np' = [np EXCEPT !.early = @ /\ ~obj'.finalizer]
    /\ Frame

Controller ==
    \/ Reconcile \/ SetFinalizer
    \/ createNodePool \/ observeNodePool
    \/ updateNodePoolConfig \/ updateNodePoolAutoscaling \/ updateNodePoolSize
    \/ nodePoolReconciled \/ Delete
    \/ Close /\ UNCHANGED np /\ Frame

-----------------------------------------------------------------------------
(* The environment                                                         *)

Edit == edits < MaxEdits /\ edits' = edits + 1

Crash == Fault /\ Stop /\ UNCHANGED <<obj, np>> /\ Frame

Release == ~active /\ active' = TRUE /\ UNCHANGED <<obj, pass, faults, edits, cp, np, terse>>

Pause == active /\ active' = FALSE /\ Edit /\ UNCHANGED <<obj, pass, faults, cp, np, terse>>

UserDeletes == UserDelete /\ UNCHANGED <<pass, faults, np>> /\ Frame

\* What the webhook admits of a change.
UserEdits ==
    /\ Edit /\ \E w \in Wants : UserEdit(w)
    /\ UNCHANGED <<pass, faults, active, cp, np, terse>>

\* The GKE cluster is made, with node pools for the pools that are there.
ClusterMade ==
    /\ cp = "absent" /\ cp' = "notready"
    /\ \/ ~obj.exists /\ UNCHANGED np
       \/ /\ obj.exists
          /\ np' \in {[n EXCEPT !.early = ~obj.finalizer] :
                        n \in {n \in NewNodePools(obj.want) : Even(obj.want)}}
    /\ UNCHANGED <<obj, pass, faults, edits, active, terse>>

ControlPlaneChanges ==
    /\ \/ cp = "notready" /\ cp' = "ready" /\ UNCHANGED edits
       \/ cp = "ready" /\ cp' = "notready" /\ Edit
    /\ UNCHANGED <<obj, pass, faults, active, np, terse>>

Spread(n) == n.count * Cardinality(n.zones)

\* GKE finishes what it was asked to do.  The autoscaler keeps the nodes it finds.
GKEFinishes ==
    /\ \/ /\ np.status \in {"PROVISIONING", "RECONCILING"}
          /\ np' = [np EXCEPT !.status = "RUNNING",
                              !.nodes = IF np.autoscaling = "on" THEN @ ELSE Spread(np)]
       \/ np.status = "STOPPING" /\ np' = NoNodePool
    /\ UNCHANGED <<obj, pass, faults>> /\ Frame

\* A node pool breaks, is repaired or upgraded by GKE, or is deleted by somebody else;
\* the autoscaler, whose limit is one node, changes its size.
GKEChanges ==
    /\ \/ /\ np.status \in {"PROVISIONING", "RUNNING", "RECONCILING"} /\ Edit
          /\ np' = [np EXCEPT !.status = "ERROR"]
       \/ /\ np.status = "RUNNING" /\ Edit
          /\ np' \in {[np EXCEPT !.status = s] : s \in {"RECONCILING", "STOPPING"}}
       \/ /\ np.status = "ERROR" /\ UNCHANGED edits
          /\ np' = [np EXCEPT !.status = "RECONCILING"]
       \/ /\ np.status = "RUNNING" /\ np.autoscaling = "on" /\ Edit
          /\ np' \in {[np EXCEPT !.nodes = n] : n \in {0, 1} \ {np.nodes}}
    /\ UNCHANGED <<obj, pass, faults, active, cp, terse>>

Environment ==
    \/ Crash \/ Release \/ Pause \/ UserDeletes \/ UserEdits
    \/ ClusterMade \/ ControlPlaneChanges \/ GKEFinishes \/ GKEChanges

Next == Controller \/ Environment

Spec == Init /\ [][Next]_vars

(* The controller's workers run, resyncs come, a pause ends, and GKE does its *)
(* work.  Nothing is assumed of users or of a node pool in error.             *)
Fairness ==
    /\ WF_vars(Controller) /\ WF_vars(Release) /\ WF_vars(ClusterMade) /\ WF_vars(GKEFinishes)

FairSpec == Spec /\ Fairness

-----------------------------------------------------------------------------
(* Properties                                                              *)

NodeCounts == 0..(MaxSize * Cardinality(Zones))

Statuses == [ready : BOOLEAN, readyCond : BOOLEAN, updating : BOOLEAN,
             deleting : {"absent", "present", "Deleted"}]

TypeOK ==
    /\ ObjectType(Wants, NodeCounts, Statuses)
    /\ PassType({"Idle", "Finalizer", "NodePool", "Delete", "Close"},
                Wants, NodeCounts, Statuses)
    /\ active \in BOOLEAN /\ terse \in BOOLEAN /\ cp \in {"absent", "notready", "ready"}
    /\ np \in [status : {"none", "PROVISIONING", "RUNNING", "RECONCILING", "STOPPING",
                         "ERROR"},
               count : 0..MaxSize, zones : SUBSET Zones, config : Configs \cup {0},
               autoscaling : {"none", "off", "on"}, nodes : NodeCounts, early : BOOLEAN]
    /\ faults \in 0..MaxFaults /\ edits \in 0..MaxEdits

\* A node pool is there only while the object and its finalizer are: the finalizer is
\* saved before the node pool is made and goes after it.  The exception is a node pool
\* that was made with the GKE cluster, before its controller could set the finalizer.
FinalizerGuards ==
    np.status # "none" => np.early \/ (obj.exists /\ obj.finalizer)

Undisturbed ==
    /\ obj.exists /\ ~obj.deleting /\ cp = "ready"
    /\ np.status # "ERROR"
    /\ np.status = "none" => Even(obj.want)

\* The node pool is what the object asks for, and says so.  Without autoscaling, it has
\* the replicas that are asked for when they can be spread over its zones.
Current ==
    /\ np.status = "RUNNING" /\ np.config = obj.want.config
    /\ obj.want.locations \in {{}, np.zones}
    /\ np.autoscaling = (IF obj.want.scaling = "off" THEN "off" ELSE "on")
    /\ np.autoscaling = "off" /\ obj.want.size % Cardinality(np.zones) = 0
          => np.nodes = obj.want.size
    /\ obj.spec = np.nodes /\ obj.status.ready /\ ~obj.status.updating

\* What is asked for is in the form in which GKE reports it.  Otherwise the node pool is
\* updated in every pass: the comparison takes another order of the locations, or an
\* empty value that GKE leaves out, for a difference, and nothing after it is reached.
Comparable ==
    /\ obj.want.locations # {} => obj.want.ordered
    /\ ReportedConfig(obj.want.config) = obj.want.config
    /\ obj.want.scaling = "off" => ReportedScaling("off") = "off"

\* Once nobody edits any more, the updates that are made one per pass bring the node
\* pool to what is asked for, whatever failed or was changed by GKE in between, and its
\* instances are published, provided that what is asked for can be compared.
RollsOut == <>[](Undisturbed /\ Comparable => Current)

\* A deleted pool goes, also when its node pool is in error, unless from some time on
\* its control plane is never ready again: every pass ends early then.
DeletionCompletes == obj.deleting ~> ~obj.exists \/ [](cp # "ready")

=============================================================================
