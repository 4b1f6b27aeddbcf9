-------------------------- MODULE GCPMachineProofs --------------------------
(***************************************************************************)
(* TLAPS proofs about GCPMachine, for every set of zones and machines and  *)
(* every bound on faults and edits: its types and its safety properties.   *)
(* The cluster is any that behaves as ClusterInfrastructure says, which    *)
(* GCPCluster is proved to do.                                             *)
(***************************************************************************)
EXTENDS GCPMachine, TLAPS, NaturalsInduction, WellFoundedInduction

\* The steps between the finalizer and Close, and those of a deletion.
Creating == {"Instance", "ListToAdd", "Register", "State"}

Removing == {"GetInstance", "ListToRemove", "Deregister", "DeleteInstance",
             "RemoveFinalizer"}

Runtime == INSTANCE ObjectControllerProofs WITH NoSpec <- 0

-----------------------------------------------------------------------------
(* Zones                                                                   *)

\* A set of zones that is not empty has a first one.
LEMMA FirstZone ==
    ASSUME NEW T, T \subseteq Zones, T # {}
    PROVE  \E m \in T : \A n \in T : m <= n
<1> DEFINE R == OpToRel(<, Nat)
<1>0. T \subseteq Nat
  BY MachineZones
<1>1. ASSUME NEW n \in Nat, NEW m \in Nat, n < m
      PROVE  <<n, m>> \in R
  BY <1>1, Zenon DEF OpToRel
<1>2. IsWellFoundedOn(R, Nat)
  BY NatLessThanWellFounded
<1> HIDE DEF R
<1>3. PICK m \in T : \A n \in T : ~ (<<n, m>> \in R)
  BY <1>0, <1>2, WFMin
<1>4. ASSUME NEW n \in T PROVE m <= n
  <2>1. ~ (<<n, m>> \in R)
    BY <1>3
  <2>2. m \in Nat /\ n \in Nat
    BY <1>0
  <2>3. ~ (n < m)
    BY <2>1, <2>2, <1>1
  <2> QED BY <2>2, <2>3
<1> QED BY <1>4

\* Zone returns a zone of the region or the empty name; for a machine with a failure
\* domain, that.
LEMMA ZoneInType ==
    ASSUME conf \in Config, NEW fds \in SUBSET Zones
    PROVE  /\ ZoneIn(fds) \in Zones \cup {0}
           /\ conf.failureDomain # 0 => ZoneIn(fds) = conf.failureDomain
<1>1. CASE conf.failureDomain # 0
  BY <1>1 DEF ZoneIn, Config
<1>2. CASE conf.failureDomain = 0 /\ fds = {}
  BY <1>2 DEF ZoneIn
<1>3. CASE conf.failureDomain = 0 /\ fds # {}
  <2>1. \E z \in fds : \A y \in fds : z <= y
    BY <1>3, FirstZone
  <2>2. (CHOOSE z \in fds : \A y \in fds : z <= y) \in fds
    BY <2>1
  <2> QED BY <1>3, <2>2 DEF ZoneIn
<1> QED BY <1>1, <1>2, <1>3

-----------------------------------------------------------------------------
(* Types                                                                   *)

Statuses == [ready : BOOLEAN, instanceStatus : InstanceStatus, failureReason : BOOLEAN]

\* Every copy of the object is one.
LEMMA TypedObjects ==
    TypeOK => Runtime!Typed(Zones \cup {0}, Statuses)
BY DEF TypeOK, Object, Statuses, Runtime!Typed, Runtime!Objects, NoStatus, InstanceStatus

LEMMA NoObjectType == NoObject \in Object
BY DEF NoObject, NoStatus, Object, InstanceStatus

LEMMA StatusDomain ==
    DOMAIN NoStatus = {"ready", "instanceStatus", "failureReason"}
BY DEF NoStatus

\* The status patch writes a status.
LEMMA PatchedStatusType ==
    ASSUME TypeOK
    PROVE  PatchedStatus(obj) \in Object
<1> DEFINE s == [f \in DOMAIN NoStatus |->
                   IF local.status[f] # before.status[f] THEN local.status[f]
                   ELSE obj.status[f]]
<1>1. obj \in Object /\ local \in Object /\ before \in Object
  BY DEF TypeOK
<1>2. s = [ready |-> s.ready, instanceStatus |-> s.instanceStatus,
           failureReason |-> s.failureReason]
  BY StatusDomain
<1>3. /\ s.ready \in BOOLEAN /\ s.instanceStatus \in InstanceStatus
      /\ s.failureReason \in BOOLEAN
  BY <1>1, StatusDomain DEF Object
<1>4. s \in Statuses
  BY <1>2, <1>3 DEF Statuses
<1> HIDE DEF s
<1>5. PatchedStatus(obj) = [obj EXCEPT !.status = s]
  BY DEF PatchedStatus, s
<1> QED BY <1>1, <1>4, <1>5 DEF Object, Statuses

\* What a step leaves, as far as types go.
LEMMA ObjectTypes ==
    ASSUME TypeOK
    PROVE  /\ Settle([obj EXCEPT !.deleting = TRUE]) \in Object
           /\ [obj EXCEPT !.reconcilable = TRUE] \in Object
           /\ [obj EXCEPT !.reconcilable = FALSE] \in Object
           /\ [obj EXCEPT !.finalizer = TRUE] \in Object
           /\ [local EXCEPT !.finalizer = TRUE] \in Object
           /\ [local EXCEPT !.finalizer = FALSE] \in Object
           /\ [local EXCEPT !.status.ready = TRUE] \in Object
           /\ [local EXCEPT !.status.failureReason = TRUE] \in Object
           /\ Patched(obj) \in Object
<1>1. obj \in Object /\ local \in Object /\ before \in Object
  BY DEF TypeOK
<1>2. Settle([obj EXCEPT !.deleting = TRUE]) \in Object
  BY <1>1, NoObjectType DEF Settle, Object
<1>3. Patched(obj) \in Object
  BY <1>1, NoObjectType DEF Patched, Settle, Object
<1> QED BY <1>1, <1>2, <1>3 DEF Object

\* The patch of metadata and spec ends the object, or writes what the pass changed.
LEMMA PatchedFields ==
    ASSUME TypeOK
    PROVE  \/ Patched(obj) = NoObject
           \/ /\ Patched(obj).spec = (IF local.spec # before.spec THEN local.spec
                                      ELSE obj.spec)
              /\ Patched(obj).status = obj.status
              /\ Patched(obj).exists = obj.exists
BY DEF TypeOK, Patched, Settle, Object

LEMMA InitType == Init => TypeOK
<1> SUFFICES ASSUME Init PROVE TypeOK
  OBVIOUS
<1>1. obj \in Object
  BY DEF Init, ObjectInit, NoObject, NoStatus, Object, InstanceStatus
<1>2. /\ cluster \in Cluster /\ groups \subseteq Zones
      /\ seen \in [exists : BOOLEAN, fds : SUBSET Zones]
  BY DEF Init, Infrastructure!CInit, Cluster, View
<1>3. inst \in [Zones -> InstanceStatus]
  BY DEF Init, InstanceStatus
<1>4. faults \in 0..MaxFaults /\ edits \in 0..MaxEdits
  BY MachineBounds DEF Init, ObjectInit
<1> QED BY <1>1, <1>2, <1>3, <1>4, NoObjectType DEF Init, ObjectInit, TypeOK, Steps

\* What the runtime's part of a step leaves, as far as types go.
PassTypes ==
    /\ obj \in Object /\ cache \in Object /\ before \in Object /\ local \in Object
    /\ queued \in BOOLEAN /\ failed \in BOOLEAN
    /\ pc \in Steps
    /\ faults \in 0..MaxFaults /\ edits \in 0..MaxEdits

CloudTypes ==
    /\ listed \in BOOLEAN /\ lost \in BOOLEAN
    /\ conf \in Machines /\ bootstrap \in BOOLEAN
    /\ cluster \in Cluster /\ seen \in [exists : BOOLEAN, fds : SUBSET Zones]
    /\ groups \subseteq Zones /\ zone \in Zones \cup {0}
    /\ inst \in [Zones -> InstanceStatus]
    /\ members \subseteq groups \cap Instances

LEMMA TypeParts == TypeOK <=> PassTypes /\ CloudTypes
BY DEF TypeOK, PassTypes, CloudTypes

\* Counters stay within their bounds.
LEMMA CountTypes ==
    ASSUME TypeOK
    PROVE  /\ Fault => faults' \in 0..MaxFaults
           /\ NoFault => faults' \in 0..MaxFaults
           /\ Edit => edits' \in 0..MaxEdits
BY MachineBounds DEF TypeOK, Fault, NoFault, Edit

\* A step of the runtime keeps the types.
LEMMA RuntimeTypes ==
    ASSUME TypeOK,
           \/ ReconcileIgnored(seen.exists) \/ ReconcileFails
           \/ AddFinalizer("Instance") \/ RemoveFinalizer \/ ClosePatch \/ CloseStatus
           \/ UserDelete \/ Release \/ Pause \/ CacheSync \/ Crash
    PROVE  PassTypes'
<1> USE ObjectTypes, CountTypes, NoObjectType DEF Steps
<1>1. CASE ReconcileIgnored(seen.exists)
  BY <1>1 DEF ReconcileIgnored, Dequeue, TypeOK, PassTypes
<1>2. CASE ReconcileFails
  BY <1>2 DEF ReconcileFails, TypeOK, PassTypes
<1>3. CASE AddFinalizer("Instance")
  BY <1>3 DEF AddFinalizer, TypeOK, PassTypes
<1>4. CASE RemoveFinalizer
  BY <1>4 DEF RemoveFinalizer, Return, StepFrame, TypeOK, PassTypes
<1>5. CASE ClosePatch
  BY <1>5 DEF ClosePatch, TypeOK, PassTypes
<1>6. CASE CloseStatus
  BY <1>6, PatchedStatusType DEF CloseStatus, Ended, TypeOK, PassTypes
<1>7. CASE UserDelete \/ Release \/ Pause
  BY <1>7 DEF UserDelete, Release, Pause, ClientFrame, TypeOK, PassTypes
<1>8. CASE CacheSync
  BY <1>8 DEF CacheSync, TypeOK, PassTypes
<1>9. CASE Crash
  BY <1>9 DEF Crash, Ended, TypeOK, PassTypes
<1> QED BY <1>1, <1>2, <1>3, <1>4, <1>5, <1>6, <1>7, <1>8, <1>9

\* The ways in which a step of a service ends.
LEMMA StepTypes ==
    ASSUME TypeOK, NEW next \in Steps, NEW scope \in Object,
           \/ Continue(next, scope) \/ Return(TRUE, scope) \/ Return(FALSE, scope)
           \/ Refuse \/ CallFails
    PROVE  PassTypes'
BY CountTypes DEF Continue, Return, Refuse, CallFails, ReturnError, StepFrame, TypeOK,
                  PassTypes, Steps

\* Insert leaves what was there, or one instance more.
LEMMA InsertedTypes ==
    ASSUME TypeOK, Instantiable, inst' \in Inserted
    PROVE  /\ zone \in Zones
           /\ inst' \in [Zones -> InstanceStatus]
           /\ inst'[zone] \in InstanceStatus \ {"none"}
           /\ \A z \in Zones \ {zone} : inst'[z] = inst[z]
           /\ Instances' = Instances \cup {zone}
<1>1. zone \in Zones /\ inst \in [Zones -> InstanceStatus]
  BY DEF TypeOK, Instantiable
<1>2. CASE inst[zone] # "none"
  BY <1>1, <1>2 DEF Inserted, Instances
<1>3. CASE inst[zone] = "none"
  <2>1. PICK s \in {"PROVISIONING", "RUNNING"} : inst' = [inst EXCEPT ![zone] = s]
    BY <1>3 DEF Inserted
  <2> QED BY <1>1, <2>1 DEF Instances, InstanceStatus
<1> QED BY <1>2, <1>3

\* A deleted instance is in no group.
LEMMA DeletedTypes ==
    ASSUME TypeOK, NEW z \in Zones \cup {0}, InstanceDeleted(z)
    PROVE  /\ inst' \in [Zones -> InstanceStatus]
           /\ Instances' = Instances \ {z}
           /\ members' = members \ {z}
BY MachineZones DEF TypeOK, InstanceDeleted, Instances, InstanceStatus

\* The steps of the instances service and the decision after it keep the types.
LEMMA ServiceTypes ==
    ASSUME TypeOK,
           \/ createOrGetInstance \/ listToRegister \/ registerControlPlaneInstance
           \/ SetState
           \/ getInstance \/ listToDeregister \/ deregisterControlPlaneInstance
           \/ deleteInstance
    PROVE  TypeOK'
<1> USE DEF Steps
<1>0. local \in Object /\ zone \in Zones \cup {0}
  BY DEF TypeOK
<1>1. CASE createOrGetInstance
  <2>1. CASE Instantiable /\ inst' \in Inserted
    <3>1. inst' \in [Zones -> InstanceStatus] /\ Instances \subseteq Instances'
          /\ zone \in Zones /\ inst'[zone] \in InstanceStatus
      BY <2>1, InsertedTypes
    <3>2. [local EXCEPT !.spec = zone, !.status.instanceStatus = inst'[zone]] \in Object
      BY <1>0, <3>1 DEF Object
    <3>3. AfterInstance \in Steps
      BY DEF AfterInstance
    <3>4. PassTypes'
      BY <1>1, <2>1, <3>2, <3>3, StepTypes DEF createOrGetInstance
    <3>5. CloudTypes'
      BY <1>1, <3>1 DEF createOrGetInstance, CallFrame, clusterVars, TypeOK, CloudTypes
    <3> QED BY <3>4, <3>5, TypeParts, PTL
  <2>2. CASE inst' = inst /\ (Refuse \/ CallFails)
    <3>1. PassTypes'
      BY <1>0, <2>2, StepTypes
    <3>2. CloudTypes'
      BY <1>1, <2>2 DEF createOrGetInstance, CallFrame, clusterVars, TypeOK, CloudTypes,
                        Instances
    <3> QED BY <3>1, <3>2, TypeParts, PTL
  <2> QED BY <1>1, <2>1, <2>2 DEF createOrGetInstance
<1>2. CASE listToRegister \/ listToDeregister
  <2>1. PassTypes'
    BY <1>0, <1>2, StepTypes DEF listToRegister, listToDeregister
  <2>2. CloudTypes'
    BY <1>2 DEF listToRegister, listToDeregister, Listed, cloudVars, clusterVars, CallFrame,
                TypeOK, CloudTypes, Instances
  <2> QED BY <2>1, <2>2, TypeParts, PTL
<1>3. CASE registerControlPlaneInstance
  <2>1. PassTypes'
    BY <1>0, <1>3, StepTypes DEF registerControlPlaneInstance
  <2>2. members' \subseteq members \cup (groups \cap Instances)
    BY <1>3 DEF registerControlPlaneInstance, Addable
  <2>3. CloudTypes'
    BY <1>3, <2>2 DEF registerControlPlaneInstance, clusterVars, CallFrame, TypeOK,
                      CloudTypes, Instances
  <2> QED BY <2>1, <2>3, TypeParts, PTL
<1>4. CASE SetState \/ getInstance
  <2>1. PassTypes'
    BY <1>0, <1>4, StepTypes, ObjectTypes DEF SetState, getInstance
  <2>2. CloudTypes'
    BY <1>4 DEF SetState, getInstance, cloudVars, clusterVars, CallFrame, TypeOK, CloudTypes,
                Instances
  <2> QED BY <2>1, <2>2, TypeParts, PTL
<1>5. CASE deregisterControlPlaneInstance
  <2>1. PassTypes'
    BY <1>0, <1>5, StepTypes DEF deregisterControlPlaneInstance
  <2>2. members' \subseteq members
    BY <1>5 DEF deregisterControlPlaneInstance
  <2>3. CloudTypes'
    BY <1>5, <2>2 DEF deregisterControlPlaneInstance, clusterVars, CallFrame, TypeOK,
                      CloudTypes, Instances
  <2> QED BY <2>1, <2>3, TypeParts, PTL
<1>6. CASE deleteInstance
  <2>1. PassTypes'
    BY <1>0, <1>6, StepTypes DEF deleteInstance
  <2>2. \/ UNCHANGED cloudVars
        \/ /\ inst' \in [Zones -> InstanceStatus] /\ Instances' = Instances \ {zone}
           /\ members' = members \ {zone}
    BY <1>0, <1>6, DeletedTypes DEF deleteInstance
  <2>3. CloudTypes'
    BY <1>6, <2>2 DEF deleteInstance, cloudVars, clusterVars, CallFrame, TypeOK, CloudTypes,
                      Instances
  <2> QED BY <2>1, <2>3, TypeParts, PTL
<1> QED BY <1>1, <1>2, <1>3, <1>4, <1>5, <1>6

\* The cluster changes as ClusterInfrastructure says.
LEMMA ClusterMoves ==
    ASSUME TypeOK, Infrastructure!CNext
    PROVE  /\ cluster' \in Cluster /\ groups' \subseteq Zones
           /\ cluster'.exists => cluster.exists
           /\ cluster.deleting => cluster'.deleting \/ ~cluster'.exists
           /\ groups \subseteq groups' \/ cluster.deleting \/ ~cluster.exists
<1> USE DEF TypeOK, Cluster
<1>1. CASE Infrastructure!SetDomains
  BY <1>1 DEF Infrastructure!SetDomains
<1>2. CASE Infrastructure!CreateGroup
  BY <1>2 DEF Infrastructure!CreateGroup
<1>3. CASE Infrastructure!RequestDelete
  BY <1>3 DEF Infrastructure!RequestDelete
<1>4. CASE Infrastructure!DeleteGroup
  BY <1>4 DEF Infrastructure!DeleteGroup
<1>5. CASE Infrastructure!Disappear
  BY <1>5 DEF Infrastructure!Disappear, Infrastructure!NoCluster
<1> QED BY <1>1, <1>2, <1>3, <1>4, <1>5 DEF Infrastructure!CNext

\* So do the steps of the environment that leave the pass alone.
LEMMA OutsideTypes ==
    ASSUME TypeOK,
           BootstrapReady \/ ClusterChanges \/ InstanceRuns \/ InstanceBreaks
           \/ InstanceVanishes
    PROVE  TypeOK'
<1>1. PassTypes'
  BY CountTypes DEF BootstrapReady, ClusterChanges, InstanceRuns, InstanceBreaks,
     InstanceVanishes, OutsideFrame, ClientFrame, TypeOK, PassTypes
<1>2. ASSUME BootstrapReady PROVE CloudTypes'
  BY <1>2 DEF BootstrapReady, OutsideFrame, clusterVars, cloudVars, TypeOK, CloudTypes,
              Instances
<1>3. ASSUME ClusterChanges PROVE CloudTypes'
  BY <1>3, ClusterMoves DEF ClusterChanges, OutsideFrame, TypeOK, CloudTypes, Instances
<1>4. ASSUME InstanceRuns \/ InstanceBreaks PROVE CloudTypes'
  <2>1. PICK z \in Instances, s \in {"RUNNING", "REPAIRING"} : inst' = [inst EXCEPT ![z] = s]
    BY <1>4 DEF InstanceRuns, InstanceBreaks
  <2>2. inst' \in [Zones -> InstanceStatus] /\ Instances' = Instances
    BY <2>1 DEF TypeOK, Instances, InstanceStatus
  <2> QED BY <1>4, <2>2 DEF InstanceRuns, InstanceBreaks, OutsideFrame, clusterVars, TypeOK,
                            CloudTypes
<1>5. ASSUME InstanceVanishes PROVE CloudTypes'
  <2>1. PICK z \in Instances : InstanceDeleted(z)
    BY <1>5 DEF InstanceVanishes
  <2>2. inst' \in [Zones -> InstanceStatus] /\ Instances' = Instances \ {z}
        /\ members' = members \ {z}
    BY <2>1, DeletedTypes DEF Instances
  <2> QED BY <1>5, <2>2 DEF InstanceVanishes, OutsideFrame, clusterVars, TypeOK, CloudTypes
<1>6. CloudTypes'
  BY <1>2, <1>3, <1>4, <1>5
<1> QED BY <1>1, <1>6, TypeParts, PTL

LEMMA NextType == TypeOK /\ [Next]_vars => TypeOK'
<1> SUFFICES ASSUME TypeOK, [Next]_vars PROVE TypeOK'
  OBVIOUS
<1>1. CASE /\ \/ ReconcileIgnored(seen.exists) \/ ReconcileFails
              \/ AddFinalizer("Instance") \/ RemoveFinalizer \/ ClosePatch
              \/ UserDelete \/ Release \/ Pause \/ CacheSync
           /\ UNCHANGED <<cloudVars, listed>> /\ CallFrame
  <2>1. PassTypes'
    BY <1>1, RuntimeTypes
  <2>2. CloudTypes'
    BY <1>1 DEF CallFrame, cloudVars, clusterVars, TypeOK, CloudTypes, Instances
  <2> QED BY <2>1, <2>2, TypeParts, PTL
<1>2. CASE Reconcile
  <2>1. PassTypes'
    BY <1>2 DEF Reconcile, StartPass, Dequeue, TypeOK, PassTypes, Steps
  <2>2. zone' \in Zones \cup {0}
    BY <1>2, ZoneInType, MachineConfigs DEF Reconcile, TypeOK
  <2>3. CloudTypes'
    BY <1>2, <2>2 DEF Reconcile, cloudVars, clusterVars, TypeOK, CloudTypes, Instances
  <2> QED BY <2>1, <2>3, TypeParts, PTL
<1>3. CASE \/ createOrGetInstance \/ listToRegister \/ registerControlPlaneInstance
           \/ SetState
           \/ getInstance \/ listToDeregister \/ deregisterControlPlaneInstance
           \/ deleteInstance
  BY <1>3, ServiceTypes
<1>4. CASE CloseStatus /\ PassEnds
  <2>1. PassTypes'
    BY <1>4, RuntimeTypes
  <2>2. CloudTypes'
    BY <1>4 DEF PassEnds, cloudVars, clusterVars, TypeOK, CloudTypes, Instances
  <2> QED BY <2>1, <2>2, TypeParts, PTL
<1>5. CASE Crash /\ seen' = View /\ zone' = 0 /\ listed' = FALSE
           /\ UNCHANGED <<clusterVars, cloudVars, conf, bootstrap, lost>>
  <2>1. PassTypes'
    BY <1>5, RuntimeTypes
  <2>2. CloudTypes'
    BY <1>5 DEF View, Cluster, cloudVars, clusterVars, TypeOK, CloudTypes, Instances
  <2> QED BY <2>1, <2>2, TypeParts, PTL
<1>6. CASE BootstrapReady \/ ClusterChanges \/ InstanceRuns \/ InstanceBreaks
           \/ InstanceVanishes
  BY <1>6, OutsideTypes
<1>7. CASE ClusterSync
  BY <1>7 DEF ClusterSync, View, Cluster, cloudVars, clusterVars, TypeOK, Instances
<1>8. CASE UNCHANGED vars
  BY <1>8 DEF vars, passVars, cloudVars, clusterVars, TypeOK, Instances
<1> QED BY <1>1, <1>2, <1>3, <1>4, <1>5, <1>6, <1>7, <1>8
        DEF Next, Controller, Environment, ClientsFrame

\* Every state of the machine's controller is well formed; in particular an instance
\* group has a member only in a zone that has both the group and the instance.
THEOREM TypeCorrect == Spec => []TypeOK
BY InitType, NextType, PTL DEF Spec

-----------------------------------------------------------------------------
(* The controller is built on ObjectController                             *)

LEMMA StepNamesDiffer == Runtime!StepNames
BY DEF Runtime!StepNames, Creating, Removing

\* A step of the instances service, and what it may change of the pass.
LEMMA ServiceWork ==
    ASSUME TypeOK,
           \/ createOrGetInstance \/ listToRegister \/ registerControlPlaneInstance
           \/ SetState
           \/ getInstance \/ listToDeregister \/ deregisterControlPlaneInstance
           \/ deleteInstance
    PROVE  Runtime!Work
<1> USE DEF Creating, Removing, Runtime!Work
<1>0. local \in Object
  BY DEF TypeOK
<1>1. ASSUME Refuse \/ CallFails, pc \in Creating \cup Removing
      PROVE  Runtime!Work
  BY <1>1 DEF Refuse, CallFails, ReturnError, StepFrame
<1>2. ASSUME NEW next, NEW scope,
             \/ Continue(next, scope)
             \/ next = "ClosePatch" /\ (Return(TRUE, scope) \/ Return(FALSE, scope)),
             scope.finalizer = local.finalizer, scope.deleting = local.deleting,
             \/ pc \in Creating /\ next \in {"ClosePatch"} \cup Creating
             \/ pc \in Removing /\ next \in {"ClosePatch"} \cup Removing
      PROVE  Runtime!Work
  BY <1>2 DEF Continue, Return, StepFrame
<1>3. CASE createOrGetInstance
  <2> DEFINE scope == [local EXCEPT !.spec = zone, !.status.instanceStatus = inst'[zone]]
  <2>1. scope.finalizer = local.finalizer /\ scope.deleting = local.deleting
    BY <1>0 DEF Object
  <2>2. pc = "Instance" /\ (Continue(AfterInstance, scope) \/ Refuse \/ CallFails)
    BY <1>3 DEF createOrGetInstance
  <2> HIDE DEF scope
  <2> QED BY <1>1, <1>2, <2>1, <2>2 DEF AfterInstance
<1>4. CASE listToRegister \/ registerControlPlaneInstance
  BY <1>1, <1>2, <1>4 DEF listToRegister, registerControlPlaneInstance
<1>5. CASE SetState
  <2> DEFINE ready == [local EXCEPT !.status.ready = TRUE]
             broken == [local EXCEPT !.status.failureReason = TRUE]
  <2>1. /\ ready.finalizer = local.finalizer /\ ready.deleting = local.deleting
        /\ broken.finalizer = local.finalizer /\ broken.deleting = local.deleting
    BY <1>0 DEF Object
  <2>2. pc = "State" /\ (Return(TRUE, local) \/ Return(FALSE, ready) \/ Return(TRUE, broken))
    BY <1>5 DEF SetState
  <2> HIDE DEF ready, broken
  <2>3. pc \in Creating /\ UNCHANGED <<obj, cache, before>> /\ pc' = "ClosePatch"
        /\ local' \in {local, ready, broken}
    BY <2>2 DEF Return, StepFrame
  <2> QED BY <2>1, <2>3
<1>6. CASE getInstance \/ listToDeregister \/ deregisterControlPlaneInstance
           \/ deleteInstance
  BY <1>1, <1>2, <1>6 DEF getInstance, listToDeregister, deregisterControlPlaneInstance,
                          deleteInstance
<1> QED BY <1>3, <1>4, <1>5, <1>6

\* Every step is one of a controller built on ObjectController.
LEMMA NextIsStep ==
    ASSUME TypeOK, [Next]_vars
    PROVE  Runtime!Step
<1> USE DEF Runtime!Step
<1>1. CASE ReconcileIgnored(seen.exists) \/ ReconcileFails \/ ClusterSync
           \/ BootstrapReady \/ ClusterChanges \/ InstanceRuns \/ InstanceBreaks
           \/ InstanceVanishes \/ UNCHANGED vars
  BY <1>1 DEF ReconcileIgnored, ReconcileFails, ClusterSync, BootstrapReady, ClusterChanges,
     InstanceRuns, InstanceBreaks, InstanceVanishes, OutsideFrame, ClientFrame, vars,
     passVars, Runtime!Elsewhere
<1>2. CASE AddFinalizer("Instance")
  <2>1. Runtime!AddFinalizer("Instance")
    BY <1>2 DEF AddFinalizer, Fault, NoFault, Runtime!AddFinalizer, Runtime!Fault,
                Runtime!NoFault
  <2> QED BY <2>1 DEF Creating
<1>3. CASE RemoveFinalizer
  BY <1>3 DEF RemoveFinalizer, Return, NoFault, StepFrame, Runtime!RemoveFinalizer,
              Runtime!Return, Runtime!NoFault, Runtime!StepFrame
<1>4. CASE ClosePatch
  BY <1>4 DEF ClosePatch, PatchChanged, Patched, Settle, NoObject, Fault, NoFault,
              Runtime!ClosePatch, Runtime!PatchChanged, Runtime!Patched, Runtime!Settle,
              Runtime!NoObject, Runtime!Fault, Runtime!NoFault
<1>5. CASE CloseStatus
  BY <1>5 DEF CloseStatus, Ended, StatusChanged, PatchedStatus, NoObject, Fault, NoFault,
              Runtime!CloseStatus, Runtime!Ended, Runtime!StatusChanged,
              Runtime!PatchedStatus, Runtime!NoObject, Runtime!Fault, Runtime!NoFault
<1>6. CASE UserDelete \/ Release \/ Pause
  BY <1>6 DEF UserDelete, Release, Pause, Settle, NoObject, Edit, ClientFrame,
              Runtime!UserDelete, Runtime!Release, Runtime!Pause, Runtime!Settle,
              Runtime!NoObject, Runtime!Edit, Runtime!ClientFrame
<1>7. CASE CacheSync
  BY <1>7 DEF CacheSync, Runtime!Watch
<1>8. CASE Crash
  BY <1>8 DEF Crash, Fault, Ended, NoObject, Runtime!Crash, Runtime!Fault, Runtime!Ended,
              Runtime!NoObject
<1>9. CASE Reconcile
  BY <1>9 DEF Reconcile, StartPass, Dequeue, Runtime!Begin, Removing
<1>10. CASE \/ createOrGetInstance \/ listToRegister \/ registerControlPlaneInstance
            \/ SetState
            \/ getInstance \/ listToDeregister \/ deregisterControlPlaneInstance
            \/ deleteInstance
  BY <1>10, ServiceWork
<1> QED BY <1>1, <1>2, <1>3, <1>4, <1>5, <1>6, <1>7, <1>8, <1>9, <1>10
        DEF Next, Controller, Environment

\* What the runtime guarantees holds for machines.
LEMMA RuntimeCorrect == Spec => []Runtime!RuntimeInv
<1>1. Init => Runtime!RuntimeInv
  BY StepNamesDiffer, Runtime!RuntimeInit
     DEF Init, ObjectInit, NoObject, Runtime!ObjectInit, Runtime!NoObject
<1>2. TypeOK /\ TypeOK' /\ Runtime!RuntimeInv /\ [Next]_vars => Runtime!RuntimeInv'
  <2> SUFFICES ASSUME TypeOK, TypeOK', Runtime!RuntimeInv, [Next]_vars
               PROVE  Runtime!RuntimeInv'
    OBVIOUS
  <2>1. Runtime!Typed(Zones \cup {0}, Statuses)
    BY TypedObjects
  <2>2. Runtime!Typed(Zones \cup {0}, Statuses)'
    BY TypedObjects, PTL
  <2> QED BY <2>1, <2>2, StepNamesDiffer, NextIsStep, Runtime!RuntimeStep
<1> QED BY <1>1, <1>2, TypeCorrect, PTL DEF Spec

-----------------------------------------------------------------------------
(* What a step may do to the zone, the instances and the groups            *)

\* The zone is read when a pass starts and stays for the pass.
ZoneMoves ==
    /\ conf' = conf
    /\ \/ pc' = "Idle"
       \/ pc = "Idle" /\ seen.exists /\ seen' = seen /\ zone' = ZoneIn(seen.fds)
       \/ pc # "Idle" /\ zone' = zone

\* An instance is made only at the step that makes it, and goes only in a deletion
\* pass or behind the controller's back; it leaves its group only then or with the group.
CloudMoves ==
    /\ \/ Instances' \subseteq Instances
       \/ pc = "Instance" /\ zone \in Zones /\ Instances' = Instances \cup {zone}
    /\ Instances \subseteq Instances' \/ lost' \/ pc \in Removing
    /\ members \subseteq members' \/ lost' \/ pc \in Removing
            \/ cluster.deleting \/ ~cluster.exists
    /\ lost => lost'
    /\ cluster'.exists => cluster.exists
    /\ cluster.deleting => cluster'.deleting \/ ~cluster'.exists

LEMMA NextMoves ==
    ASSUME TypeOK, [Next]_vars
    PROVE  ZoneMoves /\ CloudMoves
<1> USE DEF ZoneMoves, CloudMoves
<1>1. CASE \/ /\ \/ ReconcileIgnored(seen.exists) \/ ReconcileFails
                 \/ AddFinalizer("Instance") \/ RemoveFinalizer \/ ClosePatch
                 \/ UserDelete \/ Release \/ Pause \/ CacheSync
              /\ UNCHANGED <<cloudVars, listed>> /\ CallFrame
  <2>1. pc' = "Idle" \/ pc # "Idle"
    BY <1>1 DEF ReconcileIgnored, Dequeue, ReconcileFails, AddFinalizer, RemoveFinalizer,
                ClosePatch, UserDelete, Release, Pause, CacheSync, ClientFrame
  <2> QED BY <1>1, <2>1 DEF CallFrame, cloudVars, clusterVars, Instances
<1>2. CASE Reconcile
  BY <1>2 DEF Reconcile, StartPass, Dequeue, cloudVars, clusterVars, Instances
<1>3. CASE createOrGetInstance
  <2>1. CASE Instantiable /\ inst' \in Inserted
    <3>1. zone \in Zones /\ Instances' = Instances \cup {zone}
      BY <2>1, InsertedTypes
    <3> QED BY <1>3, <3>1 DEF createOrGetInstance, CallFrame, clusterVars
  <2>2. CASE inst' = inst
    BY <1>3, <2>2 DEF createOrGetInstance, CallFrame, clusterVars, Instances
  <2> QED BY <1>3, <2>1, <2>2 DEF createOrGetInstance
<1>4. CASE listToRegister \/ registerControlPlaneInstance \/ SetState
  <2>1. pc # "Idle" /\ members \subseteq members' /\ inst' = inst
        /\ UNCHANGED <<conf, zone, lost, cluster>>
    BY <1>4 DEF listToRegister, registerControlPlaneInstance, SetState, CallFrame, cloudVars,
                clusterVars
  <2> QED BY <2>1 DEF Instances
<1>5. CASE getInstance \/ listToDeregister \/ deregisterControlPlaneInstance
  BY <1>5 DEF getInstance, listToDeregister, deregisterControlPlaneInstance, CallFrame,
              cloudVars, clusterVars, Instances, Removing
<1>6. CASE deleteInstance
  <2>1. Instances' \subseteq Instances
    BY <1>6, DeletedTypes DEF deleteInstance, cloudVars, Instances, TypeOK
  <2> QED BY <1>6, <2>1 DEF deleteInstance, CallFrame, clusterVars, Removing
<1>7. CASE CloseStatus /\ PassEnds
  BY <1>7 DEF CloseStatus, Ended, PassEnds, cloudVars, clusterVars, Instances
<1>8. CASE Crash /\ seen' = View /\ zone' = 0 /\ listed' = FALSE
           /\ UNCHANGED <<clusterVars, cloudVars, conf, bootstrap, lost>>
  BY <1>8 DEF Crash, Ended, cloudVars, clusterVars, Instances
<1>9. CASE ClusterChanges
  <2>1. groups \subseteq groups' \/ cluster.deleting \/ ~cluster.exists
    BY <1>9, ClusterMoves DEF ClusterChanges
  <2>2. members \subseteq groups
    BY DEF TypeOK
  <2> QED BY <1>9, <2>1, <2>2, ClusterMoves
          DEF ClusterChanges, OutsideFrame, ClientFrame, Instances
<1>10. CASE InstanceRuns \/ InstanceBreaks
  <2>1. PICK z \in Instances, st \in {"RUNNING", "REPAIRING"} :
            inst' = [inst EXCEPT ![z] = st]
    BY <1>10 DEF InstanceRuns, InstanceBreaks
  <2>2. Instances' = Instances
    BY <2>1 DEF TypeOK, Instances
  <2> QED BY <1>10, <2>2 DEF InstanceRuns, InstanceBreaks, OutsideFrame, ClientFrame,
                             clusterVars
<1>11. CASE InstanceVanishes
  <2>1. PICK z \in Instances : InstanceDeleted(z)
    BY <1>11 DEF InstanceVanishes
  <2>2. Instances' = Instances \ {z}
    BY <2>1, DeletedTypes DEF Instances
  <2> QED BY <1>11, <2>2 DEF InstanceVanishes, OutsideFrame, ClientFrame, clusterVars
<1>12. CASE BootstrapReady \/ ClusterSync \/ UNCHANGED vars
  BY <1>12 DEF BootstrapReady, ClusterSync, OutsideFrame, ClientFrame, vars, passVars,
               cloudVars, clusterVars, Instances
<1> QED BY <1>1, <1>2, <1>3, <1>4, <1>5, <1>6, <1>7, <1>8, <1>9, <1>10, <1>11, <1>12
        DEF Next, Controller, Environment, ClientsFrame

-----------------------------------------------------------------------------
(* FinalizerGuards                                                         *)

\* A machine with a failure domain is only ever in that zone, its instance is there
\* only behind the persisted finalizer, and a pass drops the finalizer only after it
\* has found the zone without the instance.
GuardInv ==
    Pinned =>
        /\ pc # "Idle" => zone = conf.failureDomain
        /\ Instances \subseteq {conf.failureDomain}
        /\ Instances # {} => obj.finalizer
        /\ pc = "RemoveFinalizer" => Instances = {}
        /\ before.finalizer /\ ~local.finalizer => Instances = {}

LEMMA GuardInit == Init => GuardInv
BY DEF Init, ObjectInit, GuardInv, NoObject, Instances

LEMMA GuardStep ==
    ASSUME TypeOK, TypeOK', Runtime!RuntimeInv, GuardInv, [Next]_vars
    PROVE  GuardInv'
<1>0. /\ ZoneMoves /\ CloudMoves /\ Runtime!ObjectMoves
  BY NextMoves, NextIsStep, StepNamesDiffer, TypedObjects, Runtime!StepMoves
<1> SUFFICES ASSUME Pinned PROVE GuardInv'
  BY <1>0 DEF GuardInv, Pinned, ZoneMoves
<1>1. pc' # "Idle" => zone' = conf.failureDomain
  <2>1. seen.fds \in SUBSET Zones /\ conf \in Config
    BY MachineConfigs DEF TypeOK
  <2>2. ZoneIn(seen.fds) = conf.failureDomain
    BY <2>1, ZoneInType DEF Pinned
  <2> QED BY <1>0, <2>2 DEF ZoneMoves, GuardInv
<1>2. Instances' \subseteq {conf.failureDomain}
  BY <1>0 DEF CloudMoves, GuardInv
<1>3. Instances' # {} => obj'.finalizer
  BY <1>0 DEF CloudMoves, GuardInv, Runtime!ObjectMoves, Runtime!RuntimeInv,
              Runtime!PassInv, Runtime!ObjectInv, Creating, TypeOK, Object
<1>4. pc' = "RemoveFinalizer" => Instances' = {}
  <2>1. CASE pc = "RemoveFinalizer"
    BY <1>0, <2>1 DEF CloudMoves, GuardInv
  <2>2. CASE getInstance
    <3>1. zone = conf.failureDomain /\ Instances' = Instances
      BY <2>2 DEF getInstance, GuardInv, cloudVars, Instances
    <3> QED BY <2>2, <3>1 DEF getInstance, GuardInv, Continue, Refuse, CallFails, ReturnError
  <2>3. CASE deleteInstance
    <3>1. zone = conf.failureDomain
      BY <2>3 DEF deleteInstance, GuardInv
    <3>2. CASE InstanceDeleted(zone)
      BY <3>1, <3>2, DeletedTypes DEF GuardInv, TypeOK
    <3>3. CASE CallFails
      BY <3>3 DEF CallFails, ReturnError
    <3> QED BY <2>3, <3>2, <3>3 DEF deleteInstance
  <2>4. ASSUME pc' = "RemoveFinalizer", pc # "RemoveFinalizer" PROVE getInstance \/ deleteInstance
    BY <2>4 DEF Next, Controller, Environment, ReconcileIgnored, Dequeue, ReconcileFails,
       AddFinalizer, RemoveFinalizer, ClosePatch, Reconcile, StartPass, createOrGetInstance,
       AfterInstance, listToRegister, registerControlPlaneInstance, SetState,
       listToDeregister, deregisterControlPlaneInstance, CloseStatus, Ended, UserDelete,
       Release, Pause, CacheSync, Crash, BootstrapReady, ClusterChanges, ClusterSync,
       InstanceRuns, InstanceBreaks, InstanceVanishes, OutsideFrame, ClientFrame, Continue,
       Return, Refuse, CallFails, ReturnError, vars, passVars
  <2> QED BY <2>1, <2>2, <2>3, <2>4
<1>5. before'.finalizer /\ ~local'.finalizer => Instances' = {}
  <2>1. CASE before.finalizer /\ ~local.finalizer /\ pc # "Instance"
    BY <1>0, <2>1 DEF CloudMoves, GuardInv
  <2>2. CASE pc = "RemoveFinalizer"
    BY <1>0, <2>2 DEF CloudMoves, GuardInv
  <2>3. Runtime!Step /\ Runtime!Typed(Zones \cup {0}, Statuses)
    BY NextIsStep, TypedObjects
  <2> QED BY <2>1, <2>2, <2>3, Runtime!FinalizerDropped
          DEF Runtime!RuntimeInv, Runtime!PassInv, Creating
<1> QED BY <1>0, <1>1, <1>2, <1>3, <1>4, <1>5 DEF GuardInv, ZoneMoves

LEMMA GuardCorrect == Spec => []GuardInv
<1>1. TypeOK /\ TypeOK' /\ Runtime!RuntimeInv /\ GuardInv /\ [Next]_vars => GuardInv'
  BY GuardStep
<1> QED BY <1>1, GuardInit, TypeCorrect, RuntimeCorrect, PTL DEF Spec

\* The instance of a machine with a failure domain never outlives the GCPMachine nor its
\* finalizer, whichever calls of Delete and of the patch helper fail and however stale the
\* copy that a pass works on is.
THEOREM FinalizerCorrect == Spec => []FinalizerGuards
<1>1. Runtime!RuntimeInv /\ GuardInv => FinalizerGuards
  BY DEF GuardInv, FinalizerGuards, Runtime!RuntimeInv, Runtime!ObjectInv
<1> QED BY <1>1, GuardCorrect, RuntimeCorrect, PTL

-----------------------------------------------------------------------------
(* ProviderIDBacked                                                        *)

\* Nobody has asked for a deletion, and no one else deletes instances.
Undisturbed == obj.exists /\ ~obj.deleting /\ ~lost

\* Then no deletion pass runs.
LEMMA UndisturbedCreates ==
    ASSUME Runtime!RuntimeInv, Undisturbed
    PROVE  ~before.deleting /\ pc \notin Removing
BY DEF Undisturbed, Runtime!RuntimeInv, Runtime!PassInv

LEMMA UndisturbedBefore ==
    ASSUME TypeOK, Runtime!RuntimeInv, [Next]_vars, Undisturbed'
    PROVE  Undisturbed
<1>1. CloudMoves /\ Runtime!ObjectMoves
  BY NextMoves, NextIsStep, StepNamesDiffer, TypedObjects, Runtime!StepMoves
<1>2. lost => lost'
  BY <1>1 DEF CloudMoves
<1>3. obj'.exists /\ ~obj'.deleting => obj.exists /\ ~obj.deleting
  BY <1>1, Runtime!NoObjectFields DEF Runtime!ObjectMoves
<1> QED BY <1>2, <1>3 DEF Undisturbed

\* A providerID in any copy of the object is that of an instance.
BackedInv ==
    Undisturbed =>
        /\ obj.spec # 0 => obj.spec \in Instances
        /\ cache.spec # 0 => cache.spec \in Instances
        /\ local.spec # 0 => local.spec \in Instances

\* Where a step takes the providerID from.
LEMMA SpecMoves ==
    ASSUME TypeOK, [Next]_vars
    PROVE  /\ obj'.spec \in {obj.spec, local.spec, 0}
           /\ cache'.spec \in {cache.spec, obj.spec}
           /\ \/ local'.spec \in {local.spec, cache.spec, 0}
              \/ pc = "Instance" /\ local'.spec = zone /\ zone \in Instances'
<1> USE DEF TypeOK
<1>1. CASE \/ ReconcileIgnored(seen.exists) \/ ReconcileFails \/ ClusterSync
           \/ BootstrapReady \/ ClusterChanges \/ InstanceRuns \/ InstanceBreaks
           \/ InstanceVanishes \/ CacheSync \/ Reconcile \/ UNCHANGED vars
  BY <1>1 DEF ReconcileIgnored, ReconcileFails, ClusterSync, BootstrapReady, ClusterChanges,
     InstanceRuns, InstanceBreaks, InstanceVanishes, OutsideFrame, ClientFrame, CacheSync,
     Reconcile, StartPass, vars, passVars
<1>2. CASE AddFinalizer("Instance") \/ RemoveFinalizer
  BY <1>2 DEF AddFinalizer, RemoveFinalizer, Return, StepFrame, Object
<1>3. CASE ClosePatch
  BY <1>3, PatchedFields DEF ClosePatch, NoObject
<1>4. CASE CloseStatus
  BY <1>4 DEF CloseStatus, PatchedStatus, Ended, NoObject, Object
<1>5. CASE UserDelete \/ Release \/ Pause
  BY <1>5 DEF UserDelete, Release, Pause, Settle, NoObject, ClientFrame, Object
<1>6. CASE Crash
  BY <1>6 DEF Crash, Ended, NoObject
<1>7. CASE createOrGetInstance
  <2>1. CASE Refuse \/ CallFails
    BY <2>1 DEF Refuse, CallFails, ReturnError, StepFrame
  <2>2. CASE /\ Instantiable /\ inst' \in Inserted
             /\ Continue(AfterInstance,
                   [local EXCEPT !.spec = zone, !.status.instanceStatus = inst'[zone]])
    <3>1. zone \in Instances'
      BY <2>2, InsertedTypes
    <3> QED BY <1>7, <2>2, <3>1 DEF createOrGetInstance, Continue, StepFrame, Object
  <2> QED BY <1>7, <2>1, <2>2 DEF createOrGetInstance
<1>8. CASE SetState
  <2>1. UNCHANGED <<obj, cache>>
        /\ local' \in {local, [local EXCEPT !.status.ready = TRUE],
                       [local EXCEPT !.status.failureReason = TRUE]}
    BY <1>8 DEF SetState, Return, StepFrame
  <2> QED BY <2>1 DEF Object
<1>9. CASE \/ listToRegister \/ registerControlPlaneInstance
           \/ getInstance \/ listToDeregister \/ deregisterControlPlaneInstance
           \/ deleteInstance
  BY <1>9 DEF listToRegister, registerControlPlaneInstance, getInstance, listToDeregister,
     deregisterControlPlaneInstance, deleteInstance, Continue, Refuse, CallFails,
     ReturnError, StepFrame
<1> QED BY <1>1, <1>2, <1>3, <1>4, <1>5, <1>6, <1>7, <1>8, <1>9
        DEF Next, Controller, Environment

LEMMA BackedInit == Init => BackedInv
BY DEF Init, ObjectInit, NoObject, BackedInv

LEMMA BackedStep ==
    ASSUME TypeOK, Runtime!RuntimeInv, BackedInv, [Next]_vars
    PROVE  BackedInv'
<1> SUFFICES ASSUME Undisturbed' PROVE BackedInv'
  BY DEF BackedInv
<1>1. Undisturbed /\ pc \notin Removing /\ ~lost'
  BY UndisturbedBefore, UndisturbedCreates DEF Undisturbed
<1>2. Instances \subseteq Instances'
  BY <1>1, NextMoves DEF CloudMoves
<1> QED BY <1>1, <1>2, SpecMoves DEF BackedInv

\* As long as nobody else deletes instances, a providerID that was published is that of
\* an instance, also when the pass that set it failed afterwards or the cluster's
\* failure domains have changed since.
THEOREM ProviderIDCorrect == Spec => []ProviderIDBacked
<1>1. TypeOK /\ Runtime!RuntimeInv /\ BackedInv /\ [Next]_vars => BackedInv'
  BY BackedStep
<1>2. Runtime!RuntimeInv /\ BackedInv => ProviderIDBacked
  BY DEF BackedInv, Undisturbed, ProviderIDBacked, Runtime!RuntimeInv, Runtime!ObjectInv,
         Runtime!NoObject
<1> QED BY <1>1, <1>2, BackedInit, TypeCorrect, RuntimeCorrect, PTL DEF Spec

-----------------------------------------------------------------------------
(* ReadyMeansRegistered                                                    *)

\* The cluster, and with it the group, stays, and so does the machine.
Serving == Undisturbed /\ conf.controlPlane /\ cluster.exists /\ ~cluster.deleting

\* The instance is in a group from the decision that it need not be registered on.
RegisteredInv ==
    Serving =>
        /\ obj.status.ready \/ cache.status.ready \/ before.status.ready
                \/ local.status.ready => members # {}
        /\ pc = "Register" /\ listed => members # {}
        /\ pc = "State" /\ local.status.instanceStatus = "RUNNING" => members # {}

\* Where a step takes readiness from.
LEMMA ReadyMoves ==
    ASSUME TypeOK, [Next]_vars
    PROVE  /\ obj'.status.ready => obj.status.ready \/ local.status.ready
           /\ cache'.status.ready => cache.status.ready \/ obj.status.ready
           /\ before'.status.ready => before.status.ready \/ cache.status.ready
           /\ local'.status.ready =>
                  \/ local.status.ready \/ cache.status.ready
                  \/ pc = "State" /\ local.status.instanceStatus = "RUNNING"
<1> USE DEF TypeOK
<1>1. CASE \/ ReconcileIgnored(seen.exists) \/ ReconcileFails \/ ClusterSync
           \/ BootstrapReady \/ ClusterChanges \/ InstanceRuns \/ InstanceBreaks
           \/ InstanceVanishes \/ CacheSync \/ Reconcile \/ UNCHANGED vars
  BY <1>1 DEF ReconcileIgnored, ReconcileFails, ClusterSync, BootstrapReady, ClusterChanges,
     InstanceRuns, InstanceBreaks, InstanceVanishes, OutsideFrame, ClientFrame, CacheSync,
     Reconcile, StartPass, vars, passVars
<1>2. CASE AddFinalizer("Instance") \/ RemoveFinalizer
  BY <1>2 DEF AddFinalizer, RemoveFinalizer, Return, StepFrame, Object
<1>3. CASE ClosePatch
  BY <1>3, PatchedFields DEF ClosePatch, NoObject, NoStatus
<1>4. CASE CloseStatus
  <2>1. PatchedStatus(obj).status.ready =>
            obj.status.ready \/ local.status.ready
    BY StatusDomain DEF PatchedStatus, Object
  <2> QED BY <1>4, <2>1 DEF CloseStatus, Ended, NoObject, NoStatus
<1>5. CASE UserDelete \/ Release \/ Pause
  BY <1>5 DEF UserDelete, Release, Pause, Settle, NoObject, NoStatus, ClientFrame, Object
<1>6. CASE Crash
  BY <1>6 DEF Crash, Ended, NoObject, NoStatus
<1>7. CASE createOrGetInstance
  <2>1. CASE Refuse \/ CallFails
    BY <2>1 DEF Refuse, CallFails, ReturnError, StepFrame
  <2>2. CASE Continue(AfterInstance,
                [local EXCEPT !.spec = zone, !.status.instanceStatus = inst'[zone]])
    BY <2>2 DEF Continue, StepFrame, Object
  <2> QED BY <1>7, <2>1, <2>2 DEF createOrGetInstance
<1>8. CASE SetState
  <2>1. UNCHANGED <<obj, cache, before>> /\ pc = "State"
        /\ \/ local' \in {local, [local EXCEPT !.status.failureReason = TRUE]}
           \/ local.status.instanceStatus = "RUNNING"
    BY <1>8 DEF SetState, Return, StepFrame
  <2> QED BY <2>1 DEF Object
<1>9. CASE \/ listToRegister \/ registerControlPlaneInstance
           \/ getInstance \/ listToDeregister \/ deregisterControlPlaneInstance
           \/ deleteInstance
  BY <1>9 DEF listToRegister, registerControlPlaneInstance, getInstance, listToDeregister,
     deregisterControlPlaneInstance, deleteInstance, Continue, Refuse, CallFails,
     ReturnError, StepFrame
<1> QED BY <1>1, <1>2, <1>3, <1>4, <1>5, <1>6, <1>7, <1>8, <1>9
        DEF Next, Controller, Environment

LEMMA RegisteredInit == Init => RegisteredInv
BY DEF Init, ObjectInit, NoObject, NoStatus, RegisteredInv

LEMMA RegisteredStep ==
    ASSUME TypeOK, TypeOK', Runtime!RuntimeInv, RegisteredInv, [Next]_vars
    PROVE  RegisteredInv'
<1> SUFFICES ASSUME Serving' PROVE RegisteredInv'
  BY DEF RegisteredInv
<1>1. Serving /\ pc \notin Removing /\ ~lost' /\ ~cluster.deleting /\ cluster.exists
  BY NextMoves, UndisturbedBefore, UndisturbedCreates
     DEF Serving, Undisturbed, CloudMoves, ZoneMoves
<1>2. members \subseteq members'
  BY <1>1, NextMoves DEF CloudMoves
<1>3. obj'.status.ready \/ cache'.status.ready \/ before'.status.ready
        \/ local'.status.ready => members' # {}
  BY <1>1, <1>2, ReadyMoves DEF RegisteredInv
<1>4. pc' = "Register" /\ listed' => members' # {}
  <2>1. CASE listToRegister
    BY <1>2, <2>1 DEF listToRegister, Listed, Continue, Refuse, CallFails, ReturnError
  <2>2. CASE pc = "Register" /\ (listed' => listed)
    BY <1>1, <1>2, <2>2 DEF RegisteredInv
  <2>3. ASSUME pc' = "Register", ~listToRegister
        PROVE  pc = "Register" /\ (listed' => listed)
    <3>1. /\ ~createOrGetInstance /\ ~registerControlPlaneInstance /\ ~SetState
          /\ ~getInstance /\ ~listToDeregister /\ ~deregisterControlPlaneInstance
          /\ ~deleteInstance
      BY <2>3 DEF createOrGetInstance, AfterInstance, registerControlPlaneInstance, SetState,
         getInstance, listToDeregister, deregisterControlPlaneInstance, deleteInstance,
         Continue, Return, Refuse, CallFails, ReturnError
    <3>2. /\ ~Reconcile /\ ~CloseStatus /\ ~Crash /\ ~AddFinalizer("Instance")
          /\ ~RemoveFinalizer /\ ~ClosePatch
      BY <2>3 DEF Reconcile, StartPass, CloseStatus, Ended, Crash, AddFinalizer,
         RemoveFinalizer, Return, ClosePatch
    <3> QED BY <2>3, <3>1, <3>2 DEF Next, Controller, Environment, ReconcileIgnored,
            ReconcileFails, UserDelete, Release, Pause, ClientFrame, ClientsFrame, CacheSync,
            BootstrapReady, ClusterChanges, ClusterSync, InstanceRuns, InstanceBreaks,
            InstanceVanishes, OutsideFrame, vars, passVars
  <2> QED BY <2>1, <2>2, <2>3
<1>5. pc' = "State" /\ local'.status.instanceStatus = "RUNNING" => members' # {}
  <2>1. CASE registerControlPlaneInstance
    <3>1. CASE ~Unregistered /\ Continue("State", local)
      BY <1>1, <1>2, <2>1, <3>1
         DEF registerControlPlaneInstance, Unregistered, Continue, RegisteredInv
    <3>2. CASE Unregistered /\ members' = members \cup {zone}
      BY <3>2
    <3>3. CASE Refuse \/ CallFails
      BY <3>3 DEF Refuse, CallFails, ReturnError
    <3> QED BY <2>1, <3>1, <3>2, <3>3 DEF registerControlPlaneInstance
  <2>2. CASE pc = "State" /\ local' = local
    BY <1>1, <1>2, <2>2 DEF RegisteredInv
  <2>3. ASSUME pc' = "State", ~registerControlPlaneInstance
        PROVE  pc = "State" /\ local' = local
    <3>1. /\ ~createOrGetInstance /\ ~listToRegister /\ ~SetState
          /\ ~getInstance /\ ~listToDeregister /\ ~deregisterControlPlaneInstance
          /\ ~deleteInstance
      BY <1>1, <2>3 DEF createOrGetInstance, AfterInstance, listToRegister, SetState,
         getInstance, listToDeregister, deregisterControlPlaneInstance, deleteInstance,
         Continue, Return, Refuse, CallFails, ReturnError, Serving
    <3>2. /\ ~Reconcile /\ ~CloseStatus /\ ~Crash /\ ~AddFinalizer("Instance")
          /\ ~RemoveFinalizer /\ ~ClosePatch
      BY <2>3 DEF Reconcile, StartPass, CloseStatus, Ended, Crash, AddFinalizer,
         RemoveFinalizer, Return, ClosePatch
    <3> QED BY <2>3, <3>1, <3>2 DEF Next, Controller, Environment, ReconcileIgnored,
            ReconcileFails, UserDelete, Release, Pause, ClientFrame, ClientsFrame, CacheSync,
            BootstrapReady, ClusterChanges, ClusterSync, InstanceRuns, InstanceBreaks,
            InstanceVanishes, OutsideFrame, vars, passVars
  <2> QED BY <2>1, <2>2, <2>3
<1> QED BY <1>3, <1>4, <1>5 DEF RegisteredInv

\* As long as the cluster stays and nobody else deletes the instance, a control plane
\* machine that is ready is in an instance group, and so behind the load balancer:
\* whatever the group, the instance and the cluster did between the calls that looked
\* at them.
THEOREM RegisteredCorrect == Spec => []ReadyMeansRegistered
<1>1. TypeOK /\ TypeOK' /\ Runtime!RuntimeInv /\ RegisteredInv /\ [Next]_vars
      => RegisteredInv'
  BY RegisteredStep
<1>2. Runtime!RuntimeInv /\ RegisteredInv => ReadyMeansRegistered
  BY Runtime!NoObjectFields
     DEF RegisteredInv, Serving, Undisturbed, ReadyMeansRegistered, Runtime!RuntimeInv,
         Runtime!ObjectInv, NoStatus
<1> QED BY <1>1, <1>2, RegisteredInit, TypeCorrect, RuntimeCorrect, PTL DEF Spec

-----------------------------------------------------------------------------
(* NothingForgotten                                                        *)

\* A copy of the object, and one of the cluster, with which there is nothing to do.
Finished(o, v) ==
    o.exists /\ o.reconcilable /\ v.exists =>
        /\ ~o.deleting
        /\ o.status.ready /\ o.status.instanceStatus = "RUNNING"
        /\ o.spec = ZoneIn(v.fds)

\* What the controller has written since shows in the object: an event is on its way
\* that nobody can take back.
Written(o) == obj.exists # o.exists \/ obj.spec # o.spec \/ obj.status # o.status

\* A pass that nothing has happened to since it began works on what the caches hold;
\* without an error it ends with a running instance or with the finalizer removed, and
\* it leaves nothing to do or a change that will be seen.
WakeInv ==
    ~queued =>
        /\ pc = "Idle" => Finished(cache, seen) \/ Written(cache)
        /\ pc # "Idle" => /\ before = cache /\ cache.exists
                          /\ zone = ZoneIn(seen.fds)
        /\ pc \in {"ListToAdd", "Register", "State"} => local.spec = zone
        /\ pc \in {"ClosePatch", "CloseStatus"} /\ ~failed =>
              IF before.deleting THEN ~local.finalizer
              ELSE /\ local.status.ready /\ local.status.instanceStatus = "RUNNING"
                   /\ local.spec = zone
        /\ pc = "CloseStatus" /\ ~failed =>
              /\ before.deleting => ~obj.exists
              /\ local.spec # before.spec => obj.spec = local.spec \/ ~obj.exists
        /\ pc \notin {"Idle", "ClosePatch", "CloseStatus"} => ~failed

LEMMA WakeInit == Init => WakeInv
BY DEF Init, ObjectInit, NoObject, WakeInv, Finished

\* Steps that enqueue the key leave nothing to show.
LEMMA WakeQueued ==
    ASSUME queued' PROVE WakeInv'
BY DEF WakeInv

\* The object's other clients change what the controller does not write, or end it.
LEMMA WakeClients ==
    ASSUME TypeOK, Runtime!RuntimeInv, WakeInv,
           UserDelete \/ Release \/ Pause, UNCHANGED <<cloudVars, listed>>, CallFrame
    PROVE  WakeInv'
<1>1. UNCHANGED <<cache, before, local, pc, queued, failed, zone, seen, conf>>
  BY DEF UserDelete, Release, Pause, ClientFrame, CallFrame
<1>2. \/ obj'.exists = obj.exists /\ obj'.spec = obj.spec /\ obj'.status = obj.status
      \/ ~obj'.exists
  BY DEF UserDelete, Release, Pause, Settle, NoObject, TypeOK, Object
<1>3. obj'.exists => obj.exists
  BY <1>1, <1>2 DEF UserDelete, Release, Pause
<1>4. Written(cache) => Written(cache)' \/ ~cache.exists
  BY <1>1, <1>2 DEF Written, TypeOK, Object
<1>5. ~cache.exists => Finished(cache, seen)'
  BY <1>1 DEF Finished
<1>6. Finished(cache, seen) => Finished(cache, seen)'
  BY <1>1 DEF Finished, ZoneIn
<1>7. ZoneIn(seen.fds)' = ZoneIn(seen.fds)
  BY <1>1 DEF ZoneIn
<1> QED BY <1>1, <1>2, <1>3, <1>4, <1>5, <1>6, <1>7 DEF WakeInv

\* A step that neither the controller nor its caches notice.
LEMMA WakeElsewhere ==
    ASSUME WakeInv, UNCHANGED <<obj, cache, before, local, pc, queued, failed, zone, seen,
                                conf>>
    PROVE  WakeInv'
<1>1. ZoneIn(seen.fds)' = ZoneIn(seen.fds)
  BY DEF ZoneIn
<1> QED BY <1>1 DEF WakeInv, Finished, Written

\* A step of a pass before Close.
LEMMA WakeService ==
    ASSUME TypeOK, Runtime!RuntimeInv, WakeInv,
           \/ AddFinalizer("Instance") /\ CallFrame
           \/ RemoveFinalizer /\ CallFrame
           \/ createOrGetInstance \/ listToRegister \/ registerControlPlaneInstance
           \/ SetState
           \/ getInstance \/ listToDeregister \/ deregisterControlPlaneInstance
           \/ deleteInstance
    PROVE  WakeInv'
<1> SUFFICES ASSUME ~queued' PROVE WakeInv'
  BY WakeQueued
<1>0. local \in Object
  BY DEF TypeOK
<1>1. /\ pc \notin {"Idle", "ClosePatch", "CloseStatus"}
      /\ pc' \notin {"Idle", "CloseStatus"}
      /\ UNCHANGED <<cache, before, zone, seen, conf>>
      /\ ~queued
      /\ pc' # "ClosePatch" => failed' = failed
  <2> USE DEF CallFrame
  <2>1. CASE AddFinalizer("Instance") /\ CallFrame
    BY <2>1 DEF AddFinalizer
  <2>2. CASE RemoveFinalizer /\ CallFrame
    BY <2>2 DEF RemoveFinalizer, Return, StepFrame
  <2>3. CASE createOrGetInstance
    BY <2>3 DEF createOrGetInstance, AfterInstance, Continue, Refuse, CallFails, ReturnError,
                StepFrame
  <2>4. CASE SetState
    BY <2>4 DEF SetState, Return, StepFrame
  <2>5. CASE \/ listToRegister \/ registerControlPlaneInstance
             \/ getInstance \/ listToDeregister \/ deregisterControlPlaneInstance
             \/ deleteInstance
    BY <2>5 DEF listToRegister, registerControlPlaneInstance, getInstance, listToDeregister,
       deregisterControlPlaneInstance, deleteInstance, Continue, Refuse, CallFails,
       ReturnError, StepFrame
  <2> QED BY <2>1, <2>2, <2>3, <2>4, <2>5
<1>2. /\ before = cache /\ cache.exists /\ zone = ZoneIn(seen.fds) /\ ~failed
      /\ ZoneIn(seen.fds)' = ZoneIn(seen.fds)
  BY <1>1 DEF WakeInv, ZoneIn
<1>3. pc' \in {"ListToAdd", "Register", "State"} => local'.spec = zone
  <2>1. CASE createOrGetInstance
    <3>1. CASE Refuse \/ CallFails
      BY <3>1 DEF Refuse, CallFails, ReturnError
    <3>2. CASE Continue(AfterInstance,
                  [local EXCEPT !.spec = zone, !.status.instanceStatus = inst'[zone]])
      BY <1>0, <3>2 DEF Continue, Object
    <3> QED BY <2>1, <3>1, <3>2 DEF createOrGetInstance
  <2>2. CASE listToRegister \/ registerControlPlaneInstance
    BY <1>1, <2>2 DEF WakeInv, listToRegister, registerControlPlaneInstance, Continue, Refuse,
                 CallFails, ReturnError
  <2>3. CASE \/ AddFinalizer("Instance") \/ RemoveFinalizer \/ SetState
             \/ getInstance \/ listToDeregister \/ deregisterControlPlaneInstance
             \/ deleteInstance
    BY <2>3 DEF AddFinalizer, RemoveFinalizer, SetState, getInstance, listToDeregister,
       deregisterControlPlaneInstance, deleteInstance, Continue, Return, Refuse, CallFails,
       ReturnError
  <2> QED BY <2>1, <2>2, <2>3
<1>4. pc' = "ClosePatch" /\ ~failed' =>
          IF before.deleting THEN ~local'.finalizer
          ELSE /\ local'.status.ready /\ local'.status.instanceStatus = "RUNNING"
               /\ local'.spec = zone
  <2>1. CASE RemoveFinalizer
    <3>1. before.deleting
      BY <2>1 DEF RemoveFinalizer, Runtime!RuntimeInv, Runtime!PassInv, Removing
    <3>2. ~local'.finalizer
      BY <1>0, <2>1 DEF RemoveFinalizer, Return, Object
    <3> QED BY <3>1, <3>2
  <2>2. CASE SetState
    <3>1. ~before.deleting /\ local.spec = zone /\ pc = "State"
      BY <1>1, <2>2 DEF SetState, Runtime!RuntimeInv, Runtime!PassInv, Creating, WakeInv
    <3>2. /\ local.status.instanceStatus = "RUNNING"
          /\ local' = [local EXCEPT !.status.ready = TRUE]
      BY <2>2 DEF SetState, Return
    <3> QED BY <1>0, <3>1, <3>2 DEF Object
  <2>3. CASE \/ AddFinalizer("Instance")
             \/ createOrGetInstance \/ listToRegister \/ registerControlPlaneInstance
             \/ getInstance \/ listToDeregister \/ deregisterControlPlaneInstance
             \/ deleteInstance
    BY <2>3 DEF AddFinalizer, createOrGetInstance, AfterInstance, listToRegister,
       registerControlPlaneInstance, getInstance, listToDeregister,
       deregisterControlPlaneInstance, deleteInstance, Continue, Refuse, CallFails,
       ReturnError
  <2> QED BY <2>1, <2>2, <2>3
<1>5. pc' \notin {"Idle", "ClosePatch", "CloseStatus"} => ~failed'
  BY <1>1, <1>2
<1> QED BY <1>1, <1>2, <1>3, <1>4, <1>5 DEF WakeInv

\* The patch of metadata and spec.
LEMMA WakeClosePatch ==
    ASSUME TypeOK, Runtime!RuntimeInv, WakeInv, ClosePatch, CallFrame
    PROVE  WakeInv'
<1> SUFFICES ASSUME ~queued' PROVE WakeInv'
  BY WakeQueued
<1>1. /\ pc = "ClosePatch" /\ pc' = "CloseStatus" /\ ~queued
      /\ UNCHANGED <<cache, before, local, zone, seen, conf>>
      /\ ~failed' => ~failed
  BY DEF ClosePatch, CallFrame
<1>2. ZoneIn(seen.fds)' = ZoneIn(seen.fds)
  BY <1>1 DEF ZoneIn
<1>3. ASSUME ~failed'
      PROVE  /\ before.deleting => ~obj'.exists
             /\ local.spec # before.spec => obj'.spec = local.spec \/ ~obj'.exists
  <2>1. \/ ~PatchChanged /\ obj' = obj
        \/ PatchChanged /\ obj.exists /\ obj' = Patched(obj)
    BY <1>3 DEF ClosePatch
  <2>2. before.deleting => PatchChanged /\ ~local.finalizer
    BY <1>1, <1>3 DEF WakeInv, PatchChanged, Runtime!RuntimeInv, Runtime!PassInv
  <2>3. before.deleting => before.finalizer /\ (obj.deleting \/ ~obj.exists)
    BY DEF Runtime!RuntimeInv, Runtime!PassInv
  <2>4. before.deleting /\ PatchChanged /\ obj.exists => Patched(obj) = NoObject
    BY <2>2, <2>3 DEF Patched, Settle, TypeOK, Object
  <2>5. NoObject.exists = FALSE
    BY DEF NoObject
  <2>6. before.deleting => ~obj'.exists
    BY <2>1, <2>2, <2>4, <2>5
  <2>7. local.spec # before.spec => obj'.spec = local.spec \/ ~obj'.exists
    BY <2>1, <2>5, PatchedFields DEF PatchChanged
  <2> QED BY <2>6, <2>7
<1> QED BY <1>1, <1>2, <1>3 DEF WakeInv

\* The patch of the status, and the end of the pass.
LEMMA WakeCloseStatus ==
    ASSUME TypeOK, Runtime!RuntimeInv, WakeInv, CloseStatus, PassEnds
    PROVE  WakeInv'
<1> SUFFICES ASSUME ~queued' PROVE WakeInv'
  BY WakeQueued
<1>1. /\ pc = "CloseStatus" /\ pc' = "Idle" /\ UNCHANGED <<cache, seen, conf>>
      /\ ~queued /\ ~failed
  BY DEF CloseStatus, Ended, PassEnds
<1>2. \/ StatusChanged /\ obj.exists /\ obj' = PatchedStatus(obj)
      \/ /\ ~StatusChanged \/ (local.deleting /\ ~local.finalizer /\ ~obj.exists)
         /\ obj' = obj
  BY DEF CloseStatus
<1>3. before = cache /\ cache.exists /\ zone = ZoneIn(seen.fds)
  BY <1>1 DEF WakeInv
<1>4. Finished(cache, seen) \/ (Written(cache))'
  <2>1. CASE before.deleting
    <3>1. ~obj.exists
      BY <1>1, <2>1 DEF WakeInv
    <3>2. obj' = obj
      BY <1>2, <3>1
    <3> QED BY <1>1, <1>3, <3>1, <3>2 DEF Written
  <2>2. CASE ~before.deleting /\ StatusChanged
    <3>1. local.deleting = before.deleting
      BY DEF Runtime!RuntimeInv, Runtime!PassInv
    <3>2. obj' = PatchedStatus(obj)
      BY <1>2, <2>2, <3>1
    <3>3. /\ local.status = [ready |-> local.status.ready,
                             instanceStatus |-> local.status.instanceStatus,
                             failureReason |-> local.status.failureReason]
          /\ before.status = [ready |-> before.status.ready,
                              instanceStatus |-> before.status.instanceStatus,
                              failureReason |-> before.status.failureReason]
      BY DEF TypeOK, Object
    <3>4. \E f \in DOMAIN NoStatus : local.status[f] # before.status[f]
      BY <2>2, <3>3, StatusDomain DEF StatusChanged
    <3>5. PICK f \in DOMAIN NoStatus : local.status[f] # before.status[f]
      BY <3>4
    <3>6. obj'.status[f] = local.status[f]
      BY <3>2, <3>5 DEF PatchedStatus, TypeOK, Object
    <3> QED BY <1>1, <1>3, <3>5, <3>6 DEF Written
  <2>3. CASE ~before.deleting /\ ~StatusChanged
    <3>1. obj' = obj /\ local.status = before.status
      BY <1>2, <2>3 DEF StatusChanged
    <3>2. /\ local.status.ready /\ local.status.instanceStatus = "RUNNING"
          /\ local.spec = zone
          /\ local.spec # before.spec => obj.spec = local.spec \/ ~obj.exists
      BY <1>1, <2>3 DEF WakeInv
    <3>3. CASE local.spec = before.spec
      BY <1>3, <2>3, <3>1, <3>2, <3>3 DEF Finished
    <3>4. CASE local.spec # before.spec
      BY <1>1, <1>3, <3>1, <3>2, <3>4 DEF Written
    <3> QED BY <3>3, <3>4
  <2> QED BY <2>1, <2>2, <2>3
<1>5. Finished(cache, seen) => Finished(cache, seen)'
  BY <1>1 DEF Finished, ZoneIn
<1> QED BY <1>1, <1>4, <1>5 DEF WakeInv

LEMMA WakeStep ==
    ASSUME TypeOK, Runtime!RuntimeInv, WakeInv, [Next]_vars
    PROVE  WakeInv'
<1>1. CASE (UserDelete \/ Release \/ Pause) /\ ClientsFrame
  BY <1>1, WakeClients DEF ClientsFrame
<1>2. CASE \/ /\ AddFinalizer("Instance") \/ RemoveFinalizer
              /\ CallFrame
           \/ createOrGetInstance \/ listToRegister \/ registerControlPlaneInstance
           \/ SetState
           \/ getInstance \/ listToDeregister \/ deregisterControlPlaneInstance
           \/ deleteInstance
  BY <1>2, WakeService
<1>3. CASE ClosePatch /\ CallFrame
  BY <1>3, WakeClosePatch
<1>4. CASE CloseStatus /\ PassEnds
  BY <1>4, WakeCloseStatus
<1>5. CASE CacheSync \/ Crash \/ ClusterSync
  BY <1>5, WakeQueued DEF CacheSync, Crash, ClusterSync
<1>6. CASE ReconcileFails \/ BootstrapReady \/ ClusterChanges \/ InstanceRuns
           \/ InstanceBreaks \/ InstanceVanishes \/ UNCHANGED vars
  <2>1. CASE ReconcileFails
    BY <2>1, WakeQueued DEF ReconcileFails
  <2>2. CASE BootstrapReady \/ ClusterChanges \/ InstanceRuns
             \/ InstanceBreaks \/ InstanceVanishes \/ UNCHANGED vars
    BY <2>2, WakeElsewhere DEF BootstrapReady, ClusterChanges, InstanceRuns,
       InstanceBreaks, InstanceVanishes, OutsideFrame, ClientFrame, vars, passVars
  <2> QED BY <1>6, <2>1, <2>2
<1>7. CASE ReconcileIgnored(seen.exists) /\ CallFrame
  <2>1. /\ pc' = "Idle" /\ UNCHANGED <<cache, seen>>
        /\ ~(cache.exists /\ cache.reconcilable /\ seen.exists)
    BY <1>7 DEF ReconcileIgnored, Dequeue, CallFrame
  <2> QED BY <2>1 DEF WakeInv, Finished
<1>8. CASE Reconcile
  <2>1. /\ pc' \in {"GetInstance", "Finalizer"} /\ UNCHANGED <<cache, seen, conf>>
        /\ before' = cache /\ cache.exists /\ zone' = ZoneIn(seen.fds) /\ ~failed'
    BY <1>8 DEF Reconcile, StartPass
  <2>2. ZoneIn(seen.fds)' = ZoneIn(seen.fds)
    BY <2>1 DEF ZoneIn
  <2> QED BY <2>1, <2>2 DEF WakeInv
<1> QED BY <1>1, <1>2, <1>3, <1>4, <1>5, <1>6, <1>7, <1>8
        DEF Next, Controller, Environment

\* No wake-up of a machine is lost: with nothing queued and both caches up to date, the
\* machine has a running instance in the zone that its cluster now gives it and has
\* published it.
THEOREM WakeCorrect == Spec => []NothingForgotten
<1>1. TypeOK /\ Runtime!RuntimeInv /\ WakeInv /\ [Next]_vars => WakeInv'
  BY WakeStep
<1>2. WakeInv => NothingForgotten
  BY DEF WakeInv, Finished, Written, NothingForgotten, View
<1> QED BY <1>1, <1>2, WakeInit, TypeCorrect, RuntimeCorrect, PTL DEF Spec

=============================================================================
