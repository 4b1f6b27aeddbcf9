------------------------ MODULE GCPMachinePoolProofs ------------------------
(***************************************************************************)
(* TLAPS proofs about GCPMachinePool, for every set of zones, contents and *)
(* sizes and every bound on faults and edits: its types, that what a pool  *)
(* made stays behind its finalizer, and that its group managers live as    *)
(* ResourceLifecycle says.                                                 *)
(***************************************************************************)
EXTENDS GCPMachinePool, TLAPS, FiniteSetTheorems

\* The steps between the finalizer and Close, and those of a deletion.
Creating == {"Template", "Manager", "Resize", "SetTemplate", "Instances"}

Removing == {"DeleteManager", "DeleteTemplates", "RemoveFinalizer"}

Runtime == INSTANCE ObjectControllerProofs WITH NoSpec <- 0

-----------------------------------------------------------------------------
(* Types                                                                   *)

Managers == [exists : BOOLEAN, template : Contents \cup {0}, size : Count,
             instances : Count]

PassTypes ==
    /\ obj \in Object /\ cache \in Object /\ before \in Object /\ local \in Object
    /\ queued \in BOOLEAN /\ failed \in BOOLEAN /\ pc \in Steps
    /\ faults \in 0..MaxFaults /\ edits \in 0..MaxEdits

CloudTypes ==
    /\ conf \in Pools /\ want \in Plan /\ plan \in Plan
    /\ templates \subseteq Contents
    /\ mig \in [Zones -> Managers]
    /\ sibling \in {"absent", "template", "managed"}

LEMMA TypeParts == TypeOK <=> PassTypes /\ CloudTypes
BY DEF TypeOK, PassTypes, CloudTypes, Managers

\* A pass that has found the group manager has a single zone, one of the region.
ZonalInv == pc \in {"Resize", "SetTemplate", "Instances"} => Zonal(plan)

LEMMA ZonalZone ==
    ASSUME conf \in Pools, NEW p \in Plan, Zonal(p)
    PROVE  ZoneIn(p) \in ZonesIn(p) /\ ZoneIn(p) \in Zones
<1>1. ZonesIn(p) \subseteq Zones
  BY PoolConfigs DEF ZonesIn, Plan
<1>2. ZonesIn(p) # {}
  BY FS_EmptySet DEF Zonal
<1> QED BY <1>1, <1>2 DEF ZoneIn

Statuses == [ready : BOOLEAN]

\* Every copy of the object is one.
LEMMA TypedObjects ==
    TypeOK => Runtime!Typed(Count, Statuses)
BY DEF TypeOK, Object, Count, Statuses, Runtime!Typed, Runtime!Objects, NoStatus

LEMMA NoObjectType == NoObject \in Object
BY DEF NoObject, NoStatus, Object, Count

\* The status patch writes a status.
LEMMA PatchedStatusType ==
    ASSUME TypeOK
    PROVE  PatchedStatus(obj) \in Object
<1> DEFINE s == [f \in DOMAIN NoStatus |->
                   IF local.status[f] # before.status[f] THEN local.status[f]
                   ELSE obj.status[f]]
<1>1. obj \in Object /\ local \in Object /\ before \in Object
  BY DEF TypeOK
<1>2. DOMAIN NoStatus = {"ready"}
  BY DEF NoStatus
<1>3. s.ready \in BOOLEAN /\ s = [ready |-> s.ready]
  BY <1>1, <1>2 DEF Object
<1>4. s \in Statuses
  BY <1>3 DEF Statuses
<1> HIDE DEF s
<1>5. PatchedStatus(obj) = [obj EXCEPT !.status = s]
  BY DEF PatchedStatus, s
<1> QED BY <1>1, <1>4, <1>5 DEF Object, Statuses

\* What a step leaves, as far as types go.
LEMMA ObjectTypes ==
    ASSUME TypeOK
    PROVE  /\ Settle([obj EXCEPT !.deleting = TRUE]) \in Object
           /\ [obj EXCEPT !.reconcilable = TRUE] \in Object
           /\ [obj EXCEPT !.reconcilable = FALSE] \in Object
           /\ [obj EXCEPT !.finalizer = TRUE] \in Object
           /\ [local EXCEPT !.finalizer = TRUE] \in Object
           /\ [local EXCEPT !.finalizer = FALSE] \in Object
           /\ Patched(obj) \in Object
<1>1. obj \in Object /\ local \in Object /\ before \in Object
  BY DEF TypeOK
<1>2. Settle([obj EXCEPT !.deleting = TRUE]) \in Object
  BY <1>1, NoObjectType DEF Settle, Object
<1>3. Patched(obj) \in Object
  BY <1>1, NoObjectType DEF Patched, Settle, Object
<1> QED BY <1>1, <1>2, <1>3 DEF Object

LEMMA CountTypes ==
    ASSUME TypeOK
    PROVE  /\ Fault => faults' \in 0..MaxFaults
           /\ NoFault => faults' \in 0..MaxFaults
           /\ Edit => edits' \in 0..MaxEdits
BY PoolBounds DEF TypeOK, Fault, NoFault, Edit

\* A step of the runtime keeps the types.
LEMMA RuntimeTypes ==
    ASSUME TypeOK,
           \/ ReconcileIgnored(Available) \/ ReconcileFails \/ createScopeUnread
           \/ AddFinalizer("Template") \/ RemoveFinalizer \/ ClosePatch \/ CloseStatus
           \/ UserDelete \/ Release \/ Pause \/ Crash
    PROVE  PassTypes'
<1> USE ObjectTypes, CountTypes, NoObjectType DEF Steps
<1>1. CASE ReconcileIgnored(Available) \/ createScopeUnread
  BY <1>1 DEF ReconcileIgnored, createScopeUnread, Dequeue, TypeOK, PassTypes
<1>2. CASE ReconcileFails
  BY <1>2 DEF ReconcileFails, TypeOK, PassTypes
<1>3. CASE AddFinalizer("Template")
  BY <1>3 DEF AddFinalizer, TypeOK, PassTypes
<1>4. CASE RemoveFinalizer
  BY <1>4 DEF RemoveFinalizer, Return, StepFrame, TypeOK, PassTypes
<1>5. CASE ClosePatch
  BY <1>5 DEF ClosePatch, TypeOK, PassTypes
<1>6. CASE CloseStatus
  BY <1>6, PatchedStatusType DEF CloseStatus, Ended, TypeOK, PassTypes
<1>7. CASE UserDelete \/ Release \/ Pause
  BY <1>7 DEF UserDelete, Release, Pause, ClientFrame, TypeOK, PassTypes
<1>8. CASE Crash
  BY <1>8 DEF Crash, Ended, TypeOK, PassTypes
<1> QED BY <1>1, <1>2, <1>3, <1>4, <1>5, <1>6, <1>7, <1>8

\* The ways in which a step of a service ends.
LEMMA StepTypes ==
    ASSUME TypeOK, NEW next \in Steps, NEW scope \in Object,
           \/ Continue(next, scope) \/ Return(TRUE, scope) \/ Return(FALSE, scope)
           \/ Refuse \/ CallFails
    PROVE  PassTypes'
BY CountTypes DEF Continue, Return, Refuse, CallFails, ReturnError, StepFrame, TypeOK,
                  PassTypes, Steps

\* What the services may leave of the group managers.
LEMMA ManagerTypes ==
    ASSUME TypeOK, mig' \in {mig, Obtained, Resized, Retemplated, Deleted}
    PROVE  mig' \in [Zones -> Managers]
<1>0. mig \in [Zones -> Managers] /\ plan \in Plan
  BY DEF TypeOK, Managers
<1>1. NoMIG \in Managers
  BY DEF NoMIG, Managers, Count
<1>2. [exists |-> TRUE, template |-> plan.content, size |-> plan.size, instances |-> 0]
      \in Managers
  BY <1>0 DEF Plan, Managers, Count
<1>3. ASSUME NEW z \in Zones
      PROVE  /\ [mig[z] EXCEPT !.size = plan.size] \in Managers
             /\ [mig[z] EXCEPT !.template = plan.content] \in Managers
  BY <1>0 DEF Plan, Managers
<1>4. CASE mig' = Obtained
  BY <1>0, <1>2, <1>4 DEF Obtained
<1>5. CASE mig' = Resized
  BY <1>0, <1>3, <1>5 DEF Resized
<1>6. CASE mig' = Retemplated
  BY <1>0, <1>3, <1>6 DEF Retemplated
<1>7. CASE mig' = Deleted
  BY <1>0, <1>1, <1>7 DEF Deleted
<1> QED BY <1>0, <1>4, <1>5, <1>6, <1>7

\* The steps of the two services keep the types.
LEMMA ServiceTypes ==
    ASSUME TypeOK, ZonalInv,
           \/ createOrGetInstanceTemplate \/ createOrGetUntagged
           \/ createOrGet \/ resize \/ setInstanceTemplate
           \/ publishInstances \/ deleteManager \/ deleteTemplates
    PROVE  TypeOK'
<1> USE DEF Steps
<1>0. local \in Object /\ plan \in Plan /\ conf \in Pools /\ mig \in [Zones -> Managers]
  BY DEF TypeOK, Managers
<1>1. CASE createOrGetInstanceTemplate
  <2>1. PassTypes'
    BY <1>0, <1>1, StepTypes DEF createOrGetInstanceTemplate
  <2>2. templates' \subseteq Contents
    BY <1>0, <1>1 DEF createOrGetInstanceTemplate, TypeOK, Plan
  <2>3. CloudTypes'
    BY <1>0, <1>1, <2>2 DEF createOrGetInstanceTemplate, CallFrame, TypeOK, CloudTypes
  <2> QED BY <2>1, <2>3, TypeParts, PTL
<1>2. CASE createOrGet \/ resize \/ setInstanceTemplate \/ deleteManager
  <2>1. PassTypes'
    BY <1>0, <1>2, StepTypes DEF createOrGet, resize, setInstanceTemplate, deleteManager
  <2>2. mig' \in {mig, Obtained, Resized, Retemplated, Deleted}
    BY <1>2 DEF createOrGet, resize, setInstanceTemplate, deleteManager
  <2>3. mig' \in [Zones -> Managers]
    BY <2>2, ManagerTypes
  <2>4. UNCHANGED <<conf, want, plan, templates, sibling>>
    BY <1>2 DEF createOrGet, resize, setInstanceTemplate, deleteManager, CallFrame
  <2>5. CloudTypes'
    BY <2>3, <2>4 DEF TypeOK, CloudTypes
  <2> QED BY <2>1, <2>5, TypeParts, PTL
<1>3. CASE publishInstances
  <2>1. zone \in Zones
    BY <1>0, <1>3, ZonalZone DEF publishInstances, ZonalInv, zone
  <2>2. [local EXCEPT !.spec = mig[zone].instances, !.status.ready = TRUE] \in Object
    BY <1>0, <2>1 DEF Managers, Object
  <2>3. PassTypes'
    BY <1>0, <1>3, <2>2, StepTypes DEF publishInstances
  <2>4. CloudTypes'
    BY <1>0, <1>3 DEF publishInstances, CallFrame, TypeOK, CloudTypes
  <2> QED BY <2>3, <2>4, TypeParts, PTL
<1>4. CASE deleteTemplates
  <2>1. PassTypes'
    BY <1>0, <1>4, StepTypes DEF deleteTemplates
  <2>2. templates' \subseteq templates
    BY <1>4 DEF deleteTemplates, Kept
  <2>3. CloudTypes'
    BY <1>0, <1>4, <2>2 DEF deleteTemplates, SiblingSpared, TypeOK, CloudTypes
  <2> QED BY <2>1, <2>3, TypeParts, PTL
<1>5. CASE createOrGetUntagged
  <2>1. PICK c \in Contents : plan' = [plan EXCEPT !.content = c]
                              /\ templates' = templates \cup {c}
    BY <1>5 DEF createOrGetUntagged
  <2>2. plan' \in Plan /\ templates' \subseteq Contents
    BY <1>0, <2>1 DEF Plan, TypeOK
  <2>3. PassTypes'
    BY <1>5, CountTypes DEF createOrGetUntagged, StepFrame, TypeOK, PassTypes
  <2>4. CloudTypes'
    BY <1>0, <1>5, <2>2 DEF createOrGetUntagged, TypeOK, CloudTypes
  <2> QED BY <2>3, <2>4, TypeParts, PTL
<1> QED BY <1>1, <1>2, <1>3, <1>4, <1>5

\* So do the steps of users, of the cluster and of GCP.
LEMMA OutsideTypes ==
    ASSUME TypeOK,
           \/ PoolSync \/ Resync \/ ClusterAppears \/ ClusterGoes \/ BootstrapReady
           \/ UserEdits \/ InstancesFollow \/ SiblingGrows \/ SiblingShrinks
    PROVE  TypeOK'
<1>0. want \in Plan /\ mig \in [Zones -> Managers]
  BY DEF TypeOK, Managers
<1>1. CASE PoolSync \/ Resync
  BY <1>1 DEF PoolSync, Resync, cloudVars, CallFrame, TypeOK
<1>2. CASE ClusterAppears
  <2>1. want' \in Plan
    BY <1>0, <1>2, PoolConfigs DEF ClusterAppears, Plan
  <2> QED BY <1>2, <2>1 DEF ClusterAppears, WantFrame, cloudVars, TypeOK
<1>3. CASE BootstrapReady
  <2>1. want' \in Plan
    BY <1>0, <1>3, PoolNumbers DEF BootstrapReady, Plan
  <2> QED BY <1>3, <2>1 DEF BootstrapReady, WantFrame, cloudVars, TypeOK
<1>4. CASE UserEdits
  <2>1. want' \in Plan
    BY <1>0, <1>4, PoolConfigs DEF UserEdits, Plan, Count
  <2>2. edits' \in 0..MaxEdits
    BY <1>4, CountTypes DEF UserEdits
  <2>3. queued' \in BOOLEAN
    BY <1>4 DEF UserEdits, TypeOK
  <2> QED BY <1>4, <2>1, <2>2, <2>3 DEF UserEdits, WantFrame, cloudVars, TypeOK
<1>5. CASE InstancesFollow
  <2>1. PICK z \in MIGs : mig' = [mig EXCEPT ![z].instances = mig[z].size]
    BY <1>5 DEF InstancesFollow
  <2>2. [mig[z] EXCEPT !.instances = mig[z].size] \in Managers
    BY <1>0 DEF MIGs, Managers
  <2>3. mig' \in [Zones -> Managers]
    BY <1>0, <2>1, <2>2
  <2> QED BY <1>5, <2>3 DEF InstancesFollow, OutsideFrame, ClientFrame, Managers, TypeOK
<1>6. CASE SiblingGrows
  BY <1>6 DEF SiblingGrows, OutsideFrame, ClientFrame, TypeOK
<1>7. CASE SiblingShrinks
  <2>1. templates' \subseteq templates /\ edits' \in 0..MaxEdits
    BY <1>7, CountTypes DEF SiblingShrinks, Kept, TypeOK
  <2> QED BY <1>7, <2>1 DEF SiblingShrinks, OutsideFrame, ClientFrame, TypeOK
<1>8. CASE ClusterGoes
  <2>1. want' \in Plan
    BY <1>0, <1>8 DEF ClusterGoes, Plan
  <2>2. edits' \in 0..MaxEdits
    BY <1>8, CountTypes DEF ClusterGoes
  <2> QED BY <1>8, <2>1, <2>2 DEF ClusterGoes, WantFrame, cloudVars, TypeOK
<1> QED BY <1>1, <1>2, <1>3, <1>4, <1>5, <1>6, <1>7, <1>8

LEMMA NoPlanType == NoPlan \in Plan
BY DEF NoPlan, Plan, Count

LEMMA NextType ==
    ASSUME TypeOK, ZonalInv, [Next]_vars
    PROVE  TypeOK'
<1>1. CASE /\ \/ ReconcileIgnored(Available) \/ ReconcileFails \/ createScopeUnread
              \/ AddFinalizer("Template") \/ RemoveFinalizer \/ ClosePatch
              \/ UserDelete \/ Release \/ Pause
           /\ UNCHANGED cloudVars /\ CallFrame
  <2>1. PassTypes'
    BY <1>1, RuntimeTypes
  <2>2. CloudTypes'
    BY <1>1 DEF CallFrame, cloudVars, TypeOK, CloudTypes, Managers
  <2> QED BY <2>1, <2>2, TypeParts, PTL
<1>2. CASE Reconcile
  <2>1. PassTypes'
    BY <1>2 DEF Reconcile, StartPass, Dequeue, TypeOK, PassTypes, Steps
  <2>2. CloudTypes'
    BY <1>2 DEF Reconcile, cloudVars, TypeOK, CloudTypes, Managers
  <2> QED BY <2>1, <2>2, TypeParts, PTL
<1>3. CASE (CloseStatus \/ Crash) /\ plan' = NoPlan /\ UNCHANGED <<cloudVars, conf, want>>
  <2>1. PassTypes'
    BY <1>3, RuntimeTypes
  <2>2. CloudTypes'
    BY <1>3, NoPlanType DEF cloudVars, TypeOK, CloudTypes, Managers
  <2> QED BY <2>1, <2>2, TypeParts, PTL
<1>4. CASE UNCHANGED vars
  BY <1>4 DEF vars, passVars, cloudVars, TypeOK
<1> QED BY <1>1, <1>2, <1>3, <1>4, ServiceTypes, OutsideTypes
        DEF Next, Controller, Environment

LEMMA NextZonal ==
    ASSUME TypeOK, ZonalInv, [Next]_vars
    PROVE  ZonalInv'
<1>1. CASE UNCHANGED <<pc, conf, plan>>
  BY <1>1 DEF ZonalInv, Zonal, ZonesIn
<1>2. CASE pc' \in Steps \ {"Resize", "SetTemplate", "Instances"}
  BY <1>2 DEF ZonalInv
<1>3. CASE UNCHANGED <<conf, plan>> /\ Zonal(plan)
  BY <1>3 DEF ZonalInv, Zonal, ZonesIn
<1>4. CASE \/ ReconcileIgnored(Available) /\ CallFrame
           \/ (ReconcileFails \/ createScopeUnread) /\ CallFrame
           \/ (UserDelete \/ Release \/ Pause) /\ CallFrame
           \/ PoolSync \/ Resync \/ ClusterAppears \/ ClusterGoes \/ BootstrapReady
           \/ UserEdits \/ InstancesFollow \/ SiblingGrows \/ SiblingShrinks
           \/ UNCHANGED vars
  BY <1>1, <1>4 DEF ReconcileIgnored, ReconcileFails, createScopeUnread, UserDelete, Release,
     Pause, ClientFrame, ClusterGoes,
     PoolSync, Resync, ClusterAppears, BootstrapReady, UserEdits, WantFrame, InstancesFollow,
     SiblingGrows, SiblingShrinks, OutsideFrame, CallFrame, vars, passVars
<1>5. CASE \/ AddFinalizer("Template") \/ RemoveFinalizer \/ ClosePatch \/ CloseStatus
           \/ Crash \/ Reconcile \/ createOrGetInstanceTemplate \/ createOrGetUntagged
           \/ publishInstances \/ deleteManager \/ deleteTemplates
  BY <1>2, <1>5 DEF AddFinalizer, RemoveFinalizer, ClosePatch, CloseStatus, Ended, Crash,
     Reconcile, StartPass, createOrGetInstanceTemplate, createOrGetUntagged,
     publishInstances, deleteManager, deleteTemplates, Continue, Return, Refuse, CallFails,
     ReturnError, Steps
<1>6. CASE createOrGet
  <2>1. CASE Obtainable
    BY <1>3, <1>6, <2>1 DEF createOrGet, Obtainable, CallFrame
  <2>2. CASE Refuse \/ CallFails
    BY <1>2, <2>2 DEF Refuse, CallFails, ReturnError, Steps
  <2> QED BY <1>6, <2>1, <2>2 DEF createOrGet
<1>7. CASE resize \/ setInstanceTemplate
  BY <1>3, <1>7 DEF resize, setInstanceTemplate, CallFrame, ZonalInv
<1> QED BY <1>4, <1>5, <1>6, <1>7 DEF Next, Controller, Environment

LEMMA InitType == Init => TypeOK /\ ZonalInv
<1> SUFFICES ASSUME Init PROVE TypeOK /\ ZonalInv
  OBVIOUS
<1>1. obj \in Object
  BY DEF Init, ObjectInit, NoObject, NoStatus, Object, Count
<1>2. want \in Plan
  BY PoolNumbers DEF Init, NoPlan, Plan, Count
<1>3. mig \in [Zones -> Managers]
  BY DEF Init, NoMIG, Managers, Count
<1>4. PassTypes
  <2>1. faults \in 0..MaxFaults /\ edits \in 0..MaxEdits
    BY PoolBounds DEF Init, ObjectInit
  <2> QED BY <1>1, <2>1, NoObjectType DEF Init, ObjectInit, PassTypes, Steps
<1>5. CloudTypes
  BY <1>2, <1>3, NoPlanType DEF Init, CloudTypes
<1> QED BY <1>4, <1>5, TypeParts DEF Init, ObjectInit, ZonalInv

LEMMA ZonalCorrect == Spec => [](TypeOK /\ ZonalInv)
<1>1. TypeOK /\ ZonalInv /\ [Next]_vars => TypeOK' /\ ZonalInv'
  BY NextType, NextZonal
<1> QED BY <1>1, InitType, PTL DEF Spec

\* Every state of the pool's controller is well formed: a pass that has found a group
\* manager publishes the instances of a zone of the region.
THEOREM TypeCorrect == Spec => []TypeOK
BY ZonalCorrect, PTL

-----------------------------------------------------------------------------
(* The controller is built on ObjectController                             *)

LEMMA StepNamesDiffer == Runtime!StepNames
BY DEF Runtime!StepNames, Creating, Removing

\* A step of one of the two services, and what it may change of the pass.
LEMMA ServiceWork ==
    ASSUME TypeOK,
           \/ createOrGetInstanceTemplate \/ createOrGetUntagged
           \/ createOrGet \/ resize \/ setInstanceTemplate
           \/ publishInstances \/ deleteManager \/ deleteTemplates
    PROVE  Runtime!Work
<1> USE DEF Creating, Removing, Runtime!Work
<1>1. ASSUME Refuse \/ CallFails, pc \in Creating \cup Removing
      PROVE  Runtime!Work
  BY <1>1 DEF Refuse, CallFails, ReturnError, StepFrame
<1>2. ASSUME NEW next, NEW scope,
             \/ Continue(next, scope)
             \/ next = "ClosePatch" /\ (Return(TRUE, scope) \/ Return(FALSE, scope)),
             scope.finalizer = local.finalizer, scope.deleting = local.deleting,
             \/ pc \in Creating /\ next \in {"ClosePatch"} \cup Creating
             \/ pc \in Removing /\ next \in {"ClosePatch"} \cup Removing
      PROVE  Runtime!Work
  BY <1>2 DEF Continue, Return, StepFrame
<1>3. CASE createOrGetInstanceTemplate \/ createOrGet
  BY <1>1, <1>2, <1>3 DEF createOrGetInstanceTemplate, createOrGet
<1>4. CASE resize \/ setInstanceTemplate
  BY <1>1, <1>2, <1>4 DEF resize, setInstanceTemplate
<1>5. CASE publishInstances
  <2> DEFINE scope == [local EXCEPT !.spec = mig[zone].instances, !.status.ready = TRUE]
  <2>1. scope.finalizer = local.finalizer /\ scope.deleting = local.deleting
    BY DEF TypeOK, Object
  <2>2. pc = "Instances" /\ (Return(TRUE, scope) \/ CallFails)
    BY <1>5 DEF publishInstances
  <2> HIDE DEF scope
  <2> QED BY <1>1, <1>2, <2>1, <2>2
<1>6. CASE deleteManager \/ deleteTemplates
  BY <1>1, <1>2, <1>6 DEF deleteManager, deleteTemplates
<1>7. CASE createOrGetUntagged
  BY <1>7 DEF createOrGetUntagged, StepFrame
<1> QED BY <1>3, <1>4, <1>5, <1>6, <1>7

\* Every step is one of a controller built on ObjectController.
LEMMA NextIsStep ==
    ASSUME TypeOK, [Next]_vars
    PROVE  Runtime!Step
<1> USE DEF Runtime!Step
<1>1. CASE ReconcileIgnored(Available) \/ ReconcileFails \/ createScopeUnread \/ Resync
           \/ ClusterAppears \/ ClusterGoes \/ BootstrapReady \/ UserEdits
           \/ InstancesFollow \/ SiblingGrows \/ SiblingShrinks \/ UNCHANGED vars
  BY <1>1 DEF ReconcileIgnored, ReconcileFails, createScopeUnread, Dequeue, Resync,
     ClusterGoes, ClusterAppears, BootstrapReady,
     UserEdits, WantFrame, InstancesFollow, SiblingGrows, SiblingShrinks, OutsideFrame,
     ClientFrame, vars, passVars, Runtime!Elsewhere
<1>2. CASE AddFinalizer("Template")
  <2>1. Runtime!AddFinalizer("Template")
    BY <1>2 DEF AddFinalizer, Fault, NoFault, Runtime!AddFinalizer, Runtime!Fault,
                Runtime!NoFault
  <2> QED BY <2>1 DEF Creating
<1>3. CASE RemoveFinalizer
  BY <1>3 DEF RemoveFinalizer, Return, NoFault, StepFrame, Runtime!RemoveFinalizer,
              Runtime!Return, Runtime!NoFault, Runtime!StepFrame
<1>4. CASE ClosePatch
  BY <1>4 DEF ClosePatch, PatchChanged, Patched, Settle, NoObject, Fault, NoFault,
              Runtime!ClosePatch, Runtime!PatchChanged, Runtime!Patched, Runtime!Settle,
              Runtime!NoObject, Runtime!Fault, Runtime!NoFault
<1>5. CASE CloseStatus
  BY <1>5 DEF CloseStatus, Ended, StatusChanged, PatchedStatus, NoObject, Fault, NoFault,
              Runtime!CloseStatus, Runtime!Ended, Runtime!StatusChanged,
              Runtime!PatchedStatus, Runtime!NoObject, Runtime!Fault, Runtime!NoFault
<1>6. CASE UserDelete \/ Release \/ Pause
  BY <1>6 DEF UserDelete, Release, Pause, Settle, NoObject, Edit, ClientFrame,
              Runtime!UserDelete, Runtime!Release, Runtime!Pause, Runtime!Settle,
              Runtime!NoObject, Runtime!Edit, Runtime!ClientFrame
<1>7. CASE PoolSync
  BY <1>7 DEF PoolSync, Runtime!Watch
<1>8. CASE Crash
  BY <1>8 DEF Crash, Fault, Ended, NoObject, Runtime!Crash, Runtime!Fault, Runtime!Ended,
              Runtime!NoObject
<1>9. CASE Reconcile
  BY <1>9 DEF Reconcile, StartPass, Dequeue, Runtime!Begin, Removing
<1>10. CASE \/ createOrGetInstanceTemplate \/ createOrGetUntagged
            \/ createOrGet \/ resize \/ setInstanceTemplate
            \/ publishInstances \/ deleteManager \/ deleteTemplates
  BY <1>10, ServiceWork
<1> QED BY <1>1, <1>2, <1>3, <1>4, <1>5, <1>6, <1>7, <1>8, <1>9, <1>10
        DEF Next, Controller, Environment

\* What the runtime guarantees holds for pools.
LEMMA RuntimeCorrect == Spec => []Runtime!RuntimeInv
<1>1. Init => Runtime!RuntimeInv
  BY StepNamesDiffer, Runtime!RuntimeInit
     DEF Init, ObjectInit, NoObject, Runtime!ObjectInit, Runtime!NoObject
<1>2. TypeOK /\ TypeOK' /\ Runtime!RuntimeInv /\ [Next]_vars => Runtime!RuntimeInv'
  <2> SUFFICES ASSUME TypeOK, TypeOK', Runtime!RuntimeInv, [Next]_vars
               PROVE  Runtime!RuntimeInv'
    OBVIOUS
  <2>1. Runtime!Typed(Count, Statuses)
    BY TypedObjects
  <2>2. Runtime!Typed(Count, Statuses)'
    BY TypedObjects, PTL
  <2> QED BY <2>1, <2>2, StepNamesDiffer, NextIsStep, Runtime!RuntimeStep
<1> QED BY <1>1, <1>2, TypeCorrect, PTL DEF Spec

-----------------------------------------------------------------------------
(* What a step may do to the group managers and the templates              *)

\* GCP keeps the template of a group manager.
LinkInv == \A z \in MIGs : mig[z].template \in templates

\* A template is made at the step that makes it, a group manager at its own, and a
\* group manager goes only at the step of a deletion pass that deletes it.
CloudMoves ==
    /\ \/ MIGs' = MIGs
       \/ pc = "Manager" /\ \E z \in Zones : MIGs' = MIGs \cup {z}
       \/ pc = "DeleteManager" /\ \E z \in Zones : MIGs' = MIGs \ {z}
    /\ templates' \subseteq templates \/ pc = "Template"

\* The group manager of a pass's zone, as the services leave it.
LEMMA ManagerMoves ==
    ASSUME TypeOK, Zonal(plan), LinkInv, UNCHANGED templates
    PROVE  /\ mig' = mig => MIGs' = MIGs /\ LinkInv'
           /\ Obtainable /\ mig' = Obtained => MIGs' = MIGs \cup {zone} /\ LinkInv'
           /\ mig' = Resized => MIGs' = MIGs /\ LinkInv'
           /\ plan.content \in templates /\ mig' = Retemplated => MIGs' = MIGs /\ LinkInv'
           /\ mig' = Deleted => MIGs' = MIGs \ {zone} /\ LinkInv'
<1>0. mig \in [Zones -> Managers] /\ plan \in Plan /\ conf \in Pools
  BY DEF TypeOK, Managers
<1>1. zone \in Zones
  BY <1>0, ZonalZone DEF zone
<1>2. ASSUME mig' = mig PROVE MIGs' = MIGs /\ LinkInv'
  BY <1>2 DEF MIGs, LinkInv
<1>3. ASSUME Obtainable, mig' = Obtained
      PROVE  MIGs' = MIGs \cup {zone} /\ LinkInv'
  <2>1. CASE mig[zone].exists
    BY <1>1, <1>3, <2>1 DEF Obtained, MIGs, LinkInv
  <2>2. CASE ~mig[zone].exists
    <3>1. plan.content \in templates
      BY <1>3, <2>2 DEF Obtainable
    <3> QED BY <1>0, <1>1, <1>3, <2>2, <3>1 DEF Obtained, MIGs, LinkInv
  <2> QED BY <2>1, <2>2
<1>4. ASSUME mig' = Resized PROVE MIGs' = MIGs /\ LinkInv'
  <2>1. \A z \in Zones : mig'[z].exists = mig[z].exists /\ mig'[z].template = mig[z].template
    BY <1>0, <1>1, <1>4 DEF Resized, Managers
  <2> QED BY <2>1 DEF MIGs, LinkInv
<1>5. ASSUME plan.content \in templates, mig' = Retemplated
      PROVE  MIGs' = MIGs /\ LinkInv'
  <2>1. \A z \in Zones : /\ mig'[z].exists = mig[z].exists
                         /\ mig'[z].template \in {mig[z].template, plan.content}
    BY <1>0, <1>1, <1>5 DEF Retemplated, Managers
  <2> QED BY <1>5, <2>1 DEF MIGs, LinkInv
<1>6. ASSUME mig' = Deleted PROVE MIGs' = MIGs \ {zone} /\ LinkInv'
  BY <1>0, <1>1, <1>6 DEF Deleted, NoMIG, MIGs, LinkInv
<1> QED BY <1>2, <1>3, <1>4, <1>5, <1>6

LEMMA CloudKept ==
    ASSUME LinkInv, UNCHANGED <<mig, templates>>
    PROVE  CloudMoves /\ LinkInv'
BY DEF CloudMoves, LinkInv, MIGs

\* Every step keeps the templates in use.
LEMMA NextMoves ==
    ASSUME TypeOK, ZonalInv, LinkInv, [Next]_vars
    PROVE  CloudMoves /\ LinkInv'
<1>1. CASE \/ UNCHANGED cloudVars \/ PoolSync \/ Resync \/ ClusterAppears
           \/ ClusterGoes \/ BootstrapReady \/ UserEdits \/ SiblingGrows \/ publishInstances
           \/ Reconcile \/ UNCHANGED vars
  BY <1>1, CloudKept DEF cloudVars, PoolSync, Resync, ClusterAppears, BootstrapReady,
     UserEdits, ClusterGoes, WantFrame, SiblingGrows, publishInstances, Reconcile, vars
<1>2. CASE createOrGetInstanceTemplate \/ createOrGetUntagged
  <2>1. pc = "Template" /\ mig' = mig /\ templates \subseteq templates'
    BY <1>2 DEF createOrGetInstanceTemplate, createOrGetUntagged
  <2> QED BY <2>1 DEF CloudMoves, LinkInv, MIGs
<1>3. CASE createOrGet
  <2>1. pc = "Manager" /\ UNCHANGED templates
        /\ (mig' = mig \/ (Obtainable /\ mig' = Obtained))
    BY <1>3 DEF createOrGet
  <2>2. CASE mig' = mig
    BY <2>1, <2>2, CloudKept
  <2>3. CASE Obtainable /\ mig' = Obtained
    <3>1. Zonal(plan) /\ zone \in Zones
      BY <2>3, ZonalZone DEF Obtainable, zone, TypeOK
    <3> QED BY <2>1, <2>3, <3>1, ManagerMoves DEF CloudMoves
  <2> QED BY <2>1, <2>2, <2>3
<1>4. CASE resize \/ setInstanceTemplate
  <2>1. Zonal(plan)
    BY <1>4 DEF resize, setInstanceTemplate, ZonalInv
  <2>2. UNCHANGED templates /\ \/ mig' \in {mig, Resized}
                               \/ plan.content \in templates /\ mig' = Retemplated
    BY <1>4 DEF resize, setInstanceTemplate
  <2> QED BY <2>1, <2>2, ManagerMoves DEF CloudMoves
<1>5. CASE deleteManager
  <2>1. pc = "DeleteManager" /\ UNCHANGED templates
        /\ (mig' = mig \/ (Zonal(plan) /\ mig' = Deleted))
    BY <1>5 DEF deleteManager
  <2>2. CASE mig' = mig
    BY <2>1, <2>2, CloudKept
  <2>3. CASE Zonal(plan) /\ mig' = Deleted
    <3>1. zone \in Zones
      BY <2>3, ZonalZone DEF zone, TypeOK
    <3> QED BY <2>1, <2>3, <3>1, ManagerMoves DEF CloudMoves
  <2> QED BY <2>1, <2>2, <2>3
<1>6. CASE deleteTemplates \/ SiblingShrinks
  <2>1. mig' = mig /\ templates' \subseteq templates
        /\ (Kept \subseteq templates')
    BY <1>6 DEF deleteTemplates, SiblingShrinks, Kept
  <2> QED BY <2>1 DEF CloudMoves, LinkInv, MIGs, Kept, InUse
<1>7. CASE InstancesFollow
  <2>1. PICK z \in MIGs : mig' = [mig EXCEPT ![z].instances = mig[z].size]
    BY <1>7 DEF InstancesFollow
  <2>2. \A y \in Zones : mig'[y].exists = mig[y].exists /\ mig'[y].template = mig[y].template
    BY <2>1 DEF TypeOK, MIGs
  <2>3. UNCHANGED templates
    BY <1>7 DEF InstancesFollow
  <2> QED BY <2>2, <2>3 DEF CloudMoves, LinkInv, MIGs
<1> QED BY <1>1, <1>2, <1>3, <1>4, <1>5, <1>6, <1>7 DEF Next, Controller, Environment

-----------------------------------------------------------------------------
(* FinalizerGuards                                                         *)

Nothing == MIGs = {} /\ templates = {}

\* What the pool made is there only behind the persisted finalizer, GCP keeps what is in
\* use, and a pass drops the finalizer only after it has seen the last template go.
GuardInv ==
    /\ LinkInv
    /\ ~Nothing => obj.finalizer
    /\ pc = "RemoveFinalizer" => Nothing
    /\ before.finalizer /\ ~local.finalizer => Nothing

LEMMA GuardInit == Init => GuardInv
<1> SUFFICES ASSUME Init PROVE GuardInv
  OBVIOUS
<1>1. MIGs = {} /\ templates = {}
  BY DEF Init, NoMIG, MIGs
<1> QED BY <1>1 DEF Init, ObjectInit, GuardInv, LinkInv, Nothing

LEMMA GuardStep ==
    ASSUME TypeOK, TypeOK', ZonalInv, Runtime!RuntimeInv, GuardInv, [Next]_vars
    PROVE  GuardInv'
<1>0. /\ CloudMoves /\ LinkInv' /\ Runtime!ObjectMoves /\ Runtime!Step
      /\ Runtime!Typed(Count, Statuses)
  BY NextMoves, NextIsStep, StepNamesDiffer, TypedObjects, Runtime!StepMoves DEF GuardInv
<1>1. Nothing => Nothing' \/ pc \in {"Template", "Manager"}
  BY <1>0 DEF CloudMoves, Nothing
<1>2. pc \in {"Template", "Manager"} => obj.finalizer /\ obj'.finalizer
  BY <1>0 DEF Runtime!RuntimeInv, Runtime!PassInv, Runtime!ObjectInv, Runtime!ObjectMoves,
              Creating
<1>3. ~Nothing' => obj'.finalizer
  BY <1>0, <1>1, <1>2 DEF GuardInv, Runtime!ObjectMoves
<1>4. pc' = "RemoveFinalizer" => Nothing'
  <2>1. CASE pc = "RemoveFinalizer"
    BY <1>1, <2>1 DEF GuardInv
  <2>2. CASE deleteTemplates
    <3>1. mig' = mig /\ MIGs' = MIGs
      BY <2>2 DEF deleteTemplates, MIGs
    <3>2. ASSUME Kept = {}, templates' = Kept PROVE Nothing'
      BY <1>0, <3>1, <3>2 DEF LinkInv, Nothing
    <3> QED BY <2>2, <3>2 DEF deleteTemplates, Refuse, CallFails, ReturnError
  <2>3. CASE pc # "RemoveFinalizer" /\ ~deleteTemplates
    <3>1. CASE createOrGetInstanceTemplate \/ createOrGetUntagged \/ createOrGet \/ resize
               \/ setInstanceTemplate \/ publishInstances \/ deleteManager
      BY <3>1 DEF createOrGetInstanceTemplate, createOrGetUntagged, createOrGet, resize,
         setInstanceTemplate,
         publishInstances, deleteManager, Continue, Return, Refuse, CallFails, ReturnError
    <3>2. CASE ReconcileIgnored(Available) \/ ReconcileFails \/ createScopeUnread
               \/ AddFinalizer("Template")
               \/ RemoveFinalizer \/ ClosePatch \/ CloseStatus \/ Crash
               \/ UserDelete \/ Release \/ Pause
      BY <2>3, <3>2 DEF ReconcileIgnored, ReconcileFails, createScopeUnread, AddFinalizer,
         RemoveFinalizer,
         Return, ClosePatch, CloseStatus, Crash, Ended, UserDelete, Release, Pause,
         ClientFrame
    <3>3. CASE Reconcile
      BY <3>3 DEF Reconcile, StartPass
    <3>4. CASE \/ PoolSync \/ Resync \/ ClusterAppears \/ ClusterGoes \/ BootstrapReady \/ UserEdits
               \/ InstancesFollow \/ SiblingGrows \/ SiblingShrinks \/ UNCHANGED vars
      BY <2>3, <3>4 DEF PoolSync, Resync, ClusterAppears, ClusterGoes, BootstrapReady, UserEdits,
         WantFrame, InstancesFollow, SiblingGrows, SiblingShrinks, OutsideFrame,
         ClientFrame, vars, passVars
    <3> QED BY <2>3, <3>1, <3>2, <3>3, <3>4 DEF Next, Controller, Environment
  <2> QED BY <2>1, <2>2, <2>3
<1>5. before'.finalizer /\ ~local'.finalizer => Nothing'
  <2> SUFFICES ASSUME before'.finalizer, ~local'.finalizer PROVE Nothing'
    OBVIOUS
  <2>1. pc = "RemoveFinalizer" \/ (before.finalizer /\ ~local.finalizer)
    BY <1>0, Runtime!FinalizerDropped
  <2>2. pc \notin {"Template", "Manager"}
    BY <2>1 DEF Runtime!RuntimeInv, Runtime!PassInv
  <2> QED BY <1>1, <2>1, <2>2 DEF GuardInv
<1> QED BY <1>0, <1>3, <1>4, <1>5 DEF GuardInv

LEMMA GuardCorrect == Spec => []GuardInv
<1>1. TypeOK /\ TypeOK' /\ ZonalInv /\ Runtime!RuntimeInv /\ GuardInv /\ [Next]_vars
      => GuardInv'
  BY GuardStep
<1> QED BY <1>1, GuardInit, ZonalCorrect, RuntimeCorrect, PTL DEF Spec

\* Whatever the pool has made, in whichever zone and of whichever content, is there
\* only while the GCPMachinePool and its finalizer are.
THEOREM FinalizerCorrect == Spec => []FinalizerGuards
<1>1. Runtime!RuntimeInv /\ GuardInv => FinalizerGuards
  BY DEF Runtime!RuntimeInv, Runtime!ObjectInv, GuardInv, Nothing, FinalizerGuards
<1> QED BY <1>1, RuntimeCorrect, GuardCorrect, PTL

-----------------------------------------------------------------------------
(* ImplementsLifecycle                                                     *)

LEMMA LifecycleInit == Init => Lifecycle!LInit
<1> SUFFICES ASSUME Init PROVE Lifecycle!LInit
  OBVIOUS
<1>1. MIGs = {}
  BY DEF Init, NoMIG, MIGs
<1>2. obj.exists /\ obj.deleting = FALSE /\ obj.finalizer = FALSE
  BY DEF Init, ObjectInit, NoObject
<1> QED BY <1>1, <1>2 DEF Lifecycle!LInit, Phase

\* The object stays as it is while its group managers change.
LEMMA ManagersMove ==
    ASSUME [Next]_vars, MIGs' # MIGs
    PROVE  obj' = obj
<1>1. mig' # mig
  BY DEF MIGs
<1>2. CASE createOrGet \/ resize \/ setInstanceTemplate \/ deleteManager
  BY <1>2 DEF createOrGet, resize, setInstanceTemplate, deleteManager, Continue, Refuse,
     CallFails, ReturnError, StepFrame
<1>3. CASE InstancesFollow
  BY <1>3 DEF InstancesFollow, OutsideFrame
<1> QED BY <1>1, <1>2, <1>3
        DEF Next, Controller, Environment, cloudVars, vars, Reconcile, PoolSync, Resync,
            createOrGetInstanceTemplate, createOrGetUntagged, publishInstances,
            deleteTemplates, ClusterAppears, ClusterGoes, BootstrapReady, UserEdits, WantFrame,
            SiblingGrows, SiblingShrinks

\* A step of the pool is a step of the lifecycle, or none.
LEMMA LifecycleStep ==
    ASSUME TypeOK, TypeOK', ZonalInv, Runtime!RuntimeInv, GuardInv, [Next]_vars
    PROVE  [Lifecycle!LNext]_(Lifecycle!lvars)
<1> USE DEF Lifecycle!LNext, Lifecycle!lvars, Phase
<1>0. /\ CloudMoves /\ Runtime!ObjectMoves /\ Runtime!Step
      /\ obj \in Object /\ obj' \in Object
      /\ NoObject.exists = FALSE /\ NoObject.finalizer = FALSE /\ NoObject.deleting = FALSE
  BY NextMoves, NextIsStep, StepNamesDiffer, TypedObjects, Runtime!StepMoves
     DEF GuardInv, TypeOK, NoObject
<1>1. CASE MIGs' # MIGs
  <2>1. pc \in {"Manager", "DeleteManager"}
    BY <1>0, <1>1 DEF CloudMoves
  <2>2. /\ obj'.exists = obj.exists /\ obj'.finalizer = obj.finalizer
        /\ obj'.deleting = obj.deleting
    <3>1. obj' = obj
      BY <1>1, <2>1, ManagersMove
    <3> QED BY <3>1
  <2>3. CASE pc = "Manager"
    BY <1>0, <1>1, <2>2, <2>3
       DEF CloudMoves, Lifecycle!Acquire, Runtime!RuntimeInv, Runtime!PassInv, Creating
  <2>4. CASE pc = "DeleteManager"
    <3>1. obj.deleting \/ ~obj.exists
      BY <2>4 DEF Runtime!RuntimeInv, Runtime!PassInv, Removing
    <3>2. obj.finalizer
      BY <1>0, <1>1, <2>4 DEF CloudMoves, GuardInv, Nothing
    <3>3. obj.exists /\ obj.deleting
      BY <3>1, <3>2 DEF Runtime!RuntimeInv, Runtime!ObjectInv
    <3> QED BY <1>0, <1>1, <2>2, <2>4, <3>3 DEF CloudMoves, Lifecycle!GiveUp
  <2> QED BY <2>1, <2>3, <2>4
<1>2. CASE MIGs' = MIGs
  <2>1. CASE UNCHANGED <<obj.exists, obj.finalizer, obj.deleting>>
    BY <1>2, <2>1
  <2>2. CASE ~obj.finalizer /\ obj'.finalizer /\ obj.exists /\ obj'.exists
             /\ obj'.deleting = obj.deleting
    BY <1>2, <2>2 DEF Lifecycle!Protect, Runtime!RuntimeInv, Runtime!ObjectInv
  <2>3. CASE /\ obj.exists /\ obj'.exists /\ ~obj.deleting /\ obj'.deleting
             /\ obj'.finalizer = obj.finalizer /\ obj.finalizer
    BY <1>2, <2>3 DEF Lifecycle!RequestDelete
  <2>4. CASE obj.exists /\ ~obj.deleting /\ ~obj.finalizer /\ obj' = Runtime!NoObject
    BY <1>0, <1>2, <2>4, Runtime!NoObjectFields DEF Lifecycle!RequestDelete, Object
  <2>5. CASE obj.deleting /\ obj' = Runtime!NoObject /\ before.finalizer /\ ~local.finalizer
    BY <1>0, <1>2, <2>5, Runtime!NoObjectFields
       DEF Lifecycle!Finish, GuardInv, Nothing, Runtime!RuntimeInv, Runtime!ObjectInv
  <2> QED BY <1>0, <2>1, <2>2, <2>3, <2>4, <2>5 DEF Runtime!ObjectMoves
<1> QED BY <1>1, <1>2

\* The group managers of a pool are acquired behind the finalizer, given up only after
\* the deletion was asked for and gone when the object is: GCPMachinePool implements
\* ResourceLifecycle.
THEOREM LifecycleCorrect == Spec => ImplementsLifecycle
<1>1. TypeOK /\ TypeOK' /\ ZonalInv /\ Runtime!RuntimeInv /\ GuardInv /\ [Next]_vars
      => [Lifecycle!LNext]_(Lifecycle!lvars)
  BY LifecycleStep
<1> QED BY <1>1, LifecycleInit, ZonalCorrect, RuntimeCorrect, GuardCorrect, PTL
        DEF Spec, ImplementsLifecycle, Lifecycle!LSpec

=============================================================================
