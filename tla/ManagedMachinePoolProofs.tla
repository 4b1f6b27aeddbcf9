---------------------- MODULE ManagedMachinePoolProofs ----------------------
(***************************************************************************)
(* TLAPS proofs about ManagedMachinePool, for every set of zones, sizes    *)
(* and configurations and every bound on faults and edits: its types, with *)
(* the bound on the nodes of a node pool, and that a node pool stays       *)
(* behind the finalizer.                                                   *)
(***************************************************************************)
EXTENDS ManagedMachinePool, TLAPS, FiniteSetTheorems

Creating == {"NodePool"}

Removing == {"Delete"}

Runtime == INSTANCE ManagedObjectProofs WITH NoSpec <- 0

-----------------------------------------------------------------------------
(* Sizes and zones                                                         *)

LEMMA Quotient ==
    ASSUME NEW m \in Nat, NEW a \in 0..m, NEW b \in Nat \ {0}
    PROVE  a \div b \in 0..m
OBVIOUS

LEMMA Product ==
    ASSUME NEW m \in Nat, NEW n \in Nat, NEW a \in 0..m, NEW b \in 0..n
    PROVE  a * b \in 0..(m * n)
<1>1. a * b \in Nat /\ m * n \in Nat /\ m * b \in Nat
  OBVIOUS
<1>2. a * b <= m * b
  OBVIOUS
<1>3. m * b <= m * n
  OBVIOUS
<1> QED BY <1>1, <1>2, <1>3

LEMMA CountOfZones ==
    ASSUME NEW S \in SUBSET Zones
    PROVE  /\ Cardinality(S) \in 0..Cardinality(Zones)
           /\ S # {} => Cardinality(S) \in Nat \ {0}
<1>1. IsFiniteSet(Zones)
  BY NodePoolConfigs
<1>2. /\ IsFiniteSet(S)
      /\ Cardinality(S) <= Cardinality(Zones)
  BY <1>1, FS_Subset
<1>3. Cardinality(S) \in Nat /\ Cardinality(Zones) \in Nat
  BY <1>1, <1>2, FS_CardinalityType
<1>4. S # {} => Cardinality(S) # 0
  BY <1>2, FS_EmptySet
<1> QED BY <1>2, <1>3, <1>4

LEMMA NodeCountsType ==
    /\ Cardinality(Zones) \in Nat \ {0}
    /\ MaxSize * Cardinality(Zones) \in Nat \ {0}
    /\ 0 \in NodeCounts /\ 1 \in NodeCounts
<1>1. Cardinality(Zones) \in Nat \ {0}
  BY CountOfZones, NodePoolConfigs
<1>2. MaxSize \in Nat \ {0}
  BY NodePoolConfigs
<1>3. MaxSize * Cardinality(Zones) \in Nat \ {0}
  BY <1>1, <1>2
<1> QED BY <1>1, <1>3 DEF NodeCounts

-----------------------------------------------------------------------------
(* What a pass leaves of its copy                                          *)

Object == [exists : BOOLEAN, deleting : BOOLEAN, finalizer : BOOLEAN,
           want : Wants, spec : NodeCounts, status : Statuses]

\* A copy that differs in what the controller reports only.
Reported(s) ==
    {t \in Object : t.finalizer = s.finalizer /\ t.deleting = s.deleting}

LEMMA Reports ==
    ASSUME NEW s \in Object, NEW t \in Reported(s)
    PROVE  /\ Concluded(t) \in Reported(s)
           /\ \A b \in BOOLEAN : ReadyCond(t, b) \in Reported(s)
           /\ \A b \in BOOLEAN : Updating(t, b) \in Reported(s)
           /\ \A d \in {"absent", "present", "Deleted"} :
                 [t EXCEPT !.status.deleting = d] \in Reported(s)
           /\ \A n \in NodeCounts : [t EXCEPT !.spec = n] \in Reported(s)
<1>0. t \in Object /\ t.finalizer = s.finalizer /\ t.deleting = s.deleting
  BY DEF Reported
<1>1. t.status \in Statuses
  BY <1>0 DEF Object
<1>2. ASSUME NEW u \in Statuses PROVE [t EXCEPT !.status = u] \in Reported(s)
  BY <1>0, <1>2 DEF Object, Reported
<1>3. /\ [t.status EXCEPT !.ready = t.status.readyCond \/ t.status.updating] \in Statuses
      /\ \A b \in BOOLEAN : [t.status EXCEPT !.readyCond = b] \in Statuses
      /\ \A b \in BOOLEAN : [t.status EXCEPT !.updating = b] \in Statuses
      /\ \A d \in {"absent", "present", "Deleted"} : [t.status EXCEPT !.deleting = d] \in Statuses
  BY <1>1 DEF Statuses
<1>4. Concluded(t) = [t EXCEPT !.status =
                         [t.status EXCEPT !.ready = t.status.readyCond \/ t.status.updating]]
  BY <1>0 DEF Concluded, Object
<1>5. ASSUME NEW b \in BOOLEAN
      PROVE  /\ ReadyCond(t, b) = [t EXCEPT !.status = [t.status EXCEPT !.readyCond = b]]
             /\ Updating(t, b) = [t EXCEPT !.status = [t.status EXCEPT !.updating = b]]
  BY <1>0 DEF ReadyCond, Updating, Object
<1>6. ASSUME NEW d \in {"absent", "present", "Deleted"}
      PROVE  [t EXCEPT !.status.deleting = d]
                = [t EXCEPT !.status = [t.status EXCEPT !.deleting = d]]
  BY <1>0 DEF Object
<1>7. \A n \in NodeCounts : [t EXCEPT !.spec = n] \in Reported(s)
  BY <1>0 DEF Object, Reported
<1> QED BY <1>2, <1>3, <1>4, <1>5, <1>6, <1>7

-----------------------------------------------------------------------------
(* Types                                                                   *)

NodePools == [status : {"none", "PROVISIONING", "RUNNING", "RECONCILING", "STOPPING",
                        "ERROR"},
              count : 0..MaxSize, zones : SUBSET Zones, config : Configs \cup {0},
              autoscaling : {"none", "off", "on"}, nodes : NodeCounts, early : BOOLEAN]

Steps == {"Idle", "Finalizer", "NodePool", "Delete", "Close"}

PassTypes ==
    /\ obj \in Object /\ pass \in [pc : Steps, local : Object]
    /\ faults \in 0..MaxFaults

OtherTypes ==
    /\ active \in BOOLEAN /\ terse \in BOOLEAN /\ cp \in {"absent", "notready", "ready"}
    /\ np \in NodePools /\ edits \in 0..MaxEdits

LEMMA TypeParts == TypeOK <=> PassTypes /\ OtherTypes
BY DEF TypeOK, PassTypes, OtherTypes, ObjectType, PassType, Object, NodePools, Steps

\* A node pool is in some zone, so that its size can be spread.
ZonesInv == np.status # "none" => np.zones # {}

LEMMA NoObjectType ==
    ASSUME TypeOK
    PROVE  NoObject \in Object /\ NoPass \in [pc : Steps, local : Object]
<1>1. NoWant \in Wants
  BY TypeParts DEF PassTypes, Object, NoWant
<1>2. NoStatus \in Statuses
  BY DEF NoStatus, Statuses
<1>3. NoObject \in Object
  BY <1>1, <1>2, NodeCountsType DEF NoObject, Object
<1> QED BY <1>3 DEF NoPass, Steps

LEMMA TypedObjects == TypeOK => Runtime!Typed(Wants, NodeCounts, Statuses)
<1> SUFFICES ASSUME TypeOK PROVE Runtime!Typed(Wants, NodeCounts, Statuses)
  OBVIOUS
<1>1. NoWant \in Wants
  BY TypeParts DEF PassTypes, Object, NoWant
<1>2. NoStatus \in Statuses
  BY DEF NoStatus, Statuses
<1> QED BY <1>1, <1>2, TypeParts, NodeCountsType
        DEF PassTypes, Object, Runtime!Typed, Runtime!Objects

LEMMA CountTypes ==
    ASSUME TypeOK
    PROVE  /\ Fault => faults' \in 0..MaxFaults
           /\ Edit => edits' \in 0..MaxEdits
BY NodePoolBounds DEF TypeOK, Fault, Edit

\* A new node pool fits.
LEMMA NewTypes ==
    ASSUME NEW w \in Wants, NEW n \in NewNodePools(w)
    PROVE  n \in NodePools /\ n.zones # {} /\ n.status # "none" /\ n.early = FALSE
<1>1. w.size \in 0..MaxSize /\ w.config \in Configs /\ w.scaling \in {"unset", "off"}
  BY NodePoolSpecs DEF Specs
<1>2. ZonesOf(w) \in SUBSET Zones /\ ZonesOf(w) # {}
  BY NodePoolConfigs, NodePoolSpecs DEF Specs, ZonesOf
<1>3. w.size \div Cardinality(ZonesOf(w)) \in 0..MaxSize
  BY <1>1, <1>2, CountOfZones, Quotient, NodePoolConfigs
<1>4. PICK c \in {0, w.config}, a \in {"none", "off"} :
          n = [status |-> "PROVISIONING", count |-> w.size \div Cardinality(ZonesOf(w)),
               zones |-> ZonesOf(w), config |-> c, autoscaling |-> a, nodes |-> 0,
               early |-> FALSE]
  BY DEF NewNodePools, ReportedConfig, ReportedScaling
<1>5. c \in Configs \cup {0} /\ a \in {"none", "off", "on"}
  BY <1>1, <1>4
<1> HIDE DEF ZonesOf
<1> QED BY <1>2, <1>3, <1>4, <1>5, NodeCountsType DEF NodePools

-----------------------------------------------------------------------------
(* The node pool service                                                   *)

\* A step of the service ends the pass, and reports.
Ends ==
    /\ pass.pc \in {"NodePool", "Delete"}
    /\ UNCHANGED <<obj, edits, active, cp, terse>>
    /\ Fault \/ UNCHANGED faults
    /\ \E t \in Reported(pass.local) : pass' = [pc |-> "Close", local |-> t]

LEMMA EndsWith ==
    ASSUME pass.pc \in {"NodePool", "Delete"}, NEW t \in Reported(pass.local),
           Return(t) \/ CallFails(t), Frame
    PROVE  Ends
BY DEF Return, Go, CallFails, Frame, Ends

LEMMA ServiceEnds ==
    ASSUME TypeOK,
           \/ createNodePool \/ observeNodePool
           \/ updateNodePoolConfig \/ updateNodePoolAutoscaling \/ updateNodePoolSize
           \/ nodePoolReconciled
    PROVE  Ends /\ pass.pc = "NodePool"
<1>0. scope \in Object /\ np.nodes \in NodeCounts /\ scope \in Reported(pass.local)
      /\ pass.local = scope
  BY TypeParts DEF PassTypes, OtherTypes, NodePools, scope, Reported
<1>1. Listed \in Reported(scope)
  BY <1>0, Reports DEF Listed
<1>2. Running \in Reported(scope)
  BY <1>0, <1>1, Reports DEF Running
<1>3. /\ Concluded(ReadyCond(scope, FALSE)) \in Reported(scope)
      /\ Concluded([ReadyCond(Listed, FALSE) EXCEPT !.status.deleting = "present"])
            \in Reported(scope)
      /\ Concluded([ReadyCond(Listed, FALSE) EXCEPT !.status.deleting = @]) \in Reported(scope)
      /\ Concluded(Updating(Listed, TRUE)) \in Reported(scope)
      /\ Concluded(Listed) \in Reported(scope)
  <2>1. ReadyCond(scope, FALSE) \in Reported(scope) /\ ReadyCond(Listed, FALSE) \in Reported(scope)
        /\ Updating(Listed, TRUE) \in Reported(scope)
    BY <1>0, <1>1, Reports
  <2>2. /\ [ReadyCond(Listed, FALSE) EXCEPT !.status.deleting = "present"] \in Reported(scope)
        /\ [ReadyCond(Listed, FALSE) EXCEPT !.status.deleting = @] \in Reported(scope)
    <3>1. ReadyCond(Listed, FALSE).status.deleting \in {"absent", "present", "Deleted"}
      BY <2>1 DEF Reported, Object, Statuses
    <3> HIDE DEF ReadyCond
    <3> QED BY <1>0, <2>1, <3>1, Reports
  <2> QED BY <1>0, <1>1, <2>1, <2>2, Reports
<1>4. /\ Concluded(Updating(Running, TRUE)) \in Reported(scope)
      /\ Concluded(Updating(Running, FALSE)) \in Reported(scope)
      /\ Concluded(Running) \in Reported(scope)
  BY <1>0, <1>2, Reports
<1>5. CASE createNodePool
  BY <1>0, <1>3, <1>5, EndsWith DEF createNodePool, At
<1>6. CASE observeNodePool
  BY <1>0, <1>3, <1>6, EndsWith DEF observeNodePool, At
<1>7. ASSUME NEW changed, update(changed) PROVE Ends /\ pass.pc = "NodePool"
  BY <1>0, <1>4, <1>7, EndsWith DEF update, At
<1>8. CASE nodePoolReconciled
  BY <1>0, <1>4, <1>8, EndsWith DEF nodePoolReconciled, At
<1> QED BY <1>5, <1>6, <1>7, <1>8
        DEF updateNodePoolConfig, updateNodePoolAutoscaling, updateNodePoolSize

\* The end of a deletion drops the finalizer, of a node pool that is not there.
DropsFinalizer ==
    /\ np.status = "none" /\ UNCHANGED np
    /\ pass.pc = "Delete" /\ UNCHANGED <<obj, edits, active, cp, terse, faults>>
    /\ \E t \in Object : /\ ~t.finalizer /\ t.deleting = pass.local.deleting
                         /\ pass' = [pc |-> "Close", local |-> t]

LEMMA DeleteEnds ==
    ASSUME TypeOK, Delete
    PROVE  pass.pc = "Delete" /\ (Ends \/ DropsFinalizer)
<1>0. scope \in Object /\ scope \in Reported(pass.local) /\ pass.local = scope
  BY TypeParts DEF PassTypes, scope, Reported
<1>1. /\ Concluded(scope) \in Reported(scope)
      /\ [scope EXCEPT !.status.deleting = "present"] \in Reported(scope)
      /\ [scope EXCEPT !.status.deleting = "Deleted"] \in Reported(scope)
  BY <1>0, Reports
<1>2. /\ Concluded([scope EXCEPT !.status.deleting = "present"]) \in Reported(scope)
      /\ ReadyCond([scope EXCEPT !.status.deleting = "present"], FALSE) \in Reported(scope)
  BY <1>0, <1>1, Reports
<1>3. Concluded(ReadyCond([scope EXCEPT !.status.deleting = "present"], FALSE))
        \in Reported(scope)
  BY <1>0, <1>2, Reports
<1>4. Concluded(Gone(scope)) \in Object /\ ~Concluded(Gone(scope)).finalizer
      /\ Concluded(Gone(scope)).deleting = scope.deleting
  <2> DEFINE marked == [scope EXCEPT !.status.deleting = "Deleted"]
  <2>1. Gone(scope) = [marked EXCEPT !.finalizer = FALSE]
    BY <1>0 DEF Gone, Object
  <2>2. marked \in Object /\ marked.deleting = scope.deleting
    BY <1>1 DEF Reported
  <2> HIDE DEF marked
  <2>3. Gone(scope) \in Object /\ Gone(scope).deleting = scope.deleting
        /\ ~Gone(scope).finalizer
    BY <2>1, <2>2 DEF Object
  <2>4. Gone(scope) \in Reported(Gone(scope))
    BY <2>3 DEF Reported
  <2>5. Concluded(Gone(scope)) \in Reported(Gone(scope))
    BY <2>3, <2>4, Reports
  <2> QED BY <2>3, <2>5 DEF Reported
<1>5. CASE np.status = "none" /\ Return(Concluded(Gone(scope))) /\ UNCHANGED np
  BY <1>0, <1>4, <1>5 DEF Delete, At, Frame, Return, Go, DropsFinalizer
<1>6. ASSUME NEW t \in Reported(scope), Return(t) \/ CallFails(t)
      PROVE  Ends
  BY <1>0, <1>6, EndsWith DEF Delete, At
<1> QED BY <1>1, <1>2, <1>3, <1>5, <1>6 DEF Delete, At

\* What the steps leave of the node pool.
LEMMA NodePoolTypes ==
    ASSUME TypeOK, ZonesInv
    PROVE  /\ \A st \in {"RUNNING", "RECONCILING", "STOPPING", "ERROR"} :
                 /\ [np EXCEPT !.status = st] \in NodePools
                 /\ [np EXCEPT !.status = st].zones = np.zones
           /\ \A b \in BOOLEAN : /\ [np EXCEPT !.early = b] \in NodePools
                                 /\ [np EXCEPT !.early = b].zones = np.zones
                                 /\ [np EXCEPT !.early = b].status = np.status
           /\ NoNodePool \in NodePools
<1>1. np \in NodePools
  BY TypeParts DEF OtherTypes
<1>2. NoNodePool \in NodePools
  BY NodeCountsType, NodePoolConfigs DEF NodePools, NoNodePool
<1>3. \A st \in {"RUNNING", "RECONCILING", "STOPPING", "ERROR"} :
         /\ [np EXCEPT !.status = st] \in NodePools
         /\ [np EXCEPT !.status = st].zones = np.zones
  BY <1>1 DEF NodePools
<1> QED BY <1>1, <1>2, <1>3 DEF NodePools

\* What a running node pool is changed to.
LEMMA UpdateTypes ==
    ASSUME TypeOK, ZonesInv, np.status # "none",
           NEW changed \in {[np EXCEPT !.config = ReportedConfig(want.config),
                                       !.zones = DesiredZones],
                            [np EXCEPT !.autoscaling = ReportedScaling(DesiredAutoscaling)],
                            [np EXCEPT !.count = DesiredCount]}
    PROVE  /\ changed \in NodePools /\ changed.zones # {}
           /\ [changed EXCEPT !.status = "RECONCILING"] \in NodePools
           /\ [changed EXCEPT !.status = "RECONCILING"].zones # {}
           /\ [changed EXCEPT !.status = "RECONCILING"].early = np.early
<1>0. np \in NodePools /\ np.zones # {} /\ np.zones \in SUBSET Zones /\ want \in Wants
  BY TypeParts DEF OtherTypes, PassTypes, NodePools, ZonesInv, want, scope, Object
<1>1. want.size \in 0..MaxSize /\ ReportedConfig(want.config) \in Configs \cup {0}
  BY <1>0, NodePoolSpecs DEF Specs, ReportedConfig
<1>2. DesiredZones \in SUBSET Zones /\ DesiredZones # {}
  BY <1>0, NodePoolSpecs DEF DesiredZones, Specs
<1>3. DesiredCount \in 0..MaxSize
  BY <1>0, <1>1, CountOfZones, Quotient, NodePoolConfigs DEF DesiredCount
<1>4. ReportedScaling(DesiredAutoscaling) \in {"none", "off", "on"}
  BY DEF DesiredAutoscaling, ReportedScaling
<1>5. changed \in NodePools /\ changed.zones # {} /\ changed.early = np.early
  BY <1>0, <1>1, <1>2, <1>3, <1>4 DEF NodePools
<1> QED BY <1>5 DEF NodePools

LEMMA ServiceTypes ==
    ASSUME TypeOK, ZonesInv,
           \/ createNodePool \/ observeNodePool
           \/ updateNodePoolConfig \/ updateNodePoolAutoscaling \/ updateNodePoolSize
           \/ nodePoolReconciled \/ Delete
    PROVE  TypeOK' /\ ZonesInv'
<1>0. np \in NodePools /\ want \in Wants
  BY TypeParts DEF OtherTypes, PassTypes, want, scope, Object
<1>1. Ends \/ DropsFinalizer
  BY ServiceEnds, DeleteEnds
<1>2. PassTypes'
  BY <1>1, TypeParts, CountTypes
     DEF Ends, DropsFinalizer, PassTypes, Steps, Reported
<1>3. np' \in NodePools /\ ZonesInv'
  <2>1. CASE createNodePool
    BY <1>0, <2>1, NewTypes DEF createNodePool, ZonesInv
  <2>2. CASE observeNodePool \/ nodePoolReconciled
    BY <1>0, <2>2 DEF observeNodePool, nodePoolReconciled, ZonesInv
  <2>3. ASSUME NEW changed, update(changed),
               changed \in {[np EXCEPT !.config = ReportedConfig(want.config),
                                       !.zones = DesiredZones],
                            [np EXCEPT !.autoscaling = ReportedScaling(DesiredAutoscaling)],
                            [np EXCEPT !.count = DesiredCount]}
        PROVE  np' \in NodePools /\ ZonesInv'
    <3>1. np.status = "RUNNING" /\ np' \in {np, [changed EXCEPT !.status = "RECONCILING"]}
      BY <2>3 DEF update
    <3>2. /\ [changed EXCEPT !.status = "RECONCILING"] \in NodePools
          /\ [changed EXCEPT !.status = "RECONCILING"].zones # {}
      BY <2>3, <3>1, UpdateTypes
    <3> QED BY <1>0, <3>1, <3>2 DEF ZonesInv
  <2>4. CASE Delete
    <3>1. np' = np \/ (np.status # "none" /\ np' = [np EXCEPT !.status = "STOPPING"])
      BY <2>4 DEF Delete
    <3> QED BY <1>0, <3>1, NodePoolTypes DEF ZonesInv
  <2> QED BY <2>1, <2>2, <2>3, <2>4
          DEF updateNodePoolConfig, updateNodePoolAutoscaling, updateNodePoolSize
<1>4. OtherTypes'
  BY <1>1, <1>3, TypeParts DEF Ends, DropsFinalizer, OtherTypes
<1> QED BY <1>2, <1>3, <1>4, TypeParts, PTL

\* The other steps.
LEMMA OtherStepTypes ==
    ASSUME TypeOK, ZonesInv,
           \/ Reconcile \/ SetFinalizer \/ (Close /\ UNCHANGED np /\ Frame) \/ Environment
    PROVE  TypeOK' /\ ZonesInv'
<1>0. /\ np \in NodePools /\ obj \in Object /\ pass \in [pc : Steps, local : Object]
      /\ pass.local \in Object
  BY TypeParts DEF OtherTypes, PassTypes
<1>1. CASE Reconcile
  <2>1. PassTypes'
    BY <1>0, <1>1, TypeParts DEF Reconcile, Begin, PassTypes, Steps
  <2>2. OtherTypes' /\ ZonesInv'
    BY <1>1, TypeParts DEF Reconcile, Frame, OtherTypes, ZonesInv
  <2> QED BY <2>1, <2>2, TypeParts, PTL
<1>2. CASE SetFinalizer
  <2> DEFINE copy == [pass.local EXCEPT !.finalizer = TRUE]
             patched == [obj EXCEPT !.finalizer = TRUE]
  <2>1. copy \in Object /\ patched \in Object
    BY <1>0 DEF Object
  <2>2. PassTypes'
    <3>1. /\ pass' \in {[pc |-> "NodePool", local |-> copy], [pc |-> "Close", local |-> copy]}
          /\ obj' \in {obj, patched} /\ (Fault \/ UNCHANGED faults)
      BY <1>2 DEF SetFinalizer, AddFinalizer, Return, Go
    <3> HIDE DEF copy, patched
    <3> QED BY <1>0, <2>1, <3>1, TypeParts, CountTypes DEF PassTypes, Steps
  <2>3. (np.early /\ ~obj'.finalizer) \in BOOLEAN
    OBVIOUS
  <2>4. np' \in NodePools /\ ZonesInv'
    BY <1>0, <1>2, <2>3, NodePoolTypes DEF SetFinalizer, ZonesInv
  <2>5. OtherTypes'
    BY <1>2, <2>4, TypeParts DEF SetFinalizer, Frame, OtherTypes
  <2> QED BY <2>2, <2>4, <2>5, TypeParts, PTL
<1>3. CASE Close /\ UNCHANGED np /\ Frame
  <2>1. /\ Metadata(obj) \in Object /\ Status(obj) \in Object
        /\ Metadata(Status(obj)) \in Object
    BY <1>0 DEF Metadata, Status, Object
  <2>2. PassTypes'
    BY <1>0, <1>3, <2>1, TypeParts, CountTypes, NoObjectType DEF Close, Settle, PassTypes
  <2>3. OtherTypes' /\ ZonesInv'
    BY <1>3, TypeParts DEF Frame, OtherTypes, ZonesInv
  <2> QED BY <2>2, <2>3, TypeParts, PTL
<1>4. CASE Crash
  <2>1. PassTypes'
    BY <1>0, <1>4, TypeParts, CountTypes, NoObjectType DEF Crash, Stop, PassTypes
  <2>2. OtherTypes' /\ ZonesInv'
    BY <1>4, TypeParts DEF Crash, Frame, OtherTypes, ZonesInv
  <2> QED BY <2>1, <2>2, TypeParts, PTL
<1>5. CASE Release \/ Pause
  <2>1. PassTypes' /\ OtherTypes' /\ ZonesInv'
    BY <1>5, TypeParts, CountTypes DEF Release, Pause, PassTypes, OtherTypes, ZonesInv
  <2> QED BY <2>1, TypeParts, PTL
<1>6. CASE UserDeletes \/ UserEdits
  <2>1. obj' \in Object
    <3>1. [obj EXCEPT !.deleting = TRUE] \in Object
      BY <1>0 DEF Object
    <3>2. \A w \in Wants : [obj EXCEPT !.want = w] \in Object
      BY <1>0 DEF Object
    <3> QED BY <1>6, <3>1, <3>2, NoObjectType
            DEF UserDeletes, UserDelete, Settle, UserEdits, UserEdit
  <2>2. PassTypes' /\ OtherTypes' /\ ZonesInv'
    BY <1>6, <2>1, TypeParts, CountTypes
       DEF UserDeletes, UserEdits, Frame, PassTypes, OtherTypes, ZonesInv
  <2> QED BY <2>2, TypeParts, PTL
<1>7. CASE ClusterMade \/ ControlPlaneChanges \/ GKEFinishes \/ GKEChanges
  <2>1. PassTypes'
    BY <1>7, TypeParts DEF ClusterMade, ControlPlaneChanges, GKEFinishes, GKEChanges,
                           PassTypes
  <2>2. np' \in NodePools /\ ZonesInv'
    <3>1. CASE ClusterMade
      <4>1. CASE np' = np
        BY <1>0, <4>1 DEF ZonesInv
      <4>2. ASSUME NEW n \in NewNodePools(obj.want), np' = [n EXCEPT !.early = ~obj.finalizer]
            PROVE  np' \in NodePools /\ ZonesInv'
        <5>1. n \in NodePools /\ n.zones # {}
          BY <1>0, NewTypes DEF Object
        <5> QED BY <4>2, <5>1 DEF NodePools, ZonesInv
      <4> QED BY <3>1, <4>1, <4>2 DEF ClusterMade
    <3>2. CASE ControlPlaneChanges
      BY <1>0, <3>2 DEF ControlPlaneChanges, ZonesInv
    <3>3. CASE GKEFinishes
      <4>1. Spread(np) \in NodeCounts
        <5>1. np.count \in 0..MaxSize /\ Cardinality(np.zones) \in 0..Cardinality(Zones)
          BY <1>0, CountOfZones DEF NodePools
        <5> QED BY <5>1, Product, NodeCountsType, NodePoolConfigs DEF Spread, NodeCounts
      <4>2. CASE np' = NoNodePool
        BY <4>2, NodePoolTypes DEF NoNodePool, ZonesInv
      <4>3. ASSUME NEW k \in NodeCounts,
                   np.status \in {"PROVISIONING", "RECONCILING"},
                   np' = [np EXCEPT !.status = "RUNNING", !.nodes = k]
            PROVE  np' \in NodePools /\ ZonesInv'
        BY <1>0, <4>3 DEF NodePools, ZonesInv
      <4>4. np.nodes \in NodeCounts
        BY <1>0 DEF NodePools
      <4> QED BY <3>3, <4>1, <4>2, <4>3, <4>4 DEF GKEFinishes
    <3>4. CASE GKEChanges
      <4>1. CASE \E st \in {"RECONCILING", "STOPPING", "ERROR"} :
                    np' = [np EXCEPT !.status = st] /\ np.status # "none"
        BY <1>0, <4>1, NodePoolTypes DEF ZonesInv
      <4>2. CASE \E k \in {0, 1} : np' = [np EXCEPT !.nodes = k] /\ np.status = "RUNNING"
        BY <1>0, <4>2, NodeCountsType DEF NodePools, ZonesInv
      <4> QED BY <3>4, <4>1, <4>2 DEF GKEChanges
    <3> QED BY <1>7, <3>1, <3>2, <3>3, <3>4
  <2>3. OtherTypes'
    BY <1>7, <2>2, TypeParts, CountTypes
       DEF ClusterMade, ControlPlaneChanges, GKEFinishes, GKEChanges, Frame, OtherTypes
  <2> QED BY <2>1, <2>2, <2>3, TypeParts, PTL
<1> QED BY <1>1, <1>2, <1>3, <1>4, <1>5, <1>6, <1>7 DEF Environment

LEMMA InitType == Init => TypeOK /\ ZonesInv
<1> SUFFICES ASSUME Init PROVE TypeOK /\ ZonesInv
  OBVIOUS
<1>1. PICK w \in Wants : obj = Created(w)
  BY DEF Init
<1>2. NoWant \in Wants
  BY <1>1 DEF NoWant
<1>3. NoStatus \in Statuses
  BY DEF NoStatus, Statuses
<1>4. NoObject \in Object
  BY <1>2, <1>3, NodeCountsType DEF NoObject, Object
<1>5. obj \in Object
  BY <1>1, <1>4 DEF Created, Object
<1>6. faults \in 0..MaxFaults /\ edits \in 0..MaxEdits
  BY NodePoolBounds DEF Init
<1>7. np \in NodePools
  BY NodeCountsType, NodePoolConfigs DEF Init, NoNodePool, NodePools
<1>8. PassTypes
  BY <1>4, <1>5, <1>6 DEF Init, NoPass, PassTypes, Steps
<1>9. OtherTypes
  BY <1>6, <1>7 DEF Init, OtherTypes
<1> QED BY <1>8, <1>9, TypeParts DEF Init, NoNodePool, ZonesInv

LEMMA ZonesCorrect == Spec => [](TypeOK /\ ZonesInv)
<1>1. TypeOK /\ ZonesInv /\ [Next]_vars => TypeOK' /\ ZonesInv'
  <2> SUFFICES ASSUME TypeOK, ZonesInv, [Next]_vars PROVE TypeOK' /\ ZonesInv'
    OBVIOUS
  <2>1. CASE UNCHANGED vars
    BY <2>1 DEF vars, TypeOK, ObjectType, PassType, ZonesInv
  <2> QED BY <2>1, ServiceTypes, OtherStepTypes DEF Next, Controller
<1> QED BY <1>1, InitType, PTL DEF Spec

\* Every state of the controller is well formed: a node pool and the list of provider
\* IDs never have more nodes than the largest size in every zone of the region, also
\* while the size, the zones and the autoscaling of the pool change.
THEOREM TypeCorrect == Spec => []TypeOK
BY ZonesCorrect, PTL

-----------------------------------------------------------------------------
(* The controller is built on ManagedObject                                *)

LEMMA StepNamesDiffer == Runtime!StepNames
BY DEF Runtime!StepNames, Creating, Removing

\* Every step is one of a controller built on ManagedObject, and the finalizer is
\* dropped only when the node pool is not found.
LEMMA NextIsStep ==
    ASSUME TypeOK, [Next]_vars
    PROVE  /\ Runtime!Step
           /\ Runtime!Drop /\ pass.local.finalizer => DropsFinalizer
<1> USE DEF Runtime!Step
<1>1. CASE \/ Release \/ Pause \/ ClusterMade \/ ControlPlaneChanges \/ GKEFinishes
           \/ GKEChanges \/ UNCHANGED vars
  <2>1. UNCHANGED <<obj, pass>>
    BY <1>1 DEF Release, Pause, ClusterMade, ControlPlaneChanges, GKEFinishes, GKEChanges,
                vars
  <2> QED BY <2>1, TypeParts
          DEF Runtime!Elsewhere, Runtime!Drop, Removing, PassTypes
<1>2. CASE Reconcile
  BY <1>2 DEF Reconcile, Begin, At, Runtime!Starts, Runtime!At, Runtime!Drop, Removing
<1>3. CASE SetFinalizer
  <2>1. Runtime!AddFinalizer("NodePool") /\ pass.pc = "Finalizer"
    BY <1>3 DEF SetFinalizer, AddFinalizer, At, Return, Go, Fault, Runtime!AddFinalizer,
                Runtime!At, Runtime!Return, Runtime!Go, Runtime!Fault
  <2> QED BY <2>1 DEF Creating, Runtime!Drop, Removing
<1>4. CASE Ends
  <2>1. PICK t \in Reported(pass.local) : pass' = [pc |-> "Close", local |-> t]
    BY <1>4 DEF Ends
  <2>2. /\ t.finalizer = pass.local.finalizer /\ t.deleting = pass.local.deleting
        /\ pass'.local = t /\ pass'.pc = "Close"
    BY <2>1 DEF Reported
  <2>3. Runtime!Work
    BY <1>4, <2>2 DEF Ends, Runtime!Work, Creating, Removing
  <2> QED BY <2>2, <2>3 DEF Runtime!Drop
<1>5. CASE DropsFinalizer
  <2>1. Runtime!Drop
    BY <1>5 DEF DropsFinalizer, Runtime!Drop, Removing
  <2> QED BY <1>5, <2>1
<1>6. CASE Close
  BY <1>6 DEF Close, At, Settle, Metadata, Status, NoObject, NoPass, Fault, Runtime!Close,
              Runtime!At, Runtime!Settle, Runtime!Metadata, Runtime!Status,
              Runtime!NoObject, Runtime!NoPass, Runtime!Fault, Runtime!Drop, Removing
<1>7. CASE Crash
  BY <1>7 DEF Crash, Stop, NoPass, NoObject, Runtime!Stop, Runtime!NoPass,
              Runtime!NoObject, Runtime!Drop, Removing
<1>8. CASE UserDeletes
  BY <1>8 DEF UserDeletes, UserDelete, Settle, NoObject, Runtime!UserDelete,
              Runtime!Settle, Runtime!NoObject, Runtime!Drop, Removing
<1>9. CASE UserEdits
  BY <1>9 DEF UserEdits, UserEdit, Runtime!UserEdit, Runtime!Drop, Removing
<1> QED BY <1>1, <1>2, <1>3, <1>4, <1>5, <1>6, <1>7, <1>8, <1>9, ServiceEnds, DeleteEnds
        DEF Next, Controller, Environment

\* What ManagedObject guarantees holds for the pool.
LEMMA RuntimeCorrect == Spec => []Runtime!ManagedInv
<1>1. Init => Runtime!ManagedInv
  <2> SUFFICES ASSUME Init PROVE Runtime!ManagedInv
    OBVIOUS
  <2>1. PICK w \in Wants : obj = Runtime!Created(w) /\ pass = Runtime!NoPass
    BY DEF Init, Created, NoObject, NoPass, Runtime!Created, Runtime!NoObject,
           Runtime!NoPass
  <2> QED BY <2>1, StepNamesDiffer, Runtime!ManagedInit
<1>2. TypeOK /\ TypeOK' /\ Runtime!ManagedInv /\ [Next]_vars => Runtime!ManagedInv'
  <2> SUFFICES ASSUME TypeOK, TypeOK', Runtime!ManagedInv, [Next]_vars
               PROVE  Runtime!ManagedInv'
    OBVIOUS
  <2>1. Runtime!Typed(Wants, NodeCounts, Statuses)
    BY TypedObjects
  <2>2. Runtime!Typed(Wants, NodeCounts, Statuses)'
    BY TypedObjects, PTL
  <2> QED BY <2>1, <2>2, StepNamesDiffer, NextIsStep, Runtime!ManagedStep
<1> QED BY <1>1, <1>2, TypeCorrect, PTL DEF Spec

-----------------------------------------------------------------------------
(* FinalizerGuards                                                         *)

\* A node pool that was not made with the GKE cluster is there only behind the persisted
\* finalizer.  A pass drops the finalizer when it has found none, and until it closes
\* none is made: the GKE cluster was there when the pass began.
GuardInv ==
    /\ np.status # "none" => np.early \/ obj.finalizer
    /\ pass.pc # "Idle" => cp # "absent"
    /\ Runtime!Dropping => np.status = "none"

LEMMA GuardInit == Init => GuardInv
BY DEF Init, NoPass, NoNodePool, GuardInv, Runtime!Dropping, Runtime!At

\* The ways a step may change the node pool.
NodePoolMoves ==
    \/ np' = np
    \/ np'.status = "none"
    \/ np.status # "none" /\ np'.early = np.early
    \/ pass.pc = "NodePool"
    \/ cp = "absent" /\ obj' = obj /\ np'.early = ~obj.finalizer
    \/ np'.status = np.status /\ np'.early = (np.early /\ ~obj'.finalizer)

LEMMA NextMoves ==
    ASSUME TypeOK, ZonesInv, [Next]_vars
    PROVE  NodePoolMoves
<1> USE DEF NodePoolMoves
<1>0. np \in NodePools /\ obj \in Object /\ want \in Wants
  BY TypeParts DEF OtherTypes, PassTypes, want, scope, Object
<1>1. CASE createNodePool
  <2>1. pass.pc = "NodePool" /\ (np' = np \/ np' \in NewNodePools(want))
    BY <1>1 DEF createNodePool, At
  <2> QED BY <1>0, <2>1, NewTypes
<1>2. ASSUME NEW changed, update(changed),
             changed \in {[np EXCEPT !.config = ReportedConfig(want.config),
                                     !.zones = DesiredZones],
                          [np EXCEPT !.autoscaling = ReportedScaling(DesiredAutoscaling)],
                          [np EXCEPT !.count = DesiredCount]}
      PROVE  NodePoolMoves
  <2>1. np.status = "RUNNING" /\ np' \in {np, [changed EXCEPT !.status = "RECONCILING"]}
    BY <1>2 DEF update
  <2> QED BY <1>2, <2>1, UpdateTypes
<1>3. CASE updateNodePoolConfig \/ updateNodePoolAutoscaling \/ updateNodePoolSize
  BY <1>2, <1>3 DEF updateNodePoolConfig, updateNodePoolAutoscaling, updateNodePoolSize
<1>4. CASE Delete
  <2>1. np' = np \/ (np.status # "none" /\ np' = [np EXCEPT !.status = "STOPPING"])
    BY <1>4 DEF Delete
  <2> QED BY <1>0, <2>1 DEF NodePools
<1>5. CASE SetFinalizer
  BY <1>0, <1>5 DEF SetFinalizer, NodePools
<1>6. CASE ClusterMade
  <2>1. CASE np' = np
    BY <2>1
  <2>2. ASSUME NEW n \in NewNodePools(obj.want), np' = [n EXCEPT !.early = ~obj.finalizer]
        PROVE  NodePoolMoves
    <3>1. n \in NodePools
      BY <1>0, NewTypes DEF Object
    <3>2. np'.early = ~obj.finalizer
      BY <2>2, <3>1 DEF NodePools
    <3> QED BY <1>6, <3>2 DEF ClusterMade
  <2> QED BY <1>6, <2>1, <2>2 DEF ClusterMade
<1>7. CASE GKEFinishes
  <2> DEFINE k == IF np.autoscaling = "on" THEN np.nodes ELSE Spread(np)
  <2>1. \/ np.status # "none" /\ np' = [np EXCEPT !.status = "RUNNING", !.nodes = k]
        \/ np' = NoNodePool
    BY <1>7 DEF GKEFinishes
  <2> HIDE DEF k
  <2>2. [np EXCEPT !.status = "RUNNING", !.nodes = k].early = np.early
    BY <1>0 DEF NodePools
  <2>3. NoNodePool.status = "none"
    BY DEF NoNodePool
  <2> QED BY <2>1, <2>2, <2>3
<1>8. CASE GKEChanges
  <2>1. np.status # "none"
        /\ \/ \E st \in {"RECONCILING", "STOPPING", "ERROR"} : np' = [np EXCEPT !.status = st]
           \/ \E k \in {0, 1} : np' = [np EXCEPT !.nodes = k]
    BY <1>8 DEF GKEChanges
  <2> QED BY <1>0, <2>1 DEF NodePools
<1>9. CASE UNCHANGED np
  BY <1>9
<1> QED BY <1>1, <1>3, <1>4, <1>5, <1>6, <1>7, <1>8, <1>9
        DEF Next, Controller, Environment, Reconcile, observeNodePool, nodePoolReconciled,
            Crash, Release, Pause, UserDeletes, UserEdits, ControlPlaneChanges, vars

LEMMA GuardStep ==
    ASSUME TypeOK, TypeOK', ZonesInv, Runtime!ManagedInv, GuardInv, [Next]_vars
    PROVE  GuardInv'
<1>0. /\ NodePoolMoves /\ Runtime!ObjectMoves /\ Runtime!Step
      /\ Runtime!Typed(Wants, NodeCounts, Statuses)
      /\ Runtime!Drop /\ pass.local.finalizer => DropsFinalizer
  BY NextMoves, NextIsStep, StepNamesDiffer, TypedObjects, Runtime!StepMoves
<1>1. /\ obj.finalizer => obj'.finalizer \/ Runtime!Dropping
      /\ pass.pc = "NodePool" => obj'.finalizer
  <2>1. pass.pc = "NodePool" => obj.finalizer /\ ~Runtime!Dropping
    BY DEF Runtime!ManagedInv, Runtime!PassInv, Creating, Runtime!Dropping, Runtime!At
  <2> QED BY <1>0, <2>1 DEF Runtime!ObjectMoves, Runtime!ManagedInv, Runtime!ObjectInv
<1>2. np'.status # "none" => np'.early \/ obj'.finalizer
  <2>1. np.early \in BOOLEAN /\ np'.early \in BOOLEAN /\ obj.finalizer \in BOOLEAN
        /\ obj'.finalizer \in BOOLEAN
    <3>1. PassTypes /\ OtherTypes /\ PassTypes' /\ OtherTypes'
      BY TypeParts, PTL
    <3> QED BY <3>1 DEF OtherTypes, NodePools, PassTypes, Object
  <2>2. CASE np' = np \/ (np.status # "none" /\ np'.early = np.early)
    BY <1>0, <1>1, <2>1, <2>2 DEF GuardInv, NodePoolMoves
  <2> QED BY <1>0, <1>1, <2>1, <2>2 DEF GuardInv, NodePoolMoves
<1>3. pass'.pc # "Idle" => cp' # "absent"
  <2>1. CASE Reconcile
    BY <2>1 DEF Reconcile, Frame
  <2>2. CASE ClusterMade \/ ControlPlaneChanges
    BY <2>2 DEF ClusterMade, ControlPlaneChanges
  <2>3. CASE UNCHANGED cp /\ (pass'.pc # "Idle" => pass.pc # "Idle")
    BY <2>3 DEF GuardInv
  <2>4. CASE Ends \/ DropsFinalizer
    BY <2>3, <2>4 DEF Ends, DropsFinalizer
  <2>5. CASE SetFinalizer
    BY <2>3, <2>5 DEF SetFinalizer, AddFinalizer, At, Frame
  <2>6. CASE (Close /\ UNCHANGED np /\ Frame) \/ Crash
    BY <2>3, <2>6 DEF Close, Crash, Stop, NoPass, Frame
  <2>7. CASE Release \/ Pause \/ UserDeletes \/ UserEdits \/ GKEFinishes \/ GKEChanges
             \/ UNCHANGED vars
    BY <2>3, <2>7 DEF Release, Pause, UserDeletes, UserEdits, GKEFinishes, GKEChanges,
                      Frame, vars
  <2> QED BY <2>1, <2>2, <2>4, <2>5, <2>6, <2>7, ServiceEnds, DeleteEnds
          DEF Next, Controller, Environment
<1>4. Runtime!Dropping' => np'.status = "none"
  <2> SUFFICES ASSUME Runtime!Dropping' PROVE np'.status = "none"
    OBVIOUS
  <2>1. Runtime!Drop \/ (Runtime!Dropping /\ UNCHANGED pass)
    BY <1>0, StepNamesDiffer, Runtime!DropsAtEnd
  <2>2. CASE Runtime!Drop
    <3>1. pass.local.finalizer
      BY <2>2 DEF Runtime!Drop, Runtime!ManagedInv, Runtime!PassInv
    <3> QED BY <1>0, <2>2, <3>1 DEF DropsFinalizer
  <2>3. CASE Runtime!Dropping /\ UNCHANGED pass
    <3>1. np.status = "none" /\ pass.pc = "Close" /\ cp # "absent"
      BY <2>3 DEF GuardInv, Runtime!Dropping, Runtime!At
    <3> QED BY <1>0, <3>1 DEF NodePoolMoves
  <2> QED BY <2>1, <2>2, <2>3
<1> QED BY <1>2, <1>3, <1>4 DEF GuardInv

\* A node pool is there only while the GCPManagedMachinePool and its finalizer are, but
\* for one that was made with the GKE cluster before its controller could set the
\* finalizer.
THEOREM FinalizerCorrect == Spec => []FinalizerGuards
<1>1. TypeOK /\ TypeOK' /\ ZonesInv /\ Runtime!ManagedInv /\ GuardInv /\ [Next]_vars
      => GuardInv'
  BY GuardStep
<1>2. Runtime!ManagedInv /\ GuardInv => FinalizerGuards
  BY DEF Runtime!ManagedInv, Runtime!ObjectInv, GuardInv, FinalizerGuards
<1> QED BY <1>1, <1>2, GuardInit, ZonesCorrect, RuntimeCorrect, PTL DEF Spec

=============================================================================
