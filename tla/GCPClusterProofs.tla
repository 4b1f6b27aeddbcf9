-------------------------- MODULE GCPClusterProofs --------------------------
(***************************************************************************)
(* TLAPS proofs about GCPCluster, for every set of zones, rules, subnets   *)
(* and configurations and every bound on faults and edits:                 *)
(*                                                                         *)
(*   - its types;                                                          *)
(*   - an inductive invariant, IInv, and from it that the finalizer guards *)
(*     what CAPG created, that nothing else is ever deleted, that the      *)
(*     controller implements ResourceLifecycle, and that a deletion pass   *)
(*     goes in an order GCP accepts;                                       *)
(*   - that it implements ClusterInfrastructure, the environment GCPMachine*)
(*     is checked in, so that what holds for machines there holds against  *)
(*     the controller;                                                     *)
(*   - a second invariant, SInv, about what a pass has made and written,   *)
(*     and from it that ready clusters and published endpoints are backed, *)
(*     recorded resources deleted, backends complete, and no wake-up lost. *)
(***************************************************************************)
EXTENDS GCPCluster, TLAPS, NaturalsInduction, WellFoundedInduction

-----------------------------------------------------------------------------
(* Resources                                                               *)

\* The names of different resources differ.
LEMMA ResourcesDiffer ==
    /\ Network # Router
    /\ {Network, Router} \cap (FirewallRules \cup Subnets \cup Groups
                               \cup ExternalLB \cup InternalLB) = {}
    /\ FirewallRules \cap (Subnets \cup Groups \cup ExternalLB \cup InternalLB) = {}
    /\ Subnets \cap (Groups \cup ExternalLB \cup InternalLB) = {}
    /\ Groups \cap (ExternalLB \cup InternalLB) = {}
    /\ ExternalLB \cap InternalLB = {}
<1>1. Network # Router
  BY DEF Network, Router
<1>2. /\ \A r \in {Network, Router} : r[1] \in {"network", "router"}
      /\ \A r \in FirewallRules : r[1] = "firewall"
      /\ \A r \in Subnets : r[1] = "subnet"
      /\ \A r \in Groups : r[1] = "instancegroup"
  BY DEF Network, Router, Firewall, Subnet, Group, FirewallRules, Subnets, Groups
<1>3. \A r \in ExternalLB \cup InternalLB :
        r[1] \in {"healthcheck", "backendservice", "targettcpproxy", "address",
                  "forwardingrule"}
  BY DEF ExternalLB, InternalLB, HealthCheck, BackendService, TargetTCPProxy, Address,
         ForwardingRule, RegionalHealthCheck, RegionalBackendService, InternalAddress,
         RegionalForwardingRule
<1>4. /\ \A r \in ExternalLB : r[2] = "apiserver"
      /\ \A r \in InternalLB : r[2] = "internal"
  BY DEF ExternalLB, InternalLB, HealthCheck, BackendService, TargetTCPProxy, Address,
         ForwardingRule, RegionalHealthCheck, RegionalBackendService, InternalAddress,
         RegionalForwardingRule
<1>5. ExternalLB \cap InternalLB = {}
  BY <1>4
<1>6. {Network, Router} \cap (FirewallRules \cup Subnets \cup Groups
                               \cup ExternalLB \cup InternalLB) = {}
  BY <1>2, <1>3
<1>7. /\ FirewallRules \cap (Subnets \cup Groups \cup ExternalLB \cup InternalLB) = {}
      /\ Subnets \cap (Groups \cup ExternalLB \cup InternalLB) = {}
      /\ Groups \cap (ExternalLB \cup InternalLB) = {}
  BY <1>2, <1>3
<1> QED BY <1>1, <1>5, <1>6, <1>7

\* The components of the external balancer differ, and those of the internal one.
LEMMA BalancersDiffer ==
    /\ BackendService # RegionalBackendService
    /\ ForwardingRule \notin {Address, TargetTCPProxy, BackendService, HealthCheck}
    /\ Address \notin {TargetTCPProxy, BackendService, HealthCheck}
    /\ TargetTCPProxy \notin {BackendService, HealthCheck}
    /\ BackendService # HealthCheck
    /\ RegionalForwardingRule \notin {InternalAddress, RegionalBackendService,
                                      RegionalHealthCheck}
    /\ InternalAddress \notin {RegionalBackendService, RegionalHealthCheck}
    /\ RegionalBackendService # RegionalHealthCheck
BY DEF HealthCheck, BackendService, TargetTCPProxy, Address, ForwardingRule,
       RegionalHealthCheck, RegionalBackendService, InternalAddress,
       RegionalForwardingRule

-----------------------------------------------------------------------------
(* Type correctness                                                        *)

\* The services know every resource and every step they name.
LEMMA Names ==
    /\ {Network, Router} \cup FirewallRules \cup Subnets \cup Groups \cup ExternalLB
            \cup InternalLB \subseteq Resource
    /\ {HealthCheck, BackendService, TargetTCPProxy, Address, ForwardingRule} = ExternalLB
    /\ {RegionalHealthCheck, RegionalBackendService, InternalAddress,
         RegionalForwardingRule} = InternalLB
    /\ \A s \in SubnetNames : Subnet(s) \in Subnets
    /\ \A z \in Zones : Group(z) \in Groups
    /\ AfterReconcile.networks = "Firewalls" /\ AfterReconcile.firewalls = "Subnets"
    /\ AfterReconcile.subnets = "InstanceGroups" /\ AfterReconcile.loadbalancers = "Done"
    /\ AfterDelete.loadbalancers = "DeleteSubnets" /\ AfterDelete.subnets = "DeleteFirewalls"
    /\ AfterDelete.firewalls = "DeleteRouter" /\ AfterDelete.networks = "RemoveFinalizer"
    /\ \A S : FirstIn(S) \subseteq SubnetNames \cap S
BY DEF Resource, ExternalLB, InternalLB, Subnets, Groups, AfterReconcile, AfterDelete,
       FirstIn, SubnetNames

\* Recording and forgetting resources keeps the object's type and changes its
\* record only.
LEMMA ScopeType ==
    ASSUME NEW scope \in Object, NEW R \in SUBSET Resource
    PROVE  /\ Record(scope, R) \in Object /\ Forget(scope, R) \in Object
           /\ \A h \in Hosts : [Record(scope, R) EXCEPT !.host = h] \in Object
           /\ Record(scope, R).finalizer = scope.finalizer
           /\ Record(scope, R).deleting = scope.deleting
           /\ Record(scope, R).host = scope.host
           /\ \A h \in Hosts :
                /\ [Record(scope, R) EXCEPT !.host = h].finalizer = scope.finalizer
                /\ [Record(scope, R) EXCEPT !.host = h].deleting = scope.deleting
           /\ Forget(scope, R).finalizer = scope.finalizer
           /\ Forget(scope, R).deleting = scope.deleting
BY DEF Object, Record, Forget

\* Faults stay within their bound.
LEMMA FaultType ==
    ASSUME faults \in 0..MaxFaults, Fault \/ NoFault
    PROVE  faults' \in 0..MaxFaults
BY BoundsAssumption DEF Fault, NoFault

\* CreateOrGet keeps the types.
LEMMA CreateType ==
    ASSUME TypeOK, NEW r \in Resource, NEW next \in Steps, NEW scope \in Object,
           CreateOrGet(r, next, scope), todo' \subseteq Zones
    PROVE  TypeOK'
<1>1. faults' \in 0..MaxFaults
  BY FaultType DEF TypeOK, CreateOrGet
<1> QED BY <1>1 DEF TypeOK, CreateOrGet, ReturnError, ServiceFrame, Steps

\* Delete keeps the types.
LEMMA DeleteType ==
    ASSUME TypeOK, NEW r \in Resource, NEW next \in Steps, NEW onError \in Steps,
           NEW scope \in Object, Delete(r, next, onError, scope), todo' \subseteq Zones
    PROVE  TypeOK'
<1>1. cloud' \subseteq Resource
  BY DEF Delete, Deleted, TypeOK
<1>2. backends' \in [{BackendService, RegionalBackendService} -> SUBSET Zones]
  BY DEF Delete, Deleted, TypeOK
<1>3. faults' \in 0..MaxFaults
  BY FaultType DEF TypeOK, Delete
<1> QED BY <1>1, <1>2, <1>3 DEF TypeOK, Delete, ServiceFrame

\* A step that calls nothing keeps the types.
LEMMA ProceedType ==
    ASSUME TypeOK, NEW next \in Steps, NEW scope \in Object,
           Proceed(next, scope), todo' \subseteq Zones
    PROVE  TypeOK'
BY DEF TypeOK, Proceed, NoFault, ServiceFrame

\* An error keeps the types.
LEMMA RefuseType ==
    ASSUME TypeOK, Refuse \/ GetFails, todo' \subseteq Zones
    PROVE  TypeOK'
<1>1. faults' \in 0..MaxFaults
  BY FaultType DEF TypeOK, Refuse, GetFails
<1> QED BY <1>1 DEF TypeOK, Refuse, GetFails, ReturnError, ServiceFrame, Steps

\* The initial states have their types.
LEMMA TypeInit == Init => TypeOK
<1> SUFFICES ASSUME Init PROVE TypeOK
  OBVIOUS
<1>1. NoObject \in Object
  BY DEF NoObject, Object, Hosts
<1>2. obj \in Object
  <2>1. PICK d \in SpecDomains, h \in SpecHosts :
            obj = [NoObject EXCEPT !.exists = TRUE, !.failureDomains = d, !.host = h]
    BY DEF Init
  <2>2. d \in SpecDomains /\ h \in Hosts
    BY SpecAssumption DEF Hosts
  <2> QED BY <2>1, <2>2, <1>1 DEF Object
<1>3. conf \in Configs /\ conf.foreign \subseteq Adoptable
  BY ConfigsAssumption DEF Init, Config
<1>4. cloud \subseteq Resource
  BY <1>3 DEF Init, Adoptable, Resource
<1>5. backends \in [{BackendService, RegionalBackendService} -> SUBSET Zones]
  BY DEF Init
<1>6. faults \in 0..MaxFaults /\ edits \in 0..MaxEdits
  BY BoundsAssumption DEF Init
<1> QED BY <1>1, <1>2, <1>3, <1>4, <1>5, <1>6 DEF Init, TypeOK, Steps

\* Every step of reconcile's services keeps the types.
LEMMA ReconcileServicesType == TypeOK /\ ReconcileServices => TypeOK'
<1> SUFFICES ASSUME TypeOK, ReconcileServices PROVE TypeOK'
  OBVIOUS
<1> USE Names
<1>0. local \in Object /\ todo \subseteq Zones
  BY DEF TypeOK
<1>1. CASE createOrGetNetwork
  <2>1. todo' \subseteq Zones
    BY <1>0, <1>1 DEF createOrGetNetwork
  <2>2. Record(local, {Network}) \in Object
    BY <1>0, ScopeType
  <2>3. CASE Refuse \/ GetFails
    BY <2>1, <2>3, RefuseType
  <2>4. CASE CreateOrGet(Network, "Router", local)
    BY <1>0, <2>1, <2>4, CreateType DEF Steps, ReconcileSteps
  <2>5. CASE CreateOrGet(Network, AfterReconcile.networks, Record(local, {Network}))
    BY <2>1, <2>2, <2>5, CreateType DEF Steps, ReconcileSteps
  <2> QED BY <1>1, <2>3, <2>4, <2>5 DEF createOrGetNetwork
<1>2. CASE createOrGetRouter
  <2>1. todo' \subseteq Zones
    BY <1>0, <1>2 DEF createOrGetRouter
  <2>2. Record(local, {Network, Router}) \in Object
    BY <1>0, ScopeType
  <2>3. CASE Refuse \/ GetFails
    BY <2>1, <2>3, RefuseType
  <2>4. CASE CreateOrGet(Router, AfterReconcile.networks, Record(local, {Network, Router}))
    BY <2>1, <2>2, <2>4, CreateType DEF Steps, ReconcileSteps
  <2> QED BY <1>2, <2>3, <2>4 DEF createOrGetRouter
<1>3. CASE reconcileFirewalls
  <2>1. todo' \subseteq Zones
    BY <1>0, <1>3 DEF reconcileFirewalls
  <2>2. CASE Proceed(AfterReconcile.firewalls, local)
    BY <1>0, <2>1, <2>2, ProceedType DEF Steps, ReconcileSteps
  <2>3. CASE GetFails
    BY <2>1, <2>3, RefuseType
  <2>4. ASSUME NEW r \in FirewallRules, CreateOrGet(r, "Firewalls", local) PROVE TypeOK'
    BY <1>0, <2>1, <2>4, CreateType DEF Steps, ReconcileSteps
  <2> QED BY <1>3, <2>2, <2>3, <2>4 DEF reconcileFirewalls
<1>4. CASE createOrGetSubnets
  <2>1. todo' \subseteq Zones
    BY <1>0, <1>4 DEF createOrGetSubnets
  <2>2. CASE Proceed(AfterReconcile.subnets, local)
    BY <1>0, <2>1, <2>2, ProceedType DEF Steps, ReconcileSteps
  <2>3. CASE Refuse \/ GetFails
    BY <2>1, <2>3, RefuseType
  <2>4. ASSUME NEW s \in SubnetNames, CreateOrGet(Subnet(s), "Subnets", local) PROVE TypeOK'
    BY <1>0, <2>1, <2>4, CreateType DEF Steps, ReconcileSteps
  <2> QED BY <1>4, <2>2, <2>3, <2>4 DEF createOrGetSubnets
<1>5. CASE createOrGetInstanceGroups
  <2>1. todo' \subseteq Zones
    BY <1>0, <1>5 DEF createOrGetInstanceGroups
  <2>2. CASE Proceed(ReconcileLBs, Record(local, {Group(z) : z \in local.fds}))
    <3>1. {Group(z) : z \in local.fds} \subseteq Resource
      BY <1>0 DEF Object
    <3>2. Record(local, {Group(z) : z \in local.fds}) \in Object
      BY <1>0, <3>1, ScopeType
    <3> QED BY <2>1, <2>2, <3>2, ProceedType DEF ReconcileLBs, Steps, ReconcileSteps
  <2>3. ASSUME NEW z \in todo,
               CreateOrGet(Group(z), "InstanceGroups",
                           IF Keep THEN Record(local, {Group(z)}) ELSE local)
        PROVE  TypeOK'
    <3>1. Group(z) \in Resource
      BY <1>0
    <3>2. (IF Keep THEN Record(local, {Group(z)}) ELSE local) \in Object
      BY <1>0, <3>1, ScopeType
    <3> QED BY <2>1, <2>3, <3>1, <3>2, CreateType DEF Steps, ReconcileSteps
  <2> QED BY <1>5, <2>2, <2>3 DEF createOrGetInstanceGroups
<1>6. ASSUME NEW step \in Steps, NEW r \in Resource, NEW next \in Steps, CreateLB(step, r, next)
      PROVE  TypeOK'
  <2>1. todo' \subseteq Zones
    BY <1>0, <1>6 DEF CreateLB
  <2>2. Record(local, {r}) \in Object
    BY <1>0, ScopeType
  <2> QED BY <1>6, <2>1, <2>2, CreateType DEF CreateLB
<1>7. CASE createOrGetHealthCheck
  BY <1>6, <1>7 DEF createOrGetHealthCheck, Steps, ReconcileSteps
<1>8. CASE createOrGetTargetTCPProxy
  BY <1>6, <1>8 DEF createOrGetTargetTCPProxy, Steps, ReconcileSteps
<1>9. CASE createOrGetForwardingRule
  BY <1>6, <1>9 DEF createOrGetForwardingRule, AfterExternal, Steps, ReconcileSteps
<1>10. CASE createOrGetRegionalHealthCheck
  BY <1>6, <1>10 DEF createOrGetRegionalHealthCheck, Steps, ReconcileSteps
<1>11. CASE createOrGetRegionalForwardingRule
  BY <1>6, <1>11 DEF createOrGetRegionalForwardingRule, Steps, ReconcileSteps
<1>12. ASSUME NEW b \in {BackendService, RegionalBackendService}, NEW next \in Steps,
              CreateBackendService(b, next)
       PROVE  TypeOK'
  <2>1. Record(local, {b}) \in Object
    BY <1>0, ScopeType
  <2>2. cloud' \subseteq Resource
    BY <1>12 DEF CreateBackendService, TypeOK
  <2>3. [backends EXCEPT ![b] = local.fds]
            \in [{BackendService, RegionalBackendService} -> SUBSET Zones]
    BY <1>0 DEF TypeOK, Object
  <2>4. backends' \in [{BackendService, RegionalBackendService} -> SUBSET Zones]
    BY <1>12, <2>3 DEF CreateBackendService, TypeOK
  <2>5. faults' \in 0..MaxFaults
    BY <1>12, FaultType DEF CreateBackendService, TypeOK
  <2>6. local' \in Object /\ pc' \in Steps /\ failed' \in BOOLEAN
    BY <1>0, <1>12, <2>1 DEF CreateBackendService, TypeOK, ReturnError, Steps
  <2> QED BY <1>12, <2>2, <2>4, <2>5, <2>6 DEF CreateBackendService, TypeOK, ServiceFrame
<1>13. CASE createOrGetBackendService
  BY <1>12, <1>13 DEF createOrGetBackendService, Steps, ReconcileSteps
<1>14. CASE createOrGetRegionalBackendService
  BY <1>12, <1>14 DEF createOrGetRegionalBackendService, Steps, ReconcileSteps
<1>15. CASE createOrGetAddress
  <2>1. todo' \subseteq Zones
    BY <1>0, <1>15 DEF createOrGetAddress
  <2>2. [Record(local, {Address}) EXCEPT !.host = "external"] \in Object
    BY <1>0, ScopeType DEF Hosts
  <2> QED BY <1>15, <2>1, <2>2, CreateType DEF createOrGetAddress, Steps, ReconcileSteps
<1>16. CASE createOrGetInternalAddress
  <2> DEFINE scope == [Record(local, {InternalAddress}) EXCEPT
                        !.host = IF conf.lbType = "Internal" THEN "internal" ELSE @]
  <2>1. todo' \subseteq Zones
    BY <1>0, <1>16 DEF createOrGetInternalAddress
  <2>2. scope \in Object
    <3>1. Record(local, {InternalAddress}) \in Object
      BY <1>0, ScopeType
    <3> QED BY <3>1 DEF Object, Hosts
  <2>3. CASE Refuse \/ GetFails
    BY <2>1, <2>3, RefuseType
  <2>4. CASE CreateOrGet(InternalAddress, "RegionalForwardingRule", scope)
    BY <2>1, <2>2, <2>4, CreateType DEF Steps, ReconcileSteps
  <2> QED BY <1>16, <2>3, <2>4 DEF createOrGetInternalAddress
<1> QED BY <1>1, <1>2, <1>3, <1>4, <1>5, <1>7, <1>8, <1>9, <1>10, <1>11, <1>13, <1>14,
           <1>15, <1>16 DEF ReconcileServices

\* Every step of reconcileDelete's services keeps the types.
LEMMA DeleteServicesType == TypeOK /\ DeleteServices => TypeOK'
<1> SUFFICES ASSUME TypeOK, DeleteServices PROVE TypeOK'
  OBVIOUS
<1> USE Names
<1>0. local \in Object /\ todo \subseteq Zones
  BY DEF TypeOK
<1>1. ASSUME NEW step \in Steps, NEW r \in Resource, NEW next \in Steps, NEW onError \in Steps,
             DeleteLB(step, r, next, onError)
      PROVE  TypeOK'
  <2>1. todo' \subseteq Zones
    BY <1>0, <1>1 DEF DeleteLB
  <2>2. Forget(local, {r}) \in Object
    BY <1>0, ScopeType
  <2> QED BY <1>1, <2>1, <2>2, DeleteType DEF DeleteLB
<1>2. AfterDeleteExternal \in Steps
  BY DEF AfterDeleteExternal, Steps, DeleteSteps
<1>3. CASE deleteForwardingRule
  BY <1>1, <1>2, <1>3 DEF deleteForwardingRule, Steps, DeleteSteps
<1>4. CASE deleteAddress
  BY <1>1, <1>2, <1>4 DEF deleteAddress, Steps, DeleteSteps
<1>5. CASE deleteTargetTCPProxy
  BY <1>1, <1>2, <1>5 DEF deleteTargetTCPProxy, Steps, DeleteSteps
<1>6. CASE deleteBackendService
  BY <1>1, <1>2, <1>6 DEF deleteBackendService, Steps, DeleteSteps
<1>7. CASE deleteHealthCheck
  BY <1>1, <1>2, <1>7 DEF deleteHealthCheck, Steps, DeleteSteps
<1>8. CASE deleteRegionalForwardingRule
  BY <1>1, <1>8 DEF deleteRegionalForwardingRule, Steps, DeleteSteps
<1>9. CASE deleteInternalAddress
  BY <1>1, <1>9 DEF deleteInternalAddress, Steps, DeleteSteps
<1>10. CASE deleteRegionalBackendService
  BY <1>1, <1>10 DEF deleteRegionalBackendService, Steps, DeleteSteps
<1>11. CASE deleteRegionalHealthCheck
  BY <1>1, <1>11 DEF deleteRegionalHealthCheck, Steps, DeleteSteps
<1>12. CASE deleteInstanceGroups
  <2>1. todo' \subseteq Zones
    BY <1>0, <1>12 DEF deleteInstanceGroups
  <2>2. CASE Proceed(IF failed THEN "ClosePatch" ELSE AfterDelete.loadbalancers, local)
    BY <1>0, <2>1, <2>2, ProceedType DEF Steps, DeleteSteps
  <2>3. ASSUME NEW z \in todo,
               Delete(Group(z), "DeleteInstanceGroups", "ClosePatch",
                      IF Group(z) \in cloud THEN local ELSE Forget(local, {Group(z)}))
        PROVE  TypeOK'
    <3>1. Group(z) \in Resource
      BY <1>0
    <3>2. (IF Group(z) \in cloud THEN local ELSE Forget(local, {Group(z)})) \in Object
      BY <1>0, <3>1, ScopeType
    <3> QED BY <2>1, <2>3, <3>1, <3>2, DeleteType DEF Steps, DeleteSteps
  <2> QED BY <1>12, <2>2, <2>3 DEF deleteInstanceGroups
<1>13. CASE deleteSubnets
  <2>1. todo' \subseteq Zones
    BY <1>0, <1>13 DEF deleteSubnets
  <2>2. CASE Proceed(AfterDelete.subnets, local)
    BY <1>0, <2>1, <2>2, ProceedType DEF Steps, DeleteSteps
  <2>3. CASE GetFails
    BY <2>1, <2>3, RefuseType
  <2>4. ASSUME NEW s \in SubnetNames, Delete(Subnet(s), "DeleteSubnets", "ClosePatch", local)
        PROVE  TypeOK'
    BY <1>0, <2>1, <2>4, DeleteType DEF Steps, DeleteSteps
  <2> QED BY <1>13, <2>2, <2>3, <2>4 DEF deleteSubnets
<1>14. CASE deleteFirewalls
  <2>1. todo' \subseteq Zones
    BY <1>0, <1>14 DEF deleteFirewalls
  <2>2. CASE Proceed(AfterDelete.firewalls, local)
    BY <1>0, <2>1, <2>2, ProceedType DEF Steps, DeleteSteps
  <2>3. ASSUME NEW r \in FirewallRules, Delete(r, "DeleteFirewalls", "ClosePatch", local)
        PROVE  TypeOK'
    BY <1>0, <2>1, <2>3, DeleteType DEF Steps, DeleteSteps
  <2> QED BY <1>14, <2>2, <2>3 DEF deleteFirewalls
<1>15. Forget(local, {Network, Router}) \in Object
  BY <1>0, ScopeType
<1>16. CASE deleteRouter
  <2>1. todo' \subseteq Zones
    BY <1>0, <1>16 DEF deleteRouter
  <2>2. ASSUME NEW next \in Steps, NEW scope \in Object, Proceed(next, scope) PROVE TypeOK'
    BY <2>1, <2>2, ProceedType
  <2>3. CASE GetFails
    BY <2>1, <2>3, RefuseType
  <2>4. CASE Delete(Router, "DeleteNetwork", "ClosePatch", local)
    BY <1>0, <2>1, <2>4, DeleteType DEF Steps, DeleteSteps
  <2> QED BY <1>0, <1>15, <1>16, <2>2, <2>3, <2>4 DEF deleteRouter, Steps, DeleteSteps
<1>17. CASE deleteNetwork
  <2>1. todo' \subseteq Zones
    BY <1>0, <1>17 DEF deleteNetwork
  <2> QED BY <1>15, <1>17, <2>1, DeleteType DEF deleteNetwork, Steps, DeleteSteps
<1> QED BY <1>3, <1>4, <1>5, <1>6, <1>7, <1>8, <1>9, <1>10, <1>11, <1>12, <1>13, <1>14,
           <1>16, <1>17 DEF DeleteServices

\* Patches and the API server keep the type of an object.
LEMMA ObjectType ==
    ASSUME TypeOK
    PROVE  /\ NoObject \in Object
           /\ \A o \in Object : Settle(o) \in Object
           /\ Patched(obj) \in Object
           /\ PatchedStatus(obj) \in Object
<1>1. NoObject \in Object
  BY DEF NoObject, Object, Hosts
<1>2. \A o \in Object : Settle(o) \in Object
  BY <1>1 DEF Settle
<1>3. Patched(obj) \in Object
  <2> DEFINE o == [obj EXCEPT
        !.finalizer = IF local.finalizer # before.finalizer THEN local.finalizer ELSE @,
        !.host = IF local.host # before.host THEN local.host ELSE @]
  <2>1. o \in Object
    BY DEF TypeOK, Object
  <2> QED BY <1>2, <2>1 DEF Patched
<1>4. PatchedStatus(obj) \in Object
  <2>1. /\ Merge(obj.fds, before.fds, local.fds) \subseteq Zones
        /\ Merge(obj.rec, before.rec, local.rec) \subseteq Resource
    BY DEF TypeOK, Object, Merge
  <2> QED BY <2>1 DEF TypeOK, Object, PatchedStatus
<1> QED BY <1>1, <1>2, <1>3, <1>4

\* TypeOK is inductive.
LEMMA TypeNext == TypeOK /\ [Next]_vars => TypeOK'
<1> SUFFICES ASSUME TypeOK, [Next]_vars PROVE TypeOK'
  OBVIOUS
<1> USE ObjectType
<1>1. CASE ReconcileServices
  BY <1>1, ReconcileServicesType
<1>2. CASE DeleteServices
  BY <1>2, DeleteServicesType
<1>3. CASE ReconcileIgnored \/ ReconcileFails
  <2>1. faults' \in 0..MaxFaults
    BY <1>3, FaultType DEF ReconcileIgnored, ReconcileFails, TypeOK, NoFault
  <2> QED BY <1>3, <2>1 DEF ReconcileIgnored, ReconcileFails, TypeOK
<1>4. CASE Reconcile
  <2>1. pc' \in Steps
    BY <1>4 DEF Reconcile, DeleteLBs, Steps, DeleteSteps
  <2>2. todo' \subseteq Zones
    BY <1>4 DEF Reconcile, ZonesOf
  <2> QED BY <1>4, <2>1, <2>2 DEF Reconcile, TypeOK
<1>5. CASE AddFinalizer
  <2>1. [obj EXCEPT !.finalizer = TRUE] \in Object /\ local' \in Object
    BY <1>5 DEF AddFinalizer, TypeOK, Object
  <2>2. faults' \in 0..MaxFaults
    BY <1>5, FaultType DEF AddFinalizer, TypeOK
  <2>3. obj' \in Object
    BY <1>5, <2>1 DEF AddFinalizer, TypeOK
  <2>4. pc' \in Steps /\ failed' \in BOOLEAN
    BY <1>5 DEF AddFinalizer, TypeOK, ReturnError, Steps, ReconcileSteps
  <2> QED BY <1>5, <2>1, <2>2, <2>3, <2>4 DEF AddFinalizer, TypeOK, PassFrame
<1>6. CASE SetFailureDomains
  <2>1. SelectedZones(local.failureDomains) \subseteq Zones
    BY DEF SelectedZones
  <2>2. [local EXCEPT !.fds = SelectedZones(local.failureDomains)] \in Object
    BY <2>1 DEF TypeOK, Object
  <2>3. CASE GetFails /\ UNCHANGED todo
    BY <2>3, RefuseType DEF TypeOK
  <2>4. CASE /\ Proceed("Network",
                        [local EXCEPT !.fds = SelectedZones(local.failureDomains)])
             /\ todo' = SelectedZones(local.failureDomains)
    BY <2>1, <2>2, <2>4, ProceedType DEF Steps, ReconcileSteps
  <2> QED BY <1>6, <2>3, <2>4 DEF SetFailureDomains
<1>7. CASE SetReady
  <2>1. local' \in Object
    BY <1>7 DEF SetReady, TypeOK, Object
  <2>2. queued' \in BOOLEAN
    BY <1>7 DEF SetReady, TypeOK
  <2> QED BY <1>7, <2>1, <2>2 DEF SetReady, TypeOK, Steps
<1>8. CASE RemoveFinalizer
  <2>1. local' \in Object
    BY <1>8 DEF RemoveFinalizer, TypeOK, Object
  <2> QED BY <1>8, <2>1 DEF RemoveFinalizer, TypeOK, PassFrame, NoFault, Steps
<1>9. CASE ClosePatch
  <2>1. faults' \in 0..MaxFaults
    BY <1>9, FaultType DEF ClosePatch, TypeOK
  <2>2. obj' \in Object
    BY <1>9 DEF ClosePatch, TypeOK
  <2>3. failed' \in BOOLEAN /\ pc' \in Steps
    BY <1>9 DEF ClosePatch, TypeOK, Steps
  <2> QED BY <1>9, <2>1, <2>2, <2>3 DEF ClosePatch, TypeOK, PassFrame
<1>10. CASE CloseStatus
  <2>1. faults' \in 0..MaxFaults
    BY <1>10, FaultType DEF CloseStatus, TypeOK
  <2>2. obj' \in Object
    BY <1>10 DEF CloseStatus, TypeOK
  <2>3. queued' \in BOOLEAN
    BY <1>10 DEF CloseStatus, TypeOK
  <2> QED BY <1>10, <2>1, <2>2, <2>3 DEF CloseStatus, TypeOK, Steps
<1>11. CASE UserDelete
  <2>1. [obj EXCEPT !.deleting = TRUE] \in Object
    BY DEF TypeOK, Object
  <2>2. obj' \in Object
    BY <1>11, <2>1 DEF UserDelete
  <2> QED BY <1>11, <2>2 DEF UserDelete, EditFrame, TypeOK
<1>12. CASE UserEditFailureDomains \/ Pause
  <2>1. obj' \in Object
    <3>1. \A d \in SpecDomains : [obj EXCEPT !.failureDomains = d] \in Object
      BY DEF TypeOK, Object
    <3>2. [obj EXCEPT !.reconcilable = FALSE] \in Object
      BY DEF TypeOK, Object
    <3> QED BY <1>12, <3>1, <3>2, SpecAssumption DEF UserEditFailureDomains, Pause
  <2>2. edits' \in 0..MaxEdits
    BY <1>12, BoundsAssumption DEF UserEditFailureDomains, Pause, Edit, TypeOK
  <2> QED BY <1>12, <2>1, <2>2 DEF UserEditFailureDomains, Pause, Edit, EditFrame, TypeOK
<1>13. CASE Release
  <2>1. obj' \in Object
    BY <1>13 DEF Release, TypeOK, Object
  <2> QED BY <1>13, <2>1 DEF Release, EditFrame, TypeOK
<1>14. CASE CacheSync
  BY <1>14 DEF CacheSync, TypeOK
<1>15. CASE Crash
  <2>1. faults' \in 0..MaxFaults
    BY <1>15, FaultType DEF Crash, TypeOK
  <2> QED BY <1>15, <2>1 DEF Crash, TypeOK, Steps
<1>16. CASE UNCHANGED vars
  BY <1>16 DEF vars, TypeOK
<1> QED BY <1>1, <1>2, <1>3, <1>4, <1>5, <1>6, <1>7, <1>8, <1>9, <1>10, <1>11, <1>12,
           <1>13, <1>14, <1>15, <1>16 DEF Next, Controller, Environment

\* The state of the controller, the API server and GCP is always well typed.
THEOREM TypeCorrect == Spec => []TypeOK
<1>1. Init => TypeOK
  BY TypeInit
<1>2. TypeOK /\ [Next]_vars => TypeOK'
  BY TypeNext
<1> QED BY <1>1, <1>2, PTL DEF Spec

-----------------------------------------------------------------------------
(* The first subnet of a set                                               *)

\* A set of natural numbers that is not empty has a least element.
LEMMA LeastNat ==
    ASSUME NEW T, T \subseteq Nat, T # {}
    PROVE  \E m \in T : \A n \in T : m <= n
<1> DEFINE R == OpToRel(<, Nat)
<1>1. ASSUME NEW n \in Nat, NEW m \in Nat, n < m
      PROVE  <<n, m>> \in R
  BY <1>1, Zenon DEF OpToRel
<1>2. IsWellFoundedOn(R, Nat)
  BY NatLessThanWellFounded
<1> HIDE DEF R
<1>3. PICK m \in T : \A n \in T : ~ (<<n, m>> \in R)
  BY <1>2, WFMin
<1>4. ASSUME NEW n \in T PROVE m <= n
  <2>1. ~ (<<n, m>> \in R)
    BY <1>3
  <2>2. m \in Nat /\ n \in Nat
    OBVIOUS
  <2>3. ~ (n < m)
    BY <2>1, <2>2, <1>1
  <2> QED BY <2>2, <2>3
<1> QED BY <1>4

\* A set that holds a subnet of the spec has a first one.
LEMMA FirstExists ==
    ASSUME NEW S, NEW s \in SubnetNames, s \in S
    PROVE  FirstIn(S) # {}
<1> DEFINE T == {i \in DOMAIN SubnetSpecs : SubnetSpecs[i] \in S}
<1>1. SubnetSpecs \in Seq(SubnetNames)
  BY SubnetsAssumption
<1>2. DOMAIN SubnetSpecs = 1..Len(SubnetSpecs) /\ Len(SubnetSpecs) \in Nat
  BY <1>1
<1>3. T \subseteq Nat
  BY <1>2
<1>4. T # {}
  BY DEF SubnetNames
<1>5. PICK m \in T : \A n \in T : m <= n
  BY <1>3, <1>4, LeastNat
<1>6. SubnetSpecs[m] \in FirstIn(S)
  BY <1>5 DEF FirstIn
<1> QED BY <1>6

-----------------------------------------------------------------------------
(* The inductive invariant                                                 *)

\* The API server: a finalizer keeps a deleted object.
ObjectInv ==
    /\ obj.deleting => obj.exists /\ obj.finalizer
    /\ obj.finalizer => obj.exists

\* The cache is a past of the object.
CacheInv ==
    /\ cache.deleting => cache.finalizer
    /\ cache.deleting => obj.deleting \/ ~obj.exists
    /\ cache.finalizer /\ ~cache.deleting => obj.finalizer

\* A pass works on a past of the cache, creates only behind a persisted finalizer
\* and drops the finalizer only at the end of a deletion.
PassInv ==
    /\ pc = "Idle" => before = NoObject /\ local = NoObject
    /\ local.deleting = before.deleting
    /\ before.deleting => /\ before.finalizer
                          /\ obj.deleting \/ ~obj.exists
                          /\ cache.deleting \/ ~cache.finalizer
    /\ before.finalizer /\ ~before.deleting => obj.finalizer
    /\ before.finalizer /\ ~local.finalizer =>
            before.deleting /\ pc \in {"ClosePatch", "CloseStatus"}
    /\ pc \in ReconcileSteps => ~before.deleting /\ local.finalizer /\ obj.finalizer
    /\ pc = "Finalizer" => ~before.deleting
    /\ pc \in DeleteSteps => before.deleting /\ local.finalizer

ExternalSteps == {"HealthCheck", "BackendService", "TargetTCPProxy", "Address",
                  "ForwardingRule"}

InternalSteps == {"RegionalHealthCheck", "RegionalBackendService", "InternalAddress",
                  "RegionalForwardingRule"}

\* What exists is what the configuration allows, and a NAT router keeps its network.
CloudInv ==
    /\ conf.foreign \subseteq cloud
    /\ Tracked # {} => obj.finalizer
    /\ cloud \cap ExternalLB # {} => HasExternal
    /\ cloud \cap InternalLB # {} => HasInternal
    /\ conf.shared => cloud \cap (Adoptable \cup FirewallRules) \subseteq conf.foreign
    /\ Router \in cloud \ conf.foreign => Network \in cloud \ conf.foreign
    /\ pc \in ExternalSteps => HasExternal
    /\ pc \in InternalSteps => HasInternal
    /\ pc = "Router" => Network \in cloud \ conf.foreign
    /\ pc = "DeleteNetwork" => Network \notin conf.foreign

\* What may be left of the tracked resources when an errorless deletion pass
\* reaches a step: the targets of that step and of the later ones.
LeftNetworks == {Network, Router} \cup FirewallRules \cup Subnets

Left(step) ==
    CASE step = "DeleteForwardingRule" -> LeftNetworks \cup InternalLB \cup ExternalLB
      [] step = "DeleteAddress" -> LeftNetworks \cup InternalLB
            \cup {Address, TargetTCPProxy, BackendService, HealthCheck}
      [] step = "DeleteTargetTCPProxy" -> LeftNetworks \cup InternalLB
            \cup {TargetTCPProxy, BackendService, HealthCheck}
      [] step = "DeleteBackendService" -> LeftNetworks \cup InternalLB
            \cup {BackendService, HealthCheck}
      [] step = "DeleteHealthCheck" -> LeftNetworks \cup InternalLB \cup {HealthCheck}
      [] step = "DeleteRegionalForwardingRule" -> LeftNetworks \cup InternalLB
      [] step = "DeleteInternalAddress" -> LeftNetworks
            \cup {InternalAddress, RegionalBackendService, RegionalHealthCheck}
      [] step = "DeleteRegionalBackendService" -> LeftNetworks
            \cup {RegionalBackendService, RegionalHealthCheck}
      [] step = "DeleteRegionalHealthCheck" -> LeftNetworks \cup {RegionalHealthCheck}
      [] step = "DeleteFirewalls" -> {Network, Router} \cup FirewallRules
      [] step = "DeleteRouter" -> {Network, Router}
      [] step = "DeleteNetwork" -> {Network}
      [] step = "RemoveFinalizer" -> {}
      [] OTHER -> LeftNetworks

\* The steps a deletion pass that has met an error never reaches.
LateSteps == {"DeleteSubnets", "DeleteFirewalls", "DeleteRouter", "DeleteNetwork",
              "RemoveFinalizer"}

SweepInv ==
    /\ pc \in DeleteSteps /\ ~failed => Tracked \subseteq Left(pc)
    /\ pc \in LateSteps => ~failed
    /\ before.finalizer /\ ~local.finalizer => Tracked = {}

IInv == TypeOK /\ ObjectInv /\ CacheInv /\ PassInv /\ CloudInv /\ SweepInv

-----------------------------------------------------------------------------
(* What the steps of a pass do, in terms of the invariant                  *)

\* A step of reconcile creates at most one resource, which the configuration
\* allows, and leaves the API server alone.
CreateShape ==
    /\ UNCHANGED <<obj, cache, before, conf>>
    /\ local'.finalizer = local.finalizer /\ local'.deleting = local.deleting
    /\ pc \in ReconcileSteps
    /\ pc' \in ReconcileSteps \cup {"ClosePatch"}
    /\ \/ cloud' = cloud
       \/ \E r \in Resource :
            /\ cloud' = cloud \cup {r}
            /\ r \in ExternalLB => HasExternal
            /\ r \in InternalLB => HasInternal
            /\ conf.shared => r \in cloud \/ r \notin Adoptable \cup FirewallRules
            /\ r = Router => pc = "Router"
    /\ pc' \in ExternalSteps => HasExternal
    /\ pc' \in InternalSteps => HasInternal
    /\ pc' = "Router" => Network \in cloud' \ conf.foreign

\* A step of reconcileDelete deletes at most one resource, which CAPG created and
\* nothing uses; an error of the pass is not forgotten.
DeleteShape ==
    /\ UNCHANGED <<obj, cache, before, conf>>
    /\ local'.finalizer = local.finalizer /\ local'.deleting = local.deleting
    /\ pc \in DeleteSteps
    /\ pc' \in DeleteSteps \cup {"ClosePatch"}
    /\ \/ cloud' = cloud
       \/ \E r \in Resource : cloud' = cloud \ {r} /\ ~InUse(r) /\ r \notin conf.foreign
    /\ failed => failed'
    /\ pc' = "DeleteNetwork" => Network \notin conf.foreign

\* CreateShape from the pieces a creating action is made of.
LEMMA CreateGives ==
    ASSUME TypeOK, NEW r \in Resource, NEW next, NEW scope \in Object,
           CreateOrGet(r, next, scope),
           pc \in ReconcileSteps, next \in ReconcileSteps,
           scope.finalizer = local.finalizer, scope.deleting = local.deleting,
           r \in ExternalLB => HasExternal,
           r \in InternalLB => HasInternal,
           conf.shared => r \in cloud \/ r \notin Adoptable \cup FirewallRules,
           r = Router => pc = "Router",
           next \in ExternalSteps => HasExternal,
           next \in InternalSteps => HasInternal,
           next = "Router" => r = Network /\ Network \notin conf.foreign
    PROVE  CreateShape
BY DEF CreateOrGet, ReturnError, ServiceFrame, CreateShape, ExternalSteps, InternalSteps

\* CreateShape from a step that calls nothing.
LEMMA ProceedGives ==
    ASSUME NEW next, NEW scope, Proceed(next, scope),
           pc \in ReconcileSteps, next \in ReconcileSteps \ {"Router"},
           scope.finalizer = local.finalizer, scope.deleting = local.deleting,
           next \in ExternalSteps => HasExternal,
           next \in InternalSteps => HasInternal
    PROVE  CreateShape
BY DEF Proceed, ServiceFrame, CreateShape

\* CreateShape from a step that fails.
LEMMA RefuseGives ==
    ASSUME Refuse \/ GetFails, pc \in ReconcileSteps
    PROVE  CreateShape
BY DEF Refuse, GetFails, ReturnError, ServiceFrame, CreateShape, ExternalSteps, InternalSteps

\* Every step of reconcile between the finalizer and Close has that shape.
LEMMA ReconcileShape ==
    ASSUME IInv, SetFailureDomains \/ ReconcileServices \/ SetReady
    PROVE  CreateShape
<1> USE Names, ResourcesDiffer
<1>0. TypeOK /\ CloudInv /\ local \in Object
  BY DEF IInv, TypeOK
<1>a. conf \in Config
  BY <1>0, ConfigsAssumption DEF TypeOK
<1>1. CASE SetFailureDomains
  <2>1. CASE GetFails
    BY <1>1, <2>1, RefuseGives DEF SetFailureDomains, ReconcileSteps
  <2>2. CASE Proceed("Network", [local EXCEPT !.fds = SelectedZones(local.failureDomains)])
    <3> DEFINE scope == [local EXCEPT !.fds = SelectedZones(local.failureDomains)]
    <3>1. scope.finalizer = local.finalizer /\ scope.deleting = local.deleting
      BY <1>0 DEF Object
    <3> HIDE DEF scope
    <3>2. Proceed("Network", scope)
      BY <2>2 DEF scope
    <3> QED BY <1>1, <3>1, <3>2, ProceedGives
            DEF SetFailureDomains, ReconcileSteps, ExternalSteps, InternalSteps
  <2> QED BY <1>1, <2>1, <2>2 DEF SetFailureDomains
<1>2. CASE SetReady
  <2>1. local'.finalizer = local.finalizer /\ local'.deleting = local.deleting
    BY <1>0, <1>2 DEF SetReady, Object
  <2> QED BY <1>2, <2>1
          DEF SetReady, CreateShape, ReconcileSteps, ExternalSteps, InternalSteps
<1>3. CASE createOrGetNetwork
  <2>1. CASE Refuse \/ GetFails
    BY <1>3, <2>1, RefuseGives DEF createOrGetNetwork, ReconcileSteps
  <2>2. CASE /\ ~conf.shared \/ Network \in cloud
             /\ CreatedByCAPG(Network)
             /\ CreateOrGet(Network, "Router", local)
    BY <1>0, <1>3, <2>2, CreateGives
       DEF createOrGetNetwork, CreatedByCAPG, ReconcileSteps, ExternalSteps, InternalSteps
  <2>3. CASE /\ ~conf.shared \/ Network \in cloud
             /\ CreateOrGet(Network, AfterReconcile.networks, Record(local, {Network}))
    <3>1. /\ Record(local, {Network}) \in Object
          /\ Record(local, {Network}).finalizer = local.finalizer
          /\ Record(local, {Network}).deleting = local.deleting
      BY <1>0, ScopeType
    <3> QED BY <1>0, <1>3, <2>3, <3>1, CreateGives
            DEF createOrGetNetwork, ReconcileSteps, ExternalSteps, InternalSteps
  <2> QED BY <1>3, <2>1, <2>2, <2>3 DEF createOrGetNetwork
<1>4. CASE createOrGetRouter
  <2>1. CASE Refuse \/ GetFails
    BY <1>4, <2>1, RefuseGives DEF createOrGetRouter, ReconcileSteps
  <2>2. CASE /\ ~conf.shared \/ Router \in cloud
             /\ CreateOrGet(Router, AfterReconcile.networks, Record(local, {Network, Router}))
    <3>1. /\ Record(local, {Network, Router}) \in Object
          /\ Record(local, {Network, Router}).finalizer = local.finalizer
          /\ Record(local, {Network, Router}).deleting = local.deleting
      BY <1>0, ScopeType
    <3> QED BY <1>0, <1>4, <2>2, <3>1, CreateGives
            DEF createOrGetRouter, ReconcileSteps, ExternalSteps, InternalSteps
  <2> QED BY <1>4, <2>1, <2>2 DEF createOrGetRouter
<1>5. CASE reconcileFirewalls
  <2>1. CASE GetFails
    BY <1>5, <2>1, RefuseGives DEF reconcileFirewalls, ReconcileSteps
  <2>2. CASE Proceed(AfterReconcile.firewalls, local)
    BY <1>5, <2>2, ProceedGives
       DEF reconcileFirewalls, ReconcileSteps, ExternalSteps, InternalSteps
  <2>3. ASSUME NEW r \in FirewallRules, ~conf.shared, CreateOrGet(r, "Firewalls", local)
        PROVE  CreateShape
    <3>1. r \in Resource /\ r # Router /\ r \notin ExternalLB \cup InternalLB
      OBVIOUS
    <3> QED BY <1>0, <1>5, <2>3, <3>1, CreateGives
            DEF reconcileFirewalls, ReconcileSteps, ExternalSteps, InternalSteps
  <2> QED BY <1>5, <2>1, <2>2, <2>3 DEF reconcileFirewalls
<1>6. CASE createOrGetSubnets
  <2>1. CASE Refuse \/ GetFails
    BY <1>6, <2>1, RefuseGives DEF createOrGetSubnets, ReconcileSteps
  <2>2. CASE Proceed(AfterReconcile.subnets, local)
    BY <1>6, <2>2, ProceedGives
       DEF createOrGetSubnets, ReconcileSteps, ExternalSteps, InternalSteps
  <2>3. ASSUME NEW s \in SubnetNames, ~conf.shared,
               CreateOrGet(Subnet(s), "Subnets", local)
        PROVE  CreateShape
    <3>1. Subnet(s) \in Resource /\ Subnet(s) # Router
          /\ Subnet(s) \notin ExternalLB \cup InternalLB
      OBVIOUS
    <3> QED BY <1>0, <1>6, <2>3, <3>1, CreateGives
            DEF createOrGetSubnets, ReconcileSteps, ExternalSteps, InternalSteps
  <2> QED BY <1>6, <2>1, <2>2, <2>3 DEF createOrGetSubnets
<1>7. CASE createOrGetInstanceGroups
  <2>1. CASE Proceed(ReconcileLBs, Record(local, {Group(z) : z \in local.fds}))
    <3>1. {Group(z) : z \in local.fds} \subseteq Resource
      BY <1>0 DEF Object
    <3>2. /\ Record(local, {Group(z) : z \in local.fds}).finalizer = local.finalizer
          /\ Record(local, {Group(z) : z \in local.fds}).deleting = local.deleting
      BY <1>0, <3>1, ScopeType
    <3>3. /\ ReconcileLBs \in ExternalSteps => HasExternal
          /\ ReconcileLBs \in InternalSteps => HasInternal
          /\ ReconcileLBs \in ReconcileSteps \ {"Router"}
      BY <1>a DEF ReconcileLBs, HasExternal, HasInternal, ReconcileSteps, ExternalSteps,
                  InternalSteps, Config, LBTypes
    <3>4. pc \in ReconcileSteps
      BY <1>7 DEF createOrGetInstanceGroups, ReconcileSteps
    <3> QED BY <2>1, <3>2, <3>3, <3>4, ProceedGives
  <2>2. ASSUME NEW z \in todo,
               CreateOrGet(Group(z), "InstanceGroups",
                           IF Keep THEN Record(local, {Group(z)}) ELSE local)
        PROVE  CreateShape
    <3> DEFINE scope == IF Keep THEN Record(local, {Group(z)}) ELSE local
    <3>1. Group(z) \in Groups
      BY <1>0 DEF TypeOK
    <3>2. /\ scope \in Object
          /\ scope.finalizer = local.finalizer /\ scope.deleting = local.deleting
      BY <1>0, <3>1, ScopeType
    <3>3. /\ Group(z) \in Resource /\ Group(z) \notin ExternalLB \cup InternalLB
          /\ Group(z) # Router /\ Group(z) \notin Adoptable \cup FirewallRules
      BY <3>1 DEF Adoptable
    <3> HIDE DEF scope
    <3>4. CreateOrGet(Group(z), "InstanceGroups", scope)
      BY <2>2 DEF scope
    <3> QED BY <1>0, <1>7, <3>2, <3>3, <3>4, CreateGives
            DEF createOrGetInstanceGroups, ReconcileSteps, ExternalSteps, InternalSteps
  <2> QED BY <1>7, <2>1, <2>2 DEF createOrGetInstanceGroups
<1>8. ASSUME NEW step \in ExternalSteps, NEW r \in ExternalLB, NEW next \in ReconcileSteps,
             pc = step, NEW scope \in Object, CreateOrGet(r, next, scope),
             scope.finalizer = local.finalizer, scope.deleting = local.deleting,
             next # "Router", next \in InternalSteps => HasInternal
      PROVE  CreateShape
  <2>1. HasExternal /\ pc \in ReconcileSteps
    BY <1>0, <1>8 DEF CloudInv, ExternalSteps, ReconcileSteps
  <2>2. r \in Resource /\ r # Router /\ r \notin InternalLB
        /\ r \notin Adoptable \cup FirewallRules
    BY DEF Adoptable
  <2> QED BY <1>0, <1>8, <2>1, <2>2, CreateGives
<1>9. ASSUME NEW step \in InternalSteps, NEW r \in InternalLB, NEW next \in ReconcileSteps,
             pc = step, NEW scope \in Object, CreateOrGet(r, next, scope),
             scope.finalizer = local.finalizer, scope.deleting = local.deleting,
             next # "Router", next \notin ExternalSteps
      PROVE  CreateShape
  <2>1. HasInternal /\ pc \in ReconcileSteps
    BY <1>0, <1>9 DEF CloudInv, InternalSteps, ReconcileSteps
  <2>2. r \in Resource /\ r # Router /\ r \notin ExternalLB
        /\ r \notin Adoptable \cup FirewallRules
    BY DEF Adoptable
  <2> QED BY <1>0, <1>9, <2>1, <2>2, CreateGives
<1>10. \A r \in Resource : /\ Record(local, {r}) \in Object
                           /\ Record(local, {r}).finalizer = local.finalizer
                           /\ Record(local, {r}).deleting = local.deleting
  BY <1>0, ScopeType
<1>11. CASE createOrGetHealthCheck \/ createOrGetTargetTCPProxy
  BY <1>8, <1>10, <1>11 DEF createOrGetHealthCheck, createOrGetTargetTCPProxy, CreateLB,
     ExternalSteps, InternalSteps, ReconcileSteps
<1>12. CASE createOrGetForwardingRule
  <2>1. /\ AfterExternal \in ReconcileSteps \ {"Router"}
        /\ AfterExternal \in InternalSteps => HasInternal
    BY DEF AfterExternal, ReconcileSteps, InternalSteps
  <2> QED BY <1>8, <1>10, <1>12, <2>1 DEF createOrGetForwardingRule, CreateLB, ExternalSteps
<1>13. CASE createOrGetAddress
  <2>1. /\ [Record(local, {Address}) EXCEPT !.host = "external"] \in Object
        /\ [Record(local, {Address}) EXCEPT !.host = "external"].finalizer = local.finalizer
        /\ [Record(local, {Address}) EXCEPT !.host = "external"].deleting = local.deleting
    BY <1>0, ScopeType DEF Hosts
  <2> QED BY <1>8, <1>13, <2>1
          DEF createOrGetAddress, ExternalSteps, InternalSteps, ReconcileSteps
<1>14. CASE createOrGetRegionalHealthCheck \/ createOrGetRegionalForwardingRule
  BY <1>9, <1>10, <1>14 DEF createOrGetRegionalHealthCheck,
     createOrGetRegionalForwardingRule, CreateLB, ExternalSteps, InternalSteps, ReconcileSteps
<1>15. CASE createOrGetInternalAddress
  <2> DEFINE scope == [Record(local, {InternalAddress}) EXCEPT
                        !.host = IF conf.lbType = "Internal" THEN "internal" ELSE @]
  <2>1. /\ scope \in Object
        /\ scope.finalizer = local.finalizer /\ scope.deleting = local.deleting
    <3> DEFINE recorded == Record(local, {InternalAddress})
    <3>1. /\ recorded \in Object
          /\ recorded.finalizer = local.finalizer /\ recorded.deleting = local.deleting
      BY <1>10
    <3> HIDE DEF recorded
    <3>2. \A h \in Hosts :
            LET o == [recorded EXCEPT !.host = h]
            IN  o \in Object /\ o.finalizer = local.finalizer /\ o.deleting = local.deleting
      BY <3>1 DEF Object
    <3>3. scope = [recorded EXCEPT
                    !.host = IF conf.lbType = "Internal" THEN "internal" ELSE recorded.host]
      BY DEF recorded
    <3>4. recorded.host \in Hosts
      BY <3>1 DEF Object
    <3> HIDE DEF scope
    <3> QED BY <3>2, <3>3, <3>4 DEF Hosts
  <2>2. CASE Refuse \/ GetFails
    BY <1>15, <2>2, RefuseGives DEF createOrGetInternalAddress, ReconcileSteps
  <2>3. CASE CreateOrGet(InternalAddress, "RegionalForwardingRule", scope)
    <3> HIDE DEF scope
    <3> QED BY <1>9, <1>15, <2>1, <2>3
            DEF createOrGetInternalAddress, ExternalSteps, InternalSteps, ReconcileSteps
  <2> QED BY <1>15, <2>2, <2>3 DEF createOrGetInternalAddress
<1>16. CASE createOrGetBackendService
  <2>1. HasExternal
    BY <1>0, <1>16 DEF CloudInv, ExternalSteps, createOrGetBackendService
  <2>2. BackendService \notin Adoptable \cup FirewallRules \cup InternalLB \cup {Router}
    BY DEF Adoptable
  <2> QED BY <1>10, <1>16, <2>1, <2>2
          DEF createOrGetBackendService, CreateBackendService, CreateShape, ReturnError,
              ServiceFrame, ExternalSteps, InternalSteps, ReconcileSteps
<1>17. CASE createOrGetRegionalBackendService
  <2>1. HasInternal
    BY <1>0, <1>17 DEF CloudInv, InternalSteps, createOrGetRegionalBackendService
  <2>2. RegionalBackendService \notin Adoptable \cup FirewallRules \cup ExternalLB \cup {Router}
    BY DEF Adoptable
  <2> QED BY <1>10, <1>17, <2>1, <2>2
          DEF createOrGetRegionalBackendService, CreateBackendService, CreateShape,
              ReturnError, ServiceFrame, ExternalSteps, InternalSteps, ReconcileSteps
<1> QED BY <1>1, <1>2, <1>3, <1>4, <1>5, <1>6, <1>7, <1>11, <1>12, <1>13, <1>14, <1>15,
           <1>16, <1>17 DEF ReconcileServices

\* DeleteShape from the pieces a deleting action is made of: it goes on without
\* r, or takes the error exit.
LEMMA DeleteGives ==
    ASSUME NEW r \in Resource, r \notin conf.foreign, NEW next, NEW onError, NEW scope,
           Delete(r, next, onError, scope),
           pc \in DeleteSteps, {next, onError} \subseteq DeleteSteps \cup {"ClosePatch"},
           scope.finalizer = local.finalizer, scope.deleting = local.deleting,
           next = "DeleteNetwork" => Network \notin conf.foreign,
           onError # "DeleteNetwork"
    PROVE  /\ DeleteShape
           /\ \/ pc' = next /\ r \notin cloud' /\ failed' = failed
              \/ pc' = onError /\ failed' = TRUE
BY DEF Delete, Deleted, ServiceFrame, DeleteShape

\* DeleteShape from a step that deletes nothing.
LEMMA ProceedDeleteGives ==
    ASSUME NEW next, NEW scope, Proceed(next, scope),
           pc \in DeleteSteps, next \in DeleteSteps \cup {"ClosePatch"},
           scope.finalizer = local.finalizer, scope.deleting = local.deleting,
           next = "DeleteNetwork" => Network \notin conf.foreign
    PROVE  DeleteShape /\ pc' = next /\ cloud' = cloud /\ failed' = failed
BY DEF Proceed, ServiceFrame, DeleteShape

\* DeleteShape from a failing read.
LEMMA GetFailsDeleteGives ==
    ASSUME GetFails, pc \in DeleteSteps
    PROVE  DeleteShape /\ pc' = "ClosePatch" /\ failed' = TRUE
BY DEF GetFails, ReturnError, ServiceFrame, DeleteShape

\* What is tracked does not grow in a step that deletes.
LEMMA TrackedShrinks ==
    ASSUME DeleteShape
    PROVE  cloud' \subseteq cloud /\ Tracked' \subseteq Tracked /\ Owned' = Owned
BY DEF DeleteShape, Tracked, Owned, SkippedSubnets

\* When the subnet service has nothing more to delete, only skipped subnets are left.
LEMMA SubnetsDone ==
    ASSUME \A s \in FirstIn({s \in SubnetNames : Subnet(s) \in cloud}) : ~CreatedByCAPG(Subnet(s))
    PROVE  Tracked \cap Subnets = {}
<1> DEFINE present == {s \in SubnetNames : Subnet(s) \in cloud}
<1> SUFFICES ASSUME NEW t \in SubnetNames, Subnet(t) \in cloud, Subnet(t) \notin conf.foreign
             PROVE  Subnet(t) \in SkippedSubnets
  BY DEF Tracked, Owned, Subnets
<1>1. FirstIn(present) # {}
  BY FirstExists
<1>2. PICK i \in DOMAIN SubnetSpecs :
        /\ SubnetSpecs[i] \in present
        /\ \A j \in DOMAIN SubnetSpecs : SubnetSpecs[j] \in present => i <= j
        /\ SubnetSpecs[i] \in FirstIn(present)
  BY <1>1 DEF FirstIn
<1>3. Subnet(SubnetSpecs[i]) \in conf.foreign
  BY <1>2 DEF CreatedByCAPG
<1>4. PICK j \in DOMAIN SubnetSpecs : SubnetSpecs[j] = t
  BY DEF SubnetNames
<1>5. DOMAIN SubnetSpecs \subseteq Nat
  <2>1. SubnetSpecs \in Seq(SubnetNames)
    BY SubnetsAssumption
  <2> QED BY <2>1
<1>6. i <= j
  BY <1>2, <1>4
<1>7. i # j
  BY <1>3, <1>4
<1>8. i < j
  BY <1>5, <1>6, <1>7
<1> QED BY <1>3, <1>4, <1>8 DEF SkippedSubnets

\* Each step of a deletion pass leaves its target out of what may be left.
LEMMA LeftSteps ==
    /\ Left("DeleteForwardingRule") \subseteq Left("DeleteAddress") \cup {ForwardingRule}
    /\ Left("DeleteAddress") \subseteq Left("DeleteTargetTCPProxy") \cup {Address}
    /\ Left("DeleteTargetTCPProxy") \subseteq Left("DeleteBackendService") \cup {TargetTCPProxy}
    /\ Left("DeleteBackendService") \subseteq Left("DeleteHealthCheck") \cup {BackendService}
    /\ Left("DeleteHealthCheck") \subseteq LeftNetworks \cup InternalLB \cup {HealthCheck}
    /\ Left("DeleteRegionalForwardingRule") = LeftNetworks \cup InternalLB
    /\ Left("DeleteRegionalForwardingRule") \subseteq
            Left("DeleteInternalAddress") \cup {RegionalForwardingRule}
    /\ Left("DeleteInternalAddress") \subseteq
            Left("DeleteRegionalBackendService") \cup {InternalAddress}
    /\ Left("DeleteRegionalBackendService") \subseteq
            Left("DeleteRegionalHealthCheck") \cup {RegionalBackendService}
    /\ Left("DeleteRegionalHealthCheck") \subseteq
            Left("DeleteInstanceGroups") \cup {RegionalHealthCheck}
    /\ Left("DeleteInstanceGroups") = LeftNetworks
    /\ Left("DeleteSubnets") = LeftNetworks
    /\ Left("DeleteFirewalls") = {Network, Router} \cup FirewallRules
    /\ Left("DeleteRouter") = {Network, Router}
    /\ Left("DeleteNetwork") = {Network}
    /\ Left("RemoveFinalizer") = {}
BY DEF Left, ExternalLB, InternalLB

\* An errorless step to next sweeps when what it leaves may be left there.
LEMMA SweepGoesOn ==
    ASSUME IInv, DeleteShape, failed' = failed, pc' \in LateSteps => ~failed,
           ~failed => Tracked' \subseteq Left(pc')
    PROVE  SweepInv'
<1>1. ~(before'.finalizer /\ ~local'.finalizer)
  BY DEF IInv, PassInv, DeleteShape
<1> QED BY <1>1 DEF SweepInv

\* A step that meets an error claims nothing, and never reaches a late step.
LEMMA SweepFails ==
    ASSUME IInv, DeleteShape, failed' = TRUE, pc' \notin LateSteps
    PROVE  SweepInv'
<1>1. ~(before'.finalizer /\ ~local'.finalizer)
  BY DEF IInv, PassInv, DeleteShape
<1> QED BY <1>1 DEF SweepInv

\* What a deleted resource leaves behind.
LEMMA TrackedLoses ==
    ASSUME DeleteShape, NEW r, r \notin cloud'
    PROVE  Tracked' \subseteq Tracked \ {r}
BY TrackedShrinks DEF Tracked

\* A step of a load balancer's deletion.
LEMMA DeleteLBSweeps ==
    ASSUME IInv, NEW step \in DeleteSteps, NEW r \in ExternalLB \cup InternalLB,
           NEW next \in DeleteSteps \ LateSteps, NEW onError \in DeleteSteps \ LateSteps,
           DeleteLB(step, r, next, onError),
           Tracked \cap Left(step) \subseteq Left(next) \cup {r}
    PROVE  DeleteShape /\ SweepInv'
<1>0. TypeOK /\ SweepInv /\ local \in Object
  BY DEF IInv, TypeOK
<1>1. conf.foreign \subseteq Adoptable
  BY <1>0, ConfigsAssumption DEF TypeOK, Config
<1>2. r \in Resource /\ r \notin conf.foreign
  BY <1>1, Names, ResourcesDiffer DEF Adoptable
<1> DEFINE scope == Forget(local, {r})
<1>3. scope.finalizer = local.finalizer /\ scope.deleting = local.deleting
  BY <1>0, <1>2, ScopeType
<1>4. pc = step /\ Delete(r, next, onError, scope)
  BY DEF DeleteLB
<1> HIDE DEF scope
<1>5. next # "DeleteNetwork" /\ onError # "DeleteNetwork"
  BY DEF LateSteps
<1>6. /\ DeleteShape
      /\ \/ pc' = next /\ r \notin cloud' /\ failed' = failed
         \/ pc' = onError /\ failed' = TRUE
  BY <1>2, <1>3, <1>4, <1>5, DeleteGives
<1>7. CASE pc' = next /\ r \notin cloud' /\ failed' = failed
  <2>1. Tracked' \subseteq Tracked \ {r}
    BY <1>6, <1>7, TrackedLoses
  <2>2. ~failed => Tracked \subseteq Left(step)
    BY <1>0, <1>4 DEF SweepInv
  <2>3. ~failed => Tracked' \subseteq Left(pc')
    BY <1>7, <2>1, <2>2
  <2> QED BY <1>6, <1>7, <2>3, SweepGoesOn
<1>8. CASE pc' = onError /\ failed' = TRUE
  BY <1>6, <1>8, SweepFails
<1> QED BY <1>6, <1>7, <1>8

\* The steps that delete the load balancers.
LEMMA LoadBalancersSweep ==
    ASSUME IInv,
           \/ deleteForwardingRule \/ deleteAddress \/ deleteTargetTCPProxy
           \/ deleteBackendService \/ deleteHealthCheck
           \/ deleteRegionalForwardingRule \/ deleteInternalAddress
           \/ deleteRegionalBackendService \/ deleteRegionalHealthCheck
    PROVE  DeleteShape /\ SweepInv'
<1>1. /\ AfterDeleteExternal \in {"DeleteRegionalForwardingRule", "DeleteInstanceGroups"}
      /\ AfterDeleteExternal \in DeleteSteps \ LateSteps
  BY DEF AfterDeleteExternal, DeleteSteps, LateSteps
<1>2. AfterDeleteExternal = "DeleteInstanceGroups" => InternalLB \cap Tracked = {}
  BY DEF AfterDeleteExternal, IInv, CloudInv, Tracked
<1>3. Tracked \cap Left("DeleteHealthCheck") \subseteq Left(AfterDeleteExternal) \cup {HealthCheck}
  BY <1>1, <1>2, LeftSteps
<1>4. /\ {HealthCheck, BackendService, TargetTCPProxy, Address, ForwardingRule}
            \subseteq ExternalLB
      /\ {RegionalHealthCheck, RegionalBackendService, InternalAddress,
          RegionalForwardingRule} \subseteq InternalLB
  BY DEF ExternalLB, InternalLB
<1>5. /\ {"DeleteForwardingRule", "DeleteAddress", "DeleteTargetTCPProxy",
          "DeleteBackendService", "DeleteHealthCheck", "DeleteRegionalForwardingRule",
          "DeleteInternalAddress", "DeleteRegionalBackendService",
          "DeleteRegionalHealthCheck", "DeleteInstanceGroups"} \subseteq DeleteSteps \ LateSteps
  BY DEF DeleteSteps, LateSteps
<1>6. CASE deleteForwardingRule
  BY <1>1, <1>4, <1>5, <1>6, LeftSteps, DeleteLBSweeps DEF deleteForwardingRule
<1>7. CASE deleteAddress
  BY <1>1, <1>4, <1>5, <1>7, LeftSteps, DeleteLBSweeps DEF deleteAddress
<1>8. CASE deleteTargetTCPProxy
  BY <1>1, <1>4, <1>5, <1>8, LeftSteps, DeleteLBSweeps DEF deleteTargetTCPProxy
<1>9. CASE deleteBackendService
  BY <1>1, <1>4, <1>5, <1>9, LeftSteps, DeleteLBSweeps DEF deleteBackendService
<1>10. CASE deleteHealthCheck
  BY <1>1, <1>3, <1>4, <1>5, <1>10, DeleteLBSweeps DEF deleteHealthCheck
<1>11. CASE deleteRegionalForwardingRule
  BY <1>4, <1>5, <1>11, LeftSteps, DeleteLBSweeps DEF deleteRegionalForwardingRule
<1>12. CASE deleteInternalAddress
  BY <1>4, <1>5, <1>12, LeftSteps, DeleteLBSweeps DEF deleteInternalAddress
<1>13. CASE deleteRegionalBackendService
  BY <1>4, <1>5, <1>13, LeftSteps, DeleteLBSweeps DEF deleteRegionalBackendService
<1>14. CASE deleteRegionalHealthCheck
  BY <1>4, <1>5, <1>14, LeftSteps, DeleteLBSweeps DEF deleteRegionalHealthCheck
<1> QED BY <1>6, <1>7, <1>8, <1>9, <1>10, <1>11, <1>12, <1>13, <1>14

\* The steps that delete the instance groups.
LEMMA GroupsSweep ==
    ASSUME IInv, deleteInstanceGroups
    PROVE  DeleteShape /\ SweepInv'
<1>0. TypeOK /\ SweepInv /\ local \in Object /\ pc = "DeleteInstanceGroups"
  BY DEF IInv, TypeOK, deleteInstanceGroups
<1>1. "DeleteInstanceGroups" \in DeleteSteps \ LateSteps /\ "DeleteSubnets" \in DeleteSteps
      /\ "ClosePatch" \notin DeleteSteps \cup LateSteps
      /\ "DeleteSubnets" # "DeleteNetwork"
  BY DEF DeleteSteps, LateSteps
<1>2. ~failed => Tracked \subseteq LeftNetworks
  BY <1>0, <1>1, LeftSteps DEF SweepInv
<1>3. CASE Proceed(IF failed THEN "ClosePatch" ELSE AfterDelete.loadbalancers, local)
  <2> DEFINE next == IF failed THEN "ClosePatch" ELSE AfterDelete.loadbalancers
  <2>1. /\ next \in DeleteSteps \cup {"ClosePatch"} /\ next # "DeleteNetwork"
        /\ failed => next = "ClosePatch"
        /\ ~failed => next = "DeleteSubnets"
    BY <1>1, Names
  <2> HIDE DEF next
  <2>2. Proceed(next, local)
    BY <1>3 DEF next
  <2>3. DeleteShape /\ pc' = next /\ cloud' = cloud /\ failed' = failed
    BY <1>0, <1>1, <2>1, <2>2, ProceedDeleteGives
  <2>4. Tracked' \subseteq Tracked
    BY <2>3, TrackedShrinks
  <2>5. CASE failed
    BY <1>0, <1>1, <2>1, <2>3, <2>5, SweepFails DEF TypeOK
  <2>6. CASE ~failed
    BY <1>2, <2>1, <2>3, <2>4, <2>6, LeftSteps, SweepGoesOn
  <2> QED BY <2>3, <2>5, <2>6
<1>4. ASSUME NEW z \in todo,
             Delete(Group(z), "DeleteInstanceGroups", "ClosePatch",
                    IF Group(z) \in cloud THEN local ELSE Forget(local, {Group(z)}))
      PROVE  DeleteShape /\ SweepInv'
  <2> DEFINE scope == IF Group(z) \in cloud THEN local ELSE Forget(local, {Group(z)})
  <2> DEFINE g == Group(z)
  <2>1. g \in Groups
    BY <1>0, Names DEF TypeOK
  <2>2. conf.foreign \subseteq Adoptable
    BY <1>0, ConfigsAssumption DEF TypeOK, Config
  <2>3. g \notin conf.foreign /\ g \in Resource
    BY <2>1, <2>2, Names, ResourcesDiffer DEF Adoptable
  <2>4. scope.finalizer = local.finalizer /\ scope.deleting = local.deleting
    BY <1>0, <2>3, ScopeType
  <2> HIDE DEF scope, g
  <2>5. Delete(g, "DeleteInstanceGroups", "ClosePatch", scope)
    BY <1>4 DEF scope, g
  <2>6. /\ DeleteShape
        /\ \/ pc' = "DeleteInstanceGroups" /\ failed' = failed
           \/ pc' = "ClosePatch" /\ failed' = TRUE
    BY <1>0, <1>1, <2>3, <2>4, <2>5, DeleteGives
  <2>7. Tracked' \subseteq Tracked
    BY <2>6, TrackedShrinks
  <2>8. CASE pc' = "DeleteInstanceGroups" /\ failed' = failed
    BY <1>1, <1>2, <2>6, <2>7, <2>8, LeftSteps, SweepGoesOn
  <2>9. CASE pc' = "ClosePatch" /\ failed' = TRUE
    BY <1>1, <2>6, <2>9, SweepFails
  <2> QED BY <2>6, <2>8, <2>9
<1> QED BY <1>3, <1>4 DEF deleteInstanceGroups

\* A set holds at most one first subnet.
LEMMA FirstUnique ==
    ASSUME NEW S, NEW s \in FirstIn(S), NEW t \in FirstIn(S)
    PROVE  s = t
<1>1. SubnetSpecs \in Seq(SubnetNames)
  BY SubnetsAssumption
<1>2. DOMAIN SubnetSpecs \subseteq Nat
  BY <1>1
<1>3. PICK i \in DOMAIN SubnetSpecs :
        /\ s = SubnetSpecs[i] /\ SubnetSpecs[i] \in S
        /\ \A k \in DOMAIN SubnetSpecs : SubnetSpecs[k] \in S => i <= k
  BY DEF FirstIn
<1>4. PICK j \in DOMAIN SubnetSpecs :
        /\ t = SubnetSpecs[j] /\ SubnetSpecs[j] \in S
        /\ \A k \in DOMAIN SubnetSpecs : SubnetSpecs[k] \in S => j <= k
  BY DEF FirstIn
<1>5. i <= j /\ j <= i /\ i \in Nat /\ j \in Nat
  BY <1>2, <1>3, <1>4
<1>6. i = j
  BY <1>5
<1> QED BY <1>3, <1>4, <1>6

\* The steps that delete the subnets.
LEMMA SubnetsSweep ==
    ASSUME IInv, deleteSubnets
    PROVE  DeleteShape /\ SweepInv'
<1> DEFINE present == {s \in SubnetNames : Subnet(s) \in cloud}
<1> DEFINE done == \A s \in FirstIn(present) : ~CreatedByCAPG(Subnet(s))
<1>0. TypeOK /\ SweepInv /\ CloudInv /\ pc = "DeleteSubnets"
  BY DEF IInv, deleteSubnets
<1>1. "DeleteSubnets" \in DeleteSteps /\ "DeleteFirewalls" \in DeleteSteps
      /\ "DeleteSubnets" \in LateSteps
      /\ "ClosePatch" \notin LateSteps
  BY DEF DeleteSteps, LateSteps
<1>2. ~failed /\ Tracked \subseteq LeftNetworks
  BY <1>0, <1>1, LeftSteps DEF SweepInv
<1>3. CASE (conf.shared \/ done) /\ Proceed(AfterDelete.subnets, local)
  <2>1. DeleteShape /\ pc' = "DeleteFirewalls" /\ failed' = failed
    BY <1>0, <1>1, <1>3, Names, ProceedDeleteGives
  <2>2. Tracked \cap Subnets = {}
    <3>1. CASE conf.shared
      BY <1>0, <3>1 DEF CloudInv, Adoptable, Tracked
    <3> QED BY <1>3, <3>1, SubnetsDone
  <2>3. Tracked' \subseteq {Network, Router} \cup FirewallRules
    BY <1>2, <2>1, <2>2, TrackedShrinks DEF LeftNetworks
  <2> QED BY <1>2, <2>1, <2>3, LeftSteps, SweepGoesOn
<1>4. CASE GetFails
  BY <1>0, <1>1, <1>4, GetFailsDeleteGives, SweepFails
<1>5. ASSUME NEW s \in SubnetNames, CreatedByCAPG(Subnet(s)),
             Delete(Subnet(s), "DeleteSubnets", "ClosePatch", local)
      PROVE  DeleteShape /\ SweepInv'
  <2> DEFINE r == Subnet(s)
  <2>1. r \in Resource /\ r \notin conf.foreign
    BY <1>5, Names DEF CreatedByCAPG
  <2> HIDE DEF r
  <2>2. Delete(r, "DeleteSubnets", "ClosePatch", local)
    BY <1>5 DEF r
  <2>3. /\ DeleteShape
        /\ \/ pc' = "DeleteSubnets" /\ failed' = failed
           \/ pc' = "ClosePatch" /\ failed' = TRUE
    BY <1>0, <1>1, <2>1, <2>2, DeleteGives
  <2>4. Tracked' \subseteq LeftNetworks
    BY <1>2, <2>3, TrackedShrinks
  <2>5. CASE pc' = "DeleteSubnets" /\ failed' = failed
    BY <1>2, <2>3, <2>4, <2>5, LeftSteps, SweepGoesOn
  <2>6. CASE pc' = "ClosePatch" /\ failed' = TRUE
    BY <1>1, <2>3, <2>6, SweepFails
  <2> QED BY <2>3, <2>5, <2>6
<1>6. ASSUME ~done, NEW s \in FirstIn(present)
      PROVE  s \in SubnetNames /\ CreatedByCAPG(Subnet(s))
  <2>1. PICK t \in FirstIn(present) : CreatedByCAPG(Subnet(t))
    BY <1>6
  <2>2. s = t
    BY FirstUnique
  <2> QED BY <2>1, <2>2, Names
<1> QED BY <1>3, <1>4, <1>5, <1>6 DEF deleteSubnets

\* The steps that delete the firewall rules.
LEMMA FirewallsSweep ==
    ASSUME IInv, deleteFirewalls
    PROVE  DeleteShape /\ SweepInv'
<1>0. TypeOK /\ SweepInv /\ CloudInv /\ pc = "DeleteFirewalls"
  BY DEF IInv, deleteFirewalls
<1>1. "DeleteFirewalls" \in DeleteSteps /\ "DeleteRouter" \in DeleteSteps
      /\ "DeleteFirewalls" \in LateSteps /\ "ClosePatch" \notin LateSteps
  BY DEF DeleteSteps, LateSteps
<1>2. ~failed /\ Tracked \subseteq {Network, Router} \cup FirewallRules
  BY <1>0, <1>1, LeftSteps DEF SweepInv
<1>3. conf.foreign \subseteq Adoptable
  BY <1>0, ConfigsAssumption DEF TypeOK, Config
<1>4. FirewallRules \cap conf.foreign = {} /\ FirewallRules \subseteq Resource
  BY <1>3, Names, ResourcesDiffer DEF Adoptable
<1>5. CASE /\ conf.shared \/ FirewallRules \cap cloud = {}
           /\ Proceed(AfterDelete.firewalls, local)
  <2>1. DeleteShape /\ pc' = "DeleteRouter" /\ failed' = failed
    BY <1>0, <1>1, <1>5, Names, ProceedDeleteGives
  <2>2. Tracked \cap FirewallRules = {}
    BY <1>0, <1>4, <1>5 DEF CloudInv, Tracked
  <2>3. Tracked' \subseteq {Network, Router}
    BY <1>2, <2>1, <2>2, TrackedShrinks
  <2> QED BY <1>2, <2>1, <2>3, LeftSteps, SweepGoesOn
<1>6. ASSUME NEW r \in FirewallRules, Delete(r, "DeleteFirewalls", "ClosePatch", local)
      PROVE  DeleteShape /\ SweepInv'
  <2>1. /\ DeleteShape
        /\ \/ pc' = "DeleteFirewalls" /\ failed' = failed
           \/ pc' = "ClosePatch" /\ failed' = TRUE
    BY <1>0, <1>1, <1>4, <1>6, DeleteGives
  <2>2. Tracked' \subseteq {Network, Router} \cup FirewallRules
    BY <1>2, <2>1, TrackedShrinks
  <2>3. CASE pc' = "DeleteFirewalls" /\ failed' = failed
    BY <1>2, <2>1, <2>2, <2>3, LeftSteps, SweepGoesOn
  <2>4. CASE pc' = "ClosePatch" /\ failed' = TRUE
    BY <1>1, <2>1, <2>4, SweepFails
  <2> QED BY <2>1, <2>3, <2>4
<1> QED BY <1>5, <1>6 DEF deleteFirewalls

\* The steps that delete the router and the network.
LEMMA NetworkSweeps ==
    ASSUME IInv, deleteRouter \/ deleteNetwork
    PROVE  DeleteShape /\ SweepInv'
<1>0. TypeOK /\ SweepInv /\ CloudInv /\ local \in Object
  BY DEF IInv, TypeOK
<1>1. {"DeleteRouter", "DeleteNetwork", "RemoveFinalizer"} \subseteq DeleteSteps \cap LateSteps
      /\ "ClosePatch" \notin LateSteps
  BY DEF DeleteSteps, LateSteps
<1>2. pc \in {"DeleteRouter", "DeleteNetwork"} => ~failed
  BY <1>0, <1>1 DEF SweepInv
<1> DEFINE forgotten == Forget(local, {Network, Router})
<1>3. forgotten.finalizer = local.finalizer /\ forgotten.deleting = local.deleting
  BY <1>0, Names, ScopeType
<1> HIDE DEF forgotten
<1>4. Network \in Resource /\ Router \in Resource
  BY Names
<1>5. CASE deleteRouter
  <2>1. pc = "DeleteRouter"
    BY <1>5 DEF deleteRouter
  <2>2. Tracked \subseteq {Network, Router}
    BY <1>0, <1>1, <1>2, <2>1, LeftSteps DEF SweepInv
  <2>3. ASSUME NEW scope, Proceed(AfterDelete.networks, scope),
               scope.finalizer = local.finalizer, scope.deleting = local.deleting,
               conf.shared \/ Network \notin cloud \/ ~CreatedByCAPG(Network)
        PROVE  DeleteShape /\ SweepInv'
    <3>1. DeleteShape /\ pc' = "RemoveFinalizer" /\ failed' = failed
      BY <1>1, <2>1, <2>3, Names, ProceedDeleteGives
    <3>2. Network \notin Tracked /\ Router \notin Tracked
      BY <1>0, <2>3 DEF CloudInv, Adoptable, Tracked, CreatedByCAPG
    <3>3. Tracked' \subseteq {}
      BY <2>2, <3>1, <3>2, TrackedShrinks
    <3> QED BY <1>2, <2>1, <3>1, <3>3, LeftSteps, SweepGoesOn
  <2>4. CASE /\ CreatedByCAPG(Network) /\ CreatedByCAPG(Router)
             /\ Delete(Router, "DeleteNetwork", "ClosePatch", local)
    <3>1. /\ DeleteShape
          /\ \/ pc' = "DeleteNetwork" /\ Router \notin cloud' /\ failed' = failed
             \/ pc' = "ClosePatch" /\ failed' = TRUE
      BY <1>1, <1>4, <2>1, <2>4, DeleteGives DEF CreatedByCAPG
    <3>2. CASE pc' = "DeleteNetwork" /\ Router \notin cloud' /\ failed' = failed
      <4>1. Tracked' \subseteq {Network}
        BY <2>2, <3>1, <3>2, TrackedLoses
      <4> QED BY <1>2, <2>1, <3>1, <3>2, <4>1, LeftSteps, SweepGoesOn
    <3>3. CASE pc' = "ClosePatch" /\ failed' = TRUE
      BY <1>1, <3>1, <3>3, SweepFails
    <3> QED BY <3>1, <3>2, <3>3
  <2>5. CASE /\ CreatedByCAPG(Network) /\ ~CreatedByCAPG(Router)
             /\ Proceed("DeleteNetwork", local)
    <3>1. DeleteShape /\ pc' = "DeleteNetwork" /\ failed' = failed
      BY <1>1, <2>1, <2>5, ProceedDeleteGives DEF CreatedByCAPG
    <3>2. Router \notin Tracked
      BY <2>5 DEF Tracked, CreatedByCAPG
    <3>3. Tracked' \subseteq {Network}
      BY <2>2, <3>1, <3>2, TrackedShrinks
    <3> QED BY <1>2, <2>1, <3>1, <3>3, LeftSteps, SweepGoesOn
  <2>6. CASE GetFails
    BY <1>1, <2>1, <2>6, GetFailsDeleteGives, SweepFails
  <2>7. CASE conf.shared /\ Proceed(AfterDelete.networks, Forget(local, {Network, Router}))
    <3>1. Proceed(AfterDelete.networks, forgotten)
      BY <2>7 DEF forgotten
    <3> QED BY <1>3, <2>3, <2>7, <3>1
  <2> QED BY <1>5, <2>3, <2>4, <2>5, <2>6, <2>7 DEF deleteRouter
<1>6. CASE deleteNetwork
  <2>1. pc = "DeleteNetwork" /\ Network \notin conf.foreign
        /\ Delete(Network, "RemoveFinalizer", "ClosePatch", forgotten)
    BY <1>0, <1>6, Names DEF deleteNetwork, CloudInv, forgotten
  <2>2. /\ DeleteShape
        /\ \/ pc' = "RemoveFinalizer" /\ Network \notin cloud' /\ failed' = failed
           \/ pc' = "ClosePatch" /\ failed' = TRUE
    BY <1>1, <1>3, <1>4, <2>1, DeleteGives
  <2>3. Tracked \subseteq {Network}
    BY <1>0, <1>1, <1>2, <2>1, LeftSteps DEF SweepInv
  <2>4. CASE pc' = "RemoveFinalizer" /\ Network \notin cloud' /\ failed' = failed
    <3>1. Tracked' \subseteq {}
      BY <2>2, <2>3, <2>4, TrackedLoses
    <3> QED BY <1>2, <2>1, <2>2, <2>4, <3>1, LeftSteps, SweepGoesOn
  <2>5. CASE pc' = "ClosePatch" /\ failed' = TRUE
    BY <1>1, <2>2, <2>5, SweepFails
  <2> QED BY <2>2, <2>4, <2>5
<1> QED BY <1>5, <1>6

\* Every step of reconcileDelete's services has its shape and sweeps its part.
LEMMA DeleteSweeps ==
    ASSUME IInv, DeleteServices
    PROVE  DeleteShape /\ SweepInv'
BY LoadBalancersSweep, GroupsSweep, SubnetsSweep, FirewallsSweep, NetworkSweeps
   DEF DeleteServices

-----------------------------------------------------------------------------
(* The invariant is inductive                                              *)

\* Nothing is set in the object that is not there.
LEMMA NoObjectFields ==
    /\ ~NoObject.exists /\ ~NoObject.finalizer /\ ~NoObject.deleting
BY DEF NoObject

\* A NAT router of CAPG's keeps its network in use.
LEMMA RouterUsesNetwork ==
    ASSUME Router \notin conf.foreign
    PROVE  Network \in Uses(Router)
<1>1. Router \notin {ForwardingRule, TargetTCPProxy, BackendService,
                     RegionalForwardingRule, RegionalBackendService, InternalAddress}
  BY ResourcesDiffer DEF ExternalLB, InternalLB
<1> QED BY <1>1 DEF Uses, CreatedByCAPG

\* Steps of different kinds.
LEMMA StepKinds ==
    /\ ReconcileSteps \cap DeleteSteps = {}
    /\ {"Idle", "Finalizer", "ClosePatch", "CloseStatus"} \cap
            (ReconcileSteps \cup DeleteSteps \cup LateSteps \cup ExternalSteps
             \cup InternalSteps \cup {"Router", "DeleteNetwork"}) = {}
    /\ LateSteps \subseteq DeleteSteps
    /\ ExternalSteps \cup InternalSteps \cup {"Router"} \subseteq ReconcileSteps
    /\ "DeleteNetwork" \in DeleteSteps
BY DEF ReconcileSteps, DeleteSteps, LateSteps, ExternalSteps, InternalSteps

\* What is tracked depends on the cloud and the configuration only.
LEMMA TrackedSame ==
    ASSUME cloud' = cloud, conf' = conf
    PROVE  Tracked' = Tracked /\ HasExternal' = HasExternal /\ HasInternal' = HasInternal
BY DEF Tracked, Owned, SkippedSubnets, HasExternal, HasInternal

\* Creating keeps the invariant.
LEMMA CreateKeeps ==
    ASSUME IInv, TypeOK', CreateShape
    PROVE  IInv'
<1> USE StepKinds
<1>0. ObjectInv /\ CacheInv /\ PassInv /\ CloudInv /\ SweepInv
  BY DEF IInv
<1>1. pc \in ReconcileSteps /\ pc' \in ReconcileSteps \cup {"ClosePatch"}
      /\ ~before.deleting /\ local.finalizer /\ obj.finalizer
  BY <1>0 DEF CreateShape, PassInv
<1>2. ObjectInv' /\ CacheInv'
  BY <1>0 DEF CreateShape, ObjectInv, CacheInv
<1>3. PassInv'
  BY <1>0, <1>1 DEF CreateShape, PassInv
<1>4. SweepInv'
  BY <1>1 DEF CreateShape, SweepInv
<1>5. CloudInv'
  <2>1. HasExternal' = HasExternal /\ HasInternal' = HasInternal
    BY DEF CreateShape, HasExternal, HasInternal
  <2>2. (conf.foreign \subseteq cloud)'
    BY <1>0 DEF CreateShape, CloudInv
  <2>3. (Tracked # {} => obj.finalizer)'
    BY <1>1 DEF CreateShape
  <2>4. (cloud \cap ExternalLB # {} => HasExternal)'
    BY <1>0, <2>1 DEF CreateShape, CloudInv
  <2>5. (cloud \cap InternalLB # {} => HasInternal)'
    BY <1>0, <2>1 DEF CreateShape, CloudInv
  <2>6. (conf.shared => cloud \cap (Adoptable \cup FirewallRules) \subseteq conf.foreign)'
    BY <1>0 DEF CreateShape, CloudInv
  <2>7. (Router \in cloud \ conf.foreign => Network \in cloud \ conf.foreign)'
    BY <1>0 DEF CreateShape, CloudInv
  <2>8. (pc \in ExternalSteps => HasExternal)' /\ (pc \in InternalSteps => HasInternal)'
        /\ (pc = "Router" => Network \in cloud \ conf.foreign)'
        /\ (pc = "DeleteNetwork" => Network \notin conf.foreign)'
    BY <1>1, <2>1 DEF CreateShape
  <2> QED BY <2>2, <2>3, <2>4, <2>5, <2>6, <2>7, <2>8 DEF CloudInv
<1> QED BY <1>2, <1>3, <1>4, <1>5 DEF IInv

\* Deleting keeps the invariant.
LEMMA DeleteKeeps ==
    ASSUME IInv, TypeOK', DeleteShape, SweepInv'
    PROVE  IInv'
<1> USE StepKinds
<1>0. ObjectInv /\ CacheInv /\ PassInv /\ CloudInv
  BY DEF IInv
<1>1. pc \in DeleteSteps /\ pc' \in DeleteSteps \cup {"ClosePatch"}
      /\ before.deleting /\ local.finalizer
  BY <1>0 DEF DeleteShape, PassInv
<1>2. ObjectInv' /\ CacheInv'
  BY <1>0 DEF DeleteShape, ObjectInv, CacheInv
<1>3. PassInv'
  BY <1>0, <1>1 DEF DeleteShape, PassInv
<1>4. CloudInv'
  <2>1. HasExternal' = HasExternal /\ HasInternal' = HasInternal
    BY DEF DeleteShape, HasExternal, HasInternal
  <2>2. (conf.foreign \subseteq cloud)'
    BY <1>0 DEF DeleteShape, CloudInv
  <2>3. (Tracked # {} => obj.finalizer)'
    BY <1>0, TrackedShrinks DEF DeleteShape, CloudInv
  <2>4. (cloud \cap ExternalLB # {} => HasExternal)'
        /\ (cloud \cap InternalLB # {} => HasInternal)'
    BY <1>0, <2>1, TrackedShrinks DEF CloudInv
  <2>5. (conf.shared => cloud \cap (Adoptable \cup FirewallRules) \subseteq conf.foreign)'
    BY <1>0, TrackedShrinks DEF DeleteShape, CloudInv
  <2>6. (Router \in cloud \ conf.foreign => Network \in cloud \ conf.foreign)'
    <3> SUFFICES ASSUME Router \in cloud', Router \notin conf.foreign
                 PROVE  Network \in cloud' /\ Network \notin conf.foreign
      BY DEF DeleteShape
    <3>1. Router \in cloud /\ Network \in cloud /\ Network \notin conf.foreign
      BY <1>0, TrackedShrinks DEF CloudInv
    <3>2. InUse(Network)
      BY <3>1, RouterUsesNetwork DEF InUse
    <3> QED BY <3>1, <3>2 DEF DeleteShape
  <2>7. (pc \in ExternalSteps => HasExternal)' /\ (pc \in InternalSteps => HasInternal)'
        /\ (pc = "Router" => Network \in cloud \ conf.foreign)'
    BY <1>1
  <2>8. (pc = "DeleteNetwork" => Network \notin conf.foreign)'
    BY DEF DeleteShape
  <2> QED BY <2>2, <2>3, <2>4, <2>5, <2>6, <2>7, <2>8 DEF CloudInv
<1> QED BY <1>2, <1>3, <1>4 DEF IInv

\* What the API server lets a writer do that does not drop the finalizer.
ObjectAdvances ==
    /\ ObjectInv'
    /\ obj.finalizer => obj'.finalizer
    /\ obj.deleting \/ ~obj.exists => obj'.deleting \/ ~obj'.exists

\* The cloud's invariant, when GCP is not called and the pass is at its ends.
LEMMA CloudKept ==
    ASSUME IInv, UNCHANGED <<cloud, conf>>, obj.finalizer => obj'.finalizer,
           pc' = pc \/ pc' \notin ExternalSteps \cup InternalSteps \cup {"Router", "DeleteNetwork"}
    PROVE  CloudInv'
BY TrackedSame DEF IInv, CloudInv

\* A write of somebody else's keeps the invariant.
LEMMA WriteKeeps ==
    ASSUME IInv, TypeOK', ObjectAdvances,
           UNCHANGED <<cache, before, local, pc, failed, cloud, conf>>
    PROVE  IInv'
<1>1. CacheInv'
  BY DEF IInv, CacheInv, ObjectAdvances
<1>2. PassInv'
  BY DEF IInv, PassInv, ObjectAdvances
<1>3. CloudInv'
  BY CloudKept DEF ObjectAdvances
<1>4. SweepInv'
  BY TrackedSame DEF IInv, SweepInv
<1> QED BY <1>1, <1>2, <1>3, <1>4 DEF IInv, ObjectAdvances

\* Deleting, editing, releasing and pausing the object keep the invariant.
LEMMA EnvironmentKeeps ==
    ASSUME IInv, TypeOK', UserDelete \/ UserEditFailureDomains \/ Release \/ Pause
    PROVE  IInv'
<1>0. obj \in Object /\ ObjectInv
  BY DEF IInv, TypeOK
<1>1. UNCHANGED <<cache, before, local, pc, failed, cloud, conf>>
  BY DEF UserDelete, UserEditFailureDomains, Release, Pause, Edit, EditFrame
<1>2. CASE UserDelete
  <2> DEFINE o == [obj EXCEPT !.deleting = TRUE]
  <2>1. /\ o.exists = obj.exists /\ o.finalizer = obj.finalizer /\ o.deleting
        /\ obj.exists /\ ~obj.deleting /\ obj' = Settle(o)
    BY <1>0, <1>2 DEF UserDelete, Object
  <2> HIDE DEF o
  <2>2. CASE obj.finalizer
    <3>1. obj' = o
      BY <2>1, <2>2 DEF Settle
    <3>2. ObjectAdvances
      BY <2>1, <2>2, <3>1 DEF ObjectAdvances, ObjectInv
    <3> QED BY <1>1, <3>2, WriteKeeps
  <2>3. CASE ~obj.finalizer
    <3>1. obj' = NoObject
      BY <2>1, <2>3 DEF Settle
    <3>2. ObjectAdvances
      BY <2>3, <3>1, NoObjectFields DEF ObjectAdvances, ObjectInv
    <3> QED BY <1>1, <3>2, WriteKeeps
  <2> QED BY <2>2, <2>3
<1>3. CASE UserEditFailureDomains
  <2>1. PICK d \in SpecDomains : obj' = [obj EXCEPT !.failureDomains = d]
    BY <1>3 DEF UserEditFailureDomains
  <2>2. obj'.exists = obj.exists /\ obj'.finalizer = obj.finalizer
        /\ obj'.deleting = obj.deleting
    BY <1>0, <2>1 DEF Object
  <2>3. ObjectAdvances
    BY <1>0, <2>2 DEF ObjectAdvances, ObjectInv
  <2> QED BY <1>1, <2>3, WriteKeeps
<1>4. CASE Release \/ Pause
  <2>1. obj'.exists = obj.exists /\ obj'.finalizer = obj.finalizer
        /\ obj'.deleting = obj.deleting
    BY <1>0, <1>4 DEF Release, Pause, Object
  <2>2. ObjectAdvances
    BY <1>0, <2>1 DEF ObjectAdvances, ObjectInv
  <2> QED BY <1>1, <2>2, WriteKeeps
<1> QED BY <1>2, <1>3, <1>4

\* A watch event and a restart keep the invariant.
LEMMA RuntimeKeeps ==
    ASSUME IInv, TypeOK', CacheSync \/ Crash \/ ReconcileIgnored \/ ReconcileFails
    PROVE  IInv'
<1> USE StepKinds
<1>1. CASE CacheSync
  <2>1. cache' = obj /\ UNCHANGED <<obj, before, local, pc, failed, cloud, conf>>
    BY <1>1 DEF CacheSync
  <2>2. ObjectInv' /\ CacheInv'
    BY <2>1 DEF IInv, ObjectInv, CacheInv
  <2>3. PassInv'
    BY <2>1 DEF IInv, ObjectInv, PassInv
  <2>4. CloudInv'
    BY <2>1, CloudKept
  <2>5. SweepInv'
    BY <2>1, TrackedSame DEF IInv, SweepInv
  <2> QED BY <2>2, <2>3, <2>4, <2>5 DEF IInv
<1>2. CASE Crash
  <2>1. /\ cache' = obj /\ pc' = "Idle" /\ before' = NoObject /\ local' = NoObject
        /\ UNCHANGED <<obj, cloud, conf>>
    BY <1>2 DEF Crash
  <2>2. ObjectInv' /\ CacheInv'
    BY <2>1 DEF IInv, ObjectInv, CacheInv
  <2>3. PassInv'
    BY <2>1, NoObjectFields DEF PassInv
  <2>4. CloudInv'
    BY <2>1, CloudKept
  <2>5. SweepInv'
    BY <2>1, NoObjectFields DEF SweepInv
  <2> QED BY <2>2, <2>3, <2>4, <2>5 DEF IInv
<1>3. CASE ReconcileIgnored \/ ReconcileFails
  <2>1. UNCHANGED <<obj, cache, before, local, pc, failed, cloud, conf>>
    BY <1>3 DEF ReconcileIgnored, ReconcileFails
  <2>2. ObjectAdvances
    BY <2>1 DEF IInv, ObjectInv, ObjectAdvances
  <2> QED BY <2>1, <2>2, WriteKeeps
<1> QED BY <1>1, <1>2, <1>3

\* The tracked resources are those reconcileDelete looks for.
LEMMA TrackedCovered == Tracked \subseteq Left("DeleteForwardingRule")
BY DEF Tracked, Owned, Resource, Left, LeftNetworks

\* Starting a pass keeps the invariant.
LEMMA ReconcileKeeps ==
    ASSUME IInv, TypeOK', Reconcile
    PROVE  IInv'
<1> USE StepKinds
<1>0. ObjectInv /\ CacheInv /\ CloudInv /\ cache.exists
  BY DEF IInv, Reconcile
<1>1. /\ before' = cache /\ local' = cache
      /\ UNCHANGED <<obj, cache, cloud, conf>>
      /\ pc' = IF cache.deleting THEN DeleteLBs ELSE "Finalizer"
  BY DEF Reconcile
<1>2. /\ DeleteLBs \in {"DeleteForwardingRule", "DeleteRegionalForwardingRule"}
      /\ DeleteLBs \in DeleteSteps \ (LateSteps \cup {"DeleteNetwork"})
  BY DEF DeleteLBs, DeleteSteps, LateSteps
<1>3. ObjectInv' /\ CacheInv'
  BY <1>0, <1>1 DEF ObjectInv, CacheInv
<1>4. PassInv'
  BY <1>0, <1>1, <1>2 DEF CacheInv, PassInv
<1>5. CloudInv'
  BY <1>1, <1>2, CloudKept
<1>6. SweepInv'
  <2>1. Tracked' = Tracked
    BY <1>1, TrackedSame
  <2>2. Tracked \subseteq Left(DeleteLBs)
    <3>1. CASE HasExternal
      BY <3>1, TrackedCovered DEF DeleteLBs
    <3>2. CASE ~HasExternal
      <4>1. DeleteLBs = "DeleteRegionalForwardingRule"
        BY <3>2 DEF DeleteLBs
      <4>2. Tracked \cap ExternalLB = {}
        BY <1>0, <3>2 DEF CloudInv, Tracked
      <4>3. Left("DeleteForwardingRule") \subseteq
                Left("DeleteRegionalForwardingRule") \cup ExternalLB
        BY DEF Left
      <4> QED BY <4>1, <4>2, <4>3, TrackedCovered
    <3> QED BY <3>1, <3>2
  <2> QED BY <1>1, <1>2, <2>1, <2>2 DEF SweepInv
<1> QED BY <1>3, <1>4, <1>5, <1>6 DEF IInv

\* Adding the finalizer keeps the invariant.
LEMMA AddFinalizerKeeps ==
    ASSUME IInv, TypeOK', AddFinalizer
    PROVE  IInv'
<1> USE StepKinds
<1>0. /\ obj \in Object /\ local \in Object /\ ObjectInv /\ CacheInv /\ PassInv
      /\ pc = "Finalizer" /\ ~before.deleting
  BY DEF IInv, TypeOK, AddFinalizer, PassInv
<1>1. local'.finalizer /\ local'.deleting = local.deleting
  BY <1>0 DEF AddFinalizer, Object
<1>2. UNCHANGED <<cache, before, cloud, conf>>
  BY DEF AddFinalizer, PassFrame
<1> DEFINE patched == [obj EXCEPT !.finalizer = TRUE]
<1>3. patched.finalizer /\ patched.exists = obj.exists /\ patched.deleting = obj.deleting
  BY <1>0 DEF Object
<1>4. obj' = obj \/ (obj' = patched /\ obj.exists)
  BY DEF AddFinalizer
<1>5. /\ pc' \in {"Zones", "ClosePatch"}
      /\ pc' = "Zones" => (before.finalizer /\ obj' = obj) \/ obj' = patched
  BY DEF AddFinalizer, ReturnError
<1> HIDE DEF patched
<1>6. ObjectAdvances
  BY <1>0, <1>3, <1>4 DEF ObjectInv, ObjectAdvances
<1>7. pc' \in ReconcileSteps => obj'.finalizer
  BY <1>0, <1>3, <1>5 DEF PassInv
<1>8. CacheInv'
  BY <1>0, <1>2, <1>6 DEF CacheInv, ObjectAdvances
<1>9. "Zones" \notin DeleteSteps \cup LateSteps \cup ExternalSteps \cup InternalSteps
      /\ "Zones" \notin {"Idle", "Finalizer", "Router", "DeleteNetwork"}
  BY DEF DeleteSteps, LateSteps, ExternalSteps, InternalSteps
<1>10. PassInv'
  BY <1>0, <1>1, <1>2, <1>5, <1>6, <1>7, <1>9 DEF PassInv, ObjectAdvances
<1>11. CloudInv'
  BY <1>2, <1>5, <1>6, <1>9, CloudKept DEF ObjectAdvances
<1>12. SweepInv'
  BY <1>1, <1>5, <1>9 DEF SweepInv
<1> QED BY <1>6, <1>8, <1>10, <1>11, <1>12 DEF IInv, ObjectAdvances

\* Dropping the finalizer, in the pass, keeps the invariant: nothing is left.
LEMMA RemoveFinalizerKeeps ==
    ASSUME IInv, TypeOK', RemoveFinalizer
    PROVE  IInv'
<1> USE StepKinds
<1>0. /\ local \in Object /\ ObjectInv /\ CacheInv /\ PassInv /\ SweepInv
      /\ pc = "RemoveFinalizer"
  BY DEF IInv, TypeOK, RemoveFinalizer
<1>1. local'.deleting = local.deleting
  BY <1>0 DEF RemoveFinalizer, Object
<1>2. pc' = "ClosePatch" /\ UNCHANGED <<obj, cache, before, cloud, conf>>
  BY DEF RemoveFinalizer, PassFrame
<1>3. "RemoveFinalizer" \in DeleteSteps /\ "RemoveFinalizer" \in LateSteps
  BY DEF DeleteSteps, LateSteps
<1>4. Tracked = {}
  BY <1>0, <1>3, LeftSteps DEF SweepInv
<1>5. before.deleting
  BY <1>0, <1>3 DEF PassInv
<1>6. ObjectInv' /\ CacheInv'
  BY <1>0, <1>2 DEF ObjectInv, CacheInv
<1>7. PassInv'
  BY <1>0, <1>1, <1>2, <1>5 DEF PassInv
<1>8. CloudInv'
  BY <1>2, CloudKept
<1>9. SweepInv'
  BY <1>2, <1>4, TrackedSame DEF SweepInv
<1> QED BY <1>6, <1>7, <1>8, <1>9 DEF IInv

\* What the first patch of Close does to the object: it goes, after a pass that
\* dropped the finalizer, or it only advances.
LEMMA PatchedAdvances ==
    ASSUME IInv, obj.exists
    PROVE  \/ /\ before.finalizer /\ ~local.finalizer
              /\ Patched(obj) = NoObject
           \/ /\ Patched(obj).exists
              /\ Patched(obj).deleting = obj.deleting
              /\ Patched(obj).finalizer \in BOOLEAN
              /\ obj.finalizer => Patched(obj).finalizer
<1>0. /\ obj \in Object /\ local \in Object /\ before \in Object
      /\ ObjectInv /\ PassInv
  BY DEF IInv, TypeOK
<1>a. /\ local.finalizer \in BOOLEAN /\ before.finalizer \in BOOLEAN
      /\ obj.finalizer \in BOOLEAN /\ obj.deleting \in BOOLEAN
  BY <1>0 DEF Object
<1> DEFINE o == [obj EXCEPT
        !.finalizer = IF local.finalizer # before.finalizer THEN local.finalizer ELSE @,
        !.host = IF local.host # before.host THEN local.host ELSE @]
<1>1. /\ o.exists = obj.exists /\ o.deleting = obj.deleting
      /\ o.finalizer = IF local.finalizer # before.finalizer THEN local.finalizer
                       ELSE obj.finalizer
  BY <1>0 DEF Object
<1>2. Patched(obj) = Settle(o)
  BY DEF Patched
<1> HIDE DEF o
<1>3. CASE before.finalizer /\ ~local.finalizer
  <2>1. obj.deleting
    BY <1>0, <1>3 DEF PassInv
  <2>2. ~o.finalizer
    BY <1>1, <1>3, <1>a
  <2> QED BY <1>1, <1>2, <1>3, <2>1, <2>2 DEF Settle
<1>4. CASE ~(before.finalizer /\ ~local.finalizer)
  <2>1. o.finalizer \in BOOLEAN /\ (obj.finalizer => o.finalizer)
    BY <1>1, <1>4, <1>a
  <2>2. ~(o.deleting /\ ~o.finalizer)
    BY <1>0, <1>1, <2>1 DEF ObjectInv
  <2>3. Settle(o) = o
    BY <2>2 DEF Settle
  <2> QED BY <1>1, <1>2, <2>1, <2>3
<1> QED BY <1>3, <1>4

\* The first half of Close keeps the invariant.
LEMMA ClosePatchKeeps ==
    ASSUME IInv, TypeOK', ClosePatch
    PROVE  IInv'
<1> USE StepKinds
<1>0. ObjectInv /\ CacheInv /\ PassInv /\ CloudInv /\ SweepInv /\ pc = "ClosePatch"
  BY DEF IInv, ClosePatch
<1>1. pc' = "CloseStatus" /\ UNCHANGED <<cache, before, local, cloud, conf>>
  BY DEF ClosePatch, PassFrame
<1>2. obj' = obj \/ (obj.exists /\ obj' = Patched(obj))
  BY DEF ClosePatch
<1>3. CASE obj' = NoObject /\ before.finalizer /\ ~local.finalizer
  <2>1. before.deleting /\ Tracked = {}
    BY <1>0, <1>3 DEF PassInv, SweepInv
  <2>2. ObjectInv'
    BY <1>3, NoObjectFields DEF ObjectInv
  <2>3. CacheInv'
    BY <1>0, <1>1, <1>3, <2>1, NoObjectFields DEF CacheInv, PassInv
  <2>4. PassInv'
    BY <1>0, <1>1, <1>3, <2>1, NoObjectFields DEF PassInv
  <2>5. Tracked' = {}
    BY <1>1, <2>1, TrackedSame
  <2>6. CloudInv'
    BY <1>0, <1>1, <2>5, TrackedSame DEF CloudInv
  <2>7. SweepInv'
    BY <1>1, <2>5 DEF SweepInv
  <2> QED BY <2>2, <2>3, <2>4, <2>6, <2>7 DEF IInv
<1>4. CASE ObjectAdvances
  <2>1. CacheInv'
    BY <1>0, <1>1, <1>4 DEF CacheInv, ObjectAdvances
  <2>2. PassInv'
    BY <1>0, <1>1, <1>4 DEF PassInv, ObjectAdvances
  <2>3. CloudInv'
    BY <1>1, <1>4, CloudKept DEF ObjectAdvances
  <2>4. SweepInv'
    BY <1>0, <1>1, TrackedSame DEF SweepInv
  <2> QED BY <1>4, <2>1, <2>2, <2>3, <2>4 DEF IInv, ObjectAdvances
<1>5. CASE obj' = obj
  BY <1>0, <1>4, <1>5 DEF ObjectAdvances, ObjectInv
<1>6. CASE obj.exists /\ obj' = Patched(obj)
  <2>1. CASE /\ obj'.exists /\ obj'.deleting = obj.deleting
             /\ obj.finalizer => obj'.finalizer
    <3>1. ObjectAdvances
      BY <1>0, <1>6, <2>1 DEF ObjectAdvances, ObjectInv
    <3> QED BY <1>4, <3>1
  <2> QED BY <1>3, <1>6, <2>1, PatchedAdvances
<1> QED BY <1>2, <1>5, <1>6

\* The second half of Close keeps the invariant.
LEMMA CloseStatusKeeps ==
    ASSUME IInv, TypeOK', CloseStatus
    PROVE  IInv'
<1> USE StepKinds
<1>0. ObjectInv /\ CacheInv /\ PassInv /\ obj \in Object
  BY DEF IInv, TypeOK
<1>1. /\ pc' = "Idle" /\ before' = NoObject /\ local' = NoObject
      /\ UNCHANGED <<cache, cloud, conf>>
  BY DEF CloseStatus
<1>2. obj' = obj \/ obj' = PatchedStatus(obj)
  BY DEF CloseStatus
<1>3. /\ PatchedStatus(obj).exists = obj.exists
      /\ PatchedStatus(obj).deleting = obj.deleting
      /\ PatchedStatus(obj).finalizer = obj.finalizer
  BY <1>0 DEF PatchedStatus, Object
<1>4. obj'.exists = obj.exists /\ obj'.deleting = obj.deleting
      /\ obj'.finalizer = obj.finalizer
  BY <1>2, <1>3
<1>5. ObjectInv'
  BY <1>0, <1>4 DEF ObjectInv
<1>6. CacheInv'
  BY <1>0, <1>1, <1>4 DEF CacheInv
<1>7. PassInv'
  BY <1>1, NoObjectFields DEF PassInv
<1>8. CloudInv'
  BY <1>1, <1>4, CloudKept
<1>9. SweepInv'
  BY <1>1, NoObjectFields DEF SweepInv
<1> QED BY <1>5, <1>6, <1>7, <1>8, <1>9 DEF IInv

\* The initial states satisfy the invariant.
LEMMA InvInit == Init => IInv
<1> SUFFICES ASSUME Init PROVE IInv
  OBVIOUS
<1> USE StepKinds
<1>1. TypeOK
  BY TypeInit
<1>2. obj.exists /\ ~obj.finalizer /\ ~obj.deleting
  <2>1. PICK d \in SpecDomains, h \in SpecHosts :
            obj = [NoObject EXCEPT !.exists = TRUE, !.failureDomains = d, !.host = h]
    BY DEF Init
  <2> QED BY <2>1 DEF NoObject
<1>3. /\ cache = NoObject /\ before = NoObject /\ local = NoObject /\ pc = "Idle"
      /\ cloud = conf.foreign
  BY DEF Init
<1>4. ObjectInv /\ CacheInv /\ PassInv
  BY <1>2, <1>3, NoObjectFields DEF ObjectInv, CacheInv, PassInv
<1>5. cloud \subseteq Adoptable
  BY <1>1, <1>3, ConfigsAssumption DEF TypeOK, Config
<1>6. cloud \cap (ExternalLB \cup InternalLB) = {}
  BY <1>5, ResourcesDiffer DEF Adoptable
<1>7. Tracked = {}
  BY <1>3 DEF Tracked
<1>8. CloudInv
  BY <1>3, <1>6, <1>7 DEF CloudInv
<1>9. SweepInv
  BY <1>3, <1>7 DEF SweepInv
<1> QED BY <1>1, <1>4, <1>8, <1>9 DEF IInv

\* Every step keeps the invariant.
LEMMA InvNext == IInv /\ [Next]_vars => IInv'
<1> SUFFICES ASSUME IInv, [Next]_vars PROVE IInv'
  OBVIOUS
<1>1. TypeOK'
  BY TypeNext DEF IInv
<1>2. CASE SetFailureDomains \/ ReconcileServices \/ SetReady
  BY <1>1, <1>2, ReconcileShape, CreateKeeps
<1>3. CASE DeleteServices
  BY <1>1, <1>3, DeleteSweeps, DeleteKeeps
<1>4. CASE AddFinalizer
  BY <1>1, <1>4, AddFinalizerKeeps
<1>5. CASE RemoveFinalizer
  BY <1>1, <1>5, RemoveFinalizerKeeps
<1>6. CASE ClosePatch
  BY <1>1, <1>6, ClosePatchKeeps
<1>7. CASE CloseStatus
  BY <1>1, <1>7, CloseStatusKeeps
<1>8. CASE Reconcile
  BY <1>1, <1>8, ReconcileKeeps
<1>9. CASE UserDelete \/ UserEditFailureDomains \/ Release \/ Pause
  BY <1>1, <1>9, EnvironmentKeeps
<1>10. CASE CacheSync \/ Crash \/ ReconcileIgnored \/ ReconcileFails
  BY <1>1, <1>10, RuntimeKeeps
<1>11. CASE UNCHANGED vars
  <2>1. UNCHANGED <<obj, cache, before, local, pc, failed, cloud, conf>>
    BY <1>11 DEF vars
  <2>2. ObjectAdvances
    BY <2>1 DEF IInv, ObjectInv, ObjectAdvances
  <2> QED BY <1>1, <2>1, <2>2, WriteKeeps
<1> QED BY <1>2, <1>3, <1>4, <1>5, <1>6, <1>7, <1>8, <1>9, <1>10, <1>11
        DEF Next, Controller, Environment

\* The invariant holds.
THEOREM InvCorrect == Spec => []IInv
<1>1. Init => IInv
  BY InvInit
<1>2. IInv /\ [Next]_vars => IInv'
  BY InvNext
<1> QED BY <1>1, <1>2, PTL DEF Spec

\* While a resource of CAPG's exists, the object and its finalizer do.
THEOREM FinalizerCorrect == Spec => []FinalizerGuards
<1>1. IInv => FinalizerGuards
  BY DEF IInv, CloudInv, ObjectInv, FinalizerGuards
<1> QED BY <1>1, InvCorrect, PTL

\* What CAPG did not create is never deleted.
THEOREM ForeignCorrect == Spec => []ForeignUntouched
<1>1. IInv => ForeignUntouched
  BY DEF IInv, CloudInv, ForeignUntouched
<1> QED BY <1>1, InvCorrect, PTL

-----------------------------------------------------------------------------
(* The controller implements the abstract life of a guarded object         *)

\* A step the abstraction does not see.
LEMMA LifecycleStutters ==
    ASSUME obj'.exists = obj.exists, obj'.deleting = obj.deleting,
           obj'.finalizer = obj.finalizer, Tracked' = Tracked
    PROVE  UNCHANGED Lifecycle!lvars
BY DEF Lifecycle!lvars, Phase

\* Gaining the finalizer, with nothing else to see.
LEMMA LifecycleProtects ==
    ASSUME IInv, obj.exists, obj'.exists, obj'.deleting = obj.deleting,
           obj'.finalizer \in BOOLEAN, obj.finalizer => obj'.finalizer, Tracked' = Tracked
    PROVE  Lifecycle!Protect \/ UNCHANGED Lifecycle!lvars
<1>1. obj.finalizer \in BOOLEAN /\ obj.deleting \in BOOLEAN /\ obj.exists \in BOOLEAN
  BY DEF IInv, TypeOK, Object
<1>2. Phase' = Phase
  BY DEF Phase
<1>3. CASE obj'.finalizer = obj.finalizer
  BY <1>2, <1>3 DEF Lifecycle!lvars
<1>4. CASE obj'.finalizer # obj.finalizer
  <2>1. ~obj.finalizer /\ obj'.finalizer = TRUE
    BY <1>1, <1>4
  <2>2. Phase = "active"
    BY <2>1 DEF IInv, ObjectInv, Phase
  <2> QED BY <1>2, <2>1, <2>2 DEF Lifecycle!Protect
<1> QED BY <1>3, <1>4

\* Every step of the controller and of its environment is an abstract step.
LEMMA LifecycleStep ==
    ASSUME IInv, [Next]_vars
    PROVE  Lifecycle!LNext \/ UNCHANGED Lifecycle!lvars
<1>0. /\ TypeOK /\ ObjectInv /\ PassInv /\ CloudInv /\ SweepInv /\ obj \in Object
      /\ obj.finalizer \in BOOLEAN
  BY DEF IInv, TypeOK, Object
<1>1. CASE SetFailureDomains \/ ReconcileServices \/ SetReady
  <2>1. CreateShape /\ obj' = obj
    BY <1>1, ReconcileShape DEF CreateShape
  <2>2. conf' = conf /\ Owned' = Owned
    BY <2>1 DEF CreateShape, Owned, SkippedSubnets
  <2>3. obj.finalizer = TRUE
    BY <1>0, <2>1 DEF CreateShape, PassInv
  <2>4. CASE cloud' = cloud
    BY <2>1, <2>2, <2>4, TrackedSame, LifecycleStutters
  <2>5. ASSUME NEW r \in Resource, cloud' = cloud \cup {r}
        PROVE  Lifecycle!LNext \/ UNCHANGED Lifecycle!lvars
    <3>1. CASE r \in Owned /\ r \notin conf.foreign
      <4>1. Tracked' = Tracked \cup {r}
        BY <2>2, <2>5, <3>1 DEF Tracked
      <4>2. Phase' = Phase
        BY <2>1 DEF Phase
      <4>3. Lifecycle!Acquire
        BY <2>1, <2>3, <4>1, <4>2 DEF Lifecycle!Acquire
      <4> QED BY <4>3 DEF Lifecycle!LNext
    <3>2. CASE ~(r \in Owned /\ r \notin conf.foreign)
      <4>1. Tracked' = Tracked
        BY <2>2, <2>5, <3>2 DEF Tracked
      <4> QED BY <2>1, <4>1, LifecycleStutters
    <3> QED BY <3>1, <3>2
  <2> QED BY <2>1, <2>4, <2>5 DEF CreateShape
<1>2. CASE DeleteServices
  <2>1. DeleteShape /\ obj' = obj
    BY <1>2, DeleteSweeps DEF DeleteShape
  <2>2. conf' = conf /\ Owned' = Owned
    BY <2>1 DEF DeleteShape, Owned, SkippedSubnets
  <2>3. obj.deleting \/ ~obj.exists
    BY <1>0, <2>1 DEF DeleteShape, PassInv
  <2>4. CASE cloud' = cloud
    BY <2>1, <2>2, <2>4, TrackedSame, LifecycleStutters
  <2>5. ASSUME NEW r \in Resource, cloud' = cloud \ {r}
        PROVE  Lifecycle!LNext \/ UNCHANGED Lifecycle!lvars
    <3>1. Tracked' = Tracked \ {r}
      BY <2>2, <2>5 DEF Tracked
    <3>2. CASE obj.exists
      <4>1. Phase = "deleting" /\ Phase' = Phase
        BY <2>1, <2>3, <3>2 DEF Phase
      <4>2. Lifecycle!GiveUp
        BY <2>1, <3>1, <4>1 DEF Lifecycle!GiveUp
      <4> QED BY <4>2 DEF Lifecycle!LNext
    <3>3. CASE ~obj.exists
      <4>1. Tracked = {}
        BY <1>0, <3>3 DEF ObjectInv, CloudInv
      <4>2. Tracked' = Tracked
        BY <3>1, <4>1
      <4> QED BY <2>1, <4>2, LifecycleStutters
    <3> QED BY <3>2, <3>3
  <2> QED BY <2>1, <2>4, <2>5 DEF DeleteShape
<1>3. CASE AddFinalizer
  <2> DEFINE patched == [obj EXCEPT !.finalizer = TRUE]
  <2>1. patched.finalizer = TRUE /\ patched.exists = obj.exists
        /\ patched.deleting = obj.deleting
    BY <1>0 DEF Object
  <2>2. obj' = obj \/ (obj' = patched /\ obj.exists)
    BY <1>3 DEF AddFinalizer
  <2>3. Tracked' = Tracked
    BY <1>3, TrackedSame DEF AddFinalizer, PassFrame
  <2> HIDE DEF patched
  <2>4. CASE obj' = obj
    BY <2>3, <2>4, LifecycleStutters
  <2>5. CASE obj' = patched /\ obj.exists
    BY <2>1, <2>3, <2>5, LifecycleProtects DEF Lifecycle!LNext
  <2> QED BY <2>2, <2>4, <2>5
<1>4. CASE ClosePatch
  <2>1. obj' = obj \/ (obj.exists /\ obj' = Patched(obj))
    BY <1>4 DEF ClosePatch
  <2>2. Tracked' = Tracked
    BY <1>4, TrackedSame DEF ClosePatch, PassFrame
  <2>3. CASE obj' = obj
    BY <2>2, <2>3, LifecycleStutters
  <2>4. CASE obj.exists /\ obj' = NoObject /\ before.finalizer /\ ~local.finalizer
    <3>1. Tracked = {} /\ obj.deleting
      BY <1>0, <2>4 DEF SweepInv, PassInv
    <3>2. Phase = "deleting" /\ Phase' = "gone" /\ obj'.finalizer = FALSE
      BY <2>4, <3>1 DEF Phase, NoObject
    <3>3. Lifecycle!Finish
      BY <2>2, <3>1, <3>2 DEF Lifecycle!Finish
    <3> QED BY <3>3 DEF Lifecycle!LNext
  <2>5. CASE /\ obj.exists /\ obj'.exists /\ obj'.deleting = obj.deleting
             /\ obj'.finalizer \in BOOLEAN
             /\ obj.finalizer => obj'.finalizer
    BY <2>2, <2>5, LifecycleProtects DEF Lifecycle!LNext
  <2> QED BY <2>1, <2>3, <2>4, <2>5, PatchedAdvances
<1>5. CASE CloseStatus
  <2>1. obj' = obj \/ obj' = PatchedStatus(obj)
    BY <1>5 DEF CloseStatus
  <2>2. /\ PatchedStatus(obj).exists = obj.exists
        /\ PatchedStatus(obj).deleting = obj.deleting
        /\ PatchedStatus(obj).finalizer = obj.finalizer
    BY <1>0 DEF PatchedStatus, Object
  <2>3. Tracked' = Tracked
    BY <1>5, TrackedSame DEF CloseStatus
  <2> QED BY <2>1, <2>2, <2>3, LifecycleStutters
<1>6. CASE UserDelete
  <2> DEFINE o == [obj EXCEPT !.deleting = TRUE]
  <2>1. /\ o.exists = obj.exists /\ o.finalizer = obj.finalizer /\ o.deleting
        /\ obj.exists /\ ~obj.deleting /\ obj' = Settle(o)
    BY <1>0, <1>6 DEF UserDelete, Object
  <2>2. Tracked' = Tracked
    BY <1>6, TrackedSame DEF UserDelete, EditFrame
  <2>3. Phase = "active"
    BY <2>1 DEF Phase
  <2> HIDE DEF o
  <2>4. CASE obj.finalizer
    <3>1. obj' = o
      BY <2>1, <2>4 DEF Settle
    <3>2. Phase' = "deleting" /\ obj'.finalizer = obj.finalizer
      BY <2>1, <3>1 DEF Phase
    <3> QED BY <2>2, <2>3, <2>4, <3>2 DEF Lifecycle!LNext, Lifecycle!RequestDelete
  <2>5. CASE ~obj.finalizer
    <3>1. obj' = NoObject
      BY <2>1, <2>5 DEF Settle
    <3>2. Phase' = "gone"
      BY <3>1, NoObjectFields DEF Phase
    <3>3. obj'.finalizer = FALSE /\ obj.finalizer = FALSE
      BY <1>0, <2>5, <3>1 DEF NoObject
    <3> QED BY <2>2, <2>3, <2>5, <3>2, <3>3 DEF Lifecycle!LNext, Lifecycle!RequestDelete
  <2> QED BY <2>4, <2>5
<1>7. CASE UserEditFailureDomains
  <2>1. PICK d \in SpecDomains : obj' = [obj EXCEPT !.failureDomains = d]
    BY <1>7 DEF UserEditFailureDomains
  <2>2. obj'.exists = obj.exists /\ obj'.finalizer = obj.finalizer
        /\ obj'.deleting = obj.deleting
    BY <1>0, <2>1 DEF Object
  <2>3. Tracked' = Tracked
    BY <1>7, TrackedSame DEF UserEditFailureDomains, Edit, EditFrame
  <2> QED BY <2>2, <2>3, LifecycleStutters
<1>8. CASE Release \/ Pause
  <2>1. obj'.exists = obj.exists /\ obj'.finalizer = obj.finalizer
        /\ obj'.deleting = obj.deleting
    BY <1>0, <1>8 DEF Release, Pause, Object
  <2>2. Tracked' = Tracked
    BY <1>8, TrackedSame DEF Release, Pause, Edit, EditFrame
  <2> QED BY <2>1, <2>2, LifecycleStutters
<1>9. CASE \/ RemoveFinalizer \/ CacheSync \/ Crash
           \/ Reconcile \/ ReconcileIgnored \/ ReconcileFails \/ UNCHANGED vars
  <2>1. UNCHANGED <<obj, cloud, conf>>
    BY <1>9 DEF RemoveFinalizer, PassFrame, CacheSync, Crash, Reconcile, ReconcileIgnored,
           ReconcileFails, vars
  <2> QED BY <2>1, TrackedSame, LifecycleStutters
<1> QED BY <1>1, <1>2, <1>3, <1>4, <1>5, <1>6, <1>7, <1>8, <1>9
        DEF Next, Controller, Environment

\* The initial states are abstract initial states.
LEMMA LifecycleInit == Init => Lifecycle!LInit
<1> SUFFICES ASSUME Init PROVE Lifecycle!LInit
  OBVIOUS
<1>1. PICK d \in SpecDomains, h \in SpecHosts :
          obj = [NoObject EXCEPT !.exists = TRUE, !.failureDomains = d, !.host = h]
  BY DEF Init
<1>2. obj.exists /\ obj.finalizer = FALSE /\ ~obj.deleting
  BY <1>1 DEF NoObject
<1>3. Tracked = {}
  BY DEF Init, Tracked
<1> QED BY <1>2, <1>3 DEF Lifecycle!LInit, Phase

\* The controller keeps the promise of a finalizer: GCPCluster implements
\* ResourceLifecycle.
THEOREM LifecycleCorrect == Spec => ImplementsLifecycle
<1>1. Init => Lifecycle!LInit
  BY LifecycleInit
<1>2. IInv /\ [Next]_vars => [Lifecycle!LNext]_(Lifecycle!lvars)
  BY LifecycleStep
<1> QED BY <1>1, <1>2, InvCorrect, PTL DEF Spec, ImplementsLifecycle, Lifecycle!LSpec

-----------------------------------------------------------------------------
(* The infrastructure that machines see                                    *)

\* What machines see of the object.
Seen(o) == [exists |-> o.exists, deleting |-> o.deleting, fds |-> o.fds]

\* A step the machines do not see.
LEMMA InfrastructureStutters ==
    ASSUME Seen(obj)' = Seen(obj), ZonesOf(cloud)' = ZonesOf(cloud)
    PROVE  UNCHANGED Infrastructure!cvars
BY DEF Infrastructure!cvars, Seen

\* A step that does not touch the cloud, and of the object only other fields.
LEMMA InfrastructureKept ==
    ASSUME obj'.exists = obj.exists, obj'.deleting = obj.deleting, obj'.fds = obj.fds,
           cloud' = cloud
    PROVE  UNCHANGED Infrastructure!cvars
BY InfrastructureStutters DEF Seen, ZonesOf

\* The object goes.
LEMMA InfrastructureDisappears ==
    ASSUME obj.exists, obj' = NoObject, cloud' = cloud
    PROVE  Infrastructure!Disappear
<1>1. Seen(obj)' = Infrastructure!NoCluster
  BY DEF Seen, NoObject, Infrastructure!NoCluster
<1>2. ZonesOf(cloud)' = ZonesOf(cloud)
  BY DEF ZonesOf
<1> QED BY <1>1, <1>2 DEF Seen, Infrastructure!Disappear

\* Creating a resource creates at most one group.
LEMMA InfrastructureCreates ==
    ASSUME IInv, CreateShape
    PROVE  Infrastructure!CNext \/ UNCHANGED Infrastructure!cvars
<1>1. obj' = obj /\ obj.exists
  BY DEF CreateShape, IInv, PassInv, ObjectInv
<1>2. CASE cloud' = cloud
  BY <1>1, <1>2, InfrastructureKept
<1>3. ASSUME NEW r \in Resource, cloud' = cloud \cup {r}
      PROVE  Infrastructure!CNext \/ UNCHANGED Infrastructure!cvars
  <2>1. CASE \E z \in Zones : r = Group(z)
    <3>1. PICK z \in Zones : r = Group(z)
      BY <2>1
    <3>2. \A y \in Zones : Group(y) = Group(z) <=> y = z
      BY DEF Group
    <3>3. ZonesOf(cloud)' = ZonesOf(cloud) \cup {z}
      BY <1>3, <3>1, <3>2 DEF ZonesOf
    <3>4. Infrastructure!CreateGroup
      BY <1>1, <3>3 DEF Infrastructure!CreateGroup
    <3> QED BY <3>4 DEF Infrastructure!CNext
  <2>2. CASE ~\E z \in Zones : r = Group(z)
    <3>1. ZonesOf(cloud)' = ZonesOf(cloud)
      BY <1>3, <2>2 DEF ZonesOf
    <3> QED BY <1>1, <3>1, InfrastructureStutters DEF Seen
  <2> QED BY <2>1, <2>2
<1> QED BY <1>2, <1>3 DEF CreateShape

\* Deleting a resource deletes at most one group, and the object is being deleted.
LEMMA InfrastructureDeletes ==
    ASSUME IInv, DeleteShape
    PROVE  Infrastructure!CNext \/ UNCHANGED Infrastructure!cvars
<1>1. obj' = obj /\ (obj.deleting \/ ~obj.exists)
  BY DEF DeleteShape, IInv, PassInv
<1>2. CASE cloud' = cloud
  BY <1>1, <1>2, InfrastructureKept
<1>3. ASSUME NEW r \in Resource, cloud' = cloud \ {r}
      PROVE  Infrastructure!CNext \/ UNCHANGED Infrastructure!cvars
  <2>1. CASE \E z \in ZonesOf(cloud) : r = Group(z)
    <3>1. PICK z \in ZonesOf(cloud) : r = Group(z)
      BY <2>1
    <3>2. \A y \in Zones : Group(y) = Group(z) <=> y = z
      BY DEF Group
    <3>3. ZonesOf(cloud)' = ZonesOf(cloud) \ {z}
      BY <1>3, <3>1, <3>2 DEF ZonesOf
    <3>4. Infrastructure!DeleteGroup
      BY <1>1, <3>1, <3>3 DEF Infrastructure!DeleteGroup
    <3> QED BY <3>4 DEF Infrastructure!CNext
  <2>2. CASE ~\E z \in ZonesOf(cloud) : r = Group(z)
    <3>1. ZonesOf(cloud)' = ZonesOf(cloud)
      BY <1>3, <2>2 DEF ZonesOf
    <3> QED BY <1>1, <3>1, InfrastructureStutters DEF Seen
  <2> QED BY <2>1, <2>2
<1> QED BY <1>2, <1>3 DEF DeleteShape

\* The patches of Close: the object goes, or only its failure domains change.
LEMMA InfrastructurePatched ==
    ASSUME IInv, ClosePatch \/ CloseStatus
    PROVE  Infrastructure!CNext \/ UNCHANGED Infrastructure!cvars
<1>0. TypeOK /\ obj \in Object
  BY DEF IInv, TypeOK
<1>1. CASE obj' = obj /\ cloud' = cloud
  BY <1>1, InfrastructureKept
<1>2. CASE ClosePatch /\ obj' # obj
  <2>1. obj.exists /\ obj' = Patched(obj) /\ cloud' = cloud
    BY <1>2 DEF ClosePatch, PassFrame
  <2>2. Patched(obj) = NoObject \/ Patched(obj).fds = obj.fds
    BY <1>0 DEF Patched, Settle, Object
  <2>3. CASE Patched(obj) = NoObject
    BY <2>1, <2>3, InfrastructureDisappears DEF Infrastructure!CNext
  <2>4. CASE Patched(obj) # NoObject
    <3>1. obj'.exists /\ obj'.deleting = obj.deleting /\ obj'.fds = obj.fds
      BY <2>1, <2>2, <2>4, PatchedAdvances
    <3>2. obj'.exists = obj.exists
      BY <1>0, <2>1, <3>1, ObjectType DEF Object
    <3> QED BY <2>1, <3>1, <3>2, InfrastructureKept
  <2> QED BY <2>3, <2>4
<1>3. CASE CloseStatus /\ obj' # obj
  <2>1. obj.exists /\ obj' = PatchedStatus(obj) /\ cloud' = cloud
    BY <1>3 DEF CloseStatus
  <2>2. obj'.exists = obj.exists /\ obj'.deleting = obj.deleting
    BY <1>0, <2>1 DEF PatchedStatus, Object
  <2>3. obj'.fds \in SUBSET Zones
    BY <1>0, <2>1, ObjectType DEF Object
  <2>4. Seen(obj)' = [Seen(obj) EXCEPT !.fds = obj'.fds]
    BY <2>2 DEF Seen
  <2>5. ZonesOf(cloud)' = ZonesOf(cloud)
    BY <2>1 DEF ZonesOf
  <2>6. Infrastructure!SetDomains
    BY <2>1, <2>3, <2>4, <2>5 DEF Seen, Infrastructure!SetDomains
  <2> QED BY <2>6 DEF Infrastructure!CNext
<1>4. ClosePatch \/ CloseStatus => cloud' = cloud
  BY DEF ClosePatch, CloseStatus, PassFrame
<1> QED BY <1>1, <1>2, <1>3, <1>4

\* Every step of the controller and of its environment is a step the machines are
\* prepared for.
LEMMA InfrastructureStep ==
    ASSUME IInv, [Next]_vars
    PROVE  Infrastructure!CNext \/ UNCHANGED Infrastructure!cvars
<1>0. obj \in Object
  BY DEF IInv, TypeOK
<1>1. CASE SetFailureDomains \/ ReconcileServices \/ SetReady
  BY <1>1, ReconcileShape, InfrastructureCreates
<1>2. CASE DeleteServices
  BY <1>2, DeleteSweeps, InfrastructureDeletes
<1>3. CASE ClosePatch \/ CloseStatus
  BY <1>3, InfrastructurePatched
<1>4. CASE UserDelete
  <2> DEFINE o == [obj EXCEPT !.deleting = TRUE]
  <2>1. /\ obj.exists /\ ~obj.deleting /\ obj' = Settle(o) /\ cloud' = cloud
    BY <1>4 DEF UserDelete, EditFrame
  <2>2. CASE Settle(o) = NoObject
    BY <2>1, <2>2, InfrastructureDisappears DEF Infrastructure!CNext
  <2>3. CASE obj' = o
    <3>0. obj'.exists = TRUE /\ obj'.deleting = TRUE /\ obj'.fds = obj.fds
      BY <1>0, <2>1, <2>3 DEF Object
    <3>1. Seen(obj)' = [exists |-> TRUE, deleting |-> TRUE, fds |-> obj.fds]
      BY <3>0 DEF Seen
    <3>2. ZonesOf(cloud)' = ZonesOf(cloud)
      BY <2>1 DEF ZonesOf
    <3>3. Infrastructure!RequestDelete
      BY <2>1, <3>1, <3>2 DEF Seen, Infrastructure!RequestDelete
    <3> QED BY <3>3 DEF Infrastructure!CNext
  <2> QED BY <2>1, <2>2, <2>3 DEF Settle
<1>5. CASE AddFinalizer \/ UserEditFailureDomains \/ Release \/ Pause
  <2>1. /\ obj'.exists = obj.exists /\ obj'.deleting = obj.deleting /\ obj'.fds = obj.fds
        /\ cloud' = cloud
    BY <1>0, <1>5 DEF AddFinalizer, UserEditFailureDomains, Release, Pause, Edit, EditFrame,
                      PassFrame, Object
  <2> QED BY <2>1, InfrastructureKept
<1>6. CASE \/ RemoveFinalizer \/ CacheSync \/ Crash
           \/ Reconcile \/ ReconcileIgnored \/ ReconcileFails \/ UNCHANGED vars
  <2>1. UNCHANGED <<obj, cloud>>
    BY <1>6 DEF RemoveFinalizer, PassFrame, CacheSync, Crash, Reconcile, ReconcileIgnored,
           ReconcileFails, vars
  <2> QED BY <2>1, InfrastructureKept
<1> QED BY <1>1, <1>2, <1>3, <1>4, <1>5, <1>6 DEF Next, Controller, Environment

\* Before the first pass there is no group: none exists before the cluster does.
LEMMA InfrastructureInit == Init => Infrastructure!CInit
<1> SUFFICES ASSUME Init PROVE Infrastructure!CInit
  OBVIOUS
<1>1. PICK d \in SpecDomains, h \in SpecHosts :
          obj = [NoObject EXCEPT !.exists = TRUE, !.failureDomains = d, !.host = h]
  BY DEF Init
<1>2. Seen(obj) = [exists |-> TRUE, deleting |-> FALSE, fds |-> {}]
  <2>1. obj.exists = TRUE /\ obj.deleting = FALSE /\ obj.fds = {}
    BY <1>1 DEF NoObject
  <2> QED BY <2>1 DEF Seen
<1>3. cloud \subseteq Adoptable
  BY ConfigsAssumption DEF Init, Config
<1>4. ZonesOf(cloud) = {}
  BY <1>3, ResourcesDiffer, Names DEF ZonesOf, Adoptable
<1> QED BY <1>2, <1>4 DEF Seen, Infrastructure!CInit

\* The failure domains and the instance groups that machines depend on come and go
\* only as ClusterInfrastructure says: GCPCluster implements it.
THEOREM InfrastructureCorrect == Spec => ImplementsInfrastructure
<1>1. Init => Infrastructure!CInit
  BY InfrastructureInit
<1>2. IInv /\ [Next]_vars => [Infrastructure!CNext]_(Infrastructure!cvars)
  BY InfrastructureStep
<1> QED BY <1>1, <1>2, InvCorrect, PTL
        DEF Spec, ImplementsInfrastructure, Infrastructure!CSpec

-----------------------------------------------------------------------------
(* The order of deletion                                                   *)

\* Who uses a resource, turned round.
LEMMA UsedBy ==
    ASSUME TypeOK, NEW x, NEW r \in Uses(x)
    PROVE  \/ x = ForwardingRule /\ r \in {TargetTCPProxy, Address}
           \/ x = TargetTCPProxy /\ r = BackendService
           \/ x = BackendService /\ r \in {HealthCheck} \cup Groups
           \/ /\ x = RegionalForwardingRule
              /\ r \in {RegionalBackendService, InternalAddress} \cup Subnets
           \/ x = RegionalBackendService /\ r \in {RegionalHealthCheck, Network} \cup Groups
           \/ x = InternalAddress /\ r \in Subnets
           \/ x \in ({Router} \cup FirewallRules \cup Subnets) \ conf.foreign /\ r = Network
<1>1. \A b \in {BackendService, RegionalBackendService} :
        {Group(z) : z \in backends[b]} \subseteq Groups
  BY Names DEF TypeOK
<1>2. {Subnet(s) : s \in getSubnet} \subseteq Subnets
  BY Names DEF getSubnet
<1> QED BY <1>1, <1>2 DEF Uses, CreatedByCAPG

\* What uses something is tracked, unless it is a skipped subnet: CAPG created it.
LEMMA UserTracked ==
    ASSUME TypeOK, SkippedSubnets \cap cloud = {}, NEW x \in cloud, NEW r \in Uses(x)
    PROVE  x \in Tracked
<1>1. conf.foreign \subseteq Adoptable
  BY ConfigsAssumption DEF TypeOK, Config
<1>2. x \in Resource /\ x \notin SkippedSubnets
  BY DEF TypeOK
<1>3. x \notin Groups /\ x \notin conf.foreign
  BY <1>1, UsedBy, Names, ResourcesDiffer DEF Adoptable
<1> QED BY <1>2, <1>3 DEF Tracked, Owned

\* A deletion pass that has met no error is never refused.
THEOREM DeleteOrderCorrect == Spec => []DeleteOrderSafe
<1>1. ASSUME IInv PROVE DeleteOrderSafe
  <2> SUFFICES ASSUME ~failed, SkippedSubnets \cap cloud = {}, NEW r \in Target,
                      NEW x \in cloud, r \in Uses(x)
               PROVE  FALSE
    BY DEF DeleteOrderSafe, InUse
  <2>1. x \in Tracked
    BY <1>1, UserTracked DEF IInv
  <2>2. pc \in DeleteSteps
    BY DEF Target, DeleteSteps
  <2>3. x \in Left(pc)
    BY <1>1, <2>1, <2>2 DEF IInv, SweepInv
  <2> USE Names, ResourcesDiffer, BalancersDiffer
  <2>4. TypeOK
    BY <1>1 DEF IInv
  <2>5. pc # "DeleteForwardingRule"
    <3> SUFFICES ASSUME pc = "DeleteForwardingRule" PROVE FALSE
      OBVIOUS
    <3>1. r = ForwardingRule
      BY DEF Target
    <3> QED BY <2>3, <2>4, <3>1, UsedBy DEF Left, LeftNetworks
  <2>6. pc # "DeleteAddress"
    <3> SUFFICES ASSUME pc = "DeleteAddress" PROVE FALSE
      OBVIOUS
    <3>1. r = Address
      BY DEF Target
    <3> QED BY <2>3, <2>4, <3>1, UsedBy DEF Left, LeftNetworks
  <2>7. pc # "DeleteTargetTCPProxy"
    <3> SUFFICES ASSUME pc = "DeleteTargetTCPProxy" PROVE FALSE
      OBVIOUS
    <3>1. r = TargetTCPProxy
      BY DEF Target
    <3> QED BY <2>3, <2>4, <3>1, UsedBy DEF Left, LeftNetworks
  <2>8. pc # "DeleteBackendService"
    <3> SUFFICES ASSUME pc = "DeleteBackendService" PROVE FALSE
      OBVIOUS
    <3>1. r = BackendService
      BY DEF Target
    <3> QED BY <2>3, <2>4, <3>1, UsedBy DEF Left, LeftNetworks
  <2>9. pc # "DeleteHealthCheck"
    <3> SUFFICES ASSUME pc = "DeleteHealthCheck" PROVE FALSE
      OBVIOUS
    <3>1. r = HealthCheck
      BY DEF Target
    <3> QED BY <2>3, <2>4, <3>1, UsedBy DEF Left, LeftNetworks
  <2>10. pc # "DeleteRegionalForwardingRule"
    <3> SUFFICES ASSUME pc = "DeleteRegionalForwardingRule" PROVE FALSE
      OBVIOUS
    <3>1. r = RegionalForwardingRule
      BY DEF Target
    <3> QED BY <2>3, <2>4, <3>1, UsedBy DEF Left, LeftNetworks
  <2>11. pc # "DeleteInternalAddress"
    <3> SUFFICES ASSUME pc = "DeleteInternalAddress" PROVE FALSE
      OBVIOUS
    <3>1. r = InternalAddress
      BY DEF Target
    <3> QED BY <2>3, <2>4, <3>1, UsedBy DEF Left, LeftNetworks
  <2>12. pc # "DeleteRegionalBackendService"
    <3> SUFFICES ASSUME pc = "DeleteRegionalBackendService" PROVE FALSE
      OBVIOUS
    <3>1. r = RegionalBackendService
      BY DEF Target
    <3> QED BY <2>3, <2>4, <3>1, UsedBy DEF Left, LeftNetworks
  <2>13. pc # "DeleteRegionalHealthCheck"
    <3> SUFFICES ASSUME pc = "DeleteRegionalHealthCheck" PROVE FALSE
      OBVIOUS
    <3>1. r = RegionalHealthCheck
      BY DEF Target
    <3> QED BY <2>3, <2>4, <3>1, UsedBy DEF Left, LeftNetworks
  <2>14. pc # "DeleteInstanceGroups"
    <3> SUFFICES ASSUME pc = "DeleteInstanceGroups" PROVE FALSE
      OBVIOUS
    <3>1. r \in Groups
      BY <2>4 DEF Target, TypeOK
    <3> QED BY <2>3, <2>4, <3>1, UsedBy, LeftSteps DEF LeftNetworks
  <2>15. pc # "DeleteSubnets"
    <3> SUFFICES ASSUME pc = "DeleteSubnets" PROVE FALSE
      OBVIOUS
    <3>1. r \in Subnets
      BY <2>4 DEF Target, TypeOK
    <3> QED BY <2>3, <2>4, <3>1, UsedBy, LeftSteps DEF LeftNetworks
  <2>16. pc # "DeleteFirewalls"
    <3> SUFFICES ASSUME pc = "DeleteFirewalls" PROVE FALSE
      OBVIOUS
    <3>1. r \in FirewallRules
      BY <2>4 DEF Target, TypeOK
    <3> QED BY <2>3, <2>4, <3>1, UsedBy, LeftSteps DEF LeftNetworks
  <2>17. pc # "DeleteRouter"
    <3> SUFFICES ASSUME pc = "DeleteRouter" PROVE FALSE
      OBVIOUS
    <3>1. r = Router
      BY <2>4 DEF Target, TypeOK
    <3> QED BY <2>3, <2>4, <3>1, UsedBy, LeftSteps DEF LeftNetworks
  <2>18. pc # "DeleteNetwork"
    <3> SUFFICES ASSUME pc = "DeleteNetwork" PROVE FALSE
      OBVIOUS
    <3>1. r = Network
      BY <2>4 DEF Target, TypeOK
    <3> QED BY <2>3, <2>4, <3>1, UsedBy, LeftSteps DEF LeftNetworks
  <2> QED BY <2>5, <2>6, <2>7, <2>8, <2>9, <2>10, <2>11, <2>12, <2>13, <2>14, <2>15, <2>16,
             <2>17, <2>18 DEF Target
<1> QED BY <1>1, InvCorrect, PTL
-----------------------------------------------------------------------------
(* What a pass has made, and what it leaves                                *)

\* Nothing is deleted while this holds.
Active == obj.exists /\ ~obj.deleting

LBHosts == {"external", "internal"}

EndpointAddress == IF Endpoint = "internal" THEN InternalAddress ELSE Address

\* The kinds of resource that the status links to.
Linked == {Network, Router} \cup Groups \cup ExternalLB \cup InternalLB

\* Every copy of the object, however old, tells of what is there as long as the object
\* is not deleted.
CopyInv(o) ==
    /\ o.rec \subseteq Linked
    /\ o.host \in LBHosts => o.host = Endpoint
    /\ Active => /\ o.rec \subseteq cloud
                 /\ o.ready => Planned \subseteq cloud
                 /\ o.host \in LBHosts => EndpointAddress \in cloud

\* A pass changes the endpoint to that of the load balancer only, and never the spec.
CopiesInv ==
    /\ CopyInv(obj) /\ CopyInv(cache) /\ CopyInv(before) /\ CopyInv(local)
    /\ ~obj.exists => obj = NoObject
    /\ local.host \in {before.host, Endpoint}
    /\ local.failureDomains = before.failureDomains

\* What the steps of reconcile before this one have made, the instance groups aside.
NetworksMade == {Network} \cup (IF CreatedByCAPG(Network) THEN {Router} ELSE {})
FirewallsMade == NetworksMade \cup (IF conf.shared THEN {} ELSE FirewallRules)
SubnetsMade == FirewallsMade \cup Subnets
ExternalMade == SubnetsMade \cup (IF HasExternal THEN ExternalLB ELSE {})

Made(step) ==
    CASE step = "Router" -> {Network}
      [] step = "Firewalls" -> NetworksMade
      [] step = "Subnets" -> FirewallsMade
      [] step \in {"InstanceGroups", "HealthCheck"} -> SubnetsMade
      [] step = "BackendService" -> SubnetsMade \cup {HealthCheck}
      [] step = "TargetTCPProxy" -> SubnetsMade \cup {HealthCheck, BackendService}
      [] step = "Address" -> SubnetsMade \cup {HealthCheck, BackendService, TargetTCPProxy}
      [] step = "ForwardingRule" -> SubnetsMade
            \cup {HealthCheck, BackendService, TargetTCPProxy, Address}
      [] step = "RegionalHealthCheck" -> ExternalMade
      [] step = "RegionalBackendService" -> ExternalMade \cup {RegionalHealthCheck}
      [] step = "InternalAddress" -> ExternalMade
            \cup {RegionalHealthCheck, RegionalBackendService}
      [] step = "RegionalForwardingRule" -> ExternalMade
            \cup {RegionalHealthCheck, RegionalBackendService, InternalAddress}
      [] step = "Done" -> Planned
      [] OTHER -> {}

\* Where the endpoint is known, and where the backends are up to date.
AfterEndpoint(step) ==
    \/ step \in {"ForwardingRule", "RegionalForwardingRule", "Done"}
    \/ HasExternal /\ step \in InternalSteps

AfterBackends(step) ==
    \/ step \in {"TargetTCPProxy", "Address", "ForwardingRule"}
    \/ HasExternal /\ step \in InternalSteps \cup {"Done"}

AfterRegionalBackends(step) ==
    \/ step \in {"InternalAddress", "RegionalForwardingRule"}
    \/ HasInternal /\ step = "Done"

MadeInv ==
    /\ Made(pc) \subseteq cloud
    /\ AfterEndpoint(pc) => local.host = Endpoint
    /\ AfterBackends(pc) =>
            Cardinality(backends[BackendService]) = Cardinality(local.fds)
    /\ AfterRegionalBackends(pc) =>
            Cardinality(backends[RegionalBackendService]) = Cardinality(local.fds)

\* The failure domains of the pass, and their instance groups.
GroupSteps == {"Network", "Router", "Firewalls", "Subnets", "InstanceGroups"}
BalancerSteps == ExternalSteps \cup InternalSteps \cup {"Done"}

DomainsInv ==
    /\ pc \in GroupSteps \cup BalancerSteps =>
            local.fds = SelectedZones(local.failureDomains)
    /\ pc \in GroupSteps => {Group(z) : z \in local.fds \ todo} \subseteq cloud
    /\ pc \in BalancerSteps => {Group(z) : z \in local.fds} \subseteq local.rec

\* A deletion pass that goes on has deleted the groups it has visited.
GroupsInv ==
    /\ pc \in DeleteSteps => \A z \in ZonesOf(before.rec) \ todo : Group(z) \notin cloud
    /\ pc \in LateSteps => todo = {}
    /\ local.deleting /\ ~local.finalizer => \A z \in ZonesOf(before.rec) : Group(z) \notin cloud

\* What is done when a pass ends without an error, and has to be written.
Provided(o) ==
    /\ o.ready /\ o.finalizer /\ o.host = Endpoint
    /\ o.fds = SelectedZones(o.failureDomains)
    /\ {Group(z) : z \in o.fds} \subseteq o.rec

DoneInv ==
    /\ pc \in {"ClosePatch", "CloseStatus"} /\ ~failed =>
            IF before.deleting THEN ~local.finalizer ELSE Provided(local)
    /\ pc = "CloseStatus" /\ ~failed /\ obj.exists =>
            /\ local.finalizer # before.finalizer => obj.finalizer = local.finalizer
            /\ local.host # before.host => obj.host = local.host

\* The object differs from the cached copy in what nobody takes back: the cache will be
\* told.
Ahead ==
    \/ ~obj.exists \/ obj.deleting # cache.deleting
    \/ obj.finalizer # cache.finalizer \/ obj.host # cache.host
    \/ obj.ready # cache.ready \/ obj.fds # cache.fds \/ obj.rec # cache.rec

WakeInv ==
    /\ pc # "Idle" /\ ~queued => cache = before
    /\ pc = "Idle" /\ ~queued /\ cache.exists /\ cache.reconcilable =>
            Ahead \/ (~cache.deleting /\ Provided(cache))

SInv == CopiesInv /\ MadeInv /\ DomainsInv /\ GroupsInv /\ DoneInv /\ WakeInv

\* The endpoint is that of the load balancer the configuration asks for.
LEMMA EndpointFacts ==
    ASSUME TypeOK
    PROVE  /\ Endpoint \in LBHosts /\ Endpoint # ""
           /\ Endpoint = IF HasExternal THEN "external" ELSE "internal"
           /\ EndpointAddress = IF HasExternal THEN Address ELSE InternalAddress
           /\ HasExternal <=> conf.lbType # "Internal"
           /\ HasExternal \/ HasInternal
<1>1. conf.lbType \in {"External", "Internal", "InternalExternal"}
  BY ConfigsAssumption DEF TypeOK, Config, LBTypes
<1> QED BY <1>1 DEF Endpoint, EndpointAddress, LBHosts, HasExternal, HasInternal

\* What follows from the configuration alone does not change.
LEMMA ConfSame ==
    ASSUME conf' = conf
    PROVE  /\ Endpoint' = Endpoint /\ EndpointAddress' = EndpointAddress
           /\ Planned' = Planned /\ HasExternal' = HasExternal /\ HasInternal' = HasInternal
           /\ Made(pc)' = Made(pc')
           /\ AfterEndpoint(pc)' = AfterEndpoint(pc')
           /\ AfterBackends(pc)' = AfterBackends(pc')
           /\ AfterRegionalBackends(pc)' = AfterRegionalBackends(pc')
<1>1. /\ Endpoint' = Endpoint /\ EndpointAddress' = EndpointAddress
      /\ HasExternal' = HasExternal /\ HasInternal' = HasInternal
  BY DEF Endpoint, EndpointAddress, HasExternal, HasInternal
<1>2. /\ Planned' = Planned /\ NetworksMade' = NetworksMade /\ FirewallsMade' = FirewallsMade
      /\ SubnetsMade' = SubnetsMade /\ ExternalMade' = ExternalMade
  BY <1>1 DEF Planned, NetworksMade, FirewallsMade, SubnetsMade, ExternalMade, CreatedByCAPG
<1>3. Made(pc)' = Made(pc')
  BY <1>2 DEF Made
<1>4. /\ AfterEndpoint(pc)' = AfterEndpoint(pc')
      /\ AfterBackends(pc)' = AfterBackends(pc')
      /\ AfterRegionalBackends(pc)' = AfterRegionalBackends(pc')
  BY <1>1 DEF AfterEndpoint, AfterBackends, AfterRegionalBackends
<1> QED BY <1>1, <1>2, <1>3, <1>4

\* The steps of reconcile after the first.
LEMMA ServiceSteps ==
    /\ GroupSteps \cup BalancerSteps = ReconcileSteps \ {"Zones"}
    /\ GroupSteps \cap BalancerSteps = {}
    /\ \A step \in Steps \ (GroupSteps \cup BalancerSteps) :
            Made(step) = {} /\ ~AfterEndpoint(step) /\ ~AfterBackends(step)
            /\ ~AfterRegionalBackends(step)
<1>1. /\ GroupSteps \cup BalancerSteps = ReconcileSteps \ {"Zones"}
      /\ GroupSteps \cap BalancerSteps = {}
  BY DEF GroupSteps, BalancerSteps, ExternalSteps, InternalSteps, ReconcileSteps
<1>2. ASSUME NEW step \in Steps \ (GroupSteps \cup BalancerSteps)
      PROVE  Made(step) = {} /\ ~AfterEndpoint(step) /\ ~AfterBackends(step)
             /\ ~AfterRegionalBackends(step)
  BY <1>2 DEF GroupSteps, BalancerSteps, ExternalSteps, InternalSteps, Made, AfterEndpoint,
          AfterBackends, AfterRegionalBackends
<1> QED BY <1>1, <1>2

-----------------------------------------------------------------------------
(* The steps of reconcile                                                  *)

\* A step of a service fails, and only the deferred Close is left; or it goes on, with
\* what it records made, and every earlier step's work in place.
ServiceFails == pc' = "ClosePatch" /\ failed' = TRUE /\ local' = local

ServiceGoesOn ==
    /\ pc' \in GroupSteps \cup BalancerSteps
    /\ local'.rec \ local.rec \subseteq cloud' \cap Linked
    /\ local'.host = local.host \/ (local'.host = Endpoint /\ EndpointAddress \in cloud')
    /\ local'.ready = local.ready /\ local'.failureDomains = local.failureDomains
    /\ MadeInv' /\ DomainsInv'

ServiceStep ==
    /\ UNCHANGED <<obj, cache, queued, before, conf>>
    /\ cloud \subseteq cloud'
    /\ ServiceFails \/ ServiceGoesOn

\* A step goes on when what its successor relies on is there.
LEMMA GoesOn ==
    ASSUME DomainsInv, UNCHANGED <<obj, cache, queued, before, conf>>,
           cloud \subseteq cloud',
           pc \in GroupSteps \cup BalancerSteps, pc' \in GroupSteps \cup BalancerSteps,
           Made(pc') \subseteq cloud',
           AfterEndpoint(pc') => local'.host = Endpoint,
           AfterBackends(pc') =>
                Cardinality(backends'[BackendService]) = Cardinality(local.fds),
           AfterRegionalBackends(pc') =>
                Cardinality(backends'[RegionalBackendService]) = Cardinality(local.fds),
           pc' \in GroupSteps => /\ pc \in GroupSteps
                                 /\ \A z \in todo \ todo' : Group(z) \in cloud',
           pc' \in BalancerSteps => {Group(z) : z \in local.fds} \subseteq local'.rec,
           local'.fds = local.fds, local'.failureDomains = local.failureDomains,
           local'.ready = local.ready,
           local'.rec \ local.rec \subseteq cloud' \cap Linked,
           local'.host = local.host \/ (local'.host = Endpoint /\ EndpointAddress \in cloud')
    PROVE  ServiceStep
<1>1. MadeInv'
  BY ConfSame DEF MadeInv
<1>2. DomainsInv'
  <2>1. (pc \in GroupSteps \cup BalancerSteps => local.fds = SelectedZones(local.failureDomains))'
    BY DEF DomainsInv, SelectedZones
  <2>2. (pc \in GroupSteps => {Group(z) : z \in local.fds \ todo} \subseteq cloud)'
    BY DEF DomainsInv
  <2>3. (pc \in BalancerSteps => {Group(z) : z \in local.fds} \subseteq local.rec)'
    OBVIOUS
  <2> QED BY <2>1, <2>2, <2>3 DEF DomainsInv
<1> QED BY <1>1, <1>2 DEF ServiceStep, ServiceGoesOn

\* A failing step.
LEMMA RefuseStops ==
    ASSUME Refuse \/ GetFails
    PROVE  ServiceStep
BY DEF Refuse, GetFails, ReturnError, ServiceFrame, ServiceStep, ServiceFails

\* A step that creates r, records something of what is there and goes on.
LEMMA CreateGoesOn ==
    ASSUME SInv, NEW r, NEW next, NEW scope, CreateOrGet(r, next, scope),
           pc \in GroupSteps \cup BalancerSteps, next \in GroupSteps \cup BalancerSteps,
           next \in GroupSteps <=> pc \in GroupSteps,
           \A z \in todo \ todo' : Group(z) = r,
           Made(next) \subseteq Made(pc) \cup {r},
           AfterEndpoint(next) => scope.host = Endpoint,
           AfterBackends(next) => AfterBackends(pc),
           AfterRegionalBackends(next) => AfterRegionalBackends(pc),
           scope.fds = local.fds, scope.failureDomains = local.failureDomains,
           scope.ready = local.ready, local.rec \subseteq scope.rec,
           scope.rec \ local.rec \subseteq (cloud \cup {r}) \cap Linked,
           scope.host = local.host \/ (scope.host = Endpoint /\ EndpointAddress = r)
    PROVE  ServiceStep
<1>0. MadeInv /\ DomainsInv
  BY DEF SInv
<1>1. CASE ReturnError /\ UNCHANGED local /\ cloud \subseteq cloud'
  BY <1>1 DEF ReturnError, CreateOrGet, ServiceFrame, ServiceStep, ServiceFails
<1>2. CASE cloud' = cloud \cup {r} /\ local' = scope /\ pc' = next
  <2>1. UNCHANGED <<obj, cache, queued, before, conf>> /\ backends' = backends
    BY DEF CreateOrGet, ServiceFrame
  <2>2. Made(pc') \subseteq cloud'
    BY <1>0, <1>2 DEF MadeInv
  <2>3. /\ AfterBackends(pc') =>
                Cardinality(backends'[BackendService]) = Cardinality(local.fds)
        /\ AfterRegionalBackends(pc') =>
                Cardinality(backends'[RegionalBackendService]) = Cardinality(local.fds)
    BY <1>0, <1>2, <2>1 DEF MadeInv
  <2>4. pc' \in BalancerSteps => {Group(z) : z \in local.fds} \subseteq local'.rec
    BY <1>0, <1>2, ServiceSteps DEF DomainsInv
  <2> QED BY <1>0, <1>2, <2>1, <2>2, <2>3, <2>4, GoesOn
<1> QED BY <1>1, <1>2 DEF CreateOrGet

\* Recording resources changes the record only.
LEMMA RecordFields ==
    ASSUME NEW scope \in Object, NEW R
    PROVE  /\ Record(scope, R).rec = scope.rec \cup R
           /\ Record(scope, R).fds = scope.fds /\ Record(scope, R).host = scope.host
           /\ Record(scope, R).ready = scope.ready
           /\ Record(scope, R).failureDomains = scope.failureDomains
           /\ \A h : LET o == [Record(scope, R) EXCEPT !.host = h]
                     IN  /\ o.rec = scope.rec \cup R /\ o.fds = scope.fds /\ o.host = h
                         /\ o.ready = scope.ready /\ o.failureDomains = scope.failureDomains
BY DEF Record, Object

\* What each step of a load balancer adds to what is made.
LEMMA MadeSteps ==
    /\ Made("Network") = {} /\ Made("Router") = {Network}
    /\ Made("Firewalls") = NetworksMade /\ Made("Subnets") = FirewallsMade
    /\ Made("InstanceGroups") = SubnetsMade /\ Made("HealthCheck") = SubnetsMade
    /\ Made("BackendService") = Made("HealthCheck") \cup {HealthCheck}
    /\ Made("TargetTCPProxy") = Made("BackendService") \cup {BackendService}
    /\ Made("Address") = Made("TargetTCPProxy") \cup {TargetTCPProxy}
    /\ Made("ForwardingRule") = Made("Address") \cup {Address}
    /\ HasExternal => ExternalMade = Made("ForwardingRule") \cup {ForwardingRule}
    /\ ~HasExternal => ExternalMade = SubnetsMade
    /\ Made("RegionalHealthCheck") = ExternalMade
    /\ Made("RegionalBackendService") = Made("RegionalHealthCheck") \cup {RegionalHealthCheck}
    /\ Made("InternalAddress") = Made("RegionalBackendService") \cup {RegionalBackendService}
    /\ Made("RegionalForwardingRule") = Made("InternalAddress") \cup {InternalAddress}
    /\ HasInternal => Made("Done") = Made("RegionalForwardingRule") \cup {RegionalForwardingRule}
    /\ ~HasInternal => Made("Done") = ExternalMade
<1>1. Planned = ExternalMade \cup (IF HasInternal THEN InternalLB ELSE {})
  BY DEF Planned, ExternalMade, SubnetsMade, FirewallsMade, NetworksMade
<1> QED BY <1>1 DEF Made, ExternalMade, ExternalLB, InternalLB

\* The network and its router.
LEMMA NetworkGoesOn ==
    ASSUME IInv, SInv, createOrGetNetwork \/ createOrGetRouter
    PROVE  ServiceStep
<1> USE Names, MadeSteps
<1>0. local \in Object /\ MadeInv
  BY DEF IInv, TypeOK, SInv
<1>1. /\ {"Network", "Router", "Firewalls"} \subseteq GroupSteps
      /\ \A step \in {"Network", "Router", "Firewalls"} :
            ~AfterEndpoint(step) /\ ~AfterBackends(step) /\ ~AfterRegionalBackends(step)
  BY DEF GroupSteps, AfterEndpoint, AfterBackends, AfterRegionalBackends, InternalSteps
<1>2. {Network, Router} \subseteq Linked
  BY DEF Linked
<1>3. CASE Refuse \/ GetFails
  BY <1>3, RefuseStops
<1>4. CASE /\ pc = "Network" /\ UNCHANGED todo /\ CreateOrGet(Network, "Router", local)
  BY <1>1, <1>4, CreateGoesOn
<1>5. CASE /\ pc = "Network" /\ UNCHANGED todo /\ ~CreatedByCAPG(Network)
           /\ CreateOrGet(Network, "Firewalls", Record(local, {Network}))
  <2> DEFINE scope == Record(local, {Network})
  <2>1. /\ scope.rec = local.rec \cup {Network} /\ scope.fds = local.fds
        /\ scope.host = local.host /\ scope.ready = local.ready
        /\ scope.failureDomains = local.failureDomains
    BY <1>0, RecordFields
  <2>2. NetworksMade = {Network}
    BY <1>5 DEF NetworksMade
  <2> HIDE DEF scope
  <2>3. CreateOrGet(Network, "Firewalls", scope)
    BY <1>5 DEF scope
  <2> QED BY <1>1, <1>2, <1>5, <2>1, <2>2, <2>3, CreateGoesOn
<1>6. CASE /\ pc = "Router" /\ UNCHANGED todo
           /\ CreateOrGet(Router, "Firewalls", Record(local, {Network, Router}))
  <2> DEFINE scope == Record(local, {Network, Router})
  <2>1. /\ scope.rec = local.rec \cup {Network, Router} /\ scope.fds = local.fds
        /\ scope.host = local.host /\ scope.ready = local.ready
        /\ scope.failureDomains = local.failureDomains
    BY <1>0, RecordFields
  <2>2. NetworksMade \subseteq {Network, Router} /\ Network \in cloud
    BY <1>0, <1>6 DEF NetworksMade, MadeInv
  <2> HIDE DEF scope
  <2>3. CreateOrGet(Router, "Firewalls", scope)
    BY <1>6 DEF scope
  <2> QED BY <1>1, <1>2, <1>6, <2>1, <2>2, <2>3, CreateGoesOn
<1> QED BY <1>3, <1>4, <1>5, <1>6 DEF createOrGetNetwork, createOrGetRouter

\* A step that calls nothing, and has nothing to record.
LEMMA ProceedGoesOn ==
    ASSUME SInv, NEW next \in GroupSteps, Proceed(next, local), UNCHANGED todo,
           pc \in GroupSteps, Made(next) \subseteq cloud,
           ~AfterEndpoint(next), ~AfterBackends(next), ~AfterRegionalBackends(next)
    PROVE  ServiceStep
<1>1. /\ pc' = next /\ UNCHANGED <<local, cloud, backends, todo>>
      /\ UNCHANGED <<obj, cache, queued, before, conf>>
  BY DEF Proceed, ServiceFrame
<1>2. DomainsInv /\ next \notin BalancerSteps
  BY ServiceSteps DEF SInv
<1> QED BY <1>1, <1>2, GoesOn

\* The firewall rules and the subnets.
LEMMA FirewallsGoOn ==
    ASSUME IInv, SInv, reconcileFirewalls \/ createOrGetSubnets
    PROVE  ServiceStep
<1> USE Names, MadeSteps
<1>0. local \in Object /\ MadeInv
  BY DEF IInv, TypeOK, SInv
<1>1. /\ {"Firewalls", "Subnets", "InstanceGroups"} \subseteq GroupSteps
      /\ \A step \in {"Firewalls", "Subnets", "InstanceGroups"} :
            ~AfterEndpoint(step) /\ ~AfterBackends(step) /\ ~AfterRegionalBackends(step)
  BY DEF GroupSteps, AfterEndpoint, AfterBackends, AfterRegionalBackends, InternalSteps
<1>2. CASE Refuse \/ GetFails
  BY <1>2, RefuseStops
<1>3. ASSUME NEW r, NEW step \in {"Firewalls", "Subnets"}, pc = step, UNCHANGED todo,
             CreateOrGet(r, step, local)
      PROVE  ServiceStep
  BY <1>1, <1>3, CreateGoesOn
<1>4. CASE /\ pc = "Firewalls" /\ UNCHANGED todo
           /\ conf.shared \/ FirewallRules \ cloud = {}
           /\ Proceed("Subnets", local)
  <2>1. Made("Subnets") \subseteq cloud
    BY <1>0, <1>4 DEF MadeInv, FirewallsMade
  <2> QED BY <1>1, <1>4, <2>1, ProceedGoesOn
<1>5. CASE /\ pc = "Subnets" /\ UNCHANGED todo
           /\ {s \in SubnetNames : Subnet(s) \notin cloud} = {}
           /\ Proceed("InstanceGroups", local)
  <2>1. Made("InstanceGroups") \subseteq cloud
    BY <1>0, <1>5 DEF MadeInv, SubnetsMade, Subnets
  <2> QED BY <1>1, <1>5, <2>1, ProceedGoesOn
<1>6. CASE reconcileFirewalls
  BY <1>2, <1>3, <1>4, <1>6 DEF reconcileFirewalls
<1>7. CASE createOrGetSubnets
  BY <1>2, <1>3, <1>5, <1>7 DEF createOrGetSubnets
<1> QED BY <1>6, <1>7

\* The instance groups.
LEMMA GroupsGoOn ==
    ASSUME IInv, SInv, createOrGetInstanceGroups
    PROVE  ServiceStep
<1> USE MadeSteps
<1>0. /\ local \in Object /\ todo \subseteq Zones /\ TypeOK
      /\ MadeInv /\ DomainsInv /\ pc = "InstanceGroups"
  BY DEF IInv, TypeOK, SInv, createOrGetInstanceGroups
<1>1. /\ "InstanceGroups" \in GroupSteps
      /\ ~AfterEndpoint("InstanceGroups") /\ ~AfterBackends("InstanceGroups")
      /\ ~AfterRegionalBackends("InstanceGroups")
  BY DEF GroupSteps, AfterEndpoint, AfterBackends, AfterRegionalBackends, InternalSteps
<1>2. CASE /\ todo = {} /\ UNCHANGED todo
           /\ Proceed(ReconcileLBs, Record(local, {Group(z) : z \in local.fds}))
  <2> DEFINE groups == {Group(z) : z \in local.fds}
  <2> DEFINE scope == Record(local, groups)
  <2>1. groups \subseteq cloud /\ groups \subseteq Linked
    BY <1>0, <1>1, <1>2, Names DEF DomainsInv, Linked, Object
  <2> HIDE DEF groups
  <2>2. /\ scope.rec = local.rec \cup groups /\ scope.fds = local.fds
        /\ scope.host = local.host /\ scope.ready = local.ready
        /\ scope.failureDomains = local.failureDomains
    BY <1>0, RecordFields
  <2> HIDE DEF scope
  <2>3. Proceed(ReconcileLBs, scope)
    BY <1>2 DEF scope, groups
  <2>4. /\ pc' = ReconcileLBs /\ local' = scope /\ UNCHANGED <<cloud, backends, todo>>
        /\ UNCHANGED <<obj, cache, queued, before, conf>>
    BY <1>2, <2>3 DEF Proceed, ServiceFrame
  <2>5. /\ ReconcileLBs \in BalancerSteps
        /\ ~AfterEndpoint(ReconcileLBs) /\ ~AfterBackends(ReconcileLBs)
        /\ ~AfterRegionalBackends(ReconcileLBs)
    BY DEF ReconcileLBs, BalancerSteps, ExternalSteps, InternalSteps, AfterEndpoint,
           AfterBackends, AfterRegionalBackends
  <2>6. Made(ReconcileLBs) = SubnetsMade
    BY DEF ReconcileLBs
  <2>7. Made(ReconcileLBs) \subseteq cloud
    BY <1>0, <2>6 DEF MadeInv
  <2>8. {Group(z) : z \in local.fds} \subseteq local'.rec
    BY <2>2, <2>4 DEF groups
  <2> QED BY <1>0, <1>1, <2>1, <2>2, <2>4, <2>5, <2>7, <2>8, ServiceSteps, GoesOn
<1>3. ASSUME NEW z \in todo, todo' = todo \ {z},
             CreateOrGet(Group(z), "InstanceGroups",
                         IF Keep THEN Record(local, {Group(z)}) ELSE local)
      PROVE  ServiceStep
  <2> DEFINE g == Group(z)
  <2> DEFINE scope == IF Keep THEN Record(local, {g}) ELSE local
  <2>1. g \in Linked
    BY <1>0, Names DEF Linked
  <2>2. \A y \in todo \ todo' : Group(y) = g
    BY <1>3
  <2> HIDE DEF g
  <2>3. /\ local.rec \subseteq scope.rec /\ scope.rec \subseteq local.rec \cup {g}
        /\ scope.fds = local.fds /\ scope.host = local.host /\ scope.ready = local.ready
        /\ scope.failureDomains = local.failureDomains
    BY <1>0, RecordFields
  <2> HIDE DEF scope
  <2>4. CreateOrGet(g, "InstanceGroups", scope)
    BY <1>3 DEF scope, g
  <2> QED BY <1>0, <1>1, <2>1, <2>2, <2>3, <2>4, CreateGoesOn
<1> QED BY <1>2, <1>3 DEF createOrGetInstanceGroups

\* A step of a load balancer that records what it creates, and perhaps publishes its
\* address.
LEMMA BalancerCreates ==
    ASSUME IInv, SInv, NEW r \in ExternalLB \cup InternalLB, NEW next \in BalancerSteps,
           NEW h, CreateOrGet(r, next, [Record(local, {r}) EXCEPT !.host = h]),
           UNCHANGED todo, pc \in BalancerSteps,
           Made(next) \subseteq Made(pc) \cup {r},
           h = local.host \/ (h = Endpoint /\ EndpointAddress = r),
           AfterEndpoint(next) => AfterEndpoint(pc) \/ h = Endpoint,
           AfterBackends(next) => AfterBackends(pc),
           AfterRegionalBackends(next) => AfterRegionalBackends(pc)
    PROVE  ServiceStep
<1> DEFINE scope == [Record(local, {r}) EXCEPT !.host = h]
<1>0. local \in Object /\ MadeInv
  BY DEF IInv, TypeOK, SInv
<1>1. /\ scope.rec = local.rec \cup {r} /\ scope.fds = local.fds /\ scope.host = h
      /\ scope.ready = local.ready /\ scope.failureDomains = local.failureDomains
  BY <1>0, RecordFields
<1>2. AfterEndpoint(next) => scope.host = Endpoint
  BY <1>0, <1>1 DEF MadeInv
<1>3. r \in Linked
  BY DEF Linked
<1> HIDE DEF scope
<1>4. CreateOrGet(r, next, scope)
  BY DEF scope
<1>5. \A z \in todo \ todo' : Group(z) = r
  OBVIOUS
<1> QED BY <1>1, <1>2, <1>3, <1>4, <1>5, ServiceSteps, CreateGoesOn

\* A step that publishes nothing.
LEMMA BalancerRecords ==
    ASSUME IInv, SInv, NEW step \in BalancerSteps, NEW r \in ExternalLB \cup InternalLB,
           NEW next \in BalancerSteps, CreateLB(step, r, next),
           Made(next) \subseteq Made(step) \cup {r},
           AfterEndpoint(next) => AfterEndpoint(step),
           AfterBackends(next) => AfterBackends(step),
           AfterRegionalBackends(next) => AfterRegionalBackends(step)
    PROVE  ServiceStep
<1>1. [Record(local, {r}) EXCEPT !.host = local.host] = Record(local, {r})
  BY DEF IInv, TypeOK, Record, Object
<1>2. pc = step /\ UNCHANGED todo
      /\ CreateOrGet(r, next, [Record(local, {r}) EXCEPT !.host = local.host])
  BY <1>1 DEF CreateLB
<1> QED BY <1>2, BalancerCreates

\* A backend service, whose backends become as many as the failure domains.
LEMMA BackendsGoOn ==
    ASSUME IInv, SInv, NEW b \in {BackendService, RegionalBackendService},
           NEW next \in BalancerSteps, CreateBackendService(b, next),
           pc \in BalancerSteps,
           Made(next) \subseteq Made(pc) \cup {b},
           AfterEndpoint(next) => AfterEndpoint(pc),
           AfterBackends(next) => AfterBackends(pc) \/ b = BackendService,
           AfterRegionalBackends(next) => AfterRegionalBackends(pc) \/ b = RegionalBackendService
    PROVE  ServiceStep
<1>0. /\ local \in Object /\ MadeInv /\ DomainsInv
      /\ backends \in [{BackendService, RegionalBackendService} -> SUBSET Zones]
  BY DEF IInv, TypeOK, SInv
<1>1. UNCHANGED <<obj, cache, queued, before, conf>> /\ UNCHANGED todo
  BY DEF CreateBackendService, ServiceFrame
<1>2. CASE ReturnError /\ UNCHANGED local /\ cloud \subseteq cloud'
  BY <1>1, <1>2 DEF ReturnError, ServiceStep, ServiceFails
<1> DEFINE update == b \notin cloud \/ Cardinality(backends[b]) # Cardinality(local.fds)
<1> DEFINE updated == IF update THEN [backends EXCEPT ![b] = local.fds] ELSE backends
<1>3. CASE /\ cloud' = cloud \cup {b} /\ backends' = updated
           /\ local' = Record(local, {b}) /\ pc' = next
  <2>1. /\ local'.rec = local.rec \cup {b} /\ local'.fds = local.fds
        /\ local'.host = local.host /\ local'.ready = local.ready
        /\ local'.failureDomains = local.failureDomains
    BY <1>0, <1>3, RecordFields
  <2>2. Cardinality(backends'[b]) = Cardinality(local.fds)
    BY <1>0, <1>3
  <2>3. \A c \in {BackendService, RegionalBackendService} \ {b} : backends'[c] = backends[c]
    BY <1>0, <1>3
  <2>4. /\ AfterBackends(pc') =>
                Cardinality(backends'[BackendService]) = Cardinality(local.fds)
        /\ AfterRegionalBackends(pc') =>
                Cardinality(backends'[RegionalBackendService]) = Cardinality(local.fds)
    BY <1>0, <1>3, <2>2, <2>3 DEF MadeInv
  <2>5. Made(pc') \subseteq cloud'
    BY <1>0, <1>3 DEF MadeInv
  <2>6. AfterEndpoint(pc') => local'.host = Endpoint
    BY <1>0, <1>3, <2>1 DEF MadeInv
  <2>7. b \in Linked
    BY DEF Linked, ExternalLB, InternalLB
  <2>8. {Group(z) : z \in local.fds} \subseteq local'.rec
    BY <1>0, <2>1 DEF DomainsInv
  <2> HIDE DEF updated, update
  <2>9. cloud \subseteq cloud' /\ local'.rec \ local.rec \subseteq cloud' \cap Linked
    BY <1>3, <2>1, <2>7
  <2> QED BY <1>0, <1>1, <1>3, <2>1, <2>4, <2>5, <2>6, <2>8, <2>9, ServiceSteps, GoesOn
<1>4. \/ ReturnError /\ UNCHANGED local /\ cloud \subseteq cloud'
      \/ /\ cloud' = cloud \cup {b} /\ backends' = updated
         /\ local' = Record(local, {b}) /\ pc' = next
  BY DEF CreateBackendService
<1> HIDE DEF updated, update
<1> QED BY <1>2, <1>3, <1>4

\* The internal address, which is published only without an external balancer.
LEMMA InternalAddressGoesOn ==
    ASSUME IInv, SInv, createOrGetInternalAddress
    PROVE  ServiceStep
<1>0. local \in Object /\ MadeInv /\ TypeOK /\ pc = "InternalAddress" /\ UNCHANGED todo
  BY DEF IInv, TypeOK, SInv, createOrGetInternalAddress
<1>1. CASE Refuse \/ GetFails
  BY <1>1, RefuseStops
<1> DEFINE h == IF conf.lbType = "Internal" THEN "internal" ELSE local.host
<1>2. CASE CreateOrGet(InternalAddress, "RegionalForwardingRule",
                       [Record(local, {InternalAddress}) EXCEPT !.host = h])
  <2>1. \/ h = Endpoint /\ EndpointAddress = InternalAddress
        \/ h = local.host /\ HasExternal
    BY <1>0, EndpointFacts
  <2>2. h = Endpoint
    BY <1>0, <2>1 DEF MadeInv, AfterEndpoint, InternalSteps
  <2>3. Made("RegionalForwardingRule") \subseteq Made(pc) \cup {InternalAddress}
    BY <1>0, MadeSteps
  <2>4. /\ AfterBackends("RegionalForwardingRule") => AfterBackends(pc)
        /\ AfterRegionalBackends("RegionalForwardingRule") => AfterRegionalBackends(pc)
    BY <1>0 DEF AfterBackends, AfterRegionalBackends, InternalSteps
  <2>5. /\ pc \in BalancerSteps /\ "RegionalForwardingRule" \in BalancerSteps
        /\ InternalAddress \in ExternalLB \cup InternalLB
    BY <1>0, Names DEF BalancerSteps, InternalSteps
  <2> HIDE DEF h
  <2> QED BY <1>0, <1>2, <2>1, <2>2, <2>3, <2>4, <2>5, BalancerCreates
<1>3. [Record(local, {InternalAddress}) EXCEPT
          !.host = IF conf.lbType = "Internal" THEN "internal" ELSE @]
      = [Record(local, {InternalAddress}) EXCEPT !.host = h]
  BY <1>0, RecordFields
<1> QED BY <1>1, <1>2, <1>3 DEF createOrGetInternalAddress

\* The load balancers.
LEMMA BalancersGoOn ==
    ASSUME IInv, SInv,
           \/ createOrGetHealthCheck \/ createOrGetBackendService
           \/ createOrGetTargetTCPProxy \/ createOrGetAddress \/ createOrGetForwardingRule
           \/ createOrGetRegionalHealthCheck \/ createOrGetRegionalBackendService
           \/ createOrGetInternalAddress \/ createOrGetRegionalForwardingRule
    PROVE  ServiceStep
<1> USE Names, MadeSteps
<1>0. local \in Object /\ CloudInv /\ MadeInv /\ TypeOK
  BY DEF IInv, TypeOK, SInv
<1>1. ExternalSteps \cup InternalSteps \cup {"Done"} = BalancerSteps
  BY DEF BalancerSteps
<1> USE <1>1 DEF ExternalSteps, InternalSteps, AfterEndpoint, AfterBackends,
                 AfterRegionalBackends
<1>2. CASE createOrGetHealthCheck
  BY <1>2, BalancerRecords DEF createOrGetHealthCheck
<1>3. CASE createOrGetTargetTCPProxy
  BY <1>3, BalancerRecords DEF createOrGetTargetTCPProxy
<1>4. CASE createOrGetForwardingRule
  <2>1. HasExternal
    BY <1>0, <1>4 DEF createOrGetForwardingRule, CreateLB, CloudInv
  <2>2. AfterExternal = IF HasInternal THEN "RegionalHealthCheck" ELSE "Done"
    BY DEF AfterExternal
  <2>3. Made(AfterExternal) = ExternalMade
    BY <2>2
  <2> QED BY <1>4, <2>1, <2>2, <2>3, BalancerRecords DEF createOrGetForwardingRule
<1>5. CASE createOrGetRegionalHealthCheck
  BY <1>5, BalancerRecords DEF createOrGetRegionalHealthCheck
<1>6. CASE createOrGetRegionalForwardingRule
  <2>1. HasInternal
    BY <1>0, <1>6 DEF createOrGetRegionalForwardingRule, CreateLB, CloudInv
  <2> QED BY <1>6, <2>1, BalancerRecords DEF createOrGetRegionalForwardingRule
<1>7. CASE createOrGetBackendService
  BY <1>7, BackendsGoOn DEF createOrGetBackendService
<1>8. CASE createOrGetRegionalBackendService
  BY <1>8, BackendsGoOn DEF createOrGetRegionalBackendService
<1>9. CASE createOrGetAddress
  <2>1. pc = "Address" /\ HasExternal
    BY <1>0, <1>9 DEF createOrGetAddress, CloudInv
  <2>2. Endpoint = "external" /\ EndpointAddress = Address
    BY <1>0, <2>1, EndpointFacts
  <2> QED BY <1>9, <2>1, <2>2, BalancerCreates DEF createOrGetAddress
<1>10. CASE createOrGetInternalAddress
  BY <1>10, InternalAddressGoesOn
<1> QED BY <1>2, <1>3, <1>4, <1>5, <1>6, <1>7, <1>8, <1>9, <1>10

\* The first step: the failure domains, all of whose groups are to be made.
LEMMA FailureDomainsGoOn ==
    ASSUME IInv, SInv, SetFailureDomains
    PROVE  ServiceStep
<1>1. CASE GetFails
  BY <1>1, RefuseStops
<1> DEFINE zones == SelectedZones(local.failureDomains)
<1> DEFINE scope == [local EXCEPT !.fds = zones]
<1>2. CASE Proceed("Network", scope) /\ todo' = zones
  <2>1. /\ scope.fds = zones /\ scope.failureDomains = local.failureDomains
        /\ scope.rec = local.rec /\ scope.host = local.host /\ scope.ready = local.ready
    BY DEF IInv, TypeOK, Object
  <2>2. SelectedZones(scope.failureDomains) = zones
    BY <2>1
  <2> HIDE DEF scope, zones
  <2>3. /\ pc' = "Network" /\ local' = scope /\ cloud' = cloud
        /\ UNCHANGED <<obj, cache, queued, before, conf>>
    BY <1>2 DEF Proceed, ServiceFrame
  <2>4. "Network" \in GroupSteps /\ "Network" \notin BalancerSteps
    BY ServiceSteps DEF GroupSteps
  <2>5. ~AfterEndpoint("Network") /\ ~AfterBackends("Network")
        /\ ~AfterRegionalBackends("Network")
    BY DEF AfterEndpoint, AfterBackends, AfterRegionalBackends, InternalSteps
  <2>6. MadeInv'
    BY <2>3, <2>5, MadeSteps, ConfSame DEF MadeInv
  <2>7. SelectedZones(local.failureDomains)' = SelectedZones(scope.failureDomains)
    BY <2>3 DEF SelectedZones
  <2>8. DomainsInv'
    BY <1>2, <2>1, <2>2, <2>3, <2>4, <2>7 DEF DomainsInv
  <2> QED BY <2>1, <2>3, <2>4, <2>6, <2>8 DEF ServiceStep, ServiceGoesOn
<1> QED BY <1>1, <1>2 DEF SetFailureDomains

\* Every step of reconcile's services fails or goes on.
LEMMA ServicesGoOn ==
    ASSUME IInv, SInv, SetFailureDomains \/ ReconcileServices
    PROVE  ServiceStep
BY FailureDomainsGoOn, NetworkGoesOn, FirewallsGoOn, GroupsGoOn, BalancersGoOn
   DEF ReconcileServices

-----------------------------------------------------------------------------
(* The strengthened invariant is inductive                                 *)

\* CopyInv of a value, in the next state.
Told(o) ==
    /\ o.rec \subseteq Linked
    /\ o.host \in LBHosts => o.host = Endpoint
    /\ Active' => /\ o.rec \subseteq cloud'
                  /\ o.ready => Planned \subseteq cloud'
                  /\ o.host \in LBHosts => EndpointAddress \in cloud'

\* While the object is not deleted, a deletion is not undone and nothing goes.
Grows == conf' = conf /\ (Active' => Active /\ cloud \subseteq cloud')

\* What a copy told, it tells.
LEMMA StillTold ==
    ASSUME Grows, NEW o, CopyInv(o)
    PROVE  Told(o)
BY DEF Grows, CopyInv, Told

\* A copy that says less tells the truth as well.
LEMMA LessTold ==
    ASSUME NEW o, Told(o), NEW p, p.rec \subseteq o.rec, p.host = o.host, p.ready = o.ready
    PROVE  Told(p)
BY DEF Told

\* The object that is not there tells nothing.
LEMMA NothingTold == Told(NoObject)
BY DEF Told, NoObject, LBHosts

\* The copies, in the next state.
LEMMA CopiesKept ==
    ASSUME conf' = conf, Told(obj'), Told(cache'), Told(before'), Told(local'),
           obj'.exists \/ obj' = NoObject,
           local'.host \in {before'.host, Endpoint},
           local'.failureDomains = before'.failureDomains
    PROVE  CopiesInv'
<1>1. CopyInv(obj)' /\ CopyInv(cache)' /\ CopyInv(before)' /\ CopyInv(local)'
  BY ConfSame DEF Told, CopyInv
<1> QED BY <1>1, ConfSame DEF CopiesInv

\* Outside reconcile there is nothing to say of what is made.
LEMMA MadeQuiet ==
    ASSUME conf' = conf, pc' \in Steps, pc' \notin ReconcileSteps \ {"Zones"}
    PROVE  MadeInv' /\ DomainsInv'
<1>1. pc' \notin GroupSteps \cup BalancerSteps
  BY ServiceSteps
<1>2. /\ Made(pc') = {} /\ ~AfterEndpoint(pc') /\ ~AfterBackends(pc')
      /\ ~AfterRegionalBackends(pc')
  BY <1>1, ServiceSteps
<1> QED BY <1>1, <1>2, ConfSame DEF MadeInv, DomainsInv

\* A step that leaves the pass and GCP alone changes nothing of it.
LEMMA MadeSame ==
    ASSUME SInv, UNCHANGED <<pc, cloud, local, backends, todo, conf>>
    PROVE  MadeInv' /\ DomainsInv'
BY ConfSame DEF SInv, MadeInv, DomainsInv, SelectedZones

\* A step of reconcile's services keeps the strengthened invariant.
LEMMA ServiceKeeps ==
    ASSUME IInv, SInv, TypeOK', SetFailureDomains \/ ReconcileServices
    PROVE  SInv'
<1> USE StepKinds
<1>1. CreateShape /\ ServiceStep
  BY ReconcileShape, ServicesGoOn
<1>2. /\ UNCHANGED <<obj, cache, queued, before, conf>> /\ cloud \subseteq cloud'
      /\ pc \in ReconcileSteps /\ pc' \in ReconcileSteps \cup {"ClosePatch"}
      /\ local'.finalizer = local.finalizer
  BY <1>1 DEF CreateShape, ServiceStep
<1>3. Grows
  BY <1>2 DEF Grows, Active
<1>4. Told(obj') /\ Told(cache') /\ Told(before') /\ Told(local)
  BY <1>2, <1>3, StillTold DEF SInv, CopiesInv
<1>5. /\ obj.exists \/ obj = NoObject
      /\ local.host \in {before.host, Endpoint}
      /\ local.failureDomains = before.failureDomains
      /\ ~queued => cache = before
      /\ local.finalizer
  BY <1>2 DEF IInv, PassInv, SInv, CopiesInv, WakeInv
<1>6. GroupsInv'
  BY <1>2, <1>5 DEF GroupsInv
<1>7. WakeInv'
  BY <1>2, <1>5 DEF WakeInv
<1>8. CASE ServiceFails
  <2>1. CopiesInv'
    BY <1>2, <1>4, <1>5, <1>8, CopiesKept DEF ServiceFails
  <2>2. MadeInv' /\ DomainsInv'
    BY <1>2, <1>8, MadeQuiet DEF ServiceFails, TypeOK
  <2>3. DoneInv'
    BY <1>8 DEF ServiceFails, DoneInv
  <2> QED BY <1>6, <1>7, <2>1, <2>2, <2>3 DEF SInv
<1>9. CASE ServiceGoesOn
  <2>1. Told(local')
    BY <1>4, <1>9 DEF Told, ServiceGoesOn
  <2>2. CopiesInv'
    BY <1>2, <1>4, <1>5, <1>9, <2>1, CopiesKept DEF ServiceGoesOn
  <2>3. DoneInv'
    BY <1>9, ServiceSteps DEF ServiceGoesOn, DoneInv
  <2> QED BY <1>6, <1>7, <1>9, <2>2, <2>3 DEF SInv, ServiceGoesOn
<1> QED BY <1>1, <1>8, <1>9 DEF ServiceStep

\* Reporting the cluster ready keeps it: everything is there.
LEMMA SetReadyKeeps ==
    ASSUME IInv, SInv, TypeOK', SetReady
    PROVE  SInv'
<1> USE StepKinds
<1>0. /\ TypeOK /\ local \in Object /\ pc = "Done" /\ pc \in ReconcileSteps
      /\ CopiesInv /\ MadeInv /\ DomainsInv /\ WakeInv /\ PassInv
  BY DEF IInv, TypeOK, SInv, SetReady, ReconcileSteps
<1>1. /\ pc' = "ClosePatch" /\ UNCHANGED <<obj, cache, before, todo, failed, cloud, conf>>
      /\ queued => queued'
      /\ local' = [local EXCEPT !.ready = @ \/ local.host # ""]
  BY <1>0 DEF SetReady, TypeOK
<1>2. "Done" \in BalancerSteps /\ AfterEndpoint("Done") /\ Made("Done") = Planned
  BY DEF BalancerSteps, AfterEndpoint, Made
<1>3. local.host = Endpoint /\ Endpoint # "" /\ Planned \subseteq cloud
  BY <1>0, <1>2, EndpointFacts DEF MadeInv
<1>4. /\ local'.ready /\ local'.host = local.host /\ local'.rec = local.rec
      /\ local'.fds = local.fds /\ local'.failureDomains = local.failureDomains
      /\ local'.finalizer = local.finalizer /\ local'.deleting = local.deleting
  BY <1>0, <1>1, <1>3 DEF Object
<1>5. Grows
  BY <1>1 DEF Grows, Active
<1>6. Told(obj') /\ Told(cache') /\ Told(before') /\ Told(local)
  BY <1>0, <1>1, <1>5, StillTold DEF CopiesInv
<1>7. Told(local')
  BY <1>1, <1>3, <1>4, <1>6 DEF Told
<1>8. CopiesInv'
  BY <1>0, <1>1, <1>4, <1>6, <1>7, CopiesKept DEF CopiesInv
<1>9. MadeInv' /\ DomainsInv'
  BY <1>1, MadeQuiet DEF TypeOK
<1>10. local.finalizer /\ ~before.deleting
  BY <1>0 DEF PassInv
<1>11. GroupsInv'
  BY <1>1, <1>4, <1>10 DEF GroupsInv
<1>12. Provided(local)'
  <2>1. local.fds = SelectedZones(local.failureDomains)
        /\ {Group(z) : z \in local.fds} \subseteq local.rec
    BY <1>0, <1>2 DEF DomainsInv
  <2>2. SelectedZones(local.failureDomains)' = SelectedZones(local.failureDomains)
    BY <1>4 DEF SelectedZones
  <2> QED BY <1>1, <1>3, <1>4, <1>10, <2>1, <2>2, ConfSame DEF Provided
<1>13. DoneInv'
  BY <1>1, <1>10, <1>12 DEF DoneInv
<1>14. WakeInv'
  BY <1>0, <1>1 DEF WakeInv
<1> QED BY <1>8, <1>9, <1>11, <1>13, <1>14 DEF SInv

\* A step of reconcileDelete's services forgets at most links, ends the pass only with an
\* error, and leaves no instance group behind it.
DeletePass ==
    /\ queued' = queued
    /\ local'.rec \subseteq local.rec /\ local'.host = local.host
    /\ local'.ready = local.ready /\ local'.failureDomains = local.failureDomains
    /\ pc' = "ClosePatch" => failed' = TRUE
    /\ pc' \in DeleteSteps => \A z \in todo \ todo' : Group(z) \notin cloud'
    /\ pc' \in LateSteps => todo' = {}

\* Forgetting resources changes the record only.
LEMMA ForgetFields ==
    ASSUME NEW scope \in Object, NEW R
    PROVE  /\ Forget(scope, R).rec \subseteq scope.rec
           /\ Forget(scope, R).host = scope.host /\ Forget(scope, R).ready = scope.ready
           /\ Forget(scope, R).failureDomains = scope.failureDomains
BY DEF Forget, Object

\* A step that deletes a resource and goes on to the next, outside the loop over the groups.
LEMMA DeletePasses ==
    ASSUME SInv, NEW r, NEW next, NEW onError, NEW scope,
           Delete(r, next, onError, scope) \/ Proceed(next, scope),
           pc \in DeleteSteps, next \in DeleteSteps, UNCHANGED todo,
           {next, onError} \cap LateSteps # {} => pc \in LateSteps,
           scope.rec \subseteq local.rec, scope.host = local.host,
           scope.ready = local.ready, scope.failureDomains = local.failureDomains
    PROVE  DeletePass
<1>1. pc \in LateSteps => todo = {}
  BY DEF SInv, GroupsInv
<1>2. next # "ClosePatch"
  BY StepKinds
<1>3. /\ queued' = queued
      /\ local' = scope \/ local' = local
      /\ pc' = next \/ (pc' = onError /\ failed' = TRUE)
  BY DEF Delete, Proceed, ServiceFrame
<1>4. pc' \in LateSteps => pc \in LateSteps
  BY <1>3
<1> QED BY <1>1, <1>2, <1>3, <1>4 DEF DeletePass

\* A step that fails.
LEMMA GetFailsPasses ==
    ASSUME GetFails
    PROVE  DeletePass
BY StepKinds DEF GetFails, ReturnError, ServiceFrame, DeletePass

\* A step of a load balancer's deletion.
LEMMA DeleteLBPasses ==
    ASSUME IInv, SInv, NEW step \in DeleteSteps, NEW r,
           NEW next \in DeleteSteps \ LateSteps, NEW onError \in DeleteSteps \ LateSteps,
           DeleteLB(step, r, next, onError)
    PROVE  DeletePass
<1> DEFINE scope == Forget(local, {r})
<1>1. /\ scope.rec \subseteq local.rec /\ scope.host = local.host
      /\ scope.ready = local.ready /\ scope.failureDomains = local.failureDomains
  BY ForgetFields DEF IInv, TypeOK
<1> HIDE DEF scope
<1>2. pc = step /\ Delete(r, next, onError, scope) /\ UNCHANGED todo
  BY DEF DeleteLB, scope
<1> QED BY <1>1, <1>2, DeletePasses

\* The loop over the instance groups.
LEMMA GroupsPass ==
    ASSUME IInv, SInv, deleteInstanceGroups
    PROVE  DeletePass
<1>0. local \in Object /\ failed \in BOOLEAN /\ pc = "DeleteInstanceGroups"
  BY DEF IInv, TypeOK, deleteInstanceGroups
<1>1. "DeleteInstanceGroups" \in DeleteSteps \ LateSteps
      /\ "ClosePatch" \notin DeleteSteps \cup LateSteps
      /\ "DeleteSubnets" # "ClosePatch"
  BY DEF DeleteSteps, LateSteps
<1>2. CASE /\ todo = {} /\ UNCHANGED todo
           /\ Proceed(IF failed THEN "ClosePatch" ELSE AfterDelete.loadbalancers, local)
  <2>1. /\ queued' = queued /\ local' = local /\ failed' = failed
        /\ pc' = IF failed THEN "ClosePatch" ELSE "DeleteSubnets"
    BY <1>2, Names DEF Proceed, ServiceFrame
  <2> QED BY <1>0, <1>1, <1>2, <2>1 DEF DeletePass
<1>3. ASSUME NEW z \in todo, todo' = todo \ {z},
             Delete(Group(z), "DeleteInstanceGroups", "ClosePatch",
                    IF Group(z) \in cloud THEN local ELSE Forget(local, {Group(z)}))
      PROVE  DeletePass
  <2> DEFINE g == Group(z)
  <2> DEFINE scope == IF g \in cloud THEN local ELSE Forget(local, {g})
  <2>1. \A y \in todo \ todo' : Group(y) = g
    BY <1>3
  <2> HIDE DEF g
  <2>2. /\ scope.rec \subseteq local.rec /\ scope.host = local.host
        /\ scope.ready = local.ready /\ scope.failureDomains = local.failureDomains
    BY <1>0, ForgetFields
  <2> HIDE DEF scope
  <2>3. Delete(g, "DeleteInstanceGroups", "ClosePatch", scope)
    BY <1>3 DEF scope, g
  <2>4. /\ queued' = queued
        /\ local' = scope \/ local' = local
        /\ \/ pc' = "DeleteInstanceGroups" /\ g \notin cloud'
           \/ pc' = "ClosePatch" /\ failed' = TRUE
    BY <2>3 DEF Delete, Deleted, ServiceFrame
  <2> QED BY <1>1, <2>1, <2>2, <2>4 DEF DeletePass
<1> QED BY <1>2, <1>3 DEF deleteInstanceGroups

\* The subnets, the firewall rules, the router and the network.
LEMMA NetworksPass ==
    ASSUME IInv, SInv, deleteSubnets \/ deleteFirewalls \/ deleteRouter \/ deleteNetwork
    PROVE  DeletePass
<1>1. /\ LateSteps \subseteq DeleteSteps
      /\ pc \in LateSteps /\ UNCHANGED todo
      /\ {"DeleteSubnets", "DeleteFirewalls", "DeleteRouter", "DeleteNetwork",
          "RemoveFinalizer"} = LateSteps
  BY StepKinds DEF LateSteps, deleteSubnets, deleteFirewalls, deleteRouter, deleteNetwork
<1> DEFINE forgotten == Forget(local, {Network, Router})
<1>2. /\ forgotten.rec \subseteq local.rec /\ forgotten.host = local.host
      /\ forgotten.ready = local.ready /\ forgotten.failureDomains = local.failureDomains
  BY ForgetFields DEF IInv, TypeOK
<1> HIDE DEF forgotten
<1>3. ASSUME NEW r, NEW next \in LateSteps, NEW scope \in {local, forgotten},
             Delete(r, next, "ClosePatch", scope) \/ Proceed(next, scope)
      PROVE  DeletePass
  BY <1>1, <1>2, <1>3, DeletePasses
<1>4. CASE GetFails
  BY <1>4, GetFailsPasses
<1>5. CASE deleteSubnets
  BY <1>1, <1>3, <1>4, <1>5, Names DEF deleteSubnets
<1>6. CASE deleteFirewalls
  BY <1>1, <1>3, <1>6, Names DEF deleteFirewalls
<1>7. CASE deleteRouter
  BY <1>1, <1>3, <1>4, <1>7, Names DEF deleteRouter, forgotten
<1>8. CASE deleteNetwork
  BY <1>1, <1>3, <1>8, Names DEF deleteNetwork, forgotten
<1> QED BY <1>5, <1>6, <1>7, <1>8

\* Every step of reconcileDelete's services does.
LEMMA DeleteServicesPass ==
    ASSUME IInv, SInv, DeleteServices
    PROVE  DeletePass
<1>1. AfterDeleteExternal \in DeleteSteps \ LateSteps
  BY DEF AfterDeleteExternal, DeleteSteps, LateSteps
<1>2. {"DeleteForwardingRule", "DeleteAddress", "DeleteTargetTCPProxy",
       "DeleteBackendService", "DeleteHealthCheck", "DeleteRegionalForwardingRule",
       "DeleteInternalAddress", "DeleteRegionalBackendService",
       "DeleteRegionalHealthCheck", "DeleteInstanceGroups"} \subseteq DeleteSteps \ LateSteps
  BY DEF DeleteSteps, LateSteps
<1>3. CASE deleteForwardingRule \/ deleteAddress \/ deleteTargetTCPProxy
           \/ deleteBackendService \/ deleteHealthCheck
  BY <1>1, <1>2, <1>3, DeleteLBPasses DEF deleteForwardingRule, deleteAddress,
     deleteTargetTCPProxy, deleteBackendService, deleteHealthCheck
<1>4. CASE deleteRegionalForwardingRule \/ deleteInternalAddress
           \/ deleteRegionalBackendService \/ deleteRegionalHealthCheck
  BY <1>2, <1>4, DeleteLBPasses DEF deleteRegionalForwardingRule, deleteInternalAddress,
     deleteRegionalBackendService, deleteRegionalHealthCheck
<1> QED BY <1>3, <1>4, GroupsPass, NetworksPass DEF DeleteServices

\* A step of reconcileDelete's services keeps the strengthened invariant.
LEMMA DeletePassKeeps ==
    ASSUME IInv, SInv, TypeOK', DeleteServices
    PROVE  SInv'
<1> USE StepKinds
<1>1. DeleteShape /\ DeletePass
  BY DeleteSweeps, DeleteServicesPass
<1>2. /\ UNCHANGED <<obj, cache, queued, before, conf>> /\ cloud' \subseteq cloud
      /\ pc \in DeleteSteps /\ pc' \in DeleteSteps \cup {"ClosePatch"}
      /\ local'.finalizer = local.finalizer /\ local'.deleting = local.deleting
  BY <1>1, TrackedShrinks DEF DeleteShape, DeletePass
<1>3. /\ before.deleting /\ local.finalizer /\ ~Active
      /\ CopiesInv /\ GroupsInv /\ WakeInv
  BY <1>2 DEF IInv, PassInv, Active, SInv
<1>4. Grows
  BY <1>2, <1>3 DEF Grows, Active
<1>5. Told(obj') /\ Told(cache') /\ Told(before') /\ Told(local)
  BY <1>2, <1>3, <1>4, StillTold DEF CopiesInv
<1>6. Told(local')
  BY <1>1, <1>5, LessTold DEF DeletePass
<1>7. CopiesInv'
  BY <1>1, <1>2, <1>3, <1>5, <1>6, CopiesKept DEF CopiesInv, DeletePass
<1>8. MadeInv' /\ DomainsInv'
  BY <1>2, MadeQuiet DEF TypeOK
<1>9. GroupsInv'
  <2>1. (pc \in DeleteSteps => \A z \in ZonesOf(before.rec) \ todo : Group(z) \notin cloud)'
    BY <1>1, <1>2, <1>3 DEF GroupsInv, DeletePass, ZonesOf
  <2> QED BY <1>1, <1>2, <1>3, <2>1 DEF GroupsInv, DeletePass
<1>10. DoneInv'
  BY <1>1, <1>2 DEF DoneInv, DeletePass
<1>11. WakeInv'
  BY <1>2, <1>3 DEF WakeInv
<1> QED BY <1>7, <1>8, <1>9, <1>10, <1>11 DEF SInv

\* What concerns the pass and GCP only.
LEMMA PassSame ==
    ASSUME SInv, UNCHANGED <<before, local, pc, todo, cloud, backends, conf>>
    PROVE  MadeInv' /\ DomainsInv' /\ GroupsInv'
<1>1. GroupsInv'
  BY DEF SInv, GroupsInv, ZonesOf
<1> QED BY <1>1, MadeSame

\* What is provided for a copy stays so.
LEMMA ProvidedSame ==
    ASSUME conf' = conf
    PROVE  /\ local' = local => Provided(local)' = Provided(local)
           /\ cache' = cache => Provided(cache)' = Provided(cache)
BY ConfSame DEF Provided, SelectedZones

\* Deleting, editing, releasing and pausing the object leave the status and what the
\* controller writes alone, or end the object.
Edited ==
    \/ obj' = NoObject
    \/ /\ obj'.exists /\ obj.exists /\ (obj.deleting => obj'.deleting)
       /\ obj'.deleting \in BOOLEAN /\ obj.deleting \in BOOLEAN
       /\ obj'.finalizer = obj.finalizer /\ obj'.host = obj.host /\ obj'.ready = obj.ready
       /\ obj'.fds = obj.fds /\ obj'.rec = obj.rec

\* They have that shape, and so has a stuttering step.
LEMMA EditShape ==
    ASSUME IInv, SInv,
           UserDelete \/ UserEditFailureDomains \/ Release \/ Pause \/ UNCHANGED vars
    PROVE  /\ Edited
           /\ UNCHANGED <<cache, queued, before, local, pc, todo, failed, cloud, backends, conf>>
<1>0. obj \in Object /\ (obj.exists \/ obj = NoObject)
  BY DEF IInv, TypeOK, SInv, CopiesInv
<1>1. UNCHANGED <<cache, queued, before, local, pc, todo, failed, cloud, backends, conf>>
  BY DEF UserDelete, UserEditFailureDomains, Release, Pause, Edit, EditFrame, vars
<1>2. CASE UserDelete
  <2> DEFINE o == [obj EXCEPT !.deleting = TRUE]
  <2>1. /\ o.exists = obj.exists /\ o.deleting = TRUE /\ o.finalizer = obj.finalizer
        /\ o.host = obj.host /\ o.ready = obj.ready /\ o.fds = obj.fds /\ o.rec = obj.rec
        /\ obj.deleting \in BOOLEAN
    BY <1>0 DEF Object
  <2>2. obj.exists /\ (obj' = o \/ obj' = NoObject)
    BY <1>2 DEF UserDelete, Settle
  <2> HIDE DEF o
  <2> QED BY <1>1, <2>1, <2>2 DEF Edited
<1>3. CASE UserEditFailureDomains
  <2>1. PICK d \in SpecDomains : obj' = [obj EXCEPT !.failureDomains = d]
    BY <1>3 DEF UserEditFailureDomains
  <2> QED BY <1>0, <1>1, <1>3, <2>1 DEF UserEditFailureDomains, Edited, Object
<1>4. CASE Release \/ Pause
  BY <1>0, <1>1, <1>4 DEF Release, Pause, Edited, Object
<1>5. CASE UNCHANGED vars
  BY <1>0, <1>1, <1>5 DEF vars, Edited, Object
<1> QED BY <1>2, <1>3, <1>4, <1>5

\* They keep the strengthened invariant.
LEMMA EditKeeps ==
    ASSUME IInv, SInv,
           UserDelete \/ UserEditFailureDomains \/ Release \/ Pause \/ UNCHANGED vars
    PROVE  SInv'
<1>0. CopiesInv /\ DoneInv /\ WakeInv /\ CacheInv
  BY DEF IInv, SInv
<1>1. Edited /\ UNCHANGED <<cache, queued, before, local, pc, todo, failed, cloud, backends, conf>>
  BY EditShape
<1>2. Grows
  BY <1>1, NoObjectFields DEF Grows, Active, Edited
<1>3. Told(obj) /\ Told(cache') /\ Told(before') /\ Told(local')
  BY <1>0, <1>1, <1>2, StillTold DEF CopiesInv
<1>4. Told(obj')
  BY <1>1, <1>3, LessTold, NothingTold DEF Edited
<1>5. CopiesInv'
  BY <1>0, <1>1, <1>3, <1>4, CopiesKept DEF CopiesInv, Edited
<1>6. MadeInv' /\ DomainsInv' /\ GroupsInv'
  BY <1>1, PassSame
<1>7. DoneInv'
  BY <1>0, <1>1, NoObjectFields, ProvidedSame DEF DoneInv, Edited
<1>8. WakeInv'
  <2>1. Ahead => Ahead'
    BY <1>0, <1>1, NoObjectFields DEF Ahead, Edited, CacheInv
  <2> QED BY <1>0, <1>1, <2>1, ProvidedSame DEF WakeInv
<1> QED BY <1>5, <1>6, <1>7, <1>8 DEF SInv

\* A watch event, a restart and the early returns of Reconcile keep it.
LEMMA RuntimeWakes ==
    ASSUME IInv, SInv, TypeOK', CacheSync \/ Crash \/ ReconcileIgnored \/ ReconcileFails
    PROVE  SInv'
<1> USE StepKinds
<1>0. CopiesInv /\ DoneInv /\ WakeInv
  BY DEF SInv
<1>1. CASE CacheSync
  <2>1. /\ cache' = obj /\ queued' = TRUE
        /\ UNCHANGED <<obj, before, local, pc, todo, failed, cloud, backends, conf>>
    BY <1>1 DEF CacheSync
  <2>2. Grows
    BY <2>1 DEF Grows, Active
  <2>3. Told(obj') /\ Told(cache') /\ Told(before') /\ Told(local')
    BY <1>0, <2>1, <2>2, StillTold DEF CopiesInv
  <2>4. CopiesInv'
    BY <1>0, <2>1, <2>3, CopiesKept DEF CopiesInv
  <2>5. MadeInv' /\ DomainsInv' /\ GroupsInv'
    BY <2>1, PassSame
  <2>6. DoneInv' /\ WakeInv'
    BY <1>0, <2>1, ProvidedSame DEF DoneInv, WakeInv
  <2> QED BY <2>4, <2>5, <2>6 DEF SInv
<1>2. CASE Crash
  <2>1. /\ cache' = obj /\ queued' = TRUE /\ pc' = "Idle"
        /\ before' = NoObject /\ local' = NoObject /\ UNCHANGED <<obj, cloud, conf>>
    BY <1>2 DEF Crash
  <2>2. Grows
    BY <2>1 DEF Grows, Active
  <2>3. Told(obj') /\ Told(cache') /\ Told(before') /\ Told(local')
    BY <1>0, <2>1, <2>2, StillTold, NothingTold DEF CopiesInv
  <2>4. CopiesInv'
    BY <1>0, <2>1, <2>3, CopiesKept DEF CopiesInv
  <2>5. MadeInv' /\ DomainsInv'
    BY <2>1, MadeQuiet DEF TypeOK
  <2>6. GroupsInv' /\ DoneInv' /\ WakeInv'
    BY <2>1, NoObjectFields DEF GroupsInv, DoneInv, WakeInv
  <2> QED BY <2>4, <2>5, <2>6 DEF SInv
<1>3. CASE ReconcileIgnored \/ ReconcileFails
  <2>1. /\ UNCHANGED <<obj, cache, before, local, pc, todo, failed, cloud, backends, conf>>
        /\ pc = "Idle"
        /\ queued' \/ ~(cache.exists /\ cache.reconcilable)
    BY <1>3 DEF ReconcileIgnored, ReconcileFails
  <2>2. Grows
    BY <2>1 DEF Grows, Active
  <2>3. Told(obj') /\ Told(cache') /\ Told(before') /\ Told(local')
    BY <1>0, <2>1, <2>2, StillTold DEF CopiesInv
  <2>4. CopiesInv'
    BY <1>0, <2>1, <2>3, CopiesKept DEF CopiesInv
  <2>5. MadeInv' /\ DomainsInv' /\ GroupsInv'
    BY <2>1, PassSame
  <2>6. DoneInv' /\ WakeInv'
    BY <2>1 DEF DoneInv, WakeInv
  <2> QED BY <2>4, <2>5, <2>6 DEF SInv
<1> QED BY <1>1, <1>2, <1>3

\* Starting a pass keeps it.
LEMMA ReconcileStarts ==
    ASSUME IInv, SInv, TypeOK', Reconcile
    PROVE  SInv'
<1> USE StepKinds
<1>0. CopiesInv /\ CacheInv
  BY DEF IInv, SInv
<1>1. /\ before' = cache /\ local' = cache /\ todo' = ZonesOf(cache.rec)
      /\ UNCHANGED <<obj, cache, cloud, conf>>
      /\ pc' \in {DeleteLBs, "Finalizer"}
  BY DEF Reconcile
<1>2. DeleteLBs \in DeleteSteps \ LateSteps
  BY DEF DeleteLBs, DeleteSteps, LateSteps
<1>3. Grows
  BY <1>1 DEF Grows, Active
<1>4. Told(obj') /\ Told(cache') /\ Told(before') /\ Told(local')
  BY <1>0, <1>1, <1>3, StillTold DEF CopiesInv
<1>5. CopiesInv'
  BY <1>0, <1>1, <1>4, CopiesKept DEF CopiesInv
<1>6. MadeInv' /\ DomainsInv'
  BY <1>1, <1>2, MadeQuiet DEF TypeOK
<1>7. GroupsInv'
  <2>1. todo' = ZonesOf(before.rec)'
    BY <1>1 DEF ZonesOf
  <2> QED BY <1>0, <1>1, <1>2, <2>1 DEF GroupsInv, CacheInv
<1>8. DoneInv' /\ WakeInv'
  BY <1>1, <1>2 DEF DoneInv, WakeInv
<1> QED BY <1>5, <1>6, <1>7, <1>8 DEF SInv

\* Adding and dropping the finalizer keep it.
LEMMA FinalizerStepKeeps ==
    ASSUME IInv, SInv, TypeOK', AddFinalizer \/ RemoveFinalizer
    PROVE  SInv'
<1> USE StepKinds
<1>0. /\ local \in Object /\ obj \in Object /\ PassInv
      /\ CopiesInv /\ GroupsInv /\ DoneInv /\ WakeInv
  BY DEF IInv, TypeOK, SInv
<1>1. /\ UNCHANGED <<cache, queued, before, todo, cloud, conf>>
      /\ pc' \in {"Zones", "ClosePatch"} /\ pc # "Idle"
  BY DEF AddFinalizer, RemoveFinalizer, ReturnError, PassFrame
<1>2. /\ local'.host = local.host /\ local'.ready = local.ready /\ local'.rec = local.rec
      /\ local'.failureDomains = local.failureDomains /\ local'.deleting = local.deleting
  BY <1>0 DEF AddFinalizer, RemoveFinalizer, Object
<1>3. \/ obj' = obj
      \/ /\ obj'.exists /\ obj.exists /\ obj'.deleting = obj.deleting
         /\ obj'.host = obj.host /\ obj'.ready = obj.ready /\ obj'.rec = obj.rec
  BY <1>0 DEF AddFinalizer, RemoveFinalizer, Object
<1>4. Grows
  BY <1>1, <1>3 DEF Grows, Active
<1>5. Told(obj) /\ Told(cache') /\ Told(before') /\ Told(local)
  BY <1>0, <1>1, <1>4, StillTold DEF CopiesInv
<1>6. Told(obj') /\ Told(local')
  BY <1>2, <1>3, <1>5, LessTold
<1>7. CopiesInv'
  BY <1>0, <1>1, <1>2, <1>3, <1>5, <1>6, CopiesKept DEF CopiesInv
<1>8. MadeInv' /\ DomainsInv'
  BY <1>1, MadeQuiet DEF TypeOK
<1>9. WakeInv'
  BY <1>0, <1>1 DEF WakeInv
<1>10. CASE AddFinalizer
  <2>1. local'.finalizer /\ (pc' = "ClosePatch" => failed')
    BY <1>0, <1>10 DEF AddFinalizer, ReturnError, Object
  <2>2. "Zones" \notin DeleteSteps
    BY DEF DeleteSteps
  <2>3. GroupsInv' /\ DoneInv'
    BY <1>1, <2>1, <2>2 DEF GroupsInv, DoneInv
  <2> QED BY <1>7, <1>8, <1>9, <2>3 DEF SInv
<1>11. CASE RemoveFinalizer
  <2>1. /\ ~local'.finalizer /\ pc' = "ClosePatch" /\ pc = "RemoveFinalizer"
    BY <1>0, <1>11 DEF RemoveFinalizer, Object
  <2>2. pc \in LateSteps /\ pc \in DeleteSteps
    BY <2>1 DEF LateSteps, DeleteSteps
  <2>3. \A z \in ZonesOf(before.rec) : Group(z) \notin cloud
    BY <1>0, <2>2 DEF GroupsInv
  <2>4. GroupsInv'
    BY <1>1, <2>1, <2>3 DEF GroupsInv, ZonesOf
  <2>5. before.deleting
    BY <1>0, <2>2 DEF PassInv
  <2>6. DoneInv'
    BY <1>1, <2>1, <2>5 DEF DoneInv
  <2> QED BY <1>7, <1>8, <1>9, <2>4, <2>6 DEF SInv
<1> QED BY <1>10, <1>11

\* What the first patch of Close writes.
LEMMA PatchedFields ==
    ASSUME obj \in Object
    PROVE  \/ Patched(obj) = NoObject
           \/ /\ Patched(obj).exists = obj.exists /\ Patched(obj).deleting = obj.deleting
              /\ Patched(obj).rec = obj.rec /\ Patched(obj).ready = obj.ready
              /\ Patched(obj).finalizer = IF local.finalizer # before.finalizer
                                          THEN local.finalizer ELSE obj.finalizer
              /\ Patched(obj).host = IF local.host # before.host THEN local.host ELSE obj.host
<1> DEFINE o == [obj EXCEPT
        !.finalizer = IF local.finalizer # before.finalizer THEN local.finalizer ELSE @,
        !.host = IF local.host # before.host THEN local.host ELSE @]
<1>1. /\ o.exists = obj.exists /\ o.deleting = obj.deleting
      /\ o.rec = obj.rec /\ o.ready = obj.ready
      /\ o.finalizer = IF local.finalizer # before.finalizer THEN local.finalizer
                       ELSE obj.finalizer
      /\ o.host = IF local.host # before.host THEN local.host ELSE obj.host
  BY DEF Object
<1>2. Patched(obj) = Settle(o)
  BY DEF Patched
<1> HIDE DEF o
<1> QED BY <1>1, <1>2 DEF Settle

\* What the second patch of Close writes.
LEMMA StatusFields ==
    ASSUME obj \in Object
    PROVE  /\ PatchedStatus(obj).exists = obj.exists
           /\ PatchedStatus(obj).deleting = obj.deleting
           /\ PatchedStatus(obj).finalizer = obj.finalizer
           /\ PatchedStatus(obj).host = obj.host
           /\ PatchedStatus(obj).ready = IF local.ready # before.ready THEN local.ready
                                         ELSE obj.ready
           /\ PatchedStatus(obj).fds = Merge(obj.fds, before.fds, local.fds)
           /\ PatchedStatus(obj).rec = Merge(obj.rec, before.rec, local.rec)
BY DEF PatchedStatus, Object

\* The first half of Close keeps the strengthened invariant.
LEMMA ClosePatchWrites ==
    ASSUME IInv, SInv, TypeOK', ClosePatch
    PROVE  SInv'
<1> USE StepKinds
<1>0. obj \in Object /\ CopiesInv /\ GroupsInv /\ DoneInv /\ WakeInv /\ pc = "ClosePatch"
  BY DEF IInv, TypeOK, SInv, ClosePatch
<1>1. /\ pc' = "CloseStatus"
      /\ UNCHANGED <<cache, queued, before, local, todo, cloud, backends, conf>>
  BY DEF ClosePatch, PassFrame
<1>2. \/ obj' = obj \/ obj' = NoObject
      \/ /\ obj'.exists = obj.exists /\ obj'.deleting = obj.deleting
         /\ obj.exists
         /\ obj'.rec = obj.rec /\ obj'.ready = obj.ready
         /\ obj'.host = IF local.host # before.host THEN local.host ELSE obj.host
  BY <1>0, PatchedFields DEF ClosePatch
<1>3. Grows
  BY <1>1, <1>2, NoObjectFields DEF Grows, Active
<1>4. Told(obj) /\ Told(cache') /\ Told(before') /\ Told(local')
  BY <1>0, <1>1, <1>3, StillTold DEF CopiesInv
<1>5. Told(obj')
  BY <1>1, <1>2, <1>4, NothingTold DEF Told
<1>6. CopiesInv'
  BY <1>0, <1>1, <1>2, <1>4, <1>5, CopiesKept DEF CopiesInv
<1>7. MadeInv' /\ DomainsInv'
  BY <1>1, MadeQuiet DEF TypeOK
<1>8. GroupsInv'
  BY <1>0, <1>1 DEF GroupsInv, ZonesOf
<1>9. DoneInv'
  <2> SUFFICES ASSUME ~failed'
               PROVE  /\ IF before.deleting THEN ~local.finalizer ELSE Provided(local)
                      /\ obj'.exists =>
                            /\ local.finalizer # before.finalizer =>
                                    obj'.finalizer = local.finalizer
                            /\ local.host # before.host => obj'.host = local.host
    BY <1>1, ProvidedSame DEF DoneInv
  <2>1. /\ ~failed
        /\ ~PatchChanged \/ obj' = Patched(obj)
    BY DEF ClosePatch
  <2> QED BY <1>0, <2>1, PatchedFields, NoObjectFields DEF DoneInv, PatchChanged
<1>10. WakeInv'
  BY <1>0, <1>1 DEF WakeInv
<1> QED BY <1>6, <1>7, <1>8, <1>9, <1>10 DEF SInv

\* A patch that leaves the object as the snapshot was had nothing to change.
LEMMA MergeChanges ==
    ASSUME NEW current, NEW old, NEW new, new # old
    PROVE  Merge(current, old, new) # old
BY DEF Merge

\* When a pass ends without an error and nothing is queued, the object is ahead of the
\* cache or there was nothing to do.
LEMMA CloseWakes ==
    ASSUME IInv, SInv, CloseStatus
    PROVE  WakeInv'
<1>0. /\ obj \in Object /\ before \in Object /\ local \in Object /\ cache \in Object
      /\ PassInv /\ CopiesInv /\ DoneInv /\ WakeInv /\ pc = "CloseStatus"
  BY DEF IInv, TypeOK, SInv, CloseStatus
<1>1. pc' = "Idle" /\ UNCHANGED <<cache, conf>>
  BY DEF CloseStatus
<1> SUFFICES ASSUME ~queued', ~Ahead' PROVE ~cache.deleting /\ Provided(cache)
  BY <1>1, ProvidedSame DEF WakeInv
<1>2. /\ ~queued /\ ~failed
      /\ \/ StatusChanged /\ obj' = PatchedStatus(obj)
         \/ obj' = obj /\ (~StatusChanged \/ ~obj.exists)
  BY DEF CloseStatus
<1>3. cache = before
  BY <1>0, <1>2 DEF WakeInv
<1>4. /\ obj'.exists /\ obj'.finalizer = before.finalizer /\ obj'.host = before.host
      /\ obj'.ready = before.ready /\ obj'.fds = before.fds /\ obj'.rec = before.rec
  BY <1>1, <1>3 DEF Ahead
<1>5. obj.exists /\ obj.finalizer = before.finalizer /\ obj.host = before.host
  BY <1>0, <1>2, <1>4, StatusFields
<1>6. ~StatusChanged
  <2> SUFFICES ASSUME StatusChanged PROVE FALSE
    OBVIOUS
  <2>1. obj' = PatchedStatus(obj)
    BY <1>2, <1>5
  <2> QED BY <1>0, <1>4, <2>1, StatusFields, MergeChanges DEF StatusChanged
<1>7. local.finalizer = before.finalizer /\ local.host = before.host
  BY <1>0, <1>2, <1>5 DEF DoneInv
<1>8. ~before.deleting
  BY <1>0, <1>2, <1>7 DEF DoneInv, PassInv
<1>9. Provided(local)
  BY <1>0, <1>2, <1>8 DEF DoneInv
<1>10. local.failureDomains = before.failureDomains
  BY <1>0 DEF CopiesInv
<1> QED BY <1>3, <1>6, <1>7, <1>8, <1>9, <1>10 DEF Provided, StatusChanged

\* The second half of Close keeps the strengthened invariant.
LEMMA CloseStatusWrites ==
    ASSUME IInv, SInv, TypeOK', CloseStatus
    PROVE  SInv'
<1> USE StepKinds
<1>0. obj \in Object /\ CopiesInv
  BY DEF IInv, TypeOK, SInv
<1>1. /\ pc' = "Idle" /\ before' = NoObject /\ local' = NoObject
      /\ UNCHANGED <<cache, cloud, conf>>
  BY DEF CloseStatus
<1>2. obj' = obj \/ (obj.exists /\ obj' = PatchedStatus(obj))
  BY DEF CloseStatus
<1>3. \/ obj' = obj
      \/ /\ obj'.exists /\ obj.exists /\ obj'.deleting = obj.deleting
         /\ obj'.host = obj.host /\ obj'.ready \in {obj.ready, local.ready}
         /\ obj'.rec \subseteq obj.rec \cup local.rec
  BY <1>0, <1>2, StatusFields DEF Merge
<1>4. Grows
  BY <1>1, <1>3 DEF Grows, Active
<1>5. Told(obj) /\ Told(cache') /\ Told(before') /\ Told(local') /\ Told(local)
  BY <1>0, <1>1, <1>4, StillTold, NothingTold DEF CopiesInv
<1>6. Told(obj')
  BY <1>3, <1>5 DEF Told
<1>7. CopiesInv'
  BY <1>0, <1>1, <1>3, <1>5, <1>6, CopiesKept DEF CopiesInv
<1>8. MadeInv' /\ DomainsInv'
  BY <1>1, MadeQuiet DEF TypeOK
<1>9. GroupsInv' /\ DoneInv'
  BY <1>1, NoObjectFields DEF GroupsInv, DoneInv
<1> QED BY <1>7, <1>8, <1>9, CloseWakes DEF SInv

\* The initial states satisfy the strengthened invariant.
LEMMA StrongInit == Init => SInv
<1> SUFFICES ASSUME Init PROVE SInv
  OBVIOUS
<1> USE StepKinds
<1>1. TypeOK
  BY TypeInit
<1>2. obj.exists /\ obj.rec = {} /\ ~obj.ready /\ obj.host \notin LBHosts
  <2>1. PICK d \in SpecDomains, h \in SpecHosts :
            obj = [NoObject EXCEPT !.exists = TRUE, !.failureDomains = d, !.host = h]
    BY DEF Init
  <2>2. h \in {"", "user"}
    BY SpecAssumption
  <2> QED BY <2>1, <2>2 DEF NoObject, LBHosts
<1>3. /\ cache = NoObject /\ before = NoObject /\ local = NoObject /\ pc = "Idle"
  BY DEF Init
<1>4. /\ NoObject.rec = {} /\ ~NoObject.ready /\ NoObject.host \notin LBHosts
      /\ ~NoObject.exists /\ ~NoObject.deleting
  BY DEF NoObject, LBHosts
<1>5. CopiesInv
  BY <1>2, <1>3, <1>4 DEF CopiesInv, CopyInv
<1>6. pc \in Steps \ (GroupSteps \cup BalancerSteps)
  BY <1>1, <1>3, ServiceSteps DEF TypeOK
<1>7. MadeInv /\ DomainsInv
  BY <1>6, ServiceSteps DEF MadeInv, DomainsInv
<1>8. GroupsInv /\ DoneInv /\ WakeInv
  BY <1>3, <1>4 DEF GroupsInv, DoneInv, WakeInv
<1> QED BY <1>5, <1>7, <1>8 DEF SInv

\* Every step keeps it.
LEMMA StrongNext == IInv /\ SInv /\ [Next]_vars => SInv'
<1> SUFFICES ASSUME IInv, SInv, [Next]_vars PROVE SInv'
  OBVIOUS
<1>1. TypeOK'
  BY TypeNext DEF IInv
<1>2. CASE SetFailureDomains \/ ReconcileServices
  BY <1>1, <1>2, ServiceKeeps
<1>3. CASE SetReady
  BY <1>1, <1>3, SetReadyKeeps
<1>4. CASE DeleteServices
  BY <1>1, <1>4, DeletePassKeeps
<1>5. CASE AddFinalizer \/ RemoveFinalizer
  BY <1>1, <1>5, FinalizerStepKeeps
<1>6. CASE ClosePatch
  BY <1>1, <1>6, ClosePatchWrites
<1>7. CASE CloseStatus
  BY <1>1, <1>7, CloseStatusWrites
<1>8. CASE Reconcile
  BY <1>1, <1>8, ReconcileStarts
<1>9. CASE UserDelete \/ UserEditFailureDomains \/ Release \/ Pause \/ UNCHANGED vars
  BY <1>9, EditKeeps
<1>10. CASE CacheSync \/ Crash \/ ReconcileIgnored \/ ReconcileFails
  BY <1>1, <1>10, RuntimeWakes
<1> QED BY <1>2, <1>3, <1>4, <1>5, <1>6, <1>7, <1>8, <1>9, <1>10
        DEF Next, Controller, Environment

\* The strengthened invariant holds.
THEOREM StrongCorrect == Spec => [](IInv /\ SInv)
<1>1. Init => SInv
  BY StrongInit
<1>2. IInv /\ SInv /\ [Next]_vars => SInv'
  BY StrongNext
<1> QED BY <1>1, <1>2, InvCorrect, PTL DEF Spec

-----------------------------------------------------------------------------
(* What it gives                                                           *)

\* A ready cluster that is not being deleted has all its infrastructure, and whatever its
\* status links to exists: reconcile and SetReady, against lost and stale patches.
THEOREM ReadyCorrect == Spec => []ReadyMeansProvisioned
<1>1. SInv => ReadyMeansProvisioned
  BY DEF SInv, CopiesInv, CopyInv, Active, ReadyMeansProvisioned
<1> QED BY <1>1, StrongCorrect, PTL

\* A published endpoint is that of the load balancer, and its address stays reserved until
\* the cluster is deleted.
THEOREM EndpointCorrect == Spec => []EndpointBacked
<1>1. ASSUME SInv PROVE EndpointBacked
  <2>1. NoObject.host \notin LBHosts
    BY DEF NoObject, LBHosts
  <2>2. obj.host \in LBHosts => obj.exists
    BY <1>1, <2>1 DEF SInv, CopiesInv
  <2> QED BY <1>1, <2>2
          DEF SInv, CopiesInv, CopyInv, Active, EndpointBacked, LBHosts, EndpointAddress
<1> QED BY <1>1, StrongCorrect, PTL

\* The pass that removes the finalizer has deleted all that the status it read links to.
THEOREM RecordedCorrect == Spec => []RecordedResourcesDeleted
<1>1. ASSUME IInv, SInv PROVE RecordedResourcesDeleted
  <2> SUFFICES ASSUME local.deleting, ~local.finalizer,
                      NEW r \in before.rec, r \in cloud, r \notin conf.foreign
               PROVE  FALSE
    BY DEF RecordedResourcesDeleted
  <2>1. before.deleting /\ before.finalizer
    BY <1>1 DEF IInv, PassInv
  <2>2. Tracked = {}
    BY <1>1, <2>1 DEF IInv, SweepInv
  <2>3. r \in Linked /\ r \in Resource
    BY <1>1, Names DEF SInv, CopiesInv, CopyInv, Linked
  <2>4. CASE r \in Groups
    <3>1. PICK z \in Zones : r = Group(z)
      BY <2>4 DEF Groups
    <3> QED BY <1>1, <3>1 DEF SInv, GroupsInv, ZonesOf
  <2>5. CASE r \notin Groups
    <3>1. SkippedSubnets \subseteq Subnets
      BY DEF SkippedSubnets, Subnets, SubnetNames
    <3>2. r \notin Subnets
      BY <2>3, <2>5, ResourcesDiffer DEF Linked
    <3> QED BY <2>2, <2>3, <2>5, <3>1, <3>2 DEF Tracked, Owned
  <2> QED BY <2>4, <2>5
<1> QED BY <1>1, StrongCorrect, PTL

\* A successful pass ends with one backend per failure domain, in every backend service.
THEOREM BackendsCorrect == Spec => []BackendsSized
<1>1. ASSUME IInv, SInv PROVE BackendsSized
  <2> SUFFICES ASSUME pc = "Done", NEW b \in {BackendService, RegionalBackendService} \cap cloud
               PROVE  Cardinality(backends[b]) = Cardinality(local.fds)
    BY DEF BackendsSized
  <2>1. /\ b = BackendService => HasExternal
        /\ b = RegionalBackendService => HasInternal
    BY <1>1, Names DEF IInv, CloudInv
  <2> QED BY <1>1, <2>1 DEF SInv, MadeInv, AfterBackends, AfterRegionalBackends
<1> QED BY <1>1, StrongCorrect, PTL

\* No wake-up is lost: when nothing is queued and the cache is up to date, nothing is left
\* to do.
THEOREM WakeCorrect == Spec => []NothingForgotten
<1>1. SInv => NothingForgotten
  BY DEF SInv, WakeInv, Ahead, Provided, Converged, NothingForgotten
<1> QED BY <1>1, StrongCorrect, PTL

\* The endpoint, once published, is never taken back, not even by a stale pass.
THEOREM EndpointStableCorrect == Spec => EndpointStable
<1>1. ASSUME IInv, SInv, [Next]_vars
      PROVE  obj.host = Endpoint /\ obj'.exists => obj'.host = Endpoint
  <2>0. obj \in Object /\ local.host \in {before.host, Endpoint}
    BY <1>1 DEF IInv, TypeOK, SInv, CopiesInv
  <2>1. CASE ClosePatch
    <3>1. obj' = obj \/ obj' = Patched(obj)
      BY <2>1 DEF ClosePatch
    <3> QED BY <2>0, <3>1, PatchedFields, NoObjectFields
  <2>2. CASE CloseStatus
    <3>1. obj' = obj \/ obj' = PatchedStatus(obj)
      BY <2>2 DEF CloseStatus
    <3> QED BY <2>0, <3>1, StatusFields
  <2>3. CASE AddFinalizer
    BY <2>0, <2>3 DEF AddFinalizer, Object
  <2>4. CASE UserDelete \/ UserEditFailureDomains \/ Release \/ Pause \/ UNCHANGED vars
    BY <1>1, <2>4, EditShape, NoObjectFields DEF Edited
  <2>5. CASE SetFailureDomains \/ ReconcileServices \/ SetReady
    BY <1>1, <2>5, ReconcileShape DEF CreateShape
  <2>6. CASE DeleteServices
    BY <1>1, <2>6, DeleteSweeps DEF DeleteShape
  <2>7. CASE CacheSync \/ Crash \/ ReconcileIgnored \/ ReconcileFails \/ Reconcile
             \/ RemoveFinalizer
    BY <2>7 DEF CacheSync, Crash, ReconcileIgnored, ReconcileFails, Reconcile, RemoveFinalizer
  <2> QED BY <1>1, <2>1, <2>2, <2>3, <2>4, <2>5, <2>6, <2>7 DEF Next, Controller, Environment
<1>2. IInv /\ SInv /\ [Next]_vars =>
        [obj.host = Endpoint /\ obj'.exists => obj'.host = Endpoint]_vars
  BY <1>1
<1> QED BY <1>2, StrongCorrect, PTL DEF Spec, EndpointStable

=============================================================================
