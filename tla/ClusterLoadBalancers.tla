------------------------ MODULE ClusterLoadBalancers ------------------------
(***************************************************************************)
(* The control plane load balancers of a GCPCluster: package loadbalancers *)
(* of cloud/services/compute.  Reconcile creates the instance groups, then *)
(* the external (global proxy) and the internal (regional passthrough)     *)
(* load balancer the configuration asks for; Delete undoes both, carries   *)
(* on past an error in one of them, and then deletes the groups that the   *)
(* status lists.                                                           *)
(***************************************************************************)
EXTENDS ClusterNetworks

HasExternal == conf.lbType \in {"External", "InternalExternal"}
HasInternal == conf.lbType \in {"Internal", "InternalExternal"}

\* Where Reconcile goes after the groups and after the external balancer.
ReconcileLBs == IF HasExternal THEN "HealthCheck" ELSE "RegionalHealthCheck"
AfterExternal == IF HasInternal THEN "RegionalHealthCheck" ELSE AfterReconcile.loadbalancers

-----------------------------------------------------------------------------
(* Instance groups, one per failure domain, in the random order of a Go     *)
(* map.  The status map is edited in place when it exists (Keep), and is    *)
(* replaced by a new map only when the loop ends otherwise.                *)

Keep == ZonesOf(before.rec) # {}

createOrGetInstanceGroups ==
    /\ pc = "InstanceGroups"
    /\ \/ /\ todo = {}
          /\ Proceed(ReconcileLBs, Record(local, {Group(z) : z \in local.fds}))
          /\ UNCHANGED todo
       \/ \E z \in todo :
          /\ CreateOrGet(Group(z), "InstanceGroups",
                         IF Keep THEN Record(local, {Group(z)}) ELSE local)
          /\ todo' = todo \ {z}

\* NotFound drops the zone from the status map, a deletion does not.
deleteInstanceGroups ==
    /\ pc = "DeleteInstanceGroups"
    /\ \/ /\ todo = {}
          /\ Proceed(IF failed THEN "ClosePatch" ELSE AfterDelete.loadbalancers, local)
          /\ UNCHANGED todo
       \/ \E z \in todo :
          /\ Delete(Group(z), "DeleteInstanceGroups", "ClosePatch",
                    IF Group(z) \in cloud THEN local ELSE Forget(local, {Group(z)}))
          /\ todo' = todo \ {z}

-----------------------------------------------------------------------------
(* createExternalLoadBalancer and createInternalLoadBalancer               *)

\* A step of either: createOrGet r, record its link, go on to next.
CreateLB(step, r, next) ==
    /\ pc = step
    /\ CreateOrGet(r, next, Record(local, {r}))
    /\ UNCHANGED todo

createOrGetHealthCheck == CreateLB("HealthCheck", HealthCheck, "BackendService")

createOrGetTargetTCPProxy == CreateLB("TargetTCPProxy", TargetTCPProxy, "Address")

createOrGetForwardingRule ==
    CreateLB("ForwardingRule", ForwardingRule, AfterExternal)

createOrGetRegionalHealthCheck ==
    CreateLB("RegionalHealthCheck", RegionalHealthCheck, "RegionalBackendService")

\* Faulty: the backends are given at creation and never updated.
CreateBackendServiceOnce(b, next) ==
    /\ cloud' = cloud \cup {b}
    /\ backends' = IF b \in cloud THEN backends ELSE [backends EXCEPT ![b] = local.fds]
    /\ local' = Record(local, {b})
    /\ pc' = next
    /\ NoFault /\ UNCHANGED <<failed, todo>>
    /\ ServiceFrame

\* createOrGet the backend service b, then update its backends when their
\* number differs from that of the instance groups.
CreateBackendService(b, next) ==
    LET update == b \notin cloud \/ Cardinality(backends[b]) # Cardinality(local.fds)
        updated == IF update THEN [backends EXCEPT ![b] = local.fds] ELSE backends
    IN  /\ \/ /\ cloud' = cloud \cup {b} /\ backends' = updated
              /\ local' = Record(local, {b})
              /\ pc' = next
              /\ NoFault /\ UNCHANGED failed
           \/ /\ \/ UNCHANGED <<cloud, backends>>
                 \/ cloud' = cloud \cup {b} /\ backends' = updated
              /\ ReturnError
              /\ Fault /\ UNCHANGED local
        /\ UNCHANGED todo
        /\ ServiceFrame

createOrGetBackendService ==
    pc = "BackendService" /\ CreateBackendService(BackendService, "TargetTCPProxy")

createOrGetRegionalBackendService ==
    /\ pc = "RegionalBackendService"
    /\ CreateBackendService(RegionalBackendService, "InternalAddress")

\* Faulty: an address that is there already is not published.
createOrGetAddressPublishesNew ==
    /\ pc = "Address"
    /\ CreateOrGet(Address, "ForwardingRule",
                   [Record(local, {Address}) EXCEPT
                       !.host = IF Address \in cloud THEN @ ELSE "external"])
    /\ UNCHANGED todo

\* The address of the load balancer becomes the control plane endpoint.
createOrGetAddress ==
    /\ pc = "Address"
    /\ CreateOrGet(Address, "ForwardingRule",
                   [Record(local, {Address}) EXCEPT !.host = "external"])
    /\ UNCHANGED todo

\* Faulty: the internal address replaces the external one as the endpoint.
createOrGetInternalAddressTakesOver ==
    /\ pc = "InternalAddress"
    /\ UNCHANGED todo
    /\ getSubnet # {}
    /\ CreateOrGet(InternalAddress, "RegionalForwardingRule",
                   [Record(local, {InternalAddress}) EXCEPT !.host = "internal"])

\* The internal address is the endpoint only without an external balancer.  It
\* needs a subnet: every subnet up to the one used must be found.
createOrGetInternalAddress ==
    /\ pc = "InternalAddress"
    /\ UNCHANGED todo
    /\ \/ /\ getSubnet # {}
          /\ CreateOrGet(InternalAddress, "RegionalForwardingRule",
                [Record(local, {InternalAddress}) EXCEPT
                    !.host = IF conf.lbType = "Internal" THEN "internal" ELSE @])
       \/ getSubnet = {} /\ Refuse
       \/ getSubnet = {} /\ GetFails

createOrGetRegionalForwardingRule ==
    /\ getSubnet # {}
    /\ CreateLB("RegionalForwardingRule", RegionalForwardingRule,
                AfterReconcile.loadbalancers)

-----------------------------------------------------------------------------
(* deleteExternalLoadBalancer and deleteInternalLoadBalancer               *)

\* Where Delete starts, and where it goes on after the external balancer.
DeleteLBs == IF HasExternal THEN "DeleteForwardingRule" ELSE "DeleteRegionalForwardingRule"
AfterDeleteExternal ==
    IF HasInternal THEN "DeleteRegionalForwardingRule" ELSE "DeleteInstanceGroups"

\* A step of either: delete r, forget its link, go on to next.  An error ends
\* the balancer, not the service.
DeleteLB(step, r, next, onError) ==
    /\ pc = step
    /\ Delete(r, next, onError, Forget(local, {r}))
    /\ UNCHANGED todo

deleteForwardingRule ==
    DeleteLB("DeleteForwardingRule", ForwardingRule, "DeleteAddress", AfterDeleteExternal)

deleteAddress ==
    DeleteLB("DeleteAddress", Address, "DeleteTargetTCPProxy", AfterDeleteExternal)

deleteTargetTCPProxy ==
    DeleteLB("DeleteTargetTCPProxy", TargetTCPProxy, "DeleteBackendService",
             AfterDeleteExternal)

deleteBackendService ==
    DeleteLB("DeleteBackendService", BackendService, "DeleteHealthCheck",
             AfterDeleteExternal)

deleteHealthCheck ==
    DeleteLB("DeleteHealthCheck", HealthCheck, AfterDeleteExternal, AfterDeleteExternal)

deleteRegionalForwardingRule ==
    DeleteLB("DeleteRegionalForwardingRule", RegionalForwardingRule,
             "DeleteInternalAddress", "DeleteInstanceGroups")

deleteInternalAddress ==
    DeleteLB("DeleteInternalAddress", InternalAddress, "DeleteRegionalBackendService",
             "DeleteInstanceGroups")

deleteRegionalBackendService ==
    DeleteLB("DeleteRegionalBackendService", RegionalBackendService,
             "DeleteRegionalHealthCheck", "DeleteInstanceGroups")

deleteRegionalHealthCheck ==
    DeleteLB("DeleteRegionalHealthCheck", RegionalHealthCheck, "DeleteInstanceGroups",
             "DeleteInstanceGroups")

=============================================================================
