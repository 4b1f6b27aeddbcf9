-------------------------- MODULE ClusterNetworks --------------------------
(***************************************************************************)
(* The network services of a GCPCluster: packages networks, firewalls and  *)
(* subnets of cloud/services/compute.  One action per GCP object that a    *)
(* function handles, or per iteration of its loop; a pass that stops       *)
(* half-way leaves what it has done and is retried from the start.         *)
(***************************************************************************)
EXTENDS ClusterScope

Record(scope, resources) == [scope EXCEPT !.rec = @ \cup resources]
Forget(scope, resources) == [scope EXCEPT !.rec = @ \ resources]

-----------------------------------------------------------------------------
(* networks                                                                *)

\* A shared VPC's network must exist already.
createOrGetNetwork ==
    /\ pc = "Network"
    /\ UNCHANGED todo
    /\ \/ conf.shared /\ Network \notin cloud /\ (Refuse \/ GetFails)
       \/ /\ ~conf.shared \/ Network \in cloud
          /\ IF CreatedByCAPG(Network)
             THEN CreateOrGet(Network, "Router", local)
             ELSE CreateOrGet(Network, AfterReconcile.networks, Record(local, {Network}))

\* The NAT router, only in a network CAPG created.
createOrGetRouter ==
    /\ pc = "Router"
    /\ UNCHANGED todo
    /\ \/ conf.shared /\ Router \notin cloud /\ (Refuse \/ GetFails)
       \/ /\ ~conf.shared \/ Router \in cloud
          /\ CreateOrGet(Router, AfterReconcile.networks, Record(local, {Network, Router}))

\* networks.Delete up to the router: nothing to do in a shared VPC, without a
\* network, or in a network that CAPG did not create.
deleteRouter ==
    /\ pc = "DeleteRouter"
    /\ UNCHANGED todo
    /\ \/ conf.shared /\ Proceed(AfterDelete.networks, Forget(local, {Network, Router}))
       \/ /\ ~conf.shared
          /\ \/ /\ Network \notin cloud \/ ~CreatedByCAPG(Network)
                /\ Proceed(AfterDelete.networks, local)
             \/ /\ Network \in cloud /\ CreatedByCAPG(Network)
                /\ IF CreatedByCAPG(Router)
                   THEN Delete(Router, "DeleteNetwork", "ClosePatch", local)
                   ELSE Proceed("DeleteNetwork", local)
             \/ GetFails

deleteNetwork ==
    /\ pc = "DeleteNetwork"
    /\ UNCHANGED todo
    /\ Delete(Network, AfterDelete.networks, "ClosePatch", Forget(local, {Network, Router}))

-----------------------------------------------------------------------------
(* firewalls                                                               *)

\* One iteration of Reconcile's loop that creates a rule, or its end; rules
\* that exist are passed over.
reconcileFirewalls ==
    /\ pc = "Firewalls"
    /\ UNCHANGED todo
    /\ LET missing == FirewallRules \ cloud
       IN  \/ (conf.shared \/ missing = {}) /\ Proceed(AfterReconcile.firewalls, local)
           \/ ~conf.shared /\ \E r \in missing : CreateOrGet(r, "Firewalls", local)
           \/ ~conf.shared /\ GetFails

\* One iteration of Delete's loop that deletes a rule, or its end.  Rules are
\* deleted by name, whoever created them.
deleteFirewalls ==
    /\ pc = "DeleteFirewalls"
    /\ UNCHANGED todo
    /\ LET present == FirewallRules \cap cloud
       IN  \/ (conf.shared \/ present = {}) /\ Proceed(AfterDelete.firewalls, local)
           \/ /\ ~conf.shared
              /\ \E r \in present : Delete(r, "DeleteFirewalls", "ClosePatch", local)

-----------------------------------------------------------------------------
(* subnets: a list, handled in the order of the spec                       *)

\* Faulty: in a shared VPC a missing subnet is passed over.
createOrGetSubnetsSkipsMissing ==
    /\ pc = "Subnets"
    /\ UNCHANGED todo
    /\ LET missing == {s \in SubnetNames : Subnet(s) \notin cloud}
       IN  \/ (missing = {} \/ conf.shared) /\ Proceed(AfterReconcile.subnets, local)
           \/ /\ ~conf.shared
              /\ \E s \in FirstIn(missing) : CreateOrGet(Subnet(s), "Subnets", local)

\* A shared VPC's subnets must exist already.
createOrGetSubnets ==
    /\ pc = "Subnets"
    /\ UNCHANGED todo
    /\ LET missing == {s \in SubnetNames : Subnet(s) \notin cloud}
       IN  \/ missing = {} /\ Proceed(AfterReconcile.subnets, local)
           \/ missing # {} /\ conf.shared /\ Refuse
           \/ /\ ~conf.shared
              /\ \E s \in FirstIn(missing) : CreateOrGet(Subnet(s), "Subnets", local)
           \/ GetFails

\* Faulty: subnets are deleted by name, whoever created them.
deleteSubnetsByName ==
    /\ pc = "DeleteSubnets"
    /\ UNCHANGED todo
    /\ LET present == {s \in SubnetNames : Subnet(s) \in cloud}
       IN  \/ (conf.shared \/ present = {}) /\ Proceed(AfterDelete.subnets, local)
           \/ /\ ~conf.shared
              /\ \E s \in FirstIn(present) :
                    Delete(Subnet(s), "DeleteSubnets", "ClosePatch", local)

\* The first subnet of the list that exists: a subnet CAPG did not create ends
\* the whole service (return nil), not just the iteration.
deleteSubnets ==
    /\ pc = "DeleteSubnets"
    /\ UNCHANGED todo
    /\ LET present == {s \in SubnetNames : Subnet(s) \in cloud}
           done == \A s \in FirstIn(present) : ~CreatedByCAPG(Subnet(s))
       IN  \/ (conf.shared \/ done) /\ Proceed(AfterDelete.subnets, local)
           \/ /\ ~conf.shared /\ ~done
              /\ \E s \in FirstIn(present) :
                    Delete(Subnet(s), "DeleteSubnets", "ClosePatch", local)
           \/ ~conf.shared /\ GetFails

=============================================================================
