---------------------------- MODULE MCGCPCluster ----------------------------
(* Instances of GCPCluster for TLC. *)
EXTENDS GCPCluster, TLC

CONSTANTS a, b, c, s1, s2, fw

MCZones == {a, b}
\* c is a zone of another region.
MCDomains == {{}, {a, c}, {b, c}, {c}}
MCOneDomain == {{}}
MCHosts == {"", "user"}
MCNoHost == {""}
MCFirewalls == {fw}
MCSubnets == <<s1, s2>>
MCLBSubnets == {s2}

\* CAPG makes the network and its subnets.
OwnVPC == [lbType : LBTypes, shared : {FALSE}, foreign : {{}}]

\* Some of the network, the router and the subnets are there already.
AdoptedVPC == [lbType : {"Internal"}, shared : {FALSE}, foreign : SUBSET Adoptable \ {{}}]

\* The network belongs to a host project; it may lack what the cluster needs.
SharedVPC == [lbType : {"Internal"}, shared : {TRUE},
              foreign : {{}, {Network}, {Network, Subnet(s1)},
                         {Network, Subnet(s1), Subnet(s2)}}]

\* Both load balancers in a network of CAPG's, and the external one in an existing one.
ExternalVPC ==
    {[lbType |-> "InternalExternal", shared |-> FALSE, foreign |-> {}],
     [lbType |-> "External", shared |-> FALSE, foreign |-> {Network}]}

EveryVPC == ExternalVPC \cup AdoptedVPC \cup SharedVPC

ExternalOnly == [lbType : {"External"}, shared : {FALSE}, foreign : {{}}]

ZoneSymmetry == Permutations({a, b})

=============================================================================
