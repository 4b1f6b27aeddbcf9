-------------------------- MODULE MCGCPMachinePool --------------------------
(* Instances of GCPMachinePool for TLC. *)
EXTENDS GCPMachinePool

TwoZones == {1, 2}

\* A pool with a failure domain, one that follows the cluster, and one with two
\* failure domains, which the controller refuses.
MCPools == {{1}, {}, {1, 2}}

\* The cluster moves between zones.
MCDomains == {{1}, {2}}

=============================================================================
