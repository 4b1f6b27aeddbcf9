---------------------------- MODULE MCGCPMachine ----------------------------
(* Instances of GCPMachine for TLC. *)
EXTENDS GCPMachine

TwoZones == {1, 2}

OneZone == {1}

\* A control plane machine that follows the cluster's failure domains.
UnpinnedMachine == [controlPlane : {TRUE}, failureDomain : {0}]

PinnedMachines == [controlPlane : BOOLEAN, failureDomain : {1}]

\* The same, and one that stays in the first zone.
ControlPlanes == [controlPlane : {TRUE}, failureDomain : {0, 1}]

=============================================================================
