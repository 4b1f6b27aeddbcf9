------------------------ MODULE MCManagedMachinePool ------------------------
(* Instances of ManagedMachinePool for TLC. *)
EXTENDS ManagedMachinePool

ThreeZones == {1, 2, 3}

Asked(n, c, z, o, a) ==
    [size |-> n, config |-> c, locations |-> z, ordered |-> o, scaling |-> a]

\* All zones of the region or two of them, in GKE's order or another, autoscaled or of a
\* size that can be spread, and one that cannot.  Configuration 2 is sparse.
MCWants ==
    {Asked(6, 1, {}, TRUE, "off"), Asked(3, 1, {}, TRUE, "off"),
     Asked(6, 1, {1, 2}, TRUE, "off"), Asked(6, 2, {}, TRUE, "unset"),
     Asked(6, 1, {1, 2}, FALSE, "off"), Asked(3, 2, {1, 2}, TRUE, "off")}

=============================================================================
