-------------------------- MODULE MCManagedCluster --------------------------
(* Instances of ManagedCluster for TLC. *)
EXTENDS ManagedCluster

=============================================================================
