----------------------- MODULE ClusterInfrastructure -----------------------
(***************************************************************************)
(* What the machines of a cluster see of its GCPCluster and of the         *)
(* controller behind it: the failure domains in its status and the control *)
(* plane instance groups, one per zone.  GCPCluster implements this        *)
(* specification; GCPMachine runs against it.                              *)
(***************************************************************************)
CONSTANT Zones

VARIABLES
    cluster,  \* the GCPCluster: exists, deleting, fds
    groups    \* zones with a control plane instance group

cvars == <<cluster, groups>>

NoCluster == [exists |-> FALSE, deleting |-> FALSE, fds |-> {}]

CInit ==
    /\ cluster = [exists |-> TRUE, deleting |-> FALSE, fds |-> {}]
    /\ groups = {}

\* The status gets the zones of spec.failureDomains, before or after their groups
\* are created.
SetDomains ==
    /\ cluster.exists
    /\ \E d \in SUBSET Zones : cluster' = [cluster EXCEPT !.fds = d]
    /\ UNCHANGED groups

CreateGroup ==
    /\ cluster.exists
    /\ \E z \in Zones : groups' = groups \cup {z}
    /\ UNCHANGED cluster

RequestDelete ==
    /\ cluster.exists /\ ~cluster.deleting
    /\ cluster' = [exists |-> TRUE, deleting |-> TRUE, fds |-> cluster.fds]
    /\ UNCHANGED groups

\* Groups go only once deletion has been asked for.
DeleteGroup ==
    /\ cluster.deleting \/ ~cluster.exists
    /\ \E z \in groups : groups' = groups \ {z}
    /\ UNCHANGED cluster

\* The object goes; groups may be left behind.
Disappear ==
    /\ cluster.exists
    /\ cluster' = NoCluster
    /\ UNCHANGED groups

CNext == SetDomains \/ CreateGroup \/ RequestDelete \/ DeleteGroup \/ Disappear

CSpec == CInit /\ [][CNext]_cvars

=============================================================================
