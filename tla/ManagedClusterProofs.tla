------------------------ MODULE ManagedClusterProofs ------------------------
(***************************************************************************)
(* TLAPS proofs about ManagedCluster, for every set of configurations and  *)
(* every bound on faults and edits: its types, with the bound on how often *)
(* a GKE cluster is made, that both finalizers guard what they are for,    *)
(* and that the network outlives the GKE cluster that is in it.            *)
(***************************************************************************)
EXTENDS ManagedCluster, TLAPS

CNames == {"Finalizer", "Cluster", "Kubeconfig"}

NoCPStatus == [ready |-> FALSE, deleting |-> "absent"]

\* The facts about each of the two objects and its passes.
MCR == INSTANCE ManagedObjectProofs WITH obj <- mc, pass <- mcPass,
        NoWant <- 0, NoSpec <- 0, NoStatus <- FALSE,
        Creating <- {"Services"}, Removing <- {"Dependencies", "DeleteServices"}

CPR == INSTANCE ManagedObjectProofs WITH obj <- cp, pass <- cpPass,
        NoWant <- NoWant, NoSpec <- 0,
        NoStatus <- [ready |-> FALSE, deleting |-> "absent"],
        Creating <- {"Cluster", "Kubeconfig"}, Removing <- {"Delete"}

-----------------------------------------------------------------------------
(* Types                                                                   *)

MCObject == [exists : BOOLEAN, deleting : BOOLEAN, finalizer : BOOLEAN,
             want : {0}, spec : Endpoints, status : BOOLEAN]

CPObject == [exists : BOOLEAN, deleting : BOOLEAN, finalizer : BOOLEAN,
             want : Wants, spec : Endpoints, status : CPStatus]

MCSteps == {"Idle", "Finalizer", "Services", "Dependencies", "DeleteServices", "Close"}

CPSteps == {"Idle", "Finalizer", "Cluster", "Kubeconfig", "Delete", "Close"}

GKEs == [status : {"none", "PROVISIONING", "RUNNING", "RECONCILING", "STOPPING", "ERROR"},
         id : Endpoints, config : Configs, logging : {"none", "google"},
         monitoring : {"none", "google"}]

MCTypes ==
    /\ mc \in MCObject /\ mcPass \in [pc : MCSteps, local : MCObject]
    /\ shown \in [exists : BOOLEAN, endpoint : Endpoints]
    /\ todo \subseteq Services /\ net \subseteq Services

CPTypes ==
    /\ cp \in CPObject /\ cpPass \in [pc : CPSteps, local : CPObject]
    /\ provided \in BOOLEAN /\ gke \in GKEs /\ kubeconfig \in BOOLEAN

ClusterTypes ==
    /\ active \in BOOLEAN /\ autopilot \in Modes /\ pools \in {"none", "unmatched", "matched"}
    /\ edits \in 0..MaxEdits

FaultsType == faults \in 0..MaxFaults

LEMMA TypeParts == TypeOK <=> MCTypes /\ CPTypes /\ ClusterTypes /\ FaultsType
BY DEF TypeOK, MCTypes, CPTypes, ClusterTypes, FaultsType, MC!ObjectType,
       MC!PassType, CP!ObjectType, CP!PassType, MCObject, CPObject, MCSteps, CPSteps, GKEs

LEMMA EndpointsType == MaxEdits \in Nat /\ 0 \in Endpoints
BY ManagedBounds DEF Endpoints

LEMMA NoObjectTypes ==
    /\ MC!NoObject \in MCObject /\ MC!NoPass \in [pc : MCSteps, local : MCObject]
    /\ CP!NoObject \in CPObject /\ CP!NoPass \in [pc : CPSteps, local : CPObject]
<1>1. NoWant \in Wants
  BY ManagedConfigs DEF NoWant, Wants
<1>2. NoCPStatus \in CPStatus
  BY DEF NoCPStatus, CPStatus
<1>3. MC!NoObject \in MCObject
  BY EndpointsType DEF MC!NoObject, MCObject
<1>4. CP!NoObject \in CPObject
  BY <1>1, <1>2, EndpointsType DEF CP!NoObject, CPObject, NoCPStatus
<1> QED BY <1>3, <1>4 DEF MC!NoPass, CP!NoPass, MCSteps, CPSteps

LEMMA TypedObjects ==
    TypeOK => /\ MCR!Typed({0}, Endpoints, BOOLEAN)
              /\ CPR!Typed(Wants, Endpoints, CPStatus)
<1> SUFFICES ASSUME TypeOK
             PROVE  /\ MCR!Typed({0}, Endpoints, BOOLEAN)
                    /\ CPR!Typed(Wants, Endpoints, CPStatus)
  OBVIOUS
<1>1. NoWant \in Wants
  BY ManagedConfigs DEF NoWant, Wants
<1>2. NoCPStatus \in CPStatus
  BY DEF NoCPStatus, CPStatus
<1>3. MCTypes /\ CPTypes
  BY TypeParts
<1>4. MCR!Typed({0}, Endpoints, BOOLEAN)
  BY <1>3, EndpointsType DEF MCTypes, MCObject, MCR!Typed, MCR!Objects
<1>5. CPR!Typed(Wants, Endpoints, CPStatus)
  BY <1>1, <1>2, <1>3, EndpointsType
     DEF CPTypes, CPObject, CPR!Typed, CPR!Objects, NoCPStatus
<1> QED BY <1>4, <1>5

LEMMA CountTypes ==
    ASSUME TypeOK
    PROVE  /\ MC!Fault \/ CP!Fault => FaultsType'
           /\ Edit => edits' \in 0..MaxEdits
BY ManagedBounds DEF TypeOK, FaultsType, MC!Fault, CP!Fault, Edit

-----------------------------------------------------------------------------
(* The ways a step of a pass ends                                          *)

\* The pass of the GCPManagedCluster goes on, or returns.
MCGoes(next, t) ==
    /\ mcPass' = [pc |-> next, local |-> t]
    /\ UNCHANGED mc
    /\ MC!Fault \/ UNCHANGED faults

CPGoes(next, t) ==
    /\ cpPass' = [pc |-> next, local |-> t]
    /\ UNCHANGED cp
    /\ CP!Fault \/ UNCHANGED faults

LEMMA Goes ==
    ASSUME NEW next, NEW t
    PROVE  /\ MC!Go(next, t) => MCGoes(next, t)
           /\ MC!Return(t) \/ MC!CallFails(t) => MCGoes("Close", t)
           /\ CP!Go(next, t) => CPGoes(next, t)
           /\ CP!Return(t) \/ CP!CallFails(t) => CPGoes("Close", t)
BY DEF MC!Go, MC!Return, MC!CallFails, MCGoes, CP!Go, CP!Return, CP!CallFails, CPGoes

\* What a step of the GCPManagedCluster's services does to its pass.
MCStep ==
    \/ \E next \in {"Services", "Close"}, t \in {mcPass.local,
              [mcPass.local EXCEPT !.status = TRUE, !.spec = shown.endpoint]} :
          mcPass.pc = "Services" /\ MCGoes(next, t)
    \/ mcPass.pc = "Dependencies"
          /\ \E next \in {"DeleteServices", "Close"} : MCGoes(next, mcPass.local)
    \/ mcPass.pc = "DeleteServices"
          /\ \E next \in {"DeleteServices", "Close"} : MCGoes(next, mcPass.local)
    \/ /\ mcPass.pc = "DeleteServices" /\ todo = {} /\ net' = net
       /\ MCGoes("Close", [mcPass.local EXCEPT !.finalizer = FALSE])

MCService ==
    \/ \E s \in Services : reconcileService(s)
    \/ reconcileServiceFails \/ reconcileEnds
    \/ awaitDependencies
    \/ \E s \in Services : deleteService(s)
    \/ deleteServiceFails \/ deleteEnds

LEMMA MCServiceStep ==
    ASSUME MCService
    PROVE  MCStep /\ MCFrame
<1>1. ASSUME NEW s \in Services, reconcileService(s) PROVE MCStep /\ MCFrame
  BY <1>1, Goes DEF reconcileService, MC!At, MCStep
<1>2. CASE reconcileServiceFails
  BY <1>2, Goes DEF reconcileServiceFails, MC!At, MCStep
<1>3. CASE reconcileEnds
  BY <1>3, Goes DEF reconcileEnds, MC!At, MCStep
<1>4. CASE awaitDependencies
  BY <1>4, Goes DEF awaitDependencies, MC!At, MCStep
<1>5. ASSUME NEW s \in Services, deleteService(s) PROVE MCStep /\ MCFrame
  BY <1>5, Goes DEF deleteService, MC!At, MCStep
<1>6. CASE deleteServiceFails
  BY <1>6, Goes DEF deleteServiceFails, MC!At, MCStep
<1>7. CASE deleteEnds
  BY <1>7, Goes DEF deleteEnds, MC!At, MCStep
<1> QED BY <1>1, <1>2, <1>3, <1>4, <1>5, <1>6, <1>7 DEF MCService

\* A copy of the control plane that differs in what the controller reports only, and
\* does not call the GKE cluster deleted when the pass did not find it so.
Reported ==
    {t \in CPObject : /\ t.finalizer = scope.finalizer /\ t.deleting = scope.deleting
                      /\ t.status.deleting \in {scope.status.deleting, "present"}}

\* Only a deletion that did not find the GKE cluster has noted so.
MarkInv == scope.status.deleting = "Deleted" => gke.status = "none"

\* What a step of the control plane's service does to its pass.
CPStep ==
    \/ /\ cpPass.pc \in {"Cluster", "Kubeconfig", "Delete"}
       /\ \E t \in Reported : CPGoes("Close", t)
    \/ cpPass.pc = "Cluster" /\ CPGoes("Kubeconfig", scope)
    \/ /\ cpPass.pc = "Delete" /\ gke.status = "none" /\ gke' = gke
       /\ \E t \in CPObject : /\ ~t.finalizer /\ t.deleting = scope.deleting
                              /\ CPGoes("Close", t)

CPService ==
    \/ createCluster \/ updateCluster \/ observeCluster \/ reconcileKubeconfig
    \/ deleteCluster

LEMMA Reports ==
    ASSUME TypeOK
    PROVE  /\ scope \in Reported
           /\ \A b \in BOOLEAN : Ready(b) \in Reported
           /\ Deleting("present") \in Reported
           /\ [Ready(FALSE) EXCEPT !.status.deleting = "present"] \in Reported
           /\ [Ready(TRUE) EXCEPT !.spec = gke.id] \in Reported
           /\ MarkInv /\ gke.status # "none" => Released(scope) \in Reported
<1>0. scope \in CPObject /\ gke.id \in Endpoints
  BY TypeParts DEF CPTypes, scope, GKEs
<1>1. scope.status \in CPStatus
  BY <1>0 DEF CPObject
<1>2. ASSUME NEW u \in CPStatus, u.deleting \in {scope.status.deleting, "present"}
      PROVE  [scope EXCEPT !.status = u] \in Reported
  BY <1>0, <1>2 DEF CPObject, Reported
<1>3. ASSUME NEW b \in BOOLEAN
      PROVE  /\ Ready(b) = [scope EXCEPT !.status = [scope.status EXCEPT !.ready = b]]
             /\ Ready(b) \in Reported
  <2>1. Ready(b) = [scope EXCEPT !.status = [scope.status EXCEPT !.ready = b]]
    BY <1>0 DEF Ready, CPObject
  <2>2. /\ [scope.status EXCEPT !.ready = b] \in CPStatus
        /\ [scope.status EXCEPT !.ready = b].deleting = scope.status.deleting
    BY <1>1 DEF CPStatus
  <2> QED BY <1>2, <2>1, <2>2
<1>4. Deleting("present") \in Reported
  <2>1. Deleting("present")
           = [scope EXCEPT !.status = [scope.status EXCEPT !.deleting = "present"]]
    BY <1>0 DEF Deleting, CPObject
  <2>2. /\ [scope.status EXCEPT !.deleting = "present"] \in CPStatus
        /\ [scope.status EXCEPT !.deleting = "present"].deleting = "present"
    BY <1>1 DEF CPStatus
  <2> QED BY <1>2, <2>1, <2>2
<1>5. [Ready(FALSE) EXCEPT !.status.deleting = "present"] \in Reported
  <2>1. Ready(FALSE) \in Reported
    BY <1>3
  <2>2. Ready(FALSE) \in CPObject /\ Ready(FALSE).status \in CPStatus
    BY <2>1 DEF Reported, CPObject
  <2>3. [Ready(FALSE) EXCEPT !.status.deleting = "present"]
           = [Ready(FALSE) EXCEPT !.status = [Ready(FALSE).status EXCEPT !.deleting = "present"]]
    BY <2>2 DEF CPObject
  <2>4. /\ [Ready(FALSE).status EXCEPT !.deleting = "present"] \in CPStatus
        /\ [Ready(FALSE).status EXCEPT !.deleting = "present"].deleting = "present"
    BY <2>2 DEF CPStatus
  <2> QED BY <2>1, <2>3, <2>4 DEF Reported, CPObject
<1>6. [Ready(TRUE) EXCEPT !.spec = gke.id] \in Reported
  <2>1. Ready(TRUE) \in Reported
    BY <1>3
  <2> QED BY <1>0, <2>1 DEF Reported, CPObject
<1>7. ASSUME MarkInv, gke.status # "none"
      PROVE  Released(scope) \in Reported
  <2>1. scope.status.deleting # "Deleted"
    BY <1>7 DEF MarkInv
  <2> QED BY <1>0, <2>1 DEF Released, Reported, CPObject
<1>8. scope \in Reported
  BY <1>0 DEF Reported
<1> QED BY <1>3, <1>4, <1>5, <1>6, <1>7, <1>8

LEMMA ReleasedGone ==
    ASSUME TypeOK
    PROVE  /\ Released(Deleting("Deleted")) \in CPObject
           /\ ~Released(Deleting("Deleted")).finalizer
           /\ Released(Deleting("Deleted")).deleting = scope.deleting
<1>0. scope \in CPObject /\ scope.status \in CPStatus
  BY TypeParts DEF CPTypes, scope, CPObject
<1>1. Deleting("Deleted")
           = [scope EXCEPT !.status = [scope.status EXCEPT !.deleting = "Deleted"]]
  BY <1>0 DEF Deleting, CPObject
<1>2. /\ [scope.status EXCEPT !.deleting = "Deleted"] \in CPStatus
      /\ [scope.status EXCEPT !.deleting = "Deleted"].deleting = "Deleted"
  BY <1>0 DEF CPStatus
<1>3. /\ Deleting("Deleted") \in CPObject /\ Deleting("Deleted").status.deleting = "Deleted"
      /\ Deleting("Deleted").deleting = scope.deleting
  BY <1>0, <1>1, <1>2 DEF CPObject
<1> HIDE DEF Deleting
<1> QED BY <1>3 DEF Released, CPObject

LEMMA CPServiceStep ==
    ASSUME TypeOK, MarkInv, CPService
    PROVE  CPStep /\ CPFrame
<1> USE DEF CPStep
<1>1. CASE createCluster
  BY <1>1, Goes, Reports DEF createCluster, CP!At
<1>2. CASE updateCluster
  BY <1>2, Goes, Reports DEF updateCluster, CP!At
<1>3. CASE observeCluster
  BY <1>3, Goes, Reports DEF observeCluster, CP!At
<1>4. CASE reconcileKubeconfig
  BY <1>4, Goes, Reports DEF reconcileKubeconfig, CP!At
<1>5. CASE deleteCluster
  <2>1. CASE gke.status = "none" /\ CP!Return(Released(Deleting("Deleted"))) /\ UNCHANGED gke
    <3>1. CPGoes("Close", Released(Deleting("Deleted")))
      BY <2>1, Goes
    <3> QED BY <1>5, <2>1, <3>1, ReleasedGone DEF deleteCluster, CP!At
  <2>2. CASE gke.status # "none" /\ CP!Return(Released(scope))
    BY <1>5, <2>2, Goes, Reports DEF deleteCluster, CP!At
  <2>3. CASE \/ CP!Return(Deleting("present"))
             \/ CP!Return([Ready(FALSE) EXCEPT !.status.deleting = "present"])
             \/ CP!CallFails(Deleting("present")) \/ CP!CallFails(scope)
    BY <1>5, <2>3, Goes, Reports DEF deleteCluster, CP!At
  <2> QED BY <1>5, <2>1, <2>2, <2>3 DEF deleteCluster
<1> QED BY <1>1, <1>2, <1>3, <1>4, <1>5 DEF CPService

-----------------------------------------------------------------------------
(* The GKE cluster                                                         *)

Live == gke.status \notin {"none", "STOPPING"}

\* A GKE cluster is made again only after somebody deleted it, which is an edit: once
\* its own controller has deleted it, the control plane is deleted and no pass is
\* behind that.
IdInv ==
    /\ gke.id <= edits + 1
    /\ (cp.exists /\ ~cp.deleting) \/ cpPass.pc \in CNames => gke.id <= edits \/ Live

\* How the GKE cluster may change: it is made, does something else while it lives, is
\* deleted by somebody or by the control plane's controller, or goes.
GKEMoves ==
    \/ gke' = gke
    \/ /\ cpPass.pc = "Cluster" /\ gke.status = "none"
       /\ gke'.status = "PROVISIONING" /\ gke'.id = gke.id + 1
    \/ gke'.id = gke.id /\ Live /\ Live' /\ gke.status # "none" /\ gke'.status # "none"
    \/ gke'.id = gke.id /\ Live /\ gke'.status = "STOPPING" /\ (Edit \/ cpPass.pc = "Delete")
    \/ gke'.id = gke.id /\ gke.status = "STOPPING" /\ gke'.status = "none"

LEMMA NewClusterType ==
    ASSUME TypeOK, IdInv, cpPass.pc = "Cluster", gke.status = "none"
    PROVE  /\ NewCluster \in GKEs
           /\ NewCluster.status = "PROVISIONING" /\ NewCluster.id = gke.id + 1
<1>1. scope \in CPObject /\ gke \in GKEs /\ edits \in 0..MaxEdits
  BY TypeParts DEF CPTypes, ClusterTypes, scope
<1>2. scope.want \in Wants /\ gke.id \in Endpoints
  BY <1>1 DEF CPObject, GKEs
<1>3. gke.id + 1 \in Endpoints
  BY <1>1, <1>2, ManagedBounds DEF IdInv, Live, CNames, Endpoints
<1>4. /\ scope.want.config \in Configs
      /\ Service(scope.want.logging) \in {"none", "google"}
      /\ Service(scope.want.monitoring) \in {"none", "google"}
  BY <1>2 DEF Wants, Service
<1> QED BY <1>3, <1>4 DEF NewCluster, GKEs

LEMMA UpdatedClusterType ==
    ASSUME TypeOK
    PROVE  /\ UpdatedCluster \in GKEs
           /\ UpdatedCluster.status = "RECONCILING" /\ UpdatedCluster.id = gke.id
<1>1. scope \in CPObject /\ gke \in GKEs
  BY TypeParts DEF CPTypes, scope
<1>2. scope.want \in Wants
  BY <1>1 DEF CPObject
<1>3. scope.want.config \in Configs
  BY <1>2 DEF Wants
<1>4. DesiredLogging \in {"none", "google"}
  <2>1. CASE Differs("monitoring")
    BY <1>2, <2>1 DEF DesiredLogging, Differs, Wants
  <2>2. CASE ~Differs("monitoring") /\ Differs("logging")
    BY <1>2, <2>2 DEF DesiredLogging, Differs, Wants
  <2>3. CASE ~Differs("monitoring") /\ ~Differs("logging")
    BY <1>1, <2>3 DEF DesiredLogging, GKEs
  <2> QED BY <2>1, <2>2, <2>3
<1> HIDE DEF DesiredLogging
<1> QED BY <1>1, <1>3, <1>4 DEF UpdatedCluster, GKEs

LEMMA StatusTypes ==
    ASSUME TypeOK,
           NEW st \in {"none", "PROVISIONING", "RUNNING", "RECONCILING", "STOPPING", "ERROR"}
    PROVE  /\ [gke EXCEPT !.status = st] \in GKEs
           /\ [gke EXCEPT !.status = st].status = st
           /\ [gke EXCEPT !.status = st].id = gke.id
BY TypeParts DEF CPTypes, GKEs

LEMMA NextGKE ==
    ASSUME TypeOK, IdInv, [Next]_vars
    PROVE  GKEMoves /\ gke' \in GKEs
<1> USE DEF GKEMoves
<1>0. gke \in GKEs
  BY TypeParts DEF CPTypes
<1>1. CASE gke' = gke
  BY <1>0, <1>1
<1>2. CASE createCluster
  <2>1. cpPass.pc = "Cluster" /\ gke.status = "none" /\ gke' \in {gke, NewCluster}
    BY <1>2 DEF createCluster, CP!At
  <2> QED BY <1>0, <2>1, NewClusterType
<1>3. CASE updateCluster
  <2>1. gke.status = "RUNNING" /\ gke' \in {gke, UpdatedCluster}
    BY <1>3 DEF updateCluster
  <2> QED BY <1>0, <2>1, UpdatedClusterType DEF Live
<1>4. CASE deleteCluster
  <2>1. /\ cpPass.pc = "Delete"
        /\ gke' = gke \/ (gke.status \in {"RUNNING", "ERROR"} /\ gke' = DeletedCluster)
    BY <1>4 DEF deleteCluster, CP!At
  <2> QED BY <1>0, <2>1, StatusTypes DEF Live, DeletedCluster
<1>5. CASE GKEFinishes
  BY <1>5, StatusTypes DEF GKEFinishes, Live
<1>6. CASE GKEChanges
  <2>1. CASE gke.status \in {"PROVISIONING", "RUNNING", "RECONCILING"}
             /\ gke' = [gke EXCEPT !.status = "ERROR"]
    BY <2>1, StatusTypes DEF Live
  <2>2. CASE gke.status = "RUNNING" /\ Edit /\ gke' \in {[gke EXCEPT !.status = st] :
                                               st \in {"RECONCILING", "STOPPING"}}
    BY <2>2, StatusTypes DEF Live
  <2>3. CASE gke.status = "ERROR" /\ gke' = [gke EXCEPT !.status = "RUNNING"]
    BY <2>3, StatusTypes DEF Live
  <2> QED BY <1>6, <2>1, <2>2, <2>3 DEF GKEChanges
<1> QED BY <1>1, <1>2, <1>3, <1>4, <1>5, <1>6
        DEF Next, ClusterController, ControlPlaneController, Environment, ReconcileCluster,
            AddClusterFinalizer, reconcileService, reconcileServiceFails, reconcileEnds,
            awaitDependencies, deleteService, deleteServiceFails, deleteEnds, CloseCluster,
            MCFrame, cpVars, ReconcileControlPlane, AddControlPlaneFinalizer,
            observeCluster, reconcileKubeconfig, CloseControlPlane, Crash, Release, Pause,
            UserDeletes, UserEdits, PoolsChange, vars

-----------------------------------------------------------------------------
(* Steps keep the types                                                    *)

\* What the API server and AddFinalizer write.
LEMMA WrittenTypes ==
    ASSUME TypeOK
    PROVE  /\ [mc EXCEPT !.deleting = TRUE] \in MCObject
           /\ [mc EXCEPT !.finalizer = TRUE] \in MCObject
           /\ [mcPass.local EXCEPT !.finalizer = TRUE] \in MCObject
           /\ [mcPass.local EXCEPT !.finalizer = FALSE] \in MCObject
           /\ [mcPass.local EXCEPT !.status = TRUE, !.spec = shown.endpoint] \in MCObject
           /\ MC!Metadata(MC!Status(mc)) \in MCObject
           /\ MC!Metadata(mc) \in MCObject /\ MC!Status(mc) \in MCObject
           /\ [cp EXCEPT !.deleting = TRUE] \in CPObject
           /\ [cp EXCEPT !.finalizer = TRUE] \in CPObject
           /\ [cpPass.local EXCEPT !.finalizer = TRUE] \in CPObject
           /\ CP!Metadata(CP!Status(cp)) \in CPObject
           /\ CP!Metadata(cp) \in CPObject /\ CP!Status(cp) \in CPObject
           /\ \A w \in Wants : [cp EXCEPT !.want = w] \in CPObject
<1>0. /\ mc \in MCObject /\ mcPass.local \in MCObject /\ shown.endpoint \in Endpoints
      /\ cp \in CPObject /\ cpPass.local \in CPObject
  BY TypeParts DEF MCTypes, CPTypes
<1>1. /\ MC!Metadata(MC!Status(mc)) \in MCObject
      /\ MC!Metadata(mc) \in MCObject /\ MC!Status(mc) \in MCObject
  BY <1>0 DEF MC!Metadata, MC!Status, MCObject
<1>2. /\ CP!Metadata(CP!Status(cp)) \in CPObject
      /\ CP!Metadata(cp) \in CPObject /\ CP!Status(cp) \in CPObject
  BY <1>0 DEF CP!Metadata, CP!Status, CPObject
<1>3. /\ [mc EXCEPT !.deleting = TRUE] \in MCObject
      /\ [mc EXCEPT !.finalizer = TRUE] \in MCObject
      /\ [mcPass.local EXCEPT !.finalizer = TRUE] \in MCObject
      /\ [mcPass.local EXCEPT !.finalizer = FALSE] \in MCObject
      /\ [mcPass.local EXCEPT !.status = TRUE, !.spec = shown.endpoint] \in MCObject
  BY <1>0 DEF MCObject
<1>4. /\ [cp EXCEPT !.deleting = TRUE] \in CPObject
      /\ [cp EXCEPT !.finalizer = TRUE] \in CPObject
      /\ [cpPass.local EXCEPT !.finalizer = TRUE] \in CPObject
      /\ \A w \in Wants : [cp EXCEPT !.want = w] \in CPObject
  BY <1>0 DEF CPObject
<1> QED BY <1>1, <1>2, <1>3, <1>4

\* The steps of the GCPManagedCluster's controller.
LEMMA MCTypesKept ==
    ASSUME TypeOK, ClusterController
    PROVE  MCTypes' /\ FaultsType' /\ MCFrame
<1> USE DEF FaultsType
<1>0. MCTypes /\ CPTypes /\ FaultsType /\ mc \in MCObject
      /\ mcPass \in [pc : MCSteps, local : MCObject] /\ mcPass.local \in MCObject
  BY TypeParts DEF MCTypes
<1>1. CASE MCService
  <2>1. MCStep /\ MCFrame
    BY <1>1, MCServiceStep
  <2>2. \E next \in MCSteps, t \in MCObject : MCGoes(next, t)
    <3> HIDE DEF MCGoes
    <3> QED BY <1>0, <2>1, WrittenTypes DEF MCStep, MCSteps
  <2>3. mc' \in MCObject /\ mcPass' \in [pc : MCSteps, local : MCObject]
        /\ FaultsType'
    BY <1>0, <2>2, CountTypes DEF MCGoes
  <2>4. todo' \subseteq Services /\ net' \subseteq Services /\ shown' = shown
    BY <1>0, <1>1 DEF MCService, reconcileService, reconcileServiceFails, reconcileEnds,
       awaitDependencies, deleteService, deleteServiceFails, deleteEnds, MCTypes, Services
  <2> QED BY <1>0, <2>1, <2>3, <2>4 DEF MCTypes
<1>2. CASE ReconcileCluster
  BY <1>0, <1>2 DEF ReconcileCluster, MC!Begin, MCTypes, MCSteps, CPTypes, CPObject
<1>3. CASE AddClusterFinalizer
  <2> DEFINE copy == [mcPass.local EXCEPT !.finalizer = TRUE]
             patched == [mc EXCEPT !.finalizer = TRUE]
  <2>1. copy \in MCObject /\ patched \in MCObject
    BY WrittenTypes
  <2>2. /\ mcPass' \in {[pc |-> "Services", local |-> copy], [pc |-> "Close", local |-> copy]}
        /\ mc' \in {mc, patched} /\ (MC!Fault \/ UNCHANGED faults)
        /\ UNCHANGED <<shown, todo, net>> /\ MCFrame
    BY <1>3 DEF AddClusterFinalizer, MC!AddFinalizer, MC!Return, MC!Go
  <2> HIDE DEF copy, patched
  <2> QED BY <1>0, <2>1, <2>2, CountTypes DEF MCTypes, MCSteps
<1>4. CASE CloseCluster
  <2>1. /\ mc' \in MCObject /\ mcPass' \in [pc : MCSteps, local : MCObject]
        /\ MC!Fault \/ UNCHANGED faults
    BY <1>0, <1>4, WrittenTypes, NoObjectTypes DEF CloseCluster, MC!Close, MC!Settle
  <2> QED BY <1>0, <1>4, <2>1, EndpointsType, CountTypes DEF CloseCluster, MCTypes
<1> QED BY <1>1, <1>2, <1>3, <1>4 DEF ClusterController, MCService

\* The steps of the control plane's controller.
LEMMA CPTypesKept ==
    ASSUME TypeOK, MarkInv, ControlPlaneController, gke' \in GKEs
    PROVE  CPTypes' /\ FaultsType' /\ CPFrame
<1> USE DEF FaultsType
<1>0. MCTypes /\ CPTypes /\ FaultsType /\ cp \in CPObject
      /\ cpPass \in [pc : CPSteps, local : CPObject] /\ cpPass.local \in CPObject
      /\ provided \in BOOLEAN /\ kubeconfig \in BOOLEAN
  BY TypeParts DEF CPTypes
<1>1. CASE CPService
  <2>1. CPStep /\ CPFrame
    BY <1>1, CPServiceStep
  <2>2. \E next \in CPSteps, t \in CPObject : CPGoes(next, t)
    <3> HIDE DEF CPGoes
    <3> QED BY <1>0, <2>1 DEF CPStep, CPSteps, Reported, scope
  <2>3. cp' \in CPObject /\ cpPass' \in [pc : CPSteps, local : CPObject]
        /\ FaultsType'
    BY <1>0, <2>2, CountTypes DEF CPGoes
  <2>4. provided' = provided /\ kubeconfig' \in BOOLEAN
    BY <1>0, <1>1 DEF CPService, createCluster, updateCluster, observeCluster,
       reconcileKubeconfig, deleteCluster
  <2> QED BY <1>0, <2>1, <2>3, <2>4 DEF CPTypes
<1>2. CASE ReconcileControlPlane
  BY <1>0, <1>2 DEF ReconcileControlPlane, CP!Begin, CPTypes, CPSteps, MCTypes, MCObject
<1>3. CASE AddControlPlaneFinalizer
  <2> DEFINE copy == [cpPass.local EXCEPT !.finalizer = TRUE]
             patched == [cp EXCEPT !.finalizer = TRUE]
  <2>1. copy \in CPObject /\ patched \in CPObject
    BY WrittenTypes
  <2>2. /\ cpPass' \in {[pc |-> "Cluster", local |-> copy], [pc |-> "Close", local |-> copy]}
        /\ cp' \in {cp, patched} /\ (CP!Fault \/ UNCHANGED faults)
        /\ UNCHANGED <<provided, gke, kubeconfig>> /\ CPFrame
    BY <1>3 DEF AddControlPlaneFinalizer, CP!AddFinalizer, CP!Return, CP!Go
  <2> HIDE DEF copy, patched
  <2> QED BY <1>0, <2>1, <2>2, CountTypes DEF CPTypes, CPSteps
<1>4. CASE CloseControlPlane
  <2>1. /\ cp' \in CPObject /\ cpPass' \in [pc : CPSteps, local : CPObject]
        /\ CP!Fault \/ UNCHANGED faults
    BY <1>0, <1>4, WrittenTypes, NoObjectTypes DEF CloseControlPlane, CP!Close, CP!Settle
  <2> QED BY <1>0, <1>4, <2>1, CountTypes DEF CloseControlPlane, CPTypes
<1> QED BY <1>1, <1>2, <1>3, <1>4 DEF ControlPlaneController, CPService

LEMMA NextType ==
    ASSUME TypeOK, IdInv, MarkInv, [Next]_vars
    PROVE  TypeOK'
<1>0. gke' \in GKEs
  BY NextGKE
<1>1. MCTypes /\ CPTypes /\ ClusterTypes /\ FaultsType
  BY TypeParts
<1>2. CASE ClusterController
  <2>1. MCTypes' /\ CPTypes' /\ ClusterTypes' /\ FaultsType'
    BY <1>1, <1>2, MCTypesKept DEF MCFrame, cpVars, clusterVars, CPTypes, ClusterTypes
  <2> QED BY <2>1, TypeParts, PTL
<1>3. CASE ControlPlaneController
  <2>1. MCTypes' /\ CPTypes' /\ ClusterTypes' /\ FaultsType'
    BY <1>0, <1>1, <1>3, CPTypesKept DEF CPFrame, mcVars, clusterVars, MCTypes, ClusterTypes
  <2> QED BY <2>1, TypeParts, PTL
<1>4. CASE Environment
  <2>1. CASE Crash
    <3>1. MCTypes' /\ CPTypes' /\ ClusterTypes' /\ FaultsType'
      BY <1>1, <2>1, NoObjectTypes, EndpointsType, CountTypes
         DEF Crash, MC!Stop, CP!Stop, clusterVars, MCTypes, CPTypes, ClusterTypes
    <3> QED BY <3>1, TypeParts, PTL
  <2>2. CASE Release \/ Pause \/ PoolsChange
    <3>1. MCTypes' /\ CPTypes' /\ ClusterTypes' /\ FaultsType'
      BY <1>1, <2>2, CountTypes
         DEF Release, Pause, PoolsChange, FaultsType, mcVars, cpVars, MCTypes, CPTypes, ClusterTypes
    <3> QED BY <3>1, TypeParts, PTL
  <2>3. CASE UserDeletes
    <3>1. mc' \in MCObject /\ cp' \in CPObject
      BY <1>1, <2>3, WrittenTypes, NoObjectTypes
         DEF UserDeletes, MC!UserDelete, CP!UserDelete, MC!Settle, CP!Settle, MCTypes, CPTypes
    <3>2. MCTypes' /\ CPTypes' /\ ClusterTypes' /\ FaultsType'
      BY <1>1, <2>3, <3>1 DEF UserDeletes, FaultsType, clusterVars, MCTypes, CPTypes, ClusterTypes
    <3> QED BY <3>2, TypeParts, PTL
  <2>4. CASE UserEdits
    <3>1. cp' \in CPObject
      BY <2>4, WrittenTypes DEF UserEdits, CP!UserEdit
    <3>2. MCTypes' /\ CPTypes' /\ ClusterTypes' /\ FaultsType'
      BY <1>1, <2>4, <3>1, CountTypes
         DEF UserEdits, FaultsType, mcVars, MCTypes, CPTypes, ClusterTypes
    <3> QED BY <3>2, TypeParts, PTL
  <2>5. CASE GKEFinishes \/ GKEChanges
    <3>1. MCTypes' /\ CPTypes' /\ ClusterTypes' /\ FaultsType'
      BY <1>0, <1>1, <2>5, CountTypes
         DEF GKEFinishes, GKEChanges, FaultsType, mcVars, clusterVars, MCTypes, CPTypes, ClusterTypes
    <3> QED BY <3>1, TypeParts, PTL
  <2> QED BY <1>4, <2>1, <2>2, <2>3, <2>4, <2>5 DEF Environment
<1>5. CASE UNCHANGED vars
  <2>1. MCTypes' /\ CPTypes' /\ ClusterTypes' /\ FaultsType'
    BY <1>1, <1>5 DEF vars, FaultsType, mcVars, cpVars, clusterVars, MCTypes, CPTypes, ClusterTypes
  <2> QED BY <2>1, TypeParts, PTL
<1> QED BY <1>2, <1>3, <1>4, <1>5 DEF Next

-----------------------------------------------------------------------------
(* Both controllers are built on ManagedObject                             *)

LEMMA StepNamesDiffer == MCR!StepNames /\ CPR!StepNames
BY DEF MCR!StepNames, CPR!StepNames

LEMMA CPServiceFrame == CPService => UNCHANGED <<mc, mcPass>>
BY DEF CPService, createCluster, updateCluster, observeCluster, reconcileKubeconfig,
       deleteCluster, CPFrame, mcVars

\* What a pass of the GCPManagedCluster does, and when it drops the finalizer.
LEMMA MCNext ==
    ASSUME TypeOK, [Next]_vars
    PROVE  /\ MCR!Step
           /\ MCR!Drop /\ mcPass.local.finalizer =>
                 mcPass.pc = "DeleteServices" /\ todo = {} /\ net' = net
<1> USE DEF MCR!Step
<1>0. mcPass.local \in MCObject /\ mc \in MCObject
  BY TypeParts DEF MCTypes
<1>1. CASE UNCHANGED <<mc, mcPass>>
  BY <1>1 DEF MCR!Elsewhere, MCR!Drop
<1>2. CASE MCService
  <2>1. MCStep
    BY <1>2, MCServiceStep
  <2>2. ASSUME NEW next \in {"Services", "Close"}, NEW t \in {mcPass.local,
                   [mcPass.local EXCEPT !.status = TRUE, !.spec = shown.endpoint]},
               mcPass.pc = "Services", MCGoes(next, t)
        PROVE  MCR!Work /\ ~MCR!Drop
    <3>1. t.finalizer = mcPass.local.finalizer /\ t.deleting = mcPass.local.deleting
      BY <1>0, <2>2 DEF MCObject
    <3>2. mcPass'.pc = next /\ mcPass'.local = t /\ UNCHANGED mc
      BY <2>2 DEF MCGoes
    <3> QED BY <2>2, <3>1, <3>2 DEF MCR!Work, MCR!Drop
  <2>3. ASSUME mcPass.pc \in {"Dependencies", "DeleteServices"},
               NEW next \in {"DeleteServices", "Close"}, MCGoes(next, mcPass.local)
        PROVE  MCR!Work /\ ~(MCR!Drop /\ mcPass.local.finalizer)
    BY <2>3 DEF MCGoes, MCR!Work, MCR!Drop
  <2>4. ASSUME mcPass.pc = "DeleteServices",
               MCGoes("Close", [mcPass.local EXCEPT !.finalizer = FALSE])
        PROVE  MCR!Drop
    <3> DEFINE t == [mcPass.local EXCEPT !.finalizer = FALSE]
    <3>1. ~t.finalizer /\ t.deleting = mcPass.local.deleting
      BY <1>0 DEF MCObject
    <3>2. MCGoes("Close", t)
      BY <2>4
    <3>3. mcPass'.pc = "Close" /\ mcPass'.local = t /\ UNCHANGED mc
      <4> HIDE DEF t
      <4> QED BY <3>2 DEF MCGoes
    <3>4. mcPass.pc = "DeleteServices"
      BY <2>4
    <3> HIDE DEF t
    <3> QED BY <3>1, <3>3, <3>4 DEF MCR!Drop
  <2> QED BY <2>1, <2>2, <2>3, <2>4 DEF MCStep
<1>3. CASE ReconcileCluster
  BY <1>3 DEF ReconcileCluster, MC!Begin, MC!At, MCR!Starts, MCR!At, MCR!Drop
<1>4. CASE AddClusterFinalizer
  <2>1. MCR!AddFinalizer("Services") /\ mcPass.pc = "Finalizer"
    BY <1>4 DEF AddClusterFinalizer, MC!AddFinalizer, MC!At, MC!Return, MC!Go, MC!Fault,
                MCR!AddFinalizer, MCR!At, MCR!Return, MCR!Go, MCR!Fault
  <2> QED BY <2>1 DEF MCR!Drop
<1>5. CASE CloseCluster
  <2>1. MCR!Close /\ mcPass.pc = "Close"
    BY <1>5 DEF CloseCluster, MC!Close, MC!At, MC!Settle, MC!Metadata, MC!Status,
                MC!NoObject, MC!NoPass, MC!Fault, MCR!Close, MCR!At, MCR!Settle,
                MCR!Metadata, MCR!Status, MCR!NoObject, MCR!NoPass, MCR!Fault
  <2> QED BY <2>1 DEF MCR!Drop
<1>6. CASE Crash
  BY <1>6 DEF Crash, MC!Stop, MC!NoPass, MC!NoObject, MCR!Stop, MCR!NoPass, MCR!NoObject,
              MCR!Drop
<1>7. CASE UserDeletes
  BY <1>7 DEF UserDeletes, MC!UserDelete, MC!Settle, MC!NoObject, MCR!UserDelete,
              MCR!Settle, MCR!NoObject, MCR!Elsewhere, MCR!Drop
<1> QED BY <1>1, <1>2, <1>3, <1>4, <1>5, <1>6, <1>7, CPServiceFrame
        DEF Next, ClusterController, MCService, ControlPlaneController, Environment,
            ReconcileControlPlane, AddControlPlaneFinalizer, CloseControlPlane, CPFrame,
            mcVars, Release, Pause, UserEdits, PoolsChange, GKEFinishes, GKEChanges, CPService,
            vars

\* What a pass of the control plane does, and when it drops the finalizer.
LEMMA CPNext ==
    ASSUME TypeOK, MarkInv, [Next]_vars
    PROVE  /\ CPR!Step
           /\ CPR!Drop /\ cpPass.local.finalizer =>
                 cpPass.pc = "Delete" /\ gke.status = "none" /\ gke' = gke
<1> USE DEF CPR!Step
<1>0. cpPass.local \in CPObject /\ cp \in CPObject
  BY TypeParts DEF CPTypes
<1>1. CASE UNCHANGED <<cp, cpPass>>
  BY <1>1 DEF CPR!Elsewhere, CPR!Drop
<1>2. CASE CPService
  <2>1. CPStep
    BY <1>2, CPServiceStep
  <2>2. ASSUME NEW t \in Reported, CPGoes("Close", t),
               cpPass.pc \in {"Cluster", "Kubeconfig", "Delete"}
        PROVE  CPR!Work /\ ~(CPR!Drop /\ cpPass.local.finalizer)
    <3>1. t.finalizer = cpPass.local.finalizer /\ t.deleting = cpPass.local.deleting
      BY <2>2 DEF Reported, scope
    <3> QED BY <2>2, <3>1 DEF CPGoes, CPR!Work, CPR!Drop
  <2>3. ASSUME cpPass.pc = "Cluster", CPGoes("Kubeconfig", scope)
        PROVE  CPR!Work /\ ~CPR!Drop
    BY <2>3 DEF CPGoes, scope, CPR!Work, CPR!Drop
  <2>4. ASSUME NEW t \in CPObject, ~t.finalizer, t.deleting = scope.deleting,
               CPGoes("Close", t), cpPass.pc = "Delete"
        PROVE  CPR!Drop
    BY <2>4 DEF CPGoes, scope, CPR!Drop
  <2> QED BY <2>1, <2>2, <2>3, <2>4 DEF CPStep
<1>3. CASE ReconcileControlPlane
  BY <1>3 DEF ReconcileControlPlane, CP!Begin, CP!At, CPR!Starts, CPR!At, CPR!Drop
<1>4. CASE AddControlPlaneFinalizer
  <2>1. cpPass.pc = "Finalizer"
        /\ CPR!AddFinalizer(IF provided THEN "Cluster" ELSE "Close")
    BY <1>4 DEF AddControlPlaneFinalizer, CP!AddFinalizer, CP!At, CP!Return, CP!Go,
                CP!Fault, CPR!AddFinalizer, CPR!At, CPR!Return, CPR!Go, CPR!Fault
  <2> QED BY <2>1 DEF CPR!Drop
<1>5. CASE CloseControlPlane
  <2>1. CPR!Close /\ cpPass.pc = "Close"
    BY <1>5 DEF CloseControlPlane, CP!Close, CP!At, CP!Settle, CP!Metadata, CP!Status,
                CP!NoObject, CP!NoPass, CP!Fault, CPR!Close, CPR!At, CPR!Settle,
                CPR!Metadata, CPR!Status, CPR!NoObject, CPR!NoPass, CPR!Fault
  <2> QED BY <2>1 DEF CPR!Drop
<1>6. CASE Crash
  BY <1>6 DEF Crash, CP!Stop, CP!NoPass, CP!NoObject, CPR!Stop, CPR!NoPass, CPR!NoObject,
              CPR!Drop
<1>7. CASE UserDeletes
  BY <1>7 DEF UserDeletes, CP!UserDelete, CP!Settle, CP!NoObject, CPR!UserDelete,
              CPR!Settle, CPR!NoObject, CPR!Elsewhere, CPR!Drop
<1>8. CASE UserEdits
  BY <1>8 DEF UserEdits, CP!UserEdit, CPR!UserEdit, CPR!Drop
<1>9. CASE ClusterController
  BY <1>1, <1>9, MCTypesKept DEF MCFrame, cpVars
<1> QED BY <1>1, <1>2, <1>3, <1>4, <1>5, <1>6, <1>7, <1>8, <1>9
        DEF Next, CPService, ControlPlaneController, Environment, cpVars,
            Release, Pause, PoolsChange, GKEFinishes, GKEChanges, vars

ManagedInvs == MCR!ManagedInv /\ CPR!ManagedInv

LEMMA ManagedInvsInit == Init => ManagedInvs
<1> SUFFICES ASSUME Init PROVE ManagedInvs
  OBVIOUS
<1>1. mc = MCR!Created(0) /\ mcPass = MCR!NoPass
  BY DEF Init, MC!Created, MC!NoObject, MC!NoPass, MCR!Created, MCR!NoObject, MCR!NoPass
<1>2. cp = CPR!Created(NoWant) /\ cpPass = CPR!NoPass
  BY DEF Init, CP!Created, CP!NoObject, CP!NoPass, CPR!Created, CPR!NoObject, CPR!NoPass
<1> QED BY <1>1, <1>2, StepNamesDiffer, MCR!ManagedInit, CPR!ManagedInit DEF ManagedInvs

LEMMA ManagedInvsStep ==
    ASSUME TypeOK, TypeOK', MarkInv, ManagedInvs, [Next]_vars
    PROVE  ManagedInvs'
<1>1. /\ MCR!Typed({0}, Endpoints, BOOLEAN)
      /\ CPR!Typed(Wants, Endpoints, CPStatus)
  BY TypedObjects
<1>2. /\ MCR!Typed({0}, Endpoints, BOOLEAN)'
      /\ CPR!Typed(Wants, Endpoints, CPStatus)'
  BY TypedObjects, PTL
<1>3. MCR!ManagedInv'
  BY <1>1, <1>2, StepNamesDiffer, MCNext, MCR!ManagedStep DEF ManagedInvs
<1>4. CPR!ManagedInv'
  BY <1>1, <1>2, StepNamesDiffer, CPNext, CPR!ManagedStep DEF ManagedInvs
<1> QED BY <1>3, <1>4 DEF ManagedInvs

-----------------------------------------------------------------------------
(* The inductive invariant                                                 *)

\* What each finalizer guards: it is dropped only by a pass that has found, or made, all
\* of it gone.
GuardInv ==
    /\ net # {} => mc.finalizer
    /\ gke.status # "none" => cp.finalizer
    /\ mcPass.pc \in {"Dependencies", "DeleteServices"} => net \subseteq todo
    /\ MCR!Dropping => net = {}
    /\ CPR!Dropping => gke.status = "none"

\* Deleted is noted only of a control plane that is deleted and has no GKE cluster; no
\* pass that could make one is on its way.
DeletedInv ==
    cp.status.deleting = "Deleted" \/ scope.status.deleting = "Deleted" =>
        /\ gke.status = "none" /\ cpPass.pc \notin CNames
        /\ cp.deleting \/ ~cp.exists

\* The network is whole when anybody believes so and the control plane is there; passes
\* that take it down begin after the control plane is gone.
NetInv ==
    /\ cp.exists /\ (mc.status \/ mcPass.local.status \/ provided) => net = Services
    /\ mcPass.pc \in {"Finalizer", "Services"} => Services \ todo \subseteq net
    /\ mcPass.pc = "Dependencies" /\ ~shown.exists => ~cp.exists
    /\ mcPass.pc = "DeleteServices" => ~cp.exists
    /\ cpPass.pc = "Cluster" => provided
    /\ gke.status # "none" => net = Services

Inv == TypeOK /\ IdInv /\ ManagedInvs /\ DeletedInv /\ GuardInv /\ NetInv

-----------------------------------------------------------------------------
(* What a step of the GCPManagedCluster's controller does                  *)

\* The network grows and shrinks at the steps that are there for it, and nobody comes to
\* believe that it is whole unless a pass made all of it.
MCEffects ==
    /\ \/ net' = net
       \/ mcPass.pc = "Services" /\ net \subseteq net'
       \/ mcPass.pc = "DeleteServices" /\ net' \subseteq net
    /\ mc'.status => mc.status \/ mcPass.local.status
    /\ mcPass'.local.status => mc.status \/ mcPass.local.status
                                 \/ (mcPass.pc = "Services" /\ todo = {})
    /\ mcPass'.pc \in {"Finalizer", "Services"} => Services \ todo' \subseteq net'
    /\ mcPass'.pc \in {"Dependencies", "DeleteServices"} => net' \subseteq todo'
    /\ mcPass'.pc = "Dependencies" =>
            shown'.exists = cp.exists \/ UNCHANGED <<mcPass, shown>>
    /\ mcPass'.pc = "DeleteServices" =>
            mcPass.pc = "DeleteServices" \/ (mcPass.pc = "Dependencies" /\ ~shown.exists)

\* What Close leaves of the status.
LEMMA MCCloseStatus ==
    ASSUME TypeOK, MC!Close
    PROVE  mc'.status => mc.status \/ mcPass.local.status
<1>1. MCR!Typed({0}, Endpoints, BOOLEAN)
  BY TypedObjects
<1>2. MCR!Close
  BY DEF MC!Close, MC!At, MC!Settle, MC!Metadata, MC!Status, MC!NoObject, MC!NoPass, MC!Fault,
         MCR!Close, MCR!At, MCR!Settle, MCR!Metadata, MCR!Status, MCR!NoObject, MCR!NoPass,
         MCR!Fault
<1> QED BY <1>1, <1>2, MCR!CloseStatus

LEMMA NextMCEffects ==
    ASSUME TypeOK, GuardInv, NetInv, [Next]_vars
    PROVE  MCEffects
<1> USE DEF MCEffects
<1>0. /\ mc \in MCObject /\ mcPass.local \in MCObject /\ shown.endpoint \in Endpoints
      /\ todo \subseteq Services /\ net \subseteq Services
  BY TypeParts DEF MCTypes
<1>1. CASE UNCHANGED <<mc, mcPass, shown, todo, net>>
  BY <1>1 DEF GuardInv, NetInv
<1>2. CASE ReconcileCluster
  BY <1>0, <1>2 DEF ReconcileCluster, MC!Begin
<1>3. CASE AddClusterFinalizer
  <2> DEFINE t == [mcPass.local EXCEPT !.finalizer = TRUE]
  <2>1. t.status = mcPass.local.status
    BY <1>0 DEF MCObject
  <2>2. /\ mcPass.pc = "Finalizer" /\ UNCHANGED <<shown, todo, net>>
        /\ mcPass' \in {[pc |-> "Services", local |-> t], [pc |-> "Close", local |-> t]}
        /\ mc' \in {mc, [mc EXCEPT !.finalizer = TRUE]}
    BY <1>3 DEF AddClusterFinalizer, MC!AddFinalizer, MC!At, MC!Return, MC!Go
  <2>3. mc'.status = mc.status
    BY <1>0, <2>2 DEF MCObject
  <2>4. mcPass'.pc \in {"Services", "Close"} /\ mcPass'.local = t
    <3> HIDE DEF t
    <3> QED BY <2>2
  <2>5. Services \ todo' \subseteq net'
    BY <2>2 DEF NetInv
  <2> HIDE DEF t
  <2> QED BY <2>1, <2>2, <2>3, <2>4, <2>5
<1>4. CASE CloseCluster
  <2>1. mcPass'.pc = "Idle" /\ mcPass'.local.status = FALSE /\ net' = net
    BY <1>4 DEF CloseCluster, MC!Close, MC!NoPass, MC!NoObject
  <2> QED BY <1>4, <2>1, MCCloseStatus DEF CloseCluster
<1>5. ASSUME NEW s \in Services, reconcileService(s) PROVE MCEffects
  BY <1>0, <1>5 DEF reconcileService, MC!At, MC!Go, NetInv
<1>6. CASE reconcileServiceFails
  BY <1>0, <1>6 DEF reconcileServiceFails, MC!At, MC!Return, MC!Go, MC!CallFails
<1>7. CASE reconcileEnds
  <2>1. mcPass.pc = "Services" /\ todo = {} /\ mcPass'.pc = "Close" /\ UNCHANGED <<mc, net>>
    BY <1>7 DEF reconcileEnds, MC!At, MC!Return, MC!Go
  <2> QED BY <2>1
<1>8. CASE awaitDependencies
  BY <1>0, <1>8 DEF awaitDependencies, MC!At, MC!Return, MC!Go, MC!CallFails, GuardInv
<1>9. ASSUME NEW s \in Services, deleteService(s) PROVE MCEffects
  BY <1>0, <1>9 DEF deleteService, MC!At, MC!Go, GuardInv
<1>10. CASE deleteServiceFails
  BY <1>0, <1>10 DEF deleteServiceFails, MC!At, MC!Return, MC!Go, MC!CallFails
<1>11. CASE deleteEnds
  <2> DEFINE t == [mcPass.local EXCEPT !.finalizer = FALSE]
  <2>1. t.status = mcPass.local.status
    BY <1>0 DEF MCObject
  <2>2. mcPass' = [pc |-> "Close", local |-> t] /\ UNCHANGED <<mc, net>>
    BY <1>11 DEF deleteEnds, MC!Return, MC!Go
  <2>3. mcPass'.pc = "Close" /\ mcPass'.local = t
    <3> HIDE DEF t
    <3> QED BY <2>2
  <2> HIDE DEF t
  <2> QED BY <2>1, <2>2, <2>3
<1>12. CASE Crash
  <2>1. mcPass'.pc = "Idle" /\ mcPass'.local.status = FALSE /\ UNCHANGED <<mc, net>>
    BY <1>12 DEF Crash, MC!Stop, MC!NoPass, MC!NoObject
  <2> QED BY <2>1
<1>13. CASE UserDeletes
  <2>1. UNCHANGED <<mcPass, shown, todo, net>>
    BY <1>13 DEF UserDeletes
  <2>2. mc'.status => mc.status
    BY <1>0, <1>13 DEF UserDeletes, MC!UserDelete, MC!Settle, MC!NoObject, MCObject
  <2> QED BY <2>1, <2>2 DEF GuardInv, NetInv
<1> QED BY <1>1, <1>2, <1>3, <1>4, <1>5, <1>6, <1>7, <1>8, <1>9, <1>10, <1>11, <1>12, <1>13
        DEF Next, ClusterController, ControlPlaneController, Environment,
            ReconcileControlPlane, AddControlPlaneFinalizer, createCluster, updateCluster,
            observeCluster, reconcileKubeconfig, deleteCluster, CloseControlPlane, CPFrame,
            mcVars, Release, Pause, UserEdits, PoolsChange, GKEFinishes, GKEChanges, vars

-----------------------------------------------------------------------------
(* What a step of the control plane's controller does                      *)

\* Deleted is noted by a deletion that does not find the GKE cluster, and a pass goes on to
\* make a cluster only if it found the network provided.
CPEffects ==
    /\ cp'.status.deleting = "Deleted" =>
            cp.status.deleting = "Deleted" \/ scope.status.deleting = "Deleted"
    /\ scope'.status.deleting = "Deleted" =>
            \/ cp.status.deleting = "Deleted" \/ scope.status.deleting = "Deleted"
            \/ cpPass.pc = "Delete" /\ gke.status = "none" /\ gke' = gke
    /\ provided' => provided \/ (mc.status /\ cp.exists)
    /\ cpPass'.pc = "Cluster" => provided'

LEMMA CPCloseStatus ==
    ASSUME TypeOK, CP!Close
    PROVE  cp'.status.deleting \in {cp.status.deleting, scope.status.deleting, "absent"}
<1>1. CPR!Typed(Wants, Endpoints, CPStatus)
  BY TypedObjects
<1>2. CPR!Close
  BY DEF CP!Close, CP!At, CP!Settle, CP!Metadata, CP!Status, CP!NoObject, CP!NoPass, CP!Fault,
         CPR!Close, CPR!At, CPR!Settle, CPR!Metadata, CPR!Status, CPR!NoObject, CPR!NoPass,
         CPR!Fault
<1>3. cp'.status \in {cp.status, cpPass.local.status, [ready |-> FALSE, deleting |-> "absent"]}
  BY <1>1, <1>2, CPR!CloseStatus
<1> QED BY <1>3 DEF scope

LEMMA NextCPEffects ==
    ASSUME TypeOK, MarkInv, NetInv, [Next]_vars
    PROVE  CPEffects
<1> USE DEF CPEffects
<1>0. cp \in CPObject /\ scope \in CPObject
  BY TypeParts DEF CPTypes, scope
<1>1. CASE UNCHANGED <<cp, cpPass, provided>>
  BY <1>1 DEF NetInv, scope
<1>2. CASE ReconcileControlPlane
  BY <1>2 DEF ReconcileControlPlane, CP!Begin, scope
<1>3. CASE AddControlPlaneFinalizer
  <2> DEFINE t == [scope EXCEPT !.finalizer = TRUE]
  <2>1. t.status = scope.status
    BY <1>0 DEF CPObject
  <2>2. /\ cpPass' \in {[pc |-> IF provided THEN "Cluster" ELSE "Close", local |-> t],
                         [pc |-> "Close", local |-> t]}
        /\ cp' \in {cp, [cp EXCEPT !.finalizer = TRUE]} /\ UNCHANGED provided
    BY <1>3 DEF AddControlPlaneFinalizer, CP!AddFinalizer, CP!Return, CP!Go, scope
  <2>3. cp'.status = cp.status
    BY <1>0, <2>2 DEF CPObject
  <2>4. scope' = t /\ (cpPass'.pc = "Cluster" => provided)
    <3>1. cpPass'.local = t /\ (cpPass'.pc = "Cluster" => provided)
      <4> HIDE DEF t
      <4> QED BY <2>2
    <3> QED BY <3>1 DEF scope
  <2> HIDE DEF t
  <2> QED BY <2>1, <2>2, <2>3, <2>4
<1>4. CASE CPService
  <2>1. CPStep /\ provided' = provided
    BY <1>4, CPServiceStep DEF CPService, createCluster, updateCluster, observeCluster,
       reconcileKubeconfig, deleteCluster
  <2>2. ASSUME NEW t \in Reported, CPGoes("Close", t) PROVE CPEffects
    <3>1. cpPass'.pc = "Close" /\ scope' = t /\ UNCHANGED cp
      BY <2>2 DEF CPGoes, scope
    <3> QED BY <2>1, <2>2, <3>1 DEF Reported
  <2>3. CASE cpPass.pc = "Cluster" /\ CPGoes("Kubeconfig", scope)
    <3>1. cpPass'.pc = "Kubeconfig" /\ scope' = scope /\ UNCHANGED cp
      BY <2>3 DEF CPGoes, scope
    <3> QED BY <2>1, <3>1
  <2>4. ASSUME cpPass.pc = "Delete", gke.status = "none", gke' = gke,
               NEW t \in CPObject, CPGoes("Close", t)
        PROVE  CPEffects
    <3>1. cpPass'.pc = "Close" /\ UNCHANGED cp
      BY <2>4 DEF CPGoes
    <3> QED BY <2>1, <2>4, <3>1
  <2> QED BY <2>1, <2>2, <2>3, <2>4 DEF CPStep
<1>5. CASE CloseControlPlane
  <2>1. cpPass'.pc = "Idle" /\ scope'.status.deleting = "absent" /\ provided' = FALSE
    BY <1>5 DEF CloseControlPlane, CP!Close, CP!NoPass, CP!NoObject, scope
  <2> QED BY <1>5, <2>1, CPCloseStatus DEF CloseControlPlane
<1>6. CASE Crash
  <2>1. /\ cpPass'.pc = "Idle" /\ scope'.status.deleting = "absent" /\ provided' = FALSE
        /\ UNCHANGED cp
    BY <1>6 DEF Crash, CP!Stop, CP!NoPass, CP!NoObject, scope
  <2> QED BY <2>1
<1>7. CASE UserDeletes \/ UserEdits
  <2>1. UNCHANGED <<cpPass, provided>>
    BY <1>7 DEF UserDeletes, UserEdits
  <2>2. cp'.status \in {cp.status, NoCPStatus}
    BY <1>0, <1>7 DEF UserDeletes, UserEdits, CP!UserDelete, CP!UserEdit, CP!Settle,
                      CP!NoObject, CPObject, NoCPStatus
  <2>3. cp'.status.deleting \in {cp.status.deleting, "absent"}
    BY <2>2 DEF NoCPStatus
  <2> QED BY <2>1, <2>3 DEF NetInv, scope
<1>8. CASE ClusterController
  BY <1>1, <1>8, MCTypesKept DEF MCFrame, cpVars
<1> QED BY <1>1, <1>2, <1>3, <1>4, <1>5, <1>6, <1>7, <1>8
        DEF Next, ControlPlaneController, CPService, Environment, cpVars,
            Release, Pause, PoolsChange, GKEFinishes, GKEChanges, vars

-----------------------------------------------------------------------------
(* The invariant holds                                                     *)

\* How the two objects move, and where their passes may be next.
CPMoves ==
    /\ CPR!ObjectMoves
    /\ cpPass'.pc \in CNames => cpPass.pc \in CNames \/ (cp.exists /\ ~cp.deleting)

LEMMA NextMoves ==
    ASSUME TypeOK, MarkInv, ManagedInvs, [Next]_vars
    PROVE  MCR!ObjectMoves /\ CPMoves
<1>1. MCR!Typed({0}, Endpoints, BOOLEAN) /\ CPR!Typed(Wants, Endpoints, CPStatus)
  BY TypedObjects
<1>2. MCR!Step /\ CPR!Step
  BY MCNext, CPNext
<1>3. MCR!ObjectMoves
  BY <1>1, <1>2, StepNamesDiffer, MCR!StepMoves DEF ManagedInvs
<1>4. CPR!ObjectMoves
  BY <1>1, <1>2, StepNamesDiffer, CPR!StepMoves DEF ManagedInvs
<1>5. ASSUME cpPass'.pc \in CNames, cpPass.pc \notin CNames
      PROVE  cp.exists /\ ~cp.deleting
  <2>1. CASE CPR!Starts
    BY <1>5, <2>1 DEF CPR!Starts, CNames
  <2>2. CASE CPR!Work \/ CPR!Drop
    BY <1>5, <2>2 DEF CPR!Work, CPR!Drop, CNames
  <2>3. CASE CPR!Stop \/ CPR!Close
    BY <1>5, <2>3 DEF CPR!Stop, CPR!Close, CPR!NoPass, CNames
  <2>4. ASSUME NEW next, CPR!AddFinalizer(next) PROVE FALSE
    BY <1>5, <2>4 DEF CPR!AddFinalizer, CPR!At, CNames
  <2> QED BY <1>2, <1>5, <2>1, <2>2, <2>3, <2>4 DEF CPR!Step, CPR!Elsewhere
<1> QED BY <1>3, <1>4, <1>5 DEF CPMoves

\* A control plane that is gone does not come back.
LEMMA CPStays ==
    ASSUME CPMoves, cp \in CPObject, cp' \in CPObject
    PROVE  cp'.exists => cp.exists
BY CPR!NoObjectFields DEF CPMoves, CPR!ObjectMoves

LEMMA TypePartsNext ==
    ASSUME TypeOK'
    PROVE  MCTypes' /\ CPTypes' /\ ClusterTypes'
BY TypeParts, PTL

LEMMA EditsGrow ==
    ASSUME TypeOK, [Next]_vars
    PROVE  edits' \in {edits, edits + 1}
<1>1. CASE ClusterController
  BY <1>1, MCTypesKept DEF MCFrame, clusterVars
<1>2. CASE ControlPlaneController
  BY <1>2 DEF ControlPlaneController, ReconcileControlPlane, AddControlPlaneFinalizer,
     createCluster, updateCluster, observeCluster, reconcileKubeconfig, deleteCluster,
     CloseControlPlane, CPFrame, clusterVars
<1> QED BY <1>1, <1>2 DEF Next, Environment, Crash, Release, Pause, UserDeletes, UserEdits,
           PoolsChange, GKEFinishes, GKEChanges, Edit, clusterVars, vars

\* An endpoint is never beyond its bound, whatever happens to the GKE cluster.
LEMMA IdStep ==
    ASSUME Inv, TypeOK', MarkInv, [Next]_vars
    PROVE  IdInv'
<1> USE DEF Inv, IdInv
<1>0. /\ gke.id \in Nat /\ gke'.id \in Nat /\ edits \in Nat /\ edits' \in Nat
      /\ cp \in CPObject /\ cp' \in CPObject
  BY TypeParts, TypePartsNext, ManagedBounds DEF CPTypes, ClusterTypes, GKEs, Endpoints
<1>1. edits' \in {edits, edits + 1} /\ (Edit => edits' = edits + 1)
  BY EditsGrow DEF Edit
<1>2. CPMoves /\ GKEMoves
  BY NextMoves, NextGKE
<1>3. (cp'.exists /\ ~cp'.deleting) \/ cpPass'.pc \in CNames
         => (cp.exists /\ ~cp.deleting) \/ cpPass.pc \in CNames
  BY <1>0, <1>2 DEF CPMoves, CPR!ObjectMoves, CPObject, CPR!NoObject
<1>4. CASE gke'.id = gke.id /\ (Live => Live')
  BY <1>0, <1>1, <1>3, <1>4
<1>5. CASE /\ cpPass.pc = "Cluster" /\ gke.status = "none"
           /\ gke'.status = "PROVISIONING" /\ gke'.id = gke.id + 1
  BY <1>0, <1>1, <1>5 DEF Live, CNames
<1>6. CASE gke'.id = gke.id /\ gke'.status = "STOPPING" /\ Edit
  BY <1>0, <1>1, <1>6
<1>7. CASE gke'.id = gke.id /\ gke'.status = "STOPPING" /\ cpPass.pc = "Delete"
  <2>1. cp.deleting \/ ~cp.exists
    BY <1>7 DEF ManagedInvs, CPR!ManagedInv, CPR!PassInv
  <2>2. ~((cp.exists /\ ~cp.deleting) \/ cpPass.pc \in CNames)
    BY <1>7, <2>1 DEF CNames
  <2> QED BY <1>0, <1>1, <1>3, <1>7, <2>2
<1>8. gke' = gke \/ (gke.status = "STOPPING" /\ gke'.id = gke.id) => gke'.id = gke.id /\ (Live => Live')
  BY DEF Live
<1> QED BY <1>2, <1>4, <1>5, <1>6, <1>7, <1>8 DEF GKEMoves

LEMMA DeletedStep ==
    ASSUME Inv, TypeOK', MarkInv, [Next]_vars
    PROVE  DeletedInv'
<1> USE DEF Inv, DeletedInv
<1>0. cp \in CPObject /\ cp' \in CPObject
  BY TypeParts, TypePartsNext DEF CPTypes
<1>1. CPMoves /\ GKEMoves /\ CPEffects
  BY NextMoves, NextGKE, NextCPEffects
<1>2. SUFFICES ASSUME cp'.status.deleting = "Deleted" \/ scope'.status.deleting = "Deleted"
               PROVE  /\ gke'.status = "none" /\ cpPass'.pc \notin CNames
                      /\ cp'.deleting \/ ~cp'.exists
  OBVIOUS
<1>3. /\ gke.status = "none" /\ cpPass.pc \notin CNames
      /\ cp.deleting \/ ~cp.exists
  BY <1>1, <1>2 DEF CPEffects, CNames, ManagedInvs, CPR!ManagedInv, CPR!PassInv
<1>4. gke'.status = "none"
  BY <1>1, <1>3 DEF GKEMoves, CNames, Live
<1>5. cpPass'.pc \notin CNames
  BY <1>1, <1>3 DEF CPMoves
<1>6. cp'.deleting \/ ~cp'.exists
  BY <1>0, <1>1, <1>3 DEF CPMoves, CPR!ObjectMoves, CPObject, CPR!NoObject
<1> QED BY <1>4, <1>5, <1>6

\* Neither finalizer goes while what it guards is there.
LEMMA GuardStep ==
    ASSUME Inv, TypeOK', MarkInv, [Next]_vars
    PROVE  GuardInv'
<1> USE DEF Inv, GuardInv
<1>0. /\ mc \in MCObject /\ mc' \in MCObject /\ cp \in CPObject /\ cp' \in CPObject
      /\ net \subseteq Services /\ net' \subseteq Services
  BY TypeParts, TypePartsNext DEF MCTypes, CPTypes
<1>1. MCR!ObjectMoves /\ CPMoves /\ GKEMoves /\ MCEffects
  BY NextMoves, NextGKE, NextMCEffects
<1>2. /\ MCR!Typed({0}, Endpoints, BOOLEAN) /\ CPR!Typed(Wants, Endpoints, CPStatus)
  BY TypedObjects
<1>3. MCR!Dropping' => net' = {}
  <2> SUFFICES ASSUME MCR!Dropping' PROVE net' = {}
    OBVIOUS
  <2>1. CASE MCR!Dropping /\ UNCHANGED mcPass
    BY <1>1, <2>1 DEF MCEffects, MCR!Dropping, MCR!At
  <2>2. CASE MCR!Drop
    <3>1. mcPass.local.finalizer
      BY <2>2 DEF MCR!Drop, ManagedInvs, MCR!ManagedInv, MCR!PassInv
    <3>2. mcPass.pc = "DeleteServices" /\ todo = {} /\ net' = net
      BY <2>2, <3>1, MCNext
    <3> QED BY <3>2
  <2> QED BY <1>2, <2>1, <2>2, MCNext, StepNamesDiffer, MCR!DropsAtEnd DEF ManagedInvs
<1>4. CPR!Dropping' => gke'.status = "none"
  <2> SUFFICES ASSUME CPR!Dropping' PROVE gke'.status = "none"
    OBVIOUS
  <2>1. CASE CPR!Dropping /\ UNCHANGED cpPass
    BY <1>1, <2>1 DEF GKEMoves, CPR!Dropping, CPR!At, Live
  <2>2. CASE CPR!Drop
    <3>1. cpPass.local.finalizer
      BY <2>2 DEF CPR!Drop, ManagedInvs, CPR!ManagedInv, CPR!PassInv
    <3>2. gke.status = "none" /\ gke' = gke
      BY <2>2, <3>1, CPNext
    <3> QED BY <3>2
  <2> QED BY <1>2, <2>1, <2>2, CPNext, StepNamesDiffer, CPR!DropsAtEnd DEF ManagedInvs
<1>5. net' # {} => mc'.finalizer
  <2> SUFFICES ASSUME net' # {} PROVE mc'.finalizer
    OBVIOUS
  <2>1. mc.finalizer /\ ~MCR!Dropping
    BY <1>1 DEF MCEffects, ManagedInvs, MCR!ManagedInv, MCR!PassInv, MCR!Dropping, MCR!At
  <2> QED BY <1>0, <1>1, <2>1 DEF MCR!ObjectMoves, MCObject, ManagedInvs, MCR!ManagedInv,
                                  MCR!ObjectInv
<1>6. gke'.status # "none" => cp'.finalizer
  <2> SUFFICES ASSUME gke'.status # "none" PROVE cp'.finalizer
    OBVIOUS
  <2>1. cp.finalizer /\ ~CPR!Dropping
    BY <1>1 DEF GKEMoves, Live, ManagedInvs, CPR!ManagedInv, CPR!PassInv, CPR!Dropping, CPR!At
  <2> QED BY <1>0, <1>1, <2>1 DEF CPMoves, CPR!ObjectMoves, CPObject, ManagedInvs,
                                  CPR!ManagedInv, CPR!ObjectInv
<1>7. mcPass'.pc \in {"Dependencies", "DeleteServices"} => net' \subseteq todo'
  BY <1>1 DEF MCEffects
<1> QED BY <1>3, <1>4, <1>5, <1>6, <1>7

\* The network stays whole while the control plane is there.
LEMMA NetStep ==
    ASSUME Inv, TypeOK', MarkInv, [Next]_vars
    PROVE  NetInv'
<1> USE DEF Inv, NetInv
<1>0. /\ cp \in CPObject /\ cp' \in CPObject /\ mc \in MCObject /\ mcPass.local \in MCObject
      /\ net \subseteq Services /\ net' \subseteq Services
  BY TypeParts, TypePartsNext DEF MCTypes, CPTypes
<1>1. CPMoves /\ GKEMoves /\ MCEffects /\ CPEffects
  BY NextMoves, NextGKE, NextMCEffects, NextCPEffects
<1>2. cp'.exists => cp.exists
  BY <1>0, <1>1, CPStays
<1>3. cp.exists => net \subseteq net'
  BY <1>1 DEF MCEffects
<1>4. cp'.exists /\ (mc'.status \/ mcPass'.local.status \/ provided') => net' = Services
  <2> SUFFICES ASSUME cp'.exists, mc'.status \/ mcPass'.local.status \/ provided'
               PROVE  net = Services
    BY <1>0, <1>2, <1>3
  <2>1. \/ mc.status \/ mcPass.local.status \/ provided
        \/ mcPass.pc = "Services" /\ todo = {}
    BY <1>1 DEF MCEffects, CPEffects
  <2> QED BY <1>0, <1>2, <2>1
<1>5. mcPass'.pc \in {"Finalizer", "Services"} => Services \ todo' \subseteq net'
  BY <1>1 DEF MCEffects
<1>6. mcPass'.pc = "Dependencies" /\ ~shown'.exists => ~cp'.exists
  BY <1>1, <1>2 DEF MCEffects
<1>7. mcPass'.pc = "DeleteServices" => ~cp'.exists
  BY <1>1, <1>2 DEF MCEffects
<1>8. cpPass'.pc = "Cluster" => provided'
  BY <1>1 DEF CPEffects
<1>9. gke'.status # "none" => net' = Services
  <2> SUFFICES ASSUME gke'.status # "none" PROVE net' = Services
    OBVIOUS
  <2>1. cp.exists
    BY <1>1 DEF GKEMoves, Live, GuardInv, ManagedInvs, CPR!ManagedInv, CPR!PassInv, CPR!ObjectInv
  <2>2. net = Services
    BY <1>1, <2>1 DEF GKEMoves, Live
  <2> QED BY <1>0, <1>3, <2>1, <2>2
<1> QED BY <1>4, <1>5, <1>6, <1>7, <1>8, <1>9

LEMMA InvInit == Init => Inv
<1> SUFFICES ASSUME Init PROVE Inv
  OBVIOUS
<1>1. MC!Created(0) \in MCObject /\ MC!Created(0).finalizer = FALSE /\ MC!Created(0).status = FALSE
  BY EndpointsType DEF MC!Created, MC!NoObject, MCObject
<1>2. NoWant \in Wants
  BY ManagedConfigs DEF NoWant, Wants
<1>3. CP!Created(NoWant) \in CPObject /\ CP!Created(NoWant).status.deleting = "absent"
  BY <1>2, NoObjectTypes DEF CP!Created, CP!NoObject, CPObject
<1>4. gke \in GKEs /\ gke.status = "none" /\ gke.id = 0
  BY EndpointsType, ManagedConfigs DEF Init, NoGKE, GKEs
<1>5. MCTypes /\ CPTypes /\ ClusterTypes /\ FaultsType
  <2>1. MCTypes
    BY <1>1, NoObjectTypes, EndpointsType DEF Init, MCTypes
  <2>2. CPTypes
    BY <1>3, <1>4, NoObjectTypes DEF Init, CPTypes
  <2>3. /\ active = FALSE /\ autopilot \in Modes /\ pools = "none"
        /\ edits = 0 /\ faults = 0
    BY DEF Init
  <2>4. 0 \in 0..MaxEdits /\ 0 \in 0..MaxFaults
    BY ManagedBounds
  <2> QED BY <2>1, <2>2, <2>3, <2>4 DEF ClusterTypes, FaultsType
<1>6. TypeOK
  BY <1>5, TypeParts
<1>7. /\ mcPass.pc = "Idle" /\ cpPass.pc = "Idle"
      /\ mcPass.local.status = FALSE /\ scope.status.deleting = "absent"
  BY DEF Init, MC!NoPass, CP!NoPass, MC!NoObject, CP!NoObject, scope
<1>8. IdInv
  BY <1>4, <1>7 DEF Init, IdInv
<1>9. DeletedInv
  BY <1>3, <1>7 DEF Init, DeletedInv
<1>10. GuardInv
  BY <1>4, <1>7 DEF Init, GuardInv, MCR!Dropping, MCR!At, CPR!Dropping, CPR!At
<1>11. NetInv
  BY <1>1, <1>4, <1>7 DEF Init, NetInv
<1> QED BY <1>6, <1>8, <1>9, <1>10, <1>11, ManagedInvsInit DEF Inv

LEMMA InvStep == Inv /\ [Next]_vars => Inv'
<1> SUFFICES ASSUME Inv, [Next]_vars PROVE Inv'
  OBVIOUS
<1>1. MarkInv
  BY DEF Inv, DeletedInv, MarkInv
<1>2. TypeOK'
  BY <1>1, NextType DEF Inv
<1>3. ManagedInvs'
  BY <1>1, <1>2, ManagedInvsStep DEF Inv
<1> QED BY <1>1, <1>2, <1>3, IdStep, DeletedStep, GuardStep, NetStep DEF Inv

LEMMA InvHolds == Spec => []Inv
BY InvInit, InvStep, PTL DEF Spec

-----------------------------------------------------------------------------
(* Theorems                                                                *)

\* Every variable keeps its type: in particular a GKE cluster is made at most once more
\* than users and GKE disturb it, whatever fails in the passes of the controllers.
THEOREM TypeCorrect == Spec => []TypeOK
<1>1. Inv => TypeOK
  BY DEF Inv
<1> QED BY <1>1, InvHolds, PTL

\* Both finalizers guard what the controllers made: the network is there only behind that
\* of the GCPManagedCluster, and the GKE cluster only behind that of the control plane,
\* although the decision to drop each is taken on a copy that may be old.
THEOREM FinalizersCorrect == Spec => []FinalizersGuard
<1>1. Inv => FinalizersGuard
  BY DEF Inv, GuardInv, FinalizersGuard, ManagedInvs, MCR!ManagedInv, MCR!ObjectInv,
         CPR!ManagedInv, CPR!ObjectInv
<1> QED BY <1>1, InvHolds, PTL

\* The network is whole whenever a pass of the control plane decides to make a GKE
\* cluster, and until that cluster is gone: the controllers' old readings of each other's
\* object never lead the one to take down what the other stands on.
THEOREM NetworkCorrect == Spec => []NetworkUnderCluster
<1>1. ASSUME Inv PROVE NetworkUnderCluster
  <2>1. cpPass.pc = "Cluster" => provided /\ cp.exists
    BY <1>1 DEF Inv, NetInv, ManagedInvs, CPR!ManagedInv, CPR!PassInv, CPR!ObjectInv
  <2> QED BY <1>1, <2>1 DEF Inv, NetInv, NetworkUnderCluster
<1> QED BY <1>1, InvHolds, PTL

=============================================================================
