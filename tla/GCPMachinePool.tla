--------------------------- MODULE GCPMachinePool ---------------------------
(***************************************************************************)
(* The GCPMachinePool controller (exp/controllers) with the instance       *)
(* template and instance group manager services it runs, for one pool of a *)
(* cluster.  Another pool of the cluster is part of the environment: its   *)
(* instance template carries the same ownership label.                     *)
(*                                                                         *)
(* What makes up an instance template (machine type, disks, labels, user   *)
(* data) is a number, its content; a template is named by a hash of its    *)
(* content, so the content stands for the name.  InstanceSpec says how a   *)
(* content comes about.                                                    *)
(***************************************************************************)
EXTENDS Naturals, FiniteSets

CONSTANTS
    Zones,      \* zones of the region
    Pools,      \* what MachinePool.spec.failureDomains may be
    Domains,    \* what the failure domains of the cluster may be
    Contents,   \* contents of an instance template
    Sizes,      \* numbers of replicas
    MaxFaults,  \* bound: failed calls and controller crashes
    MaxEdits    \* bound: pauses, new contents, sizes and cluster failure domains,
                \* GCPClusters that go

ASSUME PoolConfigs ==
    /\ IsFiniteSet(Zones) /\ Pools \subseteq SUBSET Zones
    /\ Domains \subseteq (SUBSET Zones) \ {{}}

ASSUME PoolNumbers ==
    /\ Contents \subseteq Nat \ {0} /\ 1 \in Contents
    /\ Sizes \subseteq Nat /\ 1 \in Sizes

ASSUME PoolBounds == MaxFaults \in Nat /\ MaxEdits \in Nat

VARIABLES
    \* the GCPMachinePool and its controller, see ObjectController; its spec is the
    \* length of spec.providerIDList
    obj, cache, queued, before, local, pc, failed, faults, edits,
    conf,       \* MachinePool.spec.failureDomains
    want,       \* what the MachinePool, the GCPMachinePool and the GCPCluster say
    plan,       \* what the running pass read of it
    templates,  \* contents of which the pool has an instance template
    mig,        \* the pool's instance group manager, per zone
    sibling     \* what the other pool has: nothing, a template, a group manager too

passVars == <<obj, cache, queued, before, local, pc, failed, faults, edits>>
cloudVars == <<templates, mig, sibling>>
vars == <<passVars, cloudVars, conf, want, plan>>

(* The conditions of the status are left out: no code of the provider reads   *)
(* them, and each follows from the step at which a pass ended.               *)
NoStatus == [ready |-> FALSE]

INSTANCE ObjectController WITH NoSpec <- 0

\* content 0: there is no bootstrap data secret yet.  fds {}: there is no GCPCluster, or
\* no longer.
NoPlan == [content |-> 0, size |-> 0, fds |-> {}]

NoMIG == [exists |-> FALSE, template |-> 0, size |-> 0, instances |-> 0]

MIGs == {z \in Zones : mig[z].exists}

Init ==
    /\ ObjectInit
    /\ conf \in Pools
    /\ want = [NoPlan EXCEPT !.size = 1]
    /\ plan = NoPlan
    /\ templates = {}
    /\ mig = [z \in Zones |-> NoMIG]
    /\ sibling = "absent"

-----------------------------------------------------------------------------
(* The scope                                                               *)

\* Zones: the failure domains of the MachinePool, or else those of the cluster.
ZonesIn(p) == IF conf # {} THEN conf ELSE p.fds

\* InstanceGroupManagerResourceName: a group manager has a single zone.
Zonal(p) == Cardinality(ZonesIn(p)) = 1

ZoneIn(p) == CHOOSE z \in ZonesIn(p) : TRUE

zone == ZoneIn(plan)

-----------------------------------------------------------------------------
(* The services.  A call that fails may have taken effect.                   *)

CallFrame == UNCHANGED <<conf, want, plan, sibling>>

\* GCP keeps a template that a group manager refers to.
InUse(c) == \E z \in MIGs : mig[z].template = c

\* Without bootstrap data the pass ends; the MachinePool's next event starts another.
\* Otherwise Get the template of the content, and Insert it when it is not found.
createOrGetInstanceTemplate ==
    /\ pc = "Template"
    /\ \/ /\ plan.content = 0
          /\ Return(FALSE, local)
          /\ UNCHANGED templates
       \/ /\ plan.content # 0
          /\ templates' = templates \cup {plan.content}
          /\ Continue("Manager", local)
       \/ /\ plan.content # 0
          /\ templates' \in {templates, templates \cup {plan.content}}
          /\ CallFails
    /\ UNCHANGED mig /\ CallFrame

\* ResourceTagConvert leaves out a tag that it cannot read, and the pass goes on with a
\* template of another content.
createOrGetUntagged ==
    /\ pc = "Template" /\ plan.content # 0
    /\ \E c \in Contents \ {plan.content} :
          /\ plan' = [plan EXCEPT !.content = c]
          /\ templates' = templates \cup {c}
    /\ Fault /\ pc' = "Manager"
    /\ UNCHANGED <<queued, local, failed, mig, conf, want, sibling>> /\ StepFrame

\* Faulty: the group manager is left as it is found.
createOrGetOnly ==
    /\ pc = "Manager" /\ Zonal(plan)
    /\ IF mig[zone].exists THEN UNCHANGED mig
       ELSE mig' = [mig EXCEPT ![zone] =
                        [exists |-> TRUE, template |-> plan.content,
                         size |-> plan.size, instances |-> 0]]
    /\ Continue("Instances", local)
    /\ UNCHANGED templates /\ CallFrame

\* A group manager is there already, or can be made of a template that is there.
Obtainable == Zonal(plan) /\ (mig[zone].exists \/ plan.content \in templates)

Obtained ==
    IF mig[zone].exists THEN mig
    ELSE [mig EXCEPT ![zone] = [exists |-> TRUE, template |-> plan.content,
                                size |-> plan.size, instances |-> 0]]

\* Get the group manager of the zone, and Insert it when it is not found.  GCP refuses
\* one whose template is gone: a sibling's deletion may have removed it.
createOrGet ==
    /\ pc = "Manager"
    /\ \/ Obtainable /\ mig' = Obtained /\ Continue("Resize", local)
       \/ ~Obtainable /\ Refuse /\ UNCHANGED mig
       \/ /\ Zonal(plan)
          /\ mig' \in {mig} \cup (IF Obtainable THEN {Obtained} ELSE {})
          /\ CallFails
    /\ UNCHANGED templates /\ CallFrame

Resized == [mig EXCEPT ![zone].size = plan.size]

\* The group manager's size is set when it differs.
resize ==
    /\ pc = "Resize"
    /\ \/ mig' = Resized /\ Continue("SetTemplate", local)
       \/ /\ mig[zone].size # plan.size
          /\ mig' \in {mig, Resized}
          /\ CallFails
    /\ UNCHANGED templates /\ CallFrame

Retemplated == [mig EXCEPT ![zone].template = plan.content]

\* The template is set in every pass: the partial link that is wanted never equals
\* the full one that GCP returns.
setInstanceTemplate ==
    /\ pc = "SetTemplate"
    /\ \/ /\ plan.content \in templates
          /\ mig' = Retemplated
          /\ Continue("Instances", local)
       \/ plan.content \notin templates /\ Refuse /\ UNCHANGED mig
       \/ /\ mig' \in {mig} \cup {m \in {Retemplated} : plan.content \in templates}
          /\ CallFails
    /\ UNCHANGED templates /\ CallFrame

\* Faulty: the listed instances are appended to the provider IDs.
publishInstancesAppending ==
    /\ pc = "Instances"
    /\ Return(TRUE, [local EXCEPT !.spec = @ + mig[zone].instances, !.status.ready = TRUE])
    /\ UNCHANGED <<templates, mig>> /\ CallFrame

\* ListInstances: the instances, in whatever state, are the pool's provider IDs, and
\* are looked at again after a minute.
publishInstances ==
    /\ pc = "Instances"
    /\ \/ Return(TRUE, [local EXCEPT !.spec = mig[zone].instances, !.status.ready = TRUE])
       \/ CallFails
    /\ UNCHANGED <<templates, mig>> /\ CallFrame

Deleted == [mig EXCEPT ![zone] = NoMIG]

\* Faulty: an error of Delete is logged only.
deleteManagerIgnoringErrors ==
    /\ pc = "DeleteManager"
    /\ mig' \in {mig} \cup (IF Zonal(plan) THEN {Deleted} ELSE {})
    /\ Continue("DeleteTemplates", local)
    /\ UNCHANGED templates /\ CallFrame

\* Get and Delete the group manager of the zone; NotFound is no error.
deleteManager ==
    /\ pc = "DeleteManager"
    /\ \/ Zonal(plan) /\ mig' = Deleted /\ Continue("DeleteTemplates", local)
       \/ ~Zonal(plan) /\ Refuse /\ UNCHANGED mig
       \/ /\ Zonal(plan)
          /\ mig' \in {mig, Deleted}
          /\ CallFails
    /\ UNCHANGED templates /\ CallFrame

Kept == {c \in templates : InUse(c)}

\* The other pool's template, when no group manager refers to it.
SiblingSpared == IF sibling = "template" THEN "absent" ELSE sibling

\* Faulty: errors of single deletions are dropped.
deleteTemplatesIgnoringErrors ==
    /\ pc = "DeleteTemplates"
    /\ templates' = Kept /\ sibling' = SiblingSpared
    /\ Continue("RemoveFinalizer", local)
    /\ UNCHANGED <<mig, conf, want, plan>>

\* List every instance template of the project and delete those labelled as owned by
\* the cluster, the other pool's too.  All are tried; one that is in use is refused.
deleteTemplates ==
    /\ pc = "DeleteTemplates"
    /\ \/ /\ templates' = Kept /\ sibling' = SiblingSpared
          /\ IF Kept = {} /\ sibling # "managed"
             THEN Continue("RemoveFinalizer", local) ELSE Refuse
       \/ /\ templates' \in {Kept \cup T : T \in SUBSET templates}
          /\ sibling' \in {sibling, SiblingSpared}
          /\ CallFails
    /\ UNCHANGED <<mig, conf, want, plan>>

-----------------------------------------------------------------------------
(* Reconcile                                                               *)

Available == want.fds # {}

\* createScope takes a GCPCluster that it cannot read for one that is not ready: the
\* pass ends, and nothing retries it.
createScopeUnread ==
    /\ Dequeue /\ Fault
    /\ UNCHANGED <<obj, cache, before, local, pc, failed, edits>>

\* Reconcile reads the MachinePool, the Cluster and the GCPCluster.  A stale read of
\* theirs is a read of an earlier pass: a later event enqueues the pool again.
Reconcile ==
    /\ Available
    /\ StartPass(IF cache.deleting THEN "DeleteManager" ELSE "Finalizer")
    /\ plan' = want
    /\ UNCHANGED <<cloudVars, conf, want>>

Controller ==
    \/ /\ \/ ReconcileIgnored(Available) \/ ReconcileFails \/ createScopeUnread
          \/ AddFinalizer("Template") \/ RemoveFinalizer \/ ClosePatch
       /\ UNCHANGED cloudVars /\ CallFrame
    \/ Reconcile
    \/ createOrGetInstanceTemplate \/ createOrGetUntagged
    \/ createOrGet \/ resize \/ setInstanceTemplate \/ publishInstances
    \/ deleteManager \/ deleteTemplates
    \/ CloseStatus /\ plan' = NoPlan /\ UNCHANGED <<cloudVars, conf, want>>

-----------------------------------------------------------------------------
(* The environment                                                         *)

\* An event of the GCPMachinePool.  The event filter is meant to drop those of a
\* changed status only; whether it does depends on the object's kind being set.
PoolSync ==
    /\ cache # obj
    /\ cache' = obj
    /\ queued' \in {TRUE} \cup {q \in {queued} : [cache EXCEPT !.status = obj.status] = obj}
    /\ UNCHANGED <<obj, before, local, pc, failed, faults, edits, cloudVars>> /\ CallFrame

\* The sync period of the manager's cache is over.
Resync ==
    /\ cache.exists /\ ~queued /\ queued' = TRUE
    /\ UNCHANGED <<obj, cache, before, local, pc, failed, faults, edits, cloudVars>>
    /\ CallFrame

WantFrame ==
    UNCHANGED <<obj, cache, before, local, pc, failed, faults, conf, plan, cloudVars>>

\* The GCPCluster is made and gets its failure domains.  Nothing watches GCPClusters.
ClusterAppears ==
    /\ want.fds = {}
    /\ \E f \in Domains : want' = [want EXCEPT !.fds = f]
    /\ UNCHANGED <<queued, edits>> /\ WantFrame

\* The GCPCluster is deleted.
ClusterGoes ==
    /\ want.fds # {} /\ want' = [want EXCEPT !.fds = {}]
    /\ Edit
    /\ UNCHANGED queued /\ WantFrame

\* The bootstrap provider writes the first user data, which the MachinePool links.
BootstrapReady ==
    /\ want.content = 0
    /\ want' = [want EXCEPT !.content = 1]
    /\ queued' = TRUE
    /\ UNCHANGED edits /\ WantFrame

\* The webhook admits every change of a GCPMachinePool; the rest is in the MachinePool
\* and in the GCPCluster.
UserEdits ==
    /\ Edit
    /\ \/ /\ \/ want.content # 0 /\ \E c \in Contents : want' = [want EXCEPT !.content = c]
             \/ \E n \in Sizes : want' = [want EXCEPT !.size = n]
          /\ queued' = TRUE
       \/ /\ want.fds # {} /\ \E f \in Domains : want' = [want EXCEPT !.fds = f]
          /\ UNCHANGED queued
    /\ want' # want
    /\ WantFrame

OutsideFrame == UNCHANGED <<obj, conf, want, plan>> /\ ClientFrame

\* A group manager makes and deletes instances until it has its size.
InstancesFollow ==
    /\ \E z \in MIGs : /\ mig[z].instances # mig[z].size
                       /\ mig' = [mig EXCEPT ![z].instances = mig[z].size]
    /\ UNCHANGED <<templates, sibling, edits>> /\ OutsideFrame

\* The other pool runs the same code: it makes its template, then its group manager;
\* when it is deleted it deletes the group manager, then every template of the
\* cluster that is not in use, this pool's too.
SiblingGrows ==
    /\ \/ sibling = "absent" /\ sibling' = "template"
       \/ sibling = "template" /\ sibling' = "managed"
    /\ UNCHANGED <<mig, templates, edits>> /\ OutsideFrame

SiblingShrinks ==
    /\ \/ sibling = "managed" /\ sibling' = "template" /\ UNCHANGED <<templates, edits>>
       \/ sibling = "template" /\ sibling' = "absent" /\ templates' = Kept /\ Edit
    /\ UNCHANGED mig /\ OutsideFrame

Environment ==
    \/ (UserDelete \/ Release \/ Pause) /\ UNCHANGED cloudVars /\ CallFrame
    \/ PoolSync \/ Resync
    \/ Crash /\ plan' = NoPlan /\ UNCHANGED <<cloudVars, conf, want>>
    \/ ClusterAppears \/ ClusterGoes \/ BootstrapReady \/ UserEdits
    \/ InstancesFollow \/ SiblingGrows \/ SiblingShrinks

Next == Controller \/ Environment

Spec == Init /\ [][Next]_vars

(* The queue's workers run, watch events and resyncs come, a pause ends, the  *)
(* bootstrap data appear, and group managers do their work.  Nothing is       *)
(* assumed of the GCPCluster or of the other pool.                           *)
Fairness ==
    /\ WF_vars(Controller)
    /\ WF_vars(PoolSync) /\ WF_vars(Resync)
    /\ WF_vars(Release /\ UNCHANGED cloudVars /\ CallFrame)
    /\ WF_vars(BootstrapReady) /\ WF_vars(InstancesFollow)

FairSpec == Spec /\ Fairness

-----------------------------------------------------------------------------
(* Properties                                                              *)

Count == Sizes \cup {0}

Object == [exists : BOOLEAN, reconcilable : BOOLEAN, finalizer : BOOLEAN,
           deleting : BOOLEAN, spec : Count,
           status : [ready : BOOLEAN]]

Plan == [content : Contents \cup {0}, size : Count, fds : SUBSET Zones]

Steps == {"Idle", "Finalizer", "Template", "Manager", "Resize", "SetTemplate",
          "Instances", "DeleteManager", "DeleteTemplates", "RemoveFinalizer",
          "ClosePatch", "CloseStatus"}

TypeOK ==
    /\ obj \in Object /\ cache \in Object /\ before \in Object /\ local \in Object
    /\ queued \in BOOLEAN /\ failed \in BOOLEAN /\ pc \in Steps
    /\ conf \in Pools /\ want \in Plan /\ plan \in Plan
    /\ templates \subseteq Contents
    /\ mig \in [Zones -> [exists : BOOLEAN, template : Contents \cup {0},
                          size : Count, instances : Count]]
    /\ sibling \in {"absent", "template", "managed"}
    /\ faults \in 0..MaxFaults /\ edits \in 0..MaxEdits

\* Whatever the pool has made, in whichever zone and of whichever content, is there
\* only while the object and its finalizer are.
FinalizerGuards ==
    MIGs # {} \/ templates # {} => obj.exists /\ obj.finalizer

Phase == IF ~obj.exists THEN "gone" ELSE IF obj.deleting THEN "deleting" ELSE "active"

Lifecycle == INSTANCE ResourceLifecycle
    WITH phase <- Phase, guard <- obj.finalizer, held <- MIGs, Owned <- Zones

\* The group managers live as a finalizer promises, also while the failure domains of
\* the cluster move the pool to another zone.
ImplementsLifecycle == Lifecycle!LSpec

\* The pool is what the MachinePool asks for, and says so.
Current ==
    /\ mig[ZoneIn(want)] = [exists |-> TRUE, template |-> want.content,
                            size |-> want.size, instances |-> want.size]
    /\ obj.spec = want.size /\ obj.status.ready

\* Once nobody edits any more, the pool of a cluster that is there gets the wanted
\* template and size in the wanted zone and publishes the instances, whatever failed,
\* whatever a sibling's deletion took away and whichever tag was once left out, and
\* stays so.
RollsOut ==
    <>[](obj.deleting \/ ~obj.exists \/ ~Available \/ ~Zonal(want) \/ Current)

Pinned == Cardinality(conf) = 1

\* A deleted pool with a failure domain goes, provided that its GCPCluster is there in
\* the end and that no other pool of the cluster has a group manager then.  Without its
\* GCPCluster every pass ends at createScope, and the pool keeps its finalizer for ever.
\* A deletion is never taken back, so that []<> says here what ~> would.
DeletionCompletes ==
    <>[](Available /\ sibling # "managed") => []<>(obj.deleting /\ Pinned => ~obj.exists)

=============================================================================
