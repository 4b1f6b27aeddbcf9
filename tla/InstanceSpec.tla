---------------------------- MODULE InstanceSpec ----------------------------
(***************************************************************************)
(* What a GCPMachine, or a GCPMachinePool, makes of its spec: the webhooks *)
(* that admit it, and the instance (or the instance template) that the     *)
(* scopes build of it, once, when there is none.                           *)
(*                                                                         *)
(* Of a spec the model has what these parts check or combine: confidential *)
(* computing, host maintenance, encryption keys, and the labels, which may *)
(* change.  The rest is copied to the instance, or given a default: one    *)
(* field, rest.                                                            *)
(***************************************************************************)
EXTENDS Naturals, Sequences

CONSTANTS
    KeyNames,    \* what tells encryption keys apart
    Specs,       \* specs of machines and pools
    MaxEdits     \* bound: updates, and instances that somebody deletes

ASSUME SpecBounds == MaxEdits \in Nat

VARIABLES
    kind,     \* a GCPMachine, or a GCPMachinePool
    spec,     \* its spec; None before it is made
    inst,     \* the instance, with the spec it was built of; or None
    edits

vars == <<kind, spec, inst, edits>>

None == [none |-> TRUE]

Init ==
    /\ kind \in {"machine", "pool"}
    /\ spec = None /\ inst = None
    /\ edits = 0

-----------------------------------------------------------------------------
(* The webhooks                                                            *)

\* Machine series that support a technology; Enabled leaves it to GCP, which takes SEV.
Series(technology) ==
    CASE technology \in {"Enabled", "SEV"} -> {"n2d", "c2d", "c3d"}
      [] technology = "SEVSNP" -> {"n2d"}
      [] technology = "TDX" -> {"c3"}

Confidential(s) == s.confidential \notin {"unset", "Disabled"}

validateConfidentialCompute(s) ==
    Confidential(s) =>
        /\ s.maintenance = "Terminate"
        /\ s.series \in Series(s.confidential)

NoKey == [type |-> "none"]

\* A key names its type, and has a managed part, a supplied part, both or none of them;
\* a supplied part has one content, both or none.
Keys == [type : {"Managed", "Supplied"}, managed : BOOLEAN,
         supplied : {"absent", "empty", "one", "both"}, name : KeyNames]

DiskKeys(s) == {s.rootKey} \cup {s.disks[i].key : i \in DOMAIN s.disks}

ASSUME SpecTypes ==
    \A s \in Specs :
        /\ DOMAIN s = {"confidential", "series", "maintenance", "accelerators", "rootKey",
                       "disks", "labels", "rest"}
        /\ DiskKeys(s) \subseteq Keys \cup {NoKey}

\* A supplied part without a content is admitted.
checkKeyType(k) ==
    IF k.type = "Managed" THEN k.managed /\ k.supplied = "absent"
                          ELSE k.supplied \in {"empty", "one"} /\ ~k.managed

\* Faulty: keys are not checked.
validateNoKey(s) == TRUE

validateCustomerEncryptionKey(s) ==
    \A k \in DiskKeys(s) \ {NoKey} : checkKeyType(k)

ValidateCreate(s) == validateConfidentialCompute(s) /\ validateCustomerEncryptionKey(s)

\* Faulty: any field may change.
ValidateAnyUpdate(old, new) == TRUE

\* Only labels and network tags of a machine may change (and the provider ID).
ValidateUpdate(old, new) == [old EXCEPT !.labels = new.labels] = new

\* The webhook of pools checks nothing.
Admits(old, new) ==
    kind = "machine" => IF old = None THEN ValidateCreate(new) ELSE ValidateUpdate(old, new)

-----------------------------------------------------------------------------
(* The instance                                                            *)

\* The part that the type names has a content.
Given(k) ==
    /\ k # NoKey
    /\ IF k.type = "Managed" THEN k.managed ELSE k.supplied \in {"one", "both"}

\* DiskEncryptionKey: GCP takes one without a content for no key.
DiskKey(k) == IF Given(k) THEN k ELSE NoKey

InstanceImageSpec(s) == [key |-> DiskKey(s.rootKey), scratch |-> FALSE]

\* An additional disk that has a key gets the one of the root disk, a nil pointer when
\* there is none.
instanceAdditionalDiskSpec(s, d) ==
    [key |-> IF d.key = NoKey THEN NoKey ELSE DiskKey(s.rootKey),
     scratch |-> d.device = "local-ssd"]

\* The scope of a machine also dereferences the type of the device.
Panics(s) ==
    \E i \in DOMAIN s.disks :
        \/ s.disks[i].key # NoKey /\ s.rootKey = NoKey
        \/ kind = "machine" /\ s.disks[i].device = "unset"

\* Scheduling.OnHostMaintenance: guest accelerators decide last.
OnHostMaintenance(s) ==
    IF s.accelerators \/ s.maintenance = "Terminate" THEN "TERMINATE"
    ELSE IF s.maintenance = "Migrate" THEN "MIGRATE" ELSE "unset"

\* Network interface, service account, metadata, image and shielded VM options.
Rest(s) == IF s.rest = "unset" THEN "default" ELSE s.rest

Hardware(s) ==
    [series |-> s.series, accelerators |-> s.accelerators, maintenance |-> OnHostMaintenance(s),
     confidential |-> IF Confidential(s) THEN s.confidential ELSE "off"]

\* InstanceSpec, and InstanceTemplateResource.
Instance(s) ==
    [of |-> s, hardware |-> Hardware(s), labels |-> s.labels, rest |-> Rest(s),
     root |-> InstanceImageSpec(s),
     disks |-> [i \in DOMAIN s.disks |-> instanceAdditionalDiskSpec(s, s.disks[i])]]

-----------------------------------------------------------------------------
(* Steps                                                                   *)

Create ==
    /\ spec = None
    /\ \E s \in Specs : Admits(None, s) /\ spec' = s
    /\ UNCHANGED <<kind, inst, edits>>

Edit == edits < MaxEdits /\ edits' = edits + 1

\* The controllers never change an instance that is there.
Update ==
    /\ spec # None /\ Edit
    /\ \E s \in Specs \ {spec} : Admits(spec, s) /\ spec' = s
    /\ UNCHANGED <<kind, inst>>

\* A pass that finds no instance builds one; a panic ends it.
CreateInstance ==
    /\ spec # None /\ inst = None /\ ~Panics(spec)
    /\ inst' = Instance(spec)
    /\ UNCHANGED <<kind, spec, edits>>

\* Somebody deletes the instance, or the template is replaced by that of a new spec.
InstanceGoes ==
    /\ inst # None /\ inst' = None /\ Edit
    /\ UNCHANGED <<kind, spec>>

Next == Create \/ Update \/ CreateInstance \/ InstanceGoes

Spec == Init /\ [][Next]_vars

-----------------------------------------------------------------------------
(* Properties                                                              *)

Machine == kind = "machine" /\ inst # None

\* The instance of a machine has the hardware that the object still asks for, whatever
\* was updated since, and GCP can run it: confidential computing and accelerators stop
\* at host maintenance, and the series supports the technology.
HardwareSupported ==
    Machine =>
        LET h == inst.hardware
        IN  /\ h = Hardware(spec)
            /\ h.confidential # "off" => h.series \in Series(h.confidential)
            /\ h.confidential # "off" \/ h.accelerators => h.maintenance = "TERMINATE"

Empty(k) == k # NoKey /\ k.supplied = "empty"

\* The root disk of a machine has the very key that the object asks for, and every single
\* additional disk for which a key is asked has one, whatever was updated since: what
\* the webhook admits is not built without its key.  One case is excepted: a root key
\* that is supplied empty is admitted, and no disk of that machine is encrypted.
DisksEncrypted ==
    Machine /\ ~Empty(spec.rootKey) =>
        /\ inst.root.key = spec.rootKey
        /\ \A i \in DOMAIN spec.disks :
              spec.disks[i].key # NoKey => inst.disks[i].key # NoKey

-----------------------------------------------------------------------------
(* What the repository says, and the code does not do                      *)

\* "EncryptionKey defines the KMS key to be used to encrypt the disk": an additional disk
\* that is given a key of its own is encrypted with that one.
DisksHaveTheirKeys ==
    inst # None =>
        \A i \in DOMAIN inst.of.disks :
            Given(inst.of.disks[i].key) => inst.disks[i].key = inst.of.disks[i].key

=============================================================================
