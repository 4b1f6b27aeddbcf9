------------------------- MODULE InstanceSpecProofs -------------------------
(***************************************************************************)
(* TLAPS proofs about InstanceSpec, for every set of specs and of keys and *)
(* any number of updates: what the webhook checks when a machine is made,  *)
(* and what it keeps immutable afterwards, is what makes the instance of a *)
(* machine stay what the object asks for.                                  *)
(***************************************************************************)
EXTENDS InstanceSpec, TLAPS

-----------------------------------------------------------------------------
(* What a spec decides, and what of it the webhook lets users change       *)

\* The fields of a spec that the hardware and the disks are built of.
SameBuild(s, t) ==
    /\ s.confidential = t.confidential /\ s.series = t.series
    /\ s.maintenance = t.maintenance /\ s.accelerators = t.accelerators
    /\ s.rootKey = t.rootKey /\ s.disks = t.disks

LEMMA UpdateKeepsBuild ==
    ASSUME NEW s \in Specs, NEW t, ValidateUpdate(s, t)
    PROVE  SameBuild(s, t)
<1>1. DOMAIN s = {"confidential", "series", "maintenance", "accelerators", "rootKey",
                  "disks", "labels", "rest"}
  BY SpecTypes
<1>2. t = [s EXCEPT !.labels = t.labels]
  BY DEF ValidateUpdate
<1> QED BY <1>1, <1>2 DEF SameBuild

LEMMA SameHardware ==
    ASSUME NEW s, NEW t, SameBuild(s, t)
    PROVE  /\ Hardware(s) = Hardware(t)
           /\ ValidateCreate(s) => ValidateCreate(t)
           /\ Panics(s) <=> Panics(t)
<1>1. Hardware(s) = Hardware(t)
  BY DEF SameBuild, Hardware, OnHostMaintenance, Confidential
<1>2. DiskKeys(s) = DiskKeys(t)
  BY DEF SameBuild, DiskKeys
<1>3. ValidateCreate(s) => ValidateCreate(t)
  BY <1>2 DEF SameBuild, ValidateCreate, validateConfidentialCompute, Confidential,
              validateCustomerEncryptionKey
<1>4. Panics(s) <=> Panics(t)
  BY DEF SameBuild, Panics
<1> QED BY <1>1, <1>3, <1>4

\* A key that the webhook admits is the one its disk gets, unless it is supplied empty.
LEMMA CheckedKey ==
    ASSUME NEW k \in Keys, checkKeyType(k), ~Empty(k)
    PROVE  DiskKey(k) = k /\ k # NoKey
BY DEF Keys, NoKey, Empty, checkKeyType, Given, DiskKey

-----------------------------------------------------------------------------
(* The invariant                                                           *)

\* What every instance was built of, as the instance remembers it.
Built == inst = Instance(inst.of) /\ ~Panics(inst.of)

\* The spec of a machine passed the webhook when it was made, and what its hardware and
\* its disks are built of has not changed since.
SpecInv ==
    /\ spec # None => spec \in Specs
    /\ kind = "machine" /\ spec # None => ValidateCreate(spec)
    /\ inst # None => Built /\ spec # None
    /\ Machine => SameBuild(inst.of, spec)

LEMMA SpecInit == Init => SpecInv
BY DEF Init, SpecInv, Machine, None

LEMMA SpecStep == SpecInv /\ [Next]_vars => SpecInv'
<1> SUFFICES ASSUME SpecInv, [Next]_vars PROVE SpecInv'
  OBVIOUS
<1>0. \A s \in Specs : s # None
  BY SpecTypes DEF None
<1>1. CASE UNCHANGED vars
  BY <1>1 DEF vars, SpecInv, Machine, Built, Panics
<1>2. CASE Create
  <2>1. PICK s \in Specs : Admits(None, s) /\ spec' = s /\ spec = None
    BY <1>2 DEF Create
  <2>2. UNCHANGED <<kind, inst>> /\ inst = None
    BY <1>2, <2>1 DEF Create, SpecInv
  <2>3. kind = "machine" => ValidateCreate(s)
    BY <2>1 DEF Admits
  <2> QED BY <2>1, <2>2, <2>3 DEF SpecInv, Machine
<1>3. CASE Update
  <2>1. PICK s \in Specs : Admits(spec, s) /\ spec' = s /\ spec # None
    BY <1>3 DEF Update
  <2>2. UNCHANGED <<kind, inst>> /\ spec \in Specs
    BY <1>3, <2>1 DEF Update, SpecInv
  <2>3. inst # None => Built'
    BY <2>2 DEF SpecInv, Built, Panics
  <2>4. kind = "machine" => SameBuild(spec, s)
    BY <2>1, <2>2, UpdateKeepsBuild DEF Admits
  <2>5. kind = "machine" => ValidateCreate(s)
    BY <2>1, <2>4, SameHardware DEF SpecInv
  <2>6. Machine => SameBuild(inst.of, s)
    BY <2>4 DEF SpecInv, Machine, SameBuild
  <2> QED BY <1>0, <2>1, <2>2, <2>3, <2>5, <2>6 DEF SpecInv, Machine
<1>4. CASE CreateInstance
  <2>1. inst' = Instance(spec) /\ UNCHANGED <<kind, spec>> /\ spec # None /\ ~Panics(spec)
    BY <1>4 DEF CreateInstance
  <2>2. inst'.of = spec
    BY <2>1 DEF Instance
  <2>3. Built'
    BY <2>1, <2>2 DEF Built, Panics
  <2>4. SameBuild(inst'.of, spec)
    BY <2>2 DEF SameBuild
  <2> QED BY <2>1, <2>3, <2>4 DEF SpecInv, Machine
<1>5. CASE InstanceGoes
  BY <1>5 DEF InstanceGoes, SpecInv, Machine
<1> QED BY <1>1, <1>2, <1>3, <1>4, <1>5 DEF Next

LEMMA SpecHolds == Spec => []SpecInv
BY SpecInit, SpecStep, PTL DEF Spec

-----------------------------------------------------------------------------
(* Theorems                                                                *)

\* The hardware of a machine is what its object asks for after any updates, and GCP can
\* run it: what validateConfidentialCompute checks at creation is immutable afterwards.
THEOREM HardwareCorrect == Spec => []HardwareSupported
<1>1. ASSUME SpecInv, Machine
      PROVE  LET h == inst.hardware
             IN  /\ h = Hardware(spec)
                 /\ h.confidential # "off" => h.series \in Series(h.confidential)
                 /\ h.confidential # "off" \/ h.accelerators => h.maintenance = "TERMINATE"
  <2>1. inst.hardware = Hardware(spec)
    <3>1. inst = Instance(inst.of) /\ SameBuild(inst.of, spec)
      BY <1>1 DEF SpecInv, Machine, Built
    <3>2. inst.hardware = Hardware(inst.of)
      BY <3>1 DEF Instance
    <3> QED BY <3>1, <3>2, SameHardware
  <2>2. ValidateCreate(spec)
    BY <1>1 DEF SpecInv, Machine
  <2>3. /\ Hardware(spec).confidential # "off" =>
             Hardware(spec).series \in Series(Hardware(spec).confidential)
        /\ Hardware(spec).confidential # "off" \/ Hardware(spec).accelerators =>
             Hardware(spec).maintenance = "TERMINATE"
    BY <2>2 DEF Hardware, OnHostMaintenance, ValidateCreate, validateConfidentialCompute,
                Confidential
  <2> QED BY <2>1, <2>3
<1>2. SpecInv => HardwareSupported
  BY <1>1 DEF HardwareSupported
<1> QED BY <1>2, SpecHolds, PTL

\* The root disk of a machine has the key that its object asks for after any updates, and
\* every additional disk for which a key is asked has one, the root key being supplied
\* empty excepted: a key without the part its type names is not admitted, and an
\* additional disk is not built with the key of a root disk that has none.
THEOREM DisksCorrect == Spec => []DisksEncrypted
<1>1. ASSUME SpecInv, Machine, ~Empty(spec.rootKey)
      PROVE  /\ inst.root.key = spec.rootKey
             /\ \A i \in DOMAIN spec.disks :
                   spec.disks[i].key # NoKey => inst.disks[i].key # NoKey
  <2>1. /\ inst = Instance(inst.of) /\ ~Panics(inst.of) /\ SameBuild(inst.of, spec)
        /\ spec \in Specs /\ ValidateCreate(spec)
    BY <1>1 DEF SpecInv, Machine, Built
  <2>2. ~Panics(spec)
    BY <2>1, SameHardware
  <2>3. /\ inst.root.key = DiskKey(spec.rootKey)
        /\ inst.disks = [i \in DOMAIN spec.disks |->
                            instanceAdditionalDiskSpec(inst.of, spec.disks[i])]
    <3>1. /\ inst.root = InstanceImageSpec(inst.of)
          /\ inst.disks = [i \in DOMAIN inst.of.disks |->
                              instanceAdditionalDiskSpec(inst.of, inst.of.disks[i])]
      BY <2>1 DEF Instance
    <3>2. inst.of.rootKey = spec.rootKey /\ inst.of.disks = spec.disks
      BY <2>1 DEF SameBuild
    <3> QED BY <3>1, <3>2 DEF InstanceImageSpec
  <2>4. spec.rootKey # NoKey => DiskKey(spec.rootKey) = spec.rootKey
    <3> SUFFICES ASSUME spec.rootKey # NoKey PROVE DiskKey(spec.rootKey) = spec.rootKey
      OBVIOUS
    <3>1. spec.rootKey \in Keys
      BY <2>1, SpecTypes DEF DiskKeys
    <3>2. checkKeyType(spec.rootKey)
      BY <2>1 DEF ValidateCreate, validateCustomerEncryptionKey, DiskKeys
    <3> QED BY <1>1, <3>1, <3>2, CheckedKey
  <2>5. inst.root.key = spec.rootKey
    BY <2>3, <2>4 DEF DiskKey, Given
  <2>6. ASSUME NEW i \in DOMAIN spec.disks, spec.disks[i].key # NoKey
        PROVE  inst.disks[i].key # NoKey
    <3>1. spec.rootKey # NoKey
      BY <2>2, <2>6 DEF Panics
    <3>2. inst.disks[i] = instanceAdditionalDiskSpec(inst.of, spec.disks[i])
      BY <2>3
    <3>3. inst.disks[i].key = DiskKey(inst.of.rootKey)
      BY <2>6, <3>2 DEF instanceAdditionalDiskSpec
    <3>4. inst.of.rootKey = spec.rootKey
      BY <2>1 DEF SameBuild
    <3> QED BY <2>4, <3>1, <3>3, <3>4
  <2> QED BY <2>5, <2>6
<1>2. SpecInv => DisksEncrypted
  BY <1>1 DEF DisksEncrypted
<1> QED BY <1>2, SpecHolds, PTL

=============================================================================
