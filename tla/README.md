# A TLA+ verification of cluster-api-provider-gcp

CAPG is a set of Kubernetes controllers. Each one watches a custom resource and brings Google Cloud to the
state the resource describes; when the resource is deleted, it takes Google Cloud back. Everything it knows
between two passes is in the custom resource or in Google Cloud. This directory models the controllers as
state machines, checks them with TLC on small instances, and proves every safety property of the passing runs,
the action property and the refinements included, with TLAPS for every instance. Liveness is TLC's alone.

`PROJECT.json` maps every definition to the source lines it stands for, and lists the components, the runs,
the hazards, the findings and the theorems.

## 1. Inventory

### The parts of the system

| Part (source) | State | Operations | Hard behaviours | What makes it correct |
|---|---|---|---|---|
| `GCPCluster` controller (`controllers/gcpcluster_controller.go`) with its scope (`cloud/scope/cluster.go`) | the GCPCluster object: finalizer, endpoint, failure domains, `status.network`, ready | `Reconcile` → `reconcile` / `reconcileDelete`, deferred `Close` | stale cache, lost patches, crash between any two calls, two patches that fail alone | resources exist only behind the finalizer; the endpoint never goes back; deletion ends and leaves nothing |
| network, firewall, subnet services (`cloud/services/compute/{networks,firewalls,subnets}`) | GCP networks, routers, rules, subnets | `Reconcile` (create or get), `Delete` | resources that exist already, shared VPCs | what CAPG did not make is never deleted |
| load balancer service (`cloud/services/compute/loadbalancers`) | instance groups, health checks, backend services, proxies, addresses, forwarding rules | as above, for two load balancers | resources that refer to one another; one of two load balancers fails | deletion order; backends follow the failure domains |
| `GCPMachine` controller (`controllers/gcpmachine_controller.go`), machine scope, instance service (`cloud/services/compute/instances`) | the GCPMachine; the instance; membership in the control plane group | `Reconcile`, `Delete`, watch of GCPClusters | the zone depends on the cluster's current status; group and instance change between calls | no instance outlives its machine; ready control planes are registered |
| `GCPMachinePool` controller (`exp/controllers/gcpmachinepool_controller.go`), instance template and instance group manager services | the pool; templates named by a content hash; one group manager | `Reconcile`, `Delete` | rollover of templates; another pool's deletion takes templates away; the zone follows the cluster, and without the cluster nothing is done | what is asked for is rolled out; nothing outlives the finalizer; deletion ends |
| GKE cluster: `GCPManagedCluster` and `GCPManagedControlPlane` controllers, cluster service (`cloud/services/container/clusters`) | two objects and their conditions; network and subnets; the GKE cluster; kubeconfig secrets | as above | operations that take many passes; each controller waits for the other, in a deletion too; services in random order | the network outlives the GKE cluster; changes arrive; the endpoint is published; deletion ends |
| GKE machine pool: `GCPManagedMachinePool` controller, node pool service (`cloud/services/container/nodepools`) | the object and its conditions; the node pool | as above, three kinds of updates | one update per pass; sizes per zone; autoscaler, repairs and control plane in between | the node pool becomes what is asked for; deletion ends |
| instance building (`cloud/scope/machine.go`, `machinepool.go`, `api/v1beta1/labels.go`, `cloud/services/shared/tags.go`) and the `GCPMachine` webhook | none; what an instance was built of | `ValidateCreate`, `ValidateUpdate`, `InstanceSpec`, `InstanceTemplateResource` | built once, never changed; keys that are checked in one place and used in another | GCP can run it; its disks have the keys asked for |
| other webhooks (`webhooks`, `exp/webhooks`) | none | defaulting, validation | what stays mutable decides which histories are possible | what the controllers assume immutable is |
| GKE bootstrap config controller (`exp/bootstrap/gke`) | a secret | fills it once | – | – |
| provider IDs, hashes, locations | none | pure functions on strings | – | parse and format agree |
| clients, credentials, `main.go` | none | set-up | – | – |

### How they interact

- A controller and the API server: through the informer cache (which lags) for reading, through merge patches
  (against the copy the pass began with) for writing. The workqueue runs at most one pass per object.
- A controller and GCP: by calls that may fail after they took effect.
- `GCPCluster` → `GCPMachine`: the failure domains in the cluster's status choose the machine's zone; the
  cluster's instance groups are what control plane machines are registered in. A GCPCluster event enqueues
  the cluster's machines.
- `GCPCluster` → `GCPMachinePool`: the failure domains choose the zone of a pool that names none. Nothing
  watches GCPClusters for pools.
- Pools of one cluster meet in the instance templates: each carries the cluster's ownership label, and the
  deletion of one pool deletes all of them that it can.
- `GCPCluster` → every machine, pool: without it no scope is made, and the object keeps its finalizer.
- `GCPManagedCluster` ↔ `GCPManagedControlPlane`: the control plane waits for the cluster's network and fails
  without the object; the cluster copies the endpoint of the control plane, and in a deletion waits for it.
  Both wait for machine pools: the first GKE cluster is made together with its node pools.
- `GCPManagedControlPlane` → `GCPManagedMachinePool`: a pool does nothing, not even its deletion, unless its
  control plane is ready.
- Cluster API (outside this repository): sets owner references, pauses, gives bootstrap data, and deletes
  machines before the infrastructure cluster.

## 2. Modules

| Module | What it is |
|---|---|
| `ClusterScope` | constants, state, GCP's references between resources, and the shapes of a call (`CreateOrGet`, `Delete`, `GetFails`...) |
| `ClusterNetworks` | the network, firewall and subnet services |
| `ClusterLoadBalancers` | the load balancer service |
| `GCPCluster` | the controller around them, its environment, the specification and its properties |
| `ResourceLifecycle` | abstract: what a finalizer promises |
| `ClusterInfrastructure` | abstract: what machines see of their cluster |
| `ObjectController` | the runtime shared by controllers: API server, cache, queue, finalizer, `Close`, crash |
| `GCPMachine` | the machine controller and the instance service, run against `ClusterInfrastructure` |
| `GCPMachinePool` | the machine pool controller and its two services, over `ObjectController`; refines `ResourceLifecycle` |
| `ManagedObject` | an object and its passes without cache and queue: what the GKE controllers share |
| `ManagedCluster` | the `GCPManagedCluster` and `GCPManagedControlPlane` controllers and the cluster service, composed |
| `ManagedMachinePool` | the `GCPManagedMachinePool` controller and the node pool service |
| `InstanceSpec` | the `GCPMachine` webhook, and the hardware and disks of the instance that is built |
| `MCGCPCluster`, `MCGCPMachine`, `MCGCPMachinePool`, `MCManagedCluster`, `MCManagedMachinePool`, `MCInstanceSpec` | instances for TLC |
| `ObjectControllerProofs`, `ManagedObjectProofs` | the invariants and lemmas of the two shared runtimes, for any controller built on them |
| `GCPClusterProofs`, `GCPMachineProofs`, `GCPMachinePoolProofs`, `ManagedClusterProofs`, `ManagedMachinePoolProofs`, `InstanceSpecProofs` | the theorems about each model |

`GCPMachine` is composed with the cluster through `ClusterInfrastructure`: `GCPCluster` is proved to implement
it, so whatever the machine model can do against the abstract cluster covers what it can do against the real
one.

### State and actions of `GCPCluster`

- `obj` is the object in the API server, `cache` the informer's copy, `queued` the workqueue.
  `CacheSync` is a watch event; it may come at any time, so a pass may begin with an old copy.
- `before` and `local` are the patch helper's snapshot and the object the pass edits. `pc` is the next step of
  the pass, `todo` the zones left to the instance group loop, `failed` the error it will return.
- `cloud` is the set of existing resources, each a pair of kind and name; `backends` the zones behind each
  backend service. Contents, wording and logging are abstracted; the description that marks what CAPG made
  is `conf.foreign`, the resources that were there before.
- `rec` in an object is the set of resources `status.network` links to.
- One action is one GCP call, or a get and the create or delete decided by it, on one resource. Each has its
  success, the refusals GCP gives (a resource in use, a shared VPC without the network), and a failure that
  may or may not have taken effect. So a pass can stop, or the process crash (`Crash`), between any two.
- The order of the services is `AfterReconcile` and `AfterDelete`. Deletion of one load balancer goes on to
  the other after an error, and the error is returned at the end, as in `Delete`.
- `Close` is two actions: `ClosePatch` (metadata and spec) and `CloseStatus`; the helper does the second even
  when the first failed, and each writes only what the pass changed.
- The user deletes the object or edits `spec.failureDomains`, which the webhook lets change; Cluster API sets
  the owner reference, pauses and unpauses (`Release`, `Pause`).

### State and actions of `GCPMachine`

- `ObjectController` gives `obj`, `cache`, `queued`, `before`, `local`, `pc`, `failed`; the machine's spec is
  the zone in its `providerID`, its status is ready, instance state and failure reason.
- A zone is a positive number, its place in the alphabetical order of names; 0 is the empty name.
  `zone` is what `MachineScope.Zone` returns to the running pass, from `seen`, the cached GCPCluster.
- `inst` is the state of the instance of that name in every zone; `members` the zones whose group has it;
  `listed` what `ListInstances`, which returns RUNNING members only, told the pass.
- The environment: bootstrap data comes, the cluster changes (`ClusterInfrastructure`), instances start, break,
  are repaired or are deleted by somebody else (`lost`).
- For an empty zone GCP may answer NotFound or refuse; both are modelled.

### State and actions of `GCPMachinePool`

- The object's spec is the length of `providerIDList`. `want` is what MachinePool, GCPMachinePool and
  GCPCluster ask for now, `plan` what the running pass read of it: the content of a template, a size, the
  failure domains of the cluster.
- A template's name is a hash of its content, so `templates` is a set of contents. `mig` is the group manager
  of every zone; only a pass whose zones are exactly one gets as far as it.
- `createOrGet`, `resize` and `setInstanceTemplate` are the three parts of `createOrGet` in the source; GCP
  refuses a template that is not there, and the deletion of one that is in use.
- `sibling` is another pool of the cluster: it makes a template and a group manager, and when it is deleted it
  takes with it every template of the cluster that is not in use.
- `PoolSync` enqueues or not when only the status changed: the event filter looks at the kind of an object
  from the cache, which may be empty. `Resync` is the sync period of the manager's cache.
- The GCPCluster comes and goes (`ClusterAppears`, `ClusterGoes`); `createScope` cannot tell one that is gone from
  one that could not be read (`createScopeUnread`), and ends the pass in either case.
- `createOrGetUntagged`: a tag of the pool cannot be read, the template has another content, and so another name.

### State and actions of `ManagedCluster` and `ManagedMachinePool`

- `ManagedObject` leaves the cache and the queue out: a pass may begin at any time (a resync), and may stay
  at its first step while the world goes on, which is how its reads get stale. `Close` may save
  metadata and spec, the status, both or none.
- In `ManagedCluster`, `mc` and `cp` are the two objects. `shown` and `provided` are what each controller's pass
  read of the other's object when it began. `net` has the network (with its router) and the subnets, which
  `ClusterNetworks` has call by call; they are taken from `todo` in any order, as from the Go map.
- `gke` is the cluster with its state as GKE reports it. Requests change the state to PROVISIONING,
  RECONCILING or STOPPING, `GKEFinishes` ends them, `GKEChanges` is what happens without being asked for:
  errors, repairs, upgrades, deletion by somebody else. A cluster that is made again has another `id`.
- A control plane asks for a configuration (release channel, version, authorized networks), a logging and a
  monitoring service; users may change several at once. All differences go into one request, of which GKE takes
  one field (`Valid`). `DesiredLogging` has the assignment of line 515 as it is.
- `pools` are the MachinePools of the cluster: none, some without their GCPManagedMachinePool (or of a size
  that cannot be spread), or all matched. A deletion waits for GCPManagedMachinePools (`Dependents`). A standard cluster needs some before it is made, an autopilot
  cluster must have none.
- In `ManagedMachinePool`, `np` is the node pool; `readyCond`, `updating` and `deleting` are the conditions that
  decide `status.ready` and the finalizer.
- The comparison with the node pool is exact. Locations are compared in order: `ordered` tells whether the spec has
  them in GKE's. GKE reports what was left empty as empty or not at all (`terse`): a new node pool's configuration
  (`Sparse`) and autoscaling may differ from what the spec asks for, and an update may not change that.
- `early` marks a node pool that was made together with the GKE cluster, before its controller set the
  finalizer.

### State and actions of `InstanceSpec`

- `spec` is the object that the webhook admitted, `inst` the instance (or template) with what it was built of. The
  controllers never change an instance.
- A key has a type, a managed and a supplied part, which may be empty, and a name that tells keys apart. The disks
  are a sequence, so that each disk of the instance can be held against the one of the spec.
- Machines and pools differ where their code does: pools are not validated. A panic of the scope (`Panics`) ends the
  pass, and no instance is built.
- Labels stand for all that the webhook lets change, and `rest` for what is copied or given a default.

## 3. Runs

All bounds are constants of the cfg files. `MaxFaults` bounds failed calls and crashes, `MaxEdits` changes by
users or by the world. One fault at any of some forty places, with a retry after it, is what a partial
failure is; a second fault adds repetitions of what the retry already meets, and the proofs have no such bound.
`CHECK_DEADLOCK FALSE` everywhere: when the object is gone and the queue is empty, the system has stopped.

| Run | Question | Instance | Result |
|---|---|---|---|
| `cluster_own` | Does a cluster with its own VPC keep its promises under faults, crashes, edits and stale caches? | two zones and one of another region, two subnets, one firewall rule, all load balancer types, with and without an endpoint of the user's, 1 fault, 1 edit; zones symmetric | pass, about 1,613,000 states |
| `cluster_live` | And when some of network, router, subnets exist already, or a shared VPC is used, complete or not? Do these clusters become ready and deleted ones go? | all subsets of what can exist, shared VPCs, both load balancers; one list of failure domains, 1 fault, 1 edit (a pause), `FairSpec` | pass, about 762,000 states |
| `cluster_groups_leak` | Does deletion remove every instance group? | External, 1 fault | violation |
| `machine_zones` | Control plane machines with and without a failure domain, while the cluster's failure domains change: registered before ready, providerID backed, deleted where they are, no wake-up lost? | two zones, 1 fault, 1 edit (workers are in `machine_live`) | pass, about 3,200,000 states |
| `machine_live` | Do machines become ready and deleted ones go? | control plane and worker, one zone, 1 edit, `FairSpec` | pass |
| `machine_zone_leak` | Is every instance deleted with its machine? | two zones, 1 edit | violation |
| `pool` | Does a machine pool roll out what is asked for, and go, beside another pool? | two zones; pools with one, no and two failure domains; two contents, sizes 0 and 1, 1 fault, 1 edit (one of them the end of the GCPCluster), `FairSpec` | pass, about 754,000 states |
| `gke_cluster` | Do the two controllers of a GKE cluster get along, in creation, change and deletion? | two configurations and two logging services, changed one by one or together, 1 fault, 1 edit, `FairSpec`. Autopilot clusters differ in `Creatable` and `Admitted` only; `Modes = {TRUE, FALSE}` passes too and takes twice as long | pass, about 300,000 states |
| `gke_monitoring` | Does a changed monitoring service reach the cluster? | 1 edit, no fault, `FairSpec` | violation |
| `gke_pool` | Does a node pool become what is asked for, update by update, and go? | three zones or two of them, in GKE's order or another, 3 or 6 replicas (`MaxSize` 6), two configurations of which one leaves something empty, autoscaling unset or off, 1 fault, 2 edits, `FairSpec` | pass, about 608,000 states |
| `instance_spec` | Is an instance what its object asks for, whatever was admitted and updated? | every combination of technology, series and maintenance; every form of a root key; up to two additional disks, with no key, a sound, an empty or an unsound one; 1 update | pass, about 2,721,000 states |
| `disk_keys` | Is a disk that has a key of its own encrypted with it? | the same | violation |

### Properties

Of the cluster:

- `FinalizerGuards`: while a resource that CAPG made exists, the object and its persisted finalizer exist.
  `Tracked` leaves out the two kinds that can be left behind, instance groups (`cluster_groups_leak`) and
  subnets listed after a foreign one.
- `ForeignUntouched`: nothing that existed before is deleted. `cluster_live` has it, with `FinalizerGuards` and
  `ReadyMeansProvisioned` again: what is adopted is neither taken for CAPG's nor thought to be there when it is not.
- `ReadyMeansProvisioned`: Ready and the recorded links are backed by resources, whichever patches were lost.
- `EndpointBacked`, `EndpointStable`: the published endpoint is the right load balancer's, has its address, and
  is never taken back by a pass with an old copy.
- `DeleteOrderSafe`: no deletion is refused because of CAPG's own order, whatever an earlier pass left.
- `RecordedResourcesDeleted`: the finalizer goes only after everything the status lists.
- `BackendsSized`: a successful pass ends with one backend per failure domain.
- `NothingForgotten`: with nothing queued and nothing on its way, the work is done. This holds for configurations
  that no pass can satisfy too, because a pass that fails is queued again.
- `ImplementsLifecycle`, `ImplementsInfrastructure`: refinement of the abstract modules.
- `DeletionCompletes`, `BecomesReady`: liveness.

Of the machine: `FinalizerGuards` (with a failure domain), `ReadyMeansRegistered`, `ProviderIDBacked`,
`NothingForgotten`, `DeletionCompletes`, `BecomesReady`.

Of the machine pool:

- `FinalizerGuards`: no template and no group manager, in whichever zone the pool once was, without the object
  and its finalizer.
- `ImplementsLifecycle`: the group managers refine `ResourceLifecycle`.
- `RollsOut`: in the end the wanted template, size and zone, and the instances published, although a sibling's
  deletion may have taken the template between the step that makes it and the one that uses it.
- `DeletionCompletes`: a deleted pool with a failure domain goes, if in the end the GCPCluster is there and no other
  pool of the cluster has a group manager. The exceptions are the code's: without its GCPCluster every pass ends in
  `createScope`, and the pool keeps its finalizer for ever; templates of other pools are deleted too, and one
  in use fails the pass; a pool that followed the cluster to another zone leaves its group manager behind and never
  finishes.

Of the GKE cluster:

- `FinalizersGuard`: network and GKE cluster live behind the finalizers of their objects.
- `NetworkUnderCluster`: network and subnets are whole from the decision to make a GKE cluster until it is
  gone, though each controller acts on an old reading of the other's object.
- `Converges`: the cluster is made and changed as asked for and its endpoint gets to both objects, also when
  somebody deletes it in between. A cluster that differs in two fields at once is excepted (`OneUpdate`): the one
  request for both is refused in every pass.
- `DeletionCompletes`: deleted together, the two objects, the cluster and its network go once the pools are gone. That
  the pools go is not part of it: a pool whose control plane is missing or not ready stays, see below.
- `MonitoringFollows` fails, see below.

Of the GKE machine pool:

- `FinalizerGuards`: a node pool that the controller made is there behind the persisted finalizer only.
- `RollsOut`: the node pool becomes what is asked for, one update per pass, with the number of nodes that was asked for
  whenever it can be spread over the zones. Excepted is what does not compare equal to what GKE reports
  (`Comparable`): it is updated in every pass.
- `DeletionCompletes`: a deleted pool goes, also when its node pool is in error, unless from some time on its control
  plane is never ready again. Until then every pass of it ends early, and nothing is deleted.

Of instances, machines only, because pools are not validated:

- `HardwareSupported`: what was built is what the object still asks for, and GCP can run it.
- `DisksEncrypted`: the root disk has the key that is asked for, and each additional disk for which one is asked has
  a key. A root key that is supplied empty is the exception: the webhook admits it, and no disk is encrypted.
- `DisksHaveTheirKeys` fails, see below: which key an additional disk has is another matter.

### Fairness

- `WF(Controller)`: controller-runtime's workers take keys from the queue and a pass runs on; a call that
  fails returns, and an error enqueues the key again with a backoff. Faults are bounded, so a pass
  eventually meets none.
- `WF(CacheSync)`, `WF(ClusterSync)`: watch events are delivered.
- `WF(Release)`: Cluster API sets the owner reference, and a pause ends. Without it a paused object rightly
  does nothing.
- For machines: bootstrap data comes, instances start, and the cluster's controller makes the zone's group,
  which is what `BecomesReady` of `GCPCluster` gives.

- `WF(PoolSync)`, `WF(Resync)`: watch events and the sync period of the manager's cache. In `ManagedObject`
  the same resync is why a pass may always begin.
- `WF(GKEFinishes)`, `WF(InstancesFollow)`: operations of GKE and of group managers end. Nothing is assumed of
  clusters and node pools in error, of the GCPCluster of a pool or of the other pool.
- `SF(reconcileService("networks"))`, `SF(deleteService("subnets"))`: the Go runtime draws the order of a map anew
  for every iteration, so the service that must come first does so in some pass.

No fairness is assumed of faults, crashes, deletions or edits.

## 4. Theorems

TLAPS proves them for every value of the constants: any zones, specs, configurations and bounds. Every invariant,
the action property and every refinement that a passing run checks is the statement of a theorem.

| Module | Theorems |
|---|---|
| `GCPCluster` | `TypeCorrect`, `FinalizerCorrect`, `ForeignCorrect`, `DeleteOrderCorrect`, `RecordedCorrect`, `ReadyCorrect`, `EndpointCorrect`, `EndpointStableCorrect`, `BackendsCorrect`, `WakeCorrect`; the refinements `LifecycleCorrect`, `InfrastructureCorrect`; the invariants they rest on, `InvCorrect`, `StrongCorrect` |
| `GCPMachine` | `TypeCorrect`, `FinalizerCorrect`, `ProviderIDCorrect`, `RegisteredCorrect`, `WakeCorrect` |
| `GCPMachinePool` | `TypeCorrect`, `FinalizerCorrect`; the refinement `LifecycleCorrect` |
| `ManagedCluster` | `TypeCorrect`, `FinalizersCorrect`, `NetworkCorrect` |
| `ManagedMachinePool` | `TypeCorrect`, `FinalizerCorrect` |
| `InstanceSpec` | `HardwareCorrect`, `DisksCorrect` |

`GCPMachine` is proved against any cluster that `ClusterInfrastructure` allows, and `InfrastructureCorrect` says that
`GCPCluster` is one.

### Assumptions

All are named where the constants are declared, and TLC evaluates them in the runs.

- Every module: the bounds are natural numbers, configurations have the form the model gives them.
- `ClusterScope`: zones are finite, the user gives no endpoint that is one of the load balancers', subnet
  names are distinct.
- `GCPMachine`: zones are finite and positive numbers, 0 being the empty name.
- `GCPMachinePool`: zones are finite, a cluster has at least one failure domain, contents are positive numbers.
- `ManagedMachinePool`: there is a zone, zones are finite, configurations are positive numbers, and what users ask for
  has a size of at most `MaxSize`.
- `InstanceSpec`: specs have their fields, and keys the parts the API gives them.

### The shared runtimes

`ObjectControllerProofs` proves once what API server, cache, queue and passes guarantee a controller, whatever
its services are. Its `RuntimeInv` has three parts.

- `ObjectInv`: how the fields of the object go together (one that is gone has no finalizer, and so on).
- `CacheInv`: the cache is a past of the object: a cached finalizer was persisted and a cached deletion was asked
  for; neither is taken back while the object lives.
- `PassInv`: the same of what a pass began with; at every creating step the finalizer is persisted, and a pass that
  deletes works on an object that is being deleted, so that no other pass can create.

`StepMoves` and `FinalizerDropped` say what any step may do to the object. A controller shows that each of its
actions is a step of the runtime (`NextIsStep`) and gets the invariant. `ManagedObjectProofs` is the same for the
GKE controllers, and is used twice by `ManagedCluster`.

### GCPCluster

`FinalizerGuards` is not inductive: it does not say what a pass that began with an old copy may still do. `IInv`
adds that: `ObjectInv`, `CacheInv` and `PassInv` as above, and

- `CloudInv`: what is foreign is there; resources of load balancers of the wrong type are not.
- `SweepInv`: a deletion pass without an error has, at each step, nothing left that its earlier steps delete
  (`Tracked \subseteq Left(pc)`), and when the finalizer is dropped, nothing at all. `DeleteOrderSafe` follows from
  it: whatever uses the resource to be deleted is tracked and was deleted by an earlier step.

The other properties are about creation, and need a second invariant on top of the first, `SInv`.

- `CopiesInv`: every copy of the object, however old, tells only of what is there, as long as the object is not
  deleted. This is what lets a stale pass write its status.
- `MadeInv`: at every step of `reconcile` the resources of the steps before it exist, the endpoint is known and the
  backends are as many as the failure domains, each from the step on that sees to it.
- `DomainsInv`, `GroupsInv`: which instance groups the loops over zones have made, recorded or deleted.
- `DoneInv`: what a pass that ends without an error has to write.
- `WakeInv`: with the key out of the queue, a pass works on what the cache holds, and the cache shows the work as
  done unless the object is ahead of it, in which case an event is on its way.

The many actions have few shapes, so preservation is proved once per shape: `ReconcileShape` and `DeleteSweeps` say
what any step of `reconcile` or `reconcileDelete` may change, `ServicesGoOn` that a step of a service either fails or
hands over to the next one with what it makes, `Grows` that nothing disappears while the object is not deleted.

### Machines and machine pools

- Machine: `GuardInv` (a machine with a failure domain is only in that zone, and a pass drops the finalizer only
  after it has found no instance there), `BackedInv` (a providerID in any copy is that of an instance),
  `RegisteredInv` (the instance is in a group from the moment a pass decides that it need not be registered; as
  long as the cluster stays), `WakeInv`.
- Pool: `ZonalInv` (the steps of the group manager are reached with one zone only), `LinkInv` (GCP keeps the template
  of a group manager) and `GuardInv` (the finalizer is dropped after the last template went, and with `LinkInv` that
  means after the last group manager, in whichever zone).

### GKE

- Cluster: `DeletedInv` (the deletion is noted only of a control plane without a GKE cluster, when no pass that
  could make one is on its way), `GuardInv`, `NetInv` (the network is whole when any copy of either object says so
  and the control plane is there; a pass takes it down only after the control plane is gone) and `IdInv`
  (a cluster is made again only after somebody else deleted it, which bounds its number).
- Node pool: `ZonesInv`, and `GuardInv` (a node pool not made with the GKE cluster is there behind the finalizer
  only, and none is made between the decision to drop it and the patch).

### Instances

`SpecInv`: a machine's spec passed `ValidateCreate` when it was made, and what hardware and disks are built of has
not changed since, because `ValidateUpdate` compares it. The two properties follow from what `Instance` makes of such
a spec: a key that was checked is the key that is built (`CheckedKey`), and a disk that asks for a key when the root
disk has none is not built at all.

### What the proofs do not reach

Liveness under fairness and `ENABLED` are beyond the prover: `DeletionCompletes`, `BecomesReady`, `RollsOut` and
`Converges` are checked by TLC only. So are the four runs that end in a violation, of which there is nothing to
prove.

## 5. Findings

1. `cluster_groups_leak`: instance groups are found at deletion through the status only; a group created by
   a pass that did not get to persist its status stays behind: the controller stopped, or a later zone failed.
   Without any fault it also stays when the deletion pass begins with a cached copy older than the status.
2. `machine_zone_leak`: a machine without a failure domain is looked for in the zone the cluster lists first
   *now*; when that has changed, deletion finds nothing and the instance stays.
3. `gke_monitoring`: a changed monitoring service is requested as the logging service, in every pass again.
4. `disk_keys`: an additional disk that is given a key of its own is built with the key of the root disk, in machines
   and in pools.

The models have some more behaviour of the code that a reader may not expect, and no run of its own:

- `Delete` of the subnets returns, instead of going on, at the first subnet that CAPG did not make.
- Backends are compared by number; failure domains replaced by as many others are no difference.
- A repairable instance state sets a terminal failure reason that is never cleared.
- Deleting one machine pool deletes the templates of all pools of the cluster, as far as they are not in use.
- A node pool in error keeps `status.ready`: the error sets `GKEMachinePoolReady`, which `status.ready` does not
  follow.
- A node pool whose spec leaves `scaling` out is made without autoscaling and then updated to autoscaling with
  at most one node.
- An additional disk with a key panics the scope when the root disk has none; so does, in a machine, a disk without
  a device type. With a root key that is supplied empty, which the webhook admits, no disk is encrypted.
- A deleted machine or machine pool whose GCPCluster is gone keeps its finalizer. So does a GKE machine pool whose
  control plane is gone or never ready again, and with it the GKE cluster's objects, which wait for their pools.
- A node pool never settles when its locations are listed in another order than GKE's, or when GKE leaves out an empty
  value that the spec has: it is updated in every pass, and its size is not looked at.
- Two fields of a GKE cluster that are changed together are requested together, and refused in every pass.

## 6. Not modelled

- Labels and tags, except that a tag that cannot be read changes the content of a template; their merging and
  lowering are functions of maps and strings.
- Contents of resources other than those of `InstanceSpec` (ports, ranges, images): no property tells them apart.
- Foreign firewall rules and foreign load balancer resources: the code has no ownership check for them, and
  the repository states no intent.
- Edits of the network spec other than failure domains.
- What the kubeconfig secrets hold; the fields of a new GKE cluster that are copied from the spec.
- Validation of single values in the webhooks, and formatting and parsing of provider IDs, hashes and
  locations: functions of strings, which unit tests reach.
- The GKE bootstrap config controller: it fills one secret, with no choice and no other actor.
- Clients, credentials, flags, metrics and logging: I/O and set-up.
- Vendored and generated code. GCP, the API server, the patch helper and Cluster API are external: they are
  modelled by how this code uses them.

## 7. Plan

1. `GCPCluster`: modelled, checked, core proved. *Done.*
2. `GCPMachine` over `ObjectController` and `ClusterInfrastructure`. *Done.*
3. `GCPMachinePool` over `ObjectController`, refining `ResourceLifecycle`. *Done.*
4. GKE: `ManagedCluster` and `ManagedMachinePool` over `ManagedObject`. *Done.*
5. `InstanceSpec`: webhook, and what is built. *Done.*
6. Proofs of the safety properties of every module, over invariants of the two shared runtimes. *Done.*
7. Next: what is known only on paper and could be stated and proved, such as what a step of the machine and pool
   controllers may never do (action properties beside `EndpointStable`), and the GKE cluster and the node pool as
   refinements of `ResourceLifecycle`.
