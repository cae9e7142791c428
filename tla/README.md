# Klaudete: TLA+ models

Klaudete is a Kubernetes operator. Users declare *Resources*; the operator
registers them in an Inventory service, connects them to one another, provisions
Kubernetes objects for them and patches their status with what those objects
report. ResourceGroups expand to Resources in dependency order, definitions
expand templates to Resources or ResourceGroups, ResourceTypes are mirrored to
Inventory.

This directory models the five controllers, the provisioner, the dependency order and
the patches, checks the models with TLC on small instances, and proves with TLAPS the
safety of the controllers and of the provisioner. File and line references are to `src/`.

## The system

| Component | State it keeps | Operations | What makes it correct |
|---|---|---|---|
| Resource controller (`internal/controller/resource_controller.go`) | status of a Resource: phase, inventory record, provisioner state | one `Reconcile` of five stages: type check, registration, connections, provisioning, patches; then Ready | a nurn is only recorded for a registered resource and never lost; Ready implies connected, current in Inventory, provisioned; no unfinished work is left without a wake-up |
| ResourceGroup controller (`resourcegroup_controller.go`) | status of a group; the Resources it owns | expand the entries one by one, waiting for or giving up on their phases | a quiet Ready group has applied all of its entries; creation follows the dependencies; no edit is lost |
| ResourceDefinition and ResourceGroupDefinition controllers (`resourcedefinition_controller.go`, `resourcegroupdefinition_controller.go`) | status of a definition, with the list of expanded objects; those objects | expand the template once per value of the generator | a quiet definition is fully expanded and listed; Ready is only announced at the end of a whole round over the values of one version; the self-waking loop settles |
| ResourceType controller (`resourcetype_controller.go`) | status of a type; its entry in Inventory | upsert, then InSync | InSync implies an entry with the current description |
| Predicates (`predicates.go`) | none | drop updates that keep the generation | no edit is dropped |
| Provisioner (`internal/provisioning`) | the managed objects; during a run the order, the expression arguments and `state` | sort the objects, evaluate, create or update each one, read it back and judge it by failedWhen and readyWhen | the answer is about all objects of one spec, as that run saw them; objects come after those they read; what is left after Success is written from the current spec |
| Dependency graph (`internal/dag`, `internal/exprs`) | none | find what expressions refer to, sort stably | what is sorted before an element is what its expressions read |
| Patches (`internal/patches`) | a map that is changed in place | set a value under a path | the value reads back, everything else stays |
| Generators (`internal/generators`) | none | list values, from the spec or from Inventory | one list per reconciliation |
| Inventory client (`internal/inventory`) | entries and connections, in an external service | create, update, connect, upsert type, run a KCL program | see `InventoryRegistry` |
| Expression values, secret functions, serde (`internal/exprs`, `internal/provisioning/functions`, `internal/serde`) | none | evaluate, read cluster objects, JSON there and back | - |
| Manager, CRDs, tests (`cmd`, `config`, `test`) | none | wiring | - |

The parts interact through shared objects only. Every read goes through an
informer cache that lags behind the API server; every write is refused unless
its copy is current (optimistic concurrency on `resourceVersion`); events wake a
controller through a work queue, behind the generation predicate for Resources,
groups and types, unfiltered for definitions. No controller watches the objects
it creates. Inventory is called synchronously and is never told of a deletion.
One manager is active (one replica and leader election,
`config/manager/manager.yaml`) with one worker per controller (the default
`MaxConcurrentReconciles`); a panic in a handler is recovered and becomes an
error (the default `RecoverPanic` of controller-runtime 0.19).

What is hard, and what the modules keep for it: every cached read may be stale
and the same `Reconcile` mixes copies of several moments; users edit, delete and
recreate objects between any two steps; a restart forgets everything but the
stored objects and enqueues them all; remote calls fail, with or without their
effect; retry loops are exhausted; a `Reconcile` that ends without asking for a
requeue is never repeated; panics repeat forever. `PROJECT.json` lists the
hazards, each at its line, with the properties that cover it.

## Modules

| Module | Models | Depends on |
|---|---|---|
| `KlaudeteApi` | the phases, status fields and states of `api/v1alpha1`, and `NextPhases`, how the phase of a Resource may move | - |
| `ResourceWorld` | API server, informer cache, predicate, queue, users, Inventory, managed objects, garbage collector, ResourceType | `KlaudeteApi` |
| `ResourceController` | `ResourceReconciler.Reconcile`, with the provisioner and the Inventory client it calls | `ResourceWorld` |
| `ResourceProperties` | its properties, inductive invariants, refinement mapping | `ResourceController`, `InventoryRegistry` |
| `InventoryRegistry` | the abstract specification: register, record, join, forget | - |
| `ResourceProofs` | type correctness of `ResourceController`; the registry and the connections | `ResourceProperties` |
| `ResourceRestProofs` | what a quiet Resource is left with | `ResourceProofs` |
| `ResourceIncarnationProofs` | what holds as long as names rest before they are used again | `ResourceRestProofs` |
| `ResourceGroupController`, `ResourceGroupProperties` | `ResourceGroupReconciler.Reconcile`, with the graph and the arguments it uses | `KlaudeteApi` |
| `ResourceGroupProofs` | the safety theorems of the group controller | `ResourceGroupProperties` |
| `DefinitionController` | both definition controllers, with the generators, and their properties, refinement mapping and inductive invariants | `ExpansionContract` |
| `ExpansionContract` | the abstract specification of an expansion: begin a round, put the objects of its values one by one, announce or give up | - |
| `DefinitionProofs` | their safety theorems and the refinement | `DefinitionController` |
| `ResourceTypeController` | `ResourceTypeReconciler.Reconcile` and `UpsertResourceType` | `KlaudeteApi` |
| `ResourceTypeControllerProofs` | its safety theorems | `ResourceTypeController` |
| `Dependencies` | what expressions are found to depend on, and the order `Graph.Sort` gives | - |
| `Provisioner` | `Run` and `Apply` over several objects, under edits, removals, failures and restarts | `Dependencies` |
| `ProvisionerContract` | the abstract specification of a run: begin, see each object once, conclude or give up | - |
| `ProvisionerProperties` | properties, refinement mapping and inductive invariants of `Provisioner` | `Provisioner`, `ProvisionerContract` |
| `ProvisionerProofs` | its safety theorems and the refinement | `ProvisionerProperties` |
| `Patches` | `patches.ApplyTo` and the loop over the patches of a Resource, beside a reference definition | - |
| `PatchesProofs` | its theorems | `Patches` |
| `MCResource`, `MCResourceGroup`, `MCDefinition`, `MCProvisioner`, `MCPatches` | constants for TLC | |

An operator named `XSlip` is a mutated form of `X`, for mutation runs; nothing
refers to it.

### How state and actions correspond to the code

The controllers are modelled alike.

- `store`, `group`, `def`, `stored` are objects as the API server holds them;
  `cache`, `gcache`, `dcache`, `cached` the informer's copies. A `Deliver` action
  brings a copy up to date and wakes the controller when the predicate passes the
  event. It may skip versions, which the cache could have shown and overwritten
  unread, but never a deletion followed by a creation.
- `pc` says where the worker is; `obj` is the local variable that holds the object,
  `props`, `link`, `outcome`, `args`, `entry`, `index`, `known` the other locals.
- A step of the worker ends where another party can act and be noticed: at every
  write, every remote call and every cached re-read. The code between two such
  points is one action, its early returns and error paths included.
- `Status().Update(ctx, copy)` succeeds exactly when the copy equals the stored
  object: values stand for resourceVersions. Only a status that returns to an
  earlier value would tell the two apart.
- `retry.RetryOnConflict` over {Get; change; Update} is one step when it lands:
  a try on a stale cache is refused and changes nothing. It ends with an error when
  the object is gone, when its backoff is exhausted or when the API server fails;
  the bound `MaxFaults` counts the last two.
- `newResourceCondition` and its siblings end with a cached `Get` whose result
  replaces the local copy. It is a step of its own, because the cache may still hold
  the object from before the write. After the last write of a `Reconcile` it can
  only cause one more requeue, and is left out.
- A panic (a nil map) is an error: the key is requeued.
- `Crash` is a restart of the manager: locals, queue and cache are lost, the first
  list of the informer enqueues every object.
- The generation stands for the content of a spec. Conditions are written together
  with every phase and are left out; `len(Conditions) == 0` is the empty phase.

`ResourceController`: `Start` to `WriteTypeFailed` are lines 69 to 142,
`Register` and `Record` 144 to 189, `Connect` to `WriteInvalid` 191 to 244,
`Begin` to `ReadOutcome` 245 to 342 with `provisioner.go` and `resources.go`,
`Patch` and `Sync` 344 to 438, `WriteReady` 441 to 462. Which Resources have a
provisioner, patches and which connections are constants of the model;
edits change the content of the spec. The provisioner manages one object, which has
a spec, an owner reference to the incarnation that created it, and a controller of
its own that makes it ready or failed.

`ResourceGroupController`: the spec of a group is a version for each entry (0 when
the entry is not listed), so edits change, remove and restore entries; its generation counts the edits,
and is what the predicate compares: of two edits that cancel out the second is an event, too. What an
entry's expressions depend on (`Needs`) is a constant, and whether they read the
spec or a status of it depends on the entry's version (`Awaits`). `dag.Sort` is
the set of candidates whose dependencies are processed; the order among those is
left open, which allows more than the code does. `Needs` is what `Dependencies` finds in the texts of
`MCResourceGroup` (the assumption `PairIsFound`). An entry in `Renamed` has an expression in its
metadata.name, and `Found` never sees its Resource's phase. The Resource controller is the
action `Work`, which moves the phase as `NextPhases` allows: an assumption here and the property `PhasesMove` of the real
controller in run `incarnation`; `Visits` narrows the phases down per entry.

`DefinitionController`: one module for both kinds, which differ in the status they
write. A template is the name it gives each value and a version. `Resolve` reads the values
of the generator once per reconciliation: those of its spec, or what Inventory offers
at that moment (`Offer` changes it, and nobody is told). A definition may be deleted at any
moment; `Collect` is the garbage collector. `FreshUid` gives a created object the least
identity in no object, copy or list, which keeps the state space finite and tells as much apart
as fresh identities would. `Touch` is a status write of the expanded object's own
controller.

`Dependencies`: an expression is the variable it starts with and its references in textual
order. `FirstMatch` is what `FindStringSubmatch` returns: one match for each of the four
regular expressions. `Sort` states the order of `StableTopologicalSort` as a condition on
sequences (by the visit that frees an element, then alphabetically), not as an algorithm.

`Provisioner`: `Start` is the graph of `Run`; `Evaluate`, `Create`, `Update`, `Refresh`
the calls of `Apply` for one object, `Conclude` the end of the loop. `args` is the
map of expression arguments, which starts over with every run; an expression that
reads what is not there ends the run with an error, and `Reconcile` repeats it.
A rendered object holds the versions its expressions read. `ResourceController` keeps its own
single managed object, since its properties are about what becomes of the answer.

`Patches`: Go maps are references, so the status is a heap of maps and `ApplyTo` changes it
in place. `Source` keeps the walk of `apply` as it is: when a name is missing, the rest of the
path is resolved in the same map. `SetPath` is the reference.

`ResourceTypeController`: `LookUp`, `CreateEntry` and `SyncEntry` are the three
calls of `UpsertResourceType`. `WriteInSync` keeps the flaw of line 85: the error of
the `Get` is discarded and the condition looks at the variable the previous try
left, so a conflict is never retried in place; the next reconciliation repeats it, as it does
a write that the API server fails. `TypeGoesForward` is what `ResourceWorld` supposes of a
ResourceType.

## Runs

| Run | Instance | States | Shows |
|---|---|---|---|
| `lifecycle` | one provisioned, patched Resource, whose type is absent or pending at first; 2 incarnations of 2 generations, 1 fault, 1 restart; Inventory may refuse duplicates | 537,911 | the nurn is registered wherever it is recorded, and never lost; a quiet Resource is Ready or Failed; a quiet Ready one is current in Inventory with its outputs |
| `incarnation` | the same Resource, 1 incarnation of 3 generations, managed objects may fail; fairness | 167,459 | Ready keeps the nurn; the managed object is current and owned; the phase moves as `NextPhases` says; it ends up Ready |
| `links` | two Resources that wait for each other, one provisioned, the other with an invalid connection at the end; 2 incarnations in all, 1 fault, 1 restart; fairness | 122,892 | Ready only when connected and provisioned; every step implements `InventoryRegistry`; no deadlock |
| `group` | entries a and b, b reads the spec or a status of a and has an expression in its name; 1 edit, failing Resources, 1 deletion, 1 fault or restart; fairness | 449,342 | a quiet Ready group is applied and read current specs, creation follows dependencies, only Ready and Failed are final; a group that stays ends up Ready and applied |
| `definition` | both kinds; values x, y, z of which y and z share a name, from 3 lists or from an Inventory that changes; 2 versions, 1 touch, 1 fault or restart, deletion; fairness | 362,491 | a quiet definition is expanded and listed; every step implements `ExpansionContract`; it settles |
| `type` | 2 incarnations of 3 generations, 2 faults, 1 restart; fairness | 23,661 | InSync implies registered; a quiet type is in sync with its description; it gets there |
| `provisioner` | three objects, one without a spec and a verdict: first in a cycle, then in a chain over both forms of reference, then in another order without one of them; 1 removal, 1 fault, 1 restart; fairness | 14,299 | every run implements `ProvisionerContract`, in dependency order; what is left after Success is written from the current spec; it gets there |
| `patches` | up to 2 patches with paths of up to 3 names of 3, over three documents | 53,303 | a patch reads back, and sets its path as the reference does |
| `failedReady` | violation | | a Resource whose provisioner failed is written Ready |
| `lostOutcome` | violation | | a Ready Resource without the provisioner state it just recorded |
| `groupMetadata` | violation, with fairness | | a group with annotated entries never gets Ready |
| `provisionerOrder` | violation | | an object is evaluated before one its expression reads is applied |

Every property of a passing run has a mutant in `PROJECT.json`: a plausible slip
in one definition under which the run finds the property violated.

**Bounds.** Each bound is a guard on the actor it limits: `MaxUid`, `MaxDeletes`, `MaxGen`,
`MaxEdits`, `MaxVersion` on users, `Offers` on the answers of Inventory, `MaxFaults` on
failing calls and exhausted retries (and on restarts, in the group and the definition),
`MaxCrashes` on restarts, `MaxTouches` and `MaxRemovals` on other controllers, `MaxPatches` and
`MaxLength` on the patches of a Resource. Reconciling itself is not bounded.
Two incarnations are enough for anything that outlives its object
(an Inventory entry, a cached copy, a managed object) to meet its successor;
two or three generations for an edit during the Reconcile of an earlier one, and another
during the Reconcile that follows; one fault and one restart give each partial
effect of a step followed by a clean repetition. Two Resources are enough for a
mutual wait, two entries for a dependency, three values for a collision beside a name
of its own, three objects for an order that differs from the alphabetical one and for two
references in one expression. Two patches are the least that can share a map; three names
the least in a path whose first name is missing and whose second is found elsewhere. The proofs
are independent of all of these.

**Fairness.** The worker loop runs whenever it has a step (`WF` on `Reconcile`), the
informers deliver, the managed objects' controllers and the garbage collector act.
`SF` on `Start(r)` reflects that the work queue is first in, first out: a key in it
is taken in its turn although others keep coming back. Users, faults and restarts
have no fairness; a fault is a choice inside a fair step, and only its bound keeps
it from being taken forever.

**Deadlock** is not checked: when users stop, a controller that has nothing left to
do stops too. What must not stop half-way is stated by `RestIsTerminal`,
`AtRestFinished`, `AtRestExpanded`, `AtRestInSync`, `AtRestAnswered` and the liveness properties.

**What users leave alone.** Users create, edit and delete Resources, groups, definitions and types,
the objects a controller wakes up for. They do not edit or delete what the controllers create:
a managed object (except in `Provisioner`, where `Remove` takes one away), a Resource of a group, an
object of a definition. No controller watches those, so one that is gone comes back only with the
next reconciliation; `AtRestManaged`, `AtRestApplied` and `AtRestExpanded` suppose that none goes.

**One incarnation.** Some properties hold as long as a name is not used again while something of
the last object with it is left: in the cache, in the worker's hands, or a managed object or
expanded object the garbage collector has not taken yet. `NamesRest` states this, once for each of
Resources, groups and definitions. Nothing in the code sees to it; users do, usually. The
runs have it by their bounds, the proofs as a premise, for any number of incarnations.
`AtRestManaged`, `ReadyKeepsNurn`, `PhasesMove`, `ReadyMeansProvisioned` and
`Converges` are checked for Resources that are not recreated in the middle of a Reconcile (in
`links` the two incarnations are one of each Resource, or two of the one that then waits for the
other in vain). Every retry loop re-reads by name, so
the writes of a Reconcile of the old incarnation go to the new one, which may then be
Ready before it is registered or provisioned itself; and the managed object of the
old incarnation may be collected under it. The registry and connection
invariants hold through recreation: the registry is checked so in `lifecycle`, and both are proved.
The runs of groups and definitions delete but do not create again: with `MaxUid = 2`, which lets a
user break `NamesRest`, TLC finds `AtRestApplied`, `CreatedInOrder`, `LeavesThroughProgress` and
`AtRestExpanded` violated, because what a dead incarnation owned is updated but not adopted, and
collected under a Ready successor, and because the status the old Reconcile still has to write goes
to the new group. What needs no such premise (`RestIsTerminal`, `AtRestReadyIsCurrent`,
`AtRestFinished`, type correctness) is proved without it.

## Findings

1. `failedReady`: after `Run`, only a running provisioner stops the Reconcile
   (`resource_controller.go:340`). A failed one goes on to the patches and to Ready.
2. `lostOutcome`: the re-read after the status write of line 329 may return the object
   before it; the patches compute the whole status from that copy and line 409 writes
   it back. Without patches the claim holds (`links`).
3. `groupMetadata`: a Resource is created without its annotations
   (`resourcegroup_controller.go:290`), and every later pass inserts them into a nil map
   and panics (line 311). The definition controllers do the same when a template gets
   its annotations later (`resourcedefinition_controller.go:296`); their run has
   annotations from the first version on.
4. `provisionerOrder`: an expression with two references of one form depends on the first
   only (`expr.go:97`), so `Sort` may put its object before the second, and every
   run ends with an evaluation error.

## Proofs

All are checked by TLAPS, for every value of the constants that meets the named assumptions:
`ResourceAssumption`, `EnvironmentAssumption` and `BoundAssumption` of `ResourceWorld`,
`GroupAssumption`, `DefinitionAssumption`, `ContractAssumption`, `TypeAssumption`, `RankAssumption`,
`ProvisionerAssumption` and `PatchesAssumption` say that the constants have the expected types, that `Nil` is no object, entry or
description (nor what a contract sees of one), that a version lists finitely many objects, that a template has finitely many names, and that a status
starts as a tree, as JSON read into maps is.

| Theorem | States | Rests on |
|---|---|---|
| `TypeCorrect` | `Spec => []TypeOK` of `ResourceController` | one lemma for the world, one for the worker |
| `Registered` | `Spec => []RecordedIsRegistered` | `RegistryInv` |
| `NurnKept` | `Spec => NurnNeverLost` | `RegistryInv` |
| `RegistryImplemented` | `Spec => ImplementsRegistry` | `RegistryInv`, `NurnKept`'s lemma on stored nurns |
| `ReadyConnected` | `Spec => []ReadyIsConnected` | `ConnectedInv`, `RegistryInv` |
| `RegistryInductive`, `ConnectedInductive` | `Spec => []RegistryInv`, `Spec => []ConnectedInv` | as above |
| `RestTerminal` | `Spec => []RestIsTerminal` | `AwakeInv`, `VersionsInv` |
| `RestCurrent` | `Spec => []AtRestReadyIsCurrent` | `CurrentInv`, `AwakeInv`, `VersionsInv` |
| `ReadyHasNurn` | `Spec /\ NamesRest => []ReadyKeepsNurn` | `CopiesInv`, `PhaseInv` |
| `PhasesMoveOn` | `Spec /\ NamesRest => PhasesMove` | `CopiesInv`, `PhaseInv` |
| `RestManaged` | `Spec /\ NamesRest => []AtRestManaged` | `ManagedInv`, `CurrentInv`, `CopiesInv`, `PhaseInv` |
| `ReadyProvisioned` | `Spec /\ NamesRest => []ReadyMeansProvisioned`, when nothing is patched and no managed object can fail | `PassedInv` (in `ResourceIncarnationProofs`) |
| `GroupTyped` | `Spec => []TypeOK` of `ResourceGroupController` | `ProcessedInv` |
| `GroupFinished` | `Spec => []AtRestFinished` | `FinishedInv`, `VersionsInv` |
| `GroupInOrder` | `Spec /\ NamesRest => []CreatedInOrder` | `OwnersInv`, `AppliedInv`, `ProcessedInv` |
| `GroupApplied`, `GroupReads` | `Spec /\ NamesRest => []AtRestApplied`, `[]AtRestReads` | `AppliedInv`, `CopyInv`, `OwnersInv`, `ProcessedInv` |
| `GroupProgress` | `Spec /\ NamesRest => LeavesThroughProgress` | `ProgressInv`, `OwnersInv` |
| `DefinitionTyped` | `Spec => []TypeOK` of `DefinitionController` | `KnownInv`, `IndexInv` |
| `DefinitionExpanded` | `Spec /\ NamesRest => []AtRestExpanded` | `ExpandedInv`, `CopyInv`, `ValuesInv`, `OwnersInv`, `VersionsInv` |
| `ExpansionImplemented` | `Spec /\ NamesRest => ImplementsExpansion` | the same, and `OrderInv`, `SpecsInv`, `PendingInv` |
| `ProvisionerTyped` | `Spec => []TypeOK` of `Provisioner` | `RunInv` |
| `InOrder` | `Spec => []InDependencyOrder`, when every expression is `Detectable` | `RunInv`, lemmas on `Sort` |
| `ContractImplemented` | `Spec => ImplementsContract` | `RunInv` |
| `RenderedAtRest` | `Spec => []AtRestRendered` | `RenderInv`, `RunInv` |
| `Answered` | `Spec => []AtRestAnswered` | `AnswerInv` |
| `TypeControllerTyped` | `Spec => []TypeOK` of `ResourceTypeController` | `TypeInv` |
| `InSyncRegistered` | `Spec => []InSyncIsRegistered` | `TypeInv` (`WorkerInv`) |
| `QuietInSync` | `Spec => []AtRestInSync` | `TypeInv` (`CopiesInv`, `InSyncInv`) |
| `TypeForward` | `Spec => TypeGoesForward` | `TypeInv` (`WorkerInv`) |
| `PatchesTyped` | `Spec => []TypeOK` of `Patches` | `TypeInv` |
| `PatchesReadBack` | `Spec => []ReadsBack` | `ReadsInv` (the heap has no cycle) |
| `PatchesKeep` | `Spec => KeepsTheRest` | `KeepInv` (as long as all was straight, the heap is a tree) |

`RecordedIsRegistered` is not inductive: a nurn can also sit in the worker's copy, which is
written back later, so `RegistryInv` extends it to `obj`, to the step between the
creation and its record, and to the ends of connections (a connection needs two entries).
Its last two conjuncts carry `NurnNeverLost`: the status that `Patch` writes back whole
comes from a cached re-read, and that re-read follows a retry that only landed on
a current cache, so it is older than the outcome but never older than the record. This is
also why finding 2 loses the outcome and not the nurn.
`ConnectedInv` is needed for the same reason in `ReadyConnected`: Ready may
come out of the cache or the local copy, so connectedness is claimed for every copy
that says Ready, for every label after the loop, and for the targets the loop has passed.
Entries and connections only grow (lemma `Grows`), which disposes of every step of
the world at once.

Quiet states are not inductive either: what matters is how quiet comes about. `AwakeInv` says of
every Resource that is not Ready or Failed that something will look at it again: its key is queued
or being reconciled, or the informer is still to show an event that passes the predicate. A
Reconcile may only end without a requeue after it wrote one of the two. `CurrentInv` follows the
spec through a Reconcile that mixes copies: unless the key came back to the queue, the local copy
has the identity and the generation of the cached one, the properties to register are taken from
it, and Inventory got those. A newer object in the store is then still to be delivered, as an
event that puts the key back, since the cache is never ahead (`VersionsInv`).

`ReadyKeepsNurn`, `PhasesMove` and `AtRestManaged` are about which of the status writes of one
Reconcile lands on which object. `CopiesInv` says that each copy is of the living object, under
`NamesRest`, and not ahead of it; `PhaseInv` gives the phase at each label, so that a write from an
old copy is seen to be one that `NextPhases` allows; `ManagedInv` says that the managed
object is owned and, unless the key came back, made from the copy at hand. `ReadyProvisioned`
has two more premises, which are the two ways findings 1 and 2 make it fail; no others are
needed.

For groups, `ProcessedInv` says that what is processed is closed under `Needs` and was read when it
was applied; `FinishedInv` is `AwakeInv` for groups; `AppliedInv` claims of every processed entry that
its Resource is written from the worker's copy of the spec and read that copy's specs, and of
all entries of a Ready group once nothing holds it; `CopyInv` ties the copy to the cache. That a
Resource stays until then is `OwnersInv`: all that is there belongs to the living group.

For definitions, `KnownInv` (lists are finite) is what makes `FreshUid` exist: `Used` is then a finite
set, and one of the first `Cardinality(Used) + 1` numbers is not in it. `ExpandedInv` says of the values the
worker has passed that their objects are written from the last of them with the same name, and
that `known` lists exactly these. `AtRestExpanded` becomes true in one step only: the write of Ready
that changes nothing and so causes no event. `CopyInv` makes the definition it lands on the one the
expansion was made from. `ExpansionImplemented` needs more, because a round may be about a version
that is no longer the latest. `OrderInv` puts the versions in the order they travel: an object is
never ahead of the worker's copy, nor that of the cache or the definition, so the round that begins
next never takes an object back. `SpecsInv` says that a version is one spec in whatever copy, so
the values of a round about the latest version are the definition's own. At the end of a round
`ExpandedInv` gives the objects and the list that are announced, and `OwnersInv` keeps the objects
from being collected in the meantime.

In `Provisioner`, `RunInv` says what the loop of `Run` keeps: the order is one that `Sort`
gives for the copy of the spec, the arguments are the objects before the position in it,
what is about to be written can be evaluated, and `state` is `Success` exactly when no object
in the arguments was waiting. With it each step of the loop maps to a step of
`ProvisionerContract`. That an object comes after those it reads needs one more fact, that the
dependencies found are all there are; the premise `Detectable` states it (no reference in a
form that is not recognized, none to a generator, no two of one form), and finding 4 is what
happens without. `RenderInv` carries `AtRestRendered` over removals and edits: an
object written in this run is written from its copy of the spec, which is the cached one as
long as the key is not pending, so a run that was overtaken is repeated before all is quiet.

In `ResourceTypeController`, `AtRestInSync` is not inductive, because the status is written on a
copy that was read after the description was sent. `InSyncInv` closes the gap: as long as the key is
not pending, the copy at hand has the description in the cache; a newer object would have
passed the predicate and set `pending`. `CopiesInv` (incarnations are numbered, copies
are never ahead) tells an edited or recreated object from the one in the cache.

In `Patches`, the maps a patch walks through are the values of recursive functions, about which
the proofs argue with a minimal counterexample (lemma `Induct`). A patch changes its maps in place,
so its value could be overwritten by a later name of the same path if the walk came back to a map:
`Acyclic` gives every map a depth that grows with each name, so no two names are set in one
map (`OneLevel`), and a patch keeps it so although it may put maps where they do not belong. That
is enough for `ReadsBack`. `KeepsTheRest` also needs that no other path leads to a
changed map. `Tree` says so (a map is under one name of one map, and the root under none),
and stays true as long as no patch leaves its path; `Parts` then compares the walks along any other
path before and after: from the first name that differs on they are the same.

Model-checked only: liveness (`Converges`, `GroupConverges`, `Settles`, `GetsInSync`,
`Provisions`), which is out of reach of the prover. Every invariant and every other action
property of a passing run is proved, under the premises the table gives.

## Not modelled

The values of expressions (the expression library, conversions, the regular expressions as texts: an
expression is its references), secret functions, serialization (JSON there and back), the manager's
wiring, generated code, manifests and tests. Of what is modelled: changes of a Resource's
name, type reference or the presence of its provisioner; a managed object whose name is an
expression or changes with the spec; the outputs of several managed objects; two owners that
expand to one Resource; the content of a template beyond its name and version; Inventory entries
are never deleted (nothing in the code deletes one).

## Plan

1. Core (done): `ResourceWorld`, `ResourceController`, `InventoryRegistry`, their
   properties and proofs.
2. Other controllers (done): groups, definitions with their generators, types.
3. `Provisioner` and its contract, with proofs (done).
4. `Patches` beside a reference definition (done).
5. `Dependencies` (done).
6. Proofs of the safety of every component that is modelled (done).
7. Composition: the group over the Resource lifecycle instead of `NextPhases`, if the
   state space allows it.
