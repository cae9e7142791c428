---------------------------- MODULE ResourceWorld ----------------------------
(***************************************************************************)
(* What the ResourceReconciler lives in: the API server's store of         *)
(* Resources, the informer cache all of its reads go through, the work     *)
(* queue behind the generation predicate, the Inventory service, the       *)
(* objects the provisioner manages, and the users who create, edit and     *)
(* delete Resources while it runs.  The reconciler itself is               *)
(* ResourceController; the variables of both are declared here.            *)
(*                                                                         *)
(* In this and the other modules an operator named XSlip is a mutated form *)
(* of X, kept for mutation runs; nothing refers to it.                     *)
(***************************************************************************)
EXTENDS KlaudeteApi, Sequences

CONSTANTS
  Resource,          \* the names (and the nurns) of the Resources
  Links,             \* spec.connections of each Resource, a sequence
  Provisioned,       \* the Resources with a spec.provisioner
  Patched,           \* those whose patches set status.inventory.properties
  FirstType,         \* states the ResourceType may start in
  TypeMoves,         \* whether the ResourceType advances afterwards
  CanFail,           \* whether a managed object may reach its FailedWhen
  Duplicates,        \* what Inventory may answer to the creation of a known nurn
  MaxGen,            \* bound: spec generations of one incarnation
  MaxUid,            \* bound: incarnations ever created
  MaxFaults,         \* bound: failed remote calls and exhausted retries
  MaxCrashes,        \* bound: restarts of the controller
  Nil                \* no object, no entry, no key

\* A connection names its target by reference, by nurn, or not at all.
LinkTargets == [by: {"ref", "nurn", "nothing"}, to: Resource]

\* What Inventory holds under a nurn: the spec its properties come from, and
\* whether the outputs of the patches are among them.
Entry == [gen: Nat, outputs: BOOLEAN]

\* A managed object: the incarnation its owner reference names, the spec it
\* was applied from, and what its own controller says of it.
Managed == [owner: Nat, gen: Nat, state: {"progressing", "ready", "failed"}]

ASSUME ResourceAssumption ==
  /\ Nil \notin Resource
  /\ Nil \notin Object /\ Nil \notin Entry /\ Nil \notin Managed
  /\ Links \in [Resource -> Seq(LinkTargets)]
  /\ Patched \subseteq Provisioned
  /\ Provisioned \subseteq Resource
ASSUME EnvironmentAssumption ==
  /\ FirstType \subseteq TypeStates
  /\ {TypeMoves, CanFail} \subseteq BOOLEAN
  /\ Duplicates \subseteq {"accepted", "refused"}
ASSUME BoundAssumption ==
  {MaxGen, MaxUid, MaxFaults, MaxCrashes} \subseteq Nat

VARIABLES
  store,     \* the Resource objects, as the API server holds them
  cache,     \* the informer's copy of them: what every Get returns
  born,      \* how many incarnations have been created
  queue,     \* the keys waiting to be reconciled
  pc, key,   \* where the worker is, and in whose Reconcile
  obj,       \* the local variable `resource`
  props,     \* generation of the spec resourceToInventoryProperties was built from
  link,      \* index of the connection being made
  outcome,   \* provisioningStatus.State
  inventory, \* per nurn, the entry Inventory holds
  edges,     \* the connections Inventory holds
  managed,   \* per Resource, the object its provisioner applies
  rtype,     \* the state of the ResourceType, as cached
  faults, crashes  \* how many of each have happened

locals == <<obj, props, link, outcome>>
worker == <<pc, key, locals>>
cluster == <<store, cache, born>>
remote == <<inventory, edges, managed>>
budget == <<faults, crashes>>
vars == <<cluster, queue, worker, remote, rtype, budget>>

Labels == {"idle", "pending", "pendingRead", "type", "typeFailed", "register",
           "record", "connect", "invalid", "begin", "beginRead", "apply",
           "observe", "runFailed", "outcome", "outcomeRead", "patch", "sync",
           "ready"}

TypeOK ==
  /\ store \in [Resource -> Object \union {Nil}]
  /\ cache \in [Resource -> Object \union {Nil}]
  /\ born \in Nat
  /\ queue \subseteq Resource
  /\ pc \in Labels
  /\ IF pc = "idle" THEN key = Nil /\ obj = Nil
                    ELSE key \in Resource /\ obj \in Object
  /\ props \in Nat
  /\ link \in Nat
  /\ pc = "connect" => link > 0
  /\ outcome \in Outcomes \union {"none"}
  /\ inventory \in [Resource -> Entry \union {Nil}]
  /\ edges \subseteq Resource \X Resource
  /\ managed \in [Resource -> Managed \union {Nil}]
  /\ rtype \in TypeStates
  /\ faults \in Nat
  /\ crashes \in Nat

Init ==
  /\ store = [r \in Resource |-> Nil]
  /\ cache = [r \in Resource |-> Nil]
  /\ born = 0
  /\ queue = {}
  /\ pc = "idle" /\ key = Nil
  /\ obj = Nil /\ props = 0 /\ link = 0 /\ outcome = "none"
  /\ inventory = [r \in Resource |-> Nil]
  /\ edges = {}
  /\ managed = [r \in Resource |-> Nil]
  /\ rtype \in FirstType
  /\ faults = 0 /\ crashes = 0

-----------------------------------------------------------------------------
(***************************************************************************)
(* Users.                                                                  *)
(***************************************************************************)
Create(r) ==
  /\ store[r] = Nil
  /\ born < MaxUid
  /\ born' = born + 1
  /\ store' = [store EXCEPT ![r] = NewObject(born + 1)]
  /\ UNCHANGED <<cache, queue, worker, remote, rtype, budget>>

Edit(r) ==
  /\ store[r] # Nil
  /\ store[r].gen < MaxGen
  /\ store' = [store EXCEPT ![r].gen = @ + 1]
  /\ UNCHANGED <<cache, born, queue, worker, remote, rtype, budget>>

\* There are no finalizers: the object goes at once, and Inventory keeps its entry.
Delete(r) ==
  /\ store[r] # Nil
  /\ store' = [store EXCEPT ![r] = Nil]
  /\ UNCHANGED <<cache, born, queue, worker, remote, rtype, budget>>

\* (slip: updates are dropped altogether)
PassesSlip(old, new) == old = Nil \/ new = Nil \/ old.uid # new.uid

(***************************************************************************)
(* The informer delivers the stored state of r.  Whatever it skips, the    *)
(* cache could have shown and overwritten before anyone read it.  The      *)
(* predicate lets creations, deletions and generation changes through; a   *)
(* new incarnation is a deletion and a creation.                           *)
(***************************************************************************)
Passes(old, new) ==
  \/ old = Nil \/ new = Nil
  \/ old.uid # new.uid
  \/ old.gen # new.gen

Deliver(r) ==
  /\ cache[r] # store[r]
  /\ cache' = [cache EXCEPT ![r] = store[r]]
  /\ queue' = IF Passes(cache[r], store[r]) THEN queue \union {r} ELSE queue
  /\ UNCHANGED <<store, born, worker, remote, rtype, budget>>

(***************************************************************************)
(* The controllers of the managed objects, and the garbage collector that  *)
(* removes an object whose owner reference names a dead incarnation.       *)
(***************************************************************************)
Settle(r) ==
  /\ managed[r] # Nil
  /\ managed[r].state = "progressing"
  /\ \E s \in {"ready"} \union (IF CanFail THEN {"failed"} ELSE {}) :
       managed' = [managed EXCEPT ![r].state = s]
  /\ UNCHANGED <<cluster, queue, worker, inventory, edges, rtype, budget>>

Owned(r) == store[r] # Nil /\ managed[r].owner = store[r].uid

Collect(r) ==
  /\ managed[r] # Nil
  /\ ~Owned(r)
  /\ managed' = [managed EXCEPT ![r] = Nil]
  /\ UNCHANGED <<cluster, queue, worker, inventory, edges, rtype, budget>>

\* The ResourceType is created, and its own controller brings it in sync.
MoveType ==
  /\ TypeMoves
  /\ rtype # "insync"
  /\ rtype' = IF rtype = "absent" THEN "pending" ELSE "insync"
  /\ UNCHANGED <<cluster, queue, worker, remote, budget>>

World == MoveType \/ \E r \in Resource :
  Create(r) \/ Edit(r) \/ Delete(r) \/ Deliver(r) \/ Settle(r) \/ Collect(r)
=============================================================================
