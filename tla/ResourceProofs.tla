---------------------------- MODULE ResourceProofs ----------------------------
(***************************************************************************)
(* Type correctness and safety of ResourceController, for any set of       *)
(* Resources, any connections and any bounds: what is recorded is          *)
(* registered, a recorded nurn stays, a Ready Resource is connected, and   *)
(* the whole implements InventoryRegistry.                                 *)
(***************************************************************************)
EXTENDS ResourceProperties, TLAPS

\* The ways a status write changes an object leave it an object.
LEMMA ObjectWrites ==
  ASSUME NEW o \in Object
  PROVE  /\ \A p \in Phases : [o EXCEPT !.phase = p] \in Object
         /\ [o EXCEPT !.gen = @ + 1] \in Object
         /\ Recorded(o) \in Object
         /\ obj \in Object => PatchStatus(o) \in Object
  <1>1. \A p \in Phases : [o EXCEPT !.phase = p] \in Object
    BY DEF Object
  <1>2. [o EXCEPT !.gen = @ + 1] \in Object
    BY DEF Object
  <1>3. Recorded(o) \in Object
    BY DEF Object, Recorded, InventoryRefs
  <1>4. ASSUME obj \in Object PROVE PatchStatus(o) \in Object
    <2>1. PatchedRef \in InventoryRefs
      BY DEF PatchedRef, InventoryRefs
    <2>2. QED
      BY <1>4, <2>1 DEF Object, PatchStatus
  <1>5. QED
    BY <1>1, <1>2, <1>3, <1>4

\* An entry written to Inventory keeps the type of its table.
LEMMA EnterType ==
  ASSUME TypeOK, NEW b \in BOOLEAN, Enter(b)
  PROVE  inventory' \in [Resource -> Entry \union {Nil}]
  <1>1. [gen |-> props, outputs |-> b] \in Entry
    BY DEF TypeOK, Entry
  <1>2. QED
    BY <1>1 DEF Enter, TypeOK

\* A new object is an object.
LEMMA NewObjectType == ASSUME NEW u \in Nat PROVE NewObject(u) \in Object
  BY DEF NewObject, Object, Phases, InventoryRefs

\* Returning keeps the types of the worker's variables.
LEMMA ReturnType ==
  ASSUME TypeOK, key \in Resource, Done \/ Requeue
  PROVE  /\ queue' \subseteq Resource
         /\ pc' = "idle" /\ key' = Nil /\ obj' = Nil
         /\ props' \in Nat /\ link' \in Nat
         /\ outcome' \in Outcomes \union {"none"}
  BY DEF Done, Requeue, Return, TypeOK

\* A write of an object keeps the types of the cluster's variables.
LEMMA WriteType ==
  ASSUME TypeOK, key \in Resource, NEW o \in Object, Write(o) \/ UNCHANGED cluster
  PROVE  /\ store' \in [Resource -> Object \union {Nil}]
         /\ cache' \in [Resource -> Object \union {Nil}]
         /\ born' \in Nat
  BY DEF Write, TypeOK, cluster

\* A retry loop that fails changes the worker and the fault count only.
LEMMA RetryFailsType ==
  ASSUME TypeOK, key \in Resource, RetryFails
  PROVE  TypeOK'
  <1>1. faults' \in Nat /\ crashes' \in Nat /\ Requeue
        /\ UNCHANGED <<cluster, remote, rtype>>
    BY DEF RetryFails, RetryFindsNothing, RetryExhausted, Fault, TypeOK, budget
  <1>2. pc' = "idle" /\ key' = Nil /\ obj' = Nil /\ queue' \subseteq Resource
        /\ props' \in Nat /\ link' \in Nat /\ outcome' \in Outcomes \union {"none"}
    BY <1>1, ReturnType
  <1>3. UNCHANGED <<store, cache, born, inventory, edges, managed, rtype>>
    BY <1>1 DEF cluster, remote
  <1>4. "idle" \in Labels
    BY DEF Labels
  <1>5. QED
    BY <1>1, <1>2, <1>3, <1>4 DEF TypeOK

\* The steps of the world keep the types.
LEMMA WorldType == ASSUME TypeOK, World PROVE TypeOK'
  <1>1. CASE MoveType
    BY <1>1 DEF MoveType, TypeOK, TypeStates, cluster, worker, locals, remote, budget
  <1>2. ASSUME NEW r \in Resource, Create(r) PROVE TypeOK'
    <2>1. NewObject(born + 1) \in Object /\ born + 1 \in Nat
      BY NewObjectType DEF TypeOK
    <2>2. QED
      BY <1>2, <2>1 DEF Create, TypeOK, worker, locals, remote, budget
  <1>3. ASSUME NEW r \in Resource, Edit(r) PROVE TypeOK'
    <2>1. store[r] \in Object
      BY <1>3 DEF Edit, TypeOK
    <2>2. store' = [store EXCEPT ![r] = [store[r] EXCEPT !.gen = @ + 1]]
      BY <1>3 DEF Edit
    <2>3. store' \in [Resource -> Object \union {Nil}]
      BY <2>1, <2>2, ObjectWrites DEF TypeOK
    <2>4. QED
      BY <1>3, <2>3 DEF Edit, TypeOK, worker, locals, remote, budget
  <1>4. ASSUME NEW r \in Resource, Delete(r) PROVE TypeOK'
    BY <1>4 DEF Delete, TypeOK, worker, locals, remote, budget
  <1>5. ASSUME NEW r \in Resource, Deliver(r) PROVE TypeOK'
    BY <1>5 DEF Deliver, TypeOK, worker, locals, remote, budget
  <1>6. ASSUME NEW r \in Resource, Settle(r) PROVE TypeOK'
    <2>1. PICK s \in {"ready", "failed"} : managed' = [managed EXCEPT ![r].state = s]
      BY <1>6 DEF Settle
    <2>2. [managed[r] EXCEPT !.state = s] \in Managed
      BY <1>6, <2>1 DEF Settle, TypeOK, Managed
    <2>3. managed' \in [Resource -> Managed \union {Nil}]
      BY <2>1, <2>2 DEF TypeOK
    <2>4. QED
      BY <1>6, <2>3 DEF Settle, TypeOK, cluster, worker, locals, budget
  <1>7. ASSUME NEW r \in Resource, Collect(r) PROVE TypeOK'
    BY <1>7 DEF Collect, TypeOK, cluster, worker, locals, budget
  <1>8. QED
    BY <1>1, <1>2, <1>3, <1>4, <1>5, <1>6, <1>7 DEF World

\* Outside a Reconcile the worker holds nothing; inside, a key and its object.
LEMMA Busy == ASSUME TypeOK, pc # "idle" PROVE key \in Resource /\ obj \in Object
  BY DEF TypeOK

\* The steps of a Reconcile keep the types.
LEMMA ReconcileType == ASSUME TypeOK, Reconcile PROVE TypeOK'
  <1> USE DEF Labels
  <1>0. key \in Resource /\ obj \in Object
    BY Busy DEF Reconcile, WritePending, ReadPending, CheckType, WriteTypeFailed,
       Register, Record, Connect, AllConnected, WriteInvalid, Begin, ReadBegin,
       Apply, Observe, WriteRunFailed, RecordOutcome, ReadOutcome, Patch, Sync,
       WriteReady, FailSpec
  <1>a. \A p \in Phases : WriteCopy([obj EXCEPT !.phase = p]) =>
          /\ store' \in [Resource -> Object \union {Nil}]
          /\ cache' \in [Resource -> Object \union {Nil}]
          /\ born' \in Nat
    BY <1>0, ObjectWrites, WriteType DEF WriteCopy
  <1>1. CASE WritePending
    <2>1. WriteCopy([obj EXCEPT !.phase = "Pending"])
      BY <1>1 DEF WritePending
    <2>2. QED
      BY <1>0, <1>1, <1>a, <2>1, ReturnType
         DEF WritePending, Goto, TypeOK, Phases, locals, remote, budget
  <1>2. CASE ReadPending
    BY <1>0, <1>2, ReturnType
       DEF ReadPending, Reread, Goto, TypeOK, cluster, remote, budget
  <1>3. CASE CheckType
    <2>1. props' \in Nat /\ faults' \in Nat /\ crashes' \in Nat
      BY <1>0, <1>3, ReturnType
         DEF CheckType, Fault, Goto, TypeOK, Object, locals, budget
    <2>2. QED
      BY <1>0, <1>3, <2>1, ReturnType
         DEF CheckType, Goto, TypeOK, cluster, remote, locals
  <1>4. CASE WriteTypeFailed \/ WriteInvalid
    <2>1. WriteCopy([obj EXCEPT !.phase = "Failed"]) /\ (Done \/ Requeue)
      BY <1>4 DEF WriteTypeFailed, WriteInvalid, FailSpec
    <2>2. QED
      BY <1>0, <1>4, <1>a, <2>1, ReturnType
         DEF WriteTypeFailed, WriteInvalid, FailSpec, TypeOK, Phases, remote, budget
  <1>5. CASE Register
    <2>1. inventory' \in [Resource -> Entry \union {Nil}]
      <3>1. Enter(FALSE) \/ UNCHANGED inventory
        BY <1>5 DEF Register, CreateInInventory, UpdateInInventory, InventoryRefuses
      <3>2. QED
        BY <3>1, EnterType DEF TypeOK
    <2>2. faults' \in Nat /\ crashes' \in Nat
      BY <1>5 DEF Register, Fault, TypeOK, budget
    <2>3. QED
      BY <1>0, <1>5, <2>1, <2>2, ReturnType
         DEF Register, CreateInInventory, UpdateInInventory, InventoryRefuses,
             Enter, Goto, TypeOK, cluster, locals
  <1>6. CASE Record
    <2>1. CASE RetryFails
      BY <1>0, <2>1, RetryFailsType
    <2>2. CASE RetryLands /\ Write(Recorded(cache[key]))
               /\ obj' = Recorded(cache[key]) /\ link' = 1 /\ Goto("connect")
               /\ UNCHANGED <<props, outcome, remote, rtype, budget>>
      <3>1. Recorded(cache[key]) \in Object
        BY <1>0, <2>2, ObjectWrites DEF RetryLands, TypeOK
      <3>2. QED
        BY <1>0, <2>2, <3>1, WriteType DEF Goto, TypeOK, remote, budget
    <2>3. QED
      BY <1>6, <2>1, <2>2 DEF Record
  <1>7. CASE Connect
    <2>1. edges' \subseteq Resource \X Resource
      <3>1. Links[key][link] \in LinkTargets
        <4>1. Links[key] \in Seq(LinkTargets)
          BY <1>0, ResourceAssumption
        <4>2. link \in 1 .. Len(Links[key])
          BY <1>7, <4>1 DEF Connect, TypeOK
        <4>3. QED
          BY <4>1, <4>2
      <3>2. QED
        BY <1>0, <1>7, <3>1 DEF Connect, TypeOK, Target, LinkTargets
    <2>2. /\ link' \in Nat /\ faults' \in Nat /\ crashes' \in Nat
          /\ pc' = "connect" => link' > 0
      BY <1>0, <1>7, ReturnType DEF Connect, Fault, Goto, TypeOK, locals, budget
    <2>3. QED
      BY <1>0, <1>7, <2>1, <2>2, ReturnType DEF Connect, Goto, TypeOK, cluster, locals
  <1>8. CASE AllConnected
    BY <1>0, <1>8 DEF AllConnected, Goto, TypeOK, cluster, locals, remote, budget
  <1>9. CASE Begin
    <2>1. CASE RetryFails
      BY <1>0, <2>1, RetryFailsType
    <2>2. CASE RetryLands /\ Write([cache[key] EXCEPT !.phase = "ProvisioningInProgress"])
               /\ Goto("beginRead") /\ UNCHANGED <<locals, remote, rtype, budget>>
      <3>1. [cache[key] EXCEPT !.phase = "ProvisioningInProgress"] \in Object
        BY <1>0, <2>2, ObjectWrites DEF RetryLands, TypeOK, Phases
      <3>2. QED
        BY <1>0, <2>2, <3>1, WriteType DEF Goto, TypeOK, locals, remote, budget
    <2>3. QED
      BY <1>9, <2>1, <2>2 DEF Begin
  <1>10. CASE ReadBegin
    BY <1>0, <1>10, ReturnType
       DEF ReadBegin, Reread, Goto, TypeOK, cluster, remote, budget
  <1>11. CASE Apply
    <2>1. managed' \in [Resource -> Managed \union {Nil}]
      <3>1. Created \in Managed
        BY <1>0 DEF Created, Managed, Object
      <3>2. ASSUME managed[key] # Nil, NEW s \in Verdicts PROVE Updated(s) \in Managed
        BY <1>0, <3>2 DEF Updated, Verdicts, TypeOK, Managed, Object
      <3>3. QED
        BY <1>0, <1>11, <3>1, <3>2 DEF Apply, TypeOK
    <2>2. faults' \in Nat /\ crashes' \in Nat
      BY <1>11 DEF Apply, Fault, TypeOK, budget
    <2>3. QED
      BY <1>0, <1>11, <2>1, <2>2 DEF Apply, Goto, TypeOK, cluster, locals
  <1>12. CASE Observe
    <2>1. outcome' \in Outcomes \union {"none"}
      BY <1>12 DEF Observe, OutcomeOf, Outcomes, TypeOK, locals
    <2>2. faults' \in Nat /\ crashes' \in Nat
      BY <1>12 DEF Observe, Fault, TypeOK, budget
    <2>3. QED
      BY <1>0, <1>12, <2>1, <2>2 DEF Observe, Goto, TypeOK, cluster, locals, remote
  <1>13. CASE WriteRunFailed
    <2>1. WriteCopy([obj EXCEPT !.phase = "ProvisioningFailed"]) /\ Requeue
      BY <1>13 DEF WriteRunFailed
    <2>2. QED
      BY <1>0, <1>13, <1>a, <2>1, ReturnType
         DEF WriteRunFailed, TypeOK, Phases, remote, budget
  <1>14. CASE RecordOutcome
    <2>1. CASE RetryFails
      BY <1>0, <2>1, RetryFailsType
    <2>2. CASE pc = "outcome" /\ RetryLands
               /\ Write([cache[key] EXCEPT !.phase = PhaseOf(outcome), !.at = outcome])
               /\ Goto("outcomeRead") /\ UNCHANGED <<locals, remote, rtype, budget>>
      <3>1. [cache[key] EXCEPT !.phase = PhaseOf(outcome), !.at = outcome] \in Object
        BY <1>0, <2>2 DEF RetryLands, TypeOK, Object, PhaseOf, Phases, Outcomes
      <3>2. QED
        BY <1>0, <2>2, <3>1, WriteType DEF Goto, TypeOK, locals, remote, budget
    <2>3. QED
      BY <1>14, <2>1, <2>2 DEF RecordOutcome
  <1>15. CASE ReadOutcome
    BY <1>0, <1>15, ReturnType
       DEF ReadOutcome, Reread, Goto, TypeOK, cluster, remote, budget
  <1>16. CASE Patch
    <2>1. CASE RetryFails
      BY <1>0, <2>1, RetryFailsType
    <2>2. CASE Requeue /\ UNCHANGED <<cluster, remote, rtype, budget>>
      BY <1>0, <2>2, ReturnType DEF TypeOK, cluster, remote, budget
    <2>3. CASE RetryLands /\ Write(PatchStatus(cache[key]))
               /\ obj' = PatchStatus(cache[key]) /\ Goto("sync")
               /\ UNCHANGED <<props, link, outcome, remote, rtype, budget>>
      <3>1. PatchStatus(cache[key]) \in Object
        BY <1>0, <2>3, ObjectWrites DEF RetryLands, TypeOK
      <3>2. QED
        BY <1>0, <2>3, <3>1, WriteType DEF Goto, TypeOK, remote, budget
    <2>4. QED
      BY <1>16, <2>1, <2>2, <2>3 DEF Patch
  <1>17. CASE Sync
    <2>1. inventory' \in [Resource -> Entry \union {Nil}]
      <3>1. Enter(TRUE) \/ UNCHANGED inventory
        BY <1>17 DEF Sync
      <3>2. QED
        BY <3>1, EnterType DEF TypeOK
    <2>2. faults' \in Nat /\ crashes' \in Nat
      BY <1>17 DEF Sync, Enter, Fault, TypeOK, locals, budget
    <2>3. QED
      BY <1>0, <1>17, <2>1, <2>2, ReturnType DEF Sync, Enter, Goto, TypeOK, cluster, locals
  <1>18. CASE WriteReady
    <2>1. CASE RetryFails
      BY <1>0, <2>1, RetryFailsType
    <2>2. CASE RetryLands /\ Write([cache[key] EXCEPT !.phase = "Ready"])
               /\ Done /\ UNCHANGED <<remote, rtype, budget>>
      <3>1. [cache[key] EXCEPT !.phase = "Ready"] \in Object
        BY <1>0, <2>2, ObjectWrites DEF RetryLands, TypeOK, Phases
      <3>2. QED
        BY <1>0, <2>2, <3>1, WriteType, ReturnType DEF TypeOK, remote, budget
    <2>3. QED
      BY <1>18, <2>1, <2>2 DEF WriteReady
  <1>19. QED
    BY <1>1, <1>2, <1>3, <1>4, <1>5, <1>6, <1>7, <1>8, <1>9, <1>10, <1>11, <1>12,
       <1>13, <1>14, <1>15, <1>16, <1>17, <1>18 DEF Reconcile
(***************************************************************************)
(* TypeOK holds throughout: every variable of the worker and of its world  *)
(* keeps its type, and the worker holds a key and a copy exactly while a   *)
(* Reconcile runs.                                                         *)
(***************************************************************************)
THEOREM TypeCorrect == Spec => []TypeOK
  <1>1. Init => TypeOK
    BY EnvironmentAssumption DEF Init, TypeOK, Labels
  <1>2. TypeOK /\ [Next]_vars => TypeOK'
    <2> SUFFICES ASSUME TypeOK, [Next]_vars PROVE TypeOK'
      OBVIOUS
    <2>1. CASE World
      BY <2>1, WorldType
    <2>2. ASSUME NEW r \in Resource, Start(r) PROVE TypeOK'
      <3>1. cache[r] # Nil => cache[r] \in Object
        BY DEF TypeOK
      <3>2. QED
        BY <2>2, <3>1 DEF Start, TypeOK, Labels, cluster, worker, locals, remote, budget
    <2>3. CASE Reconcile
      BY <2>3, ReconcileType
    <2>4. CASE Crash
      BY <2>4 DEF Crash, Return, TypeOK, Labels, remote
    <2>5. CASE UNCHANGED vars
      BY <2>5 DEF vars, TypeOK, cluster, worker, locals, remote, budget
    <2>6. QED
      BY <2>1, <2>2, <2>3, <2>4, <2>5 DEF Next
  <1>3. QED
    BY <1>1, <1>2, PTL DEF Spec

-----------------------------------------------------------------------------
\* Entries and connections are only ever added.
LEMMA Grows ==
  ASSUME TypeOK, [Next]_vars
  PROVE  /\ \A r \in Resource : inventory[r] # Nil => inventory'[r] # Nil
         /\ edges \subseteq edges'
  <1>1. ASSUME NEW b \in BOOLEAN,
               inventory' = [inventory EXCEPT ![key] = [gen |-> props, outputs |-> b]]
        PROVE  \A r \in Resource : inventory[r] # Nil => inventory'[r] # Nil
    <2>1. [gen |-> props, outputs |-> b] \in Entry
      BY DEF TypeOK, Entry
    <2>2. [gen |-> props, outputs |-> b] # Nil
      BY <2>1, ResourceAssumption
    <2>3. QED
      BY <1>1, <2>2 DEF TypeOK
  <1>2. \/ UNCHANGED inventory
        \/ inventory' = [inventory EXCEPT ![key] = [gen |-> props, outputs |-> TRUE]]
        \/ inventory' = [inventory EXCEPT ![key] = [gen |-> props, outputs |-> FALSE]]
    <2>1. CASE World
      BY <2>1 DEF World, MoveType, Create, Edit, Delete, Deliver, Settle, Collect, remote
    <2>2. CASE Reconcile
      BY <2>2 DEF Reconcile, WritePending, ReadPending, CheckType, WriteTypeFailed,
         Register, CreateInInventory, UpdateInInventory, InventoryRefuses, Enter,
         Record, Connect, AllConnected, WriteInvalid, FailSpec, Begin, ReadBegin,
         Apply, Observe, WriteRunFailed, RecordOutcome, ReadOutcome, Patch, Sync,
         WriteReady, RetryFails, RetryFindsNothing, RetryExhausted, remote
    <2>3. CASE Crash \/ UNCHANGED vars \/ \E r \in Resource : Start(r)
      BY <2>3 DEF Crash, Start, vars, remote
    <2>4. QED
      BY <2>1, <2>2, <2>3 DEF Next
  <1>3. edges \subseteq edges'
    <2>1. CASE World
      BY <2>1 DEF World, MoveType, Create, Edit, Delete, Deliver, Settle, Collect, remote
    <2>2. CASE Reconcile
      BY <2>2 DEF Reconcile, WritePending, ReadPending, CheckType, WriteTypeFailed,
         Register, Record, Connect, AllConnected, WriteInvalid, FailSpec, Begin,
         ReadBegin, Apply, Observe, WriteRunFailed, RecordOutcome, ReadOutcome,
         Patch, Sync, WriteReady, RetryFails, RetryFindsNothing, RetryExhausted, remote
    <2>3. CASE Crash \/ UNCHANGED vars \/ \E r \in Resource : Start(r)
      BY <2>3 DEF Crash, Start, vars, remote
    <2>4. QED
      BY <2>1, <2>2, <2>3 DEF Next
  <1>4. QED
    BY <1>1, <1>2, <1>3

-----------------------------------------------------------------------------
\* A Reconcile that ends, with the cluster and Inventory as they were.
LEMMA RegistryReturn ==
  ASSUME TypeOK, RegistryInv, Done \/ Requeue,
         UNCHANGED <<store, cache, inventory, edges>>
  PROVE  RegistryInv'
  BY DEF Done, Requeue, Return, RegistryInv, RecordedIsRegistered, ReadKeepsNurn,
         PatchKeepsNurn

\* A write that adds no nurn, or the nurn of an entry.
LEMMA RegistryWrite ==
  ASSUME TypeOK, RegistryInv, key \in Resource, NEW o \in Object, Write(o),
         HasNurn(o) => inventory[key] # Nil, UNCHANGED inventory
  PROVE  RecordedIsRegistered'
  <1>1. store' = [store EXCEPT ![key] = o] /\ UNCHANGED cache
    BY DEF Write
  <1>2. ASSUME NEW r \in Resource PROVE store'[r] = IF r = key THEN o ELSE store[r]
    BY <1>1 DEF TypeOK
  <1>3. QED
    BY <1>1, <1>2 DEF RegistryInv, RecordedIsRegistered

\* A retry loop that fails.
LEMMA RegistryRetryFails ==
  ASSUME TypeOK, RegistryInv, RetryFails PROVE RegistryInv'
  BY RegistryReturn DEF RetryFails, RetryFindsNothing, RetryExhausted, cluster, remote

\* The users, the informer and the controllers of the managed objects.
LEMMA RegistryWorld ==
  ASSUME TypeOK, RegistryInv, World PROVE RegistryInv'
  <1>1. CASE MoveType
    BY <1>1 DEF MoveType, RegistryInv, RecordedIsRegistered, ReadKeepsNurn,
       PatchKeepsNurn, Exists, cluster, worker, locals, remote
  <1>2. ASSUME NEW r \in Resource, Create(r) PROVE RegistryInv'
    <2>1. ~HasNurn(NewObject(born + 1))
      BY DEF HasNurn, NewObject
    <2>2. store' = [store EXCEPT ![r] = NewObject(born + 1)]
          /\ UNCHANGED <<cache, worker, remote>>
      BY <1>2 DEF Create
    <2>3. \A s \in Resource : store'[s] = IF s = r THEN NewObject(born + 1) ELSE store[s]
      BY <2>2 DEF TypeOK
    <2>4. QED
      BY <2>1, <2>2, <2>3 DEF RegistryInv, RecordedIsRegistered, ReadKeepsNurn,
         PatchKeepsNurn, Exists, TypeOK, Labels, worker, locals, remote
  <1>3. ASSUME NEW r \in Resource, Edit(r) PROVE RegistryInv'
    <2>1. \A s \in Resource : /\ store[s] = Nil <=> store'[s] = Nil
                              /\ store[s] # Nil => (HasNurn(store'[s]) <=> HasNurn(store[s]))
      <3>1. store[r] \in Object
        BY <1>3 DEF Edit, TypeOK
      <3>2. store' = [store EXCEPT ![r] = [store[r] EXCEPT !.gen = @ + 1]]
        BY <1>3 DEF Edit
      <3>3. [store[r] EXCEPT !.gen = @ + 1] \in Object
        BY <3>1, ObjectWrites
      <3>4. HasNurn([store[r] EXCEPT !.gen = @ + 1]) <=> HasNurn(store[r])
        BY <3>1 DEF HasNurn, Object
      <3>5. QED
        BY <1>3, <3>1, <3>2, <3>3, <3>4, ResourceAssumption DEF TypeOK
    <2>2. UNCHANGED <<cache, worker, remote>>
      BY <1>3 DEF Edit
    <2>3. QED
      BY <2>1, <2>2 DEF RegistryInv, RecordedIsRegistered, ReadKeepsNurn,
         PatchKeepsNurn, Exists, TypeOK, Labels, worker, locals, remote
  <1>4. ASSUME NEW r \in Resource, Delete(r) PROVE RegistryInv'
    <2>1. store' = [store EXCEPT ![r] = Nil] /\ UNCHANGED <<cache, worker, remote>>
      BY <1>4 DEF Delete
    <2>2. QED
      BY <2>1 DEF RegistryInv, RecordedIsRegistered, ReadKeepsNurn,
         PatchKeepsNurn, Exists, TypeOK, Labels, worker, locals, remote
  <1>5. ASSUME NEW r \in Resource, Deliver(r) PROVE RegistryInv'
    <2>1. cache' = [cache EXCEPT ![r] = store[r]] /\ UNCHANGED <<store, worker, remote>>
      BY <1>5 DEF Deliver
    <2>2. QED
      BY <2>1 DEF RegistryInv, RecordedIsRegistered, ReadKeepsNurn,
         PatchKeepsNurn, Exists, TypeOK, Labels, worker, locals, remote
  <1>6. ASSUME NEW r \in Resource, Settle(r) \/ Collect(r) PROVE RegistryInv'
    BY <1>6 DEF Settle, Collect, RegistryInv, RecordedIsRegistered, ReadKeepsNurn,
       PatchKeepsNurn, Exists, cluster, worker, locals
  <1>7. QED
    BY <1>1, <1>2, <1>3, <1>4, <1>5, <1>6 DEF World
-----------------------------------------------------------------------------
(***************************************************************************)
(* The steps of a Reconcile.  A status write keeps the inventory record of *)
(* the copy it was made from, save Record, which follows the registration, *)
(* and Patch, whose local copy has every nurn the store has.               *)
(***************************************************************************)
LEMMA RegistryReconcile ==
  ASSUME TypeOK, RegistryInv, [Next]_vars, Reconcile PROVE RegistryInv'
  <1>0. pc # "idle" /\ key \in Resource /\ obj \in Object
    BY Busy DEF Reconcile, WritePending, ReadPending, CheckType, WriteTypeFailed,
       Register, Record, Connect, AllConnected, WriteInvalid, Begin, ReadBegin,
       Apply, Observe, WriteRunFailed, RecordOutcome, ReadOutcome, Patch, Sync,
       WriteReady, FailSpec
  <1>a. \A r \in Resource : inventory[r] # Nil => inventory'[r] # Nil
    BY Grows
  <1>b. \A p \in Phases : WriteCopy([obj EXCEPT !.phase = p]) /\ UNCHANGED inventory
          => RecordedIsRegistered'
    <2> SUFFICES ASSUME NEW p \in Phases, WriteCopy([obj EXCEPT !.phase = p]),
                        UNCHANGED inventory
                 PROVE  RecordedIsRegistered'
      OBVIOUS
    <2>1. CASE IsCurrent(obj) /\ Write([obj EXCEPT !.phase = p])
      <3>1. [obj EXCEPT !.phase = p] \in Object
        BY <1>0, ObjectWrites
      <3>2. HasNurn([obj EXCEPT !.phase = p]) => inventory[key] # Nil
        BY <1>0 DEF HasNurn, Object, RegistryInv, TypeOK
      <3>3. QED
        BY <1>0, <2>1, <3>1, <3>2, RegistryWrite
    <2>2. CASE UNCHANGED cluster
      BY <2>2 DEF cluster, RegistryInv, RecordedIsRegistered
    <2>3. QED
      BY <2>1, <2>2 DEF WriteCopy
  <1>c. ASSUME RetryLands PROVE /\ cache[key] \in Object
                                /\ store[key] = cache[key]
                                /\ HasNurn(cache[key]) => inventory[key] # Nil
    BY <1>0, <1>c DEF RetryLands, IsCurrent, TypeOK, RegistryInv, RecordedIsRegistered
  <1>1. CASE WritePending \/ WriteTypeFailed \/ WriteInvalid \/ WriteRunFailed
    <2>1. RecordedIsRegistered'
      <3>1. CASE WritePending
        BY <1>b, <3>1 DEF WritePending, remote, Phases
      <3>2. CASE WriteTypeFailed \/ WriteInvalid
        BY <1>b, <3>2 DEF WriteTypeFailed, WriteInvalid, FailSpec, remote, Phases
      <3>3. CASE WriteRunFailed
        BY <1>b, <3>3 DEF WriteRunFailed, remote, Phases
      <3>4. QED
        BY <1>1, <3>1, <3>2, <3>3
    <2>2. UNCHANGED <<inventory, edges>>
      BY <1>1 DEF WritePending, WriteTypeFailed, WriteInvalid, WriteRunFailed,
         FailSpec, remote
    <2>3. pc' = "idle" \/ (pc' = "pendingRead" /\ UNCHANGED <<key, obj>>)
      BY <1>1 DEF WritePending, WriteTypeFailed, WriteInvalid, WriteRunFailed,
         FailSpec, Done, Requeue, Return, Goto, locals
    <2>4. QED
      BY <1>0, <2>1, <2>2, <2>3 DEF RegistryInv, ReadKeepsNurn, PatchKeepsNurn, TypeOK
  <1>2. CASE ReadPending \/ ReadBegin \/ ReadOutcome
    <2>1. UNCHANGED <<store, cache, inventory, edges>>
      BY <1>2 DEF ReadPending, ReadBegin, ReadOutcome, cluster, remote
    <2>2. CASE Done \/ Requeue
      BY <2>1, <2>2, RegistryReturn
    <2>3. CASE /\ cache[key] # Nil /\ obj' = cache[key] /\ UNCHANGED key
               /\ pc' \in {"type", "apply", "patch", "ready"}
               /\ pc' = "patch" => pc = "outcomeRead"
      BY <1>0, <2>1, <2>3 DEF RegistryInv, RecordedIsRegistered, ReadKeepsNurn,
         PatchKeepsNurn, Exists, TypeOK
    <2>4. QED
      BY <1>2, <2>2, <2>3 DEF ReadPending, ReadBegin, ReadOutcome, Reread, Goto
  <1>3. CASE CheckType \/ AllConnected \/ Apply \/ Observe
    <2>1. UNCHANGED <<store, cache, inventory, edges>>
      BY <1>3 DEF CheckType, AllConnected, Apply, Observe, cluster, remote
    <2>2. CASE Done \/ Requeue
      BY <2>1, <2>2, RegistryReturn
    <2>3. CASE UNCHANGED <<key, obj>> /\ pc' \notin {"idle", "record", "outcomeRead", "patch"}
      BY <1>0, <2>1, <2>3 DEF RegistryInv, RecordedIsRegistered, ReadKeepsNurn,
         PatchKeepsNurn
    <2>4. QED
      BY <1>3, <2>2, <2>3 DEF CheckType, AllConnected, Apply, Observe, Goto, locals
  <1>4. CASE Register
    <2>1. UNCHANGED <<store, cache, edges>>
      BY <1>4 DEF Register, cluster
    <2>2. CASE Requeue /\ UNCHANGED inventory
      BY <2>1, <2>2, RegistryReturn
    <2>3. CASE Enter(FALSE) /\ UNCHANGED <<key, obj>> /\ pc' \in {"record", "connect"}
      <3>1. [gen |-> props, outputs |-> FALSE] # Nil
        <4>1. [gen |-> props, outputs |-> FALSE] \in Entry
          BY DEF TypeOK, Entry
        <4>2. QED
          BY <4>1, ResourceAssumption
      <3>2. inventory'[key] # Nil
        BY <1>0, <2>3, <3>1 DEF Enter, TypeOK
      <3>3. QED
        BY <1>0, <1>a, <2>1, <2>3, <3>2 DEF RegistryInv, RecordedIsRegistered,
           ReadKeepsNurn, PatchKeepsNurn, TypeOK
    <2>4. QED
      BY <1>4, <2>2, <2>3 DEF Register, CreateInInventory, UpdateInInventory,
         InventoryRefuses, Goto, Enter, locals
  <1>5. CASE Record
    <2>1. CASE RetryFails
      BY <2>1, RegistryRetryFails
    <2>2. CASE /\ pc = "record" /\ RetryLands /\ Write(Recorded(cache[key]))
               /\ Goto("connect") /\ UNCHANGED remote
      <3>1. inventory[key] # Nil /\ UNCHANGED <<inventory, edges>>
        BY <2>2 DEF RegistryInv, remote
      <3>2. Recorded(cache[key]) \in Object
        BY <1>c, <2>2, ObjectWrites
      <3>3. RecordedIsRegistered'
        BY <1>0, <2>2, <3>1, <3>2, RegistryWrite
      <3>4. QED
        BY <2>2, <3>1, <3>3 DEF RegistryInv, ReadKeepsNurn, PatchKeepsNurn, Goto
    <2>3. QED
      BY <1>5, <2>1, <2>2 DEF Record
  <1>6. CASE Connect
    <2>1. UNCHANGED <<store, cache, inventory>>
      BY <1>6 DEF Connect, cluster
    <2>2. CASE Requeue /\ UNCHANGED edges
      BY <2>1, <2>2, RegistryReturn
    <2>3. CASE Goto("invalid") /\ UNCHANGED <<obj, edges>>
      BY <1>0, <2>1, <2>3 DEF RegistryInv, RecordedIsRegistered, ReadKeepsNurn,
         PatchKeepsNurn, Goto
    <2>4. CASE /\ Connected /\ edges' = edges \union {<<key, Target.to>>}
               /\ UNCHANGED <<pc, key, obj>>
      <3>1. inventory[key] # Nil /\ inventory[Target.to] # Nil
        BY <2>4 DEF Connected
      <3>2. \A e \in edges' : inventory[e[1]] # Nil /\ inventory[e[2]] # Nil
        BY <2>4, <3>1 DEF RegistryInv
      <3>3. QED
        BY <2>1, <2>4, <3>2 DEF RegistryInv, RecordedIsRegistered, ReadKeepsNurn,
           PatchKeepsNurn, Exists
    <2>5. QED
      BY <1>6, <2>2, <2>3, <2>4 DEF Connect, locals
  <1>7. CASE Begin
    <2>1. CASE RetryFails
      BY <2>1, RegistryRetryFails
    <2>2. CASE /\ pc = "begin" /\ RetryLands
               /\ Write([cache[key] EXCEPT !.phase = "ProvisioningInProgress"])
               /\ Goto("beginRead") /\ UNCHANGED <<locals, remote>>
      <3>1. [cache[key] EXCEPT !.phase = "ProvisioningInProgress"] \in Object
        BY <1>c, <2>2, ObjectWrites DEF Phases
      <3>2. HasNurn([cache[key] EXCEPT !.phase = "ProvisioningInProgress"])
              => inventory[key] # Nil
        BY <1>c, <2>2 DEF HasNurn, Object
      <3>3. RecordedIsRegistered'
        BY <1>0, <2>2, <3>1, <3>2, RegistryWrite DEF remote
      <3>4. QED
        BY <2>2, <3>3 DEF RegistryInv, ReadKeepsNurn, PatchKeepsNurn, Goto, locals, remote
    <2>3. QED
      BY <1>7, <2>1, <2>2 DEF Begin
  <1>8. CASE RecordOutcome
    <2>1. CASE RetryFails
      BY <2>1, RegistryRetryFails
    <2>2. CASE /\ pc = "outcome" /\ RetryLands
               /\ Write([cache[key] EXCEPT !.phase = PhaseOf(outcome), !.at = outcome])
               /\ Goto("outcomeRead") /\ UNCHANGED <<locals, remote>>
      <3> DEFINE o == [cache[key] EXCEPT !.phase = PhaseOf(outcome), !.at = outcome]
      <3>1. o \in Object
        BY <1>c, <2>2 DEF TypeOK, Object, PhaseOf, Phases, Outcomes
      <3>2. HasNurn(o) <=> HasNurn(cache[key])
        BY <1>c, <2>2 DEF HasNurn, Object
      <3>3. RecordedIsRegistered'
        BY <1>0, <1>c, <2>2, <3>1, <3>2, RegistryWrite DEF remote
      <3>4. store'[key] = o /\ cache' = cache
        BY <1>0, <2>2 DEF Write, TypeOK
      <3>5. ReadKeepsNurn'
        BY <2>2, <3>2, <3>4 DEF ReadKeepsNurn, Goto, RetryLands
      <3>6. QED
        BY <2>2, <3>3, <3>5 DEF RegistryInv, PatchKeepsNurn, Goto, locals, remote
    <2>3. QED
      BY <1>8, <2>1, <2>2 DEF RecordOutcome
  <1>9. CASE Patch
    <2>1. CASE RetryFails
      BY <2>1, RegistryRetryFails
    <2>2. CASE Requeue /\ UNCHANGED <<cluster, remote>>
      BY <2>2, RegistryReturn DEF cluster, remote
    <2>3. CASE /\ pc = "patch" /\ RetryLands /\ Write(PatchStatus(cache[key]))
               /\ obj' = PatchStatus(cache[key])
               /\ Goto("sync") /\ UNCHANGED remote
      <3>1. PatchStatus(cache[key]) \in Object
        BY <1>0, <1>c, <2>3, ObjectWrites
      <3>2. HasNurn(PatchStatus(cache[key])) => inventory[key] # Nil
        BY <1>c, <2>3 DEF PatchStatus, PatchedRef, HasNurn, Object, RegistryInv
      <3>3. RecordedIsRegistered'
        BY <1>0, <2>3, <3>1, <3>2, RegistryWrite DEF remote
      <3>4. QED
        BY <2>3, <3>2, <3>3 DEF RegistryInv, ReadKeepsNurn, PatchKeepsNurn, Goto, remote
    <2>4. QED
      BY <1>9, <2>1, <2>2, <2>3 DEF Patch
  <1>10. CASE Sync
    <2>1. UNCHANGED <<store, cache, edges>>
      BY <1>10 DEF Sync, cluster
    <2>2. CASE Requeue /\ UNCHANGED inventory
      BY <2>1, <2>2, RegistryReturn
    <2>3. CASE Goto("ready") /\ UNCHANGED obj
      BY <1>0, <1>a, <2>1, <2>3 DEF RegistryInv, RecordedIsRegistered,
         ReadKeepsNurn, PatchKeepsNurn, Goto, TypeOK
    <2>4. QED
      BY <1>10, <2>2, <2>3 DEF Sync, Enter, locals
  <1>11. CASE WriteReady
    <2>1. CASE RetryFails
      BY <2>1, RegistryRetryFails
    <2>2. CASE /\ RetryLands /\ Write([cache[key] EXCEPT !.phase = "Ready"])
               /\ Done /\ UNCHANGED remote
      <3>1. [cache[key] EXCEPT !.phase = "Ready"] \in Object
        BY <1>c, <2>2, ObjectWrites DEF Phases
      <3>2. HasNurn([cache[key] EXCEPT !.phase = "Ready"]) => inventory[key] # Nil
        BY <1>c, <2>2 DEF HasNurn, Object
      <3>3. RecordedIsRegistered'
        BY <1>0, <2>2, <3>1, <3>2, RegistryWrite DEF remote
      <3>4. QED
        BY <2>2, <3>3 DEF RegistryInv, ReadKeepsNurn, PatchKeepsNurn, Done, Return, remote
    <2>3. QED
      BY <1>11, <2>1, <2>2 DEF WriteReady
  <1>12. QED
    BY <1>1, <1>2, <1>3, <1>4, <1>5, <1>6, <1>7, <1>8, <1>9, <1>10, <1>11 DEF Reconcile

-----------------------------------------------------------------------------
\* RegistryInv holds throughout: a nurn, in the store, in the cache or in the
\* worker's copy, and both ends of every connection are known to Inventory, and
\* the copies of lines 329 and 409 are no older than the record of line 165.
THEOREM RegistryInductive == Spec => []RegistryInv
  <1>1. Init => RegistryInv
    BY DEF Init, RegistryInv, RecordedIsRegistered, ReadKeepsNurn, PatchKeepsNurn
  <1>2. TypeOK /\ RegistryInv /\ [Next]_vars => RegistryInv'
    <2> SUFFICES ASSUME TypeOK, RegistryInv, [Next]_vars PROVE RegistryInv'
      OBVIOUS
    <2>1. CASE World
      BY <2>1, RegistryWorld
    <2>2. ASSUME NEW r \in Resource, Start(r) PROVE RegistryInv'
      <3>1. UNCHANGED <<store, cache, inventory, edges>> /\ pc = "idle"
        BY <2>2 DEF Start, cluster, remote
      <3>2. \/ UNCHANGED <<pc, key, obj>>
            \/ /\ cache[r] # Nil /\ key' = r /\ obj' = cache[r]
               /\ pc' \in {"pending", "type"}
        BY <2>2 DEF Start, worker, locals
      <3>3. RecordedIsRegistered'
        BY <3>1 DEF RegistryInv, RecordedIsRegistered
      <3>4. pc' # "idle" /\ HasNurn(obj') => inventory'[key'] # Nil
        BY <3>1, <3>2 DEF RegistryInv, RecordedIsRegistered
      <3>5. QED
        BY <3>1, <3>2, <3>3, <3>4 DEF RegistryInv, ReadKeepsNurn, PatchKeepsNurn
    <2>3. CASE Reconcile
      BY <2>3, RegistryReconcile
    <2>4. CASE Crash
      BY <2>4 DEF Crash, Return, remote, RegistryInv, RecordedIsRegistered,
         ReadKeepsNurn, PatchKeepsNurn
    <2>5. CASE UNCHANGED vars
      BY <2>5 DEF vars, cluster, worker, locals, remote, RegistryInv,
         RecordedIsRegistered, ReadKeepsNurn, PatchKeepsNurn, Exists
    <2>6. QED
      BY <2>1, <2>2, <2>3, <2>4, <2>5 DEF Next
  <1>3. QED
    BY <1>1, <1>2, TypeCorrect, PTL DEF Spec

\* RecordedIsRegistered holds throughout: a nurn in a status, stored or cached,
\* is the nurn of an entry of Inventory.
THEOREM Registered == Spec => []RecordedIsRegistered
  <1>1. RegistryInv => RecordedIsRegistered
    BY DEF RegistryInv
  <1>2. QED
    BY <1>1, RegistryInductive, PTL

-----------------------------------------------------------------------------
(***************************************************************************)
(* What a step can do to the stored nurns: nothing; add the nurn of a      *)
(* registered resource, in Record or in Patch; take one away with its      *)
(* object, in Delete.                                                      *)
(***************************************************************************)
Holds(r) == Exists(r) /\ HasNurn(store[r])

Kept == \A r \in Resource : Holds(r)' <=> Holds(r)
Added(k) ==
  /\ inventory[k] # Nil
  /\ \A r \in Resource : Holds(r)' <=> Holds(r) \/ r = k
Removed(k) ==
  /\ store'[k] = Nil
  /\ \A r \in Resource : Holds(r)' <=> Holds(r) /\ r # k

LEMMA WriteKeeps ==
  ASSUME TypeOK, key \in Resource, NEW o \in Object, Write(o), store[key] # Nil,
         HasNurn(o) <=> HasNurn(store[key])
  PROVE  Kept
  <1>1. \A r \in Resource : store'[r] = IF r = key THEN o ELSE store[r]
    BY DEF Write, TypeOK
  <1>2. o # Nil
    BY ResourceAssumption
  <1>3. QED
    BY <1>1, <1>2 DEF Kept, Holds, Exists

LEMMA WriteAdds ==
  ASSUME TypeOK, key \in Resource, NEW o \in Object, Write(o), HasNurn(o),
         inventory[key] # Nil
  PROVE  Added(key)
  <1>1. \A r \in Resource : store'[r] = IF r = key THEN o ELSE store[r]
    BY DEF Write, TypeOK
  <1>2. o # Nil
    BY ResourceAssumption
  <1>3. QED
    BY <1>1, <1>2 DEF Added, Holds, Exists

LEMMA StoredNurns ==
  ASSUME TypeOK, RegistryInv, [Next]_vars
  PROVE  \/ Kept
         \/ \E k \in Resource : (Added(k) \/ Removed(k)) /\ UNCHANGED <<inventory, edges>>
  <1>1. CASE UNCHANGED store
    BY <1>1 DEF Kept, Holds, Exists
  <1>2. ASSUME NEW r \in Resource, Create(r) PROVE Kept
    <2>1. \A s \in Resource : store'[s] = IF s = r THEN NewObject(born + 1) ELSE store[s]
      BY <1>2 DEF Create, TypeOK
    <2>2. store[r] = Nil /\ ~HasNurn(NewObject(born + 1))
      BY <1>2 DEF Create, NewObject, HasNurn
    <2>3. QED
      BY <2>1, <2>2 DEF Kept, Holds, Exists
  <1>3. ASSUME NEW r \in Resource, Edit(r) PROVE Kept
    <2>1. store[r] \in Object
      BY <1>3 DEF Edit, TypeOK
    <2>2. store' = [store EXCEPT ![r] = [store[r] EXCEPT !.gen = @ + 1]]
      BY <1>3 DEF Edit
    <2>3. [store[r] EXCEPT !.gen = @ + 1] # Nil
      BY <2>1, ObjectWrites, ResourceAssumption
    <2>4. HasNurn([store[r] EXCEPT !.gen = @ + 1]) <=> HasNurn(store[r])
      BY <2>1 DEF HasNurn, Object
    <2>5. QED
      BY <1>3, <2>2, <2>3, <2>4 DEF Kept, Holds, Exists, TypeOK, Edit
  <1>4. ASSUME NEW r \in Resource, Delete(r)
        PROVE  Removed(r) /\ UNCHANGED <<inventory, edges>>
    BY <1>4 DEF Delete, Removed, Holds, Exists, TypeOK, remote
  <1>5. CASE Reconcile
    <2>0. pc # "idle" /\ key \in Resource /\ obj \in Object
      BY <1>5, Busy DEF Reconcile, WritePending, ReadPending, CheckType,
         WriteTypeFailed, Register, Record, Connect, AllConnected, WriteInvalid,
         Begin, ReadBegin, Apply, Observe, WriteRunFailed, RecordOutcome,
         ReadOutcome, Patch, Sync, WriteReady, FailSpec
    <2>1. ASSUME RetryLands PROVE /\ cache[key] \in Object
                                  /\ store[key] = cache[key] /\ store[key] # Nil
      BY <2>0, <2>1 DEF RetryLands, IsCurrent, TypeOK
    <2>2. ASSUME NEW p \in Phases, WriteCopy([obj EXCEPT !.phase = p]) PROVE Kept
      <3>1. CASE IsCurrent(obj) /\ Write([obj EXCEPT !.phase = p])
        <4>1. [obj EXCEPT !.phase = p] \in Object /\ obj # Nil
          BY <2>0, ObjectWrites, ResourceAssumption
        <4>2. HasNurn([obj EXCEPT !.phase = p]) <=> HasNurn(obj)
          BY <2>0 DEF HasNurn, Object
        <4>3. QED
          BY <2>0, <3>1, <4>1, <4>2, WriteKeeps DEF IsCurrent
      <3>2. CASE UNCHANGED cluster
        BY <3>2 DEF cluster, Kept, Holds, Exists
      <3>3. QED
        BY <2>2, <3>1, <3>2 DEF WriteCopy
    <2>3. CASE WritePending \/ WriteTypeFailed \/ WriteInvalid \/ WriteRunFailed
      <3>1. \E p \in Phases : WriteCopy([obj EXCEPT !.phase = p])
        BY <2>3 DEF WritePending, WriteTypeFailed, WriteInvalid, WriteRunFailed,
           FailSpec, Phases
      <3>2. QED
        BY <2>2, <3>1
    <2>4. CASE \E o \in Object : /\ RetryLands /\ Write(o)
                                 /\ HasNurn(o) <=> HasNurn(cache[key])
      BY <2>0, <2>1, <2>4, WriteKeeps
    <2>5. CASE /\ pc = "record" /\ RetryLands /\ Write(Recorded(cache[key]))
               /\ UNCHANGED remote
      <3>1. Recorded(cache[key]) \in Object /\ HasNurn(Recorded(cache[key]))
        BY <2>1, <2>5, ObjectWrites DEF Recorded, HasNurn, Object
      <3>2. Added(key)
        BY <2>0, <2>5, <3>1, WriteAdds DEF RegistryInv
      <3>3. QED
        BY <2>0, <2>5, <3>2 DEF remote
    <2>6. CASE /\ pc = "patch" /\ RetryLands /\ Write(PatchStatus(cache[key]))
               /\ UNCHANGED remote
      <3>1. PatchStatus(cache[key]) \in Object
        BY <2>0, <2>1, <2>6, ObjectWrites
      <3>2. HasNurn(PatchStatus(cache[key])) <=> HasNurn(obj)
        BY <2>1, <2>6 DEF PatchStatus, PatchedRef, HasNurn, Object
      <3>3. CASE HasNurn(obj)
        <4>1. Added(key)
          BY <2>0, <2>6, <3>1, <3>2, <3>3, WriteAdds DEF RegistryInv
        <4>2. QED
          BY <2>0, <2>6, <4>1 DEF remote
      <3>4. CASE ~HasNurn(obj)
        <4>1. ~HasNurn(store[key])
          BY <2>1, <2>6, <3>4 DEF RegistryInv, PatchKeepsNurn, Exists
        <4>2. QED
          BY <2>0, <2>1, <2>6, <3>1, <3>2, <3>4, <4>1, WriteKeeps
      <3>5. QED
        BY <3>3, <3>4
    <2>7. CASE Begin /\ RetryLands /\ Write([cache[key] EXCEPT !.phase = "ProvisioningInProgress"])
      <3>1. [cache[key] EXCEPT !.phase = "ProvisioningInProgress"] \in Object
        BY <2>1, <2>7, ObjectWrites DEF Phases
      <3>2. HasNurn([cache[key] EXCEPT !.phase = "ProvisioningInProgress"])
              <=> HasNurn(cache[key])
        BY <2>1, <2>7 DEF HasNurn, Object
      <3>3. QED
        BY <2>4, <2>7, <3>1, <3>2
    <2>8. CASE RecordOutcome /\ RetryLands
               /\ Write([cache[key] EXCEPT !.phase = PhaseOf(outcome), !.at = outcome])
      <3> DEFINE o == [cache[key] EXCEPT !.phase = PhaseOf(outcome), !.at = outcome]
      <3>1. o \in Object
        BY <2>1, <2>8 DEF TypeOK, Object, PhaseOf, Phases, Outcomes
      <3>2. HasNurn(o) <=> HasNurn(cache[key])
        BY <2>1, <2>8 DEF HasNurn, Object
      <3>3. QED
        BY <2>4, <2>8, <3>1, <3>2
    <2>9. CASE WriteReady /\ RetryLands /\ Write([cache[key] EXCEPT !.phase = "Ready"])
      <3>1. [cache[key] EXCEPT !.phase = "Ready"] \in Object
        BY <2>1, <2>9, ObjectWrites DEF Phases
      <3>2. HasNurn([cache[key] EXCEPT !.phase = "Ready"]) <=> HasNurn(cache[key])
        BY <2>1, <2>9 DEF HasNurn, Object
      <3>3. QED
        BY <2>4, <2>9, <3>1, <3>2
    <2>10. CASE Record
      BY <1>1, <2>5, <2>10 DEF Record, RetryFails, RetryFindsNothing,
         RetryExhausted, cluster
    <2>11. CASE Patch
      BY <1>1, <2>6, <2>11 DEF Patch, RetryFails, RetryFindsNothing,
         RetryExhausted, cluster
    <2>12. CASE Begin \/ RecordOutcome \/ WriteReady
      BY <1>1, <2>7, <2>8, <2>9, <2>12 DEF Begin, RecordOutcome, WriteReady,
         RetryFails, RetryFindsNothing, RetryExhausted, cluster
    <2>13. CASE ReadPending \/ CheckType \/ Register \/ Connect \/ AllConnected
                \/ ReadBegin \/ Apply \/ Observe \/ ReadOutcome \/ Sync
      BY <1>1, <2>13 DEF ReadPending, CheckType, Register, Connect, AllConnected,
         ReadBegin, Apply, Observe, ReadOutcome, Sync, cluster
    <2>14. QED
      BY <1>5, <2>3, <2>10, <2>11, <2>12, <2>13 DEF Reconcile
  <1>6. CASE World
    <2>1. ASSUME NEW r \in Resource, Deliver(r) \/ Settle(r) \/ Collect(r)
          PROVE  UNCHANGED store
      BY <2>1 DEF Deliver, Settle, Collect, cluster
    <2>2. MoveType => UNCHANGED store
      BY DEF MoveType, cluster
    <2>3. QED
      BY <1>1, <1>2, <1>3, <1>4, <1>6, <2>1, <2>2 DEF World
  <1>7. CASE Crash \/ UNCHANGED vars \/ \E r \in Resource : Start(r)
    BY <1>1, <1>7 DEF Crash, Start, vars, cluster
  <1>8. QED
    BY <1>5, <1>6, <1>7 DEF Next

\* NurnNeverLost holds: no step of the reconciler, of its users or of a restart
\* takes a recorded nurn from an object that goes on living.
THEOREM NurnKept == Spec => NurnNeverLost
  <1> DEFINE Keeps == \A r \in Resource :
        SameIncarnation(r) /\ HasNurn(store[r]) => HasNurn(store'[r])
  <1>1. TypeOK /\ RegistryInv /\ [Next]_vars => [Keeps]_vars
    <2> SUFFICES ASSUME TypeOK, RegistryInv, [Next]_vars PROVE Keeps
      OBVIOUS
    <2>1. CASE Kept
      BY <2>1 DEF Kept, Holds, Exists, SameIncarnation
    <2>2. ASSUME NEW k \in Resource, Added(k) PROVE Keeps
      BY <2>2 DEF Added, Holds, Exists, SameIncarnation
    <2>3. ASSUME NEW k \in Resource, Removed(k) PROVE Keeps
      BY <2>3 DEF Removed, Holds, Exists, SameIncarnation
    <2>4. QED
      BY <2>1, <2>2, <2>3, StoredNurns
  <1>2. QED
    BY <1>1, TypeCorrect, RegistryInductive, PTL DEF Spec, NurnNeverLost

-----------------------------------------------------------------------------
\* What a step can do to Inventory: nothing, an entry for a key, a connection
\* between two entries; the last two leave the stored nurns alone.
LEMMA InventorySteps ==
  ASSUME TypeOK, RegistryInv, [Next]_vars
  PROVE  \/ UNCHANGED <<inventory, edges>>
         \/ /\ key \in Resource
            /\ \A r \in Resource : inventory'[r] # Nil <=> inventory[r] # Nil \/ r = key
            /\ UNCHANGED <<store, edges>>
         \/ \E s \in Resource : /\ key \in Resource
                                /\ inventory[key] # Nil /\ inventory[s] # Nil
                                /\ edges' = edges \union {<<key, s>>}
                                /\ UNCHANGED <<store, inventory>>
  <1>1. ASSUME Register \/ Sync, ~UNCHANGED inventory
        PROVE  /\ key \in Resource
               /\ \A r \in Resource : inventory'[r] # Nil <=> inventory[r] # Nil \/ r = key
               /\ UNCHANGED <<store, edges>>
    <2>1. key \in Resource /\ UNCHANGED <<store, edges>>
      BY <1>1, Busy DEF Register, Sync, cluster
    <2>2. PICK b \in BOOLEAN :
            inventory' = [inventory EXCEPT ![key] = [gen |-> props, outputs |-> b]]
      BY <1>1 DEF Register, Sync, CreateInInventory, UpdateInInventory,
         InventoryRefuses, Enter
    <2>3. [gen |-> props, outputs |-> b] # Nil
      <3>1. [gen |-> props, outputs |-> b] \in Entry
        BY DEF TypeOK, Entry
      <3>2. QED
        BY <3>1, ResourceAssumption
    <2>4. QED
      BY <2>1, <2>2, <2>3 DEF TypeOK
  <1>2. ASSUME Register \/ Sync PROVE UNCHANGED edges
    BY <1>2 DEF Register, Sync
  <1>3. ASSUME Connect, ~UNCHANGED edges
        PROVE  \E s \in Resource : /\ key \in Resource
                                   /\ inventory[key] # Nil /\ inventory[s] # Nil
                                   /\ edges' = edges \union {<<key, s>>}
                                   /\ UNCHANGED <<store, inventory>>
    <2>1. key \in Resource /\ UNCHANGED <<store, inventory>>
      BY <1>3, Busy DEF Connect, cluster
    <2>2. Connected /\ edges' = edges \union {<<key, Target.to>>}
      BY <1>3 DEF Connect
    <2>3. Target.to \in Resource
      <3>1. Links[key] \in Seq(LinkTargets)
        BY <2>1, ResourceAssumption
      <3>2. link \in 1 .. Len(Links[key])
        BY <1>3, <3>1 DEF Connect, TypeOK
      <3>3. Links[key][link] \in LinkTargets
        BY <3>1, <3>2
      <3>4. QED
        BY <3>3 DEF Target, LinkTargets
    <2>4. QED
      BY <2>1, <2>2, <2>3 DEF Connected
  <1>4. ASSUME Connect PROVE UNCHANGED inventory
    BY <1>4 DEF Connect
  <1>5. CASE Reconcile
    <2>1. CASE Register \/ Sync
      BY <1>1, <1>2, <2>1
    <2>2. CASE Connect
      BY <1>3, <1>4, <2>2
    <2>3. CASE WritePending \/ ReadPending \/ CheckType \/ WriteTypeFailed \/ Record
               \/ AllConnected \/ WriteInvalid \/ Begin \/ ReadBegin \/ Apply
               \/ Observe \/ WriteRunFailed \/ RecordOutcome \/ ReadOutcome \/ Patch
               \/ WriteReady
      BY <2>3 DEF WritePending, ReadPending, CheckType, WriteTypeFailed, Record,
         AllConnected, WriteInvalid, FailSpec, Begin, ReadBegin, Apply, Observe,
         WriteRunFailed, RecordOutcome, ReadOutcome, Patch, WriteReady, RetryFails,
         RetryFindsNothing, RetryExhausted, remote
    <2>4. QED
      BY <1>5, <2>1, <2>2, <2>3 DEF Reconcile
  <1>6. CASE World \/ Crash \/ UNCHANGED vars \/ \E r \in Resource : Start(r)
    BY <1>6 DEF World, MoveType, Create, Edit, Delete, Deliver, Settle, Collect,
       Crash, Start, vars, remote
  <1>7. QED
    BY <1>5, <1>6 DEF Next

\* The reconciler implements InventoryRegistry: every step is one step of the
\* registry, or none.
THEOREM RegistryImplemented == Spec => ImplementsRegistry
  <1> DEFINE known == {r \in Resource : inventory[r] # Nil}
             held  == {r \in Resource : Exists(r) /\ HasNurn(store[r])}
  <1>1. Init => Registry!Empty
    BY DEF Init, Registry!Empty, Exists
  <1>2. TypeOK /\ RegistryInv /\ [Next]_vars => [Registry!Step]_(Registry!registry)
    <2> SUFFICES ASSUME TypeOK, RegistryInv, [Next]_vars
                 PROVE  Registry!Step \/ UNCHANGED <<known, held, edges>>
      BY DEF Registry!registry
    <2>1. CASE UNCHANGED <<inventory, edges>>
      <3>0. known' = known
        BY <2>1
      <3>1. CASE Kept
        <4>1. held' = held
          BY <3>1 DEF Kept, Holds
        <4>2. QED
          BY <2>1, <3>0, <4>1
      <3>2. ASSUME NEW k \in Resource, Added(k) PROVE Registry!Step
        <4>1. held' = held \union {k} /\ k \in known
          BY <3>2 DEF Added, Holds
        <4>2. Registry!Record(k)
          BY <2>1, <3>0, <4>1 DEF Registry!Record
        <4>3. QED
          BY <4>2 DEF Registry!Step
      <3>3. ASSUME NEW k \in Resource, Removed(k) PROVE Registry!Step
        <4>1. held' = held \ {k}
          BY <3>3 DEF Removed, Holds
        <4>2. Registry!Forget(k)
          BY <2>1, <3>0, <4>1 DEF Registry!Forget
        <4>3. QED
          BY <4>2 DEF Registry!Step
      <3>4. QED
        BY <3>1, <3>2, <3>3, StoredNurns
    <2>2. CASE /\ key \in Resource
               /\ \A r \in Resource : inventory'[r] # Nil <=> inventory[r] # Nil \/ r = key
               /\ UNCHANGED <<store, edges>>
      <3>1. PICK k \in Resource : k = key
        BY <2>2
      <3>2. known' = known \union {k} /\ held' = held
        BY <2>2, <3>1 DEF Exists
      <3>3. Registry!Register(k)
        BY <2>2, <3>2 DEF Registry!Register
      <3>4. QED
        BY <3>3 DEF Registry!Step
    <2>3. ASSUME NEW s \in Resource, key \in Resource, inventory[key] # Nil,
                 inventory[s] # Nil, edges' = edges \union {<<key, s>>},
                 UNCHANGED <<store, inventory>>
          PROVE  Registry!Step
      <3>1. PICK k \in Resource : k = key
        BY <2>3
      <3>2. known' = known /\ held' = held /\ {k, s} \subseteq known
        BY <2>3, <3>1 DEF Exists
      <3>3. Registry!Join(k, s)
        BY <2>3, <3>1, <3>2 DEF Registry!Join
      <3>4. QED
        BY <3>3 DEF Registry!Step
    <2>4. QED
      BY <2>1, <2>2, <2>3, InventorySteps
  <1>3. QED
    BY <1>1, <1>2, TypeCorrect, RegistryInductive, PTL
       DEF Spec, ImplementsRegistry, Registry!RegistrySpec

-----------------------------------------------------------------------------
(***************************************************************************)
(* ConnectedInv.  Its first three conjuncts say of each copy that Ready    *)
(* means connected; its last two follow the loop of Connect.               *)
(***************************************************************************)
CopiesConnected ==
  /\ \A r \in Resource : ReadyNow(r) => Linked(r)
  /\ \A r \in Resource : cache[r] # Nil /\ cache[r].phase = "Ready" => Linked(r)

\* Connections are never taken back.
LEMMA LinkedStays ==
  ASSUME TypeOK, [Next]_vars PROVE \A r \in Resource : Linked(r) => Linked(r)'
  BY Grows DEF Linked

\* With the copies in order, a worker that stops or goes on from a copy in order.
LEMMA ConnectedFrame ==
  ASSUME TypeOK, ConnectedInv, [Next]_vars, UNCHANGED <<store, cache>>
  PROVE  CopiesConnected'
  BY LinkedStays DEF ConnectedInv, CopiesConnected, ReadyNow, Exists

LEMMA ConnectedStops ==
  ASSUME CopiesConnected', pc' = "idle" PROVE ConnectedInv'
  BY DEF ConnectedInv, CopiesConnected, AfterConnect

\* A write that says Ready of a connected Resource only.
LEMMA ConnectedWrite ==
  ASSUME TypeOK, ConnectedInv, [Next]_vars, key \in Resource, NEW o \in Object,
         Write(o), o.phase = "Ready" => Linked(key)
  PROVE  CopiesConnected'
  <1>1. /\ \A r \in Resource : store'[r] = IF r = key THEN o ELSE store[r]
        /\ UNCHANGED cache
    BY DEF Write, TypeOK
  <1>2. QED
    BY <1>1, LinkedStays DEF ConnectedInv, CopiesConnected, ReadyNow, Exists

LEMMA ConnectedWorld ==
  ASSUME TypeOK, ConnectedInv, [Next]_vars, World PROVE ConnectedInv'
  <1>1. UNCHANGED <<pc, key, obj, link, edges>>
    BY DEF World, MoveType, Create, Edit, Delete, Deliver, Settle, Collect,
       worker, locals, remote
  <1>2. CopiesConnected'
    <2>1. CASE UNCHANGED <<store, cache>>
      BY <2>1, ConnectedFrame
    <2>2. ASSUME NEW r \in Resource, Create(r) PROVE CopiesConnected'
      <3>1. /\ \A s \in Resource : store'[s] = IF s = r THEN NewObject(born + 1) ELSE store[s]
            /\ UNCHANGED cache
        BY <2>2 DEF Create, TypeOK
      <3>2. NewObject(born + 1).phase # "Ready"
        BY DEF NewObject
      <3>3. QED
        BY <3>1, <3>2, LinkedStays DEF ConnectedInv, CopiesConnected, ReadyNow, Exists
    <2>3. ASSUME NEW r \in Resource, Edit(r) PROVE CopiesConnected'
      <3>1. store[r] \in Object
        BY <2>3 DEF Edit, TypeOK
      <3>2. store' = [store EXCEPT ![r] = [store[r] EXCEPT !.gen = @ + 1]]
            /\ UNCHANGED cache
        BY <2>3 DEF Edit
      <3>3. [store[r] EXCEPT !.gen = @ + 1].phase = store[r].phase
        BY <3>1 DEF Object
      <3>4. \A s \in Resource : s # r => store'[s] = store[s]
        BY <3>2 DEF TypeOK
      <3>5. store'[r].phase = store[r].phase /\ store[r] # Nil
        BY <3>1, <3>2, <3>3, ResourceAssumption DEF TypeOK
      <3>6. QED
        BY <3>2, <3>4, <3>5, LinkedStays
           DEF ConnectedInv, CopiesConnected, ReadyNow, Exists
    <2>4. ASSUME NEW r \in Resource, Delete(r) PROVE CopiesConnected'
      BY <2>4, LinkedStays
         DEF Delete, ConnectedInv, CopiesConnected, ReadyNow, Exists, TypeOK
    <2>5. ASSUME NEW r \in Resource, Deliver(r) PROVE CopiesConnected'
      BY <2>5, LinkedStays
         DEF Deliver, ConnectedInv, CopiesConnected, ReadyNow, Exists, TypeOK
    <2>6. ASSUME NEW r \in Resource, Settle(r) \/ Collect(r)
          PROVE  UNCHANGED <<store, cache>>
      BY <2>6 DEF Settle, Collect, cluster
    <2>7. MoveType => UNCHANGED <<store, cache>>
      BY DEF MoveType, cluster
    <2>8. QED
      BY <2>1, <2>2, <2>3, <2>4, <2>5, <2>6, <2>7 DEF World
  <1>3. QED
    <2>1. \A r \in Resource : Linked(r) <=> Linked(r)'
      BY <1>1 DEF Linked
    <2>2. pc # "idle" => key \in Resource
      BY DEF TypeOK
    <2>3. pc \in AfterConnect => pc # "idle"
      BY DEF AfterConnect
    <2>4. QED
      BY <1>1, <1>2, <2>1, <2>2, <2>3 DEF ConnectedInv, CopiesConnected

LEMMA ConnectedReconcile ==
  ASSUME TypeOK, ConnectedInv, [Next]_vars, Reconcile PROVE ConnectedInv'
  <1>0. pc # "idle" /\ key \in Resource /\ obj \in Object
    BY Busy DEF Reconcile, WritePending, ReadPending, CheckType, WriteTypeFailed,
       Register, Record, Connect, AllConnected, WriteInvalid, Begin, ReadBegin,
       Apply, Observe, WriteRunFailed, RecordOutcome, ReadOutcome, Patch, Sync,
       WriteReady, FailSpec
  <1>a. key' = key /\ Linked(key) => Linked(key)'
    <2>1. PICK k \in Resource : k = key
      BY <1>0
    <2>2. Linked(k) => Linked(k)'
      BY LinkedStays
    <2>3. QED
      BY <2>1, <2>2 DEF Linked
  <1>b. ASSUME RetryLands PROVE /\ cache[key] \in Object
                                /\ cache[key].phase = "Ready" => Linked(key)
    BY <1>0, <1>b DEF RetryLands, TypeOK, ConnectedInv
  <1>c. ASSUME NEW p \in Phases \ {"Ready"}, WriteCopy([obj EXCEPT !.phase = p])
        PROVE  CopiesConnected'
    <2>1. CASE Write([obj EXCEPT !.phase = p])
      <3>1. [obj EXCEPT !.phase = p] \in Object /\ [obj EXCEPT !.phase = p].phase # "Ready"
        BY <1>0, <1>c, ObjectWrites DEF Object
      <3>2. QED
        BY <1>0, <2>1, <3>1, ConnectedWrite
    <2>2. CASE UNCHANGED cluster
      BY <2>2, ConnectedFrame DEF cluster
    <2>3. QED
      BY <1>c, <2>1, <2>2 DEF WriteCopy
  <1>d. ASSUME RetryFails PROVE ConnectedInv'
    <2>1. UNCHANGED <<store, cache>> /\ pc' = "idle"
      BY <1>d DEF RetryFails, RetryFindsNothing, RetryExhausted, Requeue, Return, cluster
    <2>2. QED
      BY <2>1, ConnectedFrame, ConnectedStops
  <1>1. CASE WritePending \/ WriteTypeFailed \/ WriteInvalid \/ WriteRunFailed
    <2>1. \E p \in Phases \ {"Ready"} : WriteCopy([obj EXCEPT !.phase = p])
      BY <1>1 DEF WritePending, WriteTypeFailed, WriteInvalid, WriteRunFailed,
         FailSpec, Phases
    <2>2. pc' = "idle" \/ (pc' = "pendingRead" /\ UNCHANGED <<key, obj>>)
      BY <1>1 DEF WritePending, WriteTypeFailed, WriteInvalid, WriteRunFailed,
         FailSpec, Done, Requeue, Return, Goto, locals
    <2>3. CASE pc' = "idle"
      BY <1>c, <2>1, <2>3, ConnectedStops
    <2>4. CASE pc' = "pendingRead" /\ UNCHANGED <<key, obj>>
      BY <1>0, <1>a, <1>c, <2>1, <2>4 DEF ConnectedInv, CopiesConnected, AfterConnect
    <2>5. QED
      BY <2>2, <2>3, <2>4
  <1>2. CASE ReadPending \/ ReadBegin \/ ReadOutcome
    <2>1. UNCHANGED <<store, cache, edges>>
      BY <1>2 DEF ReadPending, ReadBegin, ReadOutcome, cluster, remote
    <2>2. CASE pc' = "idle"
      BY <2>1, <2>2, ConnectedFrame, ConnectedStops
    <2>3. CASE /\ cache[key] # Nil /\ obj' = cache[key] /\ UNCHANGED key
               /\ pc' \in {"type", "apply", "patch", "ready"}
               /\ pc' # "type" => pc \in AfterConnect
      <3>1. CopiesConnected'
        BY <2>1, ConnectedFrame
      <3>2. obj'.phase = "Ready" => Linked(key)
        BY <1>0, <2>3 DEF ConnectedInv
      <3>3. pc' # "type" => Linked(key)
        BY <2>3 DEF ConnectedInv
      <3>4. QED
        BY <1>a, <2>3, <3>1, <3>2, <3>3 DEF ConnectedInv, CopiesConnected, AfterConnect
    <2>4. QED
      BY <1>2, <2>2, <2>3 DEF ReadPending, ReadBegin, ReadOutcome, Reread, Goto,
         Requeue, Return, AfterConnect
  <1>3. CASE CheckType \/ AllConnected \/ Apply \/ Observe
    <2>1. UNCHANGED <<store, cache>>
      BY <1>3 DEF CheckType, AllConnected, Apply, Observe, cluster
    <2>2. CASE pc' = "idle"
      BY <2>1, <2>2, ConnectedFrame, ConnectedStops
    <2>3. CASE UNCHANGED <<key, obj>> /\ pc' # "idle"
      <3>1. pc' \in AfterConnect => Linked(key)
        <4>1. CASE Apply \/ Observe
          BY <4>1 DEF Apply, Observe, ConnectedInv, AfterConnect
        <4>2. CASE AllConnected
          <5>1. Links[key] \in Seq(LinkTargets)
            BY <1>0, ResourceAssumption
          <5>2. \A i \in DOMAIN Links[key] : i < link
            BY <4>2, <5>1 DEF AllConnected, TypeOK
          <5>3. QED
            BY <4>2, <5>2 DEF AllConnected, ConnectedInv, Linked
        <4>3. CASE CheckType
          BY <2>3, <4>3 DEF CheckType, Goto, Requeue, Return, AfterConnect
        <4>4. QED
          BY <1>3, <4>1, <4>2, <4>3
      <3>2. pc' # "connect"
        BY <1>3, <2>3 DEF CheckType, AllConnected, Apply, Observe, Goto, Requeue, Return
      <3>3. CopiesConnected'
        BY <2>1, ConnectedFrame
      <3>4. QED
        BY <1>0, <1>a, <2>3, <3>1, <3>2, <3>3 DEF ConnectedInv, CopiesConnected
    <2>4. QED
      BY <1>3, <2>2, <2>3 DEF CheckType, AllConnected, Apply, Observe, Goto,
         Requeue, Return, locals
  <1>4. CASE Register
    <2>1. UNCHANGED <<store, cache>>
      BY <1>4 DEF Register, cluster
    <2>2. CASE pc' = "idle"
      BY <2>1, <2>2, ConnectedFrame, ConnectedStops
    <2>3. CASE /\ UNCHANGED <<key, obj>> /\ pc' \in {"record", "connect"}
               /\ pc' = "connect" => link' = 1
      <3>1. CopiesConnected'
        BY <2>1, ConnectedFrame
      <3>2. Links[key] \in Seq(LinkTargets)
        BY <1>0, ResourceAssumption
      <3>3. \A i \in DOMAIN Links[key] : ~(i < 1)
        BY <3>2
      <3>4. QED
        BY <1>0, <1>a, <2>3, <3>1, <3>3 DEF ConnectedInv, CopiesConnected, AfterConnect
    <2>4. QED
      BY <1>4, <2>2, <2>3 DEF Register, CreateInInventory, UpdateInInventory,
         InventoryRefuses, Enter, Goto, Requeue, Return, locals
  <1>5. CASE Record
    <2>1. CASE /\ RetryLands /\ Write(Recorded(cache[key]))
               /\ obj' = Recorded(cache[key]) /\ link' = 1 /\ Goto("connect")
      <3>1. Recorded(cache[key]) \in Object
            /\ Recorded(cache[key]).phase = cache[key].phase
        BY <1>b, <2>1, ObjectWrites DEF Recorded, Object
      <3>2. CopiesConnected'
        BY <1>0, <1>b, <2>1, <3>1, ConnectedWrite
      <3>3. Links[key] \in Seq(LinkTargets)
        BY <1>0, ResourceAssumption
      <3>4. \A i \in DOMAIN Links[key] : ~(i < 1)
        BY <3>3
      <3>5. obj'.phase = "Ready" => Linked(key)
        BY <1>b, <2>1, <3>1
      <3>6. QED
        BY <1>a, <2>1, <3>2, <3>4, <3>5
           DEF ConnectedInv, CopiesConnected, AfterConnect, Goto
    <2>2. QED
      BY <1>5, <1>d, <2>1 DEF Record
  <1>6. CASE Connect
    <2>1. UNCHANGED <<store, cache>>
      BY <1>6 DEF Connect, cluster
    <2>2. CopiesConnected'
      BY <2>1, ConnectedFrame
    <2>3. CASE pc' = "idle"
      BY <2>2, <2>3, ConnectedStops
    <2>4. CASE Goto("invalid") /\ UNCHANGED obj
      BY <1>0, <1>a, <2>2, <2>4 DEF ConnectedInv, CopiesConnected, AfterConnect, Goto
    <2>5. CASE /\ edges' = edges \union {<<key, Target.to>>} /\ link' = link + 1
               /\ UNCHANGED <<pc, key, obj>>
      <3>1. pc = "connect" /\ pc' = "connect"
        BY <1>6, <2>5 DEF Connect
      <3>2. Links[key] \in Seq(LinkTargets)
        BY <1>0, ResourceAssumption
      <3>3. \A i \in DOMAIN Links[key] : i < link' => i < link \/ i = link
        BY <2>5, <3>2 DEF TypeOK
      <3>4. \A i \in DOMAIN Links[key] : i < link' => <<key, Links[key][i].to>> \in edges'
        BY <2>5, <3>1, <3>3 DEF ConnectedInv, Target
      <3>5. QED
        BY <1>0, <1>a, <2>2, <2>5, <3>1, <3>4
           DEF ConnectedInv, CopiesConnected, AfterConnect
    <2>6. QED
      BY <1>6, <2>3, <2>4, <2>5 DEF Connect, Requeue, Return, locals
  <1>7. CASE Begin \/ RecordOutcome
    <2>1. ASSUME pc \in {"begin", "outcome"}, pc' \in {"beginRead", "outcomeRead"},
                 UNCHANGED <<key, obj>>, CopiesConnected'
          PROVE  ConnectedInv'
      BY <1>0, <1>a, <2>1 DEF ConnectedInv, CopiesConnected, AfterConnect
    <2>2. CASE RetryFails
      BY <1>d, <2>2
    <2>3. CASE /\ Begin /\ RetryLands /\ UNCHANGED locals /\ Goto("beginRead")
               /\ Write([cache[key] EXCEPT !.phase = "ProvisioningInProgress"])
      <3> DEFINE o == [cache[key] EXCEPT !.phase = "ProvisioningInProgress"]
      <3>1. o \in Object
        BY <1>b, <2>3, ObjectWrites DEF Phases
      <3>2. o.phase # "Ready"
        BY <1>b, <2>3 DEF Object
      <3>3. CopiesConnected'
        BY <1>0, <2>3, <3>1, <3>2, ConnectedWrite
      <3>4. QED
        BY <2>1, <2>3, <3>3 DEF Begin, Goto, locals
    <2>4. CASE /\ RecordOutcome /\ RetryLands /\ UNCHANGED locals /\ Goto("outcomeRead")
               /\ Write([cache[key] EXCEPT !.phase = PhaseOf(outcome), !.at = outcome])
      <3> DEFINE o == [cache[key] EXCEPT !.phase = PhaseOf(outcome), !.at = outcome]
      <3>1. o \in Object
        BY <1>b, <2>4 DEF TypeOK, Object, PhaseOf, Phases, Outcomes
      <3>2. Linked(key)
        BY <2>4 DEF RecordOutcome, ConnectedInv, AfterConnect
      <3>3. CopiesConnected'
        BY <1>0, <2>4, <3>1, <3>2, ConnectedWrite
      <3>4. QED
        BY <2>1, <2>4, <3>3 DEF RecordOutcome, Goto, locals
    <2>5. QED
      BY <1>7, <2>2, <2>3, <2>4 DEF Begin, RecordOutcome
  <1>8. CASE Patch
    <2>1. CASE pc = "patch" /\ RetryLands /\ Write(PatchStatus(cache[key]))
               /\ obj' = PatchStatus(cache[key]) /\ Goto("sync")
      <3>1. PatchStatus(cache[key]) \in Object
            /\ PatchStatus(cache[key]).phase = obj.phase
        BY <1>0, <1>b, <2>1, ObjectWrites DEF PatchStatus, Object
      <3>2. Linked(key)
        BY <2>1 DEF ConnectedInv, AfterConnect
      <3>3. CopiesConnected'
        BY <1>0, <2>1, <3>1, <3>2, ConnectedWrite
      <3>4. QED
        BY <1>a, <2>1, <3>2, <3>3 DEF ConnectedInv, CopiesConnected, Goto
    <2>2. CASE Requeue /\ UNCHANGED cluster
      BY <2>2, ConnectedFrame, ConnectedStops DEF Requeue, Return, cluster
    <2>3. QED
      BY <1>8, <1>d, <2>1, <2>2 DEF Patch
  <1>9. CASE Sync
    <2>1. UNCHANGED <<store, cache>>
      BY <1>9 DEF Sync, cluster
    <2>2. CopiesConnected'
      BY <2>1, ConnectedFrame
    <2>3. pc' = "idle" \/ (pc' = "ready" /\ UNCHANGED <<key, obj>>)
      BY <1>9 DEF Sync, Enter, Goto, Requeue, Return, locals
    <2>4. Linked(key)
      BY <1>9 DEF Sync, ConnectedInv, AfterConnect
    <2>5. QED
      BY <1>a, <2>2, <2>3, <2>4 DEF ConnectedInv, CopiesConnected, AfterConnect
  <1>10. CASE WriteReady
    <2>1. CASE pc = "ready" /\ RetryLands /\ Done
               /\ Write([cache[key] EXCEPT !.phase = "Ready"])
      <3>1. [cache[key] EXCEPT !.phase = "Ready"] \in Object
        BY <1>b, <2>1, ObjectWrites DEF Phases
      <3>2. Linked(key)
        BY <2>1 DEF ConnectedInv, AfterConnect
      <3>3. QED
        BY <1>0, <2>1, <3>1, <3>2, ConnectedWrite, ConnectedStops DEF Done, Return
    <2>2. QED
      BY <1>10, <1>d, <2>1 DEF WriteReady
  <1>11. QED
    BY <1>1, <1>2, <1>3, <1>4, <1>5, <1>6, <1>7, <1>8, <1>9, <1>10 DEF Reconcile

\* ConnectedInv holds throughout: a Resource that is Ready in the store, in the
\* cache or in the worker's copy, or whose Reconcile has passed the connections of
\* lines 192 to 240, has all of them in Inventory.
THEOREM ConnectedInductive == Spec => []ConnectedInv
  <1>1. Init => ConnectedInv
    BY DEF Init, ConnectedInv, ReadyNow, Exists, AfterConnect
  <1>2. TypeOK /\ ConnectedInv /\ [Next]_vars => ConnectedInv'
    <2> SUFFICES ASSUME TypeOK, ConnectedInv, [Next]_vars PROVE ConnectedInv'
      OBVIOUS
    <2>1. CASE World
      BY <2>1, ConnectedWorld
    <2>2. ASSUME NEW r \in Resource, Start(r) PROVE ConnectedInv'
      <3>1. UNCHANGED <<store, cache>>
        BY <2>2 DEF Start, cluster
      <3>2. CopiesConnected'
        BY <3>1, ConnectedFrame
      <3>3. \/ pc' = "idle"
            \/ /\ cache[r] # Nil /\ key' = r /\ obj' = cache[r]
               /\ pc' \in {"pending", "type"}
        BY <2>2 DEF Start, worker, locals
      <3>4. cache[r] # Nil /\ cache[r].phase = "Ready" => Linked(r)'
        BY LinkedStays DEF ConnectedInv
      <3>5. QED
        BY <3>2, <3>3, <3>4, ConnectedStops DEF ConnectedInv, CopiesConnected,
           AfterConnect, Linked
    <2>3. CASE Reconcile
      BY <2>3, ConnectedReconcile
    <2>4. CASE Crash
      <3>1. UNCHANGED store /\ cache' = store /\ pc' = "idle"
        BY <2>4 DEF Crash, Return
      <3>2. CopiesConnected'
        BY <3>1, LinkedStays DEF ConnectedInv, CopiesConnected, ReadyNow, Exists
      <3>3. QED
        BY <3>1, <3>2, ConnectedStops
    <2>5. CASE UNCHANGED vars
      BY <2>5 DEF vars, cluster, worker, locals, remote, ConnectedInv, ReadyNow,
         Exists, Linked
    <2>6. QED
      BY <2>1, <2>2, <2>3, <2>4, <2>5 DEF Next
  <1>3. QED
    BY <1>1, <1>2, TypeCorrect, PTL DEF Spec

\* ReadyIsConnected holds throughout: a Resource in phase Ready has all its
\* connections in Inventory, to resources Inventory knows.
THEOREM ReadyConnected == Spec => []ReadyIsConnected
  <1>1. TypeOK /\ RegistryInv /\ ConnectedInv => ReadyIsConnected
    <2> SUFFICES ASSUME TypeOK, RegistryInv, ConnectedInv,
                        NEW r \in Resource, ReadyNow(r), NEW i \in DOMAIN Links[r]
                 PROVE  /\ <<r, Links[r][i].to>> \in edges
                        /\ inventory[Links[r][i].to] # Nil
      BY DEF ReadyIsConnected
    <2>1. <<r, Links[r][i].to>> \in edges
      BY DEF ConnectedInv, Linked
    <2>2. QED
      BY <2>1 DEF RegistryInv
  <1>2. QED
    BY <1>1, TypeCorrect, RegistryInductive, ConnectedInductive, PTL
====
