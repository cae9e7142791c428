-------------------------- MODULE ResourceRestProofs --------------------------
(***************************************************************************)
(* What ResourceController leaves behind when it goes quiet, for any set   *)
(* of Resources, any connections, any number of incarnations, edits,       *)
(* failures and restarts.                                                  *)
(***************************************************************************)
EXTENDS ResourceProofs

Engaged(r) == pc # "idle" /\ key = r
Held(r) == r \in queue \/ Engaged(r)

\* The same incarnation, with the same spec.
SameSpec(old, new) == new \in Object /\ new.uid = old.uid /\ new.gen = old.gen

\* A Reconcile has a key and its object.
LEMMA Working ==
  ASSUME TypeOK, Reconcile
  PROVE  pc # "idle" /\ key \in Resource /\ obj \in Object
  BY Busy DEF Reconcile, WritePending, ReadPending, CheckType, WriteTypeFailed,
     Register, Record, Connect, AllConnected, WriteInvalid, Begin, ReadBegin,
     Apply, Observe, WriteRunFailed, RecordOutcome, ReadOutcome, Patch, Sync,
     WriteReady, FailSpec

\* Every status write of the worker is over an object it is about.
LEMMA StatusWrite ==
  ASSUME NEW o \in Object
  PROVE  /\ \A p \in Phases : SameSpec(o, [o EXCEPT !.phase = p])
         /\ \A p \in Phases : [o EXCEPT !.phase = p].phase = p
         /\ SameSpec(o, Recorded(o))
         /\ obj \in Object => SameSpec(o, PatchStatus(o))
  <1>1. SameSpec(o, Recorded(o))
    BY ObjectWrites DEF SameSpec, Recorded, Object
  <1>2. ASSUME obj \in Object PROVE SameSpec(o, PatchStatus(o))
    BY <1>2, ObjectWrites DEF SameSpec, PatchStatus, Object
  <1>3. ASSUME NEW p \in Phases
        PROVE  SameSpec(o, [o EXCEPT !.phase = p]) /\ [o EXCEPT !.phase = p].phase = p
    BY ObjectWrites DEF SameSpec, Object
  <1>4. QED
    BY <1>1, <1>2, <1>3

LEMMA OutcomeWrite ==
  ASSUME NEW o \in Object, TypeOK
  PROVE  SameSpec(o, [o EXCEPT !.phase = PhaseOf(outcome), !.at = outcome])
  <1>1. PhaseOf(outcome) \in Phases
    BY DEF PhaseOf, Phases
  <1>2. QED
    BY <1>1 DEF SameSpec, Object, TypeOK

\* What a Reconcile writes: nothing, or a status.
Written ==
  \/ UNCHANGED store
  \/ /\ store[key] # Nil /\ store' = [store EXCEPT ![key] = store'[key]]
     /\ SameSpec(store[key], store'[key])

LEMMA CopyWritten ==
  ASSUME TypeOK, key \in Resource, obj \in Object, NEW p \in Phases,
         WriteCopy([obj EXCEPT !.phase = p])
  PROVE  Written /\ UNCHANGED <<cache, born>>
  <1>1. CASE UNCHANGED cluster
    BY <1>1 DEF cluster, Written
  <1>2. CASE IsCurrent(obj) /\ Write([obj EXCEPT !.phase = p])
    <2>1. SameSpec(obj, [obj EXCEPT !.phase = p])
      BY StatusWrite
    <2>2. store[key] = obj /\ obj # Nil
      BY <1>2, ResourceAssumption DEF IsCurrent
    <2>3. QED
      BY <1>2, <2>1, <2>2 DEF Write, Written, TypeOK
  <1>3. QED
    BY <1>1, <1>2 DEF WriteCopy

LEMMA RetryWritten ==
  ASSUME TypeOK, key \in Resource, RetryLands, NEW o, SameSpec(cache[key], o), Write(o)
  PROVE  Written /\ UNCHANGED <<cache, born>>
  BY DEF RetryLands, IsCurrent, Write, Written, TypeOK

LEMMA RetryUnwritten ==
  ASSUME RetryFails
  PROVE  UNCHANGED cluster /\ Requeue
  BY DEF RetryFails, RetryFindsNothing, RetryExhausted

LEMMA ReconcileWrites ==
  ASSUME TypeOK, Reconcile
  PROVE  Written /\ UNCHANGED <<cache, born>>
  <1>1. key \in Resource /\ obj \in Object
    BY Working
  <1>2. CASE WritePending \/ WriteTypeFailed \/ WriteInvalid \/ WriteRunFailed
    <2>1. \E p \in Phases : WriteCopy([obj EXCEPT !.phase = p])
      BY <1>2 DEF WritePending, WriteTypeFailed, WriteInvalid, WriteRunFailed,
         FailSpec, Phases
    <2>2. QED
      BY <1>1, <2>1, CopyWritten
  <1>3. RetryLands => cache[key] \in Object
    BY <1>1 DEF RetryLands, TypeOK
  <1>4. UNCHANGED cluster => Written /\ UNCHANGED <<cache, born>>
    BY DEF cluster, Written
  <1>5. CASE Record
    <2>1. CASE RetryLands /\ Write(Recorded(cache[key]))
      BY <1>1, <1>3, <2>1, StatusWrite, RetryWritten
    <2>2. QED
      BY <1>4, <1>5, <2>1, RetryUnwritten DEF Record
  <1>6. CASE Patch
    <2>1. CASE RetryLands /\ Write(PatchStatus(cache[key]))
      BY <1>1, <1>3, <2>1, StatusWrite, RetryWritten
    <2>2. QED
      BY <1>4, <1>6, <2>1, RetryUnwritten DEF Patch, cluster
  <1>7. CASE Begin \/ WriteReady
    <2>1. ASSUME NEW p \in Phases, RetryLands, Write([cache[key] EXCEPT !.phase = p])
          PROVE  Written /\ UNCHANGED <<cache, born>>
      BY <1>1, <1>3, <2>1, StatusWrite, RetryWritten
    <2>2. "ProvisioningInProgress" \in Phases /\ "Ready" \in Phases
      BY DEF Phases
    <2>3. QED
      BY <1>4, <1>7, <2>1, <2>2, RetryUnwritten DEF Begin, WriteReady
  <1>8. CASE RecordOutcome
    <2>1. CASE /\ RetryLands
               /\ Write([cache[key] EXCEPT !.phase = PhaseOf(outcome), !.at = outcome])
      BY <1>1, <1>3, <2>1, OutcomeWrite, RetryWritten
    <2>2. QED
      BY <1>4, <1>8, <2>1, RetryUnwritten DEF RecordOutcome
  <1>9. CASE ReadPending \/ CheckType \/ Register \/ Connect \/ AllConnected
             \/ ReadBegin \/ Apply \/ Observe \/ ReadOutcome \/ Sync
    BY <1>4, <1>9 DEF ReadPending, CheckType, Register, Connect, AllConnected,
       ReadBegin, Apply, Observe, ReadOutcome, Sync
  <1>10. QED
    BY <1>2, <1>5, <1>6, <1>7, <1>8, <1>9 DEF Reconcile

\* How a step of a Reconcile leaves the worker: requeued, done with a phase that
\* ends it, or further on, with its copy or one of the cache's.
LEMMA ReconcileMoves ==
  ASSUME TypeOK, Reconcile
  PROVE  \/ Requeue
         \/ Done /\ store'[key].phase \in {"Ready", "Failed"}
         \/ /\ UNCHANGED <<key, queue>> /\ pc' # "idle"
            /\ obj' = obj \/ (cache[key] # Nil /\ SameSpec(cache[key], obj'))
  <1>1. key \in Resource /\ obj \in Object
    BY Working
  <1>2. cache[key] # Nil => cache[key] \in Object
    BY <1>1 DEF TypeOK
  <1>3. ASSUME NEW o \in Object, Write(o) PROVE store'[key] = o
    BY <1>1, <1>3 DEF Write, TypeOK
  <1>4. CASE WriteTypeFailed \/ WriteInvalid
    <2>1. "Failed" \in Phases
      BY DEF Phases
    <2>2. [obj EXCEPT !.phase = "Failed"] \in Object /\ [obj EXCEPT !.phase = "Failed"].phase = "Failed"
      BY <1>1, <2>1, StatusWrite DEF SameSpec
    <2>3. QED
      BY <1>3, <1>4, <2>2 DEF WriteTypeFailed, WriteInvalid, FailSpec, WriteCopy
  <1>5. CASE WriteReady
    <2>1. "Ready" \in Phases
      BY DEF Phases
    <2>2. CASE RetryLands /\ Write([cache[key] EXCEPT !.phase = "Ready"]) /\ Done
      <3>1. /\ [cache[key] EXCEPT !.phase = "Ready"] \in Object
            /\ [cache[key] EXCEPT !.phase = "Ready"].phase = "Ready"
        BY <1>2, <2>1, <2>2, StatusWrite DEF SameSpec, RetryLands
      <3>2. QED
        BY <1>3, <2>2, <3>1
    <2>3. QED
      BY <1>5, <2>2, RetryUnwritten DEF WriteReady
  <1>6. CASE Record
    <2>1. CASE RetryLands /\ obj' = Recorded(cache[key]) /\ Goto("connect")
      BY <1>2, <2>1, StatusWrite DEF RetryLands, Goto
    <2>2. QED
      BY <1>6, <2>1, RetryUnwritten DEF Record
  <1>7. CASE Patch
    <2>1. CASE RetryLands /\ obj' = PatchStatus(cache[key]) /\ Goto("sync")
      BY <1>1, <1>2, <2>1, StatusWrite DEF RetryLands, Goto
    <2>2. QED
      BY <1>7, <2>1, RetryUnwritten DEF Patch
  <1>8. CASE ReadPending \/ ReadBegin \/ ReadOutcome
    BY <1>2, <1>8 DEF ReadPending, ReadBegin, ReadOutcome, Reread, Goto, SameSpec
  <1>9. CASE WritePending \/ CheckType \/ Register \/ Connect \/ AllConnected
             \/ Apply \/ Observe \/ Sync \/ WriteRunFailed
    BY <1>9 DEF WritePending, CheckType, Register, CreateInInventory, UpdateInInventory,
       InventoryRefuses, Connect, AllConnected, Apply, Observe, Sync, WriteRunFailed,
       Enter, Goto, locals
  <1>10. CASE Begin \/ RecordOutcome
    BY <1>10, RetryUnwritten DEF Begin, RecordOutcome, Goto, locals
  <1>11. QED
    BY <1>4, <1>5, <1>6, <1>7, <1>8, <1>9, <1>10 DEF Reconcile

-----------------------------------------------------------------------------
(***************************************************************************)
(* What one step can do to one Resource.                                   *)
(***************************************************************************)
CreatedNow(r) ==
  /\ store[r] = Nil /\ store'[r] # Nil
  /\ store'[r].uid = born + 1 /\ born' = born + 1
  /\ store'[r].phase = "" /\ store'[r].inv = "none"
Edited(r) ==
  /\ store[r] # Nil /\ store'[r] # Nil
  /\ store'[r].uid = store[r].uid /\ store'[r].gen = store[r].gen + 1
  /\ store'[r].phase = store[r].phase
  /\ store'[r].inv = store[r].inv /\ store'[r].at = store[r].at
StatusSet(r) == Reconcile /\ Engaged(r) /\ store[r] # Nil /\ SameSpec(store[r], store'[r])

LEMMA StoreSteps ==
  ASSUME TypeOK, [Next]_vars, NEW r \in Resource
  PROVE  /\ born' \in Nat /\ born <= born'
         /\ \/ store'[r] = store[r]
            \/ store'[r] = Nil
            \/ UNCHANGED cache /\ CreatedNow(r)
            \/ UNCHANGED cache /\ Edited(r)
            \/ UNCHANGED cache /\ StatusSet(r)
  <1>0. born \in Nat
    BY DEF TypeOK
  <1>1. ASSUME NEW s \in Resource, Create(s)
        PROVE  born' = born + 1 /\ (store'[r] = store[r] \/ (UNCHANGED cache /\ CreatedNow(r)))
    <2> DEFINE u == born + 1
    <2>1. u \in Nat
      BY DEF TypeOK
    <2>2. store' = [store EXCEPT ![s] = NewObject(u)] /\ UNCHANGED cache /\ born' = u
      BY <1>1 DEF Create
    <2> HIDE DEF u
    <2>3. /\ NewObject(u) # Nil /\ NewObject(u).uid = u
          /\ NewObject(u).phase = "" /\ NewObject(u).inv = "none"
      <3>1. NewObject(u) \in Object
        BY <2>1, NewObjectType
      <3>2. QED
        BY <3>1, ResourceAssumption DEF NewObject
    <2>4. CASE r = s
      <3>1. store'[r] = NewObject(u) /\ store[r] = Nil
        BY <1>1, <2>2, <2>4 DEF Create, TypeOK
      <3>2. QED
        BY <2>2, <2>3, <3>1 DEF CreatedNow, u
    <2>5. CASE r # s
      BY <2>2, <2>5 DEF TypeOK, u
    <2>6. QED
      BY <2>4, <2>5
  <1>2. ASSUME NEW s \in Resource, Edit(s)
        PROVE  UNCHANGED born /\ (store'[r] = store[r] \/ (UNCHANGED cache /\ Edited(r)))
    <2>1. store[s] \in Object
      BY <1>2 DEF Edit, TypeOK
    <2> DEFINE o == [store[s] EXCEPT !.gen = @ + 1]
    <2>2. store' = [store EXCEPT ![s] = o] /\ UNCHANGED <<cache, born>>
      BY <1>2 DEF Edit
    <2>3. o \in Object /\ o # Nil
      BY <2>1, ObjectWrites, ResourceAssumption
    <2>4. /\ o.uid = store[s].uid /\ o.gen = store[s].gen + 1
          /\ o.phase = store[s].phase /\ o.inv = store[s].inv /\ o.at = store[s].at
      BY <2>1 DEF Object
    <2> HIDE DEF o
    <2>5. CASE r = s
      BY <1>2, <2>2, <2>3, <2>4, <2>5 DEF Edit, Edited, TypeOK
    <2>6. CASE r # s
      BY <2>2, <2>6 DEF TypeOK
    <2>7. QED
      BY <2>2, <2>5, <2>6
  <1>3. ASSUME NEW s \in Resource, Delete(s)
        PROVE  UNCHANGED born /\ (store'[r] = store[r] \/ store'[r] = Nil)
    BY <1>3 DEF Delete, TypeOK
  <1>4. CASE Reconcile
    <2>1. Written /\ UNCHANGED <<cache, born>> /\ pc # "idle" /\ key \in Resource
      BY <1>4, ReconcileWrites, Working
    <2>2. CASE r = key
      <3>1. store'[r] = store[r] \/ StatusSet(r)
        BY <1>4, <2>1, <2>2 DEF Written, StatusSet, Engaged
      <3>2. born <= born'
        BY <1>0, <2>1
      <3>3. QED
        BY <1>0, <2>1, <3>1, <3>2
    <2>3. CASE r # key
      <3>1. store'[r] = store[r]
        BY <2>1, <2>3 DEF Written, TypeOK
      <3>2. QED
        BY <1>0, <2>1, <3>1
    <2>4. QED
      BY <2>2, <2>3
  <1>5. ASSUME UNCHANGED <<store, born>> PROVE born' = born /\ store'[r] = store[r]
    BY <1>5
  <1>6. ASSUME NEW s \in Resource, Deliver(s) \/ Settle(s) \/ Collect(s)
        PROVE  UNCHANGED <<store, born>>
    BY <1>6 DEF Deliver, Settle, Collect, cluster
  <1>7. CASE MoveType \/ Crash \/ UNCHANGED vars \/ \E s \in Resource : Start(s)
    <2>1. UNCHANGED <<store, born>>
      BY <1>7 DEF MoveType, Crash, Start, vars, cluster
    <2>2. QED
      BY <1>0, <1>5, <2>1
  <1>8. CASE World
    BY <1>0, <1>1, <1>2, <1>3, <1>5, <1>6, <1>7, <1>8 DEF World
  <1>9. QED
    BY <1>4, <1>7, <1>8 DEF Next

\* What the informer does to the copy of one Resource; an event it passes on
\* puts the key in the queue.
LEMMA CacheSteps ==
  ASSUME TypeOK, [Next]_vars, NEW r \in Resource
  PROVE  \/ cache'[r] = cache[r]
         \/ /\ cache'[r] = store[r] /\ UNCHANGED store
            /\ Passes(cache[r], store[r]) /\ store[r] # Nil => r \in queue'
  <1>1. ASSUME NEW s \in Resource, Deliver(s)
        PROVE  \/ cache'[r] = cache[r]
               \/ /\ cache'[r] = store[r] /\ UNCHANGED store
                  /\ Passes(cache[r], store[r]) => r \in queue'
    <2>1. CASE r = s
      BY <1>1, <2>1 DEF Deliver, TypeOK
    <2>2. CASE r # s
      BY <1>1, <2>2 DEF Deliver, TypeOK
    <2>3. QED
      BY <2>1, <2>2
  <1>2. CASE Crash
    BY <1>2 DEF Crash
  <1>3. CASE Reconcile
    BY <1>3, ReconcileWrites
  <1>4. ASSUME NEW s \in Resource, Create(s) \/ Edit(s) \/ Delete(s) \/ Settle(s) \/ Collect(s)
        PROVE  UNCHANGED cache
    BY <1>4 DEF Create, Edit, Delete, Settle, Collect, cluster
  <1>5. CASE World
    BY <1>1, <1>4, <1>5 DEF World, MoveType, cluster
  <1>6. CASE UNCHANGED vars \/ \E s \in Resource : Start(s)
    BY <1>6 DEF Start, vars, cluster
  <1>7. QED
    BY <1>2, <1>3, <1>5, <1>6 DEF Next

\* A Resource that waits for the worker goes on waiting, is being reconciled, or
\* was let go: gone from the cache, gone altogether, or left in a final phase.
LEMMA HeldSteps ==
  ASSUME TypeOK, [Next]_vars, NEW r \in Resource, Held(r)
  PROVE  \/ Held(r)'
         \/ cache[r] = Nil /\ UNCHANGED <<store, cache>>
         \/ store'[r] = Nil
         \/ Engaged(r) /\ Reconcile /\ Done /\ store'[r].phase \in {"Ready", "Failed"}
  <1>1. CASE Reconcile
    BY <1>1, ReconcileMoves DEF Held, Engaged, Requeue, Return, Done
  <1>2. ASSUME NEW s \in Resource, Start(s)
        PROVE  Held(r)' \/ (cache[r] = Nil /\ UNCHANGED <<store, cache>>)
    BY <1>2 DEF Start, Held, Engaged, cluster, worker
  <1>3. CASE Crash
    BY <1>3 DEF Crash, Held
  <1>4. CASE World \/ UNCHANGED vars
    BY <1>4 DEF World, MoveType, Create, Edit, Delete, Deliver, Settle, Collect,
       vars, worker, Held, Engaged
  <1>5. QED
    BY <1>1, <1>2, <1>3, <1>4 DEF Next

-----------------------------------------------------------------------------
LEMMA VersionsStep ==
  ASSUME TypeOK, TypeOK', VersionsInv, [Next]_vars
  PROVE  VersionsInv'
  <1> SUFFICES ASSUME NEW r \in Resource
               PROVE  /\ store'[r] # Nil => store'[r].uid <= born'
                      /\ cache'[r] # Nil =>
                           /\ cache'[r].uid <= born'
                           /\ store'[r] # Nil /\ cache'[r].uid = store'[r].uid =>
                                cache'[r].gen <= store'[r].gen
    BY DEF VersionsInv, Exists
  <1>1. /\ born \in Nat /\ born' \in Nat /\ born <= born'
        /\ \/ store'[r] = store[r]
           \/ store'[r] = Nil
           \/ UNCHANGED cache /\ CreatedNow(r)
           \/ UNCHANGED cache /\ Edited(r)
           \/ UNCHANGED cache /\ StatusSet(r)
    BY StoreSteps DEF TypeOK
  <1>2. cache'[r] = cache[r] \/ (cache'[r] = store[r] /\ UNCHANGED store)
    BY CacheSteps
  <1>3. /\ store[r] # Nil => store[r].uid \in Nat /\ store[r].gen \in Nat
        /\ cache[r] # Nil => cache[r].uid \in Nat /\ cache[r].gen \in Nat
        /\ store'[r] # Nil => store'[r].uid \in Nat /\ store'[r].gen \in Nat
    BY DEF TypeOK, Object
  <1>4. /\ store[r] # Nil => store[r].uid <= born
        /\ cache[r] # Nil =>
             /\ cache[r].uid <= born
             /\ store[r] # Nil /\ cache[r].uid = store[r].uid => cache[r].gen <= store[r].gen
    BY DEF VersionsInv, Exists
  <1>5. CASE store'[r] = store[r]
    BY <1>1, <1>2, <1>3, <1>4, <1>5
  <1>6. CASE store'[r] = Nil
    BY <1>1, <1>2, <1>3, <1>4, <1>6
  <1>7. CASE UNCHANGED cache /\ CreatedNow(r)
    <2>1. cache'[r] = cache[r] /\ store'[r] # Nil /\ store'[r].uid = born'
      BY <1>7 DEF CreatedNow
    <2>2. born' = born + 1
      BY <1>7 DEF CreatedNow
    <2>3. born < born' /\ born' <= born'
      BY <1>1, <2>2
    <2>4. CASE cache[r] = Nil
      BY <2>1, <2>3, <2>4
    <2>5. CASE cache[r] # Nil
      <3>1. cache[r].uid \in Nat /\ cache[r].uid <= born
        BY <1>3, <1>4, <2>5
      <3>2. cache[r].uid <= born' /\ cache[r].uid # born'
        BY <1>1, <2>3, <3>1
      <3>3. QED
        BY <2>1, <2>3, <3>2
    <2>6. QED
      BY <2>4, <2>5
  <1>8. CASE UNCHANGED cache /\ Edited(r)
    BY <1>1, <1>3, <1>4, <1>8 DEF Edited
  <1>9. CASE UNCHANGED cache /\ StatusSet(r)
    BY <1>1, <1>3, <1>4, <1>9 DEF StatusSet, SameSpec
  <1>10. QED
    BY <1>1, <1>5, <1>6, <1>7, <1>8, <1>9

\* An edit and a new incarnation are events the predicate lets through.
LEMMA ChangePasses ==
  ASSUME TypeOK, VersionsInv, NEW r \in Resource, CreatedNow(r) \/ Edited(r)
  PROVE  Passes(cache[r], store'[r])
  <1>1. CASE cache[r] = Nil
    BY <1>1 DEF Passes
  <1>2. CASE cache[r] # Nil
    <2>1. cache[r].uid \in Nat /\ cache[r].gen \in Nat /\ cache[r].uid <= born /\ born \in Nat
      BY <1>2 DEF VersionsInv, TypeOK, Object
    <2>2. CASE CreatedNow(r)
      <3> DEFINE u == born + 1
      <3>1. store'[r].uid = u
        BY <2>2 DEF CreatedNow
      <3>2. cache[r].uid # u
        BY <2>1
      <3> HIDE DEF u
      <3>3. QED
        BY <3>1, <3>2 DEF Passes
    <2>3. CASE Edited(r)
      <3>1. store[r].gen \in Nat /\ store[r] # Nil
        BY <2>3 DEF Edited, TypeOK, Object
      <3>2. cache[r].uid = store[r].uid => cache[r].gen <= store[r].gen
        BY <1>2, <3>1 DEF VersionsInv, Exists
      <3>3. store'[r].uid = store[r].uid /\ store'[r].gen = store[r].gen + 1
        BY <2>3 DEF Edited
      <3>4. QED
        BY <2>1, <3>1, <3>2, <3>3 DEF Passes
    <2>4. QED
      BY <2>2, <2>3
  <1>3. QED
    BY <1>1, <1>2

\* A Resource the worker need not look at again is as it was, in the store and in
\* what the predicate compares, unless it was just let go.
LEMMA AsleepSteps ==
  ASSUME TypeOK, VersionsInv, [Next]_vars, NEW r \in Resource, ~Awake(r)', store'[r] # Nil
  PROVE  \/ ~Awake(r) /\ store'[r] = store[r]
         \/ /\ Engaged(r) /\ Reconcile /\ Done
            /\ store'[r].phase \in {"Ready", "Failed"}
  <1>1. ~Held(r)' /\ ~Passes(cache'[r], store'[r])
    BY DEF Awake, Held, Engaged
  <1>2. CASE Held(r)
    BY <1>1, <1>2, HeldSteps DEF Passes
  <1>3. CASE ~Held(r)
    <2>1. store'[r] = store[r]
      <3>1. ~StatusSet(r)
        BY <1>3 DEF StatusSet, Held
      <3>2. ~(UNCHANGED cache /\ (CreatedNow(r) \/ Edited(r)))
        BY <1>1, ChangePasses
      <3>3. QED
        BY <3>1, <3>2, StoreSteps
    <2>2. ~Passes(cache[r], store[r])
      BY <1>1, <2>1, CacheSteps DEF Held
    <2>3. QED
      BY <1>3, <2>1, <2>2 DEF Awake, Held, Engaged
  <1>4. QED
    BY <1>2, <1>3

LEMMA AwakeStep ==
  ASSUME TypeOK, VersionsInv, AwakeInv, [Next]_vars
  PROVE  AwakeInv'
  <1> SUFFICES ASSUME NEW r \in Resource, store'[r] # Nil, ~Awake(r)'
               PROVE  store'[r].phase \in {"Ready", "Failed"}
    BY DEF AwakeInv, Exists
  <1>1. QED
    BY AsleepSteps DEF AwakeInv, Exists

LEMMA RestInductive == Spec => [](VersionsInv /\ AwakeInv)
  <1>1. Init => VersionsInv /\ AwakeInv
    BY DEF Init, VersionsInv, AwakeInv, Exists
  <1>2. TypeOK /\ TypeOK' /\ VersionsInv /\ AwakeInv /\ [Next]_vars => VersionsInv' /\ AwakeInv'
    BY VersionsStep, AwakeStep
  <1>3. QED
    BY <1>1, <1>2, TypeCorrect, PTL DEF Spec

(***************************************************************************)
(* RestIsTerminal holds throughout: whatever events the predicate drops    *)
(* (predicates.go, lines 14 to 35) and whatever becomes of a Reconcile, a  *)
(* Resource nobody will look at again is Ready or Failed.                  *)
(***************************************************************************)
THEOREM RestTerminal == Spec => []RestIsTerminal
  <1>1. AwakeInv => RestIsTerminal
    <2> SUFFICES ASSUME AwakeInv, AtRest, NEW r \in Resource, Exists(r)
                 PROVE  store[r].phase \in {"Ready", "Failed"}
      BY DEF RestIsTerminal
    <2>1. ~Awake(r)
      BY DEF AtRest, Awake, Passes, Exists
    <2>2. QED
      BY <2>1 DEF AwakeInv
  <1>2. QED
    BY <1>1, RestInductive, PTL

-----------------------------------------------------------------------------
(***************************************************************************)
(* What Inventory holds.                                                   *)
(***************************************************************************)

\* An entry written for the key of the moment is there, with what was sent.
LEMMA Entered ==
  ASSUME TypeOK, key \in Resource, NEW b \in BOOLEAN, Enter(b)
  PROVE  /\ inventory'[key] # Nil /\ inventory'[key].gen = props
         /\ inventory'[key].outputs = b
         /\ \A r \in Resource : r # key => inventory'[r] = inventory[r]
  <1>1. [gen |-> props, outputs |-> b] # Nil
    <2>1. [gen |-> props, outputs |-> b] \in Entry
      BY DEF TypeOK, Entry
    <2>2. QED
      BY <2>1, ResourceAssumption
  <1>2. QED
    BY <1>1 DEF Enter, TypeOK

\* Only the worker writes to Inventory, and only for its key.
LEMMA InventoryWrites ==
  ASSUME TypeOK, [Next]_vars
  PROVE  \/ UNCHANGED inventory
         \/ /\ Reconcile /\ pc \in {"register", "sync"}
            /\ \A r \in Resource : r # key => inventory'[r] = inventory[r]
  <1>1. CASE Register \/ Sync
    <2>1. key \in Resource /\ Reconcile
      BY <1>1, Working DEF Reconcile
    <2>2. UNCHANGED inventory \/ \E b \in BOOLEAN : Enter(b)
      BY <1>1 DEF Register, CreateInInventory, UpdateInInventory, InventoryRefuses, Sync
    <2>3. QED
      BY <1>1, <2>1, <2>2, Entered DEF Register, Sync
  <1>2. CASE Reconcile /\ ~(Register \/ Sync)
    BY <1>2 DEF Reconcile, WritePending, ReadPending, CheckType, WriteTypeFailed,
       Record, Connect, AllConnected, WriteInvalid, FailSpec, Begin, ReadBegin,
       Apply, Observe, WriteRunFailed, RecordOutcome, ReadOutcome, Patch,
       WriteReady, RetryFails, RetryFindsNothing, RetryExhausted, remote
  <1>3. CASE World \/ Crash \/ UNCHANGED vars \/ \E r \in Resource : Start(r)
    BY <1>3 DEF World, MoveType, Create, Edit, Delete, Deliver, Settle, Collect,
       Crash, Start, vars, remote
  <1>4. QED
    BY <1>1, <1>2, <1>3 DEF Next

\* The order of the steps: the properties are taken from the copy, registered,
\* and registered again with the outputs of the patches.
LEMMA Control ==
  ASSUME TypeOK, Reconcile, pc' # "idle"
  PROVE  /\ pc' \in AfterType =>
              \/ pc = "type" /\ props' = obj.gen /\ obj' = obj
              \/ pc \in AfterType /\ props' = props
         /\ pc' \in AfterRegister =>
              \/ Enter(FALSE) /\ props' = props
              \/ Enter(TRUE) /\ props' = props
              \/ pc \in AfterRegister /\ UNCHANGED <<inventory, props>>
         /\ pc' = "ready" => \/ Enter(TRUE)
                             \/ key \notin Patched
  <1> USE DEF AfterType, AfterRegister, AfterConnect
  <1>1. CASE CheckType
    BY <1>1 DEF CheckType, Goto, Requeue, Return
  <1>2. CASE Register
    BY <1>2 DEF Register, CreateInInventory, UpdateInInventory, InventoryRefuses,
       Goto, Requeue, Return, locals
  <1>3. CASE Sync
    BY <1>3 DEF Sync, Goto, Requeue, Return, locals
  <1>4. CASE AllConnected
    BY <1>4, ResourceAssumption DEF AllConnected, Goto, locals, remote
  <1>5. CASE ReadOutcome
    BY <1>5 DEF ReadOutcome, Reread, Goto, Requeue, Return, remote
  <1>6. CASE WritePending \/ ReadPending \/ WriteTypeFailed \/ WriteInvalid
             \/ WriteRunFailed \/ WriteReady
    <2>1. pc' \notin AfterType
      BY <1>6, RetryUnwritten DEF WritePending, ReadPending, WriteTypeFailed, WriteInvalid,
         FailSpec, WriteRunFailed, WriteReady, Reread, Goto, Done, Requeue, Return
    <2>2. QED
      BY <2>1
  <1>7. CASE Record \/ Begin \/ RecordOutcome \/ Patch
    <2>1. ~Requeue
      BY DEF Requeue, Return
    <2>2. ~RetryFails
      BY <2>1, RetryUnwritten
    <2>3. /\ pc \in AfterRegister /\ pc' # "ready"
          /\ UNCHANGED <<props, inventory>>
      <3>1. CASE Record
        BY <2>2, <3>1 DEF Record, Goto, remote
      <3>2. CASE Begin
        BY <2>2, <3>2 DEF Begin, Goto, locals, remote
      <3>3. CASE RecordOutcome
        BY <2>2, <3>3 DEF RecordOutcome, Goto, locals, remote
      <3>4. CASE Patch
        BY <2>1, <2>2, <3>4 DEF Patch, Goto, remote
      <3>5. QED
        BY <1>7, <3>1, <3>2, <3>3, <3>4
    <2>4. QED
      BY <2>3
  <1>8. CASE Connect \/ ReadBegin \/ Apply \/ Observe
    <2>1. ~Requeue
      BY DEF Requeue, Return
    <2>2. /\ pc \in AfterRegister /\ pc' # "ready"
          /\ UNCHANGED <<props, inventory>>
      BY <1>8, <2>1 DEF Connect, ReadBegin, Apply, Observe, Reread, Goto, locals, remote
    <2>3. QED
      BY <2>2
  <1>9. QED
    BY <1>1, <1>2, <1>3, <1>4, <1>5, <1>6, <1>7, <1>8 DEF Reconcile

\* The copy is of the incarnation and the spec the cache shows, or the key came back.
CopyCurrent ==
  pc # "idle" /\ key \notin queue =>
    cache[key] # Nil /\ obj.uid = cache[key].uid /\ obj.gen = cache[key].gen

LEMMA CopyStep ==
  ASSUME TypeOK, CopyCurrent, [Next]_vars
  PROVE  CopyCurrent'
  <1>1. CASE Reconcile
    <2>1. UNCHANGED cache
      BY <1>1, ReconcileWrites
    <2>2. CASE Requeue \/ Done
      BY <2>2 DEF Requeue, Done, Return, CopyCurrent
    <2>3. CASE /\ UNCHANGED <<key, queue>> /\ pc # "idle"
               /\ obj' = obj \/ (cache[key] # Nil /\ SameSpec(cache[key], obj'))
      BY <2>1, <2>3 DEF CopyCurrent, SameSpec
    <2>4. QED
      BY <1>1, <2>2, <2>3, ReconcileMoves, Working
  <1>2. ASSUME NEW r \in Resource, Start(r) PROVE CopyCurrent'
    BY <1>2 DEF Start, CopyCurrent, cluster, worker, locals
  <1>3. CASE Crash
    BY <1>3 DEF Crash, Return, CopyCurrent
  <1>4. ASSUME UNCHANGED <<cache, worker, queue>> PROVE CopyCurrent'
    BY <1>4 DEF CopyCurrent, worker, locals
  <1>5. ASSUME NEW r \in Resource, Deliver(r) PROVE CopyCurrent'
    <2>1. UNCHANGED <<pc, key, obj>> /\ queue \subseteq queue'
      BY <1>5 DEF Deliver, worker, locals
    <2>2. ASSUME pc # "idle", key \notin queue'
          PROVE  cache'[key] # Nil /\ obj.uid = cache'[key].uid /\ obj.gen = cache'[key].gen
      <3>1. cache[key] # Nil /\ obj.uid = cache[key].uid /\ obj.gen = cache[key].gen
        BY <2>1, <2>2 DEF CopyCurrent
      <3>2. CASE r = key
        <4>1. ~Passes(cache[key], store[key]) /\ cache'[key] = store[key]
          BY <1>5, <2>2, <3>2 DEF Deliver, TypeOK
        <4>2. QED
          BY <3>1, <4>1 DEF Passes
      <3>3. CASE r # key
        BY <1>5, <3>1, <3>3 DEF Deliver, TypeOK
      <3>4. QED
        BY <3>2, <3>3
    <2>3. QED
      BY <2>1, <2>2 DEF CopyCurrent
  <1>6. CASE UNCHANGED vars
    BY <1>4, <1>6 DEF vars, cluster
  <1>7. CASE World
    <2>1. ASSUME NEW r \in Resource, Create(r) \/ Edit(r) \/ Delete(r) \/ Settle(r) \/ Collect(r)
          PROVE  UNCHANGED <<cache, worker, queue>>
      BY <2>1 DEF Create, Edit, Delete, Settle, Collect, cluster
    <2>2. MoveType => UNCHANGED <<cache, worker, queue>>
      BY DEF MoveType, cluster
    <2>3. QED
      BY <1>4, <1>5, <1>7, <2>1, <2>2 DEF World
  <1>8. QED
    BY <1>1, <1>2, <1>3, <1>6, <1>7 DEF Next

\* What was registered is what the copy says.
Registering ==
  /\ pc \in AfterType /\ key \notin queue => props = obj.gen
  /\ pc \in AfterRegister => inventory[key] # Nil /\ inventory[key].gen = props
  /\ pc = "ready" /\ key \in Patched => inventory[key].outputs

LEMMA RegisteringStep ==
  ASSUME TypeOK, CopyCurrent, Registering, [Next]_vars
  PROVE  Registering'
  <1> USE DEF AfterType, AfterRegister, AfterConnect
  <1>1. CASE Reconcile
    <2>1. CASE pc' = "idle"
      BY <2>1 DEF Registering
    <2>2. CASE pc' # "idle"
      <3>1. /\ UNCHANGED <<key, queue>> /\ key \in Resource /\ pc # "idle"
            /\ obj' = obj \/ (cache[key] # Nil /\ SameSpec(cache[key], obj'))
        BY <1>1, <2>2, ReconcileMoves, Working DEF Requeue, Done, Return
      <3>2. key \notin queue => obj'.gen = obj.gen
        BY <3>1 DEF CopyCurrent, SameSpec
      <3>3. pc' \in AfterType /\ key' \notin queue' => props' = obj'.gen
        <4>1. SUFFICES ASSUME pc' \in AfterType, key \notin queue PROVE props' = obj'.gen
          BY <3>1
        <4>2. (pc = "type" /\ props' = obj.gen /\ obj' = obj) \/ (pc \in AfterType /\ props' = props)
          BY <1>1, <2>2, <4>1, Control
        <4>3. QED
          BY <3>2, <4>1, <4>2 DEF Registering
      <3>4. pc' \in AfterRegister => inventory'[key] # Nil /\ inventory'[key].gen = props'
        <4>1. SUFFICES ASSUME pc' \in AfterRegister
                       PROVE  inventory'[key] # Nil /\ inventory'[key].gen = props'
          OBVIOUS
        <4>2. \/ Enter(FALSE) /\ props' = props
              \/ Enter(TRUE) /\ props' = props
              \/ pc \in AfterRegister /\ UNCHANGED <<inventory, props>>
          BY <1>1, <2>2, <4>1, Control
        <4>3. QED
          BY <3>1, <4>2, Entered DEF Registering
      <3>5. pc' = "ready" /\ key' \in Patched => inventory'[key].outputs
        BY <1>1, <2>2, <3>1, Control, Entered
      <3>6. QED
        BY <3>1, <3>3, <3>4, <3>5 DEF Registering
    <2>3. QED
      BY <2>1, <2>2
  <1>2. CASE Crash \/ \E r \in Resource : Start(r)
    BY <1>2 DEF Crash, Start, Return, Registering, worker, remote, locals
  <1>3. CASE World \/ UNCHANGED vars
    <2>1. UNCHANGED <<pc, key, obj, props, inventory>> /\ queue \subseteq queue'
      BY <1>3 DEF World, MoveType, Create, Edit, Delete, Deliver, Settle, Collect,
         vars, worker, locals, remote
    <2>2. QED
      BY <2>1 DEF Registering
  <1>4. QED
    BY <1>1, <1>2, <1>3 DEF Next

RegisteredUpToDate ==
  \A r \in Resource : ReadyNow(r) /\ ~Awake(r) => UpToDate(r)

\* A Reconcile that ends and leaves its Resource Ready, and not queued, did so with
\* its last write, on what the cache showed.
LEMMA ReadyEnd ==
  ASSUME TypeOK, Reconcile, Done, key \notin queue', store'[key].phase = "Ready"
  PROVE  /\ pc = "ready" /\ key \notin queue /\ UNCHANGED <<inventory, managed>>
         /\ cache[key] # Nil /\ SameSpec(cache[key], store'[key])
  <1>1. ~Requeue /\ UNCHANGED queue /\ key \in Resource /\ obj \in Object
    BY Working DEF Requeue, Done
  <1>2. CASE WriteReady
    <2>1. RetryLands /\ Write([cache[key] EXCEPT !.phase = "Ready"]) /\ UNCHANGED remote
      BY <1>1, <1>2, RetryUnwritten DEF WriteReady
    <2>2. cache[key] # Nil /\ cache[key] \in Object
      BY <1>1, <2>1 DEF RetryLands, TypeOK
    <2>3. SameSpec(cache[key], [cache[key] EXCEPT !.phase = "Ready"])
      BY <2>2, StatusWrite DEF Phases
    <2>4. store'[key] = [cache[key] EXCEPT !.phase = "Ready"]
      BY <1>1, <2>1 DEF Write, TypeOK
    <2>5. QED
      BY <1>1, <1>2, <2>1, <2>2, <2>3, <2>4 DEF WriteReady, remote
  <1>3. CASE WriteTypeFailed \/ WriteInvalid
    <2>1. IsCurrent(obj) /\ Write([obj EXCEPT !.phase = "Failed"])
      BY <1>1, <1>3 DEF WriteTypeFailed, WriteInvalid, FailSpec, WriteCopy
    <2>2. store'[key] = [obj EXCEPT !.phase = "Failed"]
      BY <1>1, <2>1 DEF Write, TypeOK
    <2>3. [obj EXCEPT !.phase = "Failed"].phase = "Failed"
      BY <1>1, StatusWrite DEF Phases
    <2>4. QED
      BY <2>2, <2>3
  <1>4. CASE ~(WriteReady \/ WriteTypeFailed \/ WriteInvalid)
    BY <1>1, <1>4, RetryUnwritten
       DEF Reconcile, WritePending, ReadPending, CheckType, Register, CreateInInventory,
           UpdateInInventory, InventoryRefuses, Record, Connect, AllConnected, Begin,
           ReadBegin, Apply, Observe, WriteRunFailed, RecordOutcome, ReadOutcome, Patch,
           Sync, Reread, Goto, Done, Return
  <1>5. QED
    BY <1>2, <1>3, <1>4

LEMMA UpToDateStep ==
  ASSUME TypeOK, VersionsInv, CopyCurrent, Registering, RegisteredUpToDate, [Next]_vars
  PROVE  RegisteredUpToDate'
  <1> SUFFICES ASSUME NEW r \in Resource, store'[r] # Nil, store'[r].phase = "Ready", ~Awake(r)'
               PROVE  UpToDate(r)'
    BY DEF RegisteredUpToDate, ReadyNow, Exists
  <1>1. CASE ~Awake(r) /\ store'[r] = store[r]
    <2>1. UpToDate(r)
      BY <1>1 DEF RegisteredUpToDate, ReadyNow, Exists
    <2>2. inventory'[r] = inventory[r]
      BY <1>1, InventoryWrites, Working DEF Awake
    <2>3. QED
      BY <1>1, <2>1, <2>2 DEF UpToDate
  <1>2. CASE Engaged(r) /\ Reconcile /\ Done
    <2>1. key = r /\ key \notin queue'
      BY <1>2 DEF Awake, Engaged
    <2>2. /\ pc = "ready" /\ key \notin queue /\ UNCHANGED inventory
          /\ store'[r].gen = cache[r].gen
      BY <1>2, <2>1, ReadyEnd DEF SameSpec
    <2>3. /\ props = obj.gen /\ obj.gen = cache[r].gen
          /\ inventory[r] # Nil /\ inventory[r].gen = props
          /\ r \in Patched => inventory[r].outputs
      BY <2>1, <2>2 DEF Registering, CopyCurrent, AfterType, AfterRegister, AfterConnect
    <2>4. QED
      BY <2>2, <2>3 DEF UpToDate
  <1>3. QED
    BY <1>1, <1>2, AsleepSteps

LEMMA CurrentInductive == Spec => []CurrentInv
  <1> DEFINE Inv == CopyCurrent /\ Registering /\ RegisteredUpToDate
  <1>1. Init => Inv
    BY DEF Init, CopyCurrent, Registering, RegisteredUpToDate, ReadyNow, Exists,
       AfterType, AfterRegister, AfterConnect
  <1>2. TypeOK /\ VersionsInv /\ Inv /\ [Next]_vars => Inv'
    <2>1. TypeOK /\ CopyCurrent /\ [Next]_vars => CopyCurrent'
      BY CopyStep
    <2>2. TypeOK /\ CopyCurrent /\ Registering /\ [Next]_vars => Registering'
      BY RegisteringStep
    <2>3. TypeOK /\ VersionsInv /\ Inv /\ [Next]_vars => RegisteredUpToDate'
      BY UpToDateStep
    <2>4. QED
      BY <2>1, <2>2, <2>3
  <1>3. Inv => CurrentInv
    BY DEF CopyCurrent, Registering, RegisteredUpToDate, CurrentInv
  <1> HIDE DEF Inv
  <1>4. QED
    BY <1>1, <1>2, <1>3, TypeCorrect, RestInductive, PTL DEF Spec

(***************************************************************************)
(* AtRestReadyIsCurrent holds throughout: no edit is lost, whatever copies *)
(* of whatever generations one Reconcile mixes (lines 74 to 260) and       *)
(* wherever it is cut short.                                               *)
(***************************************************************************)
THEOREM RestCurrent == Spec => []AtRestReadyIsCurrent
  <1>1. CurrentInv => AtRestReadyIsCurrent
    <2> SUFFICES ASSUME CurrentInv, AtRest, NEW r \in Resource, ReadyNow(r)
                 PROVE  UpToDate(r)
      BY DEF AtRestReadyIsCurrent, UpToDate
    <2>1. ~Awake(r)
      BY DEF AtRest, Awake, Passes, ReadyNow, Exists
    <2>2. QED
      BY <2>1 DEF CurrentInv
  <1>2. QED
    BY <1>1, CurrentInductive, PTL

====
