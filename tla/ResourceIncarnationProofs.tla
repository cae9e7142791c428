----------------------- MODULE ResourceIncarnationProofs -----------------------
(***************************************************************************)
(* What ResourceController keeps of one incarnation of a Resource, when a  *)
(* name is only used again once nothing is left of the object that had it  *)
(* (NamesRest); for any set of Resources and any connections, edits,       *)
(* deletions, failures and restarts.                                       *)
(***************************************************************************)
EXTENDS ResourceRestProofs

NextPhase(old, new) == new # old => new \in NextPhases(old)

\* A status write of a Reconcile, by its fields.
Sets(p) ==
  /\ store'[key].phase = p
  /\ store'[key].inv = store[key].inv /\ store'[key].at = store[key].at

KeyWritten ==
  /\ store[key] # Nil /\ store'[key] # Nil /\ store'[key].uid = store[key].uid
  /\ \/ pc = "pending" /\ store[key] = obj /\ Sets("Pending")
     \/ pc \in {"typeFailed", "invalid"} /\ pc' = "idle" /\ Sets("Failed")
     \/ pc = "runFailed" /\ pc' = "idle" /\ Sets("ProvisioningFailed")
     \/ /\ pc = "record" /\ pc' = "connect" /\ obj' = store'[key]
        /\ HasNurn(store'[key]) /\ store'[key].phase = store[key].phase
        /\ store'[key].at = store[key].at
     \/ pc = "begin" /\ pc' = "beginRead" /\ obj' = obj /\ Sets("ProvisioningInProgress")
     \/ /\ pc = "outcome" /\ pc' = "outcomeRead" /\ UNCHANGED <<obj, outcome>>
        /\ cache[key] = store[key]
        /\ store'[key].phase = PhaseOf(outcome) /\ store'[key].at = outcome
        /\ store'[key].inv = store[key].inv
     \/ /\ pc = "patch" /\ pc' = "sync" /\ obj' = store'[key]
        /\ store'[key].phase = obj.phase /\ store'[key].inv = PatchedRef
     \/ pc = "ready" /\ pc' = "idle" /\ Sets("Ready")

LEMMA CopyFields ==
  ASSUME NEW o \in Object, NEW p \in Phases
  PROVE  /\ o # Nil
         /\ [o EXCEPT !.phase = p] \in Object /\ [o EXCEPT !.phase = p] # Nil
         /\ [o EXCEPT !.phase = p].uid = o.uid /\ [o EXCEPT !.phase = p].phase = p
         /\ [o EXCEPT !.phase = p].inv = o.inv /\ [o EXCEPT !.phase = p].at = o.at
  <1>1. [o EXCEPT !.phase = p] \in Object
    BY ObjectWrites
  <1>2. o # Nil /\ [o EXCEPT !.phase = p] # Nil
    BY <1>1, ResourceAssumption
  <1>3. QED
    BY <1>1, <1>2 DEF Object

\* What a status write of the local copy changes.
LEMMA CopyWrite ==
  ASSUME TypeOK, key \in Resource, obj \in Object, NEW p \in Phases,
         IsCurrent(obj), Write([obj EXCEPT !.phase = p])
  PROVE  /\ store[key] = obj /\ store[key] # Nil /\ store'[key] # Nil
         /\ store'[key].uid = store[key].uid /\ Sets(p)
  <1>1. store[key] = obj /\ store'[key] = [obj EXCEPT !.phase = p]
    BY DEF IsCurrent, Write, TypeOK
  <1>2. QED
    BY <1>1, CopyFields DEF Sets

\* The same of a retried write.
LEMMA RetryWrite ==
  ASSUME TypeOK, key \in Resource, RetryLands, NEW p \in Phases,
         Write([cache[key] EXCEPT !.phase = p])
  PROVE  /\ cache[key] = store[key] /\ store[key] # Nil /\ store'[key] # Nil
         /\ store'[key].uid = store[key].uid /\ Sets(p)
  <1>1. /\ store[key] = cache[key] /\ cache[key] \in Object
        /\ store'[key] = [cache[key] EXCEPT !.phase = p]
    BY DEF RetryLands, IsCurrent, Write, TypeOK
  <1>2. QED
    BY <1>1, CopyFields DEF Sets

LEMMA RetryRead ==
  ASSUME TypeOK, key \in Resource, RetryLands
  PROVE  cache[key] = store[key] /\ store[key] # Nil /\ store[key] \in Object
  BY DEF RetryLands, IsCurrent, TypeOK

(***************************************************************************)
(* How one step of a Reconcile ends it or takes it further.                *)
(***************************************************************************)
Forward ==
  /\ UNCHANGED <<key, queue>>
  /\ \/ /\ UNCHANGED <<store, obj>>
        /\ \/ pc = "type" /\ pc' \in {"typeFailed", "register"}
           \/ pc = "register" /\ pc' = "record"
           \/ pc = "register" /\ HasNurn(obj) /\ pc' = "connect"
           \/ pc = "connect" /\ pc' \in {"connect", "invalid"}
           \/ pc = "connect" /\ key \in Provisioned /\ pc' = "begin"
           \/ pc = "connect" /\ key \notin Provisioned /\ pc' = "ready"
           \/ pc = "apply" /\ pc' \in {"observe", "runFailed"}
           \/ pc = "observe" /\ pc' = "runFailed"
           \/ /\ pc = "observe" /\ pc' = "outcome" /\ managed[key] # Nil
              /\ outcome' = OutcomeOf(managed[key].state)
           \/ pc = "sync" /\ pc' = "ready"
     \/ /\ UNCHANGED store
        /\ cache[key] # Nil /\ obj' = cache[key]
        /\ \/ pc = "pendingRead" /\ pc' = "type"
           \/ pc = "beginRead" /\ pc' = "apply"
           \/ /\ pc = "outcomeRead" /\ outcome' = outcome /\ outcome # "Running"
              /\ \/ key \in Patched /\ pc' = "patch"
                 \/ key \notin Patched /\ pc' = "ready"
     \/ pc = "pending" /\ pc' = "pendingRead" /\ obj' = obj /\ KeyWritten
     \/ pc \in {"record", "begin", "outcome", "patch"} /\ KeyWritten

LEMMA ReconcileSteps ==
  ASSUME TypeOK, Reconcile
  PROVE  /\ \/ UNCHANGED store
            \/ KeyWritten /\ \A r \in Resource : r # key => store'[r] = store[r]
         /\ \/ pc' = "idle"
            \/ Forward
  <1>1. key \in Resource /\ obj \in Object /\ pc # "idle"
    BY Working
  <1>2. \A p \in {"Pending", "Failed", "ProvisioningInProgress", "ProvisioningFailed", "Ready"} :
          p \in Phases
    BY DEF Phases
  <1>3. UNCHANGED store \/ \A r \in Resource : r # key => store'[r] = store[r]
    BY <1>1, ReconcileWrites DEF Written, TypeOK
  <1>4. ASSUME RetryFails PROVE UNCHANGED store /\ pc' = "idle"
    BY <1>4, RetryUnwritten DEF cluster, Requeue, Return
  <1>5. CASE WritePending
    <2>1. CASE IsCurrent(obj)
      <3>1. store[key] = obj /\ KeyWritten
        BY <1>1, <1>2, <1>5, <2>1, CopyWrite DEF WritePending, WriteCopy, KeyWritten
      <3>2. Forward
        BY <1>5, <2>1, <3>1 DEF WritePending, Goto, Forward, locals
      <3>3. QED
        BY <1>3, <3>1, <3>2
    <2>2. CASE ~IsCurrent(obj)
      BY <1>5, <2>2 DEF WritePending, WriteCopy, cluster, Requeue, Return
    <2>3. QED
      BY <2>1, <2>2
  <1>6. CASE WriteTypeFailed \/ WriteInvalid
    <2>1. CASE IsCurrent(obj)
      <3>1. KeyWritten /\ pc' = "idle"
        BY <1>1, <1>2, <1>6, <2>1, CopyWrite
           DEF WriteTypeFailed, WriteInvalid, FailSpec, WriteCopy, KeyWritten, Done, Return
      <3>2. QED
        BY <1>3, <3>1
    <2>2. CASE ~IsCurrent(obj)
      BY <1>6, <2>2
         DEF WriteTypeFailed, WriteInvalid, FailSpec, WriteCopy, cluster, Requeue, Return
    <2>3. QED
      BY <2>1, <2>2
  <1>7. CASE WriteRunFailed
    <2>1. CASE IsCurrent(obj)
      <3>1. KeyWritten /\ pc' = "idle"
        BY <1>1, <1>2, <1>7, <2>1, CopyWrite
           DEF WriteRunFailed, WriteCopy, KeyWritten, Requeue, Return
      <3>2. QED
        BY <1>3, <3>1
    <2>2. CASE ~IsCurrent(obj)
      BY <1>7, <2>2 DEF WriteRunFailed, WriteCopy, cluster, Requeue, Return
    <2>3. QED
      BY <2>1, <2>2
  <1>8. CASE Record
    <2>1. CASE RetryLands /\ Write(Recorded(cache[key])) /\ obj' = Recorded(cache[key])
               /\ Goto("connect")
      <3>1. cache[key] = store[key] /\ store[key] # Nil /\ store[key] \in Object
        BY <1>1, <2>1, RetryRead
      <3>2. store'[key] = Recorded(store[key]) /\ obj' = store'[key]
        BY <1>1, <2>1, <3>1 DEF Write, TypeOK
      <3>3. /\ Recorded(store[key]) # Nil
            /\ Recorded(store[key]).uid = store[key].uid /\ HasNurn(Recorded(store[key]))
            /\ Recorded(store[key]).phase = store[key].phase
            /\ Recorded(store[key]).at = store[key].at
        <4>1. Recorded(store[key]) \in Object
          BY <3>1, ObjectWrites
        <4>2. QED
          BY <3>1, <4>1, ResourceAssumption DEF Recorded, HasNurn, Object
      <3>4. KeyWritten
        BY <1>8, <2>1, <3>1, <3>2, <3>3 DEF KeyWritten, Record, Goto
      <3>5. Forward
        BY <1>8, <2>1, <3>4 DEF Forward, Record, Goto
      <3>6. QED
        BY <1>3, <3>4, <3>5
    <2>2. QED
      BY <1>4, <1>8, <2>1 DEF Record
  <1>9. CASE Begin
    <2>1. CASE RetryLands /\ Write([cache[key] EXCEPT !.phase = "ProvisioningInProgress"])
               /\ Goto("beginRead") /\ UNCHANGED obj
      <3>1. KeyWritten
        BY <1>1, <1>2, <1>9, <2>1, RetryWrite DEF KeyWritten, Begin, Goto
      <3>2. Forward
        BY <1>9, <2>1, <3>1 DEF Forward, Begin, Goto
      <3>3. QED
        BY <1>3, <3>1, <3>2
    <2>2. QED
      BY <1>4, <1>9, <2>1 DEF Begin, locals
  <1>10. CASE RecordOutcome
    <2> DEFINE o == [cache[key] EXCEPT !.phase = PhaseOf(outcome), !.at = outcome]
    <2>1. CASE RetryLands /\ Write(o) /\ Goto("outcomeRead") /\ UNCHANGED <<obj, outcome>>
      <3>1. cache[key] = store[key] /\ store[key] # Nil /\ store[key] \in Object
        BY <1>1, <2>1, RetryRead
      <3>2. store'[key] = o
        BY <1>1, <2>1 DEF Write, TypeOK
      <3>3. /\ o # Nil /\ o.uid = store[key].uid /\ o.phase = PhaseOf(outcome)
            /\ o.at = outcome /\ o.inv = store[key].inv
        <4>1. o \in Object
          BY <3>1, OutcomeWrite DEF SameSpec
        <4>2. QED
          BY <3>1, <4>1, ResourceAssumption DEF Object
      <3> HIDE DEF o
      <3>4. KeyWritten
        BY <1>10, <2>1, <3>1, <3>2, <3>3 DEF KeyWritten, RecordOutcome, Goto
      <3>5. Forward
        BY <1>10, <2>1, <3>4 DEF Forward, RecordOutcome, Goto
      <3>6. QED
        BY <1>3, <3>4, <3>5
    <2>2. QED
      BY <1>4, <1>10, <2>1 DEF RecordOutcome, locals
  <1>11. CASE Patch
    <2>1. CASE RetryLands /\ Write(PatchStatus(cache[key])) /\ obj' = PatchStatus(cache[key])
               /\ Goto("sync")
      <3>1. cache[key] = store[key] /\ store[key] # Nil /\ store[key] \in Object
        BY <1>1, <2>1, RetryRead
      <3>2. store'[key] = PatchStatus(store[key]) /\ obj' = store'[key]
        BY <1>1, <2>1, <3>1 DEF Write, TypeOK
      <3>3. /\ PatchStatus(store[key]) # Nil
            /\ PatchStatus(store[key]).uid = store[key].uid
            /\ PatchStatus(store[key]).phase = obj.phase
            /\ PatchStatus(store[key]).inv = PatchedRef
        <4>1. PatchStatus(store[key]) \in Object
          BY <1>1, <3>1, ObjectWrites
        <4>2. QED
          BY <3>1, <4>1, ResourceAssumption DEF PatchStatus, Object
      <3>4. KeyWritten
        BY <1>11, <2>1, <3>1, <3>2, <3>3 DEF KeyWritten, Patch, Goto
      <3>5. Forward
        BY <1>11, <2>1, <3>4 DEF Forward, Patch, Goto
      <3>6. QED
        BY <1>3, <3>4, <3>5
    <2>2. CASE Requeue /\ UNCHANGED cluster
      BY <2>2 DEF cluster, Requeue, Return
    <2>3. QED
      BY <1>4, <1>11, <2>1, <2>2 DEF Patch
  <1>12. CASE WriteReady
    <2>1. CASE RetryLands /\ Write([cache[key] EXCEPT !.phase = "Ready"]) /\ Done
      <3>1. KeyWritten /\ pc' = "idle"
        BY <1>1, <1>2, <1>12, <2>1, RetryWrite DEF KeyWritten, WriteReady, Done, Return
      <3>2. QED
        BY <1>3, <3>1
    <2>2. QED
      BY <1>4, <1>12, <2>1 DEF WriteReady
  <1>13. CASE ReadPending \/ ReadBegin \/ ReadOutcome
    BY <1>13 DEF ReadPending, ReadBegin, ReadOutcome, Reread, Goto, Requeue, Return,
       cluster, Forward
  <1>14. CASE CheckType \/ Register
    BY <1>14 DEF CheckType, Register, CreateInInventory, UpdateInInventory,
       InventoryRefuses, Goto, Requeue, Return, cluster, locals, Forward
  <1>15. CASE Connect \/ AllConnected
    BY <1>15 DEF Connect, AllConnected, Goto, Requeue, Return, cluster, locals, Forward
  <1>16. CASE Apply \/ Observe \/ Sync
    BY <1>16 DEF Apply, Observe, Sync, Goto, Requeue, Return, cluster, locals, Forward
  <1>17. QED
    BY <1>5, <1>6, <1>7, <1>8, <1>9, <1>10, <1>11, <1>12, <1>13, <1>14, <1>15, <1>16
       DEF Reconcile

-----------------------------------------------------------------------------
(***************************************************************************)
(* One Resource over one step: what the premise and the registry add.      *)
(***************************************************************************)
NamesFree == \A r \in Resource : store[r] = Nil /\ store'[r] # Nil => NameIsFree(r)
NurnsKept ==
  \A r \in Resource : SameIncarnation(r) /\ HasNurn(store[r]) => HasNurn(store'[r])

Appears(r) == store[r] = Nil /\ NameIsFree(r) /\ store'[r].phase = "" /\ store'[r].inv = "none"

LEMMA Fate ==
  ASSUME TypeOK, [Next]_vars, NamesFree, NEW r \in Resource, store'[r] # Nil
  PROVE  \/ store'[r] = store[r]
         \/ UNCHANGED cache /\ Appears(r)
         \/ UNCHANGED cache /\ Edited(r)
         \/ UNCHANGED cache /\ Reconcile /\ pc # "idle" /\ key = r /\ KeyWritten
  <1>1. CASE UNCHANGED cache /\ CreatedNow(r)
    BY <1>1 DEF CreatedNow, NamesFree, Appears
  <1>2. CASE UNCHANGED cache /\ StatusSet(r)
    BY <1>2, ReconcileSteps DEF StatusSet, Engaged
  <1>3. QED
    BY <1>1, <1>2, StoreSteps

\* The world moves no pc, and only Start and a crash give the worker another key.
LEMMA WorkerSteps ==
  ASSUME TypeOK, [Next]_vars
  PROVE  \/ Reconcile /\ UNCHANGED cache
         \/ pc' = "idle"
         \/ UNCHANGED <<pc, key, obj, outcome>> /\ queue \subseteq queue'
         \/ /\ pc = "idle" /\ UNCHANGED <<store, cache>>
            /\ key' \in Resource /\ cache[key'] # Nil /\ obj' = cache[key']
            /\ pc' = IF cache[key'].phase = "" THEN "pending" ELSE "type"
  <1>1. CASE Reconcile
    BY <1>1, ReconcileWrites
  <1>2. CASE World \/ UNCHANGED vars
    BY <1>2 DEF World, MoveType, Create, Edit, Delete, Deliver, Settle, Collect,
       vars, worker, locals
  <1>3. ASSUME NEW r \in Resource, Start(r)
        PROVE  \/ pc' = "idle"
               \/ /\ pc = "idle" /\ UNCHANGED <<store, cache>>
                  /\ key' \in Resource /\ cache[key'] # Nil /\ obj' = cache[key']
                  /\ pc' = IF cache[key'].phase = "" THEN "pending" ELSE "type"
    BY <1>3 DEF Start, cluster, worker
  <1>4. CASE Crash
    BY <1>4 DEF Crash, Return
  <1>5. QED
    BY <1>1, <1>2, <1>3, <1>4 DEF Next

\* No write of a Reconcile empties the phase.
LEMMA PhaseStays ==
  ASSUME TypeOK, CopiesInv, PhaseInv, Reconcile, KeyWritten
  PROVE  store'[key].phase # ""
  <1>1. pc # "idle" /\ Exists(key)
    BY Working DEF KeyWritten, Exists
  <1>2. pc # "pending" => store[key].phase # ""
    BY <1>1 DEF CopiesInv
  <1>3. CASE pc = "record"
    BY <1>2, <1>3 DEF KeyWritten, Sets
  <1>4. CASE pc = "patch"
    <2>1. obj.phase \in {"ProvisioningInProgress", PhaseOf(outcome)}
      BY <1>1, <1>4 DEF PhaseInv
    <2>2. store'[key].phase = obj.phase
      BY <1>4 DEF KeyWritten, Sets
    <2>3. QED
      BY <2>1, <2>2 DEF PhaseOf
  <1>5. CASE pc = "outcome"
    BY <1>5 DEF KeyWritten, Sets, PhaseOf
  <1>6. CASE pc \notin {"record", "patch", "outcome"}
    BY <1>6 DEF KeyWritten, Sets
  <1>7. QED
    BY <1>3, <1>4, <1>5, <1>6

\* The first part of CopiesInv, of the informer's copies.
CachedInv ==
  \A r \in Resource : cache[r] # Nil /\ Exists(r) =>
    /\ cache[r].uid = store[r].uid
    /\ HasNurn(cache[r]) => HasNurn(store[r])
    /\ cache[r].phase # "" => store[r].phase # ""

LEMMA CachedStep ==
  ASSUME TypeOK, CopiesInv, PhaseInv, [Next]_vars, NamesFree, NurnsKept
  PROVE  CachedInv'
  <1> SUFFICES ASSUME NEW r \in Resource, cache'[r] # Nil, store'[r] # Nil
               PROVE  /\ cache'[r].uid = store'[r].uid
                      /\ HasNurn(cache'[r]) => HasNurn(store'[r])
                      /\ cache'[r].phase # "" => store'[r].phase # ""
    BY DEF CachedInv, Exists, HasNurn
  <1>1. cache'[r] = cache[r] \/ (cache'[r] = store[r] /\ UNCHANGED store)
    BY CacheSteps
  <1>2. CASE cache'[r] = store[r] /\ UNCHANGED store
    BY <1>2
  <1>3. CASE cache'[r] = cache[r]
    <2>1. store[r] # Nil =>
            /\ cache[r].uid = store[r].uid
            /\ HasNurn(cache[r]) => HasNurn(store[r])
            /\ cache[r].phase # "" => store[r].phase # ""
      BY <1>3 DEF CopiesInv, Exists
    <2>2. CASE store'[r] = store[r]
      BY <1>3, <2>1, <2>2
    <2>3. CASE Appears(r)
      BY <1>3, <2>3 DEF Appears, NameIsFree
    <2>4. CASE Edited(r)
      BY <1>3, <2>1, <2>4 DEF Edited, HasNurn
    <2>5. CASE Reconcile /\ key = r /\ KeyWritten
      <3>1. store[r] # Nil /\ store'[r].uid = store[r].uid /\ store'[r].phase # ""
        BY <2>5, PhaseStays DEF KeyWritten
      <3>2. HasNurn(store[r]) => HasNurn(store'[r])
        BY <3>1 DEF NurnsKept, SameIncarnation, Exists
      <3>3. QED
        BY <1>3, <2>1, <3>1, <3>2
    <2>6. QED
      BY <2>2, <2>3, <2>4, <2>5, Fate
  <1>4. QED
    BY <1>1, <1>2, <1>3

\* The second part, of the worker's copy.
HeldCopyInv ==
  pc # "idle" /\ Exists(key) =>
    /\ obj.uid = store[key].uid
    /\ HasNurn(obj) => HasNurn(store[key])
    /\ IF pc = "pending" THEN obj.phase = "" ELSE store[key].phase # ""

LEMMA HeldCopyStep ==
  ASSUME TypeOK, CopiesInv, PhaseInv, [Next]_vars, NamesFree, NurnsKept
  PROVE  HeldCopyInv'
  <1> SUFFICES ASSUME pc' # "idle", store'[key'] # Nil
               PROVE  /\ obj'.uid = store'[key'].uid
                      /\ HasNurn(obj') => HasNurn(store'[key'])
                      /\ IF pc' = "pending" THEN obj'.phase = "" ELSE store'[key'].phase # ""
    BY DEF HeldCopyInv, Exists, HasNurn
  <1>0. CachedInv
    BY DEF CopiesInv, CachedInv
  <1>1. CASE Reconcile
    <2>0. UNCHANGED cache
      BY <1>1, ReconcileWrites
    <2>1. key \in Resource /\ pc # "idle" /\ Forward /\ key' = key
      BY <1>1, Working, ReconcileSteps DEF Forward
    <2>2. store[key] # Nil /\ store'[key].uid = store[key].uid
      <3>1. store' = store \/ KeyWritten
        BY <1>1, ReconcileSteps
      <3>2. QED
        BY <2>1, <3>1 DEF KeyWritten
    <2>3. HasNurn(store[key]) => HasNurn(store'[key])
      BY <2>1, <2>2 DEF NurnsKept, SameIncarnation, Exists
    <2>4. /\ obj.uid = store[key].uid
          /\ HasNurn(obj) => HasNurn(store[key])
          /\ IF pc = "pending" THEN obj.phase = "" ELSE store[key].phase # ""
      BY <2>1, <2>2 DEF CopiesInv, Exists
    <2>5. cache[key] # Nil =>
            cache[key].uid = store[key].uid /\ (HasNurn(cache[key]) => HasNurn(store[key]))
      BY <1>0, <2>1, <2>2 DEF CachedInv, Exists
    <2>6. obj' = obj \/ (cache[key] # Nil /\ obj' = cache[key]) \/ obj' = store'[key]
      BY <2>1 DEF Forward, KeyWritten
    <2>7. pc' # "pending" /\ store'[key].phase # ""
      <3>1. CASE KeyWritten
        BY <1>1, <2>1, <3>1, PhaseStays DEF Forward, KeyWritten
      <3>2. CASE ~KeyWritten
        <4>1. pc # "pending" /\ UNCHANGED store /\ pc' # "pending"
          BY <2>1, <3>2 DEF Forward
        <4>2. QED
          BY <2>4, <4>1
      <3>3. QED
        BY <3>1, <3>2
    <2>8. QED
      BY <2>0, <2>1, <2>2, <2>3, <2>4, <2>5, <2>6, <2>7
  <1>2. CASE UNCHANGED <<pc, key, obj, outcome>> /\ ~Reconcile
    <2>1. key \in Resource /\ pc # "idle" /\ key' = key /\ obj' = obj /\ pc' = pc
      BY <1>2 DEF TypeOK
    <2>2. CASE store'[key] = store[key]
      BY <2>1, <2>2 DEF CopiesInv, Exists
    <2>3. CASE Edited(key)
      BY <2>1, <2>3 DEF CopiesInv, Exists, Edited, HasNurn
    <2>4. ~Appears(key)
      BY DEF Appears, NameIsFree
    <2>5. QED
      BY <1>2, <2>1, <2>2, <2>3, <2>4, Fate
  <1>3. CASE /\ pc = "idle" /\ UNCHANGED <<store, cache>>
             /\ key' \in Resource /\ cache[key'] # Nil /\ obj' = cache[key']
             /\ pc' = IF cache[key'].phase = "" THEN "pending" ELSE "type"
    <2>1. /\ cache[key'].uid = store[key'].uid
          /\ HasNurn(cache[key']) => HasNurn(store[key'])
          /\ cache[key'].phase # "" => store[key'].phase # ""
      BY <1>0, <1>3 DEF CachedInv, Exists
    <2>2. QED
      BY <1>3, <2>1
  <1>4. QED
    BY <1>1, <1>2, <1>3, WorkerSteps

LEMMA CopiesStep ==
  ASSUME TypeOK, CopiesInv, PhaseInv, [Next]_vars, NamesFree, NurnsKept
  PROVE  CopiesInv'
  BY CachedStep, HeldCopyStep DEF CachedInv, HeldCopyInv, CopiesInv

-----------------------------------------------------------------------------
\* What PhaseInv says of the worker.
StageInv ==
  /\ pc \in AfterRecord /\ Exists(key) => HasNurn(store[key])
  /\ pc \in InProgress /\ Exists(key) => store[key].phase = "ProvisioningInProgress"
  /\ pc \in {"outcomeRead", "patch"} /\ Exists(key) => store[key].phase = PhaseOf(outcome)
  /\ pc = "outcomeRead" /\ Exists(key) /\ cache[key] # Nil =>
       cache[key].phase \in {"ProvisioningInProgress", PhaseOf(outcome)}
  /\ pc = "patch" /\ Exists(key) =>
       obj.phase \in {"ProvisioningInProgress", PhaseOf(outcome)} /\ outcome # "Running"

LEMMA StageReconcile ==
  ASSUME TypeOK, CopiesInv, StageInv, Reconcile, UNCHANGED cache, NurnsKept
  PROVE  StageInv'
  <1> USE DEF AfterRecord, AfterRegister, AfterConnect, InProgress
  <1>1. CASE pc' = "idle"
    BY <1>1 DEF StageInv
  <1>2. CASE pc' # "idle" /\ store'[key'] # Nil
    <2>1. key \in Resource /\ pc # "idle" /\ Forward /\ key' = key
      BY <1>2, Working, ReconcileSteps DEF Forward
    <2>2. store[key] # Nil /\ store'[key].uid = store[key].uid
      <3>1. store' = store \/ KeyWritten
        BY ReconcileSteps
      <3>2. QED
        BY <1>2, <2>1, <3>1 DEF KeyWritten
    <2>3. HasNurn(store[key]) => HasNurn(store'[key])
      BY <1>2, <2>1, <2>2 DEF NurnsKept, SameIncarnation, Exists
    <2>4. HasNurn(obj) => HasNurn(store[key])
      BY <2>1, <2>2 DEF CopiesInv, Exists
    <2>5. pc' \in AfterRecord => HasNurn(store'[key])
      <3>1. CASE pc \in AfterRecord
        BY <2>2, <2>3, <3>1 DEF StageInv, Exists
      <3>2. CASE pc = "register" \/ pc = "record"
        BY <2>1, <2>3, <2>4, <3>2 DEF Forward, KeyWritten
      <3>3. CASE pc \notin AfterRecord \union {"register", "record"}
        BY <2>1, <3>3 DEF Forward, KeyWritten
      <3>4. QED
        BY <3>1, <3>2, <3>3
    <2>6. pc' \in InProgress => store'[key].phase = "ProvisioningInProgress"
      <3>1. CASE pc \in InProgress
        <4>1. store[key].phase = "ProvisioningInProgress"
          BY <2>2, <3>1 DEF StageInv, Exists
        <4>2. pc' \in InProgress => store'[key] = store[key]
          BY <2>1, <3>1 DEF Forward, KeyWritten
        <4>3. QED
          BY <4>1, <4>2
      <3>2. CASE pc = "begin"
        BY <2>1, <3>2 DEF Forward, KeyWritten, Sets
      <3>3. CASE pc \notin InProgress \union {"begin"}
        BY <2>1, <3>3 DEF Forward, KeyWritten
      <3>4. QED
        BY <3>1, <3>2, <3>3
    <2>7. pc' = "outcomeRead" => /\ store'[key].phase = PhaseOf(outcome')
                                 /\ cache[key].phase = "ProvisioningInProgress"
      <3>1. SUFFICES ASSUME pc' = "outcomeRead"
                     PROVE  /\ store'[key].phase = PhaseOf(outcome')
                            /\ cache[key].phase = "ProvisioningInProgress"
        OBVIOUS
      <3>2. pc = "outcome"
        BY <2>1, <3>1 DEF Forward, KeyWritten
      <3>3. /\ store'[key].phase = PhaseOf(outcome) /\ outcome' = outcome
            /\ cache[key] = store[key]
        BY <2>1, <3>1, <3>2 DEF Forward, KeyWritten
      <3>4. QED
        BY <2>2, <3>2, <3>3 DEF StageInv, Exists
    <2>8. pc' = "patch" => /\ store'[key].phase = PhaseOf(outcome') /\ outcome' # "Running"
                           /\ obj'.phase \in {"ProvisioningInProgress", PhaseOf(outcome')}
      <3>1. SUFFICES ASSUME pc' = "patch"
                     PROVE  /\ store'[key].phase = PhaseOf(outcome') /\ outcome' # "Running"
                            /\ obj'.phase \in {"ProvisioningInProgress", PhaseOf(outcome')}
        OBVIOUS
      <3>2. /\ pc = "outcomeRead" /\ UNCHANGED store /\ outcome' = outcome
            /\ outcome # "Running" /\ cache[key] # Nil /\ obj' = cache[key]
        BY <2>1, <3>1 DEF Forward, KeyWritten
      <3>3. QED
        BY <2>2, <3>2 DEF StageInv, Exists
    <2>9. QED
      BY <2>1, <2>5, <2>6, <2>7, <2>8 DEF StageInv, HasNurn
  <1>3. CASE pc' # "idle" /\ store'[key'] = Nil
    BY <1>3 DEF StageInv, Exists
  <1>4. QED
    BY <1>1, <1>2, <1>3

LEMMA StageStep ==
  ASSUME TypeOK, CopiesInv, StageInv, [Next]_vars, NamesFree, NurnsKept
  PROVE  StageInv'
  <1> USE DEF AfterRecord, AfterRegister, AfterConnect, InProgress
  <1>1. CASE Reconcile
    BY <1>1, ReconcileWrites, StageReconcile
  <1>2. CASE UNCHANGED <<pc, key, obj, outcome>> /\ ~Reconcile
    <2>1. CASE pc = "idle" \/ store'[key] = Nil
      BY <1>2, <2>1 DEF StageInv, Exists
    <2>2. CASE pc # "idle" /\ store'[key] # Nil
      <3>1. key \in Resource
        BY <2>2 DEF TypeOK
      <3>2. /\ store[key] # Nil /\ store'[key].phase = store[key].phase
            /\ store'[key].inv = store[key].inv
        <4>1. ~Appears(key)
          BY DEF Appears, NameIsFree
        <4>2. store'[key] = store[key] \/ Edited(key)
          BY <1>2, <2>2, <3>1, <4>1, Fate
        <4>3. QED
          BY <2>2, <4>2 DEF Edited
      <3>3. cache'[key] = cache[key] \/ cache'[key] = store[key]
        BY <3>1, CacheSteps
      <3>4. QED
        BY <1>2, <3>2, <3>3 DEF StageInv, Exists, HasNurn
    <2>3. QED
      BY <2>1, <2>2
  <1>3. CASE pc' = "idle" \/ pc' \in {"pending", "type"}
    BY <1>3 DEF StageInv
  <1>4. QED
    BY <1>1, <1>2, <1>3, WorkerSteps

\* A Ready Resource carries its nurn, whichever write made it Ready.
LEMMA ReadyNurnStep ==
  ASSUME TypeOK, StageInv, ReadyKeepsNurn, [Next]_vars, NamesFree, NurnsKept
  PROVE  ReadyKeepsNurn'
  <1> SUFFICES ASSUME NEW r \in Resource, store'[r] # Nil, store'[r].phase = "Ready"
               PROVE  HasNurn(store'[r])
    BY DEF ReadyKeepsNurn, ReadyNow, Exists, HasNurn
  <1>1. CASE store'[r] = store[r]
    BY <1>1 DEF ReadyKeepsNurn, ReadyNow, Exists
  <1>2. CASE Appears(r)
    BY <1>2 DEF Appears
  <1>3. CASE Edited(r)
    BY <1>3 DEF Edited, ReadyKeepsNurn, ReadyNow, Exists, HasNurn
  <1>4. CASE Reconcile /\ pc # "idle" /\ key = r /\ KeyWritten
    <2>1. store[r] # Nil /\ store'[r].uid = store[r].uid
      BY <1>4 DEF KeyWritten
    <2>2. CASE pc \in AfterRecord
      <3>1. HasNurn(store[r])
        BY <1>4, <2>1, <2>2 DEF StageInv, Exists
      <3>2. QED
        BY <2>1, <3>1 DEF NurnsKept, SameIncarnation, Exists
    <2>3. CASE pc \notin AfterRecord
      BY <1>4, <2>3 DEF KeyWritten, Sets, AfterRecord, AfterRegister, AfterConnect
    <2>4. QED
      BY <2>2, <2>3
  <1>5. QED
    BY <1>1, <1>2, <1>3, <1>4, Fate

\* A status write of a Reconcile moves the phase as NextPhases says.
LEMMA PhaseMove ==
  ASSUME TypeOK, CopiesInv, StageInv, Reconcile, KeyWritten
  PROVE  NextPhase(store[key].phase, store'[key].phase)
  <1> USE DEF NextPhase, NextPhases
  <1>0. pc # "idle" /\ Exists(key) /\ key \in Resource
    BY Working DEF KeyWritten, Exists
  <1>1. pc # "pending" => store[key].phase # ""
    BY <1>0 DEF CopiesInv
  <1>2. CASE pc = "pending"
    <2>1. store[key].phase = ""
      BY <1>0, <1>2 DEF CopiesInv, KeyWritten
    <2>2. QED
      BY <1>2, <2>1 DEF KeyWritten, Sets
  <1>3. CASE pc \in {"runFailed", "outcome"}
    <2>1. store[key].phase = "ProvisioningInProgress"
      BY <1>0, <1>3 DEF StageInv, InProgress
    <2>2. store'[key].phase \in {"ProvisioningFailed", "Ready", "ProvisioningInProgress"}
      BY <1>3 DEF KeyWritten, Sets, PhaseOf
    <2>3. QED
      BY <2>1, <2>2
  <1>4. CASE pc = "patch"
    <2>1. /\ store[key].phase = PhaseOf(outcome)
          /\ obj.phase \in {"ProvisioningInProgress", PhaseOf(outcome)}
      BY <1>0, <1>4 DEF StageInv
    <2>2. store'[key].phase = obj.phase
      BY <1>4 DEF KeyWritten, Sets
    <2>3. QED
      BY <2>1, <2>2 DEF PhaseOf
  <1>5. CASE pc = "record"
    BY <1>5 DEF KeyWritten, Sets
  <1>6. CASE pc \in {"typeFailed", "invalid", "begin", "ready"}
    <2>1. store'[key].phase \in {"Failed", "ProvisioningInProgress", "Ready"}
      BY <1>6 DEF KeyWritten, Sets
    <2>2. store[key].phase \in Phases \ {""}
      BY <1>0, <1>1, <1>6 DEF TypeOK, Object, Exists
    <2>3. pc = "begin" => store'[key].phase = "ProvisioningInProgress"
      BY <1>6 DEF KeyWritten, Sets
    <2>4. QED
      BY <2>1, <2>2 DEF Phases
  <1>7. QED
    BY <1>2, <1>3, <1>4, <1>5, <1>6 DEF KeyWritten

PhasesKept ==
  \A r \in Resource :
    SameIncarnation(r) /\ store'[r].phase # store[r].phase
      => store'[r].phase \in NextPhases(store[r].phase)

LEMMA PhasesStep ==
  ASSUME TypeOK, CopiesInv, StageInv, [Next]_vars, NamesFree
  PROVE  PhasesKept
  <1> SUFFICES ASSUME NEW r \in Resource, store[r] # Nil, store'[r] # Nil,
                      store'[r].phase # store[r].phase
               PROVE  store'[r].phase \in NextPhases(store[r].phase)
    BY DEF PhasesKept, SameIncarnation, Exists
  <1>1. Reconcile /\ key = r /\ KeyWritten
    BY Fate DEF Appears, Edited
  <1>2. QED
    BY <1>1, PhaseMove DEF NextPhase

\* The parts of PhaseInv and CopiesInv together.
LEMMA IncarnationInductive == Spec /\ NamesRest => [](CopiesInv /\ PhaseInv)
  <1> DEFINE Inv == CopiesInv /\ StageInv /\ ReadyKeepsNurn
  <1>1. Init => Inv
    BY DEF Init, CopiesInv, StageInv, ReadyKeepsNurn, ReadyNow, Exists, AfterRecord,
       AfterRegister, AfterConnect, InProgress
  <1>2. TypeOK /\ Inv /\ [Next]_vars /\ [NamesFree]_vars /\ [NurnsKept]_vars => Inv'
    <2> SUFFICES ASSUME TypeOK, Inv, [Next]_vars, [NamesFree]_vars, [NurnsKept]_vars PROVE Inv'
      OBVIOUS
    <2>1. NamesFree /\ NurnsKept
      BY DEF vars, cluster, NamesFree, NurnsKept, SameIncarnation
    <2>2. PhaseInv
      BY DEF PhaseInv, StageInv
    <2>3. QED
      BY <2>1, <2>2, CopiesStep, StageStep, ReadyNurnStep
  <1>3. Inv => CopiesInv /\ PhaseInv
    BY DEF PhaseInv, StageInv
  <1>4. Spec => [][NurnsKept]_vars
    BY NurnKept DEF NurnNeverLost, NurnsKept
  <1>5. NamesRest => [][NamesFree]_vars
    BY DEF NamesRest, NamesFree
  <1> HIDE DEF Inv
  <1>6. QED
    BY <1>1, <1>2, <1>3, <1>4, <1>5, TypeCorrect, PTL DEF Spec

(***************************************************************************)
(* ReadyKeepsNurn holds as long as no name is used again too early: a      *)
(* Ready Resource carries its nurn, whichever of the status writes of      *)
(* lines 250, 329, 409 and 447 made it Ready, from whatever copy.          *)
(***************************************************************************)
THEOREM ReadyHasNurn == Spec /\ NamesRest => []ReadyKeepsNurn
  <1>1. PhaseInv => ReadyKeepsNurn
    BY DEF PhaseInv
  <1>2. QED
    BY <1>1, IncarnationInductive, PTL

\* Under the same condition the phase of a Resource only moves as NextPhases says.
THEOREM PhasesMoveOn == Spec /\ NamesRest => PhasesMove
  <1>1. TypeOK /\ CopiesInv /\ PhaseInv /\ [Next]_vars /\ [NamesFree]_vars => [PhasesKept]_vars
    <2> SUFFICES ASSUME TypeOK, CopiesInv, PhaseInv, Next, NamesFree PROVE PhasesKept
      BY DEF vars
    <2>1. StageInv
      BY DEF PhaseInv, StageInv
    <2>2. QED
      BY <2>1, PhasesStep
  <1>2. NamesRest => [][NamesFree]_vars
    BY DEF NamesRest, NamesFree
  <1>3. PhasesMove <=> [][PhasesKept]_vars
    BY DEF PhasesMove, PhasesKept
  <1>4. QED
    BY <1>1, <1>2, <1>3, TypeCorrect, IncarnationInductive, PTL DEF Spec

-----------------------------------------------------------------------------
(***************************************************************************)
(* The managed objects.                                                    *)
(***************************************************************************)
SettledNow(r) ==
  /\ managed[r] # Nil /\ managed'[r] # Nil
  /\ managed'[r].owner = managed[r].owner /\ managed'[r].gen = managed[r].gen
  /\ managed'[r].state \in {"ready"} \union (IF CanFail THEN {"failed"} ELSE {})
Applied(r) ==
  /\ pc = "apply" /\ pc' = "observe" /\ key = r /\ UNCHANGED <<store, obj>>
  /\ managed'[r] # Nil /\ managed'[r].gen = obj.gen
  /\ managed'[r].owner = IF managed[r] = Nil THEN obj.uid ELSE managed[r].owner
  /\ \/ managed'[r].state = "progressing"
     \/ managed[r] # Nil /\ managed'[r].state = managed[r].state

LEMMA ManagedSteps ==
  ASSUME TypeOK, [Next]_vars, NEW r \in Resource
  PROVE  \/ managed'[r] = managed[r]
         \/ managed'[r] = Nil /\ ~Owned(r) /\ UNCHANGED <<store, worker, queue>>
         \/ SettledNow(r) /\ UNCHANGED <<store, worker, queue>>
         \/ Applied(r)
  <1>1. ASSUME NEW q \in Resource, Settle(q)
        PROVE  managed'[r] = managed[r] \/ (SettledNow(r) /\ UNCHANGED <<store, worker, queue>>)
    <2>1. PICK s \in {"ready"} \union (IF CanFail THEN {"failed"} ELSE {}) :
            managed' = [managed EXCEPT ![q].state = s]
      BY <1>1 DEF Settle
    <2>2. s \in {"ready", "failed"} /\ managed[q] \in Managed
      BY <1>1 DEF Settle, TypeOK
    <2>3. CASE r = q
      <3>1. /\ managed'[r] = [managed[r] EXCEPT !.state = s]
            /\ managed[r] \in Managed
        BY <2>1, <2>2, <2>3 DEF TypeOK
      <3>2. [managed[r] EXCEPT !.state = s] \in Managed
        BY <2>2, <3>1 DEF Managed
      <3>3. SettledNow(r)
        BY <2>2, <3>1, <3>2, ResourceAssumption DEF SettledNow, Managed
      <3>4. QED
        BY <1>1, <3>3 DEF Settle, cluster
    <2>4. CASE r # q
      BY <2>1, <2>4 DEF TypeOK
    <2>5. QED
      BY <2>3, <2>4
  <1>2. ASSUME NEW q \in Resource, Collect(q)
        PROVE  \/ managed'[r] = managed[r]
               \/ managed'[r] = Nil /\ ~Owned(r) /\ UNCHANGED <<store, worker, queue>>
    BY <1>2 DEF Collect, TypeOK, cluster
  <1>3. CASE Apply
    <2>0. key \in Resource /\ obj \in Object
      BY <1>3, Busy DEF Apply
    <2>1. CASE r # key \/ UNCHANGED managed
      BY <1>3, <2>0, <2>1 DEF Apply, TypeOK
    <2>2. CASE r = key /\ managed[key] = Nil /\ managed' = [managed EXCEPT ![key] = Created]
               /\ Goto("observe") /\ UNCHANGED locals
      <3>1. Created \in Managed
        BY <2>0 DEF Created, Managed, Object
      <3>2. managed'[r] = Created /\ Created # Nil
        BY <2>0, <2>2, <3>1, ResourceAssumption DEF TypeOK
      <3>3. Applied(r)
        BY <1>3, <2>2, <3>2 DEF Applied, Apply, Created, Goto, cluster, locals
      <3>4. QED
        BY <3>3
    <2>3. ASSUME r = key, managed[key] # Nil, NEW s \in Verdicts,
                 managed' = [managed EXCEPT ![key] = Updated(s)],
                 Goto("observe"), UNCHANGED locals
          PROVE  Applied(r)
      <3>1. managed[key] \in Managed /\ s \in {managed[key].state, "progressing"}
        BY <2>0, <2>3 DEF TypeOK, Verdicts
      <3>2. /\ Updated(s) \in Managed
            /\ Updated(s).owner = managed[key].owner /\ Updated(s).gen = obj.gen
            /\ Updated(s).state = s
        BY <2>0, <3>1 DEF Updated, Managed, Object
      <3>3. managed'[r] = Updated(s) /\ Updated(s) # Nil
        BY <2>0, <2>3, <3>2, ResourceAssumption DEF TypeOK
      <3>4. QED
        BY <1>3, <2>3, <3>1, <3>2, <3>3 DEF Applied, Apply, Goto, cluster, locals
    <2>4. QED
      BY <1>3, <2>1, <2>2, <2>3 DEF Apply
  <1>4. CASE Reconcile /\ ~Apply
    BY <1>4 DEF Reconcile, WritePending, ReadPending, CheckType, WriteTypeFailed,
       Register, Record, Connect, AllConnected, WriteInvalid, FailSpec, Begin, ReadBegin,
       Observe, WriteRunFailed, RecordOutcome, ReadOutcome, Patch, Sync,
       WriteReady, RetryFails, RetryFindsNothing, RetryExhausted, remote
  <1>5. CASE World
    <2>1. ASSUME NEW q \in Resource, Create(q) \/ Edit(q) \/ Delete(q) \/ Deliver(q)
          PROVE  UNCHANGED managed
      BY <2>1 DEF Create, Edit, Delete, Deliver, remote
    <2>2. MoveType => UNCHANGED managed
      BY DEF MoveType, remote
    <2>3. QED
      BY <1>1, <1>2, <1>5, <2>1, <2>2 DEF World
  <1>6. CASE Crash \/ UNCHANGED vars \/ \E q \in Resource : Start(q)
    BY <1>6 DEF Crash, Start, vars, remote
  <1>7. QED
    BY <1>3, <1>4, <1>5, <1>6 DEF Next

\* The three parts of ManagedInv.
OwnInv == \A r \in Resource : managed[r] # Nil /\ Exists(r) => Owned(r)
AppliedInv ==
  pc \in AfterApply /\ key \in Provisioned /\ Exists(key) =>
    managed[key] # Nil /\ (key \notin queue => managed[key].gen = obj.gen)
ManagedUpToDate ==
  \A r \in Provisioned : ReadyNow(r) /\ ~Awake(r) =>
    managed[r] # Nil /\ managed[r].gen = store[r].gen /\ Owned(r)

\* A living object keeps its identity.
LEMMA UidStays ==
  ASSUME TypeOK, [Next]_vars, NamesFree, NEW r \in Resource, store'[r] # Nil, store[r] # Nil
  PROVE  store'[r].uid = store[r].uid
  BY Fate DEF Appears, Edited, KeyWritten

LEMMA OwnStep ==
  ASSUME TypeOK, CopiesInv, OwnInv, [Next]_vars, NamesFree
  PROVE  OwnInv'
  <1> SUFFICES ASSUME NEW r \in Resource, managed'[r] # Nil, store'[r] # Nil
               PROVE  managed'[r].owner = store'[r].uid
    BY DEF OwnInv, Owned, Exists
  <1>1. store[r] # Nil /\ managed[r] # Nil => managed[r].owner = store[r].uid
    BY DEF OwnInv, Owned, Exists
  <1>2. CASE managed'[r] = managed[r]
    <2>1. store[r] # Nil
      BY <1>2 DEF NamesFree, NameIsFree
    <2>2. QED
      BY <1>1, <1>2, <2>1, UidStays
  <1>3. CASE SettledNow(r) /\ UNCHANGED store
    BY <1>1, <1>3 DEF SettledNow
  <1>4. CASE Applied(r)
    <2>1. /\ managed'[r].owner = IF managed[r] = Nil THEN obj.uid ELSE managed[r].owner
          /\ UNCHANGED store /\ pc = "apply" /\ key = r
      BY <1>4 DEF Applied
    <2>2. obj.uid = store[r].uid
      BY <2>1 DEF CopiesInv, Exists
    <2>3. QED
      BY <1>1, <2>1, <2>2
  <1>5. QED
    BY <1>2, <1>3, <1>4, ManagedSteps

LEMMA AppliedStep ==
  ASSUME TypeOK, CopyCurrent, OwnInv, AppliedInv, [Next]_vars, NamesFree
  PROVE  AppliedInv'
  <1> USE DEF AfterApply
  <1> SUFFICES ASSUME pc' \in AfterApply, key' \in Provisioned, store'[key'] # Nil
               PROVE  /\ managed'[key'] # Nil
                      /\ key' \notin queue' => managed'[key'].gen = obj'.gen
    BY DEF AppliedInv, Exists
  <1>0. key' \in Resource
    BY ResourceAssumption
  <1>1. CASE Reconcile
    <2>1. key \in Resource /\ pc # "idle" /\ Forward /\ UNCHANGED <<key, queue, cache>>
      BY <1>1, Working, ReconcileSteps, ReconcileWrites DEF Forward
    <2>2. store[key] # Nil
      <3>1. store' = store \/ KeyWritten
        BY <1>1, ReconcileSteps
      <3>2. QED
        BY <2>1, <3>1 DEF KeyWritten
    <2>3. CASE pc = "apply"
      <3>1. pc' = "observe" /\ UNCHANGED <<store, obj>>
        BY <2>1, <2>3 DEF Forward, KeyWritten
      <3>2. ~(managed'[key] = managed[key] /\ managed[key] = Nil)
            /\ (managed'[key] # Nil => managed'[key].gen = obj.gen)
        <4>1. Apply
          BY <1>1, <2>3 DEF Reconcile, WritePending, ReadPending, CheckType, WriteTypeFailed,
             Register, Record, Connect, AllConnected, WriteInvalid, FailSpec, Begin, ReadBegin,
             Observe, WriteRunFailed, RecordOutcome, ReadOutcome, Patch, Sync, WriteReady
        <4>2. obj \in Object
          BY <1>1, Working
        <4>3. CASE managed[key] = Nil
          <5>1. managed' = [managed EXCEPT ![key] = Created]
            BY <3>1, <4>1, <4>3 DEF Apply, Goto
          <5>2. Created \in Managed /\ managed'[key] = Created
            BY <2>1, <4>2, <5>1 DEF Created, Managed, Object, TypeOK
          <5>3. QED
            BY <4>3, <5>2, ResourceAssumption DEF Created
        <4>4. CASE managed[key] # Nil
          <5>1. PICK s \in Verdicts : managed' = [managed EXCEPT ![key] = Updated(s)]
            BY <3>1, <4>1, <4>4 DEF Apply, Goto
          <5>2. managed'[key] = Updated(s) /\ managed[key] \in Managed
            BY <2>1, <4>4, <5>1 DEF TypeOK
          <5>3. Updated(s).gen = obj.gen
            BY <5>2 DEF Updated, Managed
          <5>4. QED
            BY <4>4, <5>2, <5>3
        <4>5. QED
          BY <4>3, <4>4
      <3>3. managed'[key] # Nil
        BY <2>1, <2>3, <3>1, <3>2, ManagedSteps DEF SettledNow, Applied, worker
      <3>4. QED
        BY <2>1, <3>1, <3>2, <3>3
    <2>4. CASE pc # "apply"
      <3>1. pc \in AfterApply
        BY <2>1, <2>4 DEF Forward, KeyWritten
      <3>2. managed[key] # Nil /\ (key \notin queue => managed[key].gen = obj.gen)
        BY <2>1, <2>2, <3>1 DEF AppliedInv, Exists
      <3>3. managed'[key] # Nil /\ managed'[key].gen = managed[key].gen
        <4>1. Owned(key)
          BY <2>1, <2>2, <3>2 DEF OwnInv, Exists
        <4>2. QED
          BY <2>1, <2>4, <3>2, <4>1, ManagedSteps DEF SettledNow, Applied
      <3>4. key \notin queue => obj'.gen = obj.gen
        <4>1. obj' = obj \/ (cache[key] # Nil /\ SameSpec(cache[key], obj'))
          BY <1>1, <2>1, ReconcileMoves DEF Requeue, Done, Return
        <4>2. QED
          BY <2>1, <4>1 DEF CopyCurrent, SameSpec
      <3>5. QED
        BY <2>1, <3>2, <3>3, <3>4
    <2>5. QED
      BY <2>3, <2>4
  <1>2. CASE UNCHANGED <<pc, key, obj>> /\ queue \subseteq queue'
    <2>1. store[key] # Nil
      BY <1>0, <1>2 DEF NamesFree, NameIsFree
    <2>2. managed[key] # Nil /\ (key \notin queue => managed[key].gen = obj.gen)
      BY <1>2, <2>1 DEF AppliedInv, Exists
    <2>3. Owned(key)
      BY <1>0, <1>2, <2>1, <2>2 DEF OwnInv, Exists
    <2>4. managed'[key] # Nil /\ managed'[key].gen = managed[key].gen
      BY <1>0, <1>2, <2>2, <2>3, ManagedSteps DEF SettledNow, Applied
    <2>5. QED
      BY <1>2, <2>2, <2>4
  <1>3. QED
    BY <1>1, <1>2, WorkerSteps

LEMMA ManagedUpToDateStep ==
  ASSUME TypeOK, VersionsInv, CopyCurrent, CopiesInv, OwnInv, AppliedInv, ManagedUpToDate,
         [Next]_vars, NamesFree
  PROVE  ManagedUpToDate'
  <1> SUFFICES ASSUME NEW r \in Provisioned, store'[r] # Nil, store'[r].phase = "Ready", ~Awake(r)'
               PROVE  /\ managed'[r] # Nil /\ managed'[r].gen = store'[r].gen
                      /\ managed'[r].owner = store'[r].uid
    BY DEF ManagedUpToDate, ReadyNow, Exists, Owned
  <1>0. r \in Resource
    BY ResourceAssumption
  <1>1. CASE ~Awake(r) /\ store'[r] = store[r]
    <2>1. managed[r] # Nil /\ managed[r].gen = store[r].gen /\ Owned(r)
      BY <1>1 DEF ManagedUpToDate, ReadyNow, Exists
    <2>2. ~Applied(r)
      BY <1>1 DEF Awake, Applied
    <2>3. /\ managed'[r] # Nil /\ managed'[r].gen = managed[r].gen
          /\ managed'[r].owner = managed[r].owner
      BY <1>0, <2>1, <2>2, ManagedSteps DEF SettledNow
    <2>4. QED
      BY <1>1, <2>1, <2>3 DEF Owned
  <1>2. CASE Engaged(r) /\ Reconcile /\ Done
    <2>1. key = r /\ key \notin queue'
      BY <1>2 DEF Awake, Engaged
    <2>2. /\ pc = "ready" /\ key \notin queue /\ UNCHANGED managed
          /\ cache[r] # Nil /\ SameSpec(cache[r], store'[r])
      BY <1>2, <2>1, ReadyEnd
    <2>3. store[r] # Nil
      BY <1>0, <2>1 DEF NamesFree, NameIsFree
    <2>4. managed[r] # Nil /\ managed[r].gen = obj.gen /\ obj.gen = cache[r].gen /\ Owned(r)
      BY <1>0, <2>1, <2>2, <2>3 DEF AppliedInv, AfterApply, Exists, CopyCurrent, OwnInv
    <2>5. store'[r].uid = store[r].uid
      BY <1>0, <2>3, UidStays
    <2>6. QED
      BY <2>2, <2>4, <2>5 DEF SameSpec, Owned
  <1>3. QED
    BY <1>0, <1>1, <1>2, AsleepSteps

LEMMA ManagedInductive == Spec /\ NamesRest => []ManagedInv
  <1> DEFINE Inv == OwnInv /\ AppliedInv /\ ManagedUpToDate
  <1>1. Init => Inv
    BY ResourceAssumption DEF Init, OwnInv, AppliedInv, ManagedUpToDate, ReadyNow, Exists, AfterApply
  <1>2. /\ TypeOK /\ VersionsInv /\ CurrentInv /\ CopiesInv /\ Inv
        /\ [Next]_vars /\ [NamesFree]_vars
        => Inv'
    <2> SUFFICES ASSUME TypeOK, VersionsInv, CurrentInv, CopiesInv, Inv,
                        [Next]_vars, [NamesFree]_vars
                 PROVE  Inv'
      OBVIOUS
    <2>1. NamesFree
      BY DEF vars, cluster, NamesFree
    <2>2. CopyCurrent
      BY DEF CurrentInv, CopyCurrent
    <2>3. OwnInv'
      BY <2>1, OwnStep
    <2>4. AppliedInv'
      BY <2>1, <2>2, AppliedStep
    <2>5. ManagedUpToDate'
      BY <2>1, <2>2, ManagedUpToDateStep
    <2>6. QED
      BY <2>3, <2>4, <2>5
  <1>3. Inv => ManagedInv
    BY DEF OwnInv, AppliedInv, ManagedUpToDate, ManagedInv
  <1>4. NamesRest => [][NamesFree]_vars
    BY DEF NamesRest, NamesFree
  <1> HIDE DEF Inv
  <1>5. QED
    BY <1>1, <1>2, <1>3, <1>4, TypeCorrect, RestInductive, CurrentInductive,
       IncarnationInductive, PTL DEF Spec

(***************************************************************************)
(* AtRestManaged holds as long as no name is used again too early: when    *)
(* everything is quiet, the managed object of a Ready Resource is there,   *)
(* its own, and applied from the current spec.                             *)
(***************************************************************************)
THEOREM RestManaged == Spec /\ NamesRest => []AtRestManaged
  <1>1. ManagedInv => AtRestManaged
    <2> SUFFICES ASSUME ManagedInv, AtRest, NEW r \in Provisioned, ReadyNow(r)
                 PROVE  managed[r] # Nil /\ managed[r].gen = store[r].gen /\ Owned(r)
      BY DEF AtRestManaged
    <2>1. ~Awake(r)
      BY ResourceAssumption DEF AtRest, Awake, Passes, ReadyNow, Exists
    <2>2. QED
      BY <2>1 DEF ManagedInv
  <1>2. QED
    BY <1>1, ManagedInductive, PTL

-----------------------------------------------------------------------------
(***************************************************************************)
(* The outcome of a provisioner that cannot fail.                          *)
(***************************************************************************)
Fails == \E r \in Resource : managed[r] # Nil /\ managed[r].state = "failed"
PassedInv ==
  /\ pc \notin {"patch", "sync"}
  /\ pc \in {"outcome", "outcomeRead"} => outcome \in {"Running", "Success"}
  /\ pc = "outcomeRead" /\ Exists(key) => store[key].at = outcome
  /\ pc = "ready" /\ key \in Provisioned /\ Exists(key) => store[key].at = "Success"

LEMMA NoneFails ==
  ASSUME CanFail = FALSE, TypeOK, ~Fails, [Next]_vars
  PROVE  ~Fails'
  <1> SUFFICES ASSUME NEW r \in Resource, managed'[r] # Nil
               PROVE  managed'[r].state # "failed"
    BY DEF Fails
  <1>1. managed[r] # Nil => managed[r].state # "failed"
    BY DEF Fails
  <1>2. QED
    BY <1>1, ManagedSteps DEF SettledNow, Applied

LEMMA PassedStep ==
  ASSUME Patched = {}, TypeOK, ~Fails, PassedInv, [Next]_vars, NamesFree
  PROVE  PassedInv'
  <1>1. CASE pc' = "idle" \/ pc' \in {"pending", "type"}
    BY <1>1 DEF PassedInv
  <1>2. CASE Reconcile /\ pc' # "idle"
    <2>1. key \in Resource /\ pc # "idle" /\ Forward /\ UNCHANGED <<key, cache>>
      BY <1>2, Working, ReconcileSteps, ReconcileWrites DEF Forward
    <2>2. pc' \notin {"patch", "sync"}
      BY <2>1 DEF Forward, KeyWritten, PassedInv
    <2>3. pc' = "outcome" => outcome' \in {"Running", "Success"}
      BY <2>1 DEF Forward, KeyWritten, OutcomeOf, Fails
    <2>4. pc' = "outcomeRead" => /\ outcome' \in {"Running", "Success"}
                                 /\ store'[key].at = outcome'
      BY <2>1 DEF Forward, KeyWritten, PassedInv
    <2>5. pc' = "ready" /\ key \in Provisioned /\ store'[key] # Nil => store'[key].at = "Success"
      BY <2>1 DEF Forward, KeyWritten, PassedInv, Exists
    <2>6. QED
      BY <2>1, <2>2, <2>3, <2>4, <2>5 DEF PassedInv, Exists
  <1>3. CASE UNCHANGED <<pc, key, obj, outcome>> /\ ~Reconcile
    <2>1. CASE pc = "idle" \/ store'[key] = Nil
      BY <1>3, <2>1 DEF PassedInv, Exists
    <2>2. CASE pc # "idle" /\ store'[key] # Nil
      <3>1. key \in Resource
        BY <2>2 DEF TypeOK
      <3>2. store[key] # Nil /\ store'[key].at = store[key].at
        <4>1. ~Appears(key)
          BY DEF Appears, NameIsFree
        <4>2. store'[key] = store[key] \/ Edited(key)
          BY <1>3, <2>2, <3>1, <4>1, Fate
        <4>3. QED
          BY <2>2, <4>2 DEF Edited
      <3>3. QED
        BY <1>3, <3>2 DEF PassedInv, Exists
    <2>3. QED
      BY <2>1, <2>2
  <1>4. QED
    BY <1>1, <1>2, <1>3, WorkerSteps

LEMMA ReadyOutcomeStep ==
  ASSUME Patched = {}, TypeOK, PassedInv, ReadyMeansProvisioned, [Next]_vars, NamesFree
  PROVE  ReadyMeansProvisioned'
  <1> SUFFICES ASSUME NEW r \in Provisioned, store'[r] # Nil, store'[r].phase = "Ready"
               PROVE  store'[r].at = "Success"
    BY DEF ReadyMeansProvisioned, ReadyNow, Exists
  <1>0. r \in Resource
    BY ResourceAssumption
  <1>1. CASE store'[r] = store[r]
    BY <1>1 DEF ReadyMeansProvisioned, ReadyNow, Exists
  <1>2. CASE Appears(r)
    BY <1>2 DEF Appears
  <1>3. CASE Edited(r)
    BY <1>3 DEF Edited, ReadyMeansProvisioned, ReadyNow, Exists
  <1>4. CASE pc # "idle" /\ key = r /\ KeyWritten
    <2>1. CASE pc = "record"
      BY <1>4, <2>1 DEF KeyWritten, Sets, ReadyMeansProvisioned, ReadyNow, Exists
    <2>2. CASE pc = "outcome"
      <3>1. store'[r].phase = PhaseOf(outcome) /\ store'[r].at = outcome
        BY <1>4, <2>2 DEF KeyWritten
      <3>2. outcome \in {"Running", "Success"}
        BY <2>2 DEF PassedInv
      <3>3. QED
        BY <3>1, <3>2 DEF PhaseOf
    <2>3. CASE pc = "ready"
      BY <1>4, <2>3 DEF KeyWritten, Sets, PassedInv, Exists
    <2>4. CASE pc \notin {"record", "outcome", "ready"}
      BY <1>4, <2>4 DEF KeyWritten, Sets, PassedInv
    <2>5. QED
      BY <2>1, <2>2, <2>3, <2>4
  <1>5. QED
    BY <1>0, <1>1, <1>2, <1>3, <1>4, Fate

(***************************************************************************)
(* ReadyMeansProvisioned holds where nothing stands against it: the        *)
(* provisioner cannot fail (a failed one goes on to line 250), there are   *)
(* no patches (their status write, line 409, may undo the outcome of line  *)
(* 329), and no name is used again too early.                              *)
(***************************************************************************)
THEOREM ReadyProvisioned ==
  ASSUME CanFail = FALSE, Patched = {}
  PROVE  Spec /\ NamesRest => []ReadyMeansProvisioned
  <1> DEFINE Inv == ~Fails /\ PassedInv /\ ReadyMeansProvisioned
  <1>1. Init => Inv
    BY ResourceAssumption DEF Init, Fails, PassedInv, ReadyMeansProvisioned, ReadyNow, Exists
  <1>2. TypeOK /\ Inv /\ [Next]_vars /\ [NamesFree]_vars => Inv'
    <2> SUFFICES ASSUME TypeOK, Inv, [Next]_vars, [NamesFree]_vars PROVE Inv'
      OBVIOUS
    <2>1. NamesFree
      BY DEF vars, cluster, NamesFree
    <2>2. QED
      BY <2>1, NoneFails, PassedStep, ReadyOutcomeStep
  <1>3. Inv => ReadyMeansProvisioned
    OBVIOUS
  <1>4. NamesRest => [][NamesFree]_vars
    BY DEF NamesRest, NamesFree
  <1> HIDE DEF Inv
  <1>5. QED
    BY <1>1, <1>2, <1>3, <1>4, TypeCorrect, PTL DEF Spec

====
