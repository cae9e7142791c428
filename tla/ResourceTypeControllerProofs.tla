--------------------- MODULE ResourceTypeControllerProofs ---------------------
(***************************************************************************)
(* Safety of ResourceTypeController, for any number of incarnations,       *)
(* edits, failures and restarts.                                           *)
(***************************************************************************)
EXTENDS ResourceTypeController, TLAPS

\* The description of a type is an entry.
LEMMA DescriptionType ==
  \A o \in Types : Description(o) \in Descriptions /\ Description(o) # Nil
  <1> SUFFICES ASSUME NEW o \in Types
               PROVE  Description(o) \in Descriptions /\ Description(o) # Nil
    OBVIOUS
  <1>1. Description(o) \in Descriptions
    BY DEF Description, Descriptions, Types
  <1>2. QED
    BY <1>1, TypeAssumption

\* The ways a type is written leave it a type, and its description what it was.
LEMMA TypeWrites ==
  ASSUME NEW o \in Types
  PROVE  /\ o # Nil
         /\ o.uid \in Nat /\ o.gen \in Nat
         /\ [o EXCEPT !.gen = @ + 1] \in Types
         /\ [o EXCEPT !.gen = @ + 1].uid = o.uid
         /\ [o EXCEPT !.gen = @ + 1].gen = o.gen + 1
         /\ [o EXCEPT !.gen = @ + 1].status = o.status
         /\ \A s \in {"pending", "insync"} :
              /\ [o EXCEPT !.status = s] \in Types
              /\ [o EXCEPT !.status = s].uid = o.uid
              /\ [o EXCEPT !.status = s].gen = o.gen
              /\ [o EXCEPT !.status = s].status = s
              /\ Description([o EXCEPT !.status = s]) = Description(o)
  <1>1. o # Nil
    BY TypeAssumption
  <1>2. o \in [uid: Nat, gen: Nat, status: {"", "pending", "insync"}]
    BY DEF Types
  <1>3. ASSUME NEW s \in {"pending", "insync"}
        PROVE  /\ [o EXCEPT !.status = s] \in Types
               /\ [o EXCEPT !.status = s].uid = o.uid
               /\ [o EXCEPT !.status = s].gen = o.gen
               /\ [o EXCEPT !.status = s].status = s
    BY <1>2 DEF Types
  <1>4. /\ [o EXCEPT !.gen = @ + 1] \in Types
        /\ [o EXCEPT !.gen = @ + 1].uid = o.uid
        /\ [o EXCEPT !.gen = @ + 1].gen = o.gen + 1
        /\ [o EXCEPT !.gen = @ + 1].status = o.status
    <2> DEFINE g == o.gen + 1
    <2>1. g \in Nat
      <3>1. o.gen \in Nat
        BY <1>2
      <3>2. QED
        BY <3>1
    <2> HIDE DEF g
    <2>2. /\ [o EXCEPT !.gen = g] \in Types
          /\ [o EXCEPT !.gen = g].uid = o.uid
          /\ [o EXCEPT !.gen = g].gen = g
          /\ [o EXCEPT !.gen = g].status = o.status
      BY <1>2, <2>1 DEF Types
    <2>3. QED
      BY <2>2 DEF g
  <1>5. QED
    BY <1>1, <1>2, <1>3, <1>4 DEF Description

-----------------------------------------------------------------------------
\* The controller writes a status, and only on the object it read.
LEMMA StatusWrites ==
  ASSUME TypeOK, WritePending \/ WriteInSync, stored' # stored
  PROVE  /\ stored \in Types
         /\ WritePending => stored = obj /\ stored' = [stored EXCEPT !.status = "pending"]
         /\ WriteInSync => stored' = [stored EXCEPT !.status = "insync"]
         /\ \E s \in {"pending", "insync"} : stored' = [stored EXCEPT !.status = s]
  <1>1. CASE WritePending
    <2>1. stored = obj /\ stored' = [stored EXCEPT !.status = "pending"] /\ pc = "pending"
      BY <1>1 DEF WritePending
    <2>2. ~WriteInSync
      BY <2>1 DEF WriteInSync
    <2>3. QED
      BY <2>1, <2>2 DEF TypeOK
  <1>2. CASE WriteInSync
    <2>1. stored' = [stored EXCEPT !.status = "insync"] /\ pc = "insync"
      BY <1>2 DEF WriteInSync
    <2>2. stored # Nil
      BY <1>2 DEF WriteInSync, Refreshed, TypeOK
    <2>3. ~WritePending
      BY <2>1 DEF WritePending
    <2>4. QED
      BY <2>1, <2>2, <2>3 DEF TypeOK
  <1>3. QED
    BY <1>1, <1>2

\* Each action keeps the types.
LEMMA TypeStep ==
  ASSUME TypeOK, [Next]_vars
  PROVE  TypeOK'
  <1>1. CASE CreateType
    <2>1. born + 1 \in Nat
      BY DEF TypeOK
    <2>2. [uid |-> born + 1, gen |-> 1, status |-> ""] \in Types
      BY <2>1 DEF Types
    <2>3. QED
      BY <1>1, <2>1, <2>2 DEF CreateType, worker, TypeOK
  <1>2. CASE EditType
    BY <1>2, TypeWrites DEF EditType, worker, history, TypeOK
  <1>3. CASE DeleteType \/ DeliverType
    BY <1>3 DEF DeleteType, DeliverType, worker, history, TypeOK
  <1>4. CASE Start \/ Reread
    BY <1>4 DEF Start, Reread, Requeue, Return, Goto, worker, history, TypeOK
  <1>5. CASE WritePending \/ WriteInSync
    <2>1. stored' \in Types \union {Nil}
      <3>1. CASE stored' = stored
        BY <3>1 DEF TypeOK
      <3>2. CASE stored' # stored
        BY <1>5, <3>2, StatusWrites, TypeWrites
      <3>3. QED
        BY <3>1, <3>2
    <2>2. faults' \in Nat /\ UNCHANGED <<cached, entry, born, crashes>>
      BY <1>5 DEF WritePending, WriteInSync, Fault, history, TypeOK
    <2>3. \/ pc = "pending" /\ pc' = "reread" /\ UNCHANGED <<obj, pending>>
          \/ pc' = "idle" /\ obj' = Nil /\ pending' \in {pending, TRUE}
      BY <1>5 DEF WritePending, WriteInSync, Done, Requeue, Return, Goto
    <2>4. QED
      BY <2>1, <2>2, <2>3 DEF TypeOK
  <1>6. CASE LookUp
    BY <1>6 DEF LookUp, Goto, Fault, history, TypeOK
  <1>7. CASE CreateEntry \/ SyncEntry
    <2>1. obj \in Types /\ Description(obj) \in Descriptions
      BY <1>7, DescriptionType DEF CreateEntry, SyncEntry, TypeOK
    <2>2. entry' \in Descriptions \union {Nil}
      BY <1>7, <2>1 DEF CreateEntry, SyncEntry, TypeOK
    <2>3. faults' \in Nat /\ UNCHANGED <<stored, cached, born, crashes>>
      BY <1>7 DEF CreateEntry, SyncEntry, Fault, history, TypeOK
    <2>4. \/ pc = "create" /\ pc' = "insync" /\ UNCHANGED <<obj, pending>>
          \/ pc = "sync" /\ pc' = "insync" /\ UNCHANGED <<obj, pending>>
          \/ pc' = "idle" /\ obj' = Nil /\ pending' = TRUE
      <3>1. CASE CreateEntry
        BY <3>1 DEF CreateEntry, Goto, Requeue, Return
      <3>2. CASE SyncEntry
        BY <3>2 DEF SyncEntry, Goto, Requeue, Return
      <3>3. QED
        BY <1>7, <3>1, <3>2
    <2>5. QED
      BY <1>7, <2>1, <2>2, <2>3, <2>4, TypeAssumption DEF TypeOK
  <1>8. CASE Crash
    BY <1>8 DEF Crash, Return, TypeOK
  <1>9. CASE UNCHANGED vars
    BY <1>9 DEF vars, worker, history, TypeOK
  <1>10. QED
    BY <1>1, <1>2, <1>3, <1>4, <1>5, <1>6, <1>7, <1>8, <1>9 DEF Next, Reconcile

\* The worker holds what it says, and Inventory what it sent.
LEMMA WorkerStep ==
  ASSUME TypeInv, [Next]_vars
  PROVE  WorkerInv'
  <1>1. CASE Start
    BY <1>1 DEF Start, worker, TypeInv, TypeOK, WorkerInv
  <1>2. CASE CreateType \/ EditType \/ DeleteType \/ DeliverType \/ UNCHANGED vars
    BY <1>2 DEF CreateType, EditType, DeleteType, DeliverType, vars, worker, TypeInv, WorkerInv,
       Description
  <1>3. CASE WritePending \/ Reread \/ LookUp \/ WriteInSync \/ Crash
    BY <1>3 DEF WritePending, Reread, LookUp, WriteInSync, Crash, Requeue, Done, Return, Goto, WorkerInv
  <1>4. CASE CreateEntry \/ SyncEntry
    BY <1>4 DEF CreateEntry, SyncEntry, Requeue, Return, Goto, WorkerInv, Description
  <1>5. QED
    BY <1>1, <1>2, <1>3, <1>4 DEF Next, Reconcile

\* No copy gets ahead of the object.
LEMMA CopiesStep ==
  ASSUME TypeInv, [Next]_vars
  PROVE  CopiesInv'
  <1>1. CASE CreateType
    <2>1. stored'.uid = born + 1 /\ stored' # Nil /\ born' = born + 1 /\ UNCHANGED <<cached, obj>>
      <3>1. CreateType /\ TypeOK'
        BY <1>1, TypeStep DEF TypeInv
      <3>2. born + 1 \in Nat
        BY DEF TypeInv, TypeOK
      <3>3. [uid |-> born + 1, gen |-> 1, status |-> ""] # Nil
        <4>1. [uid |-> born + 1, gen |-> 1, status |-> ""] \in Types
          BY <3>2 DEF Types
        <4>2. QED
          BY <4>1, TypeAssumption
      <3>4. QED
        BY <3>1, <3>3 DEF CreateType, worker
    <2>2. \A o \in {cached, obj} \ {Nil} : o.uid \in Nat /\ o.uid <= born
      BY TypeWrites DEF TypeInv, TypeOK, CopiesInv
    <2>3. QED
      BY <2>1, <2>2 DEF TypeInv, TypeOK, CopiesInv
  <1>2. CASE EditType
    <2>1. /\ stored'.uid = stored.uid /\ stored'.gen = stored.gen + 1 /\ stored.gen \in Nat
          /\ stored # Nil /\ stored' # Nil /\ UNCHANGED <<cached, obj, born>>
      BY <1>2, TypeWrites DEF EditType, worker, history, TypeInv, TypeOK
    <2>2. \A o \in {cached, obj} \ {Nil} : o.gen \in Nat
      BY TypeWrites DEF TypeInv, TypeOK
    <2>3. QED
      BY <2>1, <2>2 DEF TypeInv, CopiesInv
  <1>3. CASE DeleteType \/ UNCHANGED vars
    BY <1>3 DEF DeleteType, vars, worker, history, TypeInv, CopiesInv
  <1>4. CASE DeliverType \/ Crash
    <2>1. /\ cached' = stored /\ UNCHANGED <<stored, born>>
          /\ obj' \in {obj, Nil}
      BY <1>4 DEF DeliverType, Crash, Return, worker, history
    <2>2. stored # Nil => stored.gen \in Nat
      BY TypeWrites DEF TypeInv, TypeOK
    <2>3. QED
      BY <2>1, <2>2 DEF TypeInv, CopiesInv
  <1>5. CASE Start \/ Reread \/ LookUp \/ CreateEntry \/ SyncEntry
    <2>1. obj' \in {obj, cached, Nil} /\ UNCHANGED <<stored, cached, born>>
      BY <1>5 DEF Start, Reread, LookUp, CreateEntry, SyncEntry, Requeue, Return, Goto, Fault,
         worker, history
    <2>2. QED
      BY <2>1 DEF TypeInv, CopiesInv
  <1>6. CASE WritePending \/ WriteInSync
    <2>1. /\ obj' \in {obj, Nil} /\ UNCHANGED <<cached, born>>
          /\ stored' # stored => stored # Nil /\ stored' # Nil /\ stored'.uid = stored.uid /\ stored'.gen = stored.gen
      <3>1. obj' \in {obj, Nil} /\ UNCHANGED <<cached, born>>
        BY <1>6 DEF WritePending, WriteInSync, Requeue, Done, Return, Goto, Fault, history
      <3>2. stored' # stored =>
              /\ stored \in Types
              /\ \E s \in {"pending", "insync"} : stored' = [stored EXCEPT !.status = s]
        BY <1>6, StatusWrites DEF TypeInv
      <3>3. ASSUME stored' # stored
            PROVE  stored # Nil /\ stored' # Nil /\ stored'.uid = stored.uid /\ stored'.gen = stored.gen
        <4>1. PICK s \in {"pending", "insync"} : stored' = [stored EXCEPT !.status = s]
          BY <3>2, <3>3
        <4>2. stored \in Types /\ stored' \in Types
          BY <3>2, <3>3, <4>1, TypeWrites
        <4>3. QED
          BY <4>1, <4>2, TypeWrites, TypeAssumption
      <3>4. QED
        BY <3>1, <3>3
    <2>2. QED
      BY <2>1 DEF TypeInv, CopiesInv
  <1>7. QED
    BY <1>1, <1>2, <1>3, <1>4, <1>5, <1>6 DEF Next, Reconcile

\* Nobody stops while the cache holds what Inventory was not told.
LEMMA InSyncInvStep ==
  ASSUME TypeInv, [Next]_vars
  PROVE  InSyncInv'
  <1> SUFFICES ASSUME ~pending'
               PROVE  /\ pc' # "idle" => cached' # Nil /\ Description(obj') = Description(cached')
                      /\ pc' = "idle" /\ cached' # Nil =>
                           /\ entry' = Description(cached')
                           /\ stored' # Nil /\ Description(stored') = Description(cached') =>
                                stored'.status = "insync"
    BY DEF InSyncInv, Description
  <1> USE DEF TypeInv
  <1>1. CASE CreateType
    <2>1. /\ stored'.uid = born + 1
          /\ UNCHANGED <<cached, entry, pending, pc, obj>>
      BY <1>1 DEF CreateType, worker
    <2>2. cached # Nil => cached.uid \in Nat /\ cached.uid <= born /\ born \in Nat
      BY TypeWrites DEF TypeOK, CopiesInv
    <2>3. cached # Nil => Description(stored') # Description(cached')
      BY <2>1, <2>2 DEF Description
    <2>4. QED
      BY <2>1, <2>3 DEF InSyncInv
  <1>2. CASE EditType
    <2>1. /\ stored'.uid = stored.uid /\ stored'.gen = stored.gen + 1 /\ stored.gen \in Nat
          /\ stored # Nil /\ UNCHANGED <<cached, entry, pending, pc, obj>>
      BY <1>2, TypeWrites DEF EditType, worker, TypeOK
    <2>2. cached # Nil => cached.gen \in Nat
      BY TypeWrites DEF TypeOK
    <2>3. cached # Nil => Description(stored') # Description(cached')
      BY <2>1, <2>2 DEF CopiesInv, Description
    <2>4. QED
      BY <2>1, <2>3 DEF InSyncInv
  <1>3. CASE DeleteType \/ UNCHANGED vars
    BY <1>3 DEF DeleteType, vars, worker, InSyncInv
  <1>4. CASE DeliverType
    <2>1. /\ ~pending /\ ~Passes(cached, stored)
          /\ cached' = stored /\ UNCHANGED <<stored, entry, pc, obj>>
      BY <1>4 DEF DeliverType, worker
    <2>2. cached # Nil /\ stored # Nil /\ Description(cached) = Description(stored)
      BY <2>1 DEF Passes, Description
    <2>3. QED
      BY <2>1, <2>2 DEF InSyncInv
  <1>5. CASE Start
    BY <1>5 DEF Start, worker
  <1>6. CASE Reread
    BY <1>6 DEF Reread, Requeue, Return, Goto
  <1>7. CASE WritePending
    BY <1>7 DEF WritePending, Requeue, Return, Goto, InSyncInv
  <1>8. CASE LookUp \/ CreateEntry \/ SyncEntry
    <2>1. /\ pc \in {"lookup", "create", "sync"} /\ pc' \in {"create", "sync", "insync"}
          /\ UNCHANGED <<cached, obj, pending>>
      <3>1. CASE LookUp
        BY <3>1 DEF LookUp, Goto
      <3>2. CASE CreateEntry
        BY <3>2 DEF CreateEntry, Goto, Requeue, Return
      <3>3. CASE SyncEntry
        BY <3>3 DEF SyncEntry, Goto, Requeue, Return
      <3>4. QED
        BY <1>8, <3>1, <3>2, <3>3
    <2>2. QED
      BY <2>1 DEF InSyncInv
  <1>9. CASE WriteInSync
    <2> DEFINE copy == Refreshed
    <2>1. /\ pc = "insync" /\ copy = stored /\ stored' = [copy EXCEPT !.status = "insync"]
          /\ UNCHANGED <<cached, entry, pending>> /\ pc' = "idle"
      BY <1>9 DEF WriteInSync, Refreshed, Requeue, Done, Return
    <2>2. cached # Nil /\ entry = Description(cached)
      BY <2>1 DEF Refreshed, InSyncInv, WorkerInv
    <2>3. stored'.status = "insync"
      BY <2>1, <2>2, TypeWrites DEF Refreshed, TypeOK
    <2>4. QED
      BY <2>1, <2>2, <2>3
  <1>10. CASE Crash
    BY <1>10 DEF Crash, Return
  <1>11. QED
    BY <1>1, <1>2, <1>3, <1>4, <1>5, <1>6, <1>7, <1>8, <1>9, <1>10 DEF Next, Reconcile

\* Nothing says it is in sync before Inventory has it.
LEMMA RegisteredStep ==
  ASSUME TypeInv, [Next]_vars
  PROVE  InSyncIsRegistered'
  <1> USE DEF TypeInv
  <1>1. CASE CreateType
    BY <1>1 DEF CreateType, InSyncIsRegistered
  <1>2. CASE EditType \/ WritePending
    BY <1>2, TypeWrites DEF EditType, WritePending, Requeue, Return, Goto, TypeOK, InSyncIsRegistered
  <1>3. CASE CreateEntry \/ SyncEntry
    <2>1. Description(obj) # Nil
      BY <1>3, DescriptionType DEF CreateEntry, SyncEntry, TypeOK
    <2>2. UNCHANGED stored /\ entry' \in {entry, Description(obj)}
      BY <1>3 DEF CreateEntry, SyncEntry
    <2>3. QED
      BY <2>1, <2>2 DEF InSyncIsRegistered
  <1>4. CASE WriteInSync
    BY <1>4, DescriptionType DEF WriteInSync, WorkerInv, TypeOK, InSyncIsRegistered
  <1>5. CASE DeleteType \/ DeliverType \/ Start \/ Reread \/ LookUp \/ Crash \/ UNCHANGED vars
    BY <1>5 DEF DeleteType, DeliverType, Start, Reread, LookUp, Crash, vars, InSyncIsRegistered
  <1>6. QED
    BY <1>1, <1>2, <1>3, <1>4, <1>5 DEF Next, Reconcile

\* The conjunction is inductive.
LEMMA TypeInvariant == Spec => []TypeInv
  <1>1. Init => TypeInv
    <2> SUFFICES ASSUME Init
                 PROVE  TypeInv
      OBVIOUS
    <2>1. TypeOK
      BY DEF Init, TypeOK
    <2>2. WorkerInv /\ InSyncInv /\ InSyncIsRegistered
      BY DEF Init, WorkerInv, InSyncInv, InSyncIsRegistered
    <2>3. CopiesInv
      BY DEF Init, CopiesInv
    <2>4. QED
      BY <2>1, <2>2, <2>3 DEF TypeInv
  <1>2. TypeInv /\ [Next]_vars => TypeInv'
    BY TypeStep, WorkerStep, CopiesStep, InSyncInvStep, RegisteredStep DEF TypeInv
  <1>3. QED
    BY <1>1, <1>2, PTL DEF Spec

-----------------------------------------------------------------------------
\* What ResourceTypeReconciler.Reconcile reads and writes keeps its shape.
THEOREM TypeControllerTyped == Spec => []TypeOK
  <1>1. TypeInv => TypeOK
    BY DEF TypeInv
  <1>2. QED
    BY <1>1, TypeInvariant, PTL

\* A ResourceType whose status is "insync" is in Inventory, though the status
\* is written after a read that may find another incarnation
\* (resourcetype_controller.go:85).
THEOREM InSyncRegistered == Spec => []InSyncIsRegistered
  <1>1. TypeInv => InSyncIsRegistered
    BY DEF TypeInv
  <1>2. QED
    BY <1>1, TypeInvariant, PTL

\* Whatever is edited, deleted, lost or restarted meanwhile, the controller
\* stops only when the type is in sync with the description of its spec.
THEOREM QuietInSync == Spec => []AtRestInSync
  <1>1. TypeInv => AtRestInSync
    BY DEF TypeInv, InSyncInv, AtRest, AtRestInSync
  <1>2. QED
    BY <1>1, TypeInvariant, PTL

\* A type that is not deleted appears and gets in sync, and never goes back:
\* what ResourceWorld supposes of the types a Resource waits for.
THEOREM TypeForward == Spec => TypeGoesForward
  <1> DEFINE Forward ==
        stored' # Nil /\ TypeState # TypeState' =>
          <<TypeState, TypeState'>> \in {<<"absent", "pending">>, <<"pending", "insync">>}
  <1>1. ASSUME TypeInv, [Next]_vars
        PROVE  [Forward]_vars
    <2>1. CASE CreateType
      BY <2>1 DEF CreateType, TypeState
    <2>2. CASE EditType
      BY <1>1, <2>2, TypeWrites DEF EditType, TypeState, TypeInv, TypeOK
    <2>3. CASE DeleteType
      BY <2>3 DEF DeleteType
    <2>4. CASE WritePending
      <3>1. stored' # stored =>
              stored \in Types /\ stored = obj /\ stored' = [stored EXCEPT !.status = "pending"]
        BY <1>1, <2>4, StatusWrites DEF TypeInv
      <3>2. obj.status = ""
        BY <1>1, <2>4 DEF WritePending, TypeInv, WorkerInv
      <3>3. ASSUME stored' # stored
            PROVE  stored # Nil /\ stored'.status = "pending"
        <4>1. stored \in Types /\ stored' = [stored EXCEPT !.status = "pending"]
          BY <3>1, <3>3
        <4>2. [stored EXCEPT !.status = "pending"].status = "pending" /\ stored # Nil
          BY <4>1, TypeWrites
        <4>3. QED
          BY <4>1, <4>2
      <3>4. QED
        BY <3>1, <3>2, <3>3 DEF TypeState
    <2>5. CASE WriteInSync
      <3>1. stored' # stored => stored \in Types /\ stored' = [stored EXCEPT !.status = "insync"]
        BY <1>1, <2>5, StatusWrites DEF TypeInv
      <3>2. ASSUME stored' # stored
            PROVE  stored # Nil /\ stored'.status = "insync"
        <4>1. stored \in Types /\ stored' = [stored EXCEPT !.status = "insync"]
          BY <3>1, <3>2
        <4>2. [stored EXCEPT !.status = "insync"].status = "insync" /\ stored # Nil
          BY <4>1, TypeWrites
        <4>3. QED
          BY <4>1, <4>2
      <3>3. QED
        BY <3>2 DEF TypeState
    <2>6. CASE DeliverType \/ Start \/ Reread \/ LookUp \/ CreateEntry \/ SyncEntry \/ Crash
      BY <2>6 DEF DeliverType, Start, Reread, LookUp, CreateEntry, SyncEntry, Crash, TypeState
    <2>7. QED
      BY <1>1, <2>1, <2>2, <2>3, <2>4, <2>5, <2>6 DEF Next, Reconcile
  <1>2. QED
    BY <1>1, TypeInvariant, PTL DEF Spec, TypeGoesForward
=============================================================================
