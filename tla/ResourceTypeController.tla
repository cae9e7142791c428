------------------------- MODULE ResourceTypeController -------------------------
(***************************************************************************)
(* ResourceTypeReconciler.Reconcile,                                       *)
(* internal/controller/resourcetype_controller.go, for one ResourceType:   *)
(* its object, the informer's copy, the entry Inventory keeps for it, and  *)
(* the users who edit its description, delete it and create it again.      *)
(***************************************************************************)
EXTENDS KlaudeteApi

CONSTANTS
  MaxGen,     \* bound: descriptions of one incarnation
  MaxUid,     \* bound: incarnations
  MaxFaults,  \* bound: failed calls
  MaxCrashes, \* bound: restarts of the controller
  Nil         \* no object, no entry

\* gen stands for the spec; a description is told from every other by the
\* incarnation and the generation it comes from.
Types == [uid: Nat, gen: Nat, status: {"", "pending", "insync"}]
Descriptions == Nat \X Nat

ASSUME TypeAssumption ==
  /\ Nil \notin Types /\ Nil \notin Descriptions
  /\ {MaxGen, MaxUid, MaxFaults, MaxCrashes} \subseteq Nat

VARIABLES
  stored, cached,  \* the ResourceType
  entry,           \* the description in Inventory
  pending,         \* its key is in the work queue
  pc, obj,         \* the worker and the local variable `resourceType`
  born, faults, crashes

worker == <<pc, obj>>
history == <<born, faults, crashes>>
vars == <<stored, cached, entry, pending, worker, history>>

TypeOK ==
  /\ stored \in Types \union {Nil}
  /\ cached \in Types \union {Nil}
  /\ obj \in Types \union {Nil}
  /\ entry \in Descriptions \union {Nil}
  /\ pending \in BOOLEAN
  /\ pc \in {"idle", "pending", "reread", "lookup", "create", "sync", "insync"}
  /\ (pc = "idle") = (obj = Nil)
  /\ born \in Nat /\ faults \in Nat /\ crashes \in Nat

Init ==
  /\ stored = Nil /\ cached = Nil /\ entry = Nil
  /\ pending = FALSE
  /\ pc = "idle" /\ obj = Nil
  /\ born = 0 /\ faults = 0 /\ crashes = 0

-----------------------------------------------------------------------------
CreateType ==
  /\ stored = Nil
  /\ born < MaxUid
  /\ born' = born + 1
  /\ stored' = [uid |-> born + 1, gen |-> 1, status |-> ""]
  /\ UNCHANGED <<cached, entry, pending, worker, faults, crashes>>

EditType ==
  /\ stored # Nil
  /\ stored.gen < MaxGen
  /\ stored' = [stored EXCEPT !.gen = @ + 1]
  /\ UNCHANGED <<cached, entry, pending, worker, history>>

DeleteType ==
  /\ stored # Nil
  /\ stored' = Nil
  /\ UNCHANGED <<cached, entry, pending, worker, history>>

\* (slip: updates are dropped altogether)
PassesSlip(old, new) == old = Nil \/ new = Nil \/ old.uid # new.uid

\* The generation predicate of predicates.go.
Passes(old, new) ==
  \/ old = Nil \/ new = Nil
  \/ old.uid # new.uid
  \/ old.gen # new.gen

DeliverType ==
  /\ cached # stored
  /\ cached' = stored
  /\ pending' = (pending \/ Passes(cached, stored))
  /\ UNCHANGED <<stored, entry, worker, history>>

-----------------------------------------------------------------------------
Return == pc' = "idle" /\ obj' = Nil
Done == Return /\ UNCHANGED pending
Requeue == Return /\ pending' = TRUE
Goto(label) == pc' = label /\ UNCHANGED pending
Fault == faults < MaxFaults /\ faults' = faults + 1 /\ UNCHANGED <<born, crashes>>

\* (slip: every reconciliation starts by announcing itself)
StartSlip ==
  /\ pc = "idle"
  /\ pending
  /\ pending' = FALSE
  /\ IF cached = Nil THEN UNCHANGED worker ELSE obj' = cached /\ pc' = "pending"
  /\ UNCHANGED <<stored, cached, entry, history>>

Start ==
  /\ pc = "idle"
  /\ pending
  /\ pending' = FALSE
  /\ IF cached = Nil
       THEN UNCHANGED worker
       ELSE obj' = cached /\ pc' = IF cached.status = "" THEN "pending" ELSE "lookup"
  /\ UNCHANGED <<stored, cached, entry, history>>

\* (slip: what is written is the phase of a Resource)
WritePendingSlip ==
  /\ pc = "pending"
  /\ IF stored = obj
       THEN stored' = [obj EXCEPT !.status = "Pending"] /\ Goto("reread") /\ UNCHANGED obj
       ELSE Requeue /\ UNCHANGED stored
  /\ UNCHANGED <<cached, entry, history>>

WritePending ==
  /\ pc = "pending"
  /\ \/ /\ stored = obj
        /\ stored' = [obj EXCEPT !.status = "pending"]
        /\ Goto("reread")
        /\ UNCHANGED <<obj, history>>
     \/ /\ stored # obj
        /\ Requeue
        /\ UNCHANGED <<stored, history>>
     \/ /\ Fault
        /\ Requeue
        /\ UNCHANGED stored
  /\ UNCHANGED <<cached, entry>>

\* The read newResourceTypeCondition ends with, from the cache.
Reread ==
  /\ pc = "reread"
  /\ IF cached = Nil
       THEN Requeue
       ELSE obj' = cached /\ Goto("lookup")
  /\ UNCHANGED <<stored, cached, entry, history>>

(***************************************************************************)
(* UpsertResourceType.  Any error of the lookup reads as "not there"; what *)
(* is there already is not created again.                                  *)
(***************************************************************************)
Description(o) == <<o.uid, o.gen>>

LookUp ==
  /\ pc = "lookup"
  /\ \/ /\ Goto(IF entry = Nil THEN "create" ELSE "sync")
        /\ UNCHANGED history
     \/ /\ Fault
        /\ Goto("create")
  /\ UNCHANGED <<stored, cached, entry, obj>>

\* (slip: the error of the call is not looked at)
CreateEntrySlip ==
  /\ pc = "create"
  /\ \/ entry' = Description(obj) /\ UNCHANGED history
     \/ Fault /\ UNCHANGED entry
  /\ Goto("insync")
  /\ UNCHANGED <<stored, cached, obj>>

\* The answer may be lost after the entry is written.
CreateEntry ==
  /\ pc = "create"
  /\ \/ /\ entry = Nil
        /\ entry' = Description(obj)
        /\ Goto("insync")
        /\ UNCHANGED <<obj, history>>
     \/ /\ entry # Nil
        /\ Requeue
        /\ UNCHANGED <<entry, history>>
     \/ /\ Fault
        /\ \/ UNCHANGED entry
           \/ entry = Nil /\ entry' = Description(obj)
        /\ Requeue
  /\ UNCHANGED <<stored, cached>>

\* (slip: an entry that exists is left as it is)
SyncEntrySlip ==
  /\ pc = "sync"
  /\ Goto("insync")
  /\ UNCHANGED <<stored, cached, entry, obj, history>>

SyncEntry ==
  /\ pc = "sync"
  /\ \/ /\ entry' = Description(obj)
        /\ Goto("insync")
        /\ UNCHANGED <<obj, history>>
     \/ /\ Fault
        /\ entry' \in {entry, Description(obj)}
        /\ Requeue
  /\ UNCHANGED <<stored, cached>>

\* (slip: a refused write is forgotten)
WriteInSyncSlip ==
  /\ pc = "insync"
  /\ IF cached # Nil /\ cached = stored
       THEN stored' = [cached EXCEPT !.status = "insync"]
       ELSE UNCHANGED stored
  /\ Done
  /\ UNCHANGED <<cached, entry, history>>

(***************************************************************************)
(* The status write.  The error of the Get is not looked at: the condition *)
(* of line 85 reads the variable of the last Update, so an object that is  *)
(* gone from the cache is written from the copy at hand, and a conflict is *)
(* never retried within this reconciliation.                               *)
(***************************************************************************)
Refreshed == IF cached = Nil THEN obj ELSE cached

WriteInSync ==
  /\ pc = "insync"
  /\ \/ /\ Refreshed = stored
        /\ stored' = [Refreshed EXCEPT !.status = "insync"]
        /\ Done
        /\ UNCHANGED history
     \/ /\ Refreshed # stored
        /\ Requeue
        /\ UNCHANGED <<stored, history>>
     \/ /\ Fault
        /\ Requeue
        /\ UNCHANGED stored
  /\ UNCHANGED <<cached, entry>>

Crash ==
  /\ crashes < MaxCrashes
  /\ crashes' = crashes + 1
  /\ Return
  /\ cached' = stored
  /\ pending' = (stored # Nil)
  /\ UNCHANGED <<stored, entry, born, faults>>

Reconcile ==
  Start \/ WritePending \/ Reread \/ LookUp \/ CreateEntry \/ SyncEntry \/ WriteInSync

Next == CreateType \/ EditType \/ DeleteType \/ DeliverType \/ Reconcile \/ Crash

Spec == Init /\ [][Next]_vars

\* The worker and the informer keep running.
FairSpec == Spec /\ WF_vars(Reconcile) /\ WF_vars(DeliverType)

-----------------------------------------------------------------------------
AtRest == pc = "idle" /\ ~pending /\ cached = stored

(***************************************************************************)
(* A ResourceType that says it is in sync is in Inventory, whatever        *)
(* incarnation wrote it, even when the status is written to an object that *)
(* was created again meanwhile.                                            *)
(***************************************************************************)
InSyncIsRegistered == stored # Nil /\ stored.status = "insync" => entry # Nil

\* When everything is quiet the type is in sync, with the description of its
\* current spec: no edit is lost to the status write on a newer object.
AtRestInSync ==
  AtRest /\ stored # Nil =>
    stored.status = "insync" /\ entry = Description(stored)

\* A type that stays gets in sync, though no conflict is retried.
GetsInSync ==
  <>[](stored # Nil) =>
    <>[](stored # Nil /\ stored.status = "insync" /\ entry = Description(stored))

(***************************************************************************)
(* What the ResourceWorld of the Resource controller supposes of a type    *)
(* that is not deleted: it appears, and it goes forward only.              *)
(***************************************************************************)
TypeState ==
  IF stored = Nil THEN "absent" ELSE IF stored.status = "insync" THEN "insync" ELSE "pending"

TypeGoesForward ==
  [][stored' # Nil /\ TypeState # TypeState' =>
       <<TypeState, TypeState'>> \in {<<"absent", "pending">>, <<"pending", "insync">>}]_vars

-----------------------------------------------------------------------------
(***************************************************************************)
(* Inductive forms of the above.                                           *)
(***************************************************************************)

\* Where the worker is says what it holds, and what Inventory got from it.
WorkerInv ==
  /\ pc = "pending" => obj.status = ""
  /\ pc = "insync" => entry = Description(obj)

\* Incarnations are numbered, and no copy is ahead of the object.
CopiesInv ==
  /\ \A o \in {stored, cached, obj} \ {Nil} : o.uid <= born
  /\ stored # Nil => \A o \in {cached, obj} \ {Nil} : o.uid = stored.uid => o.gen <= stored.gen

\* As long as nothing asks for another reconciliation, the one under way is
\* about the description in the cache, and the one before it has sent that and
\* said so.
InSyncInv ==
  ~pending =>
    /\ pc # "idle" => cached # Nil /\ Description(obj) = Description(cached)
    /\ pc = "idle" /\ cached # Nil =>
         /\ entry = Description(cached)
         /\ stored # Nil /\ Description(stored) = Description(cached) => stored.status = "insync"

TypeInv == TypeOK /\ WorkerInv /\ CopiesInv /\ InSyncInv /\ InSyncIsRegistered
=================================================================================
