------------------------- MODULE ResourceController -------------------------
(***************************************************************************)
(* ResourceReconciler.Reconcile, internal/controller/resource_controller.go*)
(*                                                                         *)
(* One worker runs Reconcile for one key at a time (the default            *)
(* MaxConcurrentReconciles of controller-runtime).  A step of the worker   *)
(* ends wherever another party can act and be noticed: at every write, at  *)
(* every remote call and at every cached re-read.                          *)
(***************************************************************************)
EXTENDS ResourceWorld

(***************************************************************************)
(* How a Reconcile ends: without an entry in the queue, or with one        *)
(* (RequeueAfter, and a returned error, which is requeued with a backoff). *)
(***************************************************************************)
Return ==
  /\ pc' = "idle" /\ key' = Nil
  /\ obj' = Nil /\ props' = 0 /\ link' = 0 /\ outcome' = "none"

Done == Return /\ UNCHANGED queue
Requeue == Return /\ queue' = queue \union {key}

Goto(label) == pc' = label /\ UNCHANGED <<key, queue>>

\* A remote call or a whole retry loop fails; the bound says how often.
Fault == faults < MaxFaults /\ faults' = faults + 1 /\ UNCHANGED crashes

(***************************************************************************)
(* client.Status().Update of a local copy: the API server takes the status *)
(* of a copy that still has the stored resourceVersion and refuses any     *)
(* other.  Values stand for resourceVersions.                              *)
(***************************************************************************)
IsCurrent(copy) == store[key] = copy
Write(o) == store' = [store EXCEPT ![key] = o] /\ UNCHANGED <<cache, born>>

\* (slip: the write does not check the version it was made from)
RetryLandsSlip == cache[key] # Nil /\ store[key] # Nil

(***************************************************************************)
(* retry.RetryOnConflict over {Get; change; Status().Update}.  The change  *)
(* is applied to what the Get finds in the cache and lands when the cache  *)
(* is current; a try on a stale cache is refused and changes nothing, so   *)
(* only the try that lands is a step.                                      *)
(***************************************************************************)
RetryLands == cache[key] # Nil /\ IsCurrent(cache[key])

\* The Get or the Update answers NotFound: the error is no conflict, and the
\* caller asks to be requeued.
RetryFindsNothing ==
  /\ cache[key] = Nil \/ store[key] = Nil
  /\ Requeue
  /\ UNCHANGED <<cluster, remote, rtype, budget>>

\* (slip: the error is logged and the key dropped)
RetryExhaustedSlip ==
  /\ cache[key] # Nil
  /\ Fault
  /\ Done
  /\ UNCHANGED <<cluster, remote, rtype>>

\* Every try of the backoff met a conflict, or one met another error.
RetryExhausted ==
  /\ cache[key] # Nil
  /\ Fault
  /\ Requeue
  /\ UNCHANGED <<cluster, remote, rtype>>

RetryFails == RetryFindsNothing \/ RetryExhausted

\* The cached Get newResourceCondition ends with; its object replaces `resource`.
Reread(label) ==
  \/ /\ cache[key] # Nil
     /\ obj' = cache[key]
     /\ Goto(label)
     /\ UNCHANGED <<props, link, outcome>>
  \/ /\ cache[key] = Nil
     /\ Requeue

\* newResourceCondition on the local copy: lands, or the caller is requeued.
WriteCopy(o) ==
  \/ IsCurrent(obj) /\ Write(o)
  \/ ~IsCurrent(obj) /\ UNCHANGED cluster

-----------------------------------------------------------------------------
\* (slip: every Resource that is not Ready starts over)
StartSlip(r) ==
  /\ pc = "idle"
  /\ r \in queue
  /\ queue' = queue \ {r}
  /\ IF cache[r] = Nil
       THEN UNCHANGED worker
       ELSE /\ key' = r
            /\ obj' = cache[r]
            /\ pc' = IF cache[r].phase # "Ready" THEN "pending" ELSE "type"
            /\ UNCHANGED <<props, link, outcome>>
  /\ UNCHANGED <<cluster, remote, rtype, budget>>

(***************************************************************************)
(* The worker takes a key.  The object is read from the cache; an object   *)
(* that is gone ends the Reconcile before it starts.                       *)
(***************************************************************************)
Start(r) ==
  /\ pc = "idle"
  /\ r \in queue
  /\ queue' = queue \ {r}
  /\ IF cache[r] = Nil
       THEN UNCHANGED worker
       ELSE /\ key' = r
            /\ obj' = cache[r]
            /\ pc' = IF cache[r].phase = "" THEN "pending" ELSE "type"
            /\ UNCHANGED <<props, link, outcome>>
  /\ UNCHANGED <<cluster, remote, rtype, budget>>

\* The first status write of a new Resource, from the local copy.
WritePending ==
  /\ pc = "pending"
  /\ WriteCopy([obj EXCEPT !.phase = "Pending"])
  /\ IF IsCurrent(obj)
       THEN Goto("pendingRead") /\ UNCHANGED locals
       ELSE Requeue
  /\ UNCHANGED <<remote, rtype, budget>>

ReadPending ==
  /\ pc = "pendingRead"
  /\ Reread("type")
  /\ UNCHANGED <<cluster, remote, rtype, budget>>

\* (slip: a type that is not in sync yet ends the Reconcile for good)
CheckTypeSlip ==
  /\ pc = "type"
  /\ \/ /\ rtype # "insync"
        /\ Done
        /\ UNCHANGED budget
     \/ /\ rtype = "insync"
        /\ props' = obj.gen
        /\ Goto("register")
        /\ UNCHANGED <<obj, link, outcome, budget>>
  /\ UNCHANGED <<cluster, remote, rtype>>

(***************************************************************************)
(* The ResourceType must be found and in sync.  Both lookups of it may     *)
(* fail; the one in Inventory returns the error, any error of the first    *)
(* reads as "not found".  The properties to register are taken here.       *)
(***************************************************************************)
CheckType ==
  /\ pc = "type"
  /\ \/ /\ rtype = "absent"
        /\ Goto("typeFailed")
        /\ UNCHANGED <<locals, budget>>
     \/ /\ rtype = "pending"
        /\ Requeue
        /\ UNCHANGED budget
     \/ /\ rtype = "insync"
        /\ props' = obj.gen
        /\ Goto("register")
        /\ UNCHANGED <<obj, link, outcome, budget>>
     \/ /\ rtype = "insync"
        /\ Fault
        /\ Requeue
  /\ UNCHANGED <<cluster, remote, rtype>>

\* Phase Failed, from the local copy; the Resource is then left alone.
FailSpec(label) ==
  /\ pc = label
  /\ WriteCopy([obj EXCEPT !.phase = "Failed"])
  /\ IF IsCurrent(obj) THEN Done ELSE Requeue
  /\ UNCHANGED <<remote, rtype, budget>>

WriteTypeFailed == FailSpec("typeFailed")

-----------------------------------------------------------------------------
(***************************************************************************)
(* Inventory.  CreateResource when the status has no inventory record,     *)
(* UpdateResource when it has one: the latter looks the nurn up and        *)
(* replaces the whole property map, so the outputs an earlier patch added  *)
(* are gone until the next patch.                                          *)
(***************************************************************************)
Enter(outputs) ==
  inventory' = [inventory EXCEPT ![key] = [gen |-> props, outputs |-> outputs]]

\* (slip: the record is written whether or not the call was answered)
CreateInInventorySlip ==
  /\ obj.inv = "none"
  /\ Enter(FALSE) \/ UNCHANGED inventory
  /\ Goto("record")
  /\ UNCHANGED locals

CreateInInventory ==
  /\ obj.inv = "none"
  /\ inventory[key] = Nil \/ "accepted" \in Duplicates
  /\ Enter(FALSE)
  /\ Goto("record")
  /\ UNCHANGED locals

\* (slip: what is registered is taken to be connected)
UpdateInInventorySlip ==
  /\ HasNurn(obj)
  /\ inventory[key] # Nil
  /\ Enter(FALSE)
  /\ link' = Len(Links[key]) + 1
  /\ Goto("connect")
  /\ UNCHANGED <<obj, props, outcome>>

UpdateInInventory ==
  /\ HasNurn(obj)
  /\ inventory[key] # Nil
  /\ Enter(FALSE)
  /\ link' = 1
  /\ Goto("connect")
  /\ UNCHANGED <<obj, props, outcome>>

\* A known nurn may be refused, an unknown or empty one is not found.
InventoryRefuses ==
  /\ \/ obj.inv = "none" /\ inventory[key] # Nil /\ "refused" \in Duplicates
     \/ HasNurn(obj) /\ inventory[key] = Nil
     \/ obj.inv = "props"
  /\ Requeue
  /\ UNCHANGED inventory

Register ==
  /\ pc = "register"
  /\ \/ (CreateInInventory \/ UpdateInInventory \/ InventoryRefuses) /\ UNCHANGED budget
     \/ Fault /\ Requeue /\ UNCHANGED inventory
  /\ UNCHANGED <<cluster, edges, managed, rtype>>

\* The {id, nurn} pair goes to the status, whatever was there.
Recorded(o) == [o EXCEPT !.inv = "nurn"]

Record ==
  /\ pc = "record"
  /\ \/ /\ RetryLands
        /\ Write(Recorded(cache[key]))
        /\ obj' = Recorded(cache[key])
        /\ link' = 1
        /\ Goto("connect")
        /\ UNCHANGED <<props, outcome, remote, rtype, budget>>
     \/ RetryFails

(***************************************************************************)
(* One connection at a time.  A target given by reference must carry an    *)
(* inventory record in the cache; Inventory must then know both nurns.     *)
(***************************************************************************)
Target == Links[key][link]

\* (slip: a target is waited for until it is Ready)
TargetNurnKnownSlip ==
  \/ Target.by = "nurn"
  \/ /\ Target.by = "ref" /\ cache[Target.to] # Nil
     /\ cache[Target.to].phase = "Ready" /\ HasNurn(cache[Target.to])

TargetNurnKnown ==
  \/ Target.by = "nurn"
  \/ Target.by = "ref" /\ cache[Target.to] # Nil /\ HasNurn(cache[Target.to])

\* (slip: Inventory is trusted to know the target of a reference)
ConnectedSlip == inventory[key] # Nil

Connected ==
  /\ TargetNurnKnown
  /\ inventory[key] # Nil
  /\ inventory[Target.to] # Nil

\* (slip: a target that is not there yet is passed over)
ConnectSlip ==
  /\ pc = "connect"
  /\ link <= Len(Links[key])
  /\ Target.by # "nothing"
  /\ edges' = IF Connected THEN edges \union {<<key, Target.to>>} ELSE edges
  /\ link' = link + 1
  /\ UNCHANGED <<pc, key, obj, props, outcome, queue, budget>>
  /\ UNCHANGED <<cluster, inventory, managed, rtype>>

Connect ==
  /\ pc = "connect"
  /\ link <= Len(Links[key])
  /\ \/ /\ Target.by = "nothing"
        /\ Goto("invalid")
        /\ UNCHANGED <<locals, edges, budget>>
     \/ /\ Target.by # "nothing"
        /\ Connected
        /\ edges' = edges \union {<<key, Target.to>>}
        /\ link' = link + 1
        /\ UNCHANGED <<pc, key, obj, props, outcome, queue, budget>>
     \/ /\ Target.by # "nothing"
        /\ ~Connected
        /\ Requeue
        /\ UNCHANGED <<edges, budget>>
     \/ /\ Target.by # "nothing"
        /\ Fault
        /\ Requeue
        /\ UNCHANGED edges
  /\ UNCHANGED <<cluster, inventory, managed, rtype>>

AllConnected ==
  /\ pc = "connect"
  /\ link > Len(Links[key])
  /\ Goto(IF key \in Provisioned THEN "begin" ELSE "ready")
  /\ UNCHANGED <<cluster, locals, remote, rtype, budget>>

WriteInvalid == FailSpec("invalid")

-----------------------------------------------------------------------------
(***************************************************************************)
(* Provisioning.  The phase is written first; `resource` is then the       *)
(* cached re-read, which may be the object before that write.              *)
(***************************************************************************)
Begin ==
  /\ pc = "begin"
  /\ \/ /\ RetryLands
        /\ Write([cache[key] EXCEPT !.phase = "ProvisioningInProgress"])
        /\ Goto("beginRead")
        /\ UNCHANGED <<locals, remote, rtype, budget>>
     \/ RetryFails

ReadBegin ==
  /\ pc = "beginRead"
  /\ Reread("apply")
  /\ UNCHANGED <<cluster, remote, rtype, budget>>

(***************************************************************************)
(* Provisioner.Run over one managed object: get, then create with an owner *)
(* reference, or update the spec and nothing else.  The object's own       *)
(* controller may or may not have withdrawn its old verdict by the time    *)
(* the object is read back.                                                *)
(***************************************************************************)
Created == [owner |-> obj.uid, gen |-> obj.gen, state |-> "progressing"]

\* (slip: an object that exists is left as it is)
UpdatedSlip(state) == managed[key]

Updated(state) == [managed[key] EXCEPT !.gen = obj.gen, !.state = state]

Verdicts == IF managed[key].gen = obj.gen THEN {managed[key].state}
                                          ELSE {managed[key].state, "progressing"}

Apply ==
  /\ pc = "apply"
  /\ \/ /\ managed[key] = Nil
        /\ managed' = [managed EXCEPT ![key] = Created]
        /\ Goto("observe")
        /\ UNCHANGED <<locals, budget>>
     \/ /\ managed[key] # Nil
        /\ \E s \in Verdicts : managed' = [managed EXCEPT ![key] = Updated(s)]
        /\ Goto("observe")
        /\ UNCHANGED <<locals, budget>>
     \/ /\ Fault
        /\ Goto("runFailed")
        /\ UNCHANGED <<locals, managed>>
  /\ UNCHANGED <<cluster, inventory, edges, rtype>>

\* FailedWhen decides first, then ReadyWhen; an object that is gone is an error.
OutcomeOf(state) ==
  CASE state = "failed" -> "Failed"
    [] state = "ready"  -> "Success"
    [] OTHER            -> "Running"

Observe ==
  /\ pc = "observe"
  /\ \/ /\ managed[key] # Nil
        /\ outcome' = OutcomeOf(managed[key].state)
        /\ Goto("outcome")
        /\ UNCHANGED <<obj, props, link, budget>>
     \/ /\ managed[key] = Nil
        /\ Goto("runFailed")
        /\ UNCHANGED <<locals, budget>>
     \/ /\ Fault
        /\ Goto("runFailed")
        /\ UNCHANGED locals
  /\ UNCHANGED <<cluster, remote, rtype>>

\* The write's own error is dropped: Run's error requeues the key either way.
WriteRunFailed ==
  /\ pc = "runFailed"
  /\ WriteCopy([obj EXCEPT !.phase = "ProvisioningFailed"])
  /\ Requeue
  /\ UNCHANGED <<remote, rtype, budget>>

\* (slip: a provisioner state is converted to a phase as it is)
PhaseOfSlip(state) == IF state = "Success" THEN "Ready" ELSE state

\* statusToCondition
PhaseOf(state) ==
  CASE state = "Success" -> "Ready"
    [] state = "Failed"  -> "ProvisioningFailed"
    [] OTHER             -> "ProvisioningInProgress"

RecordOutcome ==
  /\ pc = "outcome"
  /\ \/ /\ RetryLands
        /\ Write([cache[key] EXCEPT !.phase = PhaseOf(outcome), !.at = outcome])
        /\ Goto("outcomeRead")
        /\ UNCHANGED <<locals, remote, rtype, budget>>
     \/ RetryFails

\* (slip: a running provisioner does not stop the Reconcile)
ReadOutcomeSlip ==
  /\ pc = "outcomeRead"
  /\ Reread(IF key \in Patched THEN "patch" ELSE "ready")
  /\ UNCHANGED <<cluster, remote, rtype, budget>>

\* Only a running provisioner stops here; a failed one goes on to the patches.
ReadOutcome ==
  /\ pc = "outcomeRead"
  /\ IF outcome = "Running"
       THEN Requeue
       ELSE Reread(IF key \in Patched THEN "patch" ELSE "ready")
  /\ UNCHANGED <<cluster, remote, rtype, budget>>

-----------------------------------------------------------------------------
\* (slip: the patched path is built on an empty record)
PatchedRefSlip == "props"

(***************************************************************************)
(* Patches.  The new status is computed from the local copy, and replaces  *)
(* the stored one.  A failed object may lack what a patch expression reads.*)
(***************************************************************************)
PatchedRef == IF HasNurn(obj) THEN "nurn+props" ELSE "props"

PatchStatus(o) == [o EXCEPT !.phase = obj.phase, !.inv = PatchedRef, !.at = obj.at]

Patch ==
  /\ pc = "patch"
  /\ \/ /\ RetryLands
        /\ Write(PatchStatus(cache[key]))
        /\ obj' = PatchStatus(cache[key])
        /\ Goto("sync")
        /\ UNCHANGED <<props, link, outcome, remote, rtype, budget>>
     \/ /\ outcome = "Failed"
        /\ Requeue
        /\ UNCHANGED <<cluster, remote, rtype, budget>>
     \/ RetryFails

\* The patched properties go to Inventory beside those taken at the start.
Sync ==
  /\ pc = "sync"
  /\ \/ /\ inventory[key] # Nil
        /\ Enter(TRUE)
        /\ Goto("ready")
        /\ UNCHANGED <<locals, budget>>
     \/ /\ Fault
        /\ Requeue
        /\ UNCHANGED inventory
  /\ UNCHANGED <<cluster, edges, managed, rtype>>

WriteReady ==
  /\ pc = "ready"
  /\ \/ /\ RetryLands
        /\ Write([cache[key] EXCEPT !.phase = "Ready"])
        /\ Done
        /\ UNCHANGED <<remote, rtype, budget>>
     \/ RetryFails

-----------------------------------------------------------------------------
\* The manager restarts: nothing is persisted, and the first list of the
\* informer enqueues every object.
Crash ==
  /\ crashes < MaxCrashes
  /\ crashes' = crashes + 1
  /\ Return
  /\ cache' = store
  /\ queue' = {r \in Resource : store[r] # Nil}
  /\ UNCHANGED <<store, born, remote, rtype, faults>>

Reconcile ==
  \/ WritePending \/ ReadPending \/ CheckType \/ WriteTypeFailed
  \/ Register \/ Record \/ Connect \/ AllConnected \/ WriteInvalid
  \/ Begin \/ ReadBegin \/ Apply \/ Observe \/ WriteRunFailed
  \/ RecordOutcome \/ ReadOutcome \/ Patch \/ Sync \/ WriteReady

Next == World \/ (\E r \in Resource : Start(r)) \/ Reconcile \/ Crash

Spec == Init /\ [][Next]_vars

(***************************************************************************)
(* The worker loop, the informer, the managed objects' controllers, the    *)
(* garbage collector and the ResourceType controller keep running; the     *)
(* work queue is first in, first out, so a key in it is taken in its turn  *)
(* although others keep coming back.  Nobody has to create, edit or delete *)
(* anything, and nothing has to fail: a failing call is a choice inside    *)
(* the worker's step that only the bounds limit.                           *)
(***************************************************************************)
Fairness ==
  /\ WF_vars(Reconcile)
  /\ WF_vars(MoveType)
  /\ \A r \in Resource :
       /\ SF_vars(Start(r))
       /\ WF_vars(Deliver(r))
       /\ WF_vars(Settle(r))
       /\ WF_vars(Collect(r))

FairSpec == Spec /\ Fairness
=============================================================================
