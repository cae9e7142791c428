------------------------ MODULE ResourceGroupController ------------------------
(***************************************************************************)
(* ResourceGroupReconciler.Reconcile,                                      *)
(* internal/controller/resourcegroup_controller.go: one ResourceGroup, the *)
(* Resources it expands to, the informer's copy of both, the users who     *)
(* edit the group, and the Resource controller, of which this module knows *)
(* what NextPhases promises.                                               *)
(***************************************************************************)
EXTENDS KlaudeteApi, FiniteSets

CONSTANTS
  Entry,      \* the entries of spec.resources, and the Resources named after them
  Needs,      \* per entry, those its `resources.x.` expressions refer to
  Awaits,     \* the versions of entries that read a status of what they need,
              \* pairs <<entry, version>>; the others read the spec
  Annotated,  \* the entries with metadata.annotations
  Renamed,    \* those with an expression in their metadata.name
  Visits,     \* per entry, the phases its Resource may come through
  FirstSpecs, \* the specs a group may be created with
  MaxEdits,   \* bound: edits of the group's spec
  MaxUid,     \* bound: incarnations of the group
  MaxDeletes, \* bound: deletions of the group
  MaxFaults,  \* bound: failed calls, exhausted retries and restarts
  Nil         \* no object, no argument

\* status.status of a ResourceGroup
GroupPhases == {"", "Initializing", "InProgress", "Failed", "Ready"}

(***************************************************************************)
(* The spec of a group is a version of each of its entries, 0 for one that *)
(* is not listed; every edit raises the generation.  A Resource holds the  *)
(* version of the entry it was last written from, the value of what the    *)
(* expressions read, and the version its outputs come from (0: none yet).  *)
(***************************************************************************)
Specs == [Entry -> Nat]
Group == [uid: Nat, gen: Nat, spec: Specs, status: GroupPhases]
Expanded == [owner: Nat, version: Nat, reads: Specs, out: Nat, phase: Phases]

ASSUME GroupAssumption ==
  /\ Nil \notin Group /\ Nil \notin Expanded
  /\ Needs \in [Entry -> SUBSET Entry]
  /\ Awaits \subseteq Entry \X Nat
  /\ Annotated \subseteq Entry
  /\ Renamed \subseteq Entry
  /\ Visits \in [Entry -> SUBSET Phases]
  /\ FirstSpecs \subseteq Specs
  /\ {MaxEdits, MaxUid, MaxDeletes, MaxFaults} \subseteq Nat

VARIABLES
  group, gcache, \* the ResourceGroup, as stored and as cached
  res, rcache,   \* the Resources, as stored and as cached
  pending,       \* the group's key is in the work queue
  pc,            \* where the worker is
  obj,           \* the local variable `resourceGroup`
  args,          \* per entry, the `resources.x` of the expression arguments
  entry,         \* the candidate being processed
  edits, born, faults \* how many of each have happened

groups == <<group, gcache>>
resources == <<res, rcache>>
worker == <<pc, obj, args, entry>>
history == <<edits, born, faults>>
vars == <<groups, resources, pending, worker, history>>

TypeOK ==
  /\ {group, gcache, obj} \subseteq Group \union {Nil}
  /\ {res, rcache, args} \subseteq [Entry -> Expanded \union {Nil}]
  /\ pending \in BOOLEAN
  /\ pc \in {"idle", "initialize", "progress", "reread", "next", "apply", "failed", "ready"}
  /\ (pc = "idle") = (obj = Nil)
  /\ entry \in Entry \union {Nil}
  /\ {edits, born, faults} \subseteq Nat

NoResources == [e \in Entry |-> Nil]

Init ==
  /\ group = Nil /\ gcache = Nil
  /\ res = NoResources /\ rcache = NoResources
  /\ pending = FALSE
  /\ pc = "idle" /\ obj = Nil /\ args = NoResources /\ entry = Nil
  /\ edits = 0 /\ born = 0 /\ faults = 0

-----------------------------------------------------------------------------
(***************************************************************************)
(* The world: users, informers, the garbage collector, the Resource        *)
(* controller.                                                             *)
(***************************************************************************)
CreateGroup ==
  /\ group = Nil
  /\ born < MaxUid
  /\ born' = born + 1
  /\ \E spec \in FirstSpecs : group' = [uid |-> born + 1, gen |-> 1, spec |-> spec, status |-> ""]
  /\ UNCHANGED <<gcache, resources, pending, worker, edits, faults>>

\* An entry is changed, or taken off the list and put back later.
EditGroup ==
  /\ group # Nil
  /\ edits < MaxEdits
  /\ edits' = edits + 1
  /\ \E e \in Entry, version \in {0, edits + 3} :
       /\ version # group.spec[e]
       /\ group' = [group EXCEPT !.gen = @ + 1, !.spec[e] = version]
  /\ UNCHANGED <<gcache, resources, pending, worker, born, faults>>

DeleteGroup ==
  /\ group # Nil
  /\ born <= MaxDeletes
  /\ group' = Nil
  /\ UNCHANGED <<gcache, resources, pending, worker, history>>

\* (slip: updates are dropped altogether)
PassesSlip(old, new) == old = Nil \/ new = Nil \/ old.uid # new.uid

\* The predicate lets creations, deletions and generation changes through; the
\* controller watches ResourceGroups and nothing else.
Passes(old, new) ==
  \/ old = Nil \/ new = Nil
  \/ old.uid # new.uid
  \/ old.gen # new.gen

DeliverGroup ==
  /\ gcache # group
  /\ gcache' = group
  /\ pending' = (pending \/ Passes(gcache, group))
  /\ UNCHANGED <<group, resources, worker, history>>

DeliverResource(e) ==
  /\ rcache[e] # res[e]
  /\ rcache' = [rcache EXCEPT ![e] = res[e]]
  /\ UNCHANGED <<groups, res, pending, worker, history>>

\* The owner reference names the incarnation of the group that created e.
Owned(e) == group # Nil /\ group.uid = res[e].owner

Collect(e) ==
  /\ res[e] # Nil
  /\ ~Owned(e)
  /\ res' = [res EXCEPT ![e] = Nil]
  /\ UNCHANGED <<groups, rcache, pending, worker, history>>

Failures == {"Failed", "ProvisioningFailed"}

\* The Resource controller moves e on, until it is Ready with the outputs of
\* its current spec.
Work(e) ==
  /\ res[e] # Nil
  /\ res[e].phase = "Ready" => res[e].out # res[e].version
  /\ \E phase \in NextPhases(res[e].phase) \intersect Visits[e] :
       res' = [res EXCEPT ![e].phase = phase,
                          ![e].out = IF phase = "Ready" THEN res[e].version ELSE @]
  /\ UNCHANGED <<groups, rcache, pending, worker, history>>

-----------------------------------------------------------------------------
(***************************************************************************)
(* The worker.                                                             *)
(***************************************************************************)
Return == pc' = "idle" /\ obj' = Nil /\ args' = NoResources /\ entry' = Nil

Done == Return /\ UNCHANGED pending
Requeue == Return /\ pending' = TRUE

Goto(label) == pc' = label /\ UNCHANGED pending

Fault == faults < MaxFaults /\ faults' = faults + 1 /\ UNCHANGED <<edits, born>>

\* (slip: only a new group is marked as in progress)
StartGroupSlip ==
  /\ pc = "idle"
  /\ pending
  /\ pending' = FALSE
  /\ IF gcache = Nil
       THEN UNCHANGED worker
       ELSE /\ pc' = IF gcache.status = "" THEN "initialize" ELSE "reread"
            /\ obj' = gcache
            /\ UNCHANGED <<args, entry>>
  /\ UNCHANGED <<groups, resources, history>>

\* The worker takes the key; a group that is gone is not reconciled.
StartGroup ==
  /\ pc = "idle"
  /\ pending
  /\ pending' = FALSE
  /\ IF gcache = Nil
       THEN UNCHANGED worker
       ELSE /\ pc' = IF gcache.status = "" THEN "initialize" ELSE "progress"
            /\ obj' = gcache
            /\ UNCHANGED <<args, entry>>
  /\ UNCHANGED <<groups, resources, history>>

\* (slip: the phase of a Resource is written for that of a group)
InitializeSlip ==
  /\ pc = "initialize"
  /\ \/ /\ group = obj
        /\ group' = [obj EXCEPT !.status = "Pending"]
        /\ Goto("progress")
        /\ UNCHANGED <<obj, args, entry>>
     \/ /\ group # obj
        /\ Requeue
        /\ UNCHANGED group
  /\ UNCHANGED <<gcache, resources, history>>

\* The first status write, from the local copy; a conflict is returned.
Initialize ==
  /\ pc = "initialize"
  /\ \/ /\ group = obj
        /\ group' = [obj EXCEPT !.status = "Initializing"]
        /\ Goto("progress")
        /\ UNCHANGED <<obj, args, entry>>
     \/ /\ group # obj
        /\ Requeue
        /\ UNCHANGED group
  /\ UNCHANGED <<gcache, resources, history>>

\* retry.RetryOnConflict over {Get; set status; Status().Update}: only the try
\* on a current cache lands; every one may meet a conflict, or no answer.
WriteStatus(status) == group' = [gcache EXCEPT !.status = status]

RetryLands == gcache # Nil /\ gcache = group

RetryFails ==
  /\ \/ (gcache = Nil \/ group = Nil) /\ UNCHANGED history
     \/ gcache # Nil /\ Fault
  /\ Requeue
  /\ UNCHANGED <<groups, resources>>

\* The reconciliation goes on with what the cache holds after the write.
Progress ==
  /\ pc = "progress"
  /\ \/ /\ RetryLands
        /\ WriteStatus("InProgress")
        /\ Goto("reread")
        /\ UNCHANGED <<gcache, obj, args, entry, resources, history>>
     \/ RetryFails

Reread ==
  /\ pc = "reread"
  /\ IF gcache = Nil
       THEN Requeue
       ELSE obj' = gcache /\ Goto("next") /\ UNCHANGED <<args, entry>>
  /\ UNCHANGED <<groups, resources, history>>

-----------------------------------------------------------------------------
(***************************************************************************)
(* dag.Sort: the listed entries in an order that puts each after those it  *)
(* needs.  There is none when a needed one is not listed or needs it back. *)
(***************************************************************************)
Listed == {e \in Entry : obj.spec[e] # 0}

Sortable ==
  /\ \A e \in Listed : Needs[e] \subseteq Listed
  /\ \A S \in SUBSET Listed : S # {} => \E e \in S : Needs[e] \intersect S = {}

Processed == {e \in Entry : args[e] # Nil}

Candidates == {e \in Listed \ Processed : Needs[e] \subseteq Processed}

(***************************************************************************)
(* What the phase of a Resource that exists says: wait, give up, or go     *)
(* ahead.  The Resource is looked for under the name before its expansion, *)
(* so one that is renamed by an expression is never found here.            *)
(***************************************************************************)
Found(e) == e \notin Renamed /\ rcache[e] # Nil

Verdict(e) ==
  CASE Found(e) /\ rcache[e].phase \in {"Pending", "ProvisioningInProgress"} -> "wait"
    [] Found(e) /\ rcache[e].phase \in Failures -> "failed"
    [] OTHER -> "apply"

\* The next candidate is looked up.
Check ==
  /\ pc = "next"
  /\ Sortable
  /\ \E e \in Candidates :
       \/ /\ Verdict(e) = "wait"
          /\ Requeue
       \/ /\ Verdict(e) # "wait"
          /\ Goto(Verdict(e))
          /\ entry' = e
          /\ UNCHANGED <<obj, args>>
  /\ UNCHANGED <<groups, resources, history>>

SortFails ==
  /\ pc = "next"
  /\ ~Sortable
  /\ Requeue
  /\ UNCHANGED <<groups, resources, history>>

AllProcessed ==
  /\ pc = "next"
  /\ Sortable
  /\ Candidates = {}
  /\ Goto("ready")
  /\ UNCHANGED <<groups, resources, obj, args, entry, history>>

(***************************************************************************)
(* The properties are evaluated: what an entry needs is read from the      *)
(* objects newOrUpdateResource returned, a spec always, a status when      *)
(* there is one; an expression over a missing status is an error.          *)
(***************************************************************************)
ReadsStatus(e) == <<e, obj.spec[e]>> \in Awaits

\* (slip: a missing status is a zero)
EvaluatesSlip(e) == TRUE

Evaluates(e) == ReadsStatus(e) => \A d \in Needs[e] : args[d].out # 0

\* (slip: what is needed is read from the cache)
ReadsSlip(e) ==
  [d \in Entry |-> IF d \notin Needs[e] \/ rcache[d] = Nil THEN 0
                   ELSE IF ReadsStatus(e) THEN rcache[d].out ELSE rcache[d].version]

Reads(e) ==
  [d \in Entry |-> IF d \notin Needs[e] THEN 0
                   ELSE IF ReadsStatus(e) THEN args[d].out ELSE args[d].version]

\* Create leaves the annotations out.
CreateResource(e) ==
  /\ rcache[e] = Nil
  /\ res[e] = Nil
  /\ res' = [res EXCEPT ![e] = [owner |-> obj.uid, version |-> obj.spec[e],
                                reads |-> Reads(e), out |-> 0, phase |-> ""]]

\* (slip: a Resource that exists is left as it is)
UpdateResourceSlip(e) ==
  /\ rcache[e] # Nil
  /\ rcache[e] = res[e]
  /\ UNCHANGED res

\* Update needs a current copy.  Its first statements insert the labels and
\* the annotations into the maps the object has; there is no annotations map.
UpdateResource(e) ==
  /\ rcache[e] # Nil
  /\ e \notin Annotated
  /\ rcache[e] = res[e]
  /\ res' = [res EXCEPT ![e].version = obj.spec[e], ![e].reads = Reads(e)]

\* AlreadyExists, a conflict, NotFound, or the recovered panic of a nil map.
Refused(e) ==
  \/ rcache[e] = Nil /\ res[e] # Nil
  \/ rcache[e] # Nil /\ rcache[e] # res[e]
  \/ rcache[e] # Nil /\ e \in Annotated

Apply ==
  /\ pc = "apply"
  /\ \/ /\ Evaluates(entry)
        /\ CreateResource(entry) \/ UpdateResource(entry)
        /\ args' = [args EXCEPT ![entry] = res'[entry]]
        /\ entry' = Nil
        /\ Goto("next")
        /\ UNCHANGED <<obj, history>>
     \/ /\ ~Evaluates(entry) \/ Refused(entry)
        /\ Requeue
        /\ UNCHANGED <<res, history>>
     \/ /\ Fault
        /\ Requeue
        /\ UNCHANGED res
  /\ UNCHANGED <<groups, rcache>>

\* (slip: a status write that never lands is taken for one that did)
FinishSlip(label, status) ==
  /\ pc = label
  /\ \/ RetryLands /\ WriteStatus(status)
     \/ ~RetryLands /\ UNCHANGED group
  /\ Done
  /\ UNCHANGED <<gcache, resources, history>>

\* The last write; nothing wakes the group afterwards but a change of its spec.
Finish(label, status) ==
  /\ pc = label
  /\ \/ /\ RetryLands
        /\ WriteStatus(status)
        /\ Done
        /\ UNCHANGED <<gcache, resources, history>>
     \/ RetryFails

WriteFailed == Finish("failed", "Failed")
WriteReady == Finish("ready", "Ready")

Crash ==
  /\ Fault
  /\ Return
  /\ gcache' = group /\ rcache' = res
  /\ pending' = (group # Nil)
  /\ UNCHANGED <<group, res>>

-----------------------------------------------------------------------------
Reconcile ==
  \/ StartGroup \/ Initialize \/ Progress \/ Reread \/ Check \/ SortFails \/ AllProcessed
  \/ Apply \/ WriteFailed \/ WriteReady

World ==
  \/ CreateGroup \/ EditGroup \/ DeleteGroup \/ DeliverGroup
  \/ \E e \in Entry : DeliverResource(e) \/ Collect(e) \/ Work(e)

Next == World \/ Reconcile \/ Crash

Spec == Init /\ [][Next]_vars

\* The worker, the informers, the garbage collector and the Resource controller
\* keep running.
Fairness ==
  /\ WF_vars(Reconcile)
  /\ WF_vars(DeliverGroup)
  /\ \A e \in Entry : WF_vars(DeliverResource(e)) /\ WF_vars(Collect(e)) /\ WF_vars(Work(e))

FairSpec == Spec /\ Fairness
==============================================================================
