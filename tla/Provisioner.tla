----------------------------- MODULE Provisioner -----------------------------
(***************************************************************************)
(* Provisioner.Run and ManagedResourceProvisioner.Apply                    *)
(* (internal/provisioning), over the objects a Resource lists in its       *)
(* spec.provisioner, which may refer to one another.  The runs follow one  *)
(* another as ResourceReconciler.Reconcile repeats them; the objects       *)
(* belong to controllers of their own.  ResourceController models what     *)
(* Reconcile makes of the answer, and its single managed object.           *)
(***************************************************************************)
EXTENDS Dependencies

CONSTANTS
  Template,    \* per version of the spec, the listed objects and their expressions
  HasSpec,     \* the objects with a spec field; the others keep data elsewhere
  Judged,      \* those with failedWhen and readyWhen expressions
  CanFail,     \* whether an object may reach its failedWhen
  MaxVersion,  \* bound: versions of the spec
  MaxRemovals, \* bound: objects deleted by others
  MaxFaults,   \* bound: failed calls and exhausted retries
  MaxCrashes,  \* bound: restarts of the controller
  Nil          \* no object

Versions == 1..MaxVersion
Listed(v) == DOMAIN Template[v]

(***************************************************************************)
(* A managed object: the version of the spec it was written from, the      *)
(* values its expressions had (a part of an object and the version of that *)
(* part), the version its own controller has reported on (0: no status     *)
(* yet), and what the report says.                                         *)
(***************************************************************************)
Verdicts == {"progressing", "ready", "failed"}
Reading == [name: Name, part: {"spec", "status"}, value: Nat]
Managed == [version: Versions, reads: SUBSET Reading, out: Nat, verdict: Verdicts]

ASSUME ProvisionerAssumption ==
  /\ Nil \notin Managed
  /\ MaxVersion \in Nat \ {0}
  /\ \A v \in Versions :
       /\ Listed(v) \subseteq Name /\ IsFiniteSet(Listed(v))
       /\ \A n \in Listed(v) : \A e \in Template[v][n] : e \in Expressions
  /\ HasSpec \subseteq Name
  /\ Judged \subseteq HasSpec
  /\ CanFail \in BOOLEAN
  /\ {MaxRemovals, MaxFaults, MaxCrashes} \subseteq Nat

VARIABLES
  spec, cached,  \* the version of the Resource's spec, as stored and as cached
  live,          \* the objects, as the API server holds them
  pending,       \* the key of the Resource is in the work queue
  pc,            \* where the worker is
  copy,          \* the version the run is about
  order, index,  \* resourceProvisionerObjects, and the position in it
  args,          \* the objects in the expression arguments
  state,         \* the local variable of that name
  answer,        \* the state the last run returned, "none" after an error
  removals, faults, crashes \* how many of each have happened

resource == <<spec, cached>>
run == <<copy, order, index, args, state>>
budget == <<removals, faults, crashes>>
vars == <<resource, live, pending, pc, run, answer, budget>>

NoObjects == [n \in Name |-> Nil]

TypeOK ==
  /\ {spec, cached} \subseteq Versions
  /\ {live, args} \subseteq [Name -> Managed \union {Nil}]
  /\ pending \in BOOLEAN
  /\ pc \in {"idle", "object", "create", "update", "refresh"}
  /\ IF pc = "idle" THEN copy = 0 /\ order = << >> /\ args = NoObjects
                    ELSE copy \in Versions /\ order \in Enumerations(Listed(copy))
  /\ index \in 1..Len(order) + 1
  /\ pc \in {"create", "update", "refresh"} => index <= Len(order)
  /\ state \in {"Success", "Running"}
  /\ answer \in {"none", "Success", "Running", "Failed"}
  /\ {removals, faults, crashes} \subseteq Nat

Init ==
  /\ spec = 1 /\ cached = 1
  /\ live = NoObjects
  /\ pending = TRUE
  /\ pc = "idle"
  /\ copy = 0 /\ order = << >> /\ index = 1 /\ args = NoObjects /\ state = "Success"
  /\ answer = "none"
  /\ removals = 0 /\ faults = 0 /\ crashes = 0

-----------------------------------------------------------------------------
(***************************************************************************)
(* The world: users, the informer, whoever deletes an object, and the      *)
(* objects' own controllers.  Only a change of the spec wakes the worker.  *)
(***************************************************************************)
Edit ==
  /\ spec + 1 \in Versions
  /\ spec' = spec + 1
  /\ UNCHANGED <<cached, live, pending, pc, run, answer, budget>>

Deliver ==
  /\ cached # spec
  /\ cached' = spec
  /\ pending' = TRUE
  /\ UNCHANGED <<spec, live, pc, run, answer, budget>>

Remove(n) ==
  /\ live[n] # Nil
  /\ removals < MaxRemovals
  /\ removals' = removals + 1
  /\ live' = [live EXCEPT ![n] = Nil]
  /\ UNCHANGED <<resource, pending, pc, run, answer, faults, crashes>>

\* A report on an earlier version may be withdrawn before there is a new one.
Withdraw(n) ==
  /\ live[n] # Nil
  /\ n \in HasSpec
  /\ live[n].out # live[n].version
  /\ live[n].verdict # "progressing"
  /\ live' = [live EXCEPT ![n].verdict = "progressing"]
  /\ UNCHANGED <<resource, pending, pc, run, answer, budget>>

Report(n) ==
  /\ live[n] # Nil
  /\ n \in HasSpec
  /\ live[n].out # live[n].version
  /\ \E verdict \in {"ready"} \union (IF CanFail THEN {"failed"} ELSE {}) :
       live' = [live EXCEPT ![n].out = live[n].version, ![n].verdict = verdict]
  /\ UNCHANGED <<resource, pending, pc, run, answer, budget>>

-----------------------------------------------------------------------------
(***************************************************************************)
(* How a run ends: with an error or in state Running, after which          *)
(* Reconcile asks to be repeated, or in Success or Failed, after which it  *)
(* does not.                                                               *)
(***************************************************************************)
\* (slip: the arguments are kept for the next run)
ReturnSlip(s) ==
  /\ pc' = "idle"
  /\ copy' = 0 /\ order' = << >> /\ index' = 1 /\ state' = "Success"
  /\ answer' = s
  /\ UNCHANGED args

Return(s) ==
  /\ pc' = "idle"
  /\ copy' = 0 /\ order' = << >> /\ index' = 1 /\ args' = NoObjects /\ state' = "Success"
  /\ answer' = s

\* (slip: the run is not repeated)
ErrorSlip == Return("none") /\ UNCHANGED pending

Error == Return("none") /\ pending' = TRUE

Fault == faults < MaxFaults /\ faults' = faults + 1 /\ UNCHANGED <<removals, crashes>>

Goto(label) == pc' = label /\ UNCHANGED <<pending, run, answer>>

\* The element of each listed object: no options, its ref and nothing else.
Needs(v) == [n \in Listed(v) |-> ElementDependencies(Template[v][n])]

Sorted(v) == Sort(Listed(v), Needs(v))

\* The worker takes the key and puts the objects in order.
Start ==
  /\ pc = "idle"
  /\ pending
  /\ \/ /\ order' \in Sorted(cached)
        /\ pending' = FALSE
        /\ pc' = "object"
        /\ copy' = cached
        /\ answer' = "none"
        /\ UNCHANGED <<index, args, state>>
     \/ /\ Sorted(cached) = {}
        /\ Error
  /\ UNCHANGED <<resource, live, budget>>

Current == order[index]

(***************************************************************************)
(* An expression evaluates when the objects it reads are in the arguments, *)
(* which start with the Resource alone and grow by the objects of this     *)
(* run, and have the part it reads.  There is never a `generator`.         *)
(***************************************************************************)
ReferencesOf(n) == ReferencesIn(Template[copy][n])

Evaluates(r) ==
  /\ r.root = "resources"
  /\ args[r.name] # Nil
  /\ r.part = "status" => args[r.name].out # 0

ReadingOf(r) ==
  [name |-> r.name, part |-> r.part,
   value |-> IF r.part = "status" THEN args[r.name].out ELSE args[r.name].version]

Rendered(n) == {ReadingOf(r) : r \in ReferencesOf(n)}

\* The next object is evaluated and looked up.
Evaluate ==
  /\ pc = "object"
  /\ index <= Len(order)
  /\ \/ /\ \A r \in ReferencesOf(Current) : Evaluates(r)
        /\ Goto(IF live[Current] = Nil THEN "create" ELSE "update")
        /\ UNCHANGED budget
     \/ /\ \E r \in ReferencesOf(Current) : ~Evaluates(r)
        /\ Error
        /\ UNCHANGED budget
     \/ Fault /\ Error
  /\ UNCHANGED <<resource, live>>

New(n) ==
  [version |-> copy, reads |-> Rendered(n), out |-> 0,
   verdict |-> IF n \in Judged THEN "progressing" ELSE "ready"]

Create ==
  /\ pc = "create"
  /\ \/ /\ live' = [live EXCEPT ![Current] = New(Current)]
        /\ Goto("refresh")
        /\ UNCHANGED budget
     \/ Fault /\ Error /\ UNCHANGED live
  /\ UNCHANGED resource

\* (slip: an object that exists is left as it is)
ReplacedSlip(n) == live[n]

\* The spec is replaced key by key; an object without one stays as it is.
Replaced(n) ==
  IF n \in HasSpec THEN [live[n] EXCEPT !.version = copy, !.reads = Rendered(n)]
                   ELSE live[n]

\* retry.RetryOnConflict over {Get; Update}; an object that is gone is an error.
Update ==
  /\ pc = "update"
  /\ \/ /\ live[Current] # Nil
        /\ live' = [live EXCEPT ![Current] = Replaced(Current)]
        /\ Goto("refresh")
        /\ UNCHANGED budget
     \/ /\ live[Current] = Nil
        /\ Error
        /\ UNCHANGED <<live, budget>>
     \/ Fault /\ Error /\ UNCHANGED live
  /\ UNCHANGED resource

VerdictOn(n, object) == IF n \in Judged THEN object.verdict ELSE "ready"

\* (slip: the last object decides)
StateAfterSlip(verdict) == IF verdict = "ready" THEN "Success" ELSE "Running"

StateAfter(verdict) == IF verdict = "ready" THEN state ELSE "Running"

\* The object joins the arguments, and the run goes on to the next one.
Accept ==
  /\ live[Current] # Nil
  /\ VerdictOn(Current, live[Current]) # "failed"
  /\ args' = [args EXCEPT ![Current] = live[Current]]
  /\ state' = StateAfter(VerdictOn(Current, live[Current]))
  /\ index' = index + 1
  /\ pc' = "object"
  /\ UNCHANGED <<pending, copy, order, answer, budget>>

(***************************************************************************)
(* The object is read back and judged.  An expression over a status that   *)
(* is not there yet is false or an error, depending on how it asks.        *)
(***************************************************************************)
Unanswered(n) ==
  \/ live[n] = Nil
  \/ live[n] # Nil /\ n \in Judged /\ live[n].out = 0

Refresh ==
  /\ pc = "refresh"
  /\ \/ /\ live[Current] # Nil
        /\ VerdictOn(Current, live[Current]) = "failed"
        /\ Return("Failed")
        /\ UNCHANGED <<pending, budget>>
     \/ Accept
     \/ /\ Unanswered(Current)
        /\ Error
        /\ UNCHANGED budget
     \/ Fault /\ Error
  /\ UNCHANGED <<resource, live>>

\* (slip: a running provisioner is not waited for)
ConcludeSlip ==
  /\ pc = "object"
  /\ index > Len(order)
  /\ Return(state)
  /\ UNCHANGED pending
  /\ UNCHANGED <<resource, live, budget>>

Conclude ==
  /\ pc = "object"
  /\ index > Len(order)
  /\ Return(state)
  /\ pending' = (pending \/ state = "Running")
  /\ UNCHANGED <<resource, live, budget>>

Crash ==
  /\ crashes < MaxCrashes
  /\ crashes' = crashes + 1
  /\ Return("none")
  /\ cached' = spec
  /\ pending' = TRUE
  /\ UNCHANGED <<spec, live, removals, faults>>

-----------------------------------------------------------------------------
Run == Start \/ Evaluate \/ Create \/ Update \/ Refresh \/ Conclude

World == Edit \/ Deliver \/ \E n \in Name : Remove(n) \/ Withdraw(n) \/ Report(n)

Next == World \/ Run \/ Crash

Spec == Init /\ [][Next]_vars

\* The worker, the informer and the objects' own controllers keep running.
Fairness == WF_vars(Run) /\ WF_vars(Deliver) /\ \A n \in Name : WF_vars(Report(n))

FairSpec == Spec /\ Fairness
==============================================================================
