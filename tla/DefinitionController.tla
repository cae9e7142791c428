-------------------------- MODULE DefinitionController --------------------------
(***************************************************************************)
(* ResourceDefinitionReconciler and ResourceGroupDefinitionReconciler,     *)
(* internal/controller/resource{,group}definition_controller.go.  Both     *)
(* expand a template, once per value of a generator, to objects they       *)
(* create or update: Resources the first, ResourceGroups the second.  The  *)
(* first also lists what it expanded in its status.  A definition without  *)
(* a generator is one whose generator has a single value.                  *)
(***************************************************************************)
EXTENDS Naturals, Sequences, FiniteSets

CONSTANTS
  Value,       \* the values a generator may yield
  Name,        \* the names the template may expand to
  NameOf,      \* the name each value gives; two values may give the same
  Lists,       \* the lists of values a generator's spec may hold
  FirstDefinitions, \* what a definition may be created with
  Offers,      \* what Inventory answers a KCL program with, one list after the other
  Annotated,   \* the versions of the template with metadata.annotations
  MaxVersion,  \* bound: versions of the template
  MaxUid,      \* bound: incarnations of the definition
  MaxTouches,  \* bound: status writes of the other controllers to an object
  MaxFaults,   \* bound: failed calls, exhausted retries and restarts
  Nil          \* no object

\* An object the template was expanded to: its identity, the incarnation of the
\* definition that owns it, the value and the version it was last written from,
\* whether it has an annotations map, and a count of the status writes of the
\* controller it belongs to.
Objects == [uid: Nat, owner: Nat, value: Value, version: Nat, annotations: BOOLEAN, touched: Nat]

\* The two kinds of definition; only the status of the first has a list.
Kinds == {"ResourceDefinition", "ResourceGroupDefinition"}

\* Where a generator takes its values from: its own spec, or Inventory.
Sources == {"list", "inventory"}

\* The definition: the list and the template of its spec, and its status.
Definitions == [uid: Nat, kind: Kinds, source: Sources, list: Lists, version: Nat,
                status: {"", "Pending", "Ready"}, known: SUBSET (Name \X Nat)]

ASSUME DefinitionAssumption ==
  /\ Nil \notin Definitions /\ Nil \notin Objects
  /\ IsFiniteSet(Name)
  /\ NameOf \in [Value -> Name]
  /\ Lists \subseteq Seq(Value)
  /\ FirstDefinitions \subseteq [kind: Kinds, source: Sources, list: Lists]
  /\ Offers \in Seq(Seq(Value)) /\ Offers # << >>
  /\ Annotated \subseteq Nat
  /\ {MaxVersion, MaxUid, MaxTouches, MaxFaults} \subseteq Nat

VARIABLES
  def, dcache,     \* the definition, as stored and as cached
  defs,            \* how many were created
  offer,           \* the position in Offers
  child, ccache,   \* the expanded objects, as stored and as cached
  pending,         \* the definition's key is in the work queue
  pc, obj,         \* the worker, and its copy of the definition
  values,          \* generatorList.Variables, of this reconciliation or the last
  index, known,    \* the position in them, `knowResources`
  faults           \* how many have happened

objects == <<child, ccache>>
worker == <<pc, obj, values, index, known>>
definition == <<def, dcache, defs>>
vars == <<definition, offer, objects, pending, worker, faults>>

TypeOK ==
  /\ {def, dcache, obj} \subseteq Definitions \union {Nil}
  /\ {child, ccache} \subseteq [Name -> Objects \union {Nil}]
  /\ pending \in BOOLEAN
  /\ pc \in {"idle", "pending", "reread", "resolve", "expand", "ready"}
  /\ (pc = "idle") = (obj = Nil)
  /\ offer \in DOMAIN Offers
  /\ values \in Lists \union {Offers[i] : i \in DOMAIN Offers} \union {<< >>}
  /\ pc = "expand" => index \in 1..Len(values) + 1
  /\ known \subseteq Name \X Nat
  /\ {defs, faults} \subseteq Nat

Init ==
  /\ def = Nil /\ dcache = Nil /\ defs = 0
  /\ offer = 1
  /\ child = [n \in Name |-> Nil] /\ ccache = child
  /\ pending = FALSE
  /\ pc = "idle" /\ obj = Nil /\ values = << >> /\ index = 1 /\ known = {}
  /\ faults = 0

-----------------------------------------------------------------------------
(***************************************************************************)
(* The world.  There is no predicate: every event of the definition wakes  *)
(* its controller, those of the status writes it made itself included; no  *)
(* event of an expanded object does.                                       *)
(***************************************************************************)
CreateDefinition ==
  /\ def = Nil
  /\ defs < MaxUid
  /\ defs' = defs + 1
  /\ \E first \in FirstDefinitions :
       def' = [uid |-> defs + 1, kind |-> first.kind, source |-> first.source, list |-> first.list,
               version |-> 1, status |-> "", known |-> {}]
  /\ UNCHANGED <<dcache, offer, objects, pending, worker, faults>>

EditDefinition ==
  /\ def # Nil
  /\ def.version < MaxVersion
  /\ \E list \in IF def.source = "list" THEN Lists ELSE {def.list} :
       def' = [def EXCEPT !.list = list, !.version = @ + 1]
  /\ UNCHANGED <<dcache, defs, offer, objects, pending, worker, faults>>

DeleteDefinition ==
  /\ def # Nil
  /\ def' = Nil
  /\ UNCHANGED <<dcache, defs, offer, objects, pending, worker, faults>>

\* Inventory changes, and nothing tells the controller.
Offer ==
  /\ offer + 1 \in DOMAIN Offers
  /\ offer' = offer + 1
  /\ UNCHANGED <<definition, objects, pending, worker, faults>>

\* The garbage collector removes what a dead definition owns.
Owned(n) == def # Nil /\ child[n].owner = def.uid

Collect(n) ==
  /\ child[n] # Nil
  /\ ~Owned(n)
  /\ child' = [child EXCEPT ![n] = Nil]
  /\ UNCHANGED <<definition, offer, ccache, pending, worker, faults>>

Touch(n) ==
  /\ child[n] # Nil
  /\ \A m \in Name : child[m] # Nil => child[m].touched < MaxTouches
  /\ child' = [child EXCEPT ![n].touched = @ + 1]
  /\ UNCHANGED <<definition, offer, ccache, pending, worker, faults>>

\* (slip: the events of status writes are dropped, those of the spec with them)
DeliverDefinitionSlip ==
  /\ dcache # def
  /\ dcache' = def
  /\ pending' = (pending \/ dcache = Nil)
  /\ UNCHANGED <<def, defs, offer, objects, worker, faults>>

DeliverDefinition ==
  /\ dcache # def
  /\ dcache' = def
  /\ pending' = TRUE
  /\ UNCHANGED <<def, defs, offer, objects, worker, faults>>

DeliverObject(n) ==
  /\ ccache[n] # child[n]
  /\ ccache' = [ccache EXCEPT ![n] = child[n]]
  /\ UNCHANGED <<definition, offer, child, pending, worker, faults>>

-----------------------------------------------------------------------------
\* (slip: the worker's copy is kept)
ReturnSlip == pc' = "idle" /\ obj' = obj /\ index' = 1 /\ known' = {} /\ UNCHANGED values

Return == pc' = "idle" /\ obj' = Nil /\ index' = 1 /\ known' = {} /\ UNCHANGED values
Done == Return /\ UNCHANGED pending
Requeue == Return /\ pending' = TRUE
Goto(label) == pc' = label /\ UNCHANGED pending

Fault == faults < MaxFaults /\ faults' = faults + 1

\* (slip: every reconciliation starts by writing Pending)
StartSlip ==
  /\ pc = "idle"
  /\ pending
  /\ pending' = FALSE
  /\ IF dcache = Nil
       THEN UNCHANGED worker
       ELSE pc' = "pending" /\ obj' = dcache /\ UNCHANGED <<values, index, known>>
  /\ UNCHANGED <<definition, offer, objects, faults>>

Start ==
  /\ pc = "idle"
  /\ pending
  /\ pending' = FALSE
  /\ IF dcache = Nil
       THEN UNCHANGED worker
       ELSE /\ pc' = IF dcache.status = "" THEN "pending" ELSE "resolve"
            /\ obj' = dcache
            /\ UNCHANGED <<values, index, known>>
  /\ UNCHANGED <<definition, offer, objects, faults>>

\* The first status write.
WritePending ==
  /\ pc = "pending"
  /\ \/ /\ def = obj
        /\ def' = [obj EXCEPT !.status = "Pending"]
        /\ Goto("reread")
        /\ UNCHANGED <<obj, values, index, known, faults>>
     \/ /\ def # obj
        /\ Requeue
        /\ UNCHANGED <<def, faults>>
     \/ /\ Fault
        /\ Requeue
        /\ UNCHANGED def
  /\ UNCHANGED <<dcache, defs, offer, objects>>

\* The definition read back from the cache may be the one before the write, or
\* one with a newer spec.
Reread ==
  /\ pc = "reread"
  /\ IF dcache = Nil
       THEN Requeue
       ELSE obj' = dcache /\ Goto("resolve") /\ UNCHANGED <<values, index, known>>
  /\ UNCHANGED <<definition, offer, objects, faults>>

\* NewGeneratorList: the values are read once for the whole reconciliation.
Resolved == IF obj.source = "list" THEN obj.list ELSE Offers[offer]

Resolve ==
  /\ pc = "resolve"
  /\ \/ /\ values' = Resolved
        /\ Goto("expand")
        /\ UNCHANGED <<obj, index, known, faults>>
     \/ /\ obj.source = "inventory"
        /\ Fault
        /\ Requeue
  /\ UNCHANGED <<definition, offer, objects>>

-----------------------------------------------------------------------------
(***************************************************************************)
(* newOrUpdateResource and newOrUpdateResourceGroup, for the value at      *)
(* `index`.  Create needs the name to be free; Update needs the cached     *)
(* object to be current, and first inserts the labels and the annotations  *)
(* into the maps the object has: a nil map panics, and the panic becomes   *)
(* an error of this reconciliation.                                        *)
(***************************************************************************)
ValueNow == values[index]
NameNow == NameOf[ValueNow]
WithAnnotations == obj.version \in Annotated

\* An identity no object has, nor any list or copy of one.
UsedIn(f) == {f[n].uid : n \in {m \in Name : f[m] # Nil}}
KnownTo(d) == IF d = Nil THEN {} ELSE {pair[2] : pair \in d.known}
Used ==
  UNION {UsedIn(child), UsedIn(ccache), KnownTo(def), KnownTo(dcache), KnownTo(obj),
         {pair[2] : pair \in known}}
FreshUid == CHOOSE u \in 1..Cardinality(Used) + 1 : u \notin Used

CreateObject ==
  /\ ccache[NameNow] = Nil /\ child[NameNow] = Nil
  /\ child' = [child EXCEPT ![NameNow] =
       [uid |-> FreshUid, owner |-> obj.uid, value |-> ValueNow, version |-> obj.version,
        annotations |-> WithAnnotations, touched |-> 0]]

UpdateObject ==
  /\ ccache[NameNow] # Nil
  /\ ccache[NameNow] = child[NameNow]
  /\ WithAnnotations => ccache[NameNow].annotations
  /\ child' = [child EXCEPT ![NameNow].value = ValueNow, ![NameNow].version = obj.version]

Refused ==
  \/ ccache[NameNow] = Nil /\ child[NameNow] # Nil
  \/ ccache[NameNow] # Nil /\ ccache[NameNow] # child[NameNow]
  \/ ccache[NameNow] # Nil /\ WithAnnotations /\ ~ccache[NameNow].annotations

\* (slip: a value that fails is logged, and the loop goes on with the next)
ExpandSlip ==
  /\ pc = "expand"
  /\ index <= Len(values)
  /\ \/ /\ CreateObject \/ UpdateObject
        /\ known' = known \union {<<NameNow, child'[NameNow].uid>>}
        /\ UNCHANGED faults
     \/ Refused /\ UNCHANGED <<child, known, faults>>
     \/ Fault /\ UNCHANGED <<child, known>>
  /\ index' = index + 1
  /\ UNCHANGED <<definition, offer, ccache, pc, obj, values, pending>>

Expand ==
  /\ pc = "expand"
  /\ index <= Len(values)
  /\ \/ /\ CreateObject \/ UpdateObject
        /\ index' = index + 1
        /\ known' = known \union {<<NameNow, child'[NameNow].uid>>}
        /\ UNCHANGED <<pc, obj, values, pending, faults>>
     \/ /\ Refused
        /\ Requeue
        /\ UNCHANGED <<child, faults>>
     \/ /\ Fault
        /\ Requeue
        /\ UNCHANGED child
  /\ UNCHANGED <<definition, offer, ccache>>

Expanded ==
  /\ pc = "expand"
  /\ index > Len(values)
  /\ Goto("ready")
  /\ UNCHANGED <<definition, offer, objects, obj, values, index, known, faults>>

\* The status of a ResourceDefinition lists what was expanded, and replaces
\* the list it had.
ReadyWithList(d) == [d EXCEPT !.status = "Ready", !.known = known]

\* The status of a ResourceGroupDefinition has no such list.
ReadyAlone(d) == [d EXCEPT !.status = "Ready"]

Ready(d) == IF d.kind = "ResourceDefinition" THEN ReadyWithList(d) ELSE ReadyAlone(d)

\* retry.RetryOnConflict over {Get; set status; Status().Update}: a definition
\* that is gone, from the cache or behind it, is an error at once.
WriteReady ==
  /\ pc = "ready"
  /\ \/ /\ dcache # Nil /\ dcache = def
        /\ def' = Ready(dcache)
        /\ Done
        /\ UNCHANGED faults
     \/ /\ dcache = Nil \/ def = Nil
        /\ Requeue
        /\ UNCHANGED <<def, faults>>
     \/ /\ Fault
        /\ Requeue
        /\ UNCHANGED def
  /\ UNCHANGED <<dcache, defs, offer, objects>>

Crash ==
  /\ Fault
  /\ Return
  /\ dcache' = def /\ ccache' = child
  /\ pending' = (def # Nil)
  /\ UNCHANGED <<def, defs, offer, child>>

-----------------------------------------------------------------------------
Reconcile ==
  \/ Start \/ WritePending \/ Reread \/ Resolve \/ Expand \/ Expanded \/ WriteReady

World ==
  \/ CreateDefinition \/ EditDefinition \/ DeleteDefinition \/ DeliverDefinition \/ Offer
  \/ \E n \in Name : Touch(n) \/ DeliverObject(n) \/ Collect(n)

Next == World \/ Reconcile \/ Crash

Spec == Init /\ [][Next]_vars

\* The worker, the informers and the garbage collector keep running.
Fairness ==
  /\ WF_vars(Reconcile)
  /\ WF_vars(DeliverDefinition)
  /\ \A n \in Name : WF_vars(DeliverObject(n)) /\ WF_vars(Collect(n))

FairSpec == Spec /\ Fairness

-----------------------------------------------------------------------------
AtRest == pc = "idle" /\ ~pending /\ dcache = def

Names(list) == {NameOf[list[i]] : i \in DOMAIN list}

\* The value the object named n is left with: the last one that gives the name.
Last(list, n) ==
  list[CHOOSE i \in DOMAIN list :
         NameOf[list[i]] = n /\ \A j \in DOMAIN list : NameOf[list[j]] = n => j <= i]

\* The values of a definition: those of its spec, or those Inventory answered
\* the last time it was asked.
Current == IF def.source = "list" THEN def.list ELSE values

(***************************************************************************)
(* When everything is quiet, a definition is Ready, every value of its     *)
(* generator has its object, written from the current template, and the    *)
(* status of a ResourceDefinition lists exactly those: no edit is lost     *)
(* between the expansion and the status write, which is made on the object *)
(* of the moment (lines 174 to 187 and 212 to 232), and of two values with *)
(* one name the last one stays.  Of Inventory's answers, which nobody      *)
(* watches, it is the one the reconciliation read, as a whole.             *)
(***************************************************************************)
AtRestExpanded ==
  AtRest /\ def # Nil =>
    /\ def.status = "Ready"
    /\ \A n \in Names(Current) :
         /\ child[n] # Nil
         /\ child[n].version = def.version
         /\ child[n].value = Last(Current, n)
    /\ def.kind = "ResourceDefinition" =>
         def.known = {<<n, child[n].uid>> : n \in Names(Current)}

(***************************************************************************)
(* Every definition is expanded as ExpansionContract promises.  A round    *)
(* begins when the values are there and is about the worker's copy; it     *)
(* ends with the write of Ready, an error or a restart.  A stale copy      *)
(* never takes an object back to an older version, a round that did not    *)
(* get through never makes a definition Ready, and a list never names an   *)
(* object of another round, whichever versions of the definition the round *)
(* and the status write meet.                                              *)
(***************************************************************************)
Asked ==
  IF def = Nil THEN Nil
  ELSE [uid |-> def.uid, version |-> def.version, kind |-> def.kind,
        source |-> def.source, list |-> def.list]
Status == IF def = Nil THEN Nil ELSE [ready |-> def.status = "Ready", listed |-> def.known]

InRound == pc \in {"expand", "ready"}
Round == IF InRound THEN [uid |-> obj.uid, version |-> obj.version, values |-> values] ELSE Nil

\* Without the annotations, and what the object's own controller writes.
Shown(n) ==
  IF child[n] = Nil THEN Nil
  ELSE [uid |-> child[n].uid, owner |-> child[n].owner,
        value |-> child[n].value, version |-> child[n].version]

Contract == INSTANCE ExpansionContract WITH
  asked <- Asked,
  status <- Status,
  round <- Round,
  put <- IF InRound THEN index - 1 ELSE 0,
  objects <- [n \in Name |-> Shown(n)]

ImplementsExpansion == Contract!ContractSpec

ASSUME ContractAssumption ==
  Nil \notin Contract!Askings /\ Nil \notin Contract!Rounds /\ Nil \notin Contract!Objects

(***************************************************************************)
(* The controller, which wakes itself with every status it writes, comes   *)
(* to rest once the users do, two values that expand to one name included. *)
(***************************************************************************)
Settles == <>[]AtRest

-----------------------------------------------------------------------------
(***************************************************************************)
(* Inductive forms of the invariants above.                                *)
(***************************************************************************)

\* A list of objects has finitely many.
KnownInv ==
  /\ IsFiniteSet(known)
  /\ \A d \in {def, dcache, obj} \ {Nil} : IsFiniteSet(d.known)

\* Nothing is expanded before the values are there, nothing left out at the end.
IndexInv ==
  /\ pc \notin {"expand", "ready"} => index = 1 /\ known = {}
  /\ pc = "ready" => index = Len(values) + 1

\* Unless the key came back, the worker's copy is what the informer shows.
CopyInv == pc # "idle" /\ ~pending => obj = dcache

\* The values are those of the copy's own list, if it has one.
ValuesInv == pc \in {"expand", "ready"} /\ obj.source = "list" => values = obj.list

\* The informer's copy is never ahead.
VersionsInv ==
  def # Nil /\ dcache # Nil /\ dcache.uid = def.uid => dcache.version <= def.version

(***************************************************************************)
(* What only the refinement needs.                                         *)
(***************************************************************************)

\* The first status write is of a definition that had none.
PendingInv == pc = "pending" => obj.status = ""

\* Versions come in the order they are made: to the definition, the informer,
\* the worker, the objects.
OrderInv ==
  /\ obj # Nil => \A d \in {def, dcache} \ {Nil} : obj.version <= d.version
  /\ \A d \in {def, dcache, obj} \ {Nil}, n \in Name :
       child[n] # Nil => child[n].version <= d.version

\* A version is one spec, in whatever copy.
SpecsInv ==
  def # Nil =>
    \A d \in {dcache, obj} \ {Nil} :
      d.version = def.version => d.source = def.source /\ d.list = def.list

(***************************************************************************)
(* What AtRestExpanded and ImplementsExpansion need: the name of a         *)
(* definition is only used again when nothing is left of the one that had  *)
(* it, neither in the cache, nor in the worker's hands, nor the objects it *)
(* owned.  No code sees to it; without it, AtRestExpanded is not kept.     *)
(***************************************************************************)
NameIsFree == dcache = Nil /\ pc = "idle" /\ \A n \in Name : child[n] = Nil
NamesRest == [][def = Nil /\ def' # Nil => NameIsFree]_vars

\* All that is there belongs to the living definition.
OwnersInv ==
  def # Nil =>
    /\ dcache # Nil => dcache.uid = def.uid
    /\ pc # "idle" => obj.uid = def.uid
    /\ \A n \in Name : child[n] # Nil => Owned(n)

\* The object named n is written from the last of the first k values with the name.
WrittenFrom(n, k, version) ==
  /\ child[n] # Nil
  /\ child[n].version = version
  /\ \E i \in 1..k :
       /\ NameOf[values[i]] = n /\ child[n].value = values[i]
       /\ \A j \in 1..k : NameOf[values[j]] = n => j <= i

\* What the worker has expanded is there, and is what it will list.
ExpandedInv ==
  def # Nil /\ pc \in {"expand", "ready"} =>
    /\ \A i \in 1..index - 1 : WrittenFrom(NameOf[values[i]], index - 1, obj.version)
    /\ known = {<<NameOf[values[i]], child[NameOf[values[i]]].uid>> : i \in 1..index - 1}
===============================================================================
